---------------------------- MODULE StackAssembly ----------------------------
(***************************************************************************)
(* How instances and what goes with them become stacks that have no        *)
(* template: aws.go, getNativeStacks, for the instances of one region, and *)
(* gcp.go, GetStacks, for those of the project.  A stack stands for a      *)
(* value of the grouping label.  The operators here are one round of the   *)
(* loops over the instances; Listing takes the rounds in any order.        *)
(***************************************************************************)
EXTENDS Naturals, Sequences, Functions

CONSTANTS
  Instances,
  Tagged,          \* the instances and parts with the grouping label
  GroupOf,         \* its value, for each of them
  StateOf, TagsOf,                 \* of each instance; TagsOf: the keys of its tags
  NameOf,                          \* GCP: names are unique in a zone only
  RegionOf,                        \* AWS: of each instance and part
  CfTagged,                        \* AWS: the instances and parts with CF_TAG
  LoadBalancers, ElasticIps, SecurityGroups,
  VolumesOf,                       \* AWS: the volumes to be deleted with the stack
  AlarmsOf,                        \* AWS: the alarms with a dimension InstanceId
  NetworksOf,                      \* GCP: the networks of the instance's interfaces
  Described,                       \* GCP: the networks with the ResourceDescription
  FirewallsOf, SubnetsOf,          \* GCP: of each network
  AddressesOf,                     \* GCP: the external addresses of each instance
  Databases                        \* GCP

Networks  == DOMAIN FirewallsOf
Firewalls == UNION {FirewallsOf[n] : n \in Networks}
Subnets   == UNION {SubnetsOf[n] : n \in Networks}
Addresses == UNION {AddressesOf[i] : i \in Instances}

\* Parts of different kinds, which have lists of their own in the code, are not
\* mistaken for each other; an alarm has one dimension of a name, so that it is
\* the alarm of one instance.
ASSUME StackAssemblyAssumption ==
  /\ \A i \in Instances :
       /\ AlarmsOf[i] \cap (LoadBalancers \cup ElasticIps \cup SecurityGroups) = {}
       /\ \A j \in Instances :
            /\ AlarmsOf[i] \cap VolumesOf[j] = {}
            /\ i # j => AlarmsOf[i] \cap AlarmsOf[j] = {}
       /\ NetworksOf[i] \in Seq(Networks)
  /\ Networks \cap (Firewalls \cup Subnets \cup Addresses \cup Databases) = {}
  /\ Firewalls \cap (Subnets \cup Addresses \cup Databases) = {}
  /\ Subnets \cap (Addresses \cup Databases) = {}
  /\ Addresses \cap Databases = {}

\* The last of a listing, or the first, is any of them, if there is one.
OneOf(S) == IF S = {} THEN {{}} ELSE {{x} : x \in S}

\* Region, Zone and Owner are those of the first instance.
NewStack(i, parts) ==
  [id |-> GroupOf[i], first |-> i, instances |-> {}, parts |-> parts,
   state |-> StateOf[i], tags |-> {}]

\* Mutant of Join: the state of the last instance.
JoinLast(stack, i, parts) ==
  [id |-> stack.id, first |-> stack.first, instances |-> stack.instances \cup {i},
   parts |-> stack.parts \cup parts, state |-> StateOf[i], tags |-> stack.tags \cup TagsOf[i]]

Join(stack, i, parts) ==
  [id |-> stack.id, first |-> stack.first, instances |-> stack.instances \cup {i},
   parts |-> stack.parts \cup parts,
   state |-> IF StateOf[i] = stack.state THEN stack.state ELSE "Unknown",
   tags |-> stack.tags \cup TagsOf[i]]

\* stacks is a set, with one record at most for a group.
AddInstance(stacks, i, initial, own) ==
  LET there   == {s \in stacks : s.id = GroupOf[i]}
      current == IF there = {} THEN NewStack(i, initial) ELSE CHOOSE s \in there : TRUE
  IN  (stacks \ there) \cup {Join(current, i, own)}

-----------------------------------------------------------------------------
(* AWS.  unread are the load balancers whose tags could not be fetched;    *)
(* alarm holds the alarm of the instance, if there is one.  A load         *)
(* balancer is taken even if it belongs to a CloudFormation stack.         *)

PartsOf(g, r, unread) ==
  {p \in (LoadBalancers \ unread) \cup ((ElasticIps \cup SecurityGroups) \ CfTagged) :
     p \in Tagged /\ GroupOf[p] = g /\ RegionOf[p] = r}

\* alarmsByInstanceId: the last alarm of the instance in the listing.
AlarmOf(i) == OneOf(AlarmsOf[i])

AddNative(stacks, i, unread, alarm) ==
  IF i \in CfTagged \/ i \notin Tagged THEN stacks
  ELSE AddInstance(stacks, i, PartsOf(GroupOf[i], RegionOf[i], unread), VolumesOf[i] \cup alarm)

-----------------------------------------------------------------------------
(* GCP.  firewall holds the firewall of each network, database that of the *)
(* group of the instance, if there is one.                                 *)

\* networkName and firewallName are overwritten by every interface whose
\* network is known, the latter only if that network has a firewall.
NetworkParts(i, firewall) ==
  LET network(k) == NetworksOf[i][k]
      known      == {k \in DOMAIN NetworksOf[i] : network(k) \in Described}
      filtered   == {k \in known : firewall[network(k)] # {}}
      last(ks)   == {k \in ks : \A j \in ks : j <= k}
  IN  {network(k) : k \in last(known)}
        \cup (UNION {firewall[network(k)] : k \in last(filtered)})
        \cup (UNION {SubnetsOf[network(k)] : k \in known})

\* The first database of the group in the listing.
DatabasesOf(g) == {d \in Databases \cap Tagged : GroupOf[d] = g}

AddGcp(stacks, i, firewall, database) ==
  IF i \notin Tagged THEN stacks
  ELSE AddInstance(stacks, i, NetworkParts(i, firewall) \cup database, AddressesOf[i])

\* The state that was put together is not used.
AsRunning(stack) ==
  [id |-> stack.id, first |-> stack.first, instances |-> stack.instances,
   parts |-> stack.parts, state |-> "Running", tags |-> stack.tags]

\* instancesByName: the last instance of a name.
InstancesByName ==
  {kept \in SUBSET Instances :
     \A i \in Instances : \E j \in kept :
       NameOf[j] = NameOf[i] /\ \A k \in kept : NameOf[k] = NameOf[i] => k = j}

\* firewallsByNetwork: the last firewall of each network.
FirewallsByNetwork ==
  {firewall \in [Networks -> SUBSET Firewalls] :
     \A n \in Networks : firewall[n] \in OneOf(FirewallsOf[n])}

-----------------------------------------------------------------------------
(* What a stack should be when the loop has seen the instances is, in      *)
(* whatever order.                                                         *)

Members(g, is) == {i \in is \cap Tagged : GroupOf[i] = g}

\* Only which instance came first depends on the order.
Sums(s, is) ==
  /\ s.instances = Members(s.id, is)
  /\ s.tags = UNION {TagsOf[i] : i \in s.instances}
  /\ s.first \in s.instances

CommonState(s) ==
  \/ \A i \in s.instances : StateOf[i] = s.state
  \/ s.state = "Unknown" /\ \E i, j \in s.instances : StateOf[i] # StateOf[j]

\* parts has one of S, if there is any, and no other of the kind.
HasOneOf(parts, S, kind) == parts \cap kind \in OneOf(S)

\* A native stack of region r: everything with its label and without CF_TAG,
\* and for each instance its volumes and one alarm, if there is one.
IsWholeNative(s, r, unread, is) ==
  /\ Sums(s, is) /\ CommonState(s)
  /\ s.parts \ UNION {AlarmsOf[i] : i \in s.instances} =
       PartsOf(s.id, r, unread) \cup UNION {VolumesOf[i] : i \in s.instances}
  /\ \A i \in s.instances : HasOneOf(s.parts, AlarmsOf[i], AlarmsOf[i])

\* A GCP stack: all addresses, a database if there is one, and of the networks
\* of its first instance one, all their subnets, and the firewall of one.
IsWholeGcp(s, is) ==
  LET mine == Range(NetworksOf[s.first]) \cap Described
  IN  /\ Sums(s, is)
      /\ s.parts \cap Addresses = UNION {AddressesOf[i] : i \in s.instances}
      /\ HasOneOf(s.parts, DatabasesOf(s.id), Databases)
      /\ HasOneOf(s.parts, mine, Networks)
      /\ s.parts \cap Subnets = UNION {SubnetsOf[n] : n \in mine}
      /\ HasOneOf(s.parts, UNION {FirewallsOf[n] : n \in mine}, Firewalls)
=============================================================================
