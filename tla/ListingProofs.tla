---------------------------- MODULE ListingProofs ----------------------------
(***************************************************************************)
(* The invariants of Listing for all clouds, pages and capacities.  What   *)
(* was received is on its way to the caller until it is listed or dropped, *)
(* wherever the call is; a stack is whole with respect to the instances    *)
(* that its loop has seen, and there is one for each of their groups.      *)
(***************************************************************************)
EXTENDS Listing, WellFoundedInduction, FiniteSetTheorems, TLAPS

Assembled == {"native", "gcpStacks"}

Places == {"idle", "page", "asked", "assemble", "loop", "send", "view", "done"}

Typed ==
  /\ call \in Calls
  /\ pc \in {"list", "keys", "sets", "assemble", "receive", "returned", "crashed"}
  /\ at \in [Workers -> Places]
  /\ page \in [Scopes -> Nat]
  /\ pending = [s \in Scopes |-> pending[s]]
  /\ left \in [Scopes -> SUBSET Instances]

\* Each call has its own phases; an error is an answer of its own.
Phases ==
  /\ call \in FanOut => pc \in {"receive", "returned", "crashed"}
  /\ pc = "receive" => call \in FanOut \cup {"machines"}
  /\ pc = "keys" => call = "accesses"
  /\ pc = "sets" => call = "machines"
  /\ pc = "assemble" => call = "gcpStacks"
  /\ err => pc = "returned" /\ listed = {} /\ call \in AllOrNone

\* Who runs in which phase; the channel is closed after the last goroutine.
Running ==
  /\ \A s \in Sections :
       /\ at[s] # "view"
       /\ at[s] \in {"assemble", "loop"} => call = "native"
       /\ call \in FanOut => at[s] # "idle"
       /\ at[s] \notin {"loop", "send"} => pending[s] = {}
  /\ \A v \in Machines :
       /\ at[v] \in {"idle", "view", "done"}
       /\ at[v] = "view" => v \in vmList
  /\ call # "machines" => \A v \in Machines : at[v] = "idle"
  /\ call \notin FanOut \cup {"machines"} \/ pc \in {"list", "sets"} => \A w \in Workers : at[w] = "idle"
  /\ closed => pc \in {"receive", "returned"} /\ \A w \in Workers : at[w] \in {"idle", "done"}
  /\ call \in FanOut \cup {"machines"} /\ pc = "returned" => closed /\ chan = {}
  /\ call \notin Buffered => chan = {}

\* A page is missing only after a failure.
PagesRead ==
  /\ \A s \in Scopes : page[s] <= LastPage(s)
  /\ call = "accesses" => page[Account] = 0
  /\ \A s \in Sections :
       /\ at[s] \in {"page", "asked"} => page[s] < LastPage(s)
       /\ at[s] \in {"assemble", "loop", "done"} \/ (at[s] = "send" /\ call = "native") =>
            s \in cut \/ page[s] = LastPage(s)
       /\ at[s] \notin {"idle", "done"} => s \notin cut
       /\ call = "machines" =>
            IF pc \in {"list", "sets"} THEN page[s] = 0 /\ s \notin cut ELSE (at[s] = "idle" => s \in cut)
       /\ call = "accesses" /\ pc = "returned" /\ ~err => page[s] = LastPage(s)
  /\ Account \in Sources /\ pc # "list" /\ ~err => Account \in cut \/ page[Account] = LastPage(Account)

Got(s) == UNION {Pages[s][k] : k \in 1 .. page[s]}

UnderWay(s) ==
  IF s # Account THEN pending[s]
  ELSE IF call # "machines" THEN {}
  ELSE IF pc \in {"list", "sets"} THEN vmList
  ELSE {v \in vmList : at[v] = "view"}

Out == listed \cup chan \cup dropped

ReceivedIsKept ==
  call \notin Assembled /\ pc # "crashed" /\ ~err =>
    \A s \in Sources : Got(s) \cap Wanted(s) \subseteq Out \cup UnderWay(s)

NothingElse ==
  call \notin Assembled =>
    /\ listed \cup chan \subseteq UNION {Wanted(s) : s \in Sources}
    /\ \A s \in Sections : pending[s] \subseteq Wanted(s)
    /\ vmList \subseteq Machines

\* A machine is listed or dropped, and neither before its turn.
Once ==
  /\ call = "machines" =>
       /\ dropped \cap (listed \cup chan) = {}
       /\ \A s \in Sections : Out \cap ItemsOf(s) \subseteq Got(s) \ pending[s]
       /\ \A s \in Sections : pending[s] \subseteq Got(s)
       /\ \A v \in Machines : at[v] \in {"idle", "view"} => v \notin Out
  /\ call # "machines" => dropped = {}

OnePerGroup(stacks, is) ==
  /\ \A i \in is \cap Tagged : \E stack \in stacks : stack.id = GroupOf[i]
  /\ \A s, t \in stacks : s.id = t.id => s = t

NativeWhole(stacks, r, missed, is) ==
  /\ \A stack \in stacks : RegionOf[stack.first] = r /\ IsWholeNative(stack, r, missed, is)
  /\ OnePerGroup(stacks, is)

\* The stacks of a region, wherever they are.
Made(r) == pending[r] \cup {stack \in chan \cup listed : RegionOf[stack.first] = r}

Seen(r) == NativeOf(r) \ left[r]

NativeSoFar ==
  call = "native" =>
    /\ \A r \in Sections :
         /\ NativeWhole(Made(r), r, unread, Seen(r))
         /\ \A i \in left[r] : RegionOf[i] = r
         /\ at[r] \in {"page", "asked", "assemble"} \/ r \in cut => NativeOf(r) \subseteq left[r]
         /\ at[r] \notin {"send", "done"} => \A stack \in chan \cup listed : RegionOf[stack.first] # r
         /\ at[r] \in {"send", "done"} /\ r \notin cut => left[r] = {}
    /\ \A stack \in chan \cup listed : RegionOf[stack.first] \in Sections

GcpWhole(stacks, is) ==
  /\ \A stack \in stacks : IsWholeGcp(stack, is)
  /\ OnePerGroup(stacks, is)

GcpSoFar ==
  call = "gcpStacks" =>
    /\ pc = "list" => pending[Account] = {} /\ listed = {}
    /\ pc = "assemble" =>
         /\ left[Account] \subseteq kept /\ kept \subseteq Instances
         /\ firewalls \in FirewallsByNetwork
         /\ GcpWhole(pending[Account], kept \ left[Account])
    /\ pc = "returned" /\ ~err => GcpWhole(listed, kept)

IInv ==
  /\ Typed /\ Phases /\ Running /\ PagesRead
  /\ ReceivedIsKept /\ NothingElse /\ Once
  /\ NativeSoFar /\ GcpSoFar

-----------------------------------------------------------------------------
(* The assembly of stacks. *)

\* A list that is not empty has a last element.
LEMMA LastElement ==
  ASSUME NEW n \in Nat, NEW ks \in SUBSET (1 .. n), ks # {}
  PROVE  \E k \in ks : \A j \in ks : j <= k
<1> DEFINE down == {n - k : k \in ks}
<1>1. \A k \in ks : k \in Nat /\ n - k \in Nat
  OBVIOUS
<1>2. down \subseteq Nat /\ down # {}
  BY <1>1
<1>3. PICK m \in down : \A d \in down : ~ (<<d, m>> \in OpToRel(<, Nat))
  <2> HIDE DEF down
  <2> QED
    BY <1>2, NatLessThanWellFounded, WFMin
<1>4. \A d \in down : ~ (d < m)
  <2>1. \A d \in Nat : d < m => <<d, m>> \in OpToRel(<, Nat)
    <3>1. m \in Nat
      BY <1>2
    <3> HIDE DEF down
    <3> QED
      BY <3>1 DEF OpToRel
  <2> QED
    BY <1>2, <1>3, <2>1
<1>5. PICK k \in ks : m = n - k
  OBVIOUS
<1>6. \A j \in ks : j <= k
  <2> TAKE j \in ks
  <2>1. ~ (n - j < n - k)
    BY <1>4, <1>5
  <2> QED
    BY <2>1, <1>1
<1> QED
  BY <1>6

\* A round of either loop: the instance joins the stack of its group, or starts it.
LEMMA Grouping ==
  ASSUME NEW stacks, NEW is, NEW i \in Tagged, i \notin is, NEW initial, NEW own,
         \A stack \in stacks : Sums(stack, is), OnePerGroup(stacks, is)
  PROVE  \E old \in stacks \cup {NewStack(i, initial)} :
           /\ old.id = GroupOf[i]
           /\ old \notin stacks => \A stack \in stacks : stack.id # GroupOf[i]
           /\ AddInstance(stacks, i, initial, own) =
                {stack \in stacks : stack.id # GroupOf[i]} \cup {Join(old, i, own)}
           /\ OnePerGroup(AddInstance(stacks, i, initial, own), is \cup {i})
           /\ \A stack \in AddInstance(stacks, i, initial, own) : Sums(stack, is \cup {i})
<1> DEFINE there == {stack \in stacks : stack.id = GroupOf[i]}
           fresh == NewStack(i, initial)
           after == AddInstance(stacks, i, initial, own)
<1>1. PICK old \in stacks \cup {fresh} :
        /\ old.id = GroupOf[i]
        /\ old \in stacks \/ (there = {} /\ old = fresh)
        /\ after = (stacks \ there) \cup {Join(old, i, own)}
  <2>1. CASE there = {}
    <3>1. fresh.id = GroupOf[i]
      BY DEF NewStack
    <3> QED
      BY <2>1, <3>1 DEF AddInstance
  <2>2. CASE there # {}
    <3> DEFINE chosen == CHOOSE stack \in there : TRUE
    <3>1. chosen \in there
      BY <2>2
    <3> QED
      BY <2>2, <3>1 DEF AddInstance
  <2> QED
    BY <2>1, <2>2
<1>2. after = {stack \in stacks : stack.id # GroupOf[i]} \cup {Join(old, i, own)}
  BY <1>1
<1>3. /\ Join(old, i, own).id = GroupOf[i]
      /\ Join(old, i, own).first = old.first
      /\ Join(old, i, own).instances = old.instances \cup {i}
      /\ Join(old, i, own).tags = old.tags \cup TagsOf[i]
  BY <1>1 DEF Join
<1>4. OnePerGroup(after, is \cup {i})
  <2>1. \A j \in (is \cup {i}) \cap Tagged : \E stack \in after : stack.id = GroupOf[j]
    BY <1>2, <1>3 DEF OnePerGroup
  <2> QED
    BY <1>2, <1>3, <2>1 DEF OnePerGroup
<1>5. Members(GroupOf[i], is \cup {i}) = Members(GroupOf[i], is) \cup {i}
  BY DEF Members
<1>6. \A g : g # GroupOf[i] => Members(g, is \cup {i}) = Members(g, is)
  BY DEF Members
<1>7. Sums(Join(old, i, own), is \cup {i})
  <2>1. CASE old \in stacks
    <3>1. Sums(old, is)
      BY <2>1
    <3>2. UNION {TagsOf[j] : j \in old.instances \cup {i}} = old.tags \cup TagsOf[i]
      BY <3>1 DEF Sums
    <3> QED
      BY <1>1, <1>3, <1>5, <3>1, <3>2 DEF Sums
  <2>2. CASE old \notin stacks
    <3>1. /\ old = fresh /\ old.instances = {} /\ old.tags = {} /\ old.first = i
          /\ \A stack \in stacks : stack.id # GroupOf[i]
      BY <1>1, <2>2 DEF NewStack
    <3>2. Members(GroupOf[i], is) = {}
      BY <3>1 DEF Members, OnePerGroup
    <3>3. UNION {TagsOf[j] : j \in old.instances \cup {i}} = old.tags \cup TagsOf[i]
      BY <3>1
    <3> QED
      BY <1>3, <1>5, <3>1, <3>2, <3>3 DEF Sums
  <2> QED
    BY <2>1, <2>2
<1>8. \A stack \in after : Sums(stack, is \cup {i})
  BY <1>2, <1>6, <1>7 DEF Sums
<1> HIDE DEF after, fresh
<1>9. old \notin stacks => \A stack \in stacks : stack.id # GroupOf[i]
  BY <1>1
<1> QED
  BY <1>1, <1>2, <1>4, <1>8, <1>9 DEF after, fresh

\* One of a set is a part of it, and is missing only if the set is empty.
LEMMA OneOfIsSubset ==
  ASSUME NEW S, NEW X \in OneOf(S)
  PROVE  X \subseteq S /\ (X = {} => S = {})
BY DEF OneOf

\* An instance that is not added to a stack is no member of one.
LEMMA NoMember ==
  ASSUME NEW stacks, NEW is, NEW i, i \notin Tagged, OnePerGroup(stacks, is)
  PROVE  OnePerGroup(stacks, is \cup {i})
BY DEF OnePerGroup

\* getNativeStacks: a round of the loop leaves every stack whole.
LEMMA NativeRound ==
  ASSUME NEW r, NEW missed, NEW is \in SUBSET (Instances \ CfTagged),
         NEW i \in Instances \ is, RegionOf[i] = r, NEW alarm \in AlarmOf(i), NEW stacks,
         NativeWhole(stacks, r, missed, is)
  PROVE  NativeWhole(AddNative(stacks, i, missed, alarm), r, missed, (is \cup {i}) \ CfTagged)
<1> USE DEF NativeWhole
<1>1. CASE i \in CfTagged
  BY <1>1 DEF AddNative
<1>2. CASE i \notin CfTagged /\ i \notin Tagged
  <2>1. AddNative(stacks, i, missed, alarm) = stacks /\ (is \cup {i}) \ CfTagged = is \cup {i}
    BY <1>2 DEF AddNative
  <2> QED
    <3>1. \A g : Members(g, is \cup {i}) = Members(g, is)
      BY <1>2 DEF Members
    <3>2. \A stack \in stacks : Sums(stack, is \cup {i})
      BY <3>1 DEF Sums, IsWholeNative
    <3>3. \A stack \in stacks : IsWholeNative(stack, r, missed, is \cup {i})
      BY <3>2 DEF IsWholeNative
    <3> QED
      BY <1>2, <2>1, <3>3, NoMember
<1>3. CASE i \notin CfTagged /\ i \in Tagged
  <2> DEFINE initial == PartsOf(GroupOf[i], r, missed)
             own     == VolumesOf[i] \cup alarm
             after   == AddInstance(stacks, i, initial, own)
  <2>1. /\ AddNative(stacks, i, missed, alarm) = after
        /\ (is \cup {i}) \ CfTagged = is \cup {i}
    BY <1>3 DEF AddNative
  <2>2. \A stack \in stacks : Sums(stack, is)
    BY DEF IsWholeNative
  <2>3. PICK old \in stacks \cup {NewStack(i, initial)} :
          /\ old.id = GroupOf[i]
          /\ old \notin stacks => \A stack \in stacks : stack.id # GroupOf[i]
          /\ after = {stack \in stacks : stack.id # GroupOf[i]} \cup {Join(old, i, own)}
          /\ OnePerGroup(after, is \cup {i})
          /\ \A stack \in after : Sums(stack, is \cup {i})
    <3> HIDE DEF initial, own
    <3> QED
      BY <1>3, <2>2, Grouping
  <2> DEFINE new == Join(old, i, own)
  <2> HIDE DEF after
  <2>4. /\ new.id = GroupOf[i] /\ new.first = old.first
        /\ new.instances = old.instances \cup {i} /\ new.parts = old.parts \cup own
        /\ new.state = IF StateOf[i] = old.state THEN old.state ELSE "Unknown"
    BY <2>3 DEF Join
  <2>5. /\ old.instances \subseteq is /\ RegionOf[old.first] = r
        /\ old.parts \ UNION {AlarmsOf[j] : j \in old.instances} =
             initial \cup UNION {VolumesOf[j] : j \in old.instances}
        /\ \A j \in old.instances : HasOneOf(old.parts, AlarmsOf[j], AlarmsOf[j])
        /\ IF old \in stacks THEN CommonState(old) /\ old.first \in old.instances
                            ELSE old.state = StateOf[i] /\ old.instances = {}
    <3>1. CASE old \in stacks
      <4>1. IsWholeNative(old, r, missed, is) /\ RegionOf[old.first] = r
        BY <3>1
      <4>2. Sums(old, is) /\ CommonState(old) /\ old.id = GroupOf[i]
        BY <2>3, <4>1 DEF IsWholeNative
      <4> QED
        BY <3>1, <4>1, <4>2 DEF IsWholeNative, Sums, Members
    <3>2. CASE old \notin stacks
      <4>1. old = NewStack(i, initial)
        BY <3>2
      <4> QED
        BY <3>2, <4>1 DEF NewStack
    <3> QED
      BY <3>1, <3>2
  <2>6. CommonState(new)
    <3>1. CASE old \in stacks
      <4>1. CommonState(old) /\ old.first \in old.instances
        BY <2>5, <3>1
      <4>2. CASE \A j \in old.instances : StateOf[j] = old.state
        BY <2>4, <4>1, <4>2 DEF CommonState
      <4>3. CASE old.state = "Unknown" /\ \E j, k \in old.instances : StateOf[j] # StateOf[k]
        BY <2>4, <4>3 DEF CommonState
      <4> QED
        BY <4>1, <4>2, <4>3 DEF CommonState
    <3>2. CASE old \notin stacks
      BY <2>4, <2>5, <3>2 DEF CommonState
    <3> HIDE DEF new
    <3> QED
      BY <3>1, <3>2
  <2>7. alarm \subseteq AlarmsOf[i]
    BY OneOfIsSubset DEF AlarmOf
  <2>8. initial \subseteq LoadBalancers \cup ElasticIps \cup SecurityGroups
    BY DEF PartsOf
  <2>9. new.parts \ UNION {AlarmsOf[j] : j \in new.instances} =
          initial \cup UNION {VolumesOf[j] : j \in new.instances}
    <3> DEFINE A == UNION {AlarmsOf[j] : j \in old.instances}
               V == UNION {VolumesOf[j] : j \in old.instances}
    <3>1. UNION {AlarmsOf[j] : j \in new.instances} = A \cup AlarmsOf[i]
      BY <2>4
    <3>2. UNION {VolumesOf[j] : j \in new.instances} = V \cup VolumesOf[i]
      BY <2>4
    <3>3. AlarmsOf[i] \cap initial = {} /\ AlarmsOf[i] \cap V = {} /\ AlarmsOf[i] \cap VolumesOf[i] = {}
      BY <2>5, <2>8, StackAssemblyAssumption
    <3>4. A \cap VolumesOf[i] = {}
      BY <2>5, StackAssemblyAssumption
    <3>5. new.parts = old.parts \cup VolumesOf[i] \cup alarm /\ old.parts \ A = initial \cup V
      BY <2>4, <2>5
    <3> HIDE DEF A, V, initial, new
    <3> QED
      BY <2>7, <3>1, <3>2, <3>3, <3>4, <3>5
  <2>10. ASSUME NEW j \in new.instances PROVE HasOneOf(new.parts, AlarmsOf[j], AlarmsOf[j])
    <3>1. CASE j # i
      <4>1. j \in old.instances /\ j \in Instances
        BY <2>4, <2>5, <3>1
      <4>2. own \cap AlarmsOf[j] = {}
        BY <2>7, <3>1, <4>1, StackAssemblyAssumption
      <4>3. new.parts \cap AlarmsOf[j] = old.parts \cap AlarmsOf[j]
        BY <2>4, <4>2
      <4> QED
        BY <2>5, <4>1, <4>3 DEF HasOneOf
    <3>2. CASE j = i
      <4>1. old.parts \subseteq initial \cup (UNION {VolumesOf[k] : k \in old.instances})
                                      \cup (UNION {AlarmsOf[k] : k \in old.instances})
        BY <2>5
      <4>2. \A k \in old.instances : k \in Instances /\ k # i
        BY <2>5
      <4>3. old.parts \cap AlarmsOf[i] = {}
        BY <2>8, <4>1, <4>2, StackAssemblyAssumption
      <4>4. new.parts \cap AlarmsOf[i] = alarm
        BY <2>4, <2>7, <4>3, StackAssemblyAssumption
      <4> QED
        BY <3>2, <4>4 DEF HasOneOf, AlarmOf
    <3> QED
      BY <3>1, <3>2
  <2>11. RegionOf[new.first] = r /\ IsWholeNative(new, r, missed, is \cup {i})
    BY <2>3, <2>4, <2>5, <2>6, <2>9, <2>10 DEF IsWholeNative
  <2>12. ASSUME NEW stack \in stacks, stack.id # GroupOf[i]
         PROVE  RegionOf[stack.first] = r /\ IsWholeNative(stack, r, missed, is \cup {i})
    <3>1. Sums(stack, is \cup {i})
      BY <2>3, <2>12
    <3> QED
      BY <3>1 DEF IsWholeNative
  <2> QED
    BY <2>1, <2>3, <2>11, <2>12
<1> QED
  BY <1>1, <1>2, <1>3

\* GetStacks: the network of a new stack is one of the first instance's, as is
\* that of its firewall; the others only add their subnets.
LEMMA NetworkPartsWhole ==
  ASSUME NEW i \in Instances, NEW firewall \in FirewallsByNetwork
  PROVE  LET mine  == Range(NetworksOf[i]) \cap Described
             parts == NetworkParts(i, firewall)
         IN  /\ HasOneOf(parts, mine, Networks)
             /\ parts \cap Subnets = UNION {SubnetsOf[n] : n \in mine}
             /\ HasOneOf(parts, UNION {FirewallsOf[n] : n \in mine}, Firewalls)
             /\ parts \subseteq Networks \cup Subnets \cup Firewalls
<1> DEFINE network(k) == NetworksOf[i][k]
           known    == {k \in DOMAIN NetworksOf[i] : network(k) \in Described}
           filtered == {k \in known : firewall[network(k)] # {}}
           last(ks) == {k \in ks : \A j \in ks : j <= k}
           mine     == Range(NetworksOf[i]) \cap Described
           parts    == NetworkParts(i, firewall)
           names    == {network(k) : k \in last(known)}
           walls    == UNION {firewall[network(k)] : k \in last(filtered)}
           subnets  == UNION {SubnetsOf[network(k)] : k \in known}
<1>1. PICK n \in Nat : DOMAIN NetworksOf[i] = 1 .. n /\ \A k \in 1 .. n : network(k) \in Networks
  <2>1. NetworksOf[i] \in Seq(Networks)
    BY StackAssemblyAssumption
  <2> QED
    BY <2>1
<1>2. \A ks \in SUBSET (1 .. n) : ks # {} => \E k \in ks : last(ks) = {k}
  <2> TAKE ks \in SUBSET (1 .. n)
  <2> HAVE ks # {}
  <2>1. PICK k \in ks : \A j \in ks : j <= k
    BY LastElement
  <2>2. \A j \in last(ks) : j = k
    BY <2>1
  <2> QED
    BY <2>1, <2>2
<1>3. parts = names \cup walls \cup subnets
  BY DEF NetworkParts
<1>4. mine = {network(k) : k \in known} /\ mine \subseteq Networks
  BY <1>1 DEF Range
<1>5. /\ firewall \in [Networks -> SUBSET Firewalls]
      /\ \A m \in Networks : firewall[m] \in OneOf(FirewallsOf[m])
  BY DEF FirewallsByNetwork
<1>6. names \subseteq Networks /\ walls \subseteq Firewalls /\ subnets \subseteq Subnets
  <2>1. names \subseteq Networks
    BY <1>1
  <2>2. walls \subseteq Firewalls
    BY <1>1, <1>5
  <2>3. subnets \subseteq Subnets
    BY <1>1 DEF Subnets
  <2> QED
    BY <2>1, <2>2, <2>3
<1>7. names \in OneOf(mine)
  <2>1. CASE known = {}
    BY <1>4, <2>1 DEF OneOf
  <2>2. CASE known # {}
    <3>1. PICK k \in known : last(known) = {k}
      BY <1>1, <1>2, <2>2
    <3>2. names = {network(k)} /\ network(k) \in mine
      BY <1>4, <3>1
    <3> HIDE DEF names, mine
    <3> QED
      BY <3>2 DEF OneOf
  <2> QED
    BY <2>1, <2>2
<1>8. walls \in OneOf(UNION {FirewallsOf[m] : m \in mine})
  <2>1. \A k \in known : network(k) \in Networks /\ firewall[network(k)] \in OneOf(FirewallsOf[network(k)])
    BY <1>1, <1>5
  <2>2. CASE filtered = {}
    <3>1. ASSUME NEW k \in known PROVE FirewallsOf[network(k)] = {}
      <4>1. firewall[network(k)] = {} /\ firewall[network(k)] \in OneOf(FirewallsOf[network(k)])
        BY <2>1, <2>2
      <4> QED
        BY <4>1, OneOfIsSubset
    <3>2. walls = {} /\ UNION {FirewallsOf[m] : m \in mine} = {}
      BY <1>4, <2>2, <3>1
    <3> HIDE DEF walls, mine
    <3> QED
      BY <3>2 DEF OneOf
  <2>3. CASE filtered # {}
    <3>1. PICK k \in filtered : last(filtered) = {k}
      BY <1>1, <1>2, <2>3
    <3>2. walls = firewall[network(k)] /\ network(k) \in mine /\ walls # {}
      <4>1. walls = UNION {firewall[network(j)] : j \in {k}}
        BY <3>1
      <4> QED
        BY <1>4, <4>1
    <3>3. walls \in OneOf(FirewallsOf[network(k)])
      BY <2>1, <3>2
    <3> HIDE DEF walls, mine, network
    <3>4. PICK f \in FirewallsOf[network(k)] : walls = {f}
      BY <3>2, <3>3 DEF OneOf
    <3> QED
      BY <3>2, <3>4 DEF OneOf
  <2> QED
    BY <2>2, <2>3
<1>9. subnets = UNION {SubnetsOf[m] : m \in mine}
  BY <1>4
<1> HIDE DEF names, walls, subnets, mine, parts
<1>10. parts \cap Networks = names /\ parts \cap Firewalls = walls /\ parts \cap Subnets = subnets
  BY <1>3, <1>6, StackAssemblyAssumption
<1>11. parts \subseteq Networks \cup Subnets \cup Firewalls
  BY <1>3, <1>6
<1> QED
  BY <1>7, <1>8, <1>9, <1>10, <1>11 DEF HasOneOf, mine, parts

\* GetStacks: a round of the loop leaves every stack whole.
LEMMA GcpRound ==
  ASSUME NEW is \in SUBSET Instances, NEW i \in Instances \ is, NEW stacks,
         NEW firewall \in FirewallsByNetwork, NEW database \in OneOf(DatabasesOf(GroupOf[i])),
         GcpWhole(stacks, is)
  PROVE  GcpWhole(AddGcp(stacks, i, firewall, database), is \cup {i})
<1>1. CASE i \notin Tagged
  <2>1. \A g : Members(g, is \cup {i}) = Members(g, is)
    BY <1>1 DEF Members
  <2>2. \A stack \in stacks : Sums(stack, is \cup {i})
    BY <2>1 DEF Sums, IsWholeGcp, GcpWhole
  <2>3. \A stack \in stacks : IsWholeGcp(stack, is \cup {i})
    BY <2>2 DEF IsWholeGcp, GcpWhole
  <2> QED
    BY <1>1, <2>3, NoMember DEF GcpWhole, AddGcp
<1>2. CASE i \in Tagged
  <2> DEFINE own     == AddressesOf[i]
             initial == NetworkParts(i, firewall) \cup database
             after   == AddInstance(stacks, i, initial, own)
  <2>1. AddGcp(stacks, i, firewall, database) = after
    BY <1>2 DEF AddGcp
  <2>2. (\A stack \in stacks : Sums(stack, is)) /\ OnePerGroup(stacks, is)
    BY DEF GcpWhole, IsWholeGcp
  <2>3. PICK old \in stacks \cup {NewStack(i, initial)} :
          /\ old.id = GroupOf[i]
          /\ old \notin stacks => \A stack \in stacks : stack.id # GroupOf[i]
          /\ after = {stack \in stacks : stack.id # GroupOf[i]} \cup {Join(old, i, own)}
          /\ OnePerGroup(after, is \cup {i})
          /\ \A stack \in after : Sums(stack, is \cup {i})
    <3> HIDE DEF initial, own
    <3> QED
      BY <1>2, <2>2, Grouping
  <2> DEFINE new  == Join(old, i, own)
             mine == Range(NetworksOf[old.first]) \cap Described
  <2> HIDE DEF after
  <2>4. /\ new.id = GroupOf[i] /\ new.first = old.first
        /\ new.instances = old.instances \cup {i} /\ new.parts = old.parts \cup own
    BY <2>3 DEF Join
  <2>5. /\ old.parts \cap Addresses = UNION {AddressesOf[j] : j \in old.instances}
        /\ HasOneOf(old.parts, DatabasesOf(GroupOf[i]), Databases)
        /\ HasOneOf(old.parts, mine, Networks)
        /\ old.parts \cap Subnets = UNION {SubnetsOf[n] : n \in mine}
        /\ HasOneOf(old.parts, UNION {FirewallsOf[n] : n \in mine}, Firewalls)
    <3>1. CASE old \in stacks
      BY <2>3, <3>1 DEF GcpWhole, IsWholeGcp
    <3>2. CASE old \notin stacks
      <4> DEFINE parts == NetworkParts(i, firewall)
      <4>1. old.first = i /\ old.parts = parts \cup database /\ old.instances = {}
        BY <3>2 DEF NewStack
      <4>2. /\ HasOneOf(parts, mine, Networks)
            /\ parts \cap Subnets = UNION {SubnetsOf[n] : n \in mine}
            /\ HasOneOf(parts, UNION {FirewallsOf[n] : n \in mine}, Firewalls)
            /\ parts \subseteq Networks \cup Subnets \cup Firewalls
        BY <4>1, NetworkPartsWhole
      <4>3. database \subseteq Databases
        BY OneOfIsSubset DEF DatabasesOf
      <4> HIDE DEF parts, mine
      <4>4. /\ old.parts \cap Databases = database /\ old.parts \cap Addresses = {}
            /\ old.parts \cap Networks = parts \cap Networks
            /\ old.parts \cap Subnets = parts \cap Subnets
            /\ old.parts \cap Firewalls = parts \cap Firewalls
        BY <4>1, <4>2, <4>3, StackAssemblyAssumption
      <4> QED
        BY <4>1, <4>2, <4>4 DEF HasOneOf
    <3> QED
      BY <3>1, <3>2
  <2>6. own \subseteq Addresses
    BY DEF Addresses
  <2>7. /\ new.parts \cap Databases = old.parts \cap Databases
        /\ new.parts \cap Networks = old.parts \cap Networks
        /\ new.parts \cap Subnets = old.parts \cap Subnets
        /\ new.parts \cap Firewalls = old.parts \cap Firewalls
        /\ new.parts \cap Addresses = (old.parts \cap Addresses) \cup own
    <3> HIDE DEF new, own
    <3> QED
      BY <2>4, <2>6, StackAssemblyAssumption
  <2>8. new.parts \cap Addresses = UNION {AddressesOf[j] : j \in new.instances}
    BY <2>4, <2>5, <2>7
  <2>9. IsWholeGcp(new, is \cup {i})
    <3>1. Sums(new, is \cup {i})
      BY <2>3
    <3> HIDE DEF new
    <3> QED
      BY <2>4, <2>5, <2>7, <2>8, <3>1 DEF IsWholeGcp, HasOneOf
  <2>10. ASSUME NEW stack \in stacks, stack.id # GroupOf[i] PROVE IsWholeGcp(stack, is \cup {i})
    <3>1. Sums(stack, is \cup {i})
      BY <2>3, <2>10
    <3> QED
      BY <3>1 DEF IsWholeGcp, GcpWhole
  <2> QED
    BY <2>1, <2>3, <2>9, <2>10 DEF GcpWhole
<1> QED
  BY <1>1, <1>2

-----------------------------------------------------------------------------
(* The steps of the calls. *)

\* Pages and items, as the assumption has them.
LEMMA Lists ==
  /\ Account \in Scopes /\ Sections \subseteq Scopes /\ Account \notin Sections
  /\ Machines \cap Sections = {} /\ Workers = Sections \cup Machines
  /\ \A s \in Scopes :
       /\ Len(Pages[s]) \in Nat \ {0} /\ DOMAIN Pages[s] = 1 .. Len(Pages[s])
       /\ ItemsOf(s) = UNION {Pages[s][k] : k \in 1 .. Len(Pages[s])}
       /\ ItemsOf(s) \subseteq Items
       /\ \A t \in Scopes : s # t => ItemsOf(s) \cap ItemsOf(t) = {}
       /\ LastPage(s) \in Nat \ {0}
       /\ call \notin Assembled => LastPage(s) <= Len(Pages[s])
<1>1. \A s \in Scopes : Len(Pages[s]) \in Nat \ {0} /\ DOMAIN Pages[s] = 1 .. Len(Pages[s])
  <2> TAKE s \in Scopes
  <2>1. Pages[s] \in Seq(SUBSET Items) /\ Pages[s] # <<>>
    BY ListingAssumption
  <2> QED
    BY <2>1
<1>2. \A s \in Scopes : \A k \in 1 .. Len(Pages[s]) : Pages[s][k] \subseteq Items
  <2> TAKE s \in Scopes
  <2>1. Pages[s] \in Seq(SUBSET Items)
    BY ListingAssumption
  <2> QED
    BY <2>1
<1>3. \A s \in Scopes : ItemsOf(s) = UNION {Pages[s][k] : k \in 1 .. Len(Pages[s])}
  BY <1>1 DEF ItemsOf, Range
<1>4. \A s \in Scopes : ItemsOf(s) \subseteq Items
  BY <1>2, <1>3
<1>5. \A s, t \in Scopes : s # t => ItemsOf(s) \cap ItemsOf(t) = {}
  BY <1>1, <1>3, ListingAssumption
<1>6. \A s \in Scopes : LastPage(s) \in Nat \ {0} /\ (call \notin Assembled => LastPage(s) <= Len(Pages[s]))
  BY <1>1 DEF LastPage, Assembled, OnePage
<1>7. Account \in Scopes /\ Sections \subseteq Scopes /\ Account \notin Sections
  BY ListingAssumption DEF Scopes
<1>8. Machines \cap Sections = {} /\ Workers = Sections \cup Machines
  BY <1>4, <1>7, ListingAssumption DEF Machines, Workers
<1> QED
  BY <1>1, <1>3, <1>4, <1>5, <1>6, <1>7, <1>8

\* What depends on the call alone.
LEMMA SameCall ==
  ASSUME call' = call
  PROVE  /\ Sources' = Sources
         /\ \A s : LastPage(s)' = LastPage(s) /\ Wanted(s)' = Wanted(s)
BY DEF Sources, LastPage, Wanted

\* One more page has been received of s, and of nothing else.
LEMMA GotNext ==
  ASSUME Typed, NEW s \in Scopes, page' = [page EXCEPT ![s] = @ + 1]
  PROVE  /\ page' \in [Scopes -> Nat] /\ page'[s] = page[s] + 1
         /\ Got(s)' = Got(s) \cup Pages[s][page[s] + 1]
         /\ \A t \in Scopes \ {s} : page'[t] = page[t] /\ Got(t)' = Got(t)
<1>1. page' \in [Scopes -> Nat] /\ page[s] \in Nat /\ page'[s] = page[s] + 1
  BY DEF Typed
<1>2. \A t \in Scopes \ {s} : page'[t] = page[t]
  BY DEF Typed
<1>3. 1 .. page'[s] = (1 .. page[s]) \cup {page[s] + 1}
  BY <1>1
<1> QED
  BY <1>1, <1>2, <1>3 DEF Got

\* The invariant holds before the first request.
LEMMA InitInvariant == Init => IInv
<1> SUFFICES ASSUME Init PROVE IInv
  OBVIOUS
<1>1. Typed
  <2>1. left \in [Scopes -> SUBSET Instances]
    BY DEF Init
  <2> QED
    BY <2>1 DEF Init, Typed, Places
<1>2. Phases /\ Running
  BY Lists DEF Init, Phases, Running, FanOut
<1>3. PagesRead
  BY Lists DEF Init, PagesRead, FanOut, Sources
<1>4. ReceivedIsKept /\ NothingElse /\ Once
  <2>1. \A s \in Scopes : Got(s) = {}
    BY DEF Init, Got
  <2>2. Sources \subseteq Scopes
    BY DEF Sources, Scopes
  <2> QED
    BY <2>1, <2>2, Lists DEF Init, ReceivedIsKept, NothingElse, Once, Out
<1>5. NativeSoFar
  <2>1. \A r \in Sections : Made(r) = {} /\ Seen(r) = {} /\ NativeOf(r) \subseteq left[r]
    BY Lists DEF Init, Made, Seen, NativeOf
  <2>2. OnePerGroup({}, {})
    BY DEF OnePerGroup
  <2>3. call = "native" => \A r \in Sections : at[r] = "page" /\ r \notin cut
    BY Lists DEF Init, FanOut
  <2>4. (\A r \in Sections : \A i \in left[r] : RegionOf[i] = r) /\ chan \cup listed = {}
    BY Lists DEF Init
  <2>5. \A r \in Sections : NativeWhole(Made(r), r, unread, Seen(r))
    BY <2>1, <2>2 DEF NativeWhole
  <2> QED
    BY <2>1, <2>3, <2>4, <2>5 DEF NativeSoFar
<1>6. GcpSoFar
  BY Lists DEF Init, GcpSoFar, FanOut
<1> QED
  BY <1>1, <1>2, <1>3, <1>4, <1>5, <1>6 DEF IInv

\* Before the goroutines start, the caller lists on its own.
LEMMA CallerAlone ==
  ASSUME IInv, pc \in {"list", "keys", "sets", "assemble"}
  PROVE  /\ call \notin FanOut /\ call # "native" /\ ~err
         /\ \A w \in Workers : at[w] = "idle"
         /\ \A s \in Sections : pending[s] = {}
<1>1. call \notin FanOut /\ call # "native" /\ ~err
  BY DEF IInv, Phases, FanOut
<1>2. \A w \in Workers : at[w] = "idle"
  BY <1>1 DEF IInv, Phases, Running
<1> QED
  BY <1>1, <1>2, Lists DEF IInv, Running

\* The caller receives a page: its items are listed, or kept until their goroutines run.
LEMMA NextPageStep ==
  ASSUME IInv, NextPage
  PROVE  IInv'
<1> USE DEF NextPage, lost, assembly
<1>1. /\ call \notin FanOut /\ call # "native" /\ ~err /\ call # "accesses" /\ call' = call
      /\ \A w \in Workers : at[w] = "idle"
      /\ \A s \in Sections : pending[s] = {}
  BY CallerAlone
<1> DEFINE items == IF call = "gcpStacks" THEN {} ELSE Pages[Account][page'[Account]]
<1>2. /\ page' \in [Scopes -> Nat] /\ page'[Account] = page[Account] + 1
      /\ Got(Account)' = Got(Account) \cup Pages[Account][page[Account] + 1]
      /\ \A s \in Sections : page'[s] = page[s] /\ Got(s)' = Got(s)
  BY Lists, GotNext DEF IInv
<1>3. call # "gcpStacks" => items = Pages[Account][page[Account] + 1] /\ items \subseteq ItemsOf(Account)
  <2>1. page[Account] \in Nat /\ page[Account] < LastPage(Account)
    BY Lists DEF IInv, Typed
  <2>2. call # "gcpStacks" => page[Account] + 1 \in 1 .. Len(Pages[Account])
    BY <1>1, <2>1, Lists DEF Assembled
  <2> QED
    BY <1>2, <2>2, Lists
<1>4. IF call = "machines" THEN vmList' = vmList \cup items /\ listed' = listed
                           ELSE listed' = listed \cup items /\ vmList' = vmList
  OBVIOUS
<1> HIDE DEF items
<1>5. Sources' = Sources /\ \A s : LastPage(s)' = LastPage(s) /\ Wanted(s)' = Wanted(s)
  BY SameCall
<1>6. Typed' /\ Phases'
  BY <1>2 DEF IInv, Typed, Phases
<1>7. Running'
  BY <1>1, <1>4 DEF IInv, Running
<1>8. PagesRead'
  BY <1>1, <1>2, <1>5, Lists DEF IInv, PagesRead, Typed, Scopes
<1>9. ReceivedIsKept'
  <2>1. \A s \in Sections : UnderWay(s)' = UnderWay(s)
    BY Lists DEF UnderWay
  <2>2. Sources \subseteq Scopes /\ listed \subseteq listed' /\ chan' = chan /\ dropped' = dropped
    BY <1>4 DEF Sources, Scopes
  <2>3. call \notin Assembled => items \subseteq Out' \cup UnderWay(Account)' /\ UnderWay(Account) \subseteq UnderWay(Account)'
    BY <1>4 DEF Out, UnderWay
  <2> QED
    BY <1>1, <1>2, <1>3, <1>5, <2>1, <2>2, <2>3 DEF IInv, ReceivedIsKept, Out, Scopes, Assembled
<1>10. NothingElse'
  <2>1. Account \in Sources /\ Wanted(Account) = ItemsOf(Account) /\ Machines = ItemsOf(Account)
    BY <1>1 DEF Sources, Wanted, Machines
  <2> QED
    BY <1>1, <1>3, <1>4, <1>5, <2>1 DEF IInv, NothingElse, Assembled
<1>11. Once'
  BY <1>1, <1>2, <1>4 DEF IInv, Once, Out
<1>12. NativeSoFar' /\ GcpSoFar'
  BY <1>1, <1>4 DEF IInv, NativeSoFar, GcpSoFar, items
<1> QED
  BY <1>6, <1>7, <1>8, <1>9, <1>10, <1>11, <1>12 DEF IInv

\* The caller leaves its list, at its end or at a failure.
LEMMA ListEndsStep ==
  ASSUME IInv, PageFails \/ PagesEnd \/ ListUsers \/ KeysEnd
  PROVE  IInv'
<1> USE DEF PageFails, PagesEnd, ListUsers, KeysEnd, work, answer, lost, assembly, Ended
<1>1. /\ call \notin FanOut /\ call # "native" /\ ~err /\ call' = call /\ ~err'
      /\ \A w \in Workers : at[w] = "idle"
      /\ \A s \in Sections : pending[s] = {}
  BY CallerAlone DEF IInv, Phases
<1> DEFINE leaves == PageFails \/ PagesEnd
<1>2. leaves => /\ pc = "list" /\ call # "accesses" /\ call # "gcpStacks"
                /\ pc' = IF call = "machines" THEN "sets" ELSE "returned"
                /\ Account \in cut' \/ page[Account] = LastPage(Account)
  BY Lists DEF IInv, PagesRead
<1>3. ~leaves => call = "accesses" /\ ((pc = "list" /\ pc' = "keys") \/ (pc = "keys" /\ KeysEnd))
  BY DEF IInv, Phases
<1>4. Sources' = Sources /\ \A s : LastPage(s)' = LastPage(s) /\ Wanted(s)' = Wanted(s)
  BY SameCall
<1>5. Typed'
  BY <1>2, <1>3 DEF IInv, Typed, Ended
<1>6. Phases'
  BY <1>1, <1>2, <1>3 DEF IInv, Phases
<1>7. Running'
  BY <1>1, <1>2, <1>3 DEF IInv, Running
<1>8. PagesRead'
  <2>1. call = "accesses" => Account \notin Sources
    BY ListingAssumption DEF Sources
  <2>2. call = "accesses" /\ pc' = "returned" => \A s \in Sections : page[s] = LastPage(s)
    BY <1>2, <1>3 DEF LastPage, OnePage
  <2>3. call # "accesses" => Account \in cut' \/ page[Account] = LastPage(Account)
    BY <1>2, <1>3
  <2>4. cut \subseteq cut' /\ \A s \in Sections : s \in cut' => s \in cut
    BY Lists
  <2> QED
    BY <1>1, <1>2, <1>3, <1>4, <2>1, <2>2, <2>3, <2>4 DEF IInv, PagesRead
<1>9. ReceivedIsKept' /\ NothingElse' /\ Once'
  <2>1. \A s : Got(s)' = Got(s)
    BY DEF Got
  <2>2. \A s \in Sources : UnderWay(s)' = UnderWay(s)
    BY <1>1, <1>2, <1>3 DEF UnderWay
  <2>3. Out' = Out /\ ReceivedIsKept'
    BY <1>1, <1>4, <2>1, <2>2 DEF IInv, ReceivedIsKept, Out
  <2> QED
    BY <1>4, <2>1, <2>3 DEF IInv, NothingElse, Once
<1>10. NativeSoFar' /\ GcpSoFar'
  BY <1>1, <1>2, <1>3 DEF NativeSoFar, GcpSoFar
<1> QED
  BY <1>5, <1>6, <1>7, <1>8, <1>9, <1>10 DEF IInv

\* An error is returned in place of what was listed.
LEMMA ListFailsStep ==
  ASSUME IInv, ListFails
  PROVE  IInv'
<1> USE DEF ListFails, work, lost, assembly
<1>1. /\ call \notin FanOut /\ call # "native" /\ call # "machines" /\ call' = call /\ err'
      /\ \A w \in Workers : at[w] = "idle"
      /\ \A s \in Sections : pending[s] = {}
  BY CallerAlone DEF AllOrNone
<1>2. Sources' = Sources /\ \A s : LastPage(s)' = LastPage(s) /\ Wanted(s)' = Wanted(s)
  BY SameCall
<1>3. Typed' /\ Phases' /\ Running'
  BY <1>1 DEF IInv, Typed, Phases, Running
<1>4. PagesRead'
  BY <1>1, <1>2 DEF IInv, PagesRead
<1>5. ReceivedIsKept' /\ NothingElse' /\ Once'
  BY <1>1, <1>2 DEF IInv, ReceivedIsKept, NothingElse, Once
<1>6. NativeSoFar' /\ GcpSoFar'
  BY <1>1 DEF NativeSoFar, GcpSoFar
<1> QED
  BY <1>3, <1>4, <1>5, <1>6 DEF IInv

\* getAccesses: the keys of one more user.
LEMMA ListKeysStep ==
  ASSUME IInv, NEW s \in Sections, ListKeys(s)
  PROVE  IInv'
<1> USE DEF ListKeys, lost, assembly
<1>1. /\ call = "accesses" /\ ~err /\ call' = call
      /\ \A w \in Workers : at[w] = "idle"
      /\ \A t \in Sections : pending[t] = {}
  BY CallerAlone DEF IInv, Phases
<1>2. /\ page' \in [Scopes -> Nat] /\ page' = [page EXCEPT ![s] = @ + 1]
      /\ Got(s)' = Got(s) \cup Pages[s][1]
      /\ \A t \in Scopes \ {s} : page'[t] = page[t] /\ Got(t)' = Got(t)
  <2>1. page' = [page EXCEPT ![s] = @ + 1] /\ s \in Scopes
    BY Lists DEF IInv, Typed
  <2>2. Typed /\ page[s] + 1 = 1
    BY DEF IInv
  <2>3. /\ page' \in [Scopes -> Nat]
        /\ Got(s)' = Got(s) \cup Pages[s][page[s] + 1]
        /\ \A t \in Scopes \ {s} : page'[t] = page[t] /\ Got(t)' = Got(t)
    <3> HIDE DEF ListKeys
    <3> QED
      BY <2>1, <2>2, GotNext
  <2> QED
    BY <2>1, <2>2, <2>3
<1>3. Sources' = Sources /\ \A t : LastPage(t)' = LastPage(t) /\ Wanted(t)' = Wanted(t)
  BY SameCall
<1>4. Sources = Sections /\ Account \notin Sources /\ \A t \in Sections : Wanted(t) = ItemsOf(t) \ Inactive
  BY <1>1, Lists DEF Sources, Wanted
<1>5. Typed' /\ Phases' /\ Running'
  BY <1>1, <1>2 DEF IInv, Typed, Phases, Running
<1>6. PagesRead'
  BY <1>1, <1>2, <1>3, <1>4, Lists DEF IInv, PagesRead, LastPage, OnePage, Scopes
<1>7. ReceivedIsKept'
  <2>1. \A t \in Sections : UnderWay(t) = {} /\ UnderWay(t)' = {}
    BY <1>1, Lists DEF UnderWay
  <2>2. Out \cup (Pages[s][1] \ Inactive) \subseteq Out'
    BY DEF Out
  <2> QED
    BY <1>1, <1>2, <1>3, <1>4, <2>1, <2>2, Lists DEF IInv, ReceivedIsKept, Assembled
<1>8. NothingElse' /\ Once'
  <2>1. s \in Scopes /\ Pages[s][1] \subseteq ItemsOf(s)
    BY Lists
  <2> QED
    BY <1>1, <1>3, <1>4, <2>1 DEF IInv, NothingElse, Once, Assembled
<1>9. NativeSoFar' /\ GcpSoFar'
  BY <1>1 DEF NativeSoFar, GcpSoFar
<1> QED
  BY <1>5, <1>6, <1>7, <1>8, <1>9 DEF IInv

\* GetInstances: the goroutines start, for what was listed before a failure.
LEMMA ListScaleSetsStep ==
  ASSUME IInv, NEW sets \in SUBSET Sections, ListScaleSets(sets)
  PROVE  IInv'
<1> USE DEF ListScaleSets, answer, assembly
<1>1. /\ call = "machines" /\ ~err /\ call' = call
      /\ \A w \in Workers : at[w] = "idle"
      /\ \A s \in Sections : pending[s] = {}
  BY CallerAlone DEF IInv, Phases
<1>2. Sources' = Sources /\ \A s : LastPage(s)' = LastPage(s) /\ Wanted(s)' = Wanted(s)
  BY SameCall
<1>3. vmList \subseteq Machines /\ Machines \cap Sections = {} /\ Workers = Sections \cup Machines
  BY <1>1, Lists DEF IInv, NothingElse, Assembled
<1>4. /\ \A v \in Machines : at'[v] = IF v \in vmList THEN "view" ELSE "idle"
      /\ \A s \in Sections : at'[s] = IF s \in sets THEN "page" ELSE "idle"
  BY <1>3
<1>5. Typed' /\ Phases'
  BY <1>1 DEF IInv, Typed, Phases, Places
<1>6. Running'
  BY <1>1, <1>4 DEF IInv, Running, Phases, FanOut, Buffered
<1>7. PagesRead'
  BY <1>1, <1>2, <1>4, Lists DEF IInv, PagesRead, LastPage
<1>8. ReceivedIsKept' /\ NothingElse' /\ Once'
  <2>1. \A s : Got(s)' = Got(s)
    BY DEF Got
  <2>2. \A s : UnderWay(s)' = UnderWay(s)
    BY <1>1, <1>3, <1>4 DEF UnderWay
  <2>3. Out' = Out /\ ReceivedIsKept'
    BY <1>1, <1>2, <2>1, <2>2 DEF IInv, ReceivedIsKept, Out
  <2> QED
    BY <1>1, <1>2, <1>3, <1>4, <2>1, <2>3 DEF IInv, NothingElse, Once
<1>9. NativeSoFar' /\ GcpSoFar'
  BY <1>1 DEF NativeSoFar, GcpSoFar
<1> QED
  BY <1>5, <1>6, <1>7, <1>8, <1>9 DEF IInv

\* GetStacks: the lists are complete, and the loop over instancesByName begins.
LEMMA AssembleGcpStep ==
  ASSUME IInv, AssembleGcp
  PROVE  IInv'
<1> USE DEF AssembleGcp, work, answer, lost
<1>1. /\ call = "gcpStacks" /\ ~err /\ call' = call
      /\ \A w \in Workers : at[w] = "idle"
      /\ \A s \in Sections : pending[s] = {}
  BY CallerAlone
<1>2. Sources' = Sources /\ \A s : LastPage(s)' = LastPage(s) /\ Wanted(s)' = Wanted(s)
  BY SameCall
<1>3. kept' \in SUBSET Instances /\ left'[Account] = kept' /\ left' \in [Scopes -> SUBSET Instances]
  BY Lists DEF IInv, Typed, InstancesByName
<1>4. Typed' /\ Phases' /\ Running'
  BY <1>1, <1>3 DEF IInv, Typed, Phases, Running
<1>5. PagesRead'
  BY <1>1, <1>2 DEF IInv, PagesRead
<1>6. ReceivedIsKept' /\ NothingElse' /\ Once'
  BY <1>1 DEF IInv, ReceivedIsKept, NothingElse, Once, Assembled
<1>7. NativeSoFar' /\ GcpSoFar'
  <2>1. GcpWhole({}, kept' \ left'[Account])
    BY <1>3 DEF GcpWhole, OnePerGroup
  <2> QED
    BY <1>1, <1>3, <2>1 DEF IInv, NativeSoFar, GcpSoFar
<1> QED
  BY <1>4, <1>5, <1>6, <1>7 DEF IInv

\* The stacks of GetStacks are whole with one more instance.
LEMMA AddGcpInstanceStep ==
  ASSUME IInv, NEW i \in Instances, AddGcpInstance(i)
  PROVE  IInv'
<1> USE DEF AddGcpInstance, answer, lost
<1>1. /\ call = "gcpStacks" /\ ~err /\ call' = call
      /\ \A w \in Workers : at[w] = "idle"
      /\ \A s \in Sections : pending[s] = {}
  BY CallerAlone DEF IInv, Phases
<1>2. Sources' = Sources /\ \A s : LastPage(s)' = LastPage(s) /\ Wanted(s)' = Wanted(s)
  BY SameCall
<1>3. PICK database \in OneOf(DatabasesOf(GroupOf[i])) :
        pending' = [pending EXCEPT ![Account] = AddGcp(@, i, firewalls, database)]
  OBVIOUS
<1>4. /\ pending'[Account] = AddGcp(pending[Account], i, firewalls, database)
      /\ \A s \in Sections : pending'[s] = {}
      /\ pending' = [s \in Scopes |-> pending'[s]]
      /\ left' \in [Scopes -> SUBSET Instances] /\ left'[Account] = left[Account] \ {i}
  BY <1>1, <1>3, Lists DEF IInv, Typed
<1>5. Typed' /\ Phases' /\ Running'
  BY <1>1, <1>4 DEF IInv, Typed, Phases, Running
<1>6. PagesRead'
  BY <1>1, <1>2 DEF IInv, PagesRead
<1>7. ReceivedIsKept' /\ NothingElse' /\ Once'
  BY <1>1 DEF IInv, ReceivedIsKept, NothingElse, Once, Assembled
<1>8. NativeSoFar' /\ GcpSoFar'
  <2> DEFINE seen == kept \ left[Account]
  <2>1. /\ left[Account] \subseteq kept /\ kept \subseteq Instances
        /\ firewalls \in FirewallsByNetwork /\ GcpWhole(pending[Account], seen)
    BY <1>1 DEF IInv, GcpSoFar
  <2>2. seen \in SUBSET Instances /\ i \in Instances \ seen /\ kept \ left'[Account] = seen \cup {i}
    BY <1>4, <2>1
  <2>3. GcpWhole(pending'[Account], seen \cup {i})
    <3> HIDE DEF seen
    <3> QED
      BY <1>4, <2>1, <2>2, GcpRound
  <2> QED
    BY <1>1, <1>4, <2>1, <2>2, <2>3 DEF NativeSoFar, GcpSoFar
<1> QED
  BY <1>5, <1>6, <1>7, <1>8 DEF IInv

\* GetStacks lists the stacks when its loop has seen every instance.
LEMMA GcpAssembledStep ==
  ASSUME IInv, GcpAssembled
  PROVE  IInv'
<1> USE DEF GcpAssembled, work, lost, assembly
<1>1. /\ call = "gcpStacks" /\ ~err /\ call' = call
      /\ \A w \in Workers : at[w] = "idle"
      /\ \A s \in Sections : pending[s] = {}
  BY CallerAlone DEF IInv, Phases
<1>2. Sources' = Sources /\ \A s : LastPage(s)' = LastPage(s) /\ Wanted(s)' = Wanted(s)
  BY SameCall
<1>3. Typed' /\ Phases' /\ Running'
  BY <1>1 DEF IInv, Typed, Phases, Running, FanOut
<1>4. PagesRead'
  BY <1>1, <1>2 DEF IInv, PagesRead
<1>5. ReceivedIsKept' /\ NothingElse' /\ Once'
  BY <1>1 DEF IInv, ReceivedIsKept, NothingElse, Once, Assembled
<1>6. GcpWhole(pending[Account], kept)
  BY <1>1 DEF IInv, GcpSoFar
<1>7. GcpWhole(listed', kept)
  <2>1. \A stack \in pending[Account] :
          /\ AsRunning(stack).id = stack.id /\ AsRunning(stack).first = stack.first
          /\ AsRunning(stack).instances = stack.instances
          /\ AsRunning(stack).parts = stack.parts /\ AsRunning(stack).tags = stack.tags
    BY DEF AsRunning
  <2>2. \A stack \in pending[Account] : IsWholeGcp(AsRunning(stack), kept)
    BY <1>6, <2>1 DEF GcpWhole, IsWholeGcp, Sums
  <2>3. OnePerGroup(listed', kept)
    BY <1>6, <2>1 DEF GcpWhole, OnePerGroup
  <2> QED
    BY <2>2, <2>3 DEF GcpWhole
<1>8. NativeSoFar' /\ GcpSoFar'
  BY <1>1, <1>7 DEF NativeSoFar, GcpSoFar
<1> QED
  BY <1>3, <1>4, <1>5, <1>8 DEF IInv

-----------------------------------------------------------------------------
\* While goroutines run, the caller waits for their channel.
LEMMA SectionRuns ==
  ASSUME IInv, NEW w \in Workers, pc = "receive", at[w] \notin {"idle", "done"}
  PROVE  /\ call \in FanOut \cup {"machines"} /\ call # "gcpStacks" /\ call # "accesses"
         /\ ~err /\ ~closed
  BY DEF IInv, Phases, Running, FanOut

\* A step that leaves the stacks of the regions where they are.
LEMMA SameStacks ==
  ASSUME pending' = pending, left' = left, (chan \cup listed)' = chan \cup listed
  PROVE  \A r : Made(r)' = Made(r) /\ Seen(r)' = Seen(r)
BY DEF Made, Seen

\* A step of a goroutine of a section that neither receives nor sends an item.
LEMMA NothingMoves ==
  ASSUME IInv, pc = "receive",
         UNCHANGED <<call, pc, page, pending, vmList, listed, chan, dropped, err>>,
         \A v \in Machines : at'[v] = at[v]
  PROVE  ReceivedIsKept' /\ NothingElse' /\ Once'
<1>1. Sources' = Sources /\ \A t : LastPage(t)' = LastPage(t) /\ Wanted(t)' = Wanted(t)
  BY SameCall
<1>2. (\A t : Got(t)' = Got(t)) /\ Out' = Out
  BY DEF Got, Out
<1>3. call \notin Assembled => \A t \in Sources : UnderWay(t)' = UnderWay(t)
  BY DEF UnderWay, IInv, NothingElse
<1>4. ReceivedIsKept'
  BY <1>1, <1>2, <1>3 DEF IInv, ReceivedIsKept
<1> QED
  BY <1>1, <1>2, <1>4 DEF IInv, NothingElse, Once

\* A request is sent; only the place of the goroutine changes.
LEMMA RequestStep ==
  ASSUME IInv, NEW s \in Sections, Request(s)
  PROVE  IInv'
<1> USE DEF Request, At, Goto, answer, lost, assembly
<1>1. /\ call \in FanOut \cup {"machines"} /\ call # "gcpStacks" /\ call # "accesses" /\ call' = call
      /\ ~err /\ ~closed /\ s \in Scopes /\ s \in Workers /\ s \notin Machines
  BY SectionRuns, Lists
<1>2. Sources' = Sources /\ \A t : LastPage(t)' = LastPage(t) /\ Wanted(t)' = Wanted(t)
  BY SameCall
<1>3. /\ at' \in [Workers -> Places] /\ at[s] = "page" /\ at'[s] = "asked"
      /\ \A w \in Workers \ {s} : at'[w] = at[w]
  BY <1>1 DEF IInv, Typed, Places
<1>4. Typed' /\ Phases'
  BY <1>3 DEF IInv, Typed, Phases
<1>5. Running'
  BY <1>1, <1>3, Lists DEF IInv, Running
<1>6. PagesRead'
  BY <1>1, <1>2, <1>3, Lists DEF IInv, PagesRead
<1>7. ReceivedIsKept' /\ NothingElse' /\ Once'
  BY <1>1, <1>3, Lists, NothingMoves
<1>8. NativeSoFar' /\ GcpSoFar'
  <2>1. \A r : Made(r)' = Made(r) /\ Seen(r)' = Seen(r)
    BY SameStacks
  <2> QED
    BY <1>1, <1>3, <2>1, Lists DEF IInv, NativeSoFar, GcpSoFar
<1> QED
  BY <1>4, <1>5, <1>6, <1>7, <1>8 DEF IInv

\* A page arrives: its items are all in front of the goroutine.
LEMMA AnswerStep ==
  ASSUME IInv, NEW s \in Sections, Answer(s)
  PROVE  IInv'
<1> USE DEF Answer, At, Goto, answer, lost, assembly
<1>1. /\ call \in FanOut \cup {"machines"} /\ call # "gcpStacks" /\ call # "accesses" /\ call' = call
      /\ ~err /\ ~closed /\ s \in Scopes /\ s \in Workers /\ s \notin Machines
      /\ at[s] = "asked" /\ pending[s] = {} /\ page[s] < LastPage(s) /\ page[s] \in Nat
  <2>1. s \in Scopes /\ s \in Workers /\ s \notin Machines
    BY Lists
  <2> QED
    BY <2>1, SectionRuns DEF IInv, Running, PagesRead, Typed
<1>2. Sources' = Sources /\ \A t : LastPage(t)' = LastPage(t) /\ Wanted(t)' = Wanted(t)
  BY SameCall
<1>3. /\ page' \in [Scopes -> Nat] /\ page'[s] = page[s] + 1
      /\ Got(s)' = Got(s) \cup Pages[s][page[s] + 1]
      /\ \A t \in Scopes \ {s} : page'[t] = page[t] /\ Got(t)' = Got(t)
  BY <1>1, GotNext DEF IInv
<1>4. /\ at'[s] = IF call # "native" THEN "send"
                  ELSE IF page'[s] = LastPage(s) THEN "assemble" ELSE "page"
      /\ at' \in [Workers -> Places]
      /\ \A w \in Workers \ {s} : at'[w] = at[w]
  BY <1>1 DEF IInv, Typed, Places
<1> DEFINE received == Received(s, page[s] + 1)
<1>5. /\ pending'[s] = IF call = "native" THEN {} ELSE received
      /\ pending' = [t \in Scopes |-> pending'[t]]
      /\ \A t \in Scopes \ {s} : pending'[t] = pending[t]
  BY <1>1, <1>3 DEF IInv, Typed
<1>6. call # "native" => /\ Pages[s][page[s] + 1] \subseteq received /\ received \subseteq ItemsOf(s)
                         /\ call = "machines" => received = Pages[s][page[s] + 1]
                         /\ page[s] + 1 \in DOMAIN Pages[s]
  <2>1. call # "native" => page[s] + 1 \in 1 .. Len(Pages[s])
    BY <1>1, Lists DEF Assembled
  <2>2. call # "native" => Pages[s][page[s] + 1] \subseteq ItemsOf(s)
    BY <1>1, <2>1, Lists
  <2> QED
    BY <1>1, <2>1, <2>2, Lists DEF Received
<1> HIDE DEF received
<1>7. Typed' /\ Phases'
  BY <1>3, <1>4, <1>5 DEF IInv, Typed, Phases
<1>8. Running'
  BY <1>1, <1>4, <1>5, Lists DEF IInv, Running
<1>9. PagesRead'
  <2>1. /\ page'[s] <= LastPage(s) /\ at'[s] # "asked" /\ at'[s] # "idle" /\ at'[s] # "done" /\ at'[s] # "loop"
        /\ at'[s] = "page" => page'[s] < LastPage(s)
        /\ at'[s] = "assemble" => page'[s] = LastPage(s)
    BY <1>1, <1>3, <1>4, Lists
  <2>2. \A t \in Sections \ {s} : at'[t] = at[t] /\ page'[t] = page[t]
    BY <1>3, <1>4, Lists
  <2>3. page'[Account] = page[Account] /\ Account # s
    BY <1>3, Lists
  <2>4. s \notin cut /\ cut' = cut /\ (at'[s] = "send" => call # "native")
    BY <1>1, <1>4 DEF IInv, PagesRead
  <2> QED
    BY <1>1, <1>2, <1>3, <2>1, <2>2, <2>3, <2>4, Lists DEF IInv, PagesRead
<1>10. Out' = Out /\ \A v \in Machines : at'[v] = at[v]
  BY <1>1, <1>4, Lists DEF Out
<1>11. ReceivedIsKept'
  <2>1. call \notin Assembled => \A t \in Sources \ {s} : UnderWay(t)' = UnderWay(t)
    <3>1. \A t \in Sections \ {s} : UnderWay(t)' = UnderWay(t)
      BY <1>5, Lists DEF UnderWay
    <3>2. call \notin Assembled => UnderWay(Account)' = UnderWay(Account)
      BY <1>10 DEF UnderWay, IInv, NothingElse
    <3> QED
      BY <3>1, <3>2 DEF Sources
  <2>2. call \notin Assembled => Got(s)' \cap Wanted(s) \subseteq Out' \cup UnderWay(s)' \/ s \notin Sources
    <3>1. call \notin Assembled => UnderWay(s)' = received /\ UnderWay(s) = {}
      BY <1>1, <1>5, Lists DEF UnderWay, Assembled
    <3>2. call \notin Assembled => call # "native"
      BY DEF Assembled
    <3> QED
      BY <1>1, <1>3, <1>6, <1>10, <3>1, <3>2 DEF IInv, ReceivedIsKept
  <2>3. \A t \in Sources \ {s} : Got(t)' = Got(t)
    BY <1>3 DEF Sources, Scopes
  <2> QED
    BY <1>1, <1>2, <1>10, <2>1, <2>2, <2>3 DEF IInv, ReceivedIsKept
<1>12. NothingElse'
  <2>1. Wanted(s) = ItemsOf(s)
    BY <1>1 DEF Wanted
  <2> QED
    BY <1>1, <1>2, <1>5, <1>6, <2>1, Lists DEF IInv, NothingElse, Assembled
<1>13. Once'
  <2>1. CASE call = "machines"
    <3>1. Pages[s][page[s] + 1] \cap Got(s) = {}
      <4>1. \A k \in 1 .. page[s] : k \in DOMAIN Pages[s] /\ k # page[s] + 1
        BY <1>1, <1>6, <2>1, Lists DEF Assembled
      <4> QED
        BY <1>1, <1>6, <2>1, <4>1, ListingAssumption DEF Got
    <3>2. Out \cap ItemsOf(s) \subseteq Got(s)' \ pending'[s] /\ pending'[s] \subseteq Got(s)'
      BY <1>1, <1>3, <1>5, <1>6, <2>1, <3>1 DEF IInv, Once
    <3>3. \A t \in Sections \ {s} : Got(t)' = Got(t) /\ pending'[t] = pending[t]
      BY <1>3, <1>5, Lists
    <3> QED
      BY <1>1, <1>10, <2>1, <3>2, <3>3 DEF IInv, Once
  <2>2. CASE call # "machines"
    BY <1>1, <2>2 DEF IInv, Once
  <2> QED
    BY <2>1, <2>2
<1>14. NativeSoFar' /\ GcpSoFar'
  <2>1. CASE call = "native"
    <3>1. pending' = pending
      BY <2>1
    <3>2. \A r : Made(r)' = Made(r) /\ Seen(r)' = Seen(r)
      BY <3>1, SameStacks
    <3>3. at[s] = "asked" /\ at'[s] \in {"page", "assemble"} /\ \A r \in Sections \ {s} : at'[r] = at[r]
      BY <1>1, <1>4, <2>1, Lists
    <3> QED
      BY <1>1, <2>1, <3>2, <3>3 DEF IInv, NativeSoFar, GcpSoFar
  <2> QED
    BY <1>1, <2>1 DEF NativeSoFar, GcpSoFar
<1> QED
  BY <1>7, <1>8, <1>9, <1>11, <1>12, <1>13, <1>14 DEF IInv

\* A failed request ends the list of a region, or is sent again for a scale set.
LEMMA RequestFailsStep ==
  ASSUME IInv, NEW s \in Sections, RequestFails(s)
  PROVE  IInv'
<1> USE DEF RequestFails, At, Goto, answer, assembly
<1>1. /\ call \in FanOut \cup {"machines"} /\ call # "gcpStacks" /\ call # "accesses" /\ call' = call
      /\ ~err /\ ~closed /\ s \in Scopes /\ s \in Workers /\ s \notin Machines
  BY SectionRuns, Lists
<1>2. Sources' = Sources /\ \A t : LastPage(t)' = LastPage(t) /\ Wanted(t)' = Wanted(t)
  BY SameCall
<1>3. /\ at' \in [Workers -> Places] /\ at[s] = "asked"
      /\ IF call = "machines" THEN at'[s] = "page" /\ cut' = cut
                              ELSE at'[s] = "done" /\ cut' = cut \cup {s}
      /\ \A w \in Workers \ {s} : at'[w] = at[w]
  BY <1>1 DEF IInv, Typed, Places
<1>4. Typed' /\ Phases'
  BY <1>3 DEF IInv, Typed, Phases
<1>5. Running'
  BY <1>1, <1>3, Lists DEF IInv, Running
<1>6. PagesRead'
  BY <1>1, <1>2, <1>3, Lists DEF IInv, PagesRead
<1>7. ReceivedIsKept' /\ NothingElse' /\ Once'
  BY <1>1, <1>3, Lists, NothingMoves
<1>8. NativeSoFar' /\ GcpSoFar'
  <2>1. \A r : Made(r)' = Made(r) /\ Seen(r)' = Seen(r)
    BY SameStacks
  <2> QED
    BY <1>1, <1>3, <2>1, Lists DEF IInv, NativeSoFar, GcpSoFar
<1> QED
  BY <1>4, <1>5, <1>6, <1>7, <1>8 DEF IInv

\* A goroutine ends when its pages have, not before.
LEMMA PageEndsStep ==
  ASSUME IInv, NEW s \in Sections, PageEnds(s)
  PROVE  IInv'
<1> USE DEF PageEnds, At, Goto, answer, lost, assembly
<1>1. /\ call \in FanOut \cup {"machines"} /\ call # "gcpStacks" /\ call # "accesses" /\ call' = call
      /\ ~err /\ ~closed /\ s \in Scopes /\ s \in Workers /\ s \notin Machines
  BY SectionRuns, Lists
<1>2. Sources' = Sources /\ \A t : LastPage(t)' = LastPage(t) /\ Wanted(t)' = Wanted(t)
  BY SameCall
<1>3. /\ at' \in [Workers -> Places] /\ at[s] = "send"
      /\ at'[s] = IF page[s] < LastPage(s) THEN "page" ELSE "done"
      /\ \A w \in Workers \ {s} : at'[w] = at[w]
  BY <1>1 DEF IInv, Typed, Places
<1>4. Typed' /\ Phases'
  BY <1>3 DEF IInv, Typed, Phases
<1>5. Running'
  BY <1>1, <1>3, Lists DEF IInv, Running
<1>6. PagesRead'
  <2>1. page[s] \in Nat /\ LastPage(s) \in Nat /\ page[s] <= LastPage(s)
    BY <1>1, Lists DEF IInv, Typed, PagesRead
  <2> QED
    BY <1>1, <1>2, <1>3, <2>1, Lists DEF IInv, PagesRead
<1>7. ReceivedIsKept' /\ NothingElse' /\ Once'
  BY <1>1, <1>3, Lists, NothingMoves
<1>8. NativeSoFar' /\ GcpSoFar'
  <2>1. \A r : Made(r)' = Made(r) /\ Seen(r)' = Seen(r)
    BY SameStacks
  <2>2. call = "native" => at'[s] = "done"
    <3>1. call = "native" => page[s] = LastPage(s)
      BY <1>3 DEF IInv, PagesRead
    <3>2. LastPage(s) \in Nat
      BY <1>1, Lists
    <3> QED
      BY <1>3, <3>1, <3>2
  <2> QED
    BY <1>1, <1>3, <2>1, <2>2, Lists DEF IInv, NativeSoFar, GcpSoFar
<1> QED
  BY <1>4, <1>5, <1>6, <1>7, <1>8 DEF IInv

\* A region has no stack before its loop, so that what its stacks should be is
\* not changed by the load balancers without tags that are known then.
LEMMA AssembleNativeStep ==
  ASSUME IInv, NEW s \in Sections, AssembleNative(s)
  PROVE  IInv'
<1> USE DEF AssembleNative, At, Goto, answer, assembly
<1>1. /\ call = "native" /\ call' = call
      /\ ~err /\ ~closed /\ s \in Scopes /\ s \in Workers /\ s \notin Machines
  <2>1. s \in Scopes /\ s \in Workers /\ s \notin Machines
    BY Lists
  <2> QED
    BY <2>1, SectionRuns DEF IInv, Running
<1>2. Sources' = Sources /\ \A t : LastPage(t)' = LastPage(t) /\ Wanted(t)' = Wanted(t)
  BY SameCall
<1>3. /\ at' \in [Workers -> Places] /\ at[s] = "assemble" /\ at'[s] = "loop"
      /\ \A w \in Workers \ {s} : at'[w] = at[w]
  BY <1>1 DEF IInv, Typed, Places
<1>4. Typed' /\ Phases'
  BY <1>3 DEF IInv, Typed, Phases
<1>5. Running'
  BY <1>1, <1>3, Lists DEF IInv, Running
<1>6. PagesRead'
  BY <1>1, <1>2, <1>3, Lists DEF IInv, PagesRead
<1>7. ReceivedIsKept' /\ NothingElse' /\ Once'
  BY <1>1, <1>3, Lists, NothingMoves
<1>8. \A r : Made(r)' = Made(r) /\ Seen(r)' = Seen(r)
  BY SameStacks
<1>9. Made(s) = {}
  <2>1. Seen(s) = {}
    BY <1>1, <1>3 DEF IInv, NativeSoFar, Seen
  <2>2. ASSUME NEW stack \in Made(s) PROVE stack.first \in Members(stack.id, {})
    <3>1. IsWholeNative(stack, s, unread, Seen(s))
      BY <1>1 DEF IInv, NativeSoFar, NativeWhole
    <3>2. Sums(stack, {})
      BY <2>1, <3>1 DEF IsWholeNative
    <3> QED
      BY <3>2 DEF Sums
  <2> QED
    BY <2>2 DEF Members
<1>10. ASSUME NEW r \in Sections, NEW stack \in Made(r)
       PROVE  IsWholeNative(stack, r, unread', Seen(r))
  <2>1. r # s /\ IsWholeNative(stack, r, unread, Seen(r))
    BY <1>1, <1>9 DEF IInv, NativeSoFar, NativeWhole
  <2>2. PICK missed \in SUBSET {b \in LoadBalancers : RegionOf[b] = s} : unread' = unread \cup missed
    OBVIOUS
  <2>3. PartsOf(stack.id, r, unread') = PartsOf(stack.id, r, unread)
    BY <2>1, <2>2 DEF PartsOf
  <2> QED
    BY <2>1, <2>3 DEF IsWholeNative
<1>11. NativeSoFar' /\ GcpSoFar'
  <2>1. \A r \in Sections : NativeWhole(Made(r)', r, unread', Seen(r)')
    BY <1>1, <1>8, <1>10 DEF IInv, NativeSoFar, NativeWhole
  <2> QED
    BY <1>1, <1>3, <1>8, <2>1, Lists DEF IInv, NativeSoFar, GcpSoFar
<1> QED
  BY <1>4, <1>5, <1>6, <1>7, <1>11 DEF IInv

\* The stacks of a region are whole with one more instance.
LEMMA AddNativeInstanceStep ==
  ASSUME IInv, NEW s \in Sections, NEW i \in Instances, AddNativeInstance(s, i)
  PROVE  IInv'
<1> USE DEF AddNativeInstance, At, answer, lost
<1>1. /\ call = "native" /\ call' = call /\ at[s] = "loop"
      /\ ~err /\ ~closed /\ s \in Scopes /\ s \in Workers /\ s \notin Machines
  <2>1. s \in Scopes /\ s \in Workers /\ s \notin Machines
    BY Lists
  <2> QED
    BY <2>1, SectionRuns DEF IInv, Running
<1>2. Sources' = Sources /\ \A t : LastPage(t)' = LastPage(t) /\ Wanted(t)' = Wanted(t)
  BY SameCall
<1>3. PICK alarm \in AlarmOf(i) : pending' = [pending EXCEPT ![s] = AddNative(@, i, unread, alarm)]
  OBVIOUS
<1>4. /\ pending'[s] = AddNative(pending[s], i, unread, alarm)
      /\ \A t \in Scopes \ {s} : pending'[t] = pending[t] /\ left'[t] = left[t]
      /\ pending' = [t \in Scopes |-> pending'[t]]
      /\ left' \in [Scopes -> SUBSET Instances] /\ left'[s] = left[s] \ {i}
  BY <1>1, <1>3 DEF IInv, Typed
<1>5. Typed' /\ Phases'
  BY <1>4 DEF IInv, Typed, Phases
<1>6. Running'
  BY <1>1, <1>4, Lists DEF IInv, Running
<1>7. PagesRead'
  BY <1>1, <1>2 DEF IInv, PagesRead
<1>8. ReceivedIsKept' /\ NothingElse' /\ Once'
  BY <1>1 DEF IInv, ReceivedIsKept, NothingElse, Once, Assembled
<1>9. NativeSoFar' /\ GcpSoFar'
  <2>1. /\ \A stack \in chan \cup listed : RegionOf[stack.first] # s
        /\ \A j \in left[s] : RegionOf[j] = s
    BY <1>1 DEF IInv, NativeSoFar
  <2>2. Made(s) = pending[s] /\ Made(s)' = pending'[s]
    BY <2>1 DEF Made
  <2>3. \A r \in Sections \ {s} : Made(r)' = Made(r) /\ Seen(r)' = Seen(r)
    BY <1>4, Lists DEF Made, Seen
  <2>4. /\ Seen(s) \in SUBSET (Instances \ CfTagged) /\ i \in Instances \ Seen(s) /\ RegionOf[i] = s
        /\ Seen(s)' = (Seen(s) \cup {i}) \ CfTagged
    BY <1>4, <2>1 DEF Seen, NativeOf
  <2>5. NativeWhole(pending[s], s, unread, Seen(s))
    BY <1>1, <2>2 DEF IInv, NativeSoFar
  <2>6. NativeWhole(Made(s)', s, unread, Seen(s)')
    <3> DEFINE seen == Seen(s)
    <3> HIDE DEF seen
    <3>1. seen \in SUBSET (Instances \ CfTagged) /\ i \in Instances \ seen /\ RegionOf[i] = s
      BY <2>4 DEF seen
    <3>2. NativeWhole(pending[s], s, unread, seen)
      BY <2>5 DEF seen
    <3>3. NativeWhole(AddNative(pending[s], i, unread, alarm), s, unread, (seen \cup {i}) \ CfTagged)
      BY <1>3, <3>1, <3>2, NativeRound
    <3> QED
      BY <1>4, <2>2, <2>4, <3>3 DEF seen
  <2>7. \A r \in Sections : NativeWhole(Made(r)', r, unread', Seen(r)')
    BY <1>1, <2>3, <2>6 DEF IInv, NativeSoFar
  <2>8. s \notin cut
    BY <1>1 DEF IInv, PagesRead
  <2> QED
    BY <1>1, <1>4, <2>1, <2>7, <2>8, Lists DEF IInv, NativeSoFar, GcpSoFar
<1> QED
  BY <1>5, <1>6, <1>7, <1>8, <1>9 DEF IInv

\* The loop has seen all instances of the region, and the stacks are ready to be sent.
LEMMA NativeAssembledStep ==
  ASSUME IInv, NEW s \in Sections, NativeAssembled(s)
  PROVE  IInv'
<1> USE DEF NativeAssembled, At, Goto, answer, lost, assembly
<1>1. /\ call = "native" /\ call' = call
      /\ ~err /\ ~closed /\ s \in Scopes /\ s \in Workers /\ s \notin Machines
  <2>1. s \in Scopes /\ s \in Workers /\ s \notin Machines
    BY Lists
  <2> QED
    BY <2>1, SectionRuns DEF IInv, Running
<1>2. Sources' = Sources /\ \A t : LastPage(t)' = LastPage(t) /\ Wanted(t)' = Wanted(t)
  BY SameCall
<1>3. /\ at' \in [Workers -> Places] /\ at[s] = "loop" /\ at'[s] = "send"
      /\ \A w \in Workers \ {s} : at'[w] = at[w]
  BY <1>1 DEF IInv, Typed, Places
<1>4. Typed' /\ Phases'
  BY <1>3 DEF IInv, Typed, Phases
<1>5. Running'
  BY <1>1, <1>3, Lists DEF IInv, Running
<1>6. PagesRead'
  BY <1>1, <1>2, <1>3, Lists DEF IInv, PagesRead
<1>7. ReceivedIsKept' /\ NothingElse' /\ Once'
  BY <1>1, <1>3, Lists, NothingMoves
<1>8. NativeSoFar' /\ GcpSoFar'
  <2>1. \A r : Made(r)' = Made(r) /\ Seen(r)' = Seen(r)
    BY SameStacks
  <2> QED
    BY <1>1, <1>3, <2>1, Lists DEF IInv, NativeSoFar, GcpSoFar
<1> QED
  BY <1>4, <1>5, <1>6, <1>7, <1>8 DEF IInv

\* An item leaves the goroutine for the channel, the list, or a line in the log.
LEMMA NextItemStep ==
  ASSUME IInv, NEW s \in Sections, NEW x \in pending[s],
         Send(s, x) \/ SendUntagged(s, x) \/ NameMissing(s, x) \/ ViewFails(s, x)
  PROVE  IInv'
<1> USE DEF NextItem, At, answer, assembly
<1>1. /\ NextItem(s, x)
      /\ call \in FanOut \cup {"machines"} /\ call # "gcpStacks" /\ call # "accesses" /\ call' = call
      /\ ~err /\ ~closed /\ s \in Scopes /\ s \in Workers /\ s \notin Machines /\ at[s] = "send"
  <2>1. s \in Scopes /\ s \in Workers /\ s \notin Machines
    BY Lists
  <2>2. NextItem(s, x)
    BY DEF Send, SendUntagged, NameMissing, ViewFails
  <2> QED
    BY <2>1, <2>2, SectionRuns
<1>2. Sources' = Sources /\ \A t : LastPage(t)' = LastPage(t) /\ Wanted(t)' = Wanted(t)
  BY <1>1, SameCall
<1>3. /\ pending'[s] = pending[s] \ {x} /\ \A t \in Scopes \ {s} : pending'[t] = pending[t]
      /\ pending' = [t \in Scopes |-> pending'[t]]
  BY <1>1 DEF IInv, Typed
<1>4. \/ /\ pc' = pc /\ dropped' = dropped /\ err' = err /\ closed' = closed
         /\ \/ call \in Buffered /\ chan' = chan \cup {x} /\ listed' = listed
            \/ call \notin Buffered /\ chan' = chan /\ listed' = listed \cup {x}
      \/ /\ pc' = "crashed" /\ call = "databases"
         /\ UNCHANGED <<dropped, err, closed, chan, listed>>
      \/ /\ pc' = pc /\ call = "machines" /\ dropped' = dropped \cup {x}
         /\ UNCHANGED <<err, closed, chan, listed>>
  BY DEF Send, SendUntagged, NameMissing, ViewFails, Deliver
<1>5. Typed' /\ Phases'
  BY <1>1, <1>3, <1>4 DEF IInv, Typed, Phases, FanOut
<1>6. Running'
  BY <1>1, <1>3, <1>4, Lists DEF IInv, Running, FanOut
<1>7. PagesRead'
  BY <1>1, <1>2, <1>4 DEF IInv, PagesRead
<1>8. (\A t : Got(t)' = Got(t)) /\ (\A v \in Machines : at'[v] = at[v])
  BY <1>1 DEF Got
<1>9. pc' # "crashed" => Out' = Out \cup {x}
  BY <1>4 DEF Out
<1>10. ReceivedIsKept'
  <2>1. \A t \in Sections : UnderWay(t) \subseteq UnderWay(t)' \cup {x}
    BY <1>3, Lists DEF UnderWay
  <2>2. pc' # "crashed" => UnderWay(Account)' = UnderWay(Account)
    BY <1>1, <1>4, Lists DEF UnderWay
  <2> QED
    BY <1>1, <1>2, <1>4, <1>8, <1>9, <2>1, <2>2 DEF IInv, ReceivedIsKept, Sources
<1>11. NothingElse'
  <2>1. call # "native" => x \in Wanted(s) /\ s \in Sources
    BY <1>1 DEF IInv, NothingElse, Assembled, Sources
  <2>2. listed' \cup chan' \subseteq listed \cup chan \cup {x}
    BY <1>4
  <2> QED
    BY <1>1, <1>2, <1>3, <2>1, <2>2, Lists DEF IInv, NothingElse, Assembled
<1>12. Once'
  <2>1. CASE call = "machines"
    <3>1. x \in ItemsOf(s) /\ x \in Got(s) /\ x \notin Out /\ Out' = Out \cup {x}
      <4>1. x \in ItemsOf(s) /\ x \in Got(s)
        BY <1>1, <2>1 DEF IInv, NothingElse, Assembled, Wanted, Once
      <4>2. pc' # "crashed"
        BY <1>1, <1>4, <2>1
      <4> QED
        BY <1>9, <2>1, <4>1, <4>2 DEF IInv, Once
    <3>2. \A t \in Sections \ {s} : x \notin ItemsOf(t)
      BY <1>1, <3>1, Lists
    <3>3. x \notin Machines
      BY <1>1, <3>1, Lists DEF Machines
    <3>4. dropped' \cap (listed' \cup chan') = {}
      BY <1>4, <2>1, <3>1 DEF IInv, Once, Out
    <3>5. ASSUME NEW t \in Sections
          PROVE  Out' \cap ItemsOf(t) \subseteq Got(t)' \ pending'[t] /\ pending'[t] \subseteq Got(t)'
      <4>1. CASE t = s
        BY <1>3, <1>8, <2>1, <3>1, <4>1 DEF IInv, Once
      <4>2. CASE t # s
        BY <1>3, <1>8, <2>1, <3>1, <3>2, <4>2, Lists DEF IInv, Once
      <4> QED
        BY <4>1, <4>2
    <3> QED
      BY <1>1, <1>8, <2>1, <3>1, <3>3, <3>4, <3>5 DEF IInv, Once
  <2>2. CASE call # "machines"
    BY <1>1, <1>4, <2>2 DEF IInv, Once
  <2> QED
    BY <2>1, <2>2
<1>13. NativeSoFar' /\ GcpSoFar'
  <2>1. CASE call = "native"
    <3>1. RegionOf[x.first] = s
      BY <2>1 DEF IInv, NativeSoFar, NativeWhole, Made
    <3>2. /\ chan' \cup listed' = chan \cup listed \cup {x} /\ left' = left /\ unread' = unread
          /\ at' = at /\ cut' = cut
      BY <1>1, <1>4, <2>1
    <3>3. \A r \in Sections : Made(r)' = Made(r) /\ Seen(r)' = Seen(r)
      BY <1>3, <3>1, <3>2, Lists DEF Made, Seen
    <3> QED
      BY <1>1, <2>1, <3>1, <3>2, <3>3 DEF IInv, NativeSoFar, GcpSoFar
  <2> QED
    BY <1>1, <2>1 DEF NativeSoFar, GcpSoFar
<1> QED
  BY <1>5, <1>6, <1>7, <1>10, <1>11, <1>12, <1>13 DEF IInv

\* A machine is listed with its view, or dropped without one.
LEMMA MachineStep ==
  ASSUME IInv, NEW v \in Machines, Machine(v)
  PROVE  IInv'
<1> USE DEF Machine, SendMachine, MachineViewFails, At, Goto, answer, lost, assembly
<1>1. /\ call = "machines" /\ call' = call /\ pc = "receive" /\ pc' = pc /\ at[v] = "view" /\ v \in vmList
      /\ ~err /\ ~closed /\ v \in Workers /\ v \notin Sections /\ v \in ItemsOf(Account)
  <2>1. v \in Workers /\ v \notin Sections /\ v \in ItemsOf(Account)
    BY Lists DEF Machines
  <2> QED
    BY <2>1, SectionRuns DEF IInv, Running
<1>2. Sources' = Sources /\ \A t : LastPage(t)' = LastPage(t) /\ Wanted(t)' = Wanted(t)
  BY SameCall
<1>3. at' \in [Workers -> Places] /\ at'[v] = "done" /\ \A w \in Workers \ {v} : at'[w] = at[w]
  BY <1>1 DEF IInv, Typed, Places
<1>4. /\ UNCHANGED <<page, pending, vmList, chan, closed, err, cut, left>>
      /\ \/ listed' = listed \cup {v} /\ dropped' = dropped
         \/ listed' = listed /\ dropped' = dropped \cup {v}
  BY <1>1 DEF Deliver, Buffered
<1>5. Typed' /\ Phases'
  BY <1>1, <1>3, <1>4 DEF IInv, Typed, Phases
<1>6. Running'
  BY <1>1, <1>3, <1>4, Lists DEF IInv, Running
<1>7. PagesRead'
  BY <1>1, <1>2, <1>3, <1>4, Lists DEF IInv, PagesRead
<1>8. (\A t : Got(t)' = Got(t)) /\ Out' = Out \cup {v} /\ v \notin Out
  BY <1>1, <1>4 DEF Got, Out, IInv, Once
<1>9. ReceivedIsKept'
  <2>1. \A t : UnderWay(t) \subseteq UnderWay(t)' \cup {v}
    <3>1. vmList \subseteq Workers
      BY <1>1, Lists DEF IInv, NothingElse, Assembled
    <3> QED
      BY <1>1, <1>3, <1>4, <3>1 DEF UnderWay
  <2> QED
    BY <1>1, <1>2, <1>4, <1>8, <2>1 DEF IInv, ReceivedIsKept
<1>10. NothingElse'
  <2>1. v \in Wanted(Account) /\ Account \in Sources
    BY <1>1 DEF Wanted, Sources
  <2> QED
    BY <1>1, <1>2, <1>4, <2>1 DEF IInv, NothingElse, Assembled
<1>11. Once'
  <2>1. \A t \in Sections : v \notin ItemsOf(t)
    BY <1>1, Lists
  <2>2. dropped' \cap (listed' \cup chan') = {}
    BY <1>1, <1>4, <1>8 DEF IInv, Once, Out
  <2>3. \A w \in Machines : at'[w] \in {"idle", "view"} => w \notin Out'
    BY <1>1, <1>3, <1>8, Lists DEF IInv, Once
  <2> QED
    BY <1>1, <1>4, <1>8, <2>1, <2>2, <2>3 DEF IInv, Once
<1>12. NativeSoFar' /\ GcpSoFar'
  BY <1>1 DEF NativeSoFar, GcpSoFar
<1> QED
  BY <1>5, <1>6, <1>7, <1>9, <1>10, <1>11, <1>12 DEF IInv

\* What the caller does with the channel moves an item, or nothing.
LEMMA ChannelStep ==
  ASSUME IInv, CloseChannel \/ (\E x \in chan : Receive(x)) \/ Return
  PROVE  IInv'
<1> USE DEF CloseChannel, Receive, Return, work, lost, assembly
<1>1. /\ call \in FanOut \cup {"machines"} /\ call # "gcpStacks" /\ call # "accesses" /\ call' = call
      /\ ~err /\ pc = "receive"
      /\ UNCHANGED <<at, page, pending, vmList, err, cut, dropped, unread, kept, left>>
  BY DEF IInv, Phases, FanOut, answer
<1>2. listed' \cup chan' = listed \cup chan
  BY DEF answer
<1>3. \/ pc' = pc
      \/ pc' = "returned" /\ closed /\ chan = {} /\ closed' /\ chan' = {}
  BY DEF answer
<1>4. Sources' = Sources /\ \A t : LastPage(t)' = LastPage(t) /\ Wanted(t)' = Wanted(t)
  BY <1>1, SameCall
<1>5. Typed' /\ Phases'
  BY <1>1, <1>3 DEF IInv, Typed, Phases
<1>6. Running'
  <2>1. closed' => \A w \in Workers : at[w] \in {"idle", "done"}
    BY DEF IInv, Running, answer
  <2>2. call \notin Buffered => chan' = {}
    BY DEF IInv, Running, answer
  <2> QED
    BY <1>1, <1>3, <2>1, <2>2 DEF IInv, Running
<1>7. PagesRead'
  BY <1>1, <1>3, <1>4 DEF IInv, PagesRead
<1>8. ReceivedIsKept' /\ NothingElse' /\ Once'
  <2>1. (\A t : Got(t)' = Got(t)) /\ Out' = Out
    BY <1>1, <1>2 DEF Got, Out
  <2>2. \A t : UnderWay(t)' = UnderWay(t)
    BY <1>1, <1>3 DEF UnderWay
  <2> QED
    BY <1>1, <1>2, <1>4, <2>1, <2>2 DEF IInv, ReceivedIsKept, NothingElse, Once
<1>9. NativeSoFar' /\ GcpSoFar'
  <2>1. \A r : Made(r)' = Made(r) /\ Seen(r)' = Seen(r)
    BY <1>1, <1>2 DEF Made, Seen
  <2> QED
    BY <1>1, <1>2, <2>1 DEF IInv, NativeSoFar, GcpSoFar
<1> QED
  BY <1>5, <1>6, <1>7, <1>8, <1>9 DEF IInv

\* Every step keeps the invariant.
LEMMA StepInvariant == IInv /\ [Next]_vars => IInv'
<1> SUFFICES ASSUME IInv, [Next]_vars PROVE IInv'
  OBVIOUS
<1>1. CASE Caller
  <2>1. CASE NextPage
    BY <2>1, NextPageStep
  <2>2. CASE PageFails \/ PagesEnd \/ ListUsers \/ KeysEnd
    BY <2>2, ListEndsStep
  <2>3. CASE ListFails
    BY <2>3, ListFailsStep
  <2>4. CASE AssembleGcp \/ (\E i \in Instances : AddGcpInstance(i)) \/ GcpAssembled
    BY <2>4, AssembleGcpStep, AddGcpInstanceStep, GcpAssembledStep
  <2>5. CASE \E s \in Sections : ListKeys(s)
    BY <2>5, ListKeysStep
  <2>6. CASE \E sets \in SUBSET Sections : ListScaleSets(sets)
    BY <2>6, ListScaleSetsStep
  <2>7. CASE CloseChannel \/ (\E x \in chan : Receive(x)) \/ Return
    BY <2>7, ChannelStep
  <2> QED
    BY <1>1, <2>1, <2>2, <2>3, <2>4, <2>5, <2>6, <2>7 DEF Caller
<1>2. ASSUME NEW s \in Sections, Section(s) PROVE IInv'
  <2>1. CASE Request(s) \/ Answer(s) \/ RequestFails(s) \/ PageEnds(s)
    BY <2>1, RequestStep, AnswerStep, RequestFailsStep, PageEndsStep
  <2>2. CASE AssembleNative(s) \/ (\E i \in Instances : AddNativeInstance(s, i)) \/ NativeAssembled(s)
    BY <2>2, AssembleNativeStep, AddNativeInstanceStep, NativeAssembledStep
  <2>3. CASE \E x \in pending[s] : Send(s, x) \/ SendUntagged(s, x) \/ NameMissing(s, x) \/ ViewFails(s, x)
    BY <2>3, NextItemStep
  <2> QED
    BY <1>2, <2>1, <2>2, <2>3 DEF Section
<1>3. CASE \E v \in Machines : Machine(v)
  BY <1>3, MachineStep
<1>4. CASE UNCHANGED vars
  <2> USE <1>4 DEF vars, work, answer, lost, assembly
  <2>1. call' = call /\ Sources' = Sources /\ \A t : LastPage(t)' = LastPage(t) /\ Wanted(t)' = Wanted(t)
    BY SameCall
  <2>2. \A t : Got(t)' = Got(t) /\ UnderWay(t)' = UnderWay(t)
    BY DEF Got, UnderWay
  <2>3. Out' = Out /\ \A r : Made(r)' = Made(r) /\ Seen(r)' = Seen(r)
    BY DEF Out, Made, Seen
  <2>4. Typed' /\ Phases' /\ Running' /\ PagesRead'
    BY <2>1 DEF IInv, Typed, Phases, Running, PagesRead
  <2>5. ReceivedIsKept' /\ NothingElse' /\ Once'
    BY <2>1, <2>2, <2>3 DEF IInv, ReceivedIsKept, NothingElse, Once
  <2>6. NativeSoFar' /\ GcpSoFar'
    BY <2>3 DEF IInv, NativeSoFar, GcpSoFar
  <2> QED
    BY <2>4, <2>5, <2>6 DEF IInv
<1> QED
  BY <1>1, <1>2, <1>3, <1>4 DEF Next

\* The invariant holds throughout.
THEOREM Invariance == Spec => []IInv
BY InitInvariant, StepInvariant, PTL DEF Spec

-----------------------------------------------------------------------------
(* What the callers rely on. *)

\* What a list without an error lacks is a page after a failed one or a machine
\* without a view, and it has nothing that there is not: for every number of
\* pages, every capacity of a channel and every order of the goroutines.
THEOREM ListIsAccountedFor == Spec => []ListingAccounts
<1>1. IInv => ListingAccounts
  <2> SUFFICES ASSUME IInv, pc = "returned", call \notin Assembled
               PROVE  IF err THEN listed = {} /\ call \in AllOrNone
                      ELSE /\ \A s \in Sources :
                                /\ Wanted(s) \ listed \subseteq Beyond(s) \cup dropped
                                /\ s \notin cut => page[s] = LastPage(s)
                           /\ listed \subseteq (UNION {Wanted(s) : s \in Sources}) \ dropped
    BY DEF ListingAccounts, Assembled
  <2>1. CASE err
    BY <2>1 DEF IInv, Phases
  <2>2. CASE ~err
    <3>1. chan = {}
      BY DEF IInv, Running, Buffered, FanOut
    <3>2. ASSUME NEW s \in Sources
          PROVE  UnderWay(s) = {} /\ (s \notin cut => page[s] = LastPage(s))
      <4>1. CASE s = Account
        <5>1. UnderWay(s) = {}
          <6>1. CASE call = "machines"
            <7>1. \A v \in vmList : at[v] # "view"
              BY <6>1, Lists DEF IInv, Running, NothingElse, Assembled
            <7> QED
              BY <4>1, <6>1, <7>1 DEF UnderWay
          <6> QED
            BY <4>1, <6>1 DEF UnderWay
        <5> QED
          BY <2>2, <4>1, <5>1 DEF IInv, PagesRead
      <4>2. CASE s # Account
        <5>1. s \in Sections /\ call \in FanOut \cup {"accesses", "machines"}
          BY <4>2 DEF Sources
        <5>2. at[s] \in {"idle", "done"} /\ s \in Workers
          BY <5>1, Lists DEF IInv, Running
        <5>3. s \notin cut => page[s] = LastPage(s)
          BY <2>2, <5>1, <5>2 DEF IInv, PagesRead, Running
        <5> QED
          BY <4>2, <5>1, <5>2, <5>3 DEF UnderWay, IInv, Running
      <4> QED
        BY <4>1, <4>2
    <3>3. ASSUME NEW s \in Sources PROVE Wanted(s) \ listed \subseteq Beyond(s) \cup dropped
      <4>1. Got(s) \cap Wanted(s) \subseteq listed \cup dropped
        BY <2>2, <3>1, <3>2 DEF IInv, ReceivedIsKept, Out
      <4>2. s \in Scopes /\ Wanted(s) \subseteq ItemsOf(s)
        BY DEF Sources, Scopes, Wanted
      <4>3. ItemsOf(s) \subseteq Got(s) \cup Beyond(s)
        <5>1. page[s] \in Nat /\ Len(Pages[s]) \in Nat
          BY <4>2, Lists DEF IInv, Typed
        <5>2. \A k \in 1 .. Len(Pages[s]) : k \in 1 .. page[s] \/ k \in page[s] + 1 .. Len(Pages[s])
          BY <5>1
        <5> QED
          BY <4>2, <5>2, Lists DEF Got, Beyond
      <4> QED
        BY <4>1, <4>2, <4>3
    <3>4. listed \subseteq UNION {Wanted(s) : s \in Sources} /\ dropped \cap listed = {}
      BY DEF IInv, NothingElse, Once
    <3> QED
      BY <2>2, <3>2, <3>3, <3>4
  <2> QED
    BY <2>1, <2>2
<1> QED
  BY <1>1, Invariance, PTL

\* Every stack the two assemblies return is whole, and every labelled instance is
\* in one stack, for every set of instances and parts and every order in which
\* the loops take them.
THEOREM AssembledStacksAreWhole == Spec => []StacksAreWhole
<1>1. IInv => StacksAreWhole
  <2> SUFFICES ASSUME IInv, pc = "returned", ~err PROVE StacksAreWhole
    BY DEF StacksAreWhole
  <2>1. ASSUME NEW stacks, NEW is, OnePerGroup(stacks, is), \A stack \in stacks : Sums(stack, is)
        PROVE  \A i \in is \cap Tagged : \E stack \in stacks :
                 /\ i \in stack.instances
                 /\ \A t \in stacks : i \in t.instances => t = stack
    BY <2>1 DEF OnePerGroup, Sums, Members
  <2>2. CASE call = "native"
    <3>1. chan = {} /\ \A r \in Sections : at[r] = "done" /\ pending[r] = {}
      BY <2>2, Lists DEF IInv, Running, FanOut
    <3>2. ASSUME NEW stack \in listed
          PROVE  IsWholeNative(stack, RegionOf[stack.first], unread, NativeOf(RegionOf[stack.first]))
      <4> DEFINE r == RegionOf[stack.first]
      <4>1. r \in Sections /\ stack \in Made(r)
        BY <2>2 DEF IInv, NativeSoFar, Made
      <4>2. IsWholeNative(stack, r, unread, Seen(r))
        BY <2>2, <4>1 DEF IInv, NativeSoFar, NativeWhole
      <4>3. r \notin cut
        <5>1. r \in cut => Seen(r) = {}
          BY <2>2, <4>1 DEF IInv, NativeSoFar, Seen
        <5>2. Seen(r) # {}
          BY <4>2 DEF IsWholeNative, Sums, Members
        <5> QED
          BY <5>1, <5>2
      <4>4. Seen(r) = NativeOf(r)
        BY <2>2, <3>1, <4>1, <4>3 DEF IInv, NativeSoFar, Seen
      <4> QED
        BY <4>2, <4>4
    <3>3. ASSUME NEW r \in Sections \ cut, NEW i \in NativeOf(r) \cap Tagged PROVE InOneStack(i)
      <4>1. Made(r) = {stack \in listed : RegionOf[stack.first] = r} /\ Seen(r) = NativeOf(r)
        BY <2>2, <3>1 DEF IInv, NativeSoFar, Made, Seen
      <4>2. OnePerGroup(Made(r), NativeOf(r)) /\ \A stack \in Made(r) : Sums(stack, NativeOf(r))
        <5>1. NativeWhole(Made(r), r, unread, NativeOf(r))
          BY <2>2, <4>1 DEF IInv, NativeSoFar
        <5> QED
          BY <5>1 DEF NativeWhole, IsWholeNative
      <4>3. PICK stack \in Made(r) : i \in stack.instances /\ \A t \in Made(r) : i \in t.instances => t = stack
        BY <2>1, <4>2
      <4>4. ASSUME NEW t \in listed, i \in t.instances PROVE t \in Made(r)
        <5>1. Sums(t, NativeOf(RegionOf[t.first]))
          BY <3>2, <4>4 DEF IsWholeNative
        <5>2. RegionOf[i] = RegionOf[t.first] /\ RegionOf[i] = r
          BY <4>4, <5>1 DEF Sums, Members, NativeOf
        <5> QED
          BY <4>1, <4>4, <5>2
      <4> QED
        BY <4>1, <4>3, <4>4 DEF InOneStack
    <3> QED
      BY <2>2, <3>2, <3>3 DEF StacksAreWhole
  <2>3. CASE call = "gcpStacks"
    <3>1. OnePerGroup(listed, kept) /\ \A stack \in listed : IsWholeGcp(stack, kept) /\ Sums(stack, kept)
      BY <2>3 DEF IInv, GcpSoFar, GcpWhole, IsWholeGcp
    <3> QED
      BY <2>1, <2>3, <3>1 DEF StacksAreWhole, InOneStack
  <2> QED
    BY <2>2, <2>3 DEF StacksAreWhole
<1> QED
  BY <1>1, Invariance, PTL
-----------------------------------------------------------------------------
(* What ListingEnds needs beside fairness: the loop over the channel and   *)
(* the goroutines that fill it do not wait for each other for ever.        *)

\* A goroutine can take a step; a send blocks while the buffer is full.
WorkerCanGoOn(w) ==
  \/ at[w] \in {"page", "asked", "assemble", "loop"}
  \/ at[w] = "send" /\ (pending[w] = {} \/ (call \in Buffered => Cardinality(chan) < Capacity))
  \/ at[w] = "view" /\ (call \in Buffered => Cardinality(chan) < Capacity)

\* Before the call returns, its loop can receive or end, its channel can be
\* closed, or a goroutine can go on, whatever failed before.
NoDeadlock ==
  pc = "receive" =>
    \/ chan # {} \/ closed
    \/ \A w \in Workers : at[w] \in {"idle", "done"}
    \/ \E w \in Workers : WorkerCanGoOn(w)

\* No call blocks for ever on its channel, for any pages and any capacity.
THEOREM NeverDeadlocks == Spec => []NoDeadlock
<1>1. Cardinality({}) < Capacity
  BY FS_EmptySet, ListingAssumption
<1>2. ASSUME IInv, chan = {}, NEW w \in Workers, at[w] \notin {"idle", "done"}
      PROVE  WorkerCanGoOn(w)
  BY <1>1, <1>2 DEF WorkerCanGoOn, IInv, Typed, Places
<1>3. IInv => NoDeadlock
  BY <1>2 DEF NoDeadlock
<1>4. QED
  BY <1>3, Invariance, PTL

-----------------------------------------------------------------------------
(* What can keep a call from its end. *)

CallerRank ==
  [list |-> 0, keys |-> 1, sets |-> 1, assemble |-> 1, receive |-> 2, returned |-> 3, crashed |-> 3]

\* How far a goroutine has come with the pages it has.
PlaceRank ==
  [idle |-> 0, view |-> 1, assemble |-> 1, loop |-> 2, send |-> 3, page |-> 4, asked |-> 5,
   done |-> 6]

Shrinks(before, after) == after \subseteq before /\ after # before

\* A section receives its next page, goes on with the pages it has, has one
\* instance less to put into a stack, or one item less to send.
SectionAdvances(s) ==
  \/ page[s] < page'[s] /\ page'[s] <= LastPage(s)
  \/ /\ page'[s] = page[s]
     /\ \/ PlaceRank[at[s]] < PlaceRank[at'[s]]
        \/ /\ at'[s] = at[s]
           /\ \/ Shrinks(left[s], left'[s])
              \/ left'[s] = left[s] /\ Shrinks(pending[s], pending'[s])

SectionWaits(s) ==
  page'[s] = page[s] /\ at'[s] = at[s] /\ left'[s] = left[s] /\ pending'[s] = pending[s]

AccountAdvances ==
  \/ page[Account] < page'[Account] /\ page'[Account] <= LastPage(Account)
  \/ page'[Account] = page[Account] /\ Shrinks(left[Account], left'[Account])

AccountWaits == page'[Account] = page[Account] /\ left'[Account] = left[Account]

Advances ==
  \/ CallerRank[pc] < CallerRank[pc']
  \/ /\ pc' = pc /\ (closed => closed')
     /\ AccountAdvances \/ AccountWaits
     /\ \A s \in Sections : SectionAdvances(s) \/ SectionWaits(s)
     /\ \A v \in Machines : at'[v] = at[v] \/ PlaceRank[at[v]] < PlaceRank[at'[v]]
     /\ \/ ~closed /\ closed'
        \/ AccountAdvances
        \/ \E s \in Sections : SectionAdvances(s)
        \/ \E v \in Machines : PlaceRank[at[v]] < PlaceRank[at'[v]]
        \/ Shrinks(chan, chan')

\* GetInstances: the request for a page of a scale set fails.
AskedAgain ==
  /\ call = "machines" /\ pc = "receive"
  /\ \E s \in Sections : at[s] = "asked" /\ at' = [at EXCEPT ![s] = "page"]
  /\ UNCHANGED <<call, pc, page, pending, vmList, answer, lost, assembly>>

\* The places of the sections are apart from those of the machines.
LEMMA Apart ==
  ASSUME IInv, NEW s \in Sections, NEW place, Goto(s, place)
  PROVE  /\ at'[s] = place /\ \A q \in Sections : q # s => at'[q] = at[q]
         /\ \A v \in Machines : at'[v] = at[v]
<1>1. \A v \in Machines : v # s
  BY Lists
<1>2. at \in [Workers -> Places]
  BY DEF IInv, Typed
<1>3. QED
  BY <1>1, <1>2 DEF Goto, Workers

\* A step of one section moves the call if it moves the section.
LEMMA OneSection ==
  ASSUME NEW s \in Sections, SectionAdvances(s), pc' = pc, closed' = closed, AccountWaits,
         \A q \in Sections : q # s => SectionWaits(q),
         \A v \in Machines : at'[v] = at[v]
  PROVE  Advances
  BY DEF Advances

LEMMA CallerAdvances ==
  ASSUME IInv, Caller
  PROVE  Advances
<1> USE DEF Advances
<1>1. page \in [Scopes -> Nat] /\ left \in [Scopes -> SUBSET Instances]
  BY DEF IInv, Typed
<1>2. CASE PageFails \/ ListFails \/ PagesEnd \/ AssembleGcp \/ GcpAssembled \/ ListUsers \/ KeysEnd
           \/ Return \/ \E sets \in SUBSET Sections : ListScaleSets(sets)
  BY <1>2 DEF PageFails, ListFails, PagesEnd, AssembleGcp, GcpAssembled, ListUsers, KeysEnd, Return,
     ListScaleSets, Ended, CallerRank
<1>3. CASE NextPage
  <2>1. AccountAdvances /\ \A s \in Sections : SectionWaits(s)
    <3>1. Account \notin Sections /\ LastPage(Account) \in Nat
      BY Lists
    <3>2. QED
      BY <1>1, <1>3, <3>1 DEF NextPage, AccountAdvances, SectionWaits, assembly, Scopes
  <2>2. QED
    BY <1>3, <2>1 DEF NextPage
<1>4. CASE \E i \in Instances : AddGcpInstance(i)
  <2>1. AccountAdvances /\ \A s \in Sections : SectionWaits(s)
    <3>1. Account \notin Sections
      BY ListingAssumption
    <3>2. QED
      BY <1>1, <1>4, <3>1 DEF AddGcpInstance, AccountAdvances, SectionWaits, Shrinks, Scopes, IInv, Typed
  <2>2. QED
    BY <1>4, <2>1 DEF AddGcpInstance, answer
<1>5. ASSUME NEW s \in Sections, ListKeys(s) PROVE Advances
  <2>1. SectionAdvances(s) /\ AccountWaits /\ \A q \in Sections : q # s => SectionWaits(q)
    <3>1. Account \notin Sections /\ call = "accesses"
      BY <1>5, ListingAssumption DEF ListKeys, IInv, Phases
    <3>2. QED
      BY <1>1, <1>5, <3>1 DEF ListKeys, SectionAdvances, SectionWaits, AccountWaits, LastPage, OnePage,
         assembly, Scopes
  <2>2. QED
    BY <1>5, <2>1, OneSection DEF ListKeys
<1>6. CASE CloseChannel \/ \E x \in chan : Receive(x)
  <2>1. AccountWaits /\ (\A s \in Sections : SectionWaits(s)) /\ pc' = pc /\ at' = at
    BY <1>6 DEF CloseChannel, Receive, AccountWaits, SectionWaits, work, assembly
  <2>2. (~closed /\ closed') \/ (closed' = closed /\ Shrinks(chan, chan'))
    BY <1>6 DEF CloseChannel, Receive, Shrinks
  <2>3. QED
    BY <2>1, <2>2
<1>7. QED
  BY <1>2, <1>3, <1>4, <1>5, <1>6 DEF Caller

LEMMA SectionStepAdvances ==
  ASSUME IInv, NEW s \in Sections, Section(s)
  PROVE  Advances \/ AskedAgain
<1>1. /\ page \in [Scopes -> Nat] /\ left \in [Scopes -> SUBSET Instances]
      /\ pending = [q \in Scopes |-> pending[q]] /\ at \in [Workers -> Places]
  BY DEF IInv, Typed
<1>2. s \in Scopes /\ s # Account /\ Sections \subseteq Scopes /\ Account \in Scopes
  BY ListingAssumption DEF Scopes
<1>3. CASE Request(s) \/ PageEnds(s) \/ NativeAssembled(s) \/ AssembleNative(s)
  <2>1. PICK place : Goto(s, place) /\ PlaceRank[at[s]] < PlaceRank[place]
    BY <1>3 DEF Request, PageEnds, NativeAssembled, AssembleNative, At, PlaceRank
  <2>2. UNCHANGED <<pc, closed, page, pending, left>>
    BY <1>3 DEF Request, PageEnds, NativeAssembled, AssembleNative, answer, assembly
  <2>3. QED
    BY <2>1, <2>2, Apart, OneSection DEF SectionAdvances, SectionWaits, AccountWaits
<1>4. CASE Answer(s)
  <2>1. page'[s] = page[s] + 1 /\ page[s] < LastPage(s) /\ page[s] \in Nat
    BY <1>1, <1>2, <1>4 DEF Answer, At, IInv, PagesRead
  <2>2. LastPage(s) \in Nat
    BY <1>2, Lists
  <2>3. PICK place : Goto(s, place)
    BY <1>4 DEF Answer
  <2>4. /\ UNCHANGED <<pc, closed, left>>
        /\ \A q \in Scopes : q # s => page'[q] = page[q] /\ pending'[q] = pending[q]
    BY <1>1, <1>4 DEF Answer, answer, assembly
  <2>5. QED
    BY <1>2, <2>1, <2>2, <2>3, <2>4, Apart, OneSection DEF SectionAdvances, SectionWaits, AccountWaits
<1>5. CASE RequestFails(s)
  <2>1. CASE call = "machines"
    BY <1>5, <2>1 DEF RequestFails, AskedAgain, At, Goto, lost
  <2>2. CASE call # "machines"
    <3>1. Goto(s, "done") /\ PlaceRank[at[s]] < PlaceRank["done"]
      BY <1>5, <2>2 DEF RequestFails, At, PlaceRank
    <3>2. UNCHANGED <<pc, closed, page, pending, left>>
      BY <1>5 DEF RequestFails, answer, assembly
    <3>3. QED
      BY <3>1, <3>2, Apart, OneSection DEF SectionAdvances, SectionWaits, AccountWaits
  <2>3. QED
    BY <2>1, <2>2
<1>6. CASE \E i \in Instances : AddNativeInstance(s, i)
  <2>1. /\ UNCHANGED <<pc, closed, page, at>> /\ Shrinks(left[s], left'[s])
        /\ \A q \in Scopes : q # s => left'[q] = left[q] /\ pending'[q] = pending[q]
    BY <1>1, <1>2, <1>6 DEF AddNativeInstance, answer, Shrinks
  <2>2. QED
    BY <1>2, <2>1, OneSection DEF SectionAdvances, SectionWaits, AccountWaits
<1>7. ASSUME NEW x \in pending[s],
             Send(s, x) \/ SendUntagged(s, x) \/ NameMissing(s, x) \/ ViewFails(s, x)
      PROVE  Advances
  <2>1. /\ UNCHANGED <<page, at, left>> /\ Shrinks(pending[s], pending'[s]) /\ pc = "receive"
        /\ \A q \in Scopes : q # s => pending'[q] = pending[q]
    BY <1>1, <1>2, <1>7 DEF Send, SendUntagged, NameMissing, ViewFails, NextItem, At, assembly, Shrinks
  <2>2. pc' = "crashed" \/ (pc' = pc /\ closed' = closed)
    BY <1>7 DEF Send, SendUntagged, NameMissing, ViewFails, Deliver, answer
  <2>3. CASE pc' = "crashed"
    BY <2>1, <2>3 DEF Advances, CallerRank
  <2>4. CASE pc' = pc /\ closed' = closed
    BY <1>2, <2>1, <2>4, OneSection DEF SectionAdvances, SectionWaits, AccountWaits
  <2>5. QED
    BY <2>2, <2>3, <2>4
<1>8. QED
  BY <1>3, <1>4, <1>5, <1>6, <1>7 DEF Section

LEMMA MachineStepAdvances ==
  ASSUME IInv, NEW v \in Machines, Machine(v)
  PROVE  Advances
<1>1. /\ at[v] = "view" /\ at' = [at EXCEPT ![v] = "done"]
      /\ UNCHANGED <<pc, closed, page, pending, left>>
  BY DEF Machine, SendMachine, MachineViewFails, At, Goto, Deliver, answer, assembly
<1>2. at \in [Workers -> Places] /\ v \in Workers /\ Machines \subseteq Workers
  BY DEF IInv, Typed, Workers
<1>3. \A s \in Sections : s # v
  BY Lists
<1>4. PlaceRank["view"] < PlaceRank["done"]
  BY DEF PlaceRank
<1>5. \A s \in Sections : SectionWaits(s)
  BY <1>1, <1>2, <1>3 DEF SectionWaits
<1>6. QED
  BY <1>1, <1>2, <1>4, <1>5 DEF Advances, AccountWaits

\* Every step of the eleven calls is one forward, to a page not yet received,
\* a later place, one item or instance less, but one: a page of a scale set
\* that is refused is asked for again with nothing else changed.  As no call
\* is ever stuck and the lists are finite, that is all that can keep one from
\* its end, which is what ListingEnds says.
EveryStepAdvances == [][Advances \/ AskedAgain]_vars

THEOREM StepsAdvance == Spec => EveryStepAdvances
<1>1. IInv /\ [Next]_vars => [Advances \/ AskedAgain]_vars
  BY CallerAdvances, SectionStepAdvances, MachineStepAdvances DEF Next
<1>2. QED
  BY <1>1, Invariance, PTL DEF Spec, EveryStepAdvances
=============================================================================
