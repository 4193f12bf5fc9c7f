------------------------------- MODULE Listing -------------------------------
(***************************************************************************)
(* The functions of aws.go, gcp.go and azure.go that answer the get*       *)
(* operations, by how they go through pages and what a failure costs:      *)
(*   instances   AWS getInstances, getCFStacks: a goroutine per region,    *)
(*               page by page, over a buffered channel                     *)
(*   alerts      AWS getAlerts: the same over an unbuffered one            *)
(*   disks       AWS getDisks, getImages: one request per region           *)
(*   databases   AWS getDatabases: the same, and the tags of each          *)
(*   native      AWS getNativeStacks: five lists per region, then assembly *)
(*   accesses    AWS and GCP getAccesses: the users, then the keys of each *)
(*   groups      Azure GetStacks, GetImages, GetDatabases: page by page    *)
(*   storages    Azure GetStorages: page by page, all or nothing           *)
(*   machines    Azure GetInstances: two lists, then a goroutine for each  *)
(*               machine and for each scale set                            *)
(*   project     GCP getInstances, getImages, getDisks, getDatabases: one  *)
(*               request, all or nothing                                   *)
(*   gcpStacks   GCP GetStacks: five such requests, then assembly          *)
(***************************************************************************)
EXTENDS StackAssembly, FiniteSets

CONSTANTS
  Items,       \* what a list is made of
  Sections,    \* the regions, users or scale sets, as the call goes
  Account,     \* what is listed for the account as a whole
  Pages,       \* for each of these, the pages it has: sequences of sets of items
  Inactive,    \* the keys that are inactive or have expired
  Nameless,    \* the databases without a DBName
  Capacity     \* of instChan, cfChan and stackChan

Scopes == Sections \cup {Account}

\* A cloud lists an item once, and no instance out of the regions there are.
ASSUME ListingAssumption ==
  /\ Account \notin Sections /\ Items \cap Sections = {}
  /\ Pages \in [Scopes -> Seq(SUBSET Items)]
  /\ \A s \in Scopes :
       /\ Pages[s] # <<>>
       /\ \A t \in Scopes : \A k \in DOMAIN Pages[s], l \in DOMAIN Pages[t] :
            s # t \/ k # l => Pages[s][k] \cap Pages[t][l] = {}
  /\ \A i \in Instances : RegionOf[i] \in Sections
  /\ Capacity \in Nat \ {0}

Calls ==
  {"instances", "alerts", "disks", "databases", "native", "accesses", "groups", "storages",
   "machines", "project", "gcpStacks"}

FanOut     == {"instances", "alerts", "disks", "databases", "native"}
OnePage    == {"disks", "databases", "accesses", "project"}
AllOrNone  == {"accesses", "storages", "project", "gcpStacks"}
Buffered   == {"instances", "native"}

ItemsOf(s) == UNION Range(Pages[s])
Machines   == ItemsOf(Account)     \* in GetInstances
Workers    == Sections \cup Machines

VARIABLES
  call,
  pc,        \* where the caller is
  at,        \* per section or machine, where its goroutine is
  page,      \* per section and for the account, the pages received
  pending,   \* per section, what it still has to send; GetStacks: the stacks so far
  vmList,    \* GetInstances: the machines of the pages received
  chan,      \* what is in the buffer of the channel
  closed,
  listed,    \* what the call will return
  err,       \* it will return an error in its place
  cut,       \* the lists that ended with a failed request
  dropped,   \* GetInstances: without an instance view
  untagged,  \* getDatabases: sent without their tags
  unread,    \* getNativeStacks: the load balancers without their tags
  kept,      \* GetStacks: the instances in instancesByName
  left,      \* per region and for GetStacks, the instances not yet in a stack
  firewalls  \* GetStacks: firewallsByNetwork

assembly == <<kept, left, firewalls>>
work     == <<at, page, pending, vmList>>
answer   == <<chan, closed, listed, err>>
lost     == <<cut, dropped, untagged, unread>>
vars     == <<call, pc, work, answer, lost, assembly>>

At(w, place)   == pc = "receive" /\ at[w] = place
Goto(w, place) == at' = [at EXCEPT ![w] = place]

Init ==
  /\ call \in Calls
  /\ pc = IF call \in FanOut THEN "receive" ELSE "list"
  /\ at = [w \in Workers |-> IF w \in Sections /\ call \in FanOut THEN "page" ELSE "idle"]
  /\ page = [s \in Scopes |-> 0]
  /\ pending = [s \in Scopes |-> {}]
  /\ vmList = {} /\ chan = {} /\ closed = FALSE /\ listed = {} /\ err = FALSE
  /\ cut = {} /\ dropped = {} /\ untagged = {} /\ unread = {}
  /\ kept = {} /\ firewalls = [n \in Networks |-> {}]
  /\ left = [s \in Scopes |-> {i \in Instances : RegionOf[i] = s}]

\* getNativeStacks and GetStacks: the five kinds of resources, each in one
\* request; the pages of a kind only differ in that any of them may fail.
LastPage(s) ==
  IF call \in OnePage THEN 1 ELSE IF call \in {"native", "gcpStacks"} THEN 5 ELSE Len(Pages[s])

-----------------------------------------------------------------------------
(* What the caller lists itself *)

NextPage ==
  /\ pc = "list" /\ call # "accesses" /\ page[Account] < LastPage(Account)
  /\ page' = [page EXCEPT ![Account] = @ + 1]
  /\ LET items == IF call = "gcpStacks" THEN {} ELSE Pages[Account][page'[Account]]
     IN  IF call = "machines"
         THEN vmList' = vmList \cup items /\ UNCHANGED listed
         ELSE listed' = listed \cup items /\ UNCHANGED vmList
  /\ UNCHANGED <<call, pc, at, pending, chan, closed, err, lost, assembly>>

Ended == IF call = "machines" THEN "sets" ELSE "returned"

PageFails ==
  /\ pc = "list" /\ call \in {"groups", "machines"} /\ page[Account] < LastPage(Account)
  /\ cut' = cut \cup {Account}
  /\ pc' = Ended
  /\ UNCHANGED <<call, work, answer, dropped, untagged, unread, assembly>>

\* Also a time stamp that cannot be parsed, and a database without a CREATE
\* operation in getDatabases.
ListFails ==
  /\ pc \in {"list", "keys"} /\ call \in AllOrNone
  /\ err' = TRUE /\ listed' = {}
  /\ pc' = "returned"
  /\ UNCHANGED <<call, work, chan, closed, lost, assembly>>

PagesEnd ==
  /\ pc = "list" /\ page[Account] = LastPage(Account) /\ call # "gcpStacks"
  /\ pc' = Ended
  /\ UNCHANGED <<call, work, answer, lost, assembly>>

\* GetStacks
AssembleGcp ==
  /\ pc = "list" /\ page[Account] = LastPage(Account) /\ call = "gcpStacks"
  /\ kept' \in InstancesByName
  /\ left' = [left EXCEPT ![Account] = kept']
  /\ firewalls' \in FirewallsByNetwork
  /\ pc' = "assemble"
  /\ UNCHANGED <<call, work, answer, lost>>

AddGcpInstance(i) ==
  /\ pc = "assemble" /\ i \in left[Account]
  /\ \E database \in OneOf(DatabasesOf(GroupOf[i])) :
       pending' = [pending EXCEPT ![Account] = AddGcp(@, i, firewalls, database)]
  /\ left' = [left EXCEPT ![Account] = @ \ {i}]
  /\ UNCHANGED <<call, pc, at, page, vmList, answer, lost, kept, firewalls>>

GcpAssembled ==
  /\ pc = "assemble" /\ left[Account] = {}
  /\ listed' = {AsRunning(stack) : stack \in pending[Account]}
  /\ pc' = "returned"
  /\ UNCHANGED <<call, work, chan, closed, err, lost, assembly>>

\* getAccesses
ListUsers ==
  /\ pc = "list" /\ call = "accesses"
  /\ pc' = "keys"
  /\ UNCHANGED <<call, work, answer, lost, assembly>>

ListKeys(s) ==
  /\ pc = "keys" /\ page[s] = 0
  /\ page' = [page EXCEPT ![s] = 1]
  /\ listed' = listed \cup (Pages[s][1] \ Inactive)
  /\ UNCHANGED <<call, pc, at, pending, vmList, chan, closed, err, lost, assembly>>

KeysEnd ==
  /\ pc = "keys" /\ \A s \in Sections : page[s] = 1
  /\ pc' = "returned"
  /\ UNCHANGED <<call, work, answer, lost, assembly>>

\* GetInstances: all scale sets, or those of the pages before a failure.
ListScaleSets(sets) ==
  /\ pc = "sets"
  /\ at' = [w \in Workers |-> IF w \in vmList THEN "view" ELSE IF w \in sets THEN "page" ELSE "idle"]
  /\ cut' = cut \cup (Sections \ sets)
  /\ pc' = "receive"
  /\ UNCHANGED <<call, page, pending, vmList, answer, dropped, untagged, unread, assembly>>

-----------------------------------------------------------------------------
(* The goroutine of a region or a scale set *)

Request(s) ==
  /\ At(s, "page")
  /\ Goto(s, "asked")
  /\ UNCHANGED <<call, pc, page, pending, vmList, answer, lost, assembly>>

\* DescribeVolumes and DescribeImages answer with everything at once.
Received(s, k) == IF call = "disks" THEN ItemsOf(s) ELSE Pages[s][k]

Answer(s) ==
  /\ At(s, "asked")
  /\ page' = [page EXCEPT ![s] = @ + 1]
  /\ IF call = "native"
     THEN Goto(s, IF page'[s] = LastPage(s) THEN "assemble" ELSE "page") /\ UNCHANGED pending
     ELSE Goto(s, "send") /\ pending' = [pending EXCEPT ![s] = Received(s, page'[s])]
  /\ UNCHANGED <<call, pc, vmList, answer, lost, assembly>>

\* The page of a scale set is asked for again, without an end.
RequestFails(s) ==
  /\ At(s, "asked")
  /\ IF call = "machines" THEN Goto(s, "page") /\ UNCHANGED cut
                          ELSE Goto(s, "done") /\ cut' = cut \cup {s}
  /\ UNCHANGED <<call, pc, page, pending, vmList, answer, dropped, untagged, unread, assembly>>

AssembleNative(s) ==
  /\ At(s, "assemble")
  /\ \E missed \in SUBSET {b \in LoadBalancers : RegionOf[b] = s} : unread' = unread \cup missed
  /\ Goto(s, "loop")
  /\ UNCHANGED <<call, pc, page, pending, vmList, answer, cut, dropped, untagged, assembly>>

AddNativeInstance(s, i) ==
  /\ At(s, "loop") /\ i \in left[s]
  /\ \E alarm \in AlarmOf(i) :
       pending' = [pending EXCEPT ![s] = AddNative(@, i, unread, alarm)]
  /\ left' = [left EXCEPT ![s] = @ \ {i}]
  /\ UNCHANGED <<call, pc, at, page, vmList, answer, lost, kept, firewalls>>

NativeAssembled(s) ==
  /\ At(s, "loop") /\ left[s] = {}
  /\ Goto(s, "send")
  /\ UNCHANGED <<call, pc, page, pending, vmList, answer, lost, assembly>>

\* The send, and for an unbuffered channel the receive with it.
Deliver(x) ==
  IF call \in Buffered
  THEN Cardinality(chan) < Capacity /\ chan' = chan \cup {x} /\ UNCHANGED <<closed, listed, err>>
  ELSE listed' = listed \cup {x} /\ UNCHANGED <<chan, closed, err>>

NextItem(s, x) ==
  /\ At(s, "send") /\ x \in pending[s]
  /\ pending' = [pending EXCEPT ![s] = @ \ {x}]
  /\ UNCHANGED <<call, at, page, vmList, cut, unread, assembly>>

Send(s, x) == NextItem(s, x) /\ Deliver(x) /\ UNCHANGED <<pc, dropped, untagged>>

\* ListTagsForResource fails: the database goes without its tags.
SendUntagged(s, x) ==
  /\ call = "databases" /\ x \notin Nameless
  /\ NextItem(s, x) /\ Deliver(x)
  /\ untagged' = untagged \cup {x}
  /\ UNCHANGED <<pc, dropped>>

\* ... or, as the line for the log reads *db.DBName, the process ends.
NameMissing(s, x) ==
  /\ call = "databases" /\ x \in Nameless
  /\ NextItem(s, x)
  /\ pc' = "crashed"
  /\ UNCHANGED <<answer, dropped, untagged>>

ViewFails(s, x) ==
  /\ call = "machines" /\ NextItem(s, x)
  /\ dropped' = dropped \cup {x}
  /\ UNCHANGED <<pc, answer, untagged>>

PageEnds(s) ==
  /\ At(s, "send") /\ pending[s] = {}
  /\ Goto(s, IF page[s] < LastPage(s) THEN "page" ELSE "done")
  /\ UNCHANGED <<call, pc, page, pending, vmList, answer, lost, assembly>>

(* The goroutine of a machine *)

SendMachine(v) ==
  /\ At(v, "view") /\ Goto(v, "done") /\ Deliver(v)
  /\ UNCHANGED <<call, pc, page, pending, vmList, lost, assembly>>

\* Mutant of MachineViewFails: the goroutine returns without wg.Done().
MachineViewHangs(v) ==
  /\ At(v, "view") /\ Goto(v, "hangs")
  /\ dropped' = dropped \cup {v}
  /\ UNCHANGED <<call, pc, page, pending, vmList, answer, cut, untagged, unread, assembly>>

\* Also when the resource group cannot be told from the machine's ID.
MachineViewFails(v) ==
  /\ At(v, "view") /\ Goto(v, "done")
  /\ dropped' = dropped \cup {v}
  /\ UNCHANGED <<call, pc, page, pending, vmList, answer, cut, untagged, unread, assembly>>

-----------------------------------------------------------------------------
(* The loop over the channel *)

CloseChannel ==
  /\ pc = "receive" /\ ~closed
  /\ \A w \in Workers : at[w] \in {"idle", "done"}
  /\ closed' = TRUE
  /\ UNCHANGED <<call, pc, work, chan, listed, err, lost, assembly>>

Receive(x) ==
  /\ pc = "receive" /\ x \in chan
  /\ chan' = chan \ {x}
  /\ listed' = listed \cup {x}
  /\ UNCHANGED <<call, pc, work, closed, err, lost, assembly>>

\* Mutant of Return: a closed channel is left at once.
ReturnWhenClosed ==
  /\ pc = "receive" /\ closed
  /\ pc' = "returned"
  /\ UNCHANGED <<call, work, answer, lost, assembly>>

Return ==
  /\ pc = "receive" /\ closed /\ chan = {}
  /\ pc' = "returned"
  /\ UNCHANGED <<call, work, answer, lost, assembly>>

Caller ==
  \/ NextPage \/ PageFails \/ ListFails \/ PagesEnd
  \/ AssembleGcp \/ (\E i \in Instances : AddGcpInstance(i)) \/ GcpAssembled
  \/ ListUsers \/ (\E s \in Sections : ListKeys(s)) \/ KeysEnd
  \/ \E sets \in SUBSET Sections : ListScaleSets(sets)
  \/ CloseChannel \/ (\E x \in chan : Receive(x)) \/ Return

Section(s) ==
  \/ Request(s) \/ Answer(s) \/ RequestFails(s) \/ PageEnds(s)
  \/ AssembleNative(s) \/ (\E i \in Instances : AddNativeInstance(s, i)) \/ NativeAssembled(s)
  \/ \E x \in pending[s] : Send(s, x) \/ SendUntagged(s, x) \/ NameMissing(s, x) \/ ViewFails(s, x)

Machine(v) == SendMachine(v) \/ MachineViewFails(v)

Next ==
  \/ Caller
  \/ \E s \in Sections : Section(s)
  \/ \E v \in Machines : Machine(v)

Spec == Init /\ [][Next]_vars

\* The scheduler runs every goroutine, and each call of the SDK ends.
FairSpec ==
  /\ Spec
  /\ WF_vars(Caller)
  /\ \A s \in Sections : WF_vars(Section(s))
  /\ \A v \in Machines : WF_vars(Machine(v))

-----------------------------------------------------------------------------
\* What there is to be listed, and the items of the pages not received.
Sources ==
  CASE call \in FanOut \cup {"accesses"} -> Sections
    [] call = "machines" -> Sections \cup {Account}
    [] OTHER -> {Account}

Wanted(s) == IF call = "accesses" THEN ItemsOf(s) \ Inactive ELSE ItemsOf(s)

NativeOf(r) == {i \in Instances \ CfTagged : RegionOf[i] = r}

InOneStack(i) ==
  \E stack \in listed : i \in stack.instances /\ \A t \in listed : i \in t.instances => t = stack

Beyond(s) == UNION {Pages[s][k] : k \in page[s] + 1 .. Len(Pages[s])}

\* What a list without an error lacks: the pages after a failed one, those the
\* call never asks for, and the machines without a view.  With an error there
\* is no list.
ListingAccounts ==
  pc = "returned" /\ call \notin {"native", "gcpStacks"} =>
    IF err THEN listed = {} /\ call \in AllOrNone
    ELSE /\ \A s \in Sources :
              /\ Wanted(s) \ listed \subseteq Beyond(s) \cup dropped
              /\ s \notin cut => page[s] = LastPage(s)
         /\ listed \subseteq (UNION {Wanted(s) : s \in Sources}) \ dropped

\* Every stack is whole whatever the order of the instances, and there is one
\* for each group: a stack that lacks a part would leave it behind.
StacksAreWhole ==
  pc = "returned" /\ ~err =>
    /\ call = "native" =>
         /\ \A stack \in listed :
              LET r == RegionOf[stack.first] IN IsWholeNative(stack, r, unread, NativeOf(r))
         /\ \A r \in Sections \ cut : \A i \in NativeOf(r) \cap Tagged : InOneStack(i)
    /\ call = "gcpStacks" =>
         /\ \A stack \in listed : IsWholeGcp(stack, kept)
         /\ \A i \in kept \cap Tagged : InOneStack(i)

\* The call returns (or dies with the process), unless a page of a scale set
\* is refused time and again.
ListingEnds ==
  \/ <>(pc \in {"returned", "crashed"})
  \/ \E s \in Sections : []<>(call = "machines" /\ at[s] = "asked")
=============================================================================
