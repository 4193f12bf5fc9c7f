----------------------------- MODULE ItemsProofs -----------------------------
(***************************************************************************)
(* The invariants of AzureItems and GcpItems for all resources, lists and  *)
(* numbers of slots.                                                       *)
(*                                                                         *)
(* Azure: the calls share no control, so each part of the invariant is     *)
(* about the calls of one kind: goroutines per item, the two loops, and    *)
(* the goroutines per region.                                              *)
(*                                                                         *)
(* GCP: the classification has a group or a request for every instance it  *)
(* has seen; a goroutine that has ended has either failed or taken what    *)
(* its request takes, and nothing else is taken.  GcpItems is an instance  *)
(* here, with constants of its own, so that its assumption is a hypothesis *)
(* of each statement; a variable that both modules have is, in a statement *)
(* about one of them, the variable of that one.                            *)
(***************************************************************************)
EXTENDS AzureItems, FiniteSetTheorems, TLAPS

CONSTANTS GcpResources, GcpListings, GcpSlots, Groups, Named, Members

VARIABLES classified, groupsToDelete, instancesToDelete, gone, failed, listFailed

Gcp == INSTANCE GcpItems
         WITH Resources <- GcpResources, Listings <- GcpListings, Slots <- GcpSlots

-----------------------------------------------------------------------------
(* AzureItems *)

PerItem == call \in {"terminate", "stop", "images"}
InLoop  == call \in {"stacks", "databases"}

\* The call decides how the caller waits, and which of the three parts moves.
Phases ==
  /\ pc = "list" => call = "images" /\ \A i \in Resources : at[i] = "idle"
  /\ pc = "loop" => InLoop
  /\ pc = "wait" => ~InLoop
  /\ ~PerItem => \A i \in Resources : at[i] = "idle"
  /\ call # "storages" => \A r \in Regions : accounts[r] = {} /\ containers[r] = {} /\ blobs[r] = {}
  /\ call \notin {"terminate", "stacks"} => silent = {}
  /\ dryRun /\ call # "stop" => accepted = {}

\* Which items get a goroutine.
Target(i) ==
  \/ call \in {"terminate", "stop"} /\ i \in Selected
  \/ call = "images" /\ i \in existing /\ Matches(i)

\* A goroutine that has ended has asked, unless the flag kept it from it.
ItemsHandled ==
  PerItem =>
    /\ \A i \in Resources : at[i] # "idle" => Target(i)
    /\ pc # "list" => "images" \in errs \/ \A i \in Resources : Target(i) => at[i] # "idle"
    /\ \A i \in Resources : at[i] \in {"release", "done"} =>
         \/ i \in accepted \cup errs
         \/ call = "terminate" /\ i \in ScaleSetVMs
         \/ dryRun /\ call # "stop"
    /\ \A i \in accepted : i \in Resources /\ Target(i) /\ (call = "terminate" => i \notin ScaleSetVMs)

\* The items that the loop has behind it.
LoopHandled ==
  InLoop =>
    /\ ~dryRun => \A k \in 1 .. position - 1 : listing[k] \in accepted \cup silent \cup errs
    /\ accepted \subseteq Selected

\* A blob that the goroutine of region r still comes to.
ToCome(r, b) ==
  \/ b \in blobs[r]
  \/ ContainerOf[b] \in containers[r]
  \/ AccountOf[ContainerOf[b]] \in accounts[r]

BlobsHandled ==
  call = "storages" =>
    /\ \A r \in Regions : /\ \A c \in containers[r] : AccountOf[c] \in Selected
                          /\ blobs[r] \subseteq BlobsOf(Selected)
    /\ accepted \subseteq {b \in BlobsOf(Selected) : Expired(b)}
    /\ errs = {} /\ ~dryRun =>
         \A b \in BlobsOf(Selected) :
           \/ ToCome(RegionOf[AccountOf[ContainerOf[b]]], b)
           \/ b \in accepted \/ ~Expired(b)

EndedAtReturn ==
  pc = "returned" =>
    /\ InLoop => position > Len(listing)
    /\ \A i \in Resources : GoroutineEnded(i)
    /\ \A r \in Regions : accounts[r] = {} /\ containers[r] = {} /\ blobs[r] = {}

IInv ==
  /\ TypeOK
  /\ Phases
  /\ ItemsHandled
  /\ LoopHandled
  /\ BlobsHandled
  /\ EndedAtReturn

-----------------------------------------------------------------------------
\* What a call is given is among the resources.
LEMMA Lists ==
  ASSUME listing \in Listings
  PROVE  /\ Len(listing) \in Nat /\ DOMAIN listing = 1 .. Len(listing)
         /\ \A k \in 1 .. Len(listing) : listing[k] \in Selected
         /\ Selected \subseteq Resources
<1>1. /\ listing \in Seq(Resources) /\ Len(listing) \in Nat /\ DOMAIN listing = 1 .. Len(listing)
      /\ listing \in [1 .. Len(listing) -> Resources]
  <2>1. listing \in Seq(Resources)
    BY AzureItemsAssumption
  <2> QED
    BY <2>1
<1>2. Selected \subseteq Resources
  BY <1>1 DEF Selected
<1> QED
  BY <1>1, <1>2 DEF Selected

\* The semaphore never holds more goroutines than it has slots.
LEMMA SlotsBounded ==
  ASSUME TypeOK, NEW i \in Resources
  PROVE  /\ Cardinality(sem) < Slots => Cardinality(sem \cup {i}) <= Slots
         /\ Cardinality(sem \ {i}) <= Slots
<1>1. IsFiniteSet(sem)
  BY AzureItemsAssumption, FS_Subset DEF TypeOK
<1>2. Cardinality(sem) \in Nat /\ Cardinality(sem) <= Slots /\ Slots \in Nat
  BY <1>1, FS_CardinalityType, AzureItemsAssumption DEF TypeOK
<1>3. Cardinality(sem \cup {i}) = IF i \in sem THEN Cardinality(sem) ELSE Cardinality(sem) + 1
  BY <1>1, FS_AddElement
<1>4. Cardinality(sem \ {i}) = IF i \in sem THEN Cardinality(sem) - 1 ELSE Cardinality(sem)
  BY <1>1, FS_RemoveElement
<1> QED
  BY <1>2, <1>3, <1>4

\* No step changes the input of the call, nor what is derived from it.
LEMMA InputFixed ==
  ASSUME UNCHANGED input
  PROVE  /\ UNCHANGED <<call, dryRun, listing, retentionDays, byURL, existing>>
         /\ Selected' = Selected /\ BlobsOf(Selected)' = BlobsOf(Selected)
         /\ PerItem' = PerItem /\ InLoop' = InLoop
         /\ \A i : Matches(i)' = Matches(i) /\ Target(i)' = Target(i)
         /\ \A b : Expired(b)' = Expired(b)
BY DEF input, Selected, BlobsOf, PerItem, InLoop, Matches, ImageResourceGroup, Target, Expired

\* The invariant holds when an Azure call starts.
LEMMA InitInvariant == Init => IInv
<1> SUFFICES ASSUME Init PROVE IInv
  OBVIOUS
<1>1. /\ listing \in Listings /\ Len(listing) \in Nat /\ DOMAIN listing = 1 .. Len(listing)
      /\ Selected \subseteq Resources /\ Slots \in Nat
  BY Lists, AzureItemsAssumption DEF Init
<1>2. TypeOK
  <2>1. Cardinality({}) <= Slots /\ 1 \in 1 .. Len(listing) + 1
    BY <1>1, FS_EmptySet
  <2>2. /\ at \in [Resources -> {"idle", "slot", "send", "release", "done"}]
        /\ accounts \in [Regions -> SUBSET Selected]
        /\ containers \in [Regions -> SUBSET Containers] /\ blobs \in [Regions -> SUBSET Blobs]
    BY DEF Init
  <2>3. pc \in {"list", "loop", "wait", "returned"} /\ existing \subseteq Resources
    BY DEF Init
  <2> QED
    BY <1>1, <2>1, <2>2, <2>3 DEF Init, TypeOK
<1>3. Phases /\ ItemsHandled /\ EndedAtReturn
  BY <1>1 DEF Init, Phases, ItemsHandled, EndedAtReturn, PerItem, InLoop, Target
<1>4. LoopHandled
  BY DEF Init, LoopHandled
<1>5. BlobsHandled
  <2>1. \A b \in BlobsOf(Selected) :
          /\ AccountOf[ContainerOf[b]] \in Selected
          /\ RegionOf[AccountOf[ContainerOf[b]]] \in Regions
    BY <1>1, AzureItemsAssumption DEF BlobsOf
  <2> QED
    BY <2>1 DEF Init, BlobsHandled, ToCome
<1> QED
  BY <1>2, <1>3, <1>4, <1>5 DEF IInv

-----------------------------------------------------------------------------
\* Taking a slot and giving it back.
LEMMA SlotStep ==
  ASSUME IInv, NEW i \in Resources, TakeSlot(i) \/ ReleaseSlot(i)
  PROVE  IInv'
<1> USE DEF TakeSlot, ReleaseSlot, At, Goto, storages, answer
<1>1. /\ UNCHANGED <<call, dryRun, listing, retentionDays, byURL, existing>>
      /\ Selected' = Selected /\ PerItem' = PerItem /\ InLoop' = InLoop
      /\ \A j : Target(j)' = Target(j)
  BY InputFixed
<1>2. PerItem /\ ~InLoop /\ call # "storages" /\ Target(i) /\ pc # "list"
  <2>1. PerItem
    BY DEF IInv, Phases
  <2> QED
    BY <2>1 DEF IInv, ItemsHandled, Phases, PerItem, InLoop
<1>3. /\ at' \in [Resources -> {"idle", "slot", "send", "release", "done"}]
      /\ \A j \in Resources \ {i} : at'[j] = at[j]
      /\ \/ at[i] = "slot" /\ at'[i] = "send"
         \/ at[i] = "release" /\ at'[i] = "done"
  BY DEF IInv, TypeOK
<1>4. TypeOK'
  <2>1. sem' \subseteq Resources /\ Cardinality(sem') <= Slots
    BY SlotsBounded DEF IInv, TypeOK
  <2> QED
    BY <1>1, <1>3, <2>1 DEF IInv, TypeOK
<1>5. Phases'
  BY <1>1, <1>2 DEF IInv, Phases
<1>6. ItemsHandled'
  BY <1>1, <1>2, <1>3 DEF IInv, ItemsHandled
<1>7. LoopHandled' /\ BlobsHandled'
  BY <1>1, <1>2 DEF LoopHandled, BlobsHandled
<1>8. EndedAtReturn'
  BY <1>1, <1>2, <1>3 DEF IInv, EndedAtReturn, GoroutineEnded
<1> QED
  BY <1>4, <1>5, <1>6, <1>7, <1>8 DEF IInv

\* A goroutine asks, or leaves because of the flag.
LEMMA LeaveStep ==
  ASSUME IInv, NEW i \in Resources,
         SkipOnDryRun(i) \/ Accept(i) \/ AcceptForNothing(i) \/ Refuse(i)
  PROVE  IInv'
<1> USE DEF SkipOnDryRun, Accept, AcceptForNothing, Refuse, Asks, Leave, At, Goto, storages, answer
<1>1. /\ UNCHANGED <<call, dryRun, listing, retentionDays, byURL, existing>>
      /\ Selected' = Selected /\ PerItem' = PerItem /\ InLoop' = InLoop
      /\ \A j : Target(j)' = Target(j)
  BY InputFixed
<1>2. PerItem /\ ~InLoop /\ call # "storages" /\ Target(i) /\ pc # "list"
  <2>1. PerItem
    BY DEF IInv, Phases
  <2> QED
    BY <2>1 DEF IInv, ItemsHandled, Phases, PerItem, InLoop
<1>3. /\ at' \in [Resources -> {"idle", "slot", "send", "release", "done"}]
      /\ \A j \in Resources \ {i} : at'[j] = at[j]
      /\ at[i] = "send" /\ at'[i] \in {"release", "done"}
  BY DEF IInv, TypeOK
<1>4. /\ \/ accepted' = accepted
         \/ /\ accepted' = accepted \cup {i}
            /\ call = "terminate" => i \notin ScaleSetVMs
            /\ dryRun => call = "stop"
      /\ \/ silent' = silent
         \/ silent' = silent \cup {i} /\ call = "terminate"
      /\ errs' = errs \/ errs' = errs \cup {i}
  OBVIOUS
<1>5. \/ i \in accepted' \cup errs'
      \/ call = "terminate" /\ i \in ScaleSetVMs
      \/ dryRun /\ call # "stop"
  OBVIOUS
<1>6. TypeOK'
  <2>1. silent' \subseteq Selected
    BY <1>2, <1>4 DEF IInv, TypeOK, Target
  <2>2. accepted' \subseteq Resources \cup Blobs
    BY <1>4 DEF IInv, TypeOK
  <2>3. errs' \subseteq Resources \cup Containers \cup Blobs \cup {"images"}
    BY <1>4 DEF IInv, TypeOK
  <2> QED
    BY <1>1, <1>3, <2>1, <2>2, <2>3 DEF IInv, TypeOK
<1>7. Phases'
  BY <1>1, <1>2, <1>4 DEF IInv, Phases
<1>8. ItemsHandled'
  <2>1. accepted \subseteq accepted' /\ errs \subseteq errs'
    BY <1>4
  <2>2. /\ \A j \in Resources : at'[j] # "idle" => Target(j)
        /\ "images" \in errs' \/ \A j \in Resources : Target(j) => at'[j] # "idle"
    BY <1>2, <1>3, <2>1 DEF IInv, ItemsHandled
  <2>3. \A j \in Resources : at'[j] \in {"release", "done"} =>
          \/ j \in accepted' \cup errs'
          \/ call = "terminate" /\ j \in ScaleSetVMs
          \/ dryRun /\ call # "stop"
    <3> SUFFICES ASSUME NEW j \in Resources, at'[j] \in {"release", "done"}
                 PROVE  \/ j \in accepted' \cup errs'
                        \/ call = "terminate" /\ j \in ScaleSetVMs
                        \/ dryRun /\ call # "stop"
      OBVIOUS
    <3>1. CASE j = i
      BY <1>5, <3>1
    <3>2. CASE j # i
      BY <1>2, <1>3, <2>1, <3>2 DEF IInv, ItemsHandled
    <3> QED
      BY <3>1, <3>2
  <2>4. \A j \in accepted' : j \in Resources /\ Target(j) /\ (call = "terminate" => j \notin ScaleSetVMs)
    BY <1>2, <1>4 DEF IInv, ItemsHandled
  <2> QED
    BY <1>1, <2>2, <2>3, <2>4 DEF ItemsHandled
<1>9. LoopHandled' /\ BlobsHandled'
  BY <1>1, <1>2 DEF LoopHandled, BlobsHandled
<1>10. EndedAtReturn'
  BY <1>1, <1>2, <1>3, <1>4 DEF IInv, EndedAtReturn, GoroutineEnded
<1> QED
  BY <1>6, <1>7, <1>8, <1>9, <1>10 DEF IInv

\* An iteration of TerminateStacks or StopDatabases.
LEMMA LoopStep ==
  ASSUME IInv, Pass \/ Begin \/ PassLocked \/ BeginFails
  PROVE  IInv'
<1> USE DEF Pass, Begin, PassLocked, BeginFails, LoopBody, storages, answer
<1>1. /\ UNCHANGED <<call, dryRun, listing, retentionDays, byURL, existing>>
      /\ Selected' = Selected /\ PerItem' = PerItem /\ InLoop' = InLoop
      /\ \A j : Target(j)' = Target(j)
  BY InputFixed
<1>2. /\ InLoop /\ ~PerItem /\ call # "storages" /\ pc = "loop"
      /\ Len(listing) \in Nat /\ position \in 1 .. Len(listing) /\ Current \in Selected
      /\ Selected \subseteq Resources
  <2>1. InLoop /\ ~PerItem /\ call # "storages" /\ pc = "loop"
    BY DEF IInv, Phases, InLoop, PerItem
  <2>2. Len(listing) \in Nat /\ position \in 1 .. Len(listing)
    BY Lists DEF IInv, TypeOK
  <2> QED
    BY <2>1, <2>2, Lists DEF IInv, TypeOK, Current
<1>3. TypeOK'
  <2>1. position' \in 1 .. Len(listing) + 1
    BY <1>2
  <2> QED
    BY <1>1, <1>2, <2>1 DEF IInv, TypeOK
<1>4. Phases'
  BY <1>1, <1>2 DEF IInv, Phases, InLoop
<1>5. ItemsHandled' /\ BlobsHandled'
  BY <1>1, <1>2 DEF ItemsHandled, BlobsHandled
<1>6. LoopHandled'
  <2>1. \A k \in 1 .. position' - 1 : k \in 1 .. position - 1 \/ k = position
    BY <1>2
  <2>2. ~dryRun => Current \in accepted' \cup silent' \cup errs'
    OBVIOUS
  <2>3. accepted' \subseteq Selected
    BY <1>2 DEF IInv, LoopHandled
  <2>4. accepted \subseteq accepted' /\ silent \subseteq silent' /\ errs \subseteq errs'
    OBVIOUS
  <2> QED
    BY <1>1, <1>2, <2>1, <2>2, <2>3, <2>4 DEF IInv, LoopHandled, Current
<1>7. EndedAtReturn'
  BY <1>2 DEF EndedAtReturn
<1> QED
  BY <1>3, <1>4, <1>5, <1>6, <1>7 DEF IInv

\* DeleteImages gives every existing image that matches a goroutine.
LEMMA ListImagesStep ==
  ASSUME IInv, ListImages \/ ListImagesFails
  PROVE  IInv'
<1> USE DEF ListImages, ListImagesFails, storages, answer
<1>1. /\ UNCHANGED <<call, dryRun, listing, retentionDays, byURL, existing>>
      /\ Selected' = Selected /\ PerItem' = PerItem /\ InLoop' = InLoop
      /\ \A j : Target(j)' = Target(j)
  BY InputFixed
<1>2. /\ call = "images" /\ PerItem /\ ~InLoop
      /\ \A i \in Resources : at[i] = "idle"
      /\ pc' \in {"wait", "returned"} /\ (pc' = "returned" => errs' = {"images"})
  BY DEF IInv, Phases, PerItem, InLoop
<1>3. TypeOK'
  BY <1>1 DEF IInv, TypeOK
<1>4. Phases'
  BY <1>1, <1>2 DEF IInv, Phases
<1>5. ItemsHandled'
  <2>1. \A i \in Resources : at'[i] \in {"idle", "send"} /\ (at'[i] # "idle" => Target(i))
    BY <1>2 DEF Target, IInv, TypeOK
  <2>2. "images" \in errs' \/ \A i \in Resources : Target(i) => at'[i] # "idle"
    BY <1>2 DEF Target
  <2> QED
    BY <1>1, <2>1, <2>2 DEF IInv, ItemsHandled
<1>6. LoopHandled' /\ BlobsHandled'
  BY <1>1, <1>2 DEF LoopHandled, BlobsHandled
<1>7. EndedAtReturn'
  BY <1>1, <1>2 DEF IInv, Phases, EndedAtReturn, GoroutineEnded
<1> QED
  BY <1>3, <1>4, <1>5, <1>6, <1>7 DEF IInv

\* CleanupStorages: what a region's goroutine takes from one level it has on
\* the next, or the error of it; a blob it takes is kept, deleted or failed.
LEMMA RegionStep ==
  ASSUME IInv, NEW r \in Regions, Region(r)
  PROVE  IInv'
<1> USE DEF control, storages, answer
<1>1. UNCHANGED <<input, pc, at, sem, position, silent>>
  BY DEF Region, GetContainers, GetContainersFails, NextAccount, GetBlobs, GetBlobsFails,
         NextContainer, KeepBlob, DeleteBlob, DeleteBlobFails, NextBlob
<1>2. /\ UNCHANGED <<call, dryRun, listing, retentionDays, byURL, existing>>
      /\ Selected' = Selected /\ PerItem' = PerItem /\ InLoop' = InLoop
      /\ BlobsOf(Selected)' = BlobsOf(Selected) /\ \A b : Expired(b)' = Expired(b)
      /\ \A j : Target(j)' = Target(j)
  BY <1>1, InputFixed
<1>3. call = "storages" /\ ~PerItem /\ ~InLoop /\ pc # "returned"
  <2>1. accounts[r] # {} \/ containers[r] # {} \/ blobs[r] # {}
    BY DEF Region, GetContainers, GetContainersFails, NextAccount, GetBlobs, GetBlobsFails,
           NextContainer, KeepBlob, DeleteBlob, DeleteBlobFails, NextBlob
  <2> QED
    BY <2>1 DEF IInv, Phases, EndedAtReturn, PerItem, InLoop
<1>4. /\ \A q \in Regions \ {r} : /\ accounts'[q] = accounts[q] /\ containers'[q] = containers[q]
                                  /\ blobs'[q] = blobs[q]
      /\ accounts' \in [Regions -> SUBSET Selected]
      /\ containers' \in [Regions -> SUBSET Containers]
      /\ blobs' \in [Regions -> SUBSET Blobs]
  BY DEF Region, GetContainers, GetContainersFails, NextAccount, GetBlobs, GetBlobsFails,
         NextContainer, KeepBlob, DeleteBlob, DeleteBlobFails, NextBlob, IInv, TypeOK
<1>5. /\ accepted \subseteq accepted' /\ errs \subseteq errs'
      /\ \A b \in accepted' \ accepted : b \in blobs[r] /\ Expired(b) /\ ~dryRun
      /\ errs' \subseteq Resources \cup Containers \cup Blobs \cup {"images"}
  BY DEF Region, GetContainers, GetContainersFails, NextAccount, GetBlobs, GetBlobsFails,
         NextContainer, KeepBlob, DeleteBlob, DeleteBlobFails, NextBlob, IInv, TypeOK
<1>6. /\ \A c \in containers'[r] : c \in containers[r] \/ AccountOf[c] \in accounts[r]
      /\ \A b \in blobs'[r] : b \in blobs[r] \/ (b \in Blobs /\ ContainerOf[b] \in containers[r])
  BY DEF Region, GetContainers, GetContainersFails, NextAccount, GetBlobs, GetBlobsFails,
         NextContainer, KeepBlob, DeleteBlob, DeleteBlobFails, NextBlob, IInv, TypeOK
<1>7. ASSUME NEW b \in Blobs, ToCome(r, b), errs' = {}, ~dryRun
      PROVE  ToCome(r, b)' \/ b \in accepted' \/ ~Expired(b)
  <2>1. ContainerOf[b] \in Containers
    BY AzureItemsAssumption
  <2>2. ASSUME NEW s \in Resources, GetContainers(r, s) \/ GetContainersFails(r, s)
        PROVE  ToCome(r, b)'
    BY <1>7, <2>1, <2>2 DEF GetContainers, GetContainersFails, NextAccount, IInv, TypeOK, ToCome
  <2>3. ASSUME NEW c \in Containers, GetBlobs(r, c) \/ GetBlobsFails(r, c)
        PROVE  ToCome(r, b)'
    BY <1>7, <2>1, <2>3 DEF GetBlobs, GetBlobsFails, NextContainer, IInv, TypeOK, ToCome
  <2>4. ASSUME NEW o \in Blobs, KeepBlob(r, o) \/ DeleteBlob(r, o) \/ DeleteBlobFails(r, o)
        PROVE  ToCome(r, b)' \/ b \in accepted' \/ ~Expired(b)
    BY <1>7, <2>4
       DEF KeepBlob, DeleteBlob, DeleteBlobFails, NextBlob, IInv, TypeOK, ToCome
  <2> QED
    BY <2>2, <2>3, <2>4 DEF Region
<1>8. BlobsOf(Selected) \subseteq Blobs /\ Selected \subseteq Resources
  BY Lists DEF BlobsOf, IInv, TypeOK
<1>9. TypeOK'
  <2>1. accepted' \subseteq Resources \cup Blobs
    BY <1>5 DEF IInv, TypeOK
  <2> QED
    BY <1>1, <1>2, <1>4, <1>5, <2>1 DEF IInv, TypeOK
<1>10. Phases'
  BY <1>1, <1>2, <1>3, <1>5 DEF IInv, Phases
<1>11. BlobsHandled'
  <2>1. ASSUME NEW q \in Regions
        PROVE  /\ \A c \in containers'[q] : AccountOf[c] \in Selected
               /\ blobs'[q] \subseteq BlobsOf(Selected)
    BY <1>3, <1>4, <1>6 DEF IInv, TypeOK, BlobsHandled, BlobsOf
  <2>2. accepted' \subseteq {b \in BlobsOf(Selected) : Expired(b)}
    BY <1>3, <1>5 DEF IInv, BlobsHandled
  <2>3. ASSUME errs' = {}, ~dryRun, NEW b \in BlobsOf(Selected)
        PROVE  \/ ToCome(RegionOf[AccountOf[ContainerOf[b]]], b)'
               \/ b \in accepted' \/ ~Expired(b)
    <3>1. RegionOf[AccountOf[ContainerOf[b]]] \in Regions /\ b \in Blobs
      BY <1>8, AzureItemsAssumption DEF BlobsOf
    <3>2. errs = {}
      BY <1>5, <2>3
    <3>3. ToCome(RegionOf[AccountOf[ContainerOf[b]]], b) \/ b \in accepted \/ ~Expired(b)
      BY <1>3, <2>3, <3>2 DEF IInv, BlobsHandled
    <3>4. CASE RegionOf[AccountOf[ContainerOf[b]]] = r
      BY <1>5, <1>7, <2>3, <3>1, <3>3, <3>4
    <3>5. CASE RegionOf[AccountOf[ContainerOf[b]]] # r
      BY <1>4, <1>5, <3>1, <3>3, <3>5 DEF ToCome
    <3> QED
      BY <3>4, <3>5
  <2> QED
    BY <1>2, <2>1, <2>2, <2>3 DEF BlobsHandled
<1>12. ItemsHandled' /\ LoopHandled'
  BY <1>2, <1>3 DEF ItemsHandled, LoopHandled
<1>13. EndedAtReturn'
  BY <1>1, <1>3 DEF EndedAtReturn
<1> QED
  BY <1>9, <1>10, <1>11, <1>12, <1>13 DEF IInv

\* The return of an Azure call changes nothing but its place.
LEMMA ReturnStep ==
  ASSUME IInv, Return \/ UNCHANGED vars
  PROVE  IInv'
<1> USE DEF Return, vars, control, storages, answer
<1>1. /\ UNCHANGED <<call, dryRun, listing, retentionDays, byURL, existing>>
      /\ Selected' = Selected /\ PerItem' = PerItem /\ InLoop' = InLoop
      /\ BlobsOf(Selected)' = BlobsOf(Selected) /\ \A b : Expired(b)' = Expired(b)
      /\ \A j : Target(j)' = Target(j)
  BY InputFixed
<1>2. TypeOK' /\ Phases'
  BY <1>1 DEF IInv, TypeOK, Phases, InLoop
<1>3. ItemsHandled' /\ LoopHandled'
  BY <1>1 DEF IInv, Phases, ItemsHandled, LoopHandled, PerItem, InLoop
<1>4. BlobsHandled'
  BY <1>1 DEF IInv, BlobsHandled, ToCome
<1>5. EndedAtReturn'
  BY <1>1 DEF IInv, EndedAtReturn, Phases, GoroutineEnded, InLoop, PerItem
<1> QED
  BY <1>2, <1>3, <1>4, <1>5 DEF IInv

\* Every step of an Azure call keeps the invariant.
LEMMA StepInvariant == IInv /\ [Next]_vars => IInv'
<1> SUFFICES ASSUME IInv, [Next]_vars PROVE IInv'
  OBVIOUS
<1>1. CASE Caller
  BY <1>1, LoopStep, ListImagesStep, ReturnStep DEF Caller
<1>2. ASSUME NEW i \in Resources, Worker(i) PROVE IInv'
  BY <1>2, SlotStep, LeaveStep DEF Worker
<1>3. ASSUME NEW r \in Regions, Region(r) PROVE IInv'
  BY <1>3, RegionStep
<1>4. CASE UNCHANGED vars
  BY <1>4, ReturnStep
<1> QED
  BY <1>1, <1>2, <1>3, <1>4 DEF Next

\* An image that matches was selected by its URL, and an existing selected
\* image matches if no other has its name and region.
LEMMA MatchingImages ==
  ASSUME TypeOK
  PROVE  /\ \A e \in Resources : Matches(e) => byURL /\ e \in Selected
         /\ \A i \in Selected : byURL => Matches(i) \/ \E j \in Selected : Twin(i, j)
<1>1. /\ DOMAIN listing = 1 .. Len(listing) /\ Len(listing) \in Nat /\ Selected \subseteq Resources
      /\ \A k \in 1 .. Len(listing) : listing[k] \in Selected
  BY Lists DEF TypeOK
<1>2. ASSUME NEW e \in Resources, Matches(e) PROVE byURL /\ e \in Selected
  <2>1. PICK k \in 1 .. Len(listing) : Key[listing[k]] = Key[e] /\ Group[e] = ImageResourceGroup(listing[k])
    BY <1>1, <1>2 DEF Matches
  <2>2. byURL /\ Group[e] = Group[listing[k]]
    BY <2>1, AzureItemsAssumption DEF ImageResourceGroup
  <2> QED
    BY <1>1, <2>1, <2>2, AzureItemsAssumption
<1>3. ASSUME NEW i \in Selected, byURL, \A j \in Selected : ~Twin(i, j) PROVE Matches(i)
  <2>1. PICK k \in 1 .. Len(listing) : listing[k] = i
    BY <1>1 DEF Selected
  <2>2. ASSUME NEW j \in 1 .. k - 1 PROVE Key[listing[j]] # Key[i]
    <3>1. j \in DOMAIN listing /\ k \in DOMAIN listing /\ j # k /\ listing[j] \in Selected
      BY <1>1
    <3>2. listing[j] # i
      BY <2>1, <3>1, AzureItemsAssumption DEF TypeOK
    <3> QED
      BY <1>3, <3>1, <3>2 DEF Twin
  <2> QED
    BY <1>1, <1>3, <2>1, <2>2 DEF Matches, ImageResourceGroup
<1> QED
  BY <1>2, <1>3

\* At a return without errors the invariant accounts for every item.
LEMMA HandledAtTheEnd == IInv => CleanReturnAccounts
<1> SUFFICES ASSUME IInv, pc = "returned", errs = {} PROVE CleanReturnAccounts
  BY DEF CleanReturnAccounts
<1>1. CASE dryRun /\ call # "stop"
  BY <1>1 DEF IInv, Phases, CleanReturnAccounts
<1>2. CASE (~dryRun \/ call = "stop") /\ PerItem
  <2>1. ASSUME NEW i \in Resources, Target(i)
        PROVE  i \in accepted \/ (call = "terminate" /\ i \in ScaleSetVMs)
    <3>1. at[i] \in {"release", "done"}
      BY <1>2, <2>1 DEF IInv, ItemsHandled, EndedAtReturn, GoroutineEnded
    <3> QED
      BY <1>2, <3>1 DEF IInv, ItemsHandled
  <2>2. \A i \in accepted : i \in Resources /\ Target(i) /\ (call = "terminate" => i \notin ScaleSetVMs)
    BY <1>2 DEF IInv, ItemsHandled
  <2>3. Selected \subseteq Resources
    BY Lists DEF IInv, TypeOK
  <2>4. CASE call = "stop"
    BY <2>1, <2>2, <2>3, <2>4 DEF Target, CleanReturnAccounts
  <2>5. CASE call = "terminate"
    BY <2>1, <2>2, <2>3, <2>5 DEF Target, CleanReturnAccounts
  <2>6. CASE call = "images"
    <3>1. accepted \subseteq (IF byURL THEN Selected ELSE {})
      BY <2>2, <2>6, MatchingImages DEF IInv, Target
    <3>2. \A i \in (Selected \cap existing) \ accepted : byURL => \E j \in Selected : Twin(i, j)
      BY <2>1, <2>3, <2>6, MatchingImages DEF IInv, Target
    <3> QED
      BY <2>6, <3>1, <3>2 DEF CleanReturnAccounts
  <2> QED
    BY <1>2, <2>4, <2>5, <2>6 DEF PerItem
<1>3. CASE ~dryRun /\ InLoop
  <2>1. position - 1 = Len(listing) /\ DOMAIN listing = 1 .. Len(listing)
    BY <1>3, Lists DEF IInv, TypeOK, EndedAtReturn
  <2>2. Selected \subseteq accepted \cup silent
    BY <1>3, <2>1 DEF IInv, LoopHandled, Selected
  <2>3. accepted \subseteq Selected /\ silent \subseteq Selected
    BY <1>3 DEF IInv, TypeOK, LoopHandled
  <2>4. CASE call = "stacks"
    BY <2>2, <2>3, <2>4 DEF CleanReturnAccounts
  <2>5. CASE call = "databases"
    BY <2>2, <2>3, <2>5 DEF IInv, Phases, CleanReturnAccounts
  <2> QED
    BY <1>3, <2>4, <2>5 DEF InLoop
<1>4. CASE ~dryRun /\ call = "storages"
  <2>1. \A b \in BlobsOf(Selected) : ~ToCome(RegionOf[AccountOf[ContainerOf[b]]], b)
    <3>1. \A b \in BlobsOf(Selected) : RegionOf[AccountOf[ContainerOf[b]]] \in Regions
      BY AzureItemsAssumption DEF BlobsOf
    <3> QED
      BY <3>1 DEF IInv, EndedAtReturn, ToCome
  <2>2. {b \in BlobsOf(Selected) : Expired(b)} \subseteq accepted
    BY <1>4, <2>1 DEF IInv, BlobsHandled
  <2>3. accepted \subseteq {b \in BlobsOf(Selected) : Expired(b)}
    BY <1>4 DEF IInv, BlobsHandled
  <2> QED
    BY <1>4, <2>2, <2>3 DEF CleanReturnAccounts
<1> QED
  BY <1>1, <1>2, <1>3, <1>4 DEF IInv, TypeOK, PerItem, InLoop

\* Every reachable state satisfies the inductive invariant.
THEOREM AzureInvariance == Spec => []IInv
BY InitInvariant, StepInvariant, PTL DEF Spec

\* azure.go, TerminateInstances to CleanupStorages: every variable keeps its
\* type, and no more requests than slots are under way.
THEOREM AzureTypeCorrect == Spec => []TypeOK
<1>1. IInv => TypeOK
  BY DEF IInv
<1> QED
  BY <1>1, AzureInvariance, PTL

\* What a return without errors means, for any items, images and blobs.
THEOREM AzureReturnAccounts == Spec => []CleanReturnAccounts
BY HandledAtTheEnd, AzureInvariance, PTL

-----------------------------------------------------------------------------
(* AzureItems implements ProviderCall. *)

InReach == accepted \subseteq IF dryRun /\ call # "stop" THEN {} ELSE Reach

\* What ProviderTraits says of the six calls of Azure.
LEMMA CallTraits ==
  ASSUME TypeOK
  PROVE  /\ Abstract!IsEffective("AZURE", CallName[call], dryRun) <=> ~dryRun \/ call = "stop"
         /\ Abstract!AnswerIsFull("AZURE", CallName[call], dryRun) =>
              call = "stop" \/ (call = "databases" /\ ~dryRun)
BY DEF TypeOK, CallName, Abstract!IsEffective, Abstract!AnswerIsFull, Abstract!IgnoresDryRun,
       Abstract!MaySkip, Abstract!AwsClouds

\* What a request was accepted for was selected, or is an expired blob of an
\* account that was.
LEMMA StaysInReach == IInv => InReach
<1> SUFFICES ASSUME IInv PROVE InReach
  OBVIOUS
<1>1. CASE dryRun /\ call # "stop"
  BY <1>1 DEF IInv, Phases, InReach
<1>2. CASE ~(dryRun /\ call # "stop") /\ PerItem
  <2>1. \A i \in Resources : Target(i) => i \in Selected
    BY <1>2, MatchingImages DEF IInv, Target
  <2> QED
    BY <1>2, <2>1 DEF IInv, ItemsHandled, PerItem, InReach, Reach
<1>3. CASE ~(dryRun /\ call # "stop") /\ InLoop
  BY <1>3 DEF IInv, LoopHandled, InLoop, InReach, Reach
<1>4. CASE ~(dryRun /\ call # "stop") /\ call = "storages"
  BY <1>4 DEF IInv, BlobsHandled, InReach, Reach
<1> QED
  BY <1>1, <1>2, <1>3, <1>4 DEF IInv, TypeOK, PerItem, InLoop

\* The input of the abstract call is that of the call.
LEMMA AbstractInputFixed ==
  ASSUME UNCHANGED input
  PROVE  UNCHANGED Abstract!input /\ Reach' = Reach
BY InputFixed DEF Reach, Abstract!input

\* A worker asks or adds an error before the return; after it, it only gives
\* its slot back.
LEMMA WorkerOnlyAdds ==
  ASSUME IInv, NEW i \in Resources, Worker(i)
  PROVE  /\ accepted \subseteq accepted' /\ errs \subseteq errs'
         /\ pc = "returned" => UNCHANGED <<accepted, errs>>
         /\ UNCHANGED <<input, pc>>
<1>1. CASE TakeSlot(i) \/ SkipOnDryRun(i) \/ ReleaseSlot(i)
  BY <1>1 DEF TakeSlot, SkipOnDryRun, ReleaseSlot, answer
<1>2. CASE Accept(i) \/ AcceptForNothing(i) \/ Refuse(i)
  <2>1. at[i] = "send"
    BY <1>2 DEF Accept, AcceptForNothing, Refuse, Asks, Leave, At
  <2>2. pc # "returned"
    BY <2>1 DEF IInv, EndedAtReturn, GoroutineEnded
  <2> QED
    BY <1>2, <2>2 DEF Accept, AcceptForNothing, Refuse
<1> QED
  BY <1>1, <1>2 DEF Worker

\* So does the goroutine of a region, of which nothing is left to do after the
\* return.
LEMMA RegionOnlyAdds ==
  ASSUME IInv, NEW r \in Regions, Region(r)
  PROVE  /\ accepted \subseteq accepted' /\ errs \subseteq errs'
         /\ pc # "returned"
         /\ UNCHANGED <<input, pc>>
<1> USE DEF Region, GetContainers, GetContainersFails, NextAccount, GetBlobs, GetBlobsFails,
            NextContainer, KeepBlob, DeleteBlob, DeleteBlobFails, NextBlob
<1>1. accounts[r] # {} \/ containers[r] # {} \/ blobs[r] # {}
  OBVIOUS
<1>2. pc # "returned"
  BY <1>1 DEF IInv, EndedAtReturn
<1>3. /\ accepted \subseteq accepted' /\ errs \subseteq errs'
      /\ UNCHANGED <<input, pc>>
  BY DEF control
<1> QED
  BY <1>2, <1>3

\* Steps of the call that add to its work, its errors or neither.
LEMMA AddingRefines ==
  ASSUME IInv, InReach',
         accepted \subseteq accepted', errs \subseteq errs',
         pc = "returned" => UNCHANGED <<accepted, errs>>,
         UNCHANGED input, (pc = "returned")' = (pc = "returned")
  PROVE  [Abstract!Next]_(Abstract!vars)
<1>1. UNCHANGED <<Abstract!input, call, dryRun>> /\ Reach' = Reach
  BY AbstractInputFixed, InputFixed
<1>2. CASE pc = "returned"
  BY <1>1, <1>2 DEF Abstract!vars
<1>3. CASE pc # "returned"
  <2>1. accepted' \subseteq
          IF Abstract!IsEffective("AZURE", CallName[call], dryRun) THEN Reach ELSE {}
    BY <1>1, CallTraits DEF InReach, IInv
  <2>2. Abstract!Work
    BY <1>1, <1>3, <2>1 DEF Abstract!Work
  <2> QED
    BY <2>2 DEF Abstract!Next
<1> QED
  BY <1>2, <1>3

\* DeleteImages returns the error of its listing.
LEMMA ListImagesFailsRefines ==
  ASSUME ListImagesFails
  PROVE  Abstract!Return
BY AbstractInputFixed DEF ListImagesFails, Abstract!Return

\* The promise of an answer without errors is part of CleanReturnAccounts.
LEMMA ReturnRefines ==
  ASSUME IInv, CleanReturnAccounts', Return
  PROVE  Abstract!Return
<1>1. /\ UNCHANGED <<accepted, errs, call, dryRun>> /\ Selected' = Selected
      /\ pc # "returned" /\ pc' = "returned"
      /\ UNCHANGED Abstract!input
  BY AbstractInputFixed, InputFixed DEF Return, answer
<1>2. ASSUME errs = {}, Abstract!AnswerIsFull("AZURE", CallName[call], dryRun)
      PROVE  Selected \subseteq accepted
  <2>1. call = "stop" \/ (call = "databases" /\ ~dryRun)
    BY <1>2, CallTraits DEF IInv
  <2> QED
    BY <1>1, <1>2, <2>1 DEF CleanReturnAccounts
<1> QED
  BY <1>1, <1>2 DEF Abstract!Return

LEMMA NextRefines ==
  IInv /\ (InReach /\ CleanReturnAccounts)' /\ [Next]_vars => [Abstract!Next]_(Abstract!vars)
<1> SUFFICES ASSUME IInv, InReach', CleanReturnAccounts', [Next]_vars
             PROVE  [Abstract!Next]_(Abstract!vars)
  OBVIOUS
<1>1. CASE Return \/ ListImagesFails
  BY <1>1, ReturnRefines, ListImagesFailsRefines DEF Abstract!Next
<1>2. CASE Pass \/ Begin \/ PassLocked \/ BeginFails \/ ListImages
  <2>1. /\ accepted \subseteq accepted' /\ errs \subseteq errs'
        /\ pc # "returned" /\ pc' # "returned"
        /\ UNCHANGED input
    BY <1>2 DEF Pass, Begin, PassLocked, BeginFails, LoopBody, ListImages, answer
  <2> QED
    BY <2>1, AddingRefines
<1>3. ASSUME NEW i \in Resources, Worker(i) PROVE [Abstract!Next]_(Abstract!vars)
  BY <1>3, WorkerOnlyAdds, AddingRefines
<1>4. ASSUME NEW r \in Regions, Region(r) PROVE [Abstract!Next]_(Abstract!vars)
  BY <1>4, RegionOnlyAdds, AddingRefines
<1>5. CASE UNCHANGED vars
  BY <1>5, AbstractInputFixed DEF vars, control, answer, Abstract!vars
<1> QED
  BY <1>1, <1>2, <1>3, <1>4, <1>5 DEF Next, Caller

\* azure.go, TerminateInstances to CleanupStorages do, for any resources, lists
\* and number of slots, what Hunt assumes of the calls of a provider.
THEOREM AzureRefinement == Spec => ImplementsProviderCall
<1>1. Init => Abstract!Init
  BY DEF Init, Abstract!Init
<1> QED
  BY <1>1, StaysInReach, NextRefines, AzureInvariance, AzureReturnAccounts, PTL
     DEF Spec, ImplementsProviderCall, Abstract!Spec

-----------------------------------------------------------------------------
(* The semaphore of TerminateInstances and StopInstances. *)

\* The semaphore holds the goroutines between sem <- true and <-sem.
SlotsHeld ==
  /\ \A i \in Resources : at[i] \in {"slot", "release"} => call \in {"terminate", "stop"}
  /\ sem = IF call \in {"terminate", "stop"} THEN {i \in Resources : at[i] \in {"send", "release"}}
                                             ELSE {}

\* No more goroutines than there are slots are between the two at a time.  And
\* as long as one waits for a slot, a slot is free or in the hands of one that is
\* not waiting itself: a refused request costs no slot.
SlotsComeFree ==
  /\ call \in {"terminate", "stop"} =>
       Cardinality({i \in Resources : at[i] \in {"send", "release"}}) <= Slots
  /\ \A i \in Resources : at[i] = "slot" =>
       Cardinality(sem) < Slots \/ \E h \in Resources : at[h] \in {"send", "release"}

LEMMA SlotsHeldStep == IInv /\ SlotsHeld /\ [Next]_vars => SlotsHeld'
<1> SUFFICES ASSUME IInv, SlotsHeld, [Next]_vars PROVE SlotsHeld'
  OBVIOUS
<1>1. at \in [Resources -> {"idle", "slot", "send", "release", "done"}]
  BY DEF IInv, TypeOK
<1>2. ASSUME NEW i \in Resources, TakeSlot(i) \/ ReleaseSlot(i) PROVE SlotsHeld'
  BY <1>1, <1>2 DEF TakeSlot, ReleaseSlot, At, Goto, input, SlotsHeld
<1>3. ASSUME NEW i \in Resources, SkipOnDryRun(i) \/ Accept(i) \/ AcceptForNothing(i) \/ Refuse(i)
      PROVE  SlotsHeld'
  <2>1. UNCHANGED <<call, sem>> /\ Leave(i)
    BY <1>3 DEF SkipOnDryRun, Accept, AcceptForNothing, Refuse, Asks, input
  <2> QED
    BY <1>1, <2>1 DEF Leave, At, Goto, SlotsHeld
<1>4. CASE ListImages
  <2>1. call = "images"
    BY <1>4 DEF ListImages, IInv, Phases
  <2> QED
    BY <1>4, <2>1 DEF ListImages, input, SlotsHeld
<1>5. ASSUME UNCHANGED <<call, at, sem>> PROVE SlotsHeld'
  BY <1>5 DEF SlotsHeld
<1>6. CASE Pass \/ Begin \/ PassLocked \/ BeginFails \/ ListImagesFails \/ Return \/ UNCHANGED vars
  BY <1>6, <1>5 DEF Pass, Begin, PassLocked, BeginFails, LoopBody, ListImagesFails, Return, vars,
     input, control
<1>7. ASSUME NEW r \in Regions, Region(r) PROVE SlotsHeld'
  <2>1. UNCHANGED <<call, at, sem>>
    BY <1>7 DEF Region, GetContainers, GetContainersFails, NextAccount, GetBlobs, GetBlobsFails,
       NextContainer, KeepBlob, DeleteBlob, DeleteBlobFails, NextBlob, input, control
  <2> QED
    BY <2>1, <1>5
<1> QED
  BY <1>2, <1>3, <1>4, <1>6, <1>7 DEF Next, Caller, Worker

\* The semaphore of azure.go bounds the requests and blocks nobody for ever, for
\* any instances and number of slots.
THEOREM AzureSlotsAreReturned == Spec => []SlotsComeFree
<1>1. Init => SlotsHeld
  BY DEF Init, SlotsHeld
<1>2. IInv /\ SlotsHeld => SlotsComeFree
  <2> SUFFICES ASSUME IInv, SlotsHeld PROVE SlotsComeFree
    OBVIOUS
  <2>1. Cardinality({}) = 0 /\ Slots \in Nat \ {0}
    BY FS_EmptySet, AzureItemsAssumption
  <2>2. sem = {} \/ \E h \in Resources : at[h] \in {"send", "release"}
    BY DEF SlotsHeld
  <2>3. sem = {} => Cardinality(sem) < Slots
    BY <2>1
  <2> QED
    BY <2>2, <2>3 DEF SlotsComeFree, SlotsHeld, IInv, TypeOK
<1>3. QED
  BY <1>1, <1>2, SlotsHeldStep, AzureInvariance, PTL DEF Spec

-----------------------------------------------------------------------------
(* GcpItems *)

\* What the call sends a request for.
GcpTargets == IF call = "terminate" THEN groupsToDelete \cup instancesToDelete ELSE Gcp!Selected

\* Goroutines are started for the targets, when all instances are classified.
GcpStarted ==
  /\ pc \in {"list", "classify"} => call = "terminate" /\ \A w \in Gcp!Workers : at[w] = "idle"
  /\ \A w \in Gcp!Workers : at[w] # "idle" => w \in GcpTargets
  /\ pc \in {"wait", "returned"} /\ ~listFailed =>
       /\ \A w \in GcpTargets : at[w] # "idle"
       /\ call = "terminate" => classified = Len(listing)
  /\ listFailed => pc = "returned"
  /\ call # "terminate" => groupsToDelete = {}

GcpClassified ==
  /\ \A k \in 1 .. classified :
       listing[k] \in instancesToDelete \/ \E g \in groupsToDelete : listing[k] \in Named[g]
  /\ \A g \in groupsToDelete : Named[g] \cap Gcp!Selected # {}

GcpHandled ==
  /\ dryRun => gone = {}
  /\ ~dryRun => \A w \in Gcp!Workers :
       at[w] \in {"release", "done"} => w \in failed \/ Gcp!Taken(w) \subseteq gone
  /\ call # "terminate" => failed \subseteq errs
  /\ \A i \in gone : i \in GcpTargets \/ \E g \in groupsToDelete : i \in Members[g]

GcpEndedAtReturn ==
  pc = "returned" => \A w \in Gcp!Workers : at[w] \in {"idle", "release", "done"}

GcpIInv == Gcp!TypeOK /\ GcpStarted /\ GcpClassified /\ GcpHandled /\ GcpEndedAtReturn

-----------------------------------------------------------------------------
\* The instance has finiteness and cardinality of its own: they are the same.
LEMMA SameCardinality ==
  /\ \A S : Gcp!IsFiniteSet(S) <=> IsFiniteSet(S)
  /\ \A S : Gcp!Cardinality(S) = Cardinality(S)
BY DEF Gcp!IsFiniteSet, IsFiniteSet, Gcp!Cardinality, Cardinality

\* The items of the list are resources, and none of them is a group.
LEMMA GcpLists ==
  ASSUME Gcp!GcpItemsAssumption, listing \in GcpListings
  PROVE  /\ Len(listing) \in Nat /\ DOMAIN listing = 1 .. Len(listing)
         /\ \A k \in 1 .. Len(listing) : listing[k] \in Gcp!Selected
         /\ Gcp!Selected \subseteq GcpResources /\ Gcp!Selected \cap Groups = {}
<1>1. /\ listing \in Seq(GcpResources) /\ Len(listing) \in Nat /\ DOMAIN listing = 1 .. Len(listing)
      /\ listing \in [1 .. Len(listing) -> GcpResources]
  OBVIOUS
<1>2. Gcp!Selected \subseteq GcpResources
  BY <1>1 DEF Gcp!Selected
<1> QED
  BY <1>1, <1>2 DEF Gcp!Selected

\* The semaphore never holds more goroutines than it has slots.
LEMMA GcpSlotsBounded ==
  ASSUME Gcp!GcpItemsAssumption, Gcp!TypeOK, NEW w \in Gcp!Workers
  PROVE  /\ Cardinality({}) <= GcpSlots
         /\ Cardinality(sem) < GcpSlots => Cardinality(sem \cup {w}) <= GcpSlots
         /\ Cardinality(sem \ {w}) <= GcpSlots
<1>1. IsFiniteSet(Gcp!Workers) /\ IsFiniteSet(sem)
  <2>1. IsFiniteSet(Gcp!Workers)
    BY SameCardinality, FS_Union DEF Gcp!Workers
  <2> QED
    BY <2>1, FS_Subset DEF Gcp!TypeOK
<1>2. Cardinality(sem) \in Nat /\ Cardinality(sem) <= GcpSlots /\ GcpSlots \in Nat \ {0}
  BY SameCardinality, <1>1, FS_CardinalityType DEF Gcp!TypeOK
<1>3. Cardinality(sem \cup {w}) = IF w \in sem THEN Cardinality(sem) ELSE Cardinality(sem) + 1
  BY <1>1, FS_AddElement
<1>4. Cardinality(sem \ {w}) = IF w \in sem THEN Cardinality(sem) - 1 ELSE Cardinality(sem)
  BY <1>1, FS_RemoveElement
<1> QED
  BY <1>2, <1>3, <1>4, FS_EmptySet

\* The invariant holds when a GCP call starts.
LEMMA GcpInitInvariant ==
  ASSUME Gcp!GcpItemsAssumption
  PROVE  Gcp!Init => GcpIInv
<1> SUFFICES ASSUME Gcp!Init PROVE GcpIInv
  OBVIOUS
<1>1. /\ listing \in GcpListings /\ Len(listing) \in Nat
      /\ Gcp!Selected \subseteq GcpResources /\ Gcp!Selected \cap Groups = {} /\ GcpSlots \in Nat
  BY GcpLists DEF Gcp!Init
<1>2. Gcp!TypeOK
  <2>1. Cardinality({}) <= GcpSlots
    BY <1>1, FS_EmptySet
  <2>2. at \in [Gcp!Workers -> {"idle", "slot", "send", "release", "done"}]
    BY DEF Gcp!Init, Gcp!Starting
  <2>3. 0 \in 0 .. Len(listing)
    BY <1>1
  <2> QED
    BY SameCardinality, <2>1, <2>2, <2>3 DEF Gcp!Init, Gcp!TypeOK
<1>3. GcpStarted /\ GcpHandled
  BY <1>1 DEF Gcp!Init, GcpStarted, GcpHandled, GcpTargets, Gcp!Starting, Gcp!Workers
<1>4. GcpClassified /\ GcpEndedAtReturn
  BY DEF Gcp!Init, GcpClassified, GcpEndedAtReturn
<1> QED
  BY <1>2, <1>3, <1>4 DEF GcpIInv

-----------------------------------------------------------------------------
\* AggregatedList, with or without success.
LEMMA GcpListStep ==
  ASSUME Gcp!GcpItemsAssumption, GcpIInv, Gcp!ListGroups \/ Gcp!ListGroupsFails
  PROVE  GcpIInv'
<1> USE DEF Gcp!ListGroups, Gcp!ListGroupsFails, Gcp!input, Gcp!plan, Gcp!done
<1>1. Gcp!Selected' = Gcp!Selected /\ GcpTargets' = GcpTargets
  BY DEF Gcp!Selected, GcpTargets
<1>2. Gcp!TypeOK' /\ GcpEndedAtReturn'
  BY <1>1 DEF GcpIInv, Gcp!TypeOK, GcpEndedAtReturn, GcpStarted
<1>3. GcpStarted'
  BY <1>1 DEF GcpIInv, GcpStarted
<1>4. GcpClassified' /\ GcpHandled'
  BY <1>1 DEF GcpIInv, GcpClassified, GcpHandled, Gcp!Taken
<1> QED
  BY <1>2, <1>3, <1>4 DEF GcpIInv

\* An instance with no new group is deleted on its own, any other with its
\* groups; no goroutine runs yet.
LEMMA GcpClassifyStep ==
  ASSUME Gcp!GcpItemsAssumption, GcpIInv, Gcp!Classify
  PROVE  GcpIInv'
<1> USE DEF Gcp!Classify, Gcp!ToClassify, Gcp!input, Gcp!done
<1> DEFINE found == {g \in Groups \ groupsToDelete : Gcp!Instance \in Named[g]}
<1>1. /\ Gcp!Selected' = Gcp!Selected /\ Gcp!Selected \subseteq GcpResources /\ Len(listing) \in Nat
      /\ classified \in Nat /\ classified + 1 \in 1 .. Len(listing) /\ Gcp!Instance \in Gcp!Selected
  <2>1. Len(listing) \in Nat /\ classified \in 0 .. Len(listing) /\ classified < Len(listing)
    BY GcpLists DEF GcpIInv, Gcp!TypeOK
  <2> QED
    BY <2>1, GcpLists DEF GcpIInv, Gcp!TypeOK, Gcp!Instance, Gcp!Selected
<1>2. /\ groupsToDelete' = groupsToDelete \cup found
      /\ instancesToDelete' = IF found # {} THEN instancesToDelete
                                            ELSE instancesToDelete \cup {Gcp!Instance}
  OBVIOUS
<1>3. call = "terminate" /\ pc = "classify" /\ \A w \in Gcp!Workers : at[w] = "idle"
  BY DEF GcpIInv, GcpStarted
<1>4. Gcp!TypeOK'
  BY <1>1, <1>2 DEF GcpIInv, Gcp!TypeOK
<1>5. GcpStarted' /\ GcpEndedAtReturn'
  BY <1>3 DEF GcpIInv, GcpStarted, GcpEndedAtReturn
<1>6. GcpClassified'
  <2>1. \A k \in 1 .. classified' : k \in 1 .. classified \/ k = classified + 1
    BY <1>1
  <2>2. Gcp!Instance \in instancesToDelete' \/ \E g \in groupsToDelete' : Gcp!Instance \in Named[g]
    BY <1>2
  <2>3. \A g \in found : Named[g] \cap Gcp!Selected # {}
    BY <1>1
  <2> QED
    BY <1>1, <1>2, <2>1, <2>2, <2>3 DEF GcpIInv, GcpClassified, Gcp!Instance
<1>7. GcpHandled'
  BY <1>2, <1>3 DEF GcpIInv, GcpHandled, GcpTargets, Gcp!Taken
<1> QED
  BY <1>4, <1>5, <1>6, <1>7 DEF GcpIInv

\* The requests get their goroutines.
LEMMA GcpStartStep ==
  ASSUME Gcp!GcpItemsAssumption, GcpIInv, Gcp!StartDeletions
  PROVE  GcpIInv'
<1> USE DEF Gcp!StartDeletions, Gcp!input, Gcp!plan, Gcp!done
<1>1. Gcp!Selected' = Gcp!Selected /\ GcpTargets' = GcpTargets /\ call = "terminate"
  BY DEF GcpIInv, Gcp!Selected, GcpTargets, GcpStarted
<1>2. Gcp!Selected \subseteq GcpResources /\ GcpTargets \subseteq Gcp!Workers
  BY <1>1, GcpLists DEF GcpIInv, Gcp!TypeOK, GcpTargets, Gcp!Workers
<1>3. at' = [w \in Gcp!Workers |-> IF w \in GcpTargets THEN "send" ELSE "idle"]
  BY <1>1 DEF Gcp!Starting, GcpTargets
<1>4. Gcp!TypeOK' /\ GcpEndedAtReturn'
  BY <1>1, <1>3 DEF GcpIInv, Gcp!TypeOK, GcpEndedAtReturn
<1>5. GcpStarted'
  BY <1>1, <1>2, <1>3 DEF GcpIInv, GcpStarted
<1>6. GcpClassified' /\ GcpHandled'
  BY <1>1, <1>3 DEF GcpIInv, GcpClassified, GcpHandled, Gcp!Taken
<1> QED
  BY <1>4, <1>5, <1>6 DEF GcpIInv

\* A goroutine that takes or returns a slot, or leaves because of the flag,
\* changes neither the plan nor what is gone.
LEMMA GcpSlotStep ==
  ASSUME Gcp!GcpItemsAssumption, GcpIInv, NEW w \in Gcp!Workers,
         Gcp!TakeSlot(w) \/ Gcp!SkipOnDryRun(w) \/ Gcp!ReleaseSlot(w)
  PROVE  GcpIInv'
<1> USE DEF Gcp!TakeSlot, Gcp!SkipOnDryRun, Gcp!ReleaseSlot, Gcp!Leave, Gcp!At, Gcp!Goto, Gcp!input, Gcp!plan, Gcp!done
<1>1. Gcp!Selected' = Gcp!Selected /\ GcpTargets' = GcpTargets /\ GcpTargets \subseteq Gcp!Workers
  <2>1. GcpTargets \subseteq Gcp!Workers
    BY GcpLists DEF GcpIInv, Gcp!TypeOK, GcpTargets, Gcp!Workers
  <2>2. UNCHANGED <<call, listing, groupsToDelete, instancesToDelete>>
    OBVIOUS
  <2> QED
    BY <2>1, <2>2 DEF Gcp!Selected, GcpTargets
<1>2. sem' \subseteq Gcp!Workers /\ Cardinality(sem') <= GcpSlots
  BY GcpSlotsBounded, SameCardinality DEF GcpIInv, Gcp!TypeOK
<1>3. /\ at' \in [Gcp!Workers -> {"idle", "slot", "send", "release", "done"}]
      /\ at[w] # "idle" /\ at'[w] # "idle" /\ \A v \in Gcp!Workers \ {w} : at'[v] = at[v]
      /\ ~dryRun /\ at'[w] \in {"release", "done"} => at[w] = "release"
  BY DEF GcpIInv, Gcp!TypeOK
<1>4. Gcp!TypeOK'
  BY <1>1, <1>2, <1>3, SameCardinality DEF GcpIInv, Gcp!TypeOK
<1>5. GcpStarted' /\ GcpEndedAtReturn'
  <2>1. GcpStarted'
    BY <1>1, <1>3 DEF GcpIInv, GcpStarted
  <2>2. at[w] = "release" => at'[w] = "done"
    BY DEF GcpIInv, Gcp!TypeOK
  <2>3. at[w] \in {"slot", "send", "release"}
    OBVIOUS
  <2>4. GcpEndedAtReturn'
    BY <1>1, <1>3, <2>2, <2>3 DEF GcpIInv, GcpEndedAtReturn
  <2> QED
    BY <2>1, <2>4
<1>6. GcpClassified' /\ GcpHandled'
  BY <1>1, <1>3 DEF GcpIInv, GcpClassified, GcpHandled, Gcp!Taken
<1> QED
  BY <1>4, <1>5, <1>6 DEF GcpIInv

\* A request takes what it addresses, or fails.
LEMMA GcpRequestStep ==
  ASSUME Gcp!GcpItemsAssumption, GcpIInv, NEW w \in Gcp!Workers,
         Gcp!Request(w) \/ Gcp!RequestFails(w)
  PROVE  GcpIInv'
<1> USE DEF Gcp!Request, Gcp!RequestFails, Gcp!Leave, Gcp!At, Gcp!Goto, Gcp!input, Gcp!plan, Gcp!done
<1>1. Gcp!Selected' = Gcp!Selected /\ GcpTargets' = GcpTargets /\ GcpTargets \subseteq Gcp!Workers
  <2>1. GcpTargets \subseteq Gcp!Workers
    BY GcpLists DEF GcpIInv, Gcp!TypeOK, GcpTargets, Gcp!Workers
  <2>2. UNCHANGED <<call, listing, groupsToDelete, instancesToDelete>>
    OBVIOUS
  <2> QED
    BY <2>1, <2>2 DEF Gcp!Selected, GcpTargets
<1>2. Gcp!Selected \subseteq GcpResources /\ Gcp!Selected \cap Groups = {} /\ Gcp!Taken(w) \subseteq GcpResources
  BY GcpLists DEF GcpIInv, Gcp!TypeOK, Gcp!Taken, Gcp!Workers
<1>3. /\ at' \in [Gcp!Workers -> {"idle", "slot", "send", "release", "done"}]
      /\ at[w] = "send" /\ at'[w] \in {"release", "done"}
      /\ \A v \in Gcp!Workers \ {w} : at'[v] = at[v]
  BY DEF GcpIInv, Gcp!TypeOK
<1>4. w \in GcpTargets
  BY <1>3 DEF GcpIInv, GcpStarted
<1>5. w \in failed' \/ Gcp!Taken(w) \subseteq gone'
  OBVIOUS
<1>6. \A i \in Gcp!Taken(w) : i \in GcpTargets \/ \E g \in groupsToDelete : i \in Members[g]
  BY <1>2, <1>4 DEF Gcp!Taken, GcpTargets, GcpIInv, Gcp!TypeOK
<1>7. Gcp!TypeOK'
  <2>1. gone' \subseteq GcpResources /\ failed' \subseteq Gcp!Workers /\ errs' \subseteq failed'
    BY <1>2 DEF GcpIInv, Gcp!TypeOK
  <2> QED
    BY <1>1, <1>3, <2>1 DEF GcpIInv, Gcp!TypeOK
<1>8. GcpStarted' /\ GcpEndedAtReturn'
  BY <1>1, <1>3 DEF GcpIInv, GcpStarted, GcpEndedAtReturn
<1>9. GcpClassified'
  BY <1>1 DEF GcpIInv, GcpClassified
<1>10. GcpHandled'
  <2>1. \A v \in Gcp!Workers : Gcp!Taken(v)' = Gcp!Taken(v)
    BY DEF Gcp!Taken
  <2> QED
    BY <1>1, <1>3, <1>5, <1>6, <2>1 DEF GcpIInv, GcpHandled
<1> QED
  BY <1>7, <1>8, <1>9, <1>10 DEF GcpIInv

\* The return of a GCP call changes nothing but its place.
LEMMA GcpReturnStep ==
  ASSUME Gcp!GcpItemsAssumption, GcpIInv, Gcp!Return \/ UNCHANGED Gcp!vars
  PROVE  GcpIInv'
<1> USE DEF Gcp!Return, Gcp!vars, Gcp!input, Gcp!plan, Gcp!done
<1>1. Gcp!Selected' = Gcp!Selected /\ GcpTargets' = GcpTargets
  BY DEF Gcp!Selected, GcpTargets
<1>2. Gcp!TypeOK' /\ GcpStarted' /\ GcpEndedAtReturn'
  BY <1>1 DEF GcpIInv, Gcp!TypeOK, GcpStarted, GcpEndedAtReturn
<1>3. GcpClassified' /\ GcpHandled'
  BY <1>1 DEF GcpIInv, GcpClassified, GcpHandled, Gcp!Taken
<1> QED
  BY <1>2, <1>3 DEF GcpIInv

\* Every step of a GCP call keeps the invariant.
LEMMA GcpStepInvariant ==
  ASSUME Gcp!GcpItemsAssumption
  PROVE  GcpIInv /\ [Gcp!Next]_Gcp!vars => GcpIInv'
<1> SUFFICES ASSUME GcpIInv, [Gcp!Next]_Gcp!vars PROVE GcpIInv'
  OBVIOUS
<1>1. CASE Gcp!Caller
  BY <1>1, GcpListStep, GcpClassifyStep, GcpStartStep, GcpReturnStep DEF Gcp!Caller
<1>2. ASSUME NEW w \in Gcp!Workers, Gcp!Worker(w) PROVE GcpIInv'
  BY <1>2, GcpSlotStep, GcpRequestStep DEF Gcp!Worker
<1>3. CASE UNCHANGED Gcp!vars
  BY <1>3, GcpReturnStep
<1> QED
  BY <1>1, <1>2, <1>3 DEF Gcp!Next

\* At the return every target has had its request, and every selected item
\* is a target or named after one.
LEMMA GcpHandledAtTheEnd ==
  ASSUME Gcp!GcpItemsAssumption
  PROVE  GcpIInv => Gcp!CleanReturnAccounts
<1> SUFFICES ASSUME GcpIInv, pc = "returned", errs = {}, ~listFailed PROVE Gcp!CleanReturnAccounts
  BY DEF Gcp!CleanReturnAccounts
<1>1. /\ Gcp!Selected \subseteq GcpResources /\ Gcp!Selected \cap Groups = {}
      /\ DOMAIN listing = 1 .. Len(listing) /\ GcpTargets \subseteq Gcp!Workers
  BY GcpLists DEF GcpIInv, Gcp!TypeOK, GcpTargets, Gcp!Workers
<1>2. ~dryRun => \A w \in GcpTargets : w \in failed \/ Gcp!Taken(w) \subseteq gone
  <2>1. \A w \in GcpTargets : at[w] \in {"release", "done"}
    BY <1>1 DEF GcpIInv, GcpStarted, GcpEndedAtReturn
  <2> QED
    BY <1>1, <2>1 DEF GcpIInv, GcpHandled
<1>3. CASE dryRun
  BY <1>3 DEF GcpIInv, GcpHandled, Gcp!CleanReturnAccounts
<1>4. CASE ~dryRun /\ call # "terminate"
  <2>1. failed = {} /\ groupsToDelete = {} /\ GcpTargets = Gcp!Selected
    BY <1>4 DEF GcpIInv, GcpHandled, GcpStarted, GcpTargets
  <2>2. Gcp!Selected \subseteq gone
    BY <1>1, <1>2, <1>4, <2>1 DEF Gcp!Taken
  <2>3. gone \subseteq Gcp!Selected
    BY <2>1 DEF GcpIInv, GcpHandled
  <2> QED
    <3>1. gone = Gcp!Selected
      BY <2>2, <2>3
    <3> QED
      BY <1>4, <3>1 DEF Gcp!CleanReturnAccounts
<1>5. CASE ~dryRun /\ call = "terminate"
  <2>1. ASSUME NEW i \in Gcp!Selected PROVE Gcp!Accounted(i)
    <3>1. PICK k \in 1 .. Len(listing) : listing[k] = i
      BY <1>1 DEF Gcp!Selected
    <3>2. classified = Len(listing)
      BY <1>5 DEF GcpIInv, GcpStarted
    <3>3. i \in instancesToDelete \/ \E g \in groupsToDelete : i \in Named[g]
      BY <3>1, <3>2 DEF GcpIInv, GcpClassified
    <3>4. \A w \in groupsToDelete \cup instancesToDelete : w \in failed \/ Gcp!Taken(w) \subseteq gone
      BY <1>2, <1>5 DEF GcpTargets
    <3>5. groupsToDelete \subseteq Groups /\ i \notin Groups
      BY <1>1 DEF GcpIInv, Gcp!TypeOK
    <3> QED
      BY <3>3, <3>4, <3>5 DEF Gcp!Accounted, Gcp!Taken
  <2>2. ASSUME NEW i \in gone \ Gcp!Selected
        PROVE  \E g \in Groups : i \in Members[g] /\ Named[g] \cap Gcp!Selected # {}
    <3>1. instancesToDelete \subseteq Gcp!Selected /\ groupsToDelete \subseteq Groups
      BY DEF GcpIInv, Gcp!TypeOK
    <3>2. i \in groupsToDelete \/ \E g \in groupsToDelete : i \in Members[g]
      BY <1>5, <3>1 DEF GcpIInv, GcpHandled, GcpTargets
    <3>3. i \in GcpResources /\ i \notin Groups
      BY DEF GcpIInv, Gcp!TypeOK
    <3> QED
      BY <3>1, <3>2, <3>3 DEF GcpIInv, GcpClassified
  <2> QED
    BY <1>5, <2>1, <2>2 DEF Gcp!CleanReturnAccounts
<1> QED
  BY <1>3, <1>4, <1>5 DEF GcpIInv, Gcp!TypeOK

\* Every reachable state satisfies the inductive invariant.
THEOREM GcpInvariance ==
  ASSUME Gcp!GcpItemsAssumption
  PROVE  Gcp!Spec => []GcpIInv
BY GcpInitInvariant, GcpStepInvariant, PTL DEF Gcp!Spec

\* gcp.go, DeleteDisks to deleteImages: every variable keeps its type, and no
\* more requests than slots are under way.
THEOREM GcpTypeCorrect ==
  ASSUME Gcp!GcpItemsAssumption
  PROVE  Gcp!Spec => []Gcp!TypeOK
<1>1. GcpIInv => Gcp!TypeOK
  BY DEF GcpIInv
<1> QED
  BY <1>1, GcpInvariance, PTL

\* What a return without errors means, for any instances, groups and names.
THEOREM GcpReturnAccounts ==
  ASSUME Gcp!GcpItemsAssumption
  PROVE  Gcp!Spec => []Gcp!CleanReturnAccounts
BY GcpHandledAtTheEnd, GcpInvariance, PTL

-----------------------------------------------------------------------------
(* GcpItems implements ProviderCall. *)

GcpInReach == gone \subseteq IF dryRun THEN {} ELSE Gcp!Reach

\* What ProviderTraits says of the five calls of GCP.
LEMMA GcpCallTraits ==
  ASSUME Gcp!TypeOK
  PROVE  /\ Gcp!Abstract!IsEffective("GCP", Gcp!CallName[call], dryRun) <=> ~dryRun
         /\ Gcp!Abstract!AnswerIsFull("GCP", Gcp!CallName[call], dryRun) =>
              ~dryRun /\ call # "terminate"
BY DEF Gcp!TypeOK, Gcp!CallName, Gcp!Abstract!IsEffective, Gcp!Abstract!AnswerIsFull,
       Gcp!Abstract!IgnoresDryRun, Gcp!Abstract!MaySkip, Gcp!Abstract!AwsClouds

\* What is gone was selected, or belongs to a group that a selected instance is
\* named after.
LEMMA GcpStaysInReach ==
  ASSUME Gcp!GcpItemsAssumption
  PROVE  GcpIInv => GcpInReach
<1> SUFFICES ASSUME GcpIInv PROVE GcpInReach
  OBVIOUS
<1>1. CASE dryRun
  BY <1>1 DEF GcpIInv, GcpHandled, GcpInReach
<1>2. CASE ~dryRun /\ call # "terminate"
  BY <1>2 DEF GcpIInv, GcpStarted, GcpHandled, GcpTargets, GcpInReach, Gcp!Reach
<1>3. CASE ~dryRun /\ call = "terminate"
  <2>1. /\ gone \subseteq GcpResources /\ groupsToDelete \subseteq Groups
        /\ instancesToDelete \subseteq Gcp!Selected
    BY DEF GcpIInv, Gcp!TypeOK
  <2> SUFFICES ASSUME NEW i \in gone PROVE i \in Gcp!Reach
    BY <1>3 DEF GcpInReach
  <2>2. i \notin groupsToDelete
    BY <2>1
  <2>3. CASE i \in instancesToDelete
    BY <2>1, <2>3 DEF Gcp!Reach
  <2>4. CASE \E g \in groupsToDelete : i \in Members[g]
    <3>1. PICK g \in groupsToDelete : i \in Members[g]
      BY <2>4
    <3>2. g \in {h \in Groups : Named[h] \cap Gcp!Selected # {}}
      BY <2>1 DEF GcpIInv, GcpClassified
    <3> QED
      BY <1>3, <3>1, <3>2 DEF Gcp!Reach
  <2> QED
    BY <1>3, <2>2, <2>3, <2>4 DEF GcpIInv, GcpHandled, GcpTargets
<1> QED
  BY <1>1, <1>2, <1>3

\* The input of the abstract call is that of the call.
LEMMA GcpAbstractInputFixed ==
  ASSUME UNCHANGED Gcp!input
  PROVE  /\ UNCHANGED <<Gcp!Abstract!input, call, dryRun>>
         /\ Gcp!Selected' = Gcp!Selected /\ Gcp!Reach' = Gcp!Reach
BY DEF Gcp!input, Gcp!Selected, Gcp!Reach, Gcp!Abstract!input

\* Before the return a goroutine takes or adds an error; after it, it only
\* gives its slot back.
LEMMA GcpWorkerRefines ==
  ASSUME GcpIInv, GcpInReach', NEW w \in Gcp!Workers, Gcp!Worker(w)
  PROVE  [Gcp!Abstract!Next]_(Gcp!Abstract!vars)
<1>1. /\ UNCHANGED <<Gcp!input, pc, listFailed>>
      /\ gone \subseteq gone' /\ errs \subseteq errs'
  BY DEF Gcp!Worker, Gcp!TakeSlot, Gcp!SkipOnDryRun, Gcp!Request, Gcp!RequestFails,
         Gcp!ReleaseSlot, Gcp!plan, Gcp!done
<1>2. /\ UNCHANGED <<Gcp!Abstract!input, call, dryRun>>
      /\ Gcp!Selected' = Gcp!Selected /\ Gcp!Reach' = Gcp!Reach
  BY <1>1, GcpAbstractInputFixed
<1>3. CASE pc = "returned"
  <2>1. UNCHANGED <<gone, errs>>
    <3>1. CASE Gcp!TakeSlot(w) \/ Gcp!SkipOnDryRun(w) \/ Gcp!ReleaseSlot(w)
      BY <3>1 DEF Gcp!TakeSlot, Gcp!SkipOnDryRun, Gcp!ReleaseSlot, Gcp!done
    <3>2. CASE Gcp!Request(w) \/ Gcp!RequestFails(w)
      <4>1. at[w] = "send"
        BY <3>2 DEF Gcp!Request, Gcp!RequestFails, Gcp!Leave, Gcp!At
      <4> QED
        BY <1>3, <4>1 DEF GcpIInv, GcpEndedAtReturn
    <3> QED
      BY <3>1, <3>2 DEF Gcp!Worker
  <2> QED
    BY <1>1, <1>2, <2>1 DEF Gcp!Abstract!vars
<1>4. CASE pc # "returned"
  <2>1. gone' \subseteq
          IF Gcp!Abstract!IsEffective("GCP", Gcp!CallName[call], dryRun) THEN Gcp!Reach ELSE {}
    BY <1>2, GcpCallTraits DEF GcpInReach, GcpIInv
  <2>2. Gcp!Abstract!Work
    BY <1>1, <1>2, <1>4, <2>1 DEF Gcp!Abstract!Work
  <2> QED
    BY <2>2 DEF Gcp!Abstract!Next
<1> QED
  BY <1>3, <1>4

\* TerminateInstances returns the error of its listing; any other return without
\* an error is one that CleanReturnAccounts speaks of.
LEMMA GcpReturnRefines ==
  ASSUME GcpIInv, Gcp!CleanReturnAccounts', Gcp!Return \/ Gcp!ListGroupsFails
  PROVE  Gcp!Abstract!Return
<1>1. CASE Gcp!ListGroupsFails
  BY <1>1, GcpAbstractInputFixed DEF Gcp!ListGroupsFails, Gcp!done, Gcp!Abstract!Return
<1>2. CASE Gcp!Return
  <2>1. /\ UNCHANGED <<gone, errs, listFailed, call, dryRun>> /\ Gcp!Selected' = Gcp!Selected
        /\ pc # "returned" /\ pc' = "returned"
        /\ UNCHANGED Gcp!Abstract!input
    BY <1>2, GcpAbstractInputFixed DEF Gcp!Return, Gcp!plan, Gcp!done
  <2>2. ASSUME errs = {}, ~listFailed,
               Gcp!Abstract!AnswerIsFull("GCP", Gcp!CallName[call], dryRun)
        PROVE  Gcp!Selected \subseteq gone
    <3>1. ~dryRun /\ call # "terminate"
      BY <2>2, GcpCallTraits DEF GcpIInv
    <3> QED
      BY <2>1, <2>2, <3>1 DEF Gcp!CleanReturnAccounts
  <2> QED
    BY <2>1, <2>2 DEF Gcp!Abstract!Return
<1> QED
  BY <1>1, <1>2

LEMMA GcpNextRefines ==
  GcpIInv /\ (GcpInReach /\ Gcp!CleanReturnAccounts)' /\ [Gcp!Next]_Gcp!vars
    => [Gcp!Abstract!Next]_(Gcp!Abstract!vars)
<1> SUFFICES ASSUME GcpIInv, GcpInReach', Gcp!CleanReturnAccounts', [Gcp!Next]_Gcp!vars
             PROVE  [Gcp!Abstract!Next]_(Gcp!Abstract!vars)
  OBVIOUS
<1>1. CASE Gcp!Return \/ Gcp!ListGroupsFails
  BY <1>1, GcpReturnRefines DEF Gcp!Abstract!Next
<1>2. ASSUME NEW w \in Gcp!Workers, Gcp!Worker(w) PROVE [Gcp!Abstract!Next]_(Gcp!Abstract!vars)
  BY <1>2, GcpWorkerRefines
<1>3. CASE Gcp!ListGroups \/ Gcp!Classify \/ Gcp!StartDeletions \/ UNCHANGED Gcp!vars
  <2>1. /\ UNCHANGED <<Gcp!input, gone, errs, listFailed>>
        /\ (pc = "returned")' = (pc = "returned")
    BY <1>3 DEF Gcp!ListGroups, Gcp!Classify, Gcp!ToClassify, Gcp!StartDeletions, Gcp!vars,
                Gcp!plan, Gcp!done
  <2> QED
    BY <2>1, GcpAbstractInputFixed DEF Gcp!Abstract!vars
<1> QED
  BY <1>1, <1>2, <1>3 DEF Gcp!Next, Gcp!Caller

\* gcp.go, DeleteDisks to deleteImages do, for any instances, groups, names and
\* number of slots, what Hunt assumes of the calls of a provider.
THEOREM GcpRefinement ==
  ASSUME Gcp!GcpItemsAssumption
  PROVE  Gcp!Spec => Gcp!ImplementsProviderCall
<1>1. Gcp!Init => Gcp!Abstract!Init
  BY DEF Gcp!Init, Gcp!Abstract!Init
<1> QED
  BY <1>1, GcpStaysInReach, GcpNextRefines, GcpInvariance, GcpReturnAccounts, PTL
     DEF Gcp!Spec, Gcp!ImplementsProviderCall, Gcp!Abstract!Spec
-----------------------------------------------------------------------------
(* The semaphore of deleteImages. *)

\* The semaphore holds the goroutines between sem <- true and <-sem.
GcpSlotsHeld ==
  /\ \A w \in Gcp!Workers : at[w] \in {"slot", "release"} => call = "images"
  /\ sem = IF call = "images" THEN {w \in Gcp!Workers : at[w] \in {"send", "release"}} ELSE {}

\* As for Azure: a bound on the requests under way, and no slot gets lost.
GcpSlotsComeFree ==
  /\ call = "images" => Cardinality({w \in Gcp!Workers : at[w] \in {"send", "release"}}) <= GcpSlots
  /\ \A w \in Gcp!Workers : at[w] = "slot" =>
       Cardinality(sem) < GcpSlots \/ \E h \in Gcp!Workers : at[h] \in {"send", "release"}

LEMMA GcpSlotsHeldStep ==
  ASSUME Gcp!GcpItemsAssumption
  PROVE  GcpIInv /\ GcpSlotsHeld /\ [Gcp!Next]_(Gcp!vars) => GcpSlotsHeld'
<1> SUFFICES ASSUME GcpIInv, GcpSlotsHeld, [Gcp!Next]_(Gcp!vars) PROVE GcpSlotsHeld'
  OBVIOUS
<1>1. at \in [Gcp!Workers -> {"idle", "slot", "send", "release", "done"}]
  BY DEF GcpIInv, Gcp!TypeOK
<1>2. ASSUME NEW w \in Gcp!Workers, Gcp!TakeSlot(w) \/ Gcp!ReleaseSlot(w) PROVE GcpSlotsHeld'
  BY <1>1, <1>2 DEF Gcp!TakeSlot, Gcp!ReleaseSlot, Gcp!At, Gcp!Goto, Gcp!input, GcpSlotsHeld
<1>3. ASSUME NEW w \in Gcp!Workers, Gcp!SkipOnDryRun(w) \/ Gcp!Request(w) \/ Gcp!RequestFails(w)
      PROVE  GcpSlotsHeld'
  <2>1. UNCHANGED <<call, sem>> /\ Gcp!Leave(w)
    BY <1>3 DEF Gcp!SkipOnDryRun, Gcp!Request, Gcp!RequestFails, Gcp!input
  <2> QED
    BY <1>1, <2>1 DEF Gcp!Leave, Gcp!At, Gcp!Goto, GcpSlotsHeld
<1>4. CASE Gcp!StartDeletions
  <2>1. call = "terminate"
    BY <1>4 DEF Gcp!StartDeletions, GcpIInv, GcpStarted
  <2> QED
    BY <1>4, <2>1 DEF Gcp!StartDeletions, Gcp!Starting, Gcp!input, GcpSlotsHeld
<1>5. CASE Gcp!ListGroups \/ Gcp!ListGroupsFails \/ Gcp!Classify \/ Gcp!Return \/ UNCHANGED Gcp!vars
  <2>1. UNCHANGED <<call, at, sem>>
    BY <1>5 DEF Gcp!ListGroups, Gcp!ListGroupsFails, Gcp!Classify, Gcp!Return, Gcp!vars, Gcp!input
  <2> QED
    BY <2>1 DEF GcpSlotsHeld
<1> QED
  BY <1>2, <1>3, <1>4, <1>5 DEF Gcp!Next, Gcp!Caller, Gcp!Worker

\* The semaphore of gcp.go bounds the requests and blocks nobody for ever, for
\* any images and number of slots.
THEOREM GcpSlotsAreReturned ==
  ASSUME Gcp!GcpItemsAssumption
  PROVE  Gcp!Spec => []GcpSlotsComeFree
<1>1. Gcp!Init => GcpSlotsHeld
  BY DEF Gcp!Init, Gcp!Starting, GcpSlotsHeld
<1>2. GcpIInv /\ GcpSlotsHeld => GcpSlotsComeFree
  <2> SUFFICES ASSUME GcpIInv, GcpSlotsHeld PROVE GcpSlotsComeFree
    OBVIOUS
  <2>1. Cardinality({}) = 0 /\ GcpSlots \in Nat \ {0}
    BY FS_EmptySet
  <2>2. sem = {} \/ \E h \in Gcp!Workers : at[h] \in {"send", "release"}
    BY DEF GcpSlotsHeld
  <2>3. sem = {} => Cardinality(sem) < GcpSlots
    BY <2>1
  <2>4. Cardinality(sem) <= GcpSlots
    BY SameCardinality DEF GcpIInv, Gcp!TypeOK
  <2> QED
    BY <2>2, <2>3, <2>4 DEF GcpSlotsComeFree, GcpSlotsHeld
<1>3. QED
  BY <1>1, <1>2, GcpSlotsHeldStep, GcpInvariance, PTL DEF Gcp!Spec

-----------------------------------------------------------------------------
(* The calls of azure.go and of gcp.go end without any fairness but that   *)
(* something happens.                                                      *)

\* How far the goroutine of an item has come, and how far the caller.
WorkerRank == [idle |-> 0, slot |-> 1, send |-> 2, release |-> 3, done |-> 4]
CallerRank == [list |-> 0, loop |-> 0, classify |-> 1, wait |-> 2, returned |-> 3]

Shrinks(before, after) == after \subseteq before /\ after # before

\* A region of CleanupStorages goes through its accounts, the containers of
\* the current account, and the blobs of the current container.
StorageAdvances(r) ==
  \/ Shrinks(accounts[r], accounts'[r])
  \/ accounts'[r] = accounts[r] /\ Shrinks(containers[r], containers'[r])
  \/ /\ accounts'[r] = accounts[r] /\ containers'[r] = containers[r]
     /\ Shrinks(blobs[r], blobs'[r])

StorageWaits(r) ==
  accounts'[r] = accounts[r] /\ containers'[r] = containers[r] /\ blobs'[r] = blobs[r]

AzureAdvances ==
  /\ CallerRank[pc] <= CallerRank[pc'] /\ position <= position'
  /\ \A i \in Resources : WorkerRank[at[i]] <= WorkerRank[at'[i]]
  /\ \A r \in Regions : StorageAdvances(r) \/ StorageWaits(r)
  /\ accepted \subseteq accepted' /\ silent \subseteq silent' /\ errs \subseteq errs'
  /\ \/ CallerRank[pc] < CallerRank[pc']
     \/ position < position' /\ position' <= Len(listing) + 1
     \/ \E i \in Resources : WorkerRank[at[i]] < WorkerRank[at'[i]]
     \/ \E r \in Regions : StorageAdvances(r)

\* Nothing was asked or reported before DeleteImages has its list.
ListedFirst == pc = "list" => errs = {}

LEMMA ListedFirstStep == IInv /\ ListedFirst /\ [Next]_vars => ListedFirst'
<1> SUFFICES ASSUME IInv, ListedFirst, [Next]_vars, pc' = "list" PROVE errs' = {}
  BY DEF ListedFirst
<1>1. CASE Caller
  BY <1>1 DEF Caller, Pass, Begin, PassLocked, BeginFails, LoopBody, ListImages, ListImagesFails,
     Return
<1>2. ASSUME NEW i \in Resources, Worker(i) PROVE FALSE
  <2>1. pc = "list" /\ at[i] # "idle"
    BY <1>2 DEF Worker, TakeSlot, SkipOnDryRun, Accept, AcceptForNothing, Refuse, ReleaseSlot,
       Asks, Leave, At
  <2>2. QED
    BY <2>1 DEF IInv, Phases
<1>3. ASSUME NEW r \in Regions, Region(r) PROVE FALSE
  <2>1. pc = "list" /\ ~(accounts[r] = {} /\ containers[r] = {} /\ blobs[r] = {})
    BY <1>3 DEF Region, GetContainers, GetContainersFails, NextAccount, GetBlobs, GetBlobsFails,
       NextContainer, KeepBlob, DeleteBlob, DeleteBlobFails, NextBlob, control
  <2>2. QED
    BY <2>1 DEF IInv, Phases
<1>4. CASE UNCHANGED vars
  BY <1>4 DEF vars, control, answer, ListedFirst
<1>5. QED
  BY <1>1, <1>2, <1>3, <1>4 DEF Next

LEMMA AzureCallerAdvances ==
  ASSUME IInv, ListedFirst, Caller
  PROVE  AzureAdvances
<1> USE DEF AzureAdvances, StorageWaits, CallerRank
<1>1. position \in Nat /\ Len(listing) \in Nat
  BY Lists DEF IInv, TypeOK
<1>2. at \in [Resources -> DOMAIN WorkerRank]
  BY DEF IInv, TypeOK, WorkerRank
<1>3. \A place \in DOMAIN WorkerRank : WorkerRank[place] \in Nat
  BY DEF WorkerRank
<1>4. CASE Pass \/ Begin \/ PassLocked \/ BeginFails
  <2>1. /\ position' = position + 1 /\ position <= Len(listing)
        /\ UNCHANGED <<pc, at, accounts, containers, blobs>> /\ pc = "loop"
        /\ accepted \subseteq accepted' /\ silent \subseteq silent' /\ errs \subseteq errs'
    BY <1>4 DEF Pass, Begin, PassLocked, BeginFails, LoopBody, storages, answer
  <2>2. QED
    BY <1>1, <1>2, <1>3, <2>1
<1>5. CASE ListImages
  <2>1. \A i \in Resources : at[i] = "idle"
    BY <1>5 DEF ListImages, IInv, Phases
  <2>2. \A i \in Resources : WorkerRank[at[i]] <= WorkerRank[at'[i]]
    BY <1>5, <2>1 DEF ListImages, WorkerRank
  <2>3. QED
    BY <1>1, <1>5, <2>2 DEF ListImages, storages, answer
<1>6. CASE ListImagesFails
  <2>1. errs = {}
    BY <1>6 DEF ListImagesFails, ListedFirst
  <2>2. QED
    BY <1>1, <1>2, <1>3, <1>6, <2>1 DEF ListImagesFails, storages
<1>7. CASE Return
  BY <1>1, <1>2, <1>3, <1>7 DEF Return, storages, answer
<1>8. QED
  BY <1>4, <1>5, <1>6, <1>7 DEF Caller

LEMMA AzureWorkerAdvances ==
  ASSUME IInv, NEW i \in Resources, Worker(i)
  PROVE  AzureAdvances
<1>1. at \in [Resources -> {"idle", "slot", "send", "release", "done"}]
  BY DEF IInv, TypeOK
<1>2. /\ UNCHANGED <<pc, position, storages>>
      /\ accepted \subseteq accepted' /\ silent \subseteq silent' /\ errs \subseteq errs'
  BY DEF Worker, TakeSlot, SkipOnDryRun, Accept, AcceptForNothing, Refuse, ReleaseSlot, answer
<1>3. PICK place \in DOMAIN WorkerRank :
        at' = [at EXCEPT ![i] = place] /\ WorkerRank[at[i]] < WorkerRank[place]
  <2>1. CASE TakeSlot(i) \/ ReleaseSlot(i)
    BY <2>1 DEF TakeSlot, ReleaseSlot, At, Goto, WorkerRank
  <2>2. CASE SkipOnDryRun(i) \/ Accept(i) \/ AcceptForNothing(i) \/ Refuse(i)
    BY <2>2 DEF SkipOnDryRun, Accept, AcceptForNothing, Refuse, Asks, Leave, At, Goto, WorkerRank
  <2>3. QED
    BY <2>1, <2>2 DEF Worker
<1>4. /\ \A j \in Resources : WorkerRank[at[j]] <= WorkerRank[at'[j]]
      /\ WorkerRank[at[i]] < WorkerRank[at'[i]]
  <2>1. \A j \in Resources : WorkerRank[at[j]] \in Nat
    BY <1>1 DEF WorkerRank
  <2>2. at'[i] = place /\ \A j \in Resources : j # i => at'[j] = at[j]
    BY <1>1, <1>3
  <2>3. ASSUME NEW j \in Resources PROVE WorkerRank[at[j]] <= WorkerRank[at'[j]]
    <3>1. CASE j = i
      <4> DEFINE from == WorkerRank[at[i]]
                 to   == WorkerRank[place]
      <4>1. from \in Nat /\ from < to /\ to \in Nat
        BY <1>3, <2>1 DEF WorkerRank
      <4>2. QED
        BY <2>2, <3>1, <4>1
    <3>2. CASE j # i
      BY <2>1, <2>2, <3>2
    <3>3. QED
      BY <3>1, <3>2
  <2>4. QED
    BY <1>3, <2>2, <2>3
<1>5. CallerRank[pc] \in Nat /\ position \in Nat
  BY Lists DEF IInv, TypeOK, CallerRank
<1>6. QED
  BY <1>2, <1>4, <1>5 DEF AzureAdvances, StorageWaits, storages

LEMMA AzureRegionAdvances ==
  ASSUME IInv, NEW r \in Regions, Region(r)
  PROVE  AzureAdvances
<1>1. /\ accounts \in [Regions -> SUBSET Selected]
      /\ containers \in [Regions -> SUBSET Containers]
      /\ blobs \in [Regions -> SUBSET Blobs]
  BY DEF IInv, TypeOK
<1>2. /\ UNCHANGED <<pc, at, position>>
      /\ accepted \subseteq accepted' /\ silent \subseteq silent' /\ errs \subseteq errs'
  BY DEF Region, GetContainers, GetContainersFails, NextAccount, GetBlobs, GetBlobsFails,
     NextContainer, KeepBlob, DeleteBlob, DeleteBlobFails, NextBlob, control
<1>3. StorageAdvances(r) /\ \A q \in Regions : q # r => StorageWaits(q)
  <2> USE <1>1 DEF StorageAdvances, StorageWaits, Shrinks
  <2>1. ASSUME NEW s \in Resources, GetContainers(r, s) \/ GetContainersFails(r, s)
        PROVE  StorageAdvances(r) /\ \A q \in Regions : q # r => StorageWaits(q)
    BY <2>1 DEF GetContainers, GetContainersFails, NextAccount
  <2>2. ASSUME NEW c \in Containers, GetBlobs(r, c) \/ GetBlobsFails(r, c)
        PROVE  StorageAdvances(r) /\ \A q \in Regions : q # r => StorageWaits(q)
    BY <2>2 DEF GetBlobs, GetBlobsFails, NextContainer
  <2>3. ASSUME NEW b \in Blobs, KeepBlob(r, b) \/ DeleteBlob(r, b) \/ DeleteBlobFails(r, b)
        PROVE  StorageAdvances(r) /\ \A q \in Regions : q # r => StorageWaits(q)
    BY <2>3 DEF KeepBlob, DeleteBlob, DeleteBlobFails, NextBlob
  <2>4. QED
    BY <2>1, <2>2, <2>3 DEF Region
<1>4. /\ CallerRank[pc] \in Nat /\ position \in Nat
      /\ \A i \in Resources : WorkerRank[at[i]] \in Nat
  BY Lists DEF IInv, TypeOK, CallerRank, WorkerRank
<1>5. QED
  BY <1>2, <1>3, <1>4 DEF AzureAdvances

\* Every step of the six calls is one forward: the caller or a goroutine goes
\* on to a later place, the loop to the next item, a region to its next
\* account, container or blob.  A request is never made twice, and the calls
\* end for any lists and, as storage is finite, any containers and blobs.
AzureEveryStepAdvances == [][AzureAdvances]_vars

THEOREM AzureStepsAdvance == Spec => AzureEveryStepAdvances
<1>1. Init => ListedFirst
  BY DEF Init, ListedFirst
<1>2. IInv /\ ListedFirst /\ [Next]_vars => [AzureAdvances]_vars
  BY AzureCallerAdvances, AzureWorkerAdvances, AzureRegionAdvances DEF Next
<1>3. QED
  BY <1>1, <1>2, ListedFirstStep, AzureInvariance, PTL DEF Spec, AzureEveryStepAdvances

GcpAdvances ==
  /\ CallerRank[pc] <= CallerRank[pc'] /\ classified <= classified'
  /\ \A w \in Gcp!Workers : WorkerRank[at[w]] <= WorkerRank[at'[w]]
  /\ gone \subseteq gone' /\ failed \subseteq failed' /\ errs \subseteq errs'
  /\ groupsToDelete \subseteq groupsToDelete' /\ instancesToDelete \subseteq instancesToDelete'
  /\ \/ CallerRank[pc] < CallerRank[pc']
     \/ classified < classified' /\ classified' <= Len(listing)
     \/ \E w \in Gcp!Workers : WorkerRank[at[w]] < WorkerRank[at'[w]]

LEMMA GcpWorkerAdvances ==
  ASSUME Gcp!GcpItemsAssumption, GcpIInv, NEW w \in Gcp!Workers, Gcp!Worker(w)
  PROVE  GcpAdvances
<1>1. at \in [Gcp!Workers -> {"idle", "slot", "send", "release", "done"}]
  BY DEF GcpIInv, Gcp!TypeOK
<1>2. /\ UNCHANGED <<pc, classified, groupsToDelete, instancesToDelete>>
      /\ gone \subseteq gone' /\ failed \subseteq failed' /\ errs \subseteq errs'
  BY DEF Gcp!Worker, Gcp!TakeSlot, Gcp!SkipOnDryRun, Gcp!Request, Gcp!RequestFails,
     Gcp!ReleaseSlot, Gcp!plan, Gcp!done
<1>3. PICK place \in DOMAIN WorkerRank :
        at' = [at EXCEPT ![w] = place] /\ WorkerRank[at[w]] < WorkerRank[place]
  <2>1. CASE Gcp!TakeSlot(w) \/ Gcp!ReleaseSlot(w)
    BY <2>1 DEF Gcp!TakeSlot, Gcp!ReleaseSlot, Gcp!At, Gcp!Goto, WorkerRank
  <2>2. CASE Gcp!SkipOnDryRun(w) \/ Gcp!Request(w) \/ Gcp!RequestFails(w)
    BY <2>2 DEF Gcp!SkipOnDryRun, Gcp!Request, Gcp!RequestFails, Gcp!Leave, Gcp!At, Gcp!Goto,
       WorkerRank
  <2>3. QED
    BY <2>1, <2>2 DEF Gcp!Worker
<1>4. /\ \A v \in Gcp!Workers : WorkerRank[at[v]] <= WorkerRank[at'[v]]
      /\ WorkerRank[at[w]] < WorkerRank[at'[w]]
  <2>1. \A v \in Gcp!Workers : WorkerRank[at[v]] \in Nat
    BY <1>1 DEF WorkerRank
  <2>2. at'[w] = place /\ \A v \in Gcp!Workers : v # w => at'[v] = at[v]
    BY <1>1, <1>3
  <2>3. ASSUME NEW v \in Gcp!Workers PROVE WorkerRank[at[v]] <= WorkerRank[at'[v]]
    <3>1. CASE v = w
      <4> DEFINE from == WorkerRank[at[w]]
                 to   == WorkerRank[place]
      <4>1. from \in Nat /\ from < to /\ to \in Nat
        BY <1>3, <2>1 DEF WorkerRank
      <4>2. QED
        BY <2>2, <3>1, <4>1
    <3>2. CASE v # w
      BY <2>1, <2>2, <3>2
    <3>3. QED
      BY <3>1, <3>2
  <2>4. QED
    BY <1>3, <2>2, <2>3
<1>5. CallerRank[pc] \in Nat /\ classified \in Nat
  BY GcpLists DEF GcpIInv, Gcp!TypeOK, CallerRank
<1>6. QED
  BY <1>2, <1>4, <1>5 DEF GcpAdvances

LEMMA GcpCallerAdvances ==
  ASSUME Gcp!GcpItemsAssumption, GcpIInv, Gcp!Caller
  PROVE  GcpAdvances
<1> USE DEF GcpAdvances, CallerRank, Gcp!plan, Gcp!done
<1>1. classified \in Nat /\ Len(listing) \in Nat
  BY GcpLists DEF GcpIInv, Gcp!TypeOK
<1>2. \A w \in Gcp!Workers : WorkerRank[at[w]] \in Nat
  BY DEF GcpIInv, Gcp!TypeOK, WorkerRank
<1>3. CASE Gcp!ListGroups \/ Gcp!ListGroupsFails \/ Gcp!Return
  BY <1>1, <1>2, <1>3 DEF Gcp!ListGroups, Gcp!ListGroupsFails, Gcp!Return
<1>4. CASE Gcp!Classify
  BY <1>1, <1>2, <1>4 DEF Gcp!Classify, Gcp!ToClassify
<1>5. CASE Gcp!StartDeletions
  <2>1. \A w \in Gcp!Workers : at[w] = "idle"
    BY <1>5 DEF Gcp!StartDeletions, GcpIInv, GcpStarted
  <2>2. \A w \in Gcp!Workers : WorkerRank[at[w]] <= WorkerRank[at'[w]]
    BY <1>5, <2>1 DEF Gcp!StartDeletions, Gcp!Starting, WorkerRank
  <2>3. pc = "classify" /\ pc' = "wait" /\ UNCHANGED <<Gcp!plan, Gcp!done>>
    BY <1>5 DEF Gcp!StartDeletions
  <2>4. QED
    BY <1>1, <2>2, <2>3
<1>6. QED
  BY <1>3, <1>4, <1>5 DEF Gcp!Caller

\* Every step of the five calls is one forward: the caller classifies the next
\* instance or goes on, or a goroutine goes on to a later place.
GcpEveryStepAdvances == [][GcpAdvances]_(Gcp!vars)

THEOREM GcpStepsAdvance ==
  ASSUME Gcp!GcpItemsAssumption
  PROVE  Gcp!Spec => GcpEveryStepAdvances
<1>1. GcpIInv /\ [Gcp!Next]_(Gcp!vars) => [GcpAdvances]_(Gcp!vars)
  BY GcpCallerAdvances, GcpWorkerAdvances DEF Gcp!Next
<1>2. QED
  BY <1>1, GcpInvariance, PTL DEF Gcp!Spec, GcpEveryStepAdvances
=============================================================================
