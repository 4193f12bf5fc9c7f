----------------------------- MODULE AzureItems -----------------------------
(***************************************************************************)
(* azure.go: TerminateInstances and StopInstances (a goroutine per item    *)
(* under a semaphore), TerminateStacks and StopDatabases (one after the    *)
(* other), DeleteImages with deleteImages (a goroutine per existing image  *)
(* that matches a selected one) and CleanupStorages (a goroutine per       *)
(* region).                                                                *)
(*                                                                         *)
(* A Begin... call only starts an operation: its end is never waited for.  *)
(* The error channels are unbuffered: a failing call, the send of its      *)
(* error and the receive are one step.                                     *)
(***************************************************************************)
EXTENDS Integers, FiniteSets, Sequences

CONSTANTS
  Resources,      \* instances, resource groups, databases, images, storage accounts
  ScaleSetVMs,    \* the instances that belong to a scale set
  Key,            \* per image, its name and region
  Group,          \* per image, its resource group
  Regions, RegionOf,
  Containers, AccountOf,       \* the containers, and the storage account of each
  Blobs, ContainerOf, Age,     \* the blobs, the container of each, its age in days
  Listings,       \* the lists of selected items the call may get
  RetentionDays,  \* the values of RETENTION_DAYS
  Slots           \* cap(sem)

ASSUME AzureItemsAssumption ==
  /\ IsFiniteSet(Resources) /\ ScaleSetVMs \subseteq Resources
  /\ RegionOf \in [Resources -> Regions]
  /\ AccountOf \in [Containers -> Resources] /\ ContainerOf \in [Blobs -> Containers]
  /\ Age \in [Blobs -> Int] /\ RetentionDays \subseteq Int
  /\ \A i \in Resources : Group[i] # ""
  /\ \A i, j \in Resources : Key[i] = Key[j] /\ Group[i] = Group[j] => i = j
  /\ Listings \subseteq Seq(Resources)
  /\ \A s \in Listings : \A j, k \in DOMAIN s : s[j] = s[k] => j = k
  /\ Slots \in Nat \ {0}

VARIABLES
  call, dryRun, listing, retentionDays,
  byURL,          \* the images were read from a list of URLs, not listed by GetImages
  existing,       \* the images there are
  pc,             \* where the caller is
  at,             \* per item, where its goroutine is
  sem,            \* the goroutines that hold a slot of the semaphore
  position,       \* of the loops of TerminateStacks and StopDatabases
  accounts, containers, blobs,   \* per region, what its goroutine has before it
  accepted,       \* what a request was accepted for, and the blobs deleted
  silent,        \* the requests that were accepted or refused without an error to report
  errs            \* what failed, with its error received

input    == <<call, dryRun, listing, retentionDays, byURL, existing>>
storages == <<accounts, containers, blobs>>
control  == <<pc, at, sem, position>>
answer   == <<accepted, silent, errs>>
vars     == <<input, control, storages, answer>>

Selected == {listing[k] : k \in DOMAIN listing}

At(i, place)   == at[i] = place
Goto(i, place) == at' = [at EXCEPT ![i] = place]

Init ==
  /\ call \in {"terminate", "stop", "stacks", "databases", "images", "storages"}
  /\ dryRun \in BOOLEAN
  /\ listing \in Listings
  /\ retentionDays \in RetentionDays
  /\ byURL \in BOOLEAN
  /\ existing \in IF call = "images" THEN SUBSET Resources ELSE {{}}
  /\ pc = CASE call = "images" -> "list"
            [] call \in {"stacks", "databases"} -> "loop"
            [] OTHER -> "wait"
  /\ at = [i \in Resources |-> IF call \in {"terminate", "stop"} /\ i \in Selected
                               THEN "slot" ELSE "idle"]
  /\ position = 1
  /\ accounts = [r \in Regions |-> IF call = "storages" THEN {i \in Selected : RegionOf[i] = r} ELSE {}]
  /\ containers = [r \in Regions |-> {}]
  /\ blobs = [r \in Regions |-> {}]
  /\ sem = {} /\ accepted = {} /\ silent = {} /\ errs = {}

-----------------------------------------------------------------------------
(* TerminateInstances and StopInstances *)

\* Mutant of TakeSlot: a channel that does not bound the requests.
TakeAnySlot(i) ==
  /\ At(i, "slot")
  /\ sem' = sem \cup {i}
  /\ Goto(i, "send")
  /\ UNCHANGED <<input, pc, position, storages, answer>>

\* sem <- true
TakeSlot(i) ==
  /\ At(i, "slot") /\ Cardinality(sem) < Slots
  /\ sem' = sem \cup {i}
  /\ Goto(i, "send")
  /\ UNCHANGED <<input, pc, position, storages, answer>>

Leave(i) ==
  /\ At(i, "send")
  /\ Goto(i, IF call \in {"terminate", "stop"} THEN "release" ELSE "done")

\* StopInstances does not look at the flag.
SkipOnDryRun(i) ==
  /\ dryRun /\ call # "stop" /\ Leave(i)
  /\ UNCHANGED <<input, pc, sem, position, storages, answer>>

Asks(i) == Leave(i) /\ (~dryRun \/ call = "stop")

\* TerminateInstances asks the client of plain virtual machines for every
\* instance, also for one of a scale set: there is no such machine.
Accept(i) ==
  /\ Asks(i) /\ ~(call = "terminate" /\ i \in ScaleSetVMs)
  /\ accepted' = accepted \cup {i}
  /\ UNCHANGED <<input, pc, sem, position, storages, silent, errs>>

\* The deletion of what does not exist is accepted.
AcceptForNothing(i) ==
  /\ Asks(i) /\ call = "terminate" /\ i \in ScaleSetVMs
  /\ silent' = silent \cup {i}
  /\ UNCHANGED <<input, pc, sem, position, storages, accepted, errs>>

\* Mutant of Refuse: an error is only logged.
RefuseQuietly(i) ==
  /\ Asks(i)
  /\ silent' = silent \cup {i}
  /\ UNCHANGED <<input, pc, sem, position, storages, accepted, errs>>

Refuse(i) ==
  /\ Asks(i)
  /\ errs' = errs \cup {i}
  /\ UNCHANGED <<input, pc, sem, position, storages, accepted, silent>>

\* Mutant of ReleaseSlot: the slot is not given back.
KeepSlot(i) ==
  /\ At(i, "release")
  /\ Goto(i, "done")
  /\ UNCHANGED <<input, pc, sem, position, storages, answer>>

ReleaseSlot(i) ==
  /\ At(i, "release")
  /\ sem' = sem \ {i}
  /\ Goto(i, "done")
  /\ UNCHANGED <<input, pc, position, storages, answer>>

-----------------------------------------------------------------------------
(* TerminateStacks and StopDatabases *)

Current == listing[position]

LoopBody ==
  /\ pc = "loop" /\ position <= Len(listing)
  /\ position' = position + 1
  /\ UNCHANGED <<input, pc, at, sem, storages>>

Pass ==
  /\ LoopBody /\ dryRun
  /\ UNCHANGED answer

Begin ==
  /\ LoopBody /\ ~dryRun
  /\ accepted' = accepted \cup {Current}
  /\ UNCHANGED <<silent, errs>>

\* The error says "ScopeLocked": a line in the log.
PassLocked ==
  /\ LoopBody /\ ~dryRun /\ call = "stacks"
  /\ silent' = silent \cup {Current}
  /\ UNCHANGED <<accepted, errs>>

BeginFails ==
  /\ LoopBody /\ ~dryRun
  /\ errs' = errs \cup {Current}
  /\ UNCHANGED <<accepted, silent>>

-----------------------------------------------------------------------------
(* DeleteImages *)

\* getImageResourceGroupAndName takes the first part of an URL for the
\* resource group; an image that GetImages has listed has a resource ID, the
\* first part of which is empty.
ImageResourceGroup(i) == IF byURL THEN Group[i] ELSE ""

\* The loop over imagesToDelete ends at the first of the same name and region.
Matches(e) ==
  \E k \in DOMAIN listing :
    /\ Key[listing[k]] = Key[e]
    /\ \A j \in 1 .. k - 1 : Key[listing[j]] # Key[e]
    /\ Group[e] = ImageResourceGroup(listing[k])

ListImages ==
  /\ pc = "list"
  /\ at' = [e \in Resources |-> IF e \in existing /\ Matches(e) THEN "send" ELSE "idle"]
  /\ pc' = "wait"
  /\ UNCHANGED <<input, sem, position, storages, answer>>

ListImagesFails ==
  /\ pc = "list"
  /\ errs' = {"images"}
  /\ pc' = "returned"
  /\ UNCHANGED <<input, at, sem, position, storages, accepted, silent>>

-----------------------------------------------------------------------------
(* CleanupStorages *)

NextAccount(r, s) ==
  /\ containers[r] = {} /\ blobs[r] = {} /\ s \in accounts[r]
  /\ accounts' = [accounts EXCEPT ![r] = @ \ {s}]
  /\ UNCHANGED <<input, control, blobs, accepted, silent>>

\* getContainerUrls
GetContainers(r, s) ==
  /\ NextAccount(r, s)
  /\ containers' = [containers EXCEPT ![r] = {c \in Containers : AccountOf[c] = s}]
  /\ UNCHANGED errs

GetContainersFails(r, s) ==
  /\ NextAccount(r, s)
  /\ errs' = errs \cup {s}
  /\ UNCHANGED containers

NextContainer(r, c) ==
  /\ blobs[r] = {} /\ c \in containers[r]
  /\ containers' = [containers EXCEPT ![r] = @ \ {c}]
  /\ UNCHANGED <<input, control, accounts, accepted, silent>>

\* getBlobsInContainer
GetBlobs(r, c) ==
  /\ NextContainer(r, c)
  /\ blobs' = [blobs EXCEPT ![r] = {b \in Blobs : ContainerOf[b] = c}]
  /\ UNCHANGED errs

GetBlobsFails(r, c) ==
  /\ NextContainer(r, c)
  /\ errs' = errs \cup {c}
  /\ UNCHANGED blobs

\* CreationTime.Before(retentionTime)
Expired(b) == Age[b] > retentionDays

NextBlob(r, b) ==
  /\ b \in blobs[r]
  /\ blobs' = [blobs EXCEPT ![r] = @ \ {b}]
  /\ UNCHANGED <<input, control, accounts, containers, silent>>

KeepBlob(r, b) ==
  /\ NextBlob(r, b)
  /\ dryRun \/ ~Expired(b)
  /\ UNCHANGED <<accepted, errs>>

DeleteBlob(r, b) ==
  /\ NextBlob(r, b) /\ ~dryRun /\ Expired(b)
  /\ accepted' = accepted \cup {b}
  /\ UNCHANGED errs

DeleteBlobFails(r, b) ==
  /\ NextBlob(r, b) /\ ~dryRun /\ Expired(b)
  /\ errs' = errs \cup {b}
  /\ UNCHANGED accepted

-----------------------------------------------------------------------------
\* wg.Wait() and the loop over the errors.  TerminateInstances gives its slot
\* back before wg.Done(), StopInstances after it.
GoroutineEnded(i) == at[i] \in {"idle", "done"} \/ (at[i] = "release" /\ call = "stop")

Return ==
  /\ \/ pc = "loop" /\ position > Len(listing)
     \/ /\ pc = "wait"
        /\ \A i \in Resources : GoroutineEnded(i)
        /\ \A r \in Regions : accounts[r] = {} /\ containers[r] = {} /\ blobs[r] = {}
  /\ pc' = "returned"
  /\ UNCHANGED <<input, at, sem, position, storages, answer>>

Caller ==
  \/ Pass \/ Begin \/ PassLocked \/ BeginFails
  \/ ListImages \/ ListImagesFails
  \/ Return

Worker(i) ==
  \/ TakeSlot(i) \/ SkipOnDryRun(i) \/ Accept(i) \/ AcceptForNothing(i) \/ Refuse(i)
  \/ ReleaseSlot(i)

Region(r) ==
  \/ \E s \in Resources : GetContainers(r, s) \/ GetContainersFails(r, s)
  \/ \E c \in Containers : GetBlobs(r, c) \/ GetBlobsFails(r, c)
  \/ \E b \in Blobs : KeepBlob(r, b) \/ DeleteBlob(r, b) \/ DeleteBlobFails(r, b)

Next == Caller \/ (\E i \in Resources : Worker(i)) \/ (\E r \in Regions : Region(r))

Spec == Init /\ [][Next]_vars

\* The scheduler runs every goroutine, and each call of the SDK ends.
FairSpec ==
  /\ Spec
  /\ WF_vars(Caller)
  /\ \A i \in Resources : WF_vars(Worker(i))
  /\ \A r \in Regions : WF_vars(Region(r))

-----------------------------------------------------------------------------
TypeOK ==
  /\ call \in {"terminate", "stop", "stacks", "databases", "images", "storages"}
  /\ dryRun \in BOOLEAN /\ listing \in Listings /\ retentionDays \in RetentionDays
  /\ byURL \in BOOLEAN /\ existing \subseteq Resources
  /\ pc \in {"list", "loop", "wait", "returned"}
  /\ at \in [Resources -> {"idle", "slot", "send", "release", "done"}]
  /\ sem \subseteq Resources /\ Cardinality(sem) <= Slots
  /\ position \in 1 .. Len(listing) + 1
  /\ accounts \in [Regions -> SUBSET Selected]
  /\ containers \in [Regions -> SUBSET Containers]
  /\ blobs \in [Regions -> SUBSET Blobs]
  /\ accepted \subseteq Resources \cup Blobs
  /\ silent \subseteq Selected
  /\ errs \subseteq Resources \cup Containers \cup Blobs \cup {"images"}

\* The blobs of the selected accounts.
BlobsOf(is) == {b \in Blobs : AccountOf[ContainerOf[b]] \in is}

Twin(i, j) == i # j /\ Key[i] = Key[j]

\* What a return without errors means, call by call.  A scale set member is not
\* terminated, a locked group not deleted, and of the images only those read as
\* URLs whose name and region no other selected image has are sure to be.
CleanReturnAccounts ==
  pc = "returned" /\ errs = {} =>
    \/ dryRun /\ call # "stop" /\ accepted = {}
    \/ call = "stop" /\ accepted = Selected
    \/ call = "databases" /\ accepted = Selected
    \/ call = "stacks" /\ Selected = accepted \cup silent
    \/ call = "terminate" /\ accepted = Selected \ ScaleSetVMs
    \/ call = "images" /\ accepted \subseteq (IF byURL THEN Selected ELSE {})
         /\ \A i \in (Selected \cap existing) \ accepted :
              byURL => \E j \in Selected : Twin(i, j)
    \/ call = "storages" /\ accepted = {b \in BlobsOf(Selected) : Expired(b)}

CallName ==
  [terminate |-> "TerminateInstances", stop |-> "StopInstances", stacks |-> "TerminateStacks",
   databases |-> "StopDatabases", images |-> "DeleteImages", storages |-> "CleanupStorages"]

\* CleanupStorages deletes blobs of the selected accounts.
Reach ==
  IF call = "storages" THEN {b \in BlobsOf(Selected) : Expired(b)} ELSE Selected

Abstract ==
  INSTANCE ProviderCall WITH
    cloud    <- "AZURE",
    call     <- CallName[call],
    selected <- Selected,
    reach    <- Reach,
    changed  <- accepted,
    failing  <- errs # {},
    returned <- pc = "returned"

\* To the action that waits for it, each of the calls behaves as ProviderCall
\* says: of the six, StopDatabases and StopInstances answer for every resource
\* that they were given.
ImplementsProviderCall == Abstract!Spec

\* The call returns: every slot comes free again, every loop ends.
CallEnds == <>(pc = "returned")
=============================================================================
