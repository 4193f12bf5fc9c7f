------------------------------ MODULE GcpItems ------------------------------
(***************************************************************************)
(* gcp.go: DeleteDisks, StopInstances, StopDatabases, deleteImages and     *)
(* TerminateInstances.  Each sends one request per item from a goroutine   *)
(* of its own; deleteImages has a semaphore.  TerminateInstances looks for *)
(* managed instance groups by the name of the instance first, deletes the  *)
(* groups in place of their instances, and only logs the failures.         *)
(*                                                                         *)
(* errChan is unbuffered: a failing call, the send of its error and the    *)
(* receive are one step here.                                              *)
(***************************************************************************)
EXTENDS Naturals, FiniteSets, Sequences

CONSTANTS
  Resources,   \* the disks, instances, databases or images of the project
  Groups,      \* the instance group managers of all zones
  Named,       \* per group, the instances whose names begin with BaseInstanceName + "-"
  Members,     \* per group, the instances that it manages
  Listings,    \* the lists of selected items the call may get
  Slots        \* cap(sem) of deleteImages

\* Compute Engine names the instances of a group after its BaseInstanceName.
ASSUME GcpItemsAssumption ==
  /\ Named \in [Groups -> SUBSET Resources]
  /\ Members \in [Groups -> SUBSET Resources]
  /\ \A g \in Groups : Members[g] \subseteq Named[g]
  /\ Resources \cap Groups = {}
  /\ IsFiniteSet(Resources) /\ IsFiniteSet(Groups)
  /\ Listings \subseteq Seq(Resources)
  /\ Slots \in Nat \ {0}

Workers == Resources \cup Groups

VARIABLES
  call,               \* disks, stop, databases, images or terminate
  dryRun,
  listing,            \* gcpInstances and the like, in the order of the collection
  pc,                 \* where the caller is
  at,                 \* per item or group, where its goroutine is
  classified,         \* how many of the instances the loop over gcpInstances has seen
  groupsToDelete, instancesToDelete,
  sem,                \* the goroutines that hold a slot of the semaphore
  gone,               \* what was deleted or stopped
  failed,             \* the requests that failed
  listFailed,         \* AggregatedList failed: the only error of TerminateInstances
  errs                \* the requests whose error was received

input == <<call, dryRun, listing>>
plan  == <<classified, groupsToDelete, instancesToDelete, listFailed>>
done  == <<gone, failed, errs>>
vars  == <<input, pc, at, plan, sem, done>>

Selected == {listing[k] : k \in DOMAIN listing}

At(w, place)   == at[w] = place
Goto(w, place) == at' = [at EXCEPT ![w] = place]

Starting(ws) ==
  [w \in Workers |-> IF w \notin ws THEN "idle" ELSE IF call = "images" THEN "slot" ELSE "send"]

Init ==
  /\ call \in {"disks", "stop", "databases", "images", "terminate"}
  /\ dryRun \in BOOLEAN
  /\ listing \in Listings
  /\ pc = IF call = "terminate" THEN "list" ELSE "wait"
  /\ at = Starting(IF call = "terminate" THEN {} ELSE Selected)
  /\ classified = 0 /\ groupsToDelete = {} /\ instancesToDelete = {} /\ listFailed = FALSE
  /\ sem = {} /\ gone = {} /\ failed = {} /\ errs = {}

-----------------------------------------------------------------------------
(* TerminateInstances: which groups and which instances *)

ListGroups ==
  /\ pc = "list"
  /\ pc' = "classify"
  /\ UNCHANGED <<input, at, plan, sem, done>>

ListGroupsFails ==
  /\ pc = "list"
  /\ listFailed' = TRUE
  /\ pc' = "returned"
  /\ UNCHANGED <<input, at, classified, groupsToDelete, instancesToDelete, sem, done>>

ToClassify == pc = "classify" /\ classified < Len(listing)
Instance   == listing[classified + 1]

\* groupFound is set for a group that is not in the map yet, so the second
\* instance of a group is "not found" in it and deleted on its own as well.
Classify ==
  /\ ToClassify
  /\ LET found == {g \in Groups \ groupsToDelete : Instance \in Named[g]}
     IN  /\ groupsToDelete' = groupsToDelete \cup found
         /\ instancesToDelete' = IF found # {} THEN instancesToDelete
                                               ELSE instancesToDelete \cup {Instance}
  /\ classified' = classified + 1
  /\ UNCHANGED <<input, pc, at, listFailed, sem, done>>

StartDeletions ==
  /\ pc = "classify" /\ classified = Len(listing)
  /\ at' = Starting(groupsToDelete \cup instancesToDelete)
  /\ pc' = "wait"
  /\ UNCHANGED <<input, plan, sem, done>>

-----------------------------------------------------------------------------
(* The goroutine of an item or a group *)

\* Mutant of TakeSlot: a channel that does not bound the requests.
TakeAnySlot(w) ==
  /\ At(w, "slot")
  /\ sem' = sem \cup {w}
  /\ Goto(w, "send")
  /\ UNCHANGED <<input, pc, plan, done>>

\* sem <- true
TakeSlot(w) ==
  /\ At(w, "slot") /\ Cardinality(sem) < Slots
  /\ sem' = sem \cup {w}
  /\ Goto(w, "send")
  /\ UNCHANGED <<input, pc, plan, done>>

\* The deferred wg.Done() comes before <-sem.
Leave(w) == At(w, "send") /\ Goto(w, IF call = "images" THEN "release" ELSE "done")

SkipOnDryRun(w) ==
  /\ dryRun /\ Leave(w)
  /\ UNCHANGED <<input, pc, plan, sem, done>>

\* Deleting a group deletes the instances it manages.
Taken(w) == IF w \in Groups THEN Members[w] ELSE {w}

Request(w) ==
  /\ ~dryRun /\ Leave(w)
  /\ gone' = gone \cup Taken(w)
  /\ UNCHANGED <<input, pc, plan, sem, failed, errs>>

\* Mutant of RequestFails: every call logs its failures, and no more.
RequestFailsQuietly(w) ==
  /\ ~dryRun /\ Leave(w)
  /\ failed' = failed \cup {w}
  /\ UNCHANGED <<input, pc, plan, sem, gone, errs>>

RequestFails(w) ==
  /\ ~dryRun /\ Leave(w)
  /\ failed' = failed \cup {w}
  /\ errs' = IF call = "terminate" THEN errs ELSE errs \cup {w}
  /\ UNCHANGED <<input, pc, plan, sem, gone>>

\* Mutant of ReleaseSlot: the slot is not given back.
KeepSlot(w) ==
  /\ At(w, "release")
  /\ Goto(w, "done")
  /\ UNCHANGED <<input, pc, plan, sem, done>>

ReleaseSlot(w) ==
  /\ At(w, "release")
  /\ sem' = sem \ {w}
  /\ Goto(w, "done")
  /\ UNCHANGED <<input, pc, plan, done>>

-----------------------------------------------------------------------------
\* wg.Wait(), and the loop over errChan, which is closed after it.
Return ==
  /\ pc = "wait"
  /\ \A w \in Workers : at[w] \in {"idle", "release", "done"}
  /\ pc' = "returned"
  /\ UNCHANGED <<input, at, plan, sem, done>>

Caller == ListGroups \/ ListGroupsFails \/ Classify \/ StartDeletions \/ Return

Worker(w) == TakeSlot(w) \/ SkipOnDryRun(w) \/ Request(w) \/ RequestFails(w) \/ ReleaseSlot(w)

Next == Caller \/ \E w \in Workers : Worker(w)

Spec == Init /\ [][Next]_vars

\* The scheduler runs every goroutine, and each call of the SDK ends.
FairSpec == Spec /\ WF_vars(Caller) /\ \A w \in Workers : WF_vars(Worker(w))

-----------------------------------------------------------------------------
TypeOK ==
  /\ call \in {"disks", "stop", "databases", "images", "terminate"}
  /\ dryRun \in BOOLEAN /\ listing \in Listings
  /\ pc \in {"list", "classify", "wait", "returned"}
  /\ at \in [Workers -> {"idle", "slot", "send", "release", "done"}]
  /\ classified \in 0 .. Len(listing)
  /\ groupsToDelete \subseteq Groups /\ instancesToDelete \subseteq Selected
  /\ sem \subseteq Workers /\ Cardinality(sem) <= Slots
  /\ gone \subseteq Resources /\ failed \subseteq Workers
  /\ listFailed \in BOOLEAN /\ errs \subseteq failed

Accounted(i) ==
  \/ i \in gone \cup failed
  \/ \E g \in groupsToDelete : i \in Named[g] /\ (g \in failed \/ i \notin Members[g])

\* What a return without errors means.  The simple calls have handled the
\* selected items.  TerminateInstances may have failed with a line in the log,
\* and it passes over an instance that only has the name of a group's
\* instances; what it deletes beyond the selection belongs to a group that an
\* instance of the selection is named after.
CleanReturnAccounts ==
  pc = "returned" /\ errs = {} /\ ~listFailed =>
    IF dryRun THEN gone = {}
    ELSE IF call # "terminate" THEN gone = Selected
    ELSE /\ \A i \in Selected : Accounted(i)
         /\ \A i \in gone \ Selected :
              \E g \in Groups : i \in Members[g] /\ Named[g] \cap Selected # {}

CallName ==
  [disks |-> "DeleteDisks", stop |-> "StopInstances", databases |-> "StopDatabases",
   images |-> "DeleteImages", terminate |-> "TerminateInstances"]

\* TerminateInstances takes down the groups that the selected instances are
\* named after.
Reach ==
  Selected \cup
    IF call # "terminate" THEN {}
    ELSE UNION {Members[g] : g \in {h \in Groups : Named[h] \cap Selected # {}}}

Abstract ==
  INSTANCE ProviderCall WITH
    cloud    <- "GCP",
    call     <- CallName[call],
    selected <- Selected,
    reach    <- Reach,
    changed  <- gone,
    failing  <- listFailed \/ errs # {},
    returned <- pc = "returned"

\* To the action that waits for it, each of the calls behaves as ProviderCall
\* says, TerminateInstances as one that may pass over what it was given.
ImplementsProviderCall == Abstract!Spec

\* The call returns: every slot comes free again.
CallEnds == <>(pc = "returned")
=============================================================================
