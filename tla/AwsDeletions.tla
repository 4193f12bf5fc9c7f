---------------------------- MODULE AwsDeletions ----------------------------
(***************************************************************************)
(* aws.go: deleteVolumes, deleteImages, deleteAlerts and StopDatabases.    *)
(* Each starts a goroutine per region that goes through the region's       *)
(* items.  An attached volume is detached first and polled until it is     *)
(* unused; images are deregistered under a semaphore; alarms are deleted   *)
(* by name, in chunks of AwsBulkOperationSize.                             *)
(*                                                                         *)
(* The errors go over an unbuffered errChan that is closed after all       *)
(* goroutines have ended: a failing call, the send of its error and the    *)
(* receive are one step here.                                              *)
(***************************************************************************)
EXTENDS Integers, FiniteSets, Sequences

CONSTANTS
  Resources,             \* the volumes, images, alarms or databases of the account
  Regions,
  RegionOf,              \* per resource, its region
  NameOf,                \* per resource, its name: alarms are deleted by name
  None,                  \* no volume yet
  Listings,              \* the lists of selected items the call may get
  AwsBulkOperationSize,
  Slots,                 \* cap(sem) of deleteImages
  MaxPolls               \* of waitForVolumeUnusedState, after the first one

ASSUME AwsDeletionsAssumption ==
  /\ IsFiniteSet(Resources) /\ IsFiniteSet(Regions)
  /\ RegionOf \in [Resources -> Regions]
  /\ \A a, b \in Resources : RegionOf[a] = RegionOf[b] /\ NameOf[a] = NameOf[b] => a = b
  /\ Listings \subseteq Seq(Resources)
  /\ \A s \in Listings : \A j, k \in DOMAIN s : s[j] = s[k] => j = k
  /\ AwsBulkOperationSize \in Nat \ {0}
  /\ Slots \in Nat \ {0}
  /\ MaxPolls \in Nat
  /\ None \notin Resources

VARIABLES
  call,        \* volumes, images, alerts or databases
  dryRun,
  listing,     \* the items, in the order in which they were collected
  inUse,       \* the volumes whose State was InUse when they were listed
  attachment,  \* per volume, what AWS says of it now
  pc,          \* per region, where its goroutine is
  rest,        \* per region, the items of the iterations to come
  item,        \* per region, vol
  next,        \* per region, the index i of deleteAlerts
  polls,       \* per region, counter
  sem,         \* the regions that hold a slot of the semaphore
  detached,    \* the volumes that were detached by this call
  gone,        \* what was deleted; for databases, stopped
  skipped,     \* the volumes passed over with a line in the log only
  errs,        \* the items of the requests whose error was received
  closed, returned

input  == <<call, dryRun, listing, inUse>>
loop   == <<rest, item, next, polls, sem>>
cloud  == <<attachment, detached, gone>>
answer == <<skipped, errs, closed, returned>>
vars   == <<input, pc, loop, cloud, answer>>

Selected    == {listing[k] : k \in DOMAIN listing}
InRegion(r) == {i \in Selected : RegionOf[i] = r}
Count(r)    == Cardinality(InRegion(r))

At(r, place)   == pc[r] = place
Goto(r, place) == pc' = [pc EXCEPT ![r] = place]

Init ==
  /\ call \in {"volumes", "images", "alerts", "databases"}
  /\ dryRun \in BOOLEAN
  /\ listing \in Listings
  /\ inUse \in IF call = "volumes" THEN SUBSET Selected ELSE {{}}
  /\ attachment \in [Selected -> {"available"} \cup IF call = "volumes" THEN {"attached"} ELSE {}]
  /\ pc = [r \in Regions |-> IF InRegion(r) = {} THEN "done"
                             ELSE IF call = "images" THEN "slot" ELSE "next"]
  /\ rest = [r \in Regions |-> IF call = "alerts" THEN {} ELSE InRegion(r)]
  /\ item = [r \in Regions |-> None]
  /\ next = [r \in Regions |-> 0]
  /\ polls = [r \in Regions |-> 0]
  /\ sem = {} /\ detached = {} /\ gone = {} /\ skipped = {} /\ errs = {}
  /\ closed = FALSE /\ returned = FALSE

-----------------------------------------------------------------------------
(* What the calls for volumes, images and databases share.  The order of a *)
(* region's items is any: it is the one in which the collection answered.  *)

\* StopDatabases does not look at the flag.
SkipOnDryRun(r) ==
  /\ At(r, "next") /\ dryRun
  /\ call \in {"volumes", "images"} /\ rest[r] # {}
  /\ rest' = [rest EXCEPT ![r] = {}]
  /\ UNCHANGED <<input, pc, item, next, polls, sem, cloud, answer>>

\* Mutant of Take: the flag is not looked at.
TakeAlsoOnDryRun(r, i) ==
  /\ At(r, "next") /\ i \in rest[r]
  /\ rest' = [rest EXCEPT ![r] = @ \ {i}]

Take(r, i) ==
  /\ At(r, "next") /\ i \in rest[r]
  /\ call = "databases" \/ ~dryRun
  /\ rest' = [rest EXCEPT ![r] = @ \ {i}]

DeregisterImage(r, i) ==
  /\ call = "images" /\ Take(r, i)
  /\ gone' = gone \cup {i}
  /\ UNCHANGED <<input, pc, item, next, polls, sem, attachment, detached, answer>>

StopDBInstance(r, i) ==
  /\ call = "databases" /\ Take(r, i)
  /\ gone' = gone \cup {i}
  /\ UNCHANGED <<input, pc, item, next, polls, sem, attachment, detached, answer>>

RequestFails(r, i) ==
  /\ call \in {"images", "databases"} /\ Take(r, i)
  /\ errs' = errs \cup {i}
  /\ UNCHANGED <<input, pc, item, next, polls, sem, cloud, skipped, closed, returned>>

\* sem <- true
TakeSlot(r) ==
  /\ At(r, "slot")
  /\ Cardinality(sem) < Slots
  /\ sem' = sem \cup {r}
  /\ Goto(r, "next")
  /\ UNCHANGED <<input, rest, item, next, polls, cloud, answer>>

\* wg.Done() comes before <-sem, so the call may return with slots taken.
RegionEnds(r) ==
  /\ At(r, "next") /\ rest[r] = {}
  /\ call = "alerts" => next[r] >= Count(r)
  /\ Goto(r, IF call = "images" THEN "release" ELSE "done")
  /\ UNCHANGED <<input, loop, cloud, answer>>

\* Mutant of ReleaseSlot: the slot stays taken.
KeepSlot(r) ==
  /\ At(r, "release")
  /\ Goto(r, "done")
  /\ UNCHANGED <<input, loop, cloud, answer>>

ReleaseSlot(r) ==
  /\ At(r, "release")
  /\ sem' = sem \ {r}
  /\ Goto(r, "done")
  /\ UNCHANGED <<input, rest, item, next, polls, cloud, answer>>

-----------------------------------------------------------------------------
(* deleteVolumes *)

\* vol.State is what the listing said, however long ago that was.
NextVolume(r, i) ==
  /\ call = "volumes" /\ Take(r, i)
  /\ item' = [item EXCEPT ![r] = i]
  /\ Goto(r, IF i \in inUse THEN "detach" ELSE "delete")
  /\ UNCHANGED <<input, next, polls, sem, cloud, answer>>

DetachVolume(r) ==
  /\ At(r, "detach")
  /\ attachment[item[r]] = "attached"
  /\ attachment' = [attachment EXCEPT ![item[r]] = "detaching"]
  /\ detached' = detached \cup {item[r]}
  /\ polls' = [polls EXCEPT ![r] = 0]
  /\ Goto(r, "poll")
  /\ UNCHANGED <<input, rest, item, next, sem, gone, answer>>

Skip(r) ==
  /\ skipped' = skipped \cup {item[r]}
  /\ Goto(r, "next")
  /\ UNCHANGED <<input, loop, cloud, errs, closed, returned>>

\* AWS refuses to detach what is not attached.
DetachFails(r) == At(r, "detach") /\ Skip(r)

PollUnused(r) ==
  /\ At(r, "poll")
  /\ attachment[item[r]] = "available"
  /\ Goto(r, "delete")
  /\ UNCHANGED <<input, loop, cloud, answer>>

StillInUse(r) == At(r, "poll") /\ attachment[item[r]] # "available"

PollAgain(r) ==
  /\ StillInUse(r) /\ polls[r] < MaxPolls
  /\ polls' = [polls EXCEPT ![r] = @ + 1]
  /\ UNCHANGED <<input, pc, rest, item, next, sem, cloud, answer>>

PollTimesOut(r) == StillInUse(r) /\ polls[r] = MaxPolls /\ Skip(r)

\* Mutant of PollFails: the failure is taken for the end of the iteration.
PollFailsQuietly(r) ==
  /\ At(r, "poll")
  /\ Goto(r, "next")
  /\ UNCHANGED <<input, loop, cloud, answer>>

\* getDisk fails, or does not find the volume.
PollFails(r) == At(r, "poll") /\ Skip(r)

DeleteVolume(r) ==
  /\ At(r, "delete")
  /\ attachment[item[r]] = "available"
  /\ gone' = gone \cup {item[r]}
  /\ Goto(r, "next")
  /\ UNCHANGED <<input, loop, attachment, detached, answer>>

\* Mutant of DeleteVolumeFails: the error is only logged.
DeleteVolumeFailsQuietly(r) ==
  /\ At(r, "delete")
  /\ Goto(r, "next")
  /\ UNCHANGED <<input, loop, cloud, answer>>

\* Also for a volume that somebody has attached since it was listed.
DeleteVolumeFails(r) ==
  /\ At(r, "delete")
  /\ errs' = errs \cup {item[r]}
  /\ Goto(r, "next")
  /\ UNCHANGED <<input, loop, cloud, skipped, closed, returned>>

\* The cloud completes a detachment, or somebody attaches a volume.
DetachmentCompletes(v) ==
  /\ v \in Selected /\ attachment[v] = "detaching"
  /\ attachment' = [attachment EXCEPT ![v] = "available"]
  /\ UNCHANGED <<input, pc, loop, detached, gone, answer>>

Attach(v) ==
  /\ call = "volumes" /\ ~returned
  /\ v \in Selected /\ attachment[v] = "available" /\ v \notin gone
  /\ attachment' = [attachment EXCEPT ![v] = "attached"]
  /\ UNCHANGED <<input, pc, loop, detached, gone, answer>>

-----------------------------------------------------------------------------
(* deleteAlerts.  alertNames has the names of the alerts of all regions;   *)
(* i and endIndex count the alerts of the region.                          *)

endIndex(r) ==
  IF next[r] + AwsBulkOperationSize > Count(r) THEN Count(r)
                                               ELSE next[r] + AwsBulkOperationSize

\* alertNames[i:endIndex]
CurrentAlerts(r) == {listing[k] : k \in (next[r] + 1) .. endIndex(r)}

\* The alarms of the region that have one of these names.
Addressed(r) ==
  {a \in Resources : RegionOf[a] = r /\ \E b \in CurrentAlerts(r) : NameOf[b] = NameOf[a]}

NextChunk(r) ==
  /\ call = "alerts" /\ At(r, "next") /\ next[r] < Count(r)
  /\ next' = [next EXCEPT ![r] = @ + AwsBulkOperationSize]

DeleteAlarms(r) ==
  /\ NextChunk(r)
  /\ gone' = IF dryRun THEN gone ELSE gone \cup Addressed(r)
  /\ UNCHANGED <<input, pc, rest, item, polls, sem, attachment, detached, answer>>

\* "In the event of an error, no alarms are deleted" (the SDK on DeleteAlarms)
DeleteAlarmsFails(r) ==
  /\ ~dryRun /\ NextChunk(r)
  /\ errs' = errs \cup CurrentAlerts(r)
  /\ UNCHANGED <<input, pc, rest, item, polls, sem, cloud, skipped, closed, returned>>

-----------------------------------------------------------------------------
(* The caller *)

CloseErrors ==
  /\ ~closed
  /\ \A r \in Regions : pc[r] \in {"release", "done"}
  /\ closed' = TRUE
  /\ UNCHANGED <<input, pc, loop, cloud, skipped, errs, returned>>

Return ==
  /\ closed /\ ~returned
  /\ returned' = TRUE
  /\ UNCHANGED <<input, pc, loop, cloud, skipped, errs, closed>>

-----------------------------------------------------------------------------
Region(r) ==
  \/ TakeSlot(r) \/ SkipOnDryRun(r) \/ RegionEnds(r) \/ ReleaseSlot(r)
  \/ \E i \in Resources :
       DeregisterImage(r, i) \/ StopDBInstance(r, i) \/ RequestFails(r, i) \/ NextVolume(r, i)
  \/ DetachVolume(r) \/ DetachFails(r)
  \/ PollUnused(r) \/ PollAgain(r) \/ PollTimesOut(r) \/ PollFails(r)
  \/ DeleteVolume(r) \/ DeleteVolumeFails(r)
  \/ DeleteAlarms(r) \/ DeleteAlarmsFails(r)

Caller == CloseErrors \/ Return

Next ==
  \/ Caller
  \/ \E r \in Regions : Region(r)
  \/ \E v \in Resources : DetachmentCompletes(v) \/ Attach(v)

Spec == Init /\ [][Next]_vars

\* The scheduler runs every goroutine, and each call of the SDK ends.  That a
\* detachment ever completes is not assumed.
FairSpec == Spec /\ WF_vars(Caller) /\ \A r \in Regions : WF_vars(Region(r))

-----------------------------------------------------------------------------
TypeOK ==
  /\ call \in {"volumes", "images", "alerts", "databases"}
  /\ dryRun \in BOOLEAN
  /\ listing \in Listings
  /\ inUse \subseteq Selected
  /\ attachment \in [Selected -> {"attached", "detaching", "available"}]
  /\ pc \in [Regions -> {"slot", "next", "detach", "poll", "delete", "release", "done"}]
  /\ rest \in [Regions -> SUBSET Selected]
  /\ item \in [Regions -> Selected \cup {None}]
  /\ next \in [Regions -> Nat]
  /\ polls \in [Regions -> 0 .. MaxPolls]
  /\ sem \subseteq Regions
  /\ detached \subseteq Selected /\ gone \subseteq Resources
  /\ skipped \subseteq Selected /\ errs \subseteq Selected
  /\ closed \in BOOLEAN /\ returned \in BOOLEAN

\* A disk is taken off its instance only if it was listed as in use, and then
\* it is deleted, or in the log as skipped, or its error is returned: the loop
\* loses none of those it has detached, whatever fails or changes meanwhile.
DetachedIsAccountedFor ==
  \A v \in detached :
    /\ v \in inUse
    /\ \/ v \in gone \cup skipped \cup errs
       \/ \E r \in Regions : pc[r] \in {"poll", "delete"} /\ item[r] = v

\* What a return without errors means, call by call.  deleteVolumes may have
\* skipped volumes that were listed as in use, no others; deleteAlerts has
\* deleted the selected alarms, and only these, if they are of one region.
CleanReturnAccounts ==
  returned /\ errs = {} =>
    \/ dryRun /\ call # "databases" /\ gone = {} /\ detached = {}
    \/ call = "volumes" /\ Selected = gone \cup skipped /\ skipped \subseteq inUse \ gone
    \/ call \in {"images", "databases"} /\ gone = Selected
    \/ call = "alerts" /\ \A r \in Regions : InRegion(r) = Selected => gone = Selected

CallName ==
  [volumes |-> "DeleteDisks", images |-> "DeleteImages", alerts |-> "DeleteAlerts",
   databases |-> "StopDatabases"]

\* An alarm goes down with a selected one of its name, if others of its region
\* are selected: a request has the names of the alarms of all regions.
Reach ==
  Selected \cup
    IF call # "alerts" THEN {}
    ELSE {a \in Resources : InRegion(RegionOf[a]) # {} /\ \E b \in Selected : NameOf[b] = NameOf[a]}

Abstract ==
  INSTANCE ProviderCall WITH
    cloud    <- "AWS",
    call     <- CallName[call],
    selected <- Selected,
    reach    <- Reach,
    changed  <- gone \cup detached,
    failing  <- errs # {}

\* To the action that waits for it, each of the four calls behaves as
\* ProviderCall says: on a dry run it changes nothing unless it stops
\* databases, and it never goes beyond its reach.
ImplementsProviderCall == Abstract!Spec

\* The call returns: the polling gives up, and every slot comes free again.
CallEnds == <>returned

\* Nothing is deleted that was not selected.
OnlySelectedDeleted == gone \subseteq Selected
=============================================================================
