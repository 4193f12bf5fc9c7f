---------------------------- MODULE AwsInstances ----------------------------
(***************************************************************************)
(* aws.go: TerminateInstances and StopInstances.  One goroutine per region *)
(* takes the region's instances in chunks of AwsBulkOperationSize.  Before *)
(* it stops a chunk it suspends the auto scaling groups of its instances,  *)
(* which would otherwise terminate what is stopped; spot instances cannot  *)
(* be stopped and are terminated.                                          *)
(*                                                                         *)
(* The errors go over an unbuffered errChan that is closed after all       *)
(* goroutines have ended: a failing call, the send of its error and the    *)
(* receive are one step here.                                              *)
(***************************************************************************)
EXTENDS Integers, FiniteSets

CONSTANTS
  Instances,
  RegionOf,              \* per instance, its region
  GroupOf,               \* per instance, its auto scaling group or NoGroup
  NoGroup,
  Spot,                  \* the instances with Ephemeral set
  AwsBulkOperationSize

ASSUME AwsInstancesAssumption ==
  /\ IsFiniteSet(Instances)
  /\ Spot \subseteq Instances
  /\ AwsBulkOperationSize \in Nat \ {0}

VARIABLES
  call,         \* terminate or stop
  pc,           \* per region, where its goroutine is
  rest,         \* per region, the instances of the rounds to come
  chunk,        \* per region, instanceIdsChunk or instanceChunk
  instanceIDs,  \* per region, what StopInstances still means to stop of it
  asgInstances, \* per region, the auto scaling instances to suspend
  suspended,    \* the auto scaling groups that are suspended
  stopped, terminated,
  skipped,      \* the instances passed over with a line in the log only
  errs,         \* the errors received: the chunk and the call that failed
  closed,       \* errChan is closed
  returned

round  == <<rest, chunk, instanceIDs, asgInstances>>
cloud  == <<suspended, stopped, terminated>>
answer == <<errs, closed, returned>>
vars   == <<call, pc, round, cloud, skipped, answer>>

Regions     == {RegionOf[i] : i \in Instances}
InRegion(r) == {i \in Instances : RegionOf[i] = r}
InGroup     == {i \in Instances : GroupOf[i] # NoGroup}

Init ==
  /\ call \in {"terminate", "stop"}
  /\ pc = [r \in Regions |-> "round"]
  /\ rest = [r \in Regions |-> InRegion(r)]
  /\ chunk = [r \in Regions |-> {}]
  /\ instanceIDs = [r \in Regions |-> {}]
  /\ asgInstances = [r \in Regions |-> {}]
  /\ suspended = {} /\ stopped = {} /\ terminated = {} /\ skipped = {}
  /\ errs = {} /\ closed = FALSE /\ returned = FALSE

At(r, place)   == pc[r] = place
Goto(r, place) == pc' = [pc EXCEPT ![r] = place]

Fails(r, what) == errs' = errs \cup {<<chunk[r], what>>}

-----------------------------------------------------------------------------
(* The rounds of a region.  The order of its instances is any: they come   *)
(* from the collection in the order in which the goroutines answered.      *)

FirstCall == [terminate |-> "terminate", stop |-> "describe"]

\* arrayEnd - i
ChunkSize(r) ==
  IF AwsBulkOperationSize > Cardinality(rest[r]) THEN Cardinality(rest[r])
                                                ELSE AwsBulkOperationSize

StartRound(r, c) ==
  /\ chunk' = [chunk EXCEPT ![r] = c]
  /\ instanceIDs' = [instanceIDs EXCEPT ![r] = c]
  /\ Goto(r, FirstCall[call])
  /\ UNCHANGED <<call, asgInstances, cloud, skipped, answer>>

\* Mutant of NextRound: one instance between two chunks is left out.
NextRoundOffByOne(r) ==
  /\ At(r, "round") /\ rest[r] # {}
  /\ \E c \in SUBSET rest[r] :
       /\ Cardinality(c) = ChunkSize(r)
       /\ StartRound(r, c)
       /\ \E i \in rest[r] : rest' = [rest EXCEPT ![r] = @ \ (c \cup {i})]

\* Mutant of NextRound: i is not advanced.
NextRoundForever(r) ==
  /\ At(r, "round") /\ rest[r] # {}
  /\ \E c \in SUBSET rest[r] :
       /\ Cardinality(c) = ChunkSize(r)
       /\ StartRound(r, c)
       /\ UNCHANGED rest

NextRound(r) ==
  /\ At(r, "round") /\ rest[r] # {}
  /\ \E c \in SUBSET rest[r] :
       /\ Cardinality(c) = ChunkSize(r)
       /\ StartRound(r, c)
       /\ rest' = [rest EXCEPT ![r] = @ \ c]

RoundsEnd(r) ==
  /\ At(r, "round") /\ rest[r] = {}
  /\ Goto(r, "done")
  /\ UNCHANGED <<call, round, cloud, skipped, answer>>

-----------------------------------------------------------------------------
(* TerminateInstances *)

Terminate(r) ==
  /\ At(r, "terminate")
  /\ terminated' = terminated \cup chunk[r]
  /\ Goto(r, "wait")
  /\ UNCHANGED <<call, round, suspended, stopped, skipped, answer>>

\* Some of the chunk may be terminated; the code goes on to wait for all.
TerminateFails(r) ==
  /\ At(r, "terminate")
  /\ \E some \in SUBSET chunk[r] : terminated' = terminated \cup some
  /\ Fails(r, "terminate")
  /\ Goto(r, "wait")
  /\ UNCHANGED <<call, round, suspended, stopped, skipped, closed, returned>>

\* WaitUntilInstanceTerminated
WaitUntilTerminated(r) ==
  /\ At(r, "wait")
  /\ chunk[r] \subseteq terminated
  /\ Goto(r, "round")
  /\ UNCHANGED <<call, round, cloud, skipped, answer>>

WaitFails(r) ==
  /\ At(r, "wait")
  /\ Fails(r, "wait")
  /\ Goto(r, "round")
  /\ UNCHANGED <<call, round, cloud, skipped, closed, returned>>

-----------------------------------------------------------------------------
(* StopInstances *)

DescribeAutoScalingInstances(r) ==
  /\ At(r, "describe")
  /\ asgInstances' = [asgInstances EXCEPT ![r] = chunk[r] \cap InGroup]
  /\ Goto(r, "suspend")
  /\ UNCHANGED <<call, rest, chunk, instanceIDs, cloud, skipped, answer>>

\* "Failed to fetch the ASG instances": the goroutine returns, and with this
\* chunk it leaves the rest of the region.
DescribeFails(r) ==
  /\ At(r, "describe")
  /\ skipped' = skipped \cup chunk[r] \cup rest[r]
  /\ Goto(r, "done")
  /\ UNCHANGED <<call, round, cloud, answer>>

SuspendProcesses(r, i) ==
  /\ At(r, "suspend")
  /\ i \in asgInstances[r]
  /\ suspended' = suspended \cup {GroupOf[i]}
  /\ asgInstances' = [asgInstances EXCEPT ![r] = @ \ {i}]
  /\ UNCHANGED <<call, pc, rest, chunk, instanceIDs, stopped, terminated, skipped, answer>>

\* Mutant of SuspendFails: the instance is not taken out of instanceIDs.
SuspendFailsKeeps(r, i) ==
  /\ At(r, "suspend")
  /\ i \in asgInstances[r]
  /\ asgInstances' = [asgInstances EXCEPT ![r] = @ \ {i}]
  /\ UNCHANGED <<call, pc, rest, chunk, instanceIDs, cloud, skipped, answer>>

\* "Do not stop the instance if the ASG cannot be suspended"
SuspendFails(r, i) ==
  /\ At(r, "suspend")
  /\ i \in asgInstances[r]
  /\ instanceIDs' = [instanceIDs EXCEPT ![r] = @ \ {i}]
  /\ skipped' = skipped \cup {i}
  /\ asgInstances' = [asgInstances EXCEPT ![r] = @ \ {i}]
  /\ UNCHANGED <<call, pc, rest, chunk, cloud, answer>>

NothingToStop(r) ==
  /\ At(r, "suspend")
  /\ asgInstances[r] = {} /\ instanceIDs[r] = {}
  /\ Goto(r, "round")
  /\ UNCHANGED <<call, round, cloud, skipped, answer>>

ReadyToStop(r) == At(r, "suspend") /\ asgInstances[r] = {} /\ instanceIDs[r] # {}

\* spotInstanceIDs, and what is left of instanceIDs without them
SpotIDs(r)     == instanceIDs[r] \cap Spot
OnDemandIDs(r) == instanceIDs[r] \ Spot

\* The SDK rejects a request without InstanceIds.
StopInstances(r) ==
  /\ ReadyToStop(r)
  /\ OnDemandIDs(r) # {}
  /\ stopped' = stopped \cup OnDemandIDs(r)
  /\ Goto(r, "spots")
  /\ UNCHANGED <<call, round, suspended, terminated, skipped, answer>>

StopInstancesFails(r) ==
  /\ ReadyToStop(r)
  /\ \E some \in SUBSET OnDemandIDs(r) : stopped' = stopped \cup some
  /\ Fails(r, IF OnDemandIDs(r) = {} THEN "stop nothing" ELSE "stop")
  /\ Goto(r, "spots")
  /\ UNCHANGED <<call, round, suspended, terminated, skipped, closed, returned>>

\* "There are not spot instances to terminate", or the request succeeds.
TerminateSpots(r) ==
  /\ At(r, "spots")
  /\ terminated' = terminated \cup SpotIDs(r)
  /\ Goto(r, "round")
  /\ UNCHANGED <<call, round, suspended, stopped, skipped, answer>>

TerminateSpotsFails(r) ==
  /\ At(r, "spots")
  /\ SpotIDs(r) # {}
  /\ \E some \in SUBSET SpotIDs(r) : terminated' = terminated \cup some
  /\ Fails(r, "terminate")
  /\ Goto(r, "round")
  /\ UNCHANGED <<call, round, suspended, stopped, skipped, closed, returned>>

-----------------------------------------------------------------------------
(* The caller *)

\* Mutant of CloseErrors: errChan is closed without wg.Wait().
CloseErrorsWithoutWait ==
  /\ ~closed
  /\ closed' = TRUE
  /\ UNCHANGED <<call, pc, round, cloud, skipped, errs, returned>>

CloseErrors ==
  /\ ~closed
  /\ \A r \in Regions : pc[r] = "done"
  /\ closed' = TRUE
  /\ UNCHANGED <<call, pc, round, cloud, skipped, errs, returned>>

Return ==
  /\ closed /\ ~returned
  /\ returned' = TRUE
  /\ UNCHANGED <<call, pc, round, cloud, skipped, errs, closed>>

-----------------------------------------------------------------------------
Region(r) ==
  \/ NextRound(r) \/ RoundsEnd(r)
  \/ Terminate(r) \/ TerminateFails(r) \/ WaitUntilTerminated(r) \/ WaitFails(r)
  \/ DescribeAutoScalingInstances(r) \/ DescribeFails(r)
  \/ \E i \in Instances : SuspendProcesses(r, i) \/ SuspendFails(r, i)
  \/ NothingToStop(r) \/ StopInstances(r) \/ StopInstancesFails(r)
  \/ TerminateSpots(r) \/ TerminateSpotsFails(r)

Caller == CloseErrors \/ Return

Next == Caller \/ \E r \in Regions : Region(r)

Spec == Init /\ [][Next]_vars

\* The scheduler runs every goroutine; that each call of the SDK ends is
\* assumed, WaitUntilInstanceTerminated with a timeout.
FairSpec == Spec /\ WF_vars(Caller) /\ \A r \in Regions : WF_vars(Region(r))

-----------------------------------------------------------------------------
TypeOK ==
  /\ call \in {"terminate", "stop"}
  /\ pc \in [Regions -> {"round", "terminate", "wait", "describe", "suspend", "spots", "done"}]
  /\ rest \in [Regions -> SUBSET Instances]
  /\ chunk \in [Regions -> SUBSET Instances]
  /\ instanceIDs \in [Regions -> SUBSET Instances]
  /\ asgInstances \in [Regions -> SUBSET InGroup]
  /\ suspended \subseteq {GroupOf[i] : i \in InGroup}
  /\ stopped \subseteq Instances /\ terminated \subseteq Instances
  /\ skipped \subseteq Instances
  /\ errs \subseteq (SUBSET Instances) \X {"terminate", "wait", "stop", "stop nothing"}
  /\ closed \in BOOLEAN /\ returned \in BOOLEAN

\* StopInstances takes no instance of an auto scaling group out of service
\* before the group is suspended, as it would replace the instance.
GroupSuspendedFirst ==
  call = "stop" =>
    \A i \in (stopped \cup terminated) \cap InGroup : GroupOf[i] \in suspended

\* A return without errors accounts for every instance: it is terminated, or
\* stopped, or a spot instance that is terminated, or the log names it; and
\* StopInstances never does two of these things to one instance.
CleanReturnAccounts ==
  returned /\ errs = {} =>
    \/ call = "terminate" /\ terminated = Instances
    \/ /\ call = "stop"
       /\ stopped \cup terminated \cup skipped = Instances
       /\ terminated \subseteq Spot /\ stopped \cap Spot = {}
       /\ skipped \cap (stopped \cup terminated) = {}

\* The two calls do not look at ctx.DryRun.
CallName == [terminate |-> "TerminateInstances", stop |-> "StopInstances"]

Abstract ==
  INSTANCE ProviderCall WITH
    cloud    <- "AWS",
    call     <- CallName[call],
    dryRun   <- TRUE,
    selected <- Instances,
    reach    <- Instances,
    changed  <- stopped \cup terminated,
    failing  <- errs # {}

\* To the action that waits for it, each of the two calls behaves as
\* ProviderCall says: TerminateInstances has terminated every instance when it
\* answers without an error, StopInstances may have passed some over, and
\* nothing changes any more after the answer.
ImplementsProviderCall == Abstract!Spec

\* The call returns, however many of its requests fail.
CallEnds == <>returned
=============================================================================
