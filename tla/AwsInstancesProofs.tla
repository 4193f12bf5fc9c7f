------------------------- MODULE AwsInstancesProofs -------------------------
(***************************************************************************)
(* The invariants of AwsInstances for all instances, groups and chunk      *)
(* sizes.  Pending says, at each place of a region's goroutine, which      *)
(* instances it has still to handle; an instance is pending or handled,    *)
(* and a stop request only meets groups that are suspended.                *)
(***************************************************************************)
EXTENDS AwsInstances, FiniteSetTheorems, TLAPS

Handled == stopped \cup terminated \cup skipped

Pending(r) ==
  CASE pc[r] \in {"terminate", "describe"} -> rest[r] \cup chunk[r]
    [] pc[r] = "suspend"                   -> rest[r] \cup instanceIDs[r]
    [] pc[r] = "spots"                     -> rest[r] \cup SpotIDs(r)
    [] pc[r] \in {"round", "wait"}         -> rest[r]
    [] pc[r] = "done"                      -> {}

\* The instances of a round are those of its region.
RoundApart(r) ==
  /\ rest[r] \subseteq InRegion(r)
  /\ chunk[r] \subseteq InRegion(r)
  /\ instanceIDs[r] \subseteq chunk[r]
  /\ asgInstances[r] \subseteq instanceIDs[r]
  /\ pc[r] # "suspend" => asgInstances[r] = {}
  /\ pc[r] \in {"terminate", "describe"} => instanceIDs[r] = chunk[r]
  /\ pc[r] \notin {"round", "done"} => rest[r] \cap chunk[r] = {}

RoundsApart == \A r \in Regions : RoundApart(r)

\* What StopInstances may take out of service has its group suspended, or
\* the group is still to be suspended in this round.
GroupsSuspended ==
  call = "stop" =>
    /\ \A r \in Regions :
         /\ pc[r] \in {"round", "describe", "suspend", "spots", "done"}
         /\ pc[r] = "suspend" =>
              \A i \in (instanceIDs[r] \cap InGroup) \ asgInstances[r] : GroupOf[i] \in suspended
         /\ pc[r] = "spots" =>
              \A i \in instanceIDs[r] \cap InGroup : GroupOf[i] \in suspended
    /\ GroupSuspendedFirst

ByKind ==
  /\ call = "stop" => terminated \subseteq Spot /\ stopped \cap Spot = {}
  /\ call = "terminate" => /\ stopped = {} /\ skipped = {}
                           /\ \A r \in Regions : pc[r] \in {"round", "terminate", "wait", "done"}

\* No error was sent: each instance of a region is pending or handled.
Accounted ==
  errs = {} =>
    /\ \A r \in Regions : InRegion(r) \subseteq Pending(r) \cup Handled
    /\ \A r \in Regions : Pending(r) \cap Handled = {}
    /\ skipped \cap (stopped \cup terminated) = {}

ClosedAtEnd ==
  /\ returned => closed
  /\ closed => \A r \in Regions : pc[r] = "done"

IInv ==
  /\ TypeOK
  /\ RoundsApart
  /\ GroupsSuspended
  /\ ByKind
  /\ Accounted
  /\ ClosedAtEnd

-----------------------------------------------------------------------------
\* Where a round starts, for each of the two calls.
LEMMA FirstCalls == FirstCall["terminate"] = "terminate" /\ FirstCall["stop"] = "describe"
BY DEF FirstCall

\* The error of a failing call keeps the type of errs.
LEMMA FailureTyped ==
  ASSUME TypeOK, NEW r \in Regions, NEW what \in {"terminate", "wait", "stop", "stop nothing"},
         Fails(r, what)
  PROVE  errs' \subseteq (SUBSET Instances) \X {"terminate", "wait", "stop", "stop nothing"}
<1>1. chunk[r] \in SUBSET Instances
  BY DEF TypeOK
<1>2. <<chunk[r], what>> \in (SUBSET Instances) \X {"terminate", "wait", "stop", "stop nothing"}
  BY <1>1
<1> QED
  BY <1>2 DEF TypeOK, Fails

LEMMA InitInvariant == Init => IInv
<1> SUFFICES ASSUME Init PROVE IInv
  OBVIOUS
<1>1. TypeOK
  BY DEF Init, TypeOK, InRegion
<1>2. RoundsApart /\ ByKind /\ ClosedAtEnd
  BY DEF Init, RoundsApart, RoundApart, ByKind, ClosedAtEnd
<1>3. GroupsSuspended
  BY DEF Init, GroupsSuspended, GroupSuspendedFirst
<1>4. Accounted
  BY DEF Init, Accounted, Pending, Handled
<1> QED
  BY <1>1, <1>2, <1>3, <1>4 DEF IInv

-----------------------------------------------------------------------------
(* Every action keeps the invariant: one lemma for each.                   *)

LEMMA NextRoundStep ==
  ASSUME IInv, NEW r \in Regions, NextRound(r)
  PROVE  IInv'
<1>1. PICK c \in SUBSET rest[r] : StartRound(r, c) /\ rest' = [rest EXCEPT ![r] = @ \ c]
  BY DEF NextRound
<1>2. pc[r] = "round" /\ pc' = [pc EXCEPT ![r] = IF call = "stop" THEN "describe" ELSE "terminate"]
  BY <1>1, FirstCalls DEF NextRound, At, StartRound, Goto, IInv, TypeOK
<1>3. /\ chunk' = [chunk EXCEPT ![r] = c]
      /\ instanceIDs' = [instanceIDs EXCEPT ![r] = c]
      /\ UNCHANGED <<call, asgInstances, suspended, stopped, terminated, skipped, errs, closed, returned>>
  BY <1>1 DEF StartRound, cloud, answer
<1>4. TypeOK'
  BY <1>1, <1>2, <1>3 DEF IInv, TypeOK
<1>5. RoundsApart'
  <2> SUFFICES ASSUME NEW q \in Regions PROVE RoundApart(q)'
    BY DEF RoundsApart
  <2> RoundApart(q) /\ RoundApart(r)
    BY DEF IInv, RoundsApart
  <2> QED
    BY <1>1, <1>2, <1>3 DEF IInv, TypeOK, RoundApart
<1>6. GroupsSuspended'
  BY <1>2, <1>3 DEF IInv, GroupsSuspended, GroupSuspendedFirst
<1>7. ByKind'
  BY <1>2, <1>3 DEF IInv, ByKind
<1>8. Accounted'
  <2> SUFFICES ASSUME NEW q \in Regions PROVE Pending(q)' = Pending(q)
    BY <1>3 DEF IInv, Accounted, Handled
  <2> QED
    BY <1>1, <1>2, <1>3 DEF IInv, TypeOK, Pending, SpotIDs
<1>9. ClosedAtEnd'
  BY <1>2, <1>3 DEF IInv, ClosedAtEnd
<1> QED
  BY <1>4, <1>5, <1>6, <1>7, <1>8, <1>9 DEF IInv

LEMMA RoundsEndStep ==
  ASSUME IInv, NEW r \in Regions, RoundsEnd(r)
  PROVE  IInv'
<1> USE DEF RoundsEnd, At, Goto, round, cloud, answer
<1>1. TypeOK'
  BY DEF IInv, TypeOK
<1>2. RoundsApart'
  <2> SUFFICES ASSUME NEW q \in Regions PROVE RoundApart(q)'
    BY DEF RoundsApart
  <2> RoundApart(q) /\ RoundApart(r)
    BY DEF IInv, RoundsApart
  <2> QED
    BY DEF RoundApart
<1>3. GroupsSuspended'
  BY DEF IInv, GroupsSuspended, GroupSuspendedFirst
<1>4. ByKind'
  BY DEF IInv, ByKind
<1>5. Accounted'
  BY DEF IInv, TypeOK, Accounted, Pending, SpotIDs, Handled
<1>6. ClosedAtEnd'
  BY DEF IInv, ClosedAtEnd
<1> QED
  BY <1>1, <1>2, <1>3, <1>4, <1>5, <1>6 DEF IInv

LEMMA TerminateStep ==
  ASSUME IInv, NEW r \in Regions, Terminate(r)
  PROVE  IInv'
<1> USE DEF Terminate, At, Goto, round, answer
<1>1. TypeOK'
  BY DEF IInv, TypeOK
<1>2. RoundsApart'
  <2> SUFFICES ASSUME NEW q \in Regions PROVE RoundApart(q)'
    BY DEF RoundsApart
  <2> RoundApart(q) /\ RoundApart(r)
    BY DEF IInv, RoundsApart
  <2> QED
    BY DEF RoundApart
<1>3. GroupsSuspended'
  BY DEF IInv, GroupsSuspended
<1>4. ByKind'
  BY DEF IInv, GroupsSuspended, ByKind
<1>5. Accounted'
  BY DEF IInv, TypeOK, RoundsApart, RoundApart, Accounted, Pending, SpotIDs, Handled, InRegion
<1>6. ClosedAtEnd'
  BY DEF IInv, ClosedAtEnd
<1> QED
  BY <1>1, <1>2, <1>3, <1>4, <1>5, <1>6 DEF IInv

LEMMA TerminateFailsStep ==
  ASSUME IInv, NEW r \in Regions, TerminateFails(r)
  PROVE  IInv'
<1> USE DEF TerminateFails, At, Goto, Fails, round
<1>1. TypeOK'
  BY FailureTyped DEF IInv, TypeOK
<1>2. RoundsApart'
  <2> SUFFICES ASSUME NEW q \in Regions PROVE RoundApart(q)'
    BY DEF RoundsApart
  <2> RoundApart(q) /\ RoundApart(r)
    BY DEF IInv, RoundsApart
  <2> QED
    BY DEF RoundApart
<1>3. GroupsSuspended'
  BY DEF IInv, GroupsSuspended
<1>4. ByKind'
  BY DEF IInv, GroupsSuspended, ByKind
<1>5. Accounted'
  BY DEF Accounted
<1>6. ClosedAtEnd'
  BY DEF IInv, ClosedAtEnd
<1> QED
  BY <1>1, <1>2, <1>3, <1>4, <1>5, <1>6 DEF IInv

LEMMA WaitUntilTerminatedStep ==
  ASSUME IInv, NEW r \in Regions, WaitUntilTerminated(r)
  PROVE  IInv'
<1> USE DEF WaitUntilTerminated, At, Goto, round, cloud, answer
<1>1. TypeOK'
  BY DEF IInv, TypeOK
<1>2. RoundsApart'
  <2> SUFFICES ASSUME NEW q \in Regions PROVE RoundApart(q)'
    BY DEF RoundsApart
  <2> RoundApart(q) /\ RoundApart(r)
    BY DEF IInv, RoundsApart
  <2> QED
    BY DEF RoundApart
<1>3. GroupsSuspended'
  BY DEF IInv, GroupsSuspended
<1>4. ByKind'
  BY DEF IInv, ByKind
<1>5. Accounted'
  BY DEF IInv, TypeOK, Accounted, Pending, SpotIDs, Handled
<1>6. ClosedAtEnd'
  BY DEF IInv, ClosedAtEnd
<1> QED
  BY <1>1, <1>2, <1>3, <1>4, <1>5, <1>6 DEF IInv

LEMMA WaitFailsStep ==
  ASSUME IInv, NEW r \in Regions, WaitFails(r)
  PROVE  IInv'
<1> USE DEF WaitFails, At, Goto, Fails, round, cloud
<1>1. TypeOK'
  BY FailureTyped DEF IInv, TypeOK
<1>2. RoundsApart'
  <2> SUFFICES ASSUME NEW q \in Regions PROVE RoundApart(q)'
    BY DEF RoundsApart
  <2> RoundApart(q) /\ RoundApart(r)
    BY DEF IInv, RoundsApart
  <2> QED
    BY DEF RoundApart
<1>3. GroupsSuspended'
  BY DEF IInv, GroupsSuspended
<1>4. ByKind'
  BY DEF IInv, ByKind
<1>5. Accounted'
  BY DEF Accounted
<1>6. ClosedAtEnd'
  BY DEF IInv, ClosedAtEnd
<1> QED
  BY <1>1, <1>2, <1>3, <1>4, <1>5, <1>6 DEF IInv

LEMMA DescribeAutoScalingInstancesStep ==
  ASSUME IInv, NEW r \in Regions, DescribeAutoScalingInstances(r)
  PROVE  IInv'
<1> USE DEF DescribeAutoScalingInstances, At, Goto, cloud, answer
<1>1. TypeOK'
  BY DEF IInv, TypeOK
<1>2. RoundsApart'
  <2> SUFFICES ASSUME NEW q \in Regions PROVE RoundApart(q)'
    BY DEF RoundsApart
  <2> RoundApart(q) /\ RoundApart(r)
    BY DEF IInv, RoundsApart
  <2> QED
    BY DEF IInv, TypeOK, RoundApart
<1>3. GroupsSuspended'
  BY DEF IInv, TypeOK, RoundsApart, RoundApart, GroupsSuspended, GroupSuspendedFirst
<1>4. ByKind'
  BY DEF IInv, ByKind
<1>5. Accounted'
  BY DEF IInv, TypeOK, RoundsApart, RoundApart, Accounted, Pending, SpotIDs, Handled
<1>6. ClosedAtEnd'
  BY DEF IInv, ClosedAtEnd
<1> QED
  BY <1>1, <1>2, <1>3, <1>4, <1>5, <1>6 DEF IInv

LEMMA DescribeFailsStep ==
  ASSUME IInv, NEW r \in Regions, DescribeFails(r)
  PROVE  IInv'
<1> USE DEF DescribeFails, At, Goto, round, cloud, answer
<1>1. TypeOK'
  BY DEF IInv, TypeOK
<1>2. RoundsApart'
  <2> SUFFICES ASSUME NEW q \in Regions PROVE RoundApart(q)'
    BY DEF RoundsApart
  <2> RoundApart(q) /\ RoundApart(r)
    BY DEF IInv, RoundsApart
  <2> QED
    BY DEF RoundApart
<1>3. GroupsSuspended'
  BY DEF IInv, GroupsSuspended, GroupSuspendedFirst
<1>4. ByKind'
  BY DEF IInv, ByKind
<1>5. Accounted'
  BY DEF IInv, TypeOK, RoundsApart, RoundApart, Accounted, Pending, SpotIDs, Handled, InRegion
<1>6. ClosedAtEnd'
  BY DEF IInv, ClosedAtEnd
<1> QED
  BY <1>1, <1>2, <1>3, <1>4, <1>5, <1>6 DEF IInv

LEMMA NothingToStopStep ==
  ASSUME IInv, NEW r \in Regions, NothingToStop(r)
  PROVE  IInv'
<1> USE DEF NothingToStop, At, Goto, round, cloud, answer
<1>1. TypeOK'
  BY DEF IInv, TypeOK
<1>2. RoundsApart'
  <2> SUFFICES ASSUME NEW q \in Regions PROVE RoundApart(q)'
    BY DEF RoundsApart
  <2> RoundApart(q) /\ RoundApart(r)
    BY DEF IInv, RoundsApart
  <2> QED
    BY DEF RoundApart
<1>3. GroupsSuspended'
  BY DEF IInv, GroupsSuspended, GroupSuspendedFirst
<1>4. ByKind'
  BY DEF IInv, ByKind
<1>5. Accounted'
  BY DEF IInv, TypeOK, Accounted, Pending, SpotIDs, Handled
<1>6. ClosedAtEnd'
  BY DEF IInv, ClosedAtEnd
<1> QED
  BY <1>1, <1>2, <1>3, <1>4, <1>5, <1>6 DEF IInv

LEMMA StopInstancesStep ==
  ASSUME IInv, NEW r \in Regions, StopInstances(r)
  PROVE  IInv'
<1> USE DEF StopInstances, At, Goto, ReadyToStop, OnDemandIDs, round, answer
<1>1. TypeOK'
  BY DEF IInv, TypeOK
<1>2. RoundsApart'
  <2> SUFFICES ASSUME NEW q \in Regions PROVE RoundApart(q)'
    BY DEF RoundsApart
  <2> RoundApart(q) /\ RoundApart(r)
    BY DEF IInv, RoundsApart
  <2> QED
    BY DEF RoundApart
<1>3. GroupsSuspended'
  BY DEF IInv, GroupsSuspended, GroupSuspendedFirst
<1>4. ByKind'
  BY DEF IInv, ByKind
<1>5. Accounted'
  BY DEF IInv, TypeOK, RoundsApart, RoundApart, Accounted, Pending, SpotIDs, Handled, InRegion
<1>6. ClosedAtEnd'
  BY DEF IInv, ClosedAtEnd
<1> QED
  BY <1>1, <1>2, <1>3, <1>4, <1>5, <1>6 DEF IInv

LEMMA StopInstancesFailsStep ==
  ASSUME IInv, NEW r \in Regions, StopInstancesFails(r)
  PROVE  IInv'
<1> USE DEF StopInstancesFails, At, Goto, ReadyToStop, Fails, OnDemandIDs, round
<1>1. TypeOK'
  BY FailureTyped DEF IInv, TypeOK
<1>2. RoundsApart'
  <2> SUFFICES ASSUME NEW q \in Regions PROVE RoundApart(q)'
    BY DEF RoundsApart
  <2> RoundApart(q) /\ RoundApart(r)
    BY DEF IInv, RoundsApart
  <2> QED
    BY DEF IInv, TypeOK, RoundApart
<1>3. GroupsSuspended'
  BY DEF IInv, TypeOK, GroupsSuspended, GroupSuspendedFirst
<1>4. ByKind'
  BY DEF IInv, ByKind
<1>5. Accounted'
  BY DEF Accounted
<1>6. ClosedAtEnd'
  BY DEF IInv, ClosedAtEnd
<1> QED
  BY <1>1, <1>2, <1>3, <1>4, <1>5, <1>6 DEF IInv

LEMMA TerminateSpotsStep ==
  ASSUME IInv, NEW r \in Regions, TerminateSpots(r)
  PROVE  IInv'
<1> USE DEF TerminateSpots, At, Goto, SpotIDs, round, answer
<1>1. TypeOK'
  BY DEF IInv, TypeOK
<1>2. RoundsApart'
  <2> SUFFICES ASSUME NEW q \in Regions PROVE RoundApart(q)'
    BY DEF RoundsApart
  <2> RoundApart(q) /\ RoundApart(r)
    BY DEF IInv, RoundsApart
  <2> QED
    BY DEF RoundApart
<1>3. GroupsSuspended'
  BY DEF IInv, GroupsSuspended, GroupSuspendedFirst
<1>4. ByKind'
  BY DEF IInv, ByKind
<1>5. Accounted'
  BY DEF IInv, TypeOK, RoundsApart, RoundApart, Accounted, Pending, Handled, InRegion
<1>6. ClosedAtEnd'
  BY DEF IInv, ClosedAtEnd
<1> QED
  BY <1>1, <1>2, <1>3, <1>4, <1>5, <1>6 DEF IInv

LEMMA TerminateSpotsFailsStep ==
  ASSUME IInv, NEW r \in Regions, TerminateSpotsFails(r)
  PROVE  IInv'
<1> USE DEF TerminateSpotsFails, At, Goto, Fails, SpotIDs, round
<1>1. TypeOK'
  BY FailureTyped DEF IInv, TypeOK
<1>2. RoundsApart'
  <2> SUFFICES ASSUME NEW q \in Regions PROVE RoundApart(q)'
    BY DEF RoundsApart
  <2> RoundApart(q) /\ RoundApart(r)
    BY DEF IInv, RoundsApart
  <2> QED
    BY DEF RoundApart
<1>3. GroupsSuspended'
  BY DEF IInv, GroupsSuspended, GroupSuspendedFirst
<1>4. ByKind'
  BY DEF IInv, ByKind
<1>5. Accounted'
  BY DEF Accounted
<1>6. ClosedAtEnd'
  BY DEF IInv, ClosedAtEnd
<1> QED
  BY <1>1, <1>2, <1>3, <1>4, <1>5, <1>6 DEF IInv

LEMMA SuspendProcessesStep ==
  ASSUME IInv, NEW r \in Regions, NEW i \in Instances, SuspendProcesses(r, i)
  PROVE  IInv'
<1> USE DEF SuspendProcesses, At, answer
<1>1. TypeOK'
  BY DEF IInv, TypeOK
<1>2. RoundsApart'
  <2> SUFFICES ASSUME NEW q \in Regions PROVE RoundApart(q)'
    BY DEF RoundsApart
  <2> RoundApart(q) /\ RoundApart(r)
    BY DEF IInv, RoundsApart
  <2> QED
    BY DEF RoundApart
<1>3. GroupsSuspended'
  BY DEF IInv, GroupsSuspended, GroupSuspendedFirst
<1>4. ByKind'
  BY DEF IInv, ByKind
<1>5. Accounted'
  BY DEF IInv, Accounted, Pending, SpotIDs, Handled
<1>6. ClosedAtEnd'
  BY DEF IInv, ClosedAtEnd
<1> QED
  BY <1>1, <1>2, <1>3, <1>4, <1>5, <1>6 DEF IInv

LEMMA SuspendFailsStep ==
  ASSUME IInv, NEW r \in Regions, NEW i \in Instances, SuspendFails(r, i)
  PROVE  IInv'
<1> USE DEF SuspendFails, At, cloud, answer
<1>1. TypeOK'
  BY DEF IInv, TypeOK
<1>2. RoundsApart'
  <2> SUFFICES ASSUME NEW q \in Regions PROVE RoundApart(q)'
    BY DEF RoundsApart
  <2> RoundApart(q) /\ RoundApart(r)
    BY DEF IInv, RoundsApart
  <2> QED
    BY DEF IInv, TypeOK, RoundApart
<1>3. GroupsSuspended'
  BY DEF IInv, TypeOK, GroupsSuspended, GroupSuspendedFirst
<1>4. ByKind'
  BY DEF IInv, ByKind
<1>5. Accounted'
  BY DEF IInv, TypeOK, RoundsApart, RoundApart, Accounted, Pending, SpotIDs, Handled, InRegion
<1>6. ClosedAtEnd'
  BY DEF IInv, ClosedAtEnd
<1> QED
  BY <1>1, <1>2, <1>3, <1>4, <1>5, <1>6 DEF IInv

LEMMA CallerStep ==
  ASSUME IInv, Caller
  PROVE  IInv'
<1> USE DEF Caller, CloseErrors, Return, round, cloud
<1>1. TypeOK'
  BY DEF IInv, TypeOK
<1>2. RoundsApart' /\ GroupsSuspended' /\ ByKind'
  BY DEF IInv, RoundsApart, RoundApart, GroupsSuspended, GroupSuspendedFirst, ByKind
<1>3. Accounted'
  BY DEF IInv, Accounted, Pending, Handled, SpotIDs
<1>4. ClosedAtEnd'
  BY DEF IInv, ClosedAtEnd
<1> QED
  BY <1>1, <1>2, <1>3, <1>4 DEF IInv

LEMMA StutterStep ==
  ASSUME IInv, UNCHANGED vars
  PROVE  IInv'
<1> USE DEF vars, round, cloud, answer
<1>1. TypeOK' /\ RoundsApart'
  BY DEF IInv, TypeOK, RoundsApart, RoundApart
<1>2. GroupsSuspended' /\ ByKind' /\ ClosedAtEnd'
  BY DEF IInv, GroupsSuspended, GroupSuspendedFirst, ByKind, ClosedAtEnd
<1>3. Accounted'
  BY DEF IInv, Accounted, Pending, Handled, SpotIDs
<1> QED
  BY <1>1, <1>2, <1>3 DEF IInv

-----------------------------------------------------------------------------
\* Every step keeps the invariant.
LEMMA StepInvariant == IInv /\ [Next]_vars => IInv'
<1> SUFFICES ASSUME IInv, [Next]_vars PROVE IInv'
  OBVIOUS
<1>1. CASE Caller
  BY <1>1, CallerStep
<1>2. ASSUME NEW r \in Regions, Region(r) PROVE IInv'
  BY <1>2, NextRoundStep, RoundsEndStep, TerminateStep, TerminateFailsStep,
     WaitUntilTerminatedStep, WaitFailsStep, DescribeAutoScalingInstancesStep, DescribeFailsStep,
     SuspendProcessesStep, SuspendFailsStep, NothingToStopStep, StopInstancesStep,
     StopInstancesFailsStep, TerminateSpotsStep, TerminateSpotsFailsStep DEF Region
<1>3. CASE UNCHANGED vars
  BY <1>3, StutterStep
<1> QED
  BY <1>1, <1>2, <1>3 DEF Next

\* When the goroutines have ended no instance is pending, so that without an
\* error each is handled, in the way that its kind and the call ask for.
LEMMA HandledAtTheEnd == IInv => CleanReturnAccounts
<1> SUFFICES ASSUME IInv, returned, errs = {}
             PROVE  CleanReturnAccounts
  BY DEF CleanReturnAccounts
<1>1. \A r \in Regions : InRegion(r) \subseteq Handled
  BY DEF IInv, ClosedAtEnd, Accounted, Pending
<1>2. \A i \in Instances : RegionOf[i] \in Regions /\ i \in InRegion(RegionOf[i])
  BY DEF Regions, InRegion
<1>3. Handled = Instances
  BY <1>1, <1>2 DEF Handled, IInv, TypeOK
<1>4. CASE call = "terminate"
  BY <1>3, <1>4 DEF Handled, IInv, ByKind, CleanReturnAccounts
<1>5. CASE call = "stop"
  BY <1>3, <1>5 DEF Handled, IInv, ByKind, Accounted, CleanReturnAccounts
<1> QED
  BY <1>4, <1>5 DEF IInv, TypeOK

\* Every reachable state satisfies the inductive invariant.
THEOREM Invariance == Spec => []IInv
BY InitInvariant, StepInvariant, PTL DEF Spec

\* aws.go, TerminateInstances and StopInstances: every variable keeps its type.
THEOREM TypeCorrect == Spec => []TypeOK
<1>1. IInv => TypeOK
  BY DEF IInv
<1> QED
  BY <1>1, Invariance, PTL

\* StopInstances takes no instance of an auto scaling group out of service
\* before the group is suspended, whatever the order of the goroutines, the
\* chunks and the requests that fail.
THEOREM SuspendedFirst == Spec => []GroupSuspendedFirst
<1>1. IInv => GroupSuspendedFirst
  BY DEF IInv, GroupsSuspended, GroupSuspendedFirst
<1> QED
  BY <1>1, Invariance, PTL

\* A return without errors accounts for every instance, for any number of
\* regions and any chunk size: no instance falls between two chunks.
THEOREM ReturnAccounts == Spec => []CleanReturnAccounts
BY HandledAtTheEnd, Invariance, PTL

-----------------------------------------------------------------------------
(* The refinement of ProviderCall.                                         *)

\* What ProviderTraits says of the two calls of AWS.
LEMMA CallTraits ==
  /\ \A c \in {"terminate", "stop"} : Abstract!IsEffective("AWS", CallName[c], TRUE)
  /\ ~Abstract!AnswerIsFull("AWS", CallName["stop"], TRUE)
BY DEF CallName, Abstract!IsEffective, Abstract!AnswerIsFull, Abstract!IgnoresDryRun,
       Abstract!MaySkip, Abstract!AwsClouds

\* A goroutine takes instances out of service and adds errors, never the
\* reverse, and none is running once the call has returned.
LEMMA RegionOnlyAdds ==
  ASSUME IInv, NEW r \in Regions, Region(r)
  PROVE  /\ stopped \subseteq stopped' /\ terminated \subseteq terminated'
         /\ errs \subseteq errs'
         /\ ~returned
         /\ UNCHANGED <<call, returned>>
<1>1. pc[r] # "done"
  BY DEF Region, NextRound, RoundsEnd, Terminate, TerminateFails, WaitUntilTerminated, WaitFails,
         DescribeAutoScalingInstances, DescribeFails, SuspendProcesses, SuspendFails,
         NothingToStop, StopInstances, StopInstancesFails, TerminateSpots, TerminateSpotsFails,
         ReadyToStop, At
<1>2. ~returned
  BY <1>1 DEF IInv, ClosedAtEnd
<1>3. /\ stopped \subseteq stopped' /\ terminated \subseteq terminated'
      /\ errs \subseteq errs'
      /\ UNCHANGED <<call, returned>>
  BY DEF Region, NextRound, RoundsEnd, Terminate, TerminateFails, WaitUntilTerminated, WaitFails,
         DescribeAutoScalingInstances, DescribeFails, SuspendProcesses, SuspendFails,
         NothingToStop, StopInstances, StopInstancesFails, TerminateSpots, TerminateSpotsFails,
         StartRound, Fails, cloud, answer
<1> QED
  BY <1>2, <1>3

LEMMA RegionRefines ==
  ASSUME IInv, IInv', NEW r \in Regions, Region(r)
  PROVE  Abstract!Work
<1>1. (stopped \cup terminated)' \subseteq Instances
  BY DEF IInv, TypeOK
<1>2. Abstract!IsEffective("AWS", CallName[call], TRUE)
  BY CallTraits DEF IInv, TypeOK
<1> QED
  BY <1>1, <1>2, RegionOnlyAdds DEF Abstract!Work, Abstract!input

\* What the answer promises is what CleanReturnAccounts says of it.
LEMMA ReturnRefines ==
  ASSUME IInv, CleanReturnAccounts', Return
  PROVE  Abstract!Return
<1>1. UNCHANGED <<call, stopped, terminated, errs>> /\ ~returned /\ returned'
  BY DEF Return, cloud
<1>2. ASSUME errs = {}, Abstract!AnswerIsFull("AWS", CallName[call], TRUE)
      PROVE  Instances \subseteq stopped \cup terminated
  <2>1. call = "terminate"
    BY <1>2, CallTraits DEF IInv, TypeOK
  <2> QED
    BY <1>1, <1>2, <2>1 DEF CleanReturnAccounts
<1> QED
  BY <1>1, <1>2 DEF Abstract!Return, Abstract!input

LEMMA NextRefines ==
  IInv /\ (IInv /\ CleanReturnAccounts)' /\ [Next]_vars => [Abstract!Next]_(Abstract!vars)
<1> SUFFICES ASSUME IInv, IInv', CleanReturnAccounts', [Next]_vars
             PROVE  [Abstract!Next]_(Abstract!vars)
  OBVIOUS
<1>1. CASE Return
  BY <1>1, ReturnRefines DEF Abstract!Next
<1>2. ASSUME NEW r \in Regions, Region(r) PROVE Abstract!Next
  BY <1>2, RegionRefines DEF Abstract!Next
<1>3. CASE CloseErrors \/ UNCHANGED vars
  BY <1>3 DEF CloseErrors, vars, cloud, answer, Abstract!vars, Abstract!input
<1> QED
  BY <1>1, <1>2, <1>3 DEF Next, Caller

\* aws.go, TerminateInstances and StopInstances do, for any instances, groups
\* and chunk size, what Hunt assumes of the calls of a provider.
THEOREM Refinement == Spec => ImplementsProviderCall
<1>1. Init => Abstract!Init
  BY DEF Init, Abstract!Init
<1> QED
  BY <1>1, NextRefines, Invariance, ReturnAccounts, PTL
     DEF Spec, ImplementsProviderCall, Abstract!Spec

-----------------------------------------------------------------------------
(* The two calls end without any fairness but that something happens.      *)

\* How far a region's goroutine is in its round.
Rank == [terminate |-> 1, wait |-> 2, describe |-> 1, suspend |-> 2, spots |-> 3,
         round |-> 4, done |-> 5]

Shrinks(before, after) == after \subseteq before /\ after # before

\* A round begins with fewer instances before it than the last one; within it
\* the goroutine advances, or one of its auto scaling instances is passed.
RegionAdvances(r) ==
  \/ Shrinks(rest[r], rest'[r])
  \/ rest'[r] = rest[r] /\ Rank[pc[r]] < Rank[pc'[r]]
  \/ rest'[r] = rest[r] /\ pc'[r] = pc[r] /\ Shrinks(asgInstances[r], asgInstances'[r])

RegionWaits(r) ==
  /\ pc'[r] = pc[r] /\ rest'[r] = rest[r] /\ chunk'[r] = chunk[r]
  /\ instanceIDs'[r] = instanceIDs[r] /\ asgInstances'[r] = asgInstances[r]

\* What was suspended, stopped, terminated, skipped or reported stays so.
NothingTakenBack ==
  /\ suspended \subseteq suspended' /\ stopped \subseteq stopped'
  /\ terminated \subseteq terminated' /\ skipped \subseteq skipped'
  /\ errs \subseteq errs'
  /\ (closed => closed') /\ (returned => returned')

Advances ==
  /\ NothingTakenBack
  /\ \A r \in Regions : RegionAdvances(r) \/ RegionWaits(r)
  /\ closed' # closed \/ returned' # returned \/ \E r \in Regions : RegionAdvances(r)

\* The slice of a round is never empty, whatever the size of the last one.
LEMMA ChunkNotEmpty ==
  ASSUME TypeOK, NEW r \in Regions, rest[r] # {}, NEW c \in SUBSET rest[r],
         Cardinality(c) = ChunkSize(r)
  PROVE  c # {}
<1>1. rest[r] \in SUBSET Instances
  BY DEF TypeOK
<1>2. IsFiniteSet(rest[r])
  BY <1>1, FS_Subset, AwsInstancesAssumption
<1>3. Cardinality(rest[r]) \in Nat /\ Cardinality(rest[r]) # 0
  BY <1>2, FS_CardinalityType, FS_EmptySet
<1>4. ChunkSize(r) # 0
  BY <1>3, AwsInstancesAssumption DEF ChunkSize
<1>5. QED
  BY <1>4, FS_EmptySet

LEMMA RoundAdvances ==
  ASSUME IInv, NEW r \in Regions, NextRound(r)
  PROVE  Advances
<1>1. PICK c \in SUBSET rest[r] : /\ Cardinality(c) = ChunkSize(r)
                                  /\ StartRound(r, c)
                                  /\ rest' = [rest EXCEPT ![r] = @ \ c]
  BY DEF NextRound
<1>2. c # {}
  BY <1>1, ChunkNotEmpty DEF NextRound, IInv
<1>3. RegionAdvances(r)
  BY <1>1, <1>2 DEF RegionAdvances, Shrinks, IInv, TypeOK
<1>4. \A q \in Regions : q # r => RegionWaits(q)
  BY <1>1 DEF StartRound, Goto, RegionWaits, IInv, TypeOK
<1>5. NothingTakenBack
  BY <1>1 DEF StartRound, NothingTakenBack, cloud, answer
<1>6. QED
  BY <1>3, <1>4, <1>5 DEF Advances

LEMMA RegionTakesNothingBack ==
  ASSUME IInv, NEW r \in Regions, Region(r), ~NextRound(r)
  PROVE  NothingTakenBack
<1> USE DEF NothingTakenBack, Fails, round, cloud, answer
<1>1. CASE RoundsEnd(r) \/ NothingToStop(r)
  BY <1>1 DEF RoundsEnd, NothingToStop
<1>2. CASE Terminate(r) \/ TerminateFails(r)
  BY <1>2 DEF Terminate, TerminateFails
<1>3. CASE WaitUntilTerminated(r) \/ WaitFails(r)
  BY <1>3 DEF WaitUntilTerminated, WaitFails
<1>4. CASE DescribeAutoScalingInstances(r) \/ DescribeFails(r)
  BY <1>4 DEF DescribeAutoScalingInstances, DescribeFails
<1>5. CASE StopInstances(r) \/ StopInstancesFails(r)
  <2>1. CASE StopInstances(r)
    BY <2>1 DEF StopInstances
  <2>2. CASE StopInstancesFails(r)
    BY <2>2 DEF StopInstancesFails
  <2>3. QED
    BY <1>5, <2>1, <2>2
<1>6. CASE TerminateSpots(r) \/ TerminateSpotsFails(r)
  BY <1>6 DEF TerminateSpots, TerminateSpotsFails
<1>7. ASSUME NEW i \in Instances, SuspendProcesses(r, i) \/ SuspendFails(r, i)
      PROVE  NothingTakenBack
  BY <1>7 DEF SuspendProcesses, SuspendFails
<1>8. QED
  BY <1>1, <1>2, <1>3, <1>4, <1>5, <1>6, <1>7 DEF Region

LEMMA RegionLeavesOthers ==
  ASSUME IInv, NEW r \in Regions, Region(r), ~NextRound(r)
  PROVE  \A q \in Regions : q # r => RegionWaits(q)
<1> USE DEF RegionWaits, IInv, TypeOK, Goto, round
<1>1. CASE RoundsEnd(r) \/ NothingToStop(r)
  BY <1>1 DEF RoundsEnd, NothingToStop
<1>2. CASE Terminate(r) \/ TerminateFails(r)
  BY <1>2 DEF Terminate, TerminateFails
<1>3. CASE WaitUntilTerminated(r) \/ WaitFails(r)
  BY <1>3 DEF WaitUntilTerminated, WaitFails
<1>4. CASE DescribeAutoScalingInstances(r) \/ DescribeFails(r)
  BY <1>4 DEF DescribeAutoScalingInstances, DescribeFails
<1>5. CASE StopInstances(r) \/ StopInstancesFails(r)
  BY <1>5 DEF StopInstances, StopInstancesFails, ReadyToStop
<1>6. CASE TerminateSpots(r) \/ TerminateSpotsFails(r)
  BY <1>6 DEF TerminateSpots, TerminateSpotsFails
<1>7. ASSUME NEW i \in Instances, SuspendProcesses(r, i) \/ SuspendFails(r, i)
      PROVE  \A q \in Regions : q # r => RegionWaits(q)
  BY <1>7 DEF SuspendProcesses, SuspendFails
<1>8. QED
  BY <1>1, <1>2, <1>3, <1>4, <1>5, <1>6, <1>7 DEF Region

LEMMA RegionGoesOn ==
  ASSUME IInv, NEW r \in Regions, Region(r), ~NextRound(r)
  PROVE  RegionAdvances(r)
<1>1. /\ pc \in [Regions -> {"round", "terminate", "wait", "describe", "suspend", "spots", "done"}]
      /\ rest \in [Regions -> SUBSET Instances]
      /\ asgInstances \in [Regions -> SUBSET InGroup]
  BY DEF IInv, TypeOK
<1>2. ASSUME rest' = rest, NEW place, pc' = [pc EXCEPT ![r] = place], Rank[pc[r]] < Rank[place]
      PROVE  RegionAdvances(r)
  BY <1>1, <1>2 DEF RegionAdvances
<1>3. CASE RoundsEnd(r) \/ NothingToStop(r)
  <2>1. Rank["round"] < Rank["done"] /\ Rank["suspend"] < Rank["round"]
    BY DEF Rank
  <2>2. QED
    BY <1>2, <1>3, <2>1 DEF RoundsEnd, NothingToStop, At, Goto, round
<1>4. CASE Terminate(r) \/ TerminateFails(r)
  <2>1. Rank["terminate"] < Rank["wait"]
    BY DEF Rank
  <2>2. QED
    BY <1>2, <1>4, <2>1 DEF Terminate, TerminateFails, At, Goto, round
<1>5. CASE WaitUntilTerminated(r) \/ WaitFails(r)
  <2>1. Rank["wait"] < Rank["round"]
    BY DEF Rank
  <2>2. QED
    BY <1>2, <1>5, <2>1 DEF WaitUntilTerminated, WaitFails, At, Goto, round
<1>6. CASE DescribeAutoScalingInstances(r) \/ DescribeFails(r)
  <2>1. Rank["describe"] < Rank["suspend"] /\ Rank["describe"] < Rank["done"]
    BY DEF Rank
  <2>2. QED
    BY <1>2, <1>6, <2>1 DEF DescribeAutoScalingInstances, DescribeFails, At, Goto, round
<1>7. CASE StopInstances(r) \/ StopInstancesFails(r)
  <2>1. Rank["suspend"] < Rank["spots"]
    BY DEF Rank
  <2>2. QED
    BY <1>2, <1>7, <2>1 DEF StopInstances, StopInstancesFails, ReadyToStop, At, Goto, round
<1>8. CASE TerminateSpots(r) \/ TerminateSpotsFails(r)
  <2>1. Rank["spots"] < Rank["round"]
    BY DEF Rank
  <2>2. QED
    BY <1>2, <1>8, <2>1 DEF TerminateSpots, TerminateSpotsFails, At, Goto, round
<1>9. ASSUME NEW i \in Instances, SuspendProcesses(r, i) \/ SuspendFails(r, i)
      PROVE  RegionAdvances(r)
  <2>1. /\ i \in asgInstances[r] /\ asgInstances' = [asgInstances EXCEPT ![r] = @ \ {i}]
        /\ pc' = pc /\ rest' = rest
    BY <1>9 DEF SuspendProcesses, SuspendFails
  <2>2. Shrinks(asgInstances[r], asgInstances'[r])
    BY <1>1, <2>1 DEF Shrinks
  <2>3. QED
    BY <2>1, <2>2 DEF RegionAdvances
<1>10. QED
  BY <1>3, <1>4, <1>5, <1>6, <1>7, <1>8, <1>9 DEF Region

LEMMA RegionStepAdvances ==
  ASSUME IInv, NEW r \in Regions, Region(r)
  PROVE  Advances
<1>1. CASE NextRound(r)
  BY <1>1, RoundAdvances
<1>2. CASE ~NextRound(r)
  BY <1>2, RegionTakesNothingBack, RegionLeavesOthers, RegionGoesOn DEF Advances
<1>3. QED
  BY <1>1, <1>2

\* Every step of TerminateInstances and StopInstances is one forward: a round
\* is begun with fewer instances left, advances or ends, or the call returns.
\* The loop over the chunks ends for any number of instances and any chunk
\* size, whatever fails.
EveryStepAdvances == [][Advances]_vars

THEOREM StepsAdvance == Spec => EveryStepAdvances
<1>1. IInv /\ [Next]_vars => [Advances]_vars
  <2>1. ASSUME IInv, Caller PROVE Advances
    BY <2>1 DEF Caller, CloseErrors, Return, Advances, NothingTakenBack, RegionWaits,
                IInv, TypeOK, round, cloud
  <2>2. QED
    BY <2>1, RegionStepAdvances DEF Next
<1>2. QED
  BY <1>1, Invariance, PTL DEF Spec, EveryStepAdvances
=============================================================================
