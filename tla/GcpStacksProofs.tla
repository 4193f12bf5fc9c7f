--------------------------- MODULE GcpStacksProofs ---------------------------
(***************************************************************************)
(* The invariants of GcpStacks and its refinement of StackTermination, for *)
(* all stacks and parts.  The inductive invariant ties the place of each   *)
(* part's goroutine to what became of the part (PartPlaces) and the place  *)
(* of a stack's goroutine to those of its parts (StackPlaces): a stack that*)
(* is done has all its parts done or has given up on a reported failure of *)
(* the first phase.                                                        *)
(***************************************************************************)
EXTENDS GcpStacks, Naturals, TLAPS

PartPlace(r) ==
  /\ (part[r] \in {"error", "result", "done"} <=> r \in succeeded \cup requested \cup failed)
  /\ r \in succeeded => r \notin failed /\ Kind[r] # "ip"
  /\ r \in requested => r \notin failed /\ Kind[r] = "ip"
  /\ r \in failed => r \in errs \/ part[r] = "error"
  /\ part[r] = "error" => r \in failed \ errs
  /\ part[r] = "result" => IsFirstPhase(r)

PartPlaces == \A r \in Parts : PartPlace(r)

\* The first failure of the first phase that the stack's goroutine was told of.
GaveUpOn(s, q) == q \in FirstPhase(s) \cap failed /\ part[q] = "done"

StackPlace(s) ==
  /\ pc[s] = "start" => \A r \in PartsOf(s) : part[r] = "idle"
  /\ dryRun => pc[s] \in {"start", "done"} /\ \A r \in PartsOf(s) : part[r] = "idle"
  /\ pc[s] \in {"results", "network"} => \A q \in PartsOf(s) : ~GaveUpOn(s, q)
  /\ pc[s] = "results" => \A r \in PartsOf(s) : (IsFirstPhase(r) <=> part[r] # "idle")
  /\ pc[s] = "network" =>
       \A r \in PartsOf(s) : /\ (IsFirstPhase(r) => part[r] = "done")
                              /\ (part[r] = "idle" => Kind[r] = "network")
  /\ pc[s] = "done" /\ ~dryRun =>
       \/ \A r \in PartsOf(s) : part[r] = "done"
       \/ \E q \in PartsOf(s) : GaveUpOn(s, q)

StackPlaces == \A s \in Stacks : StackPlace(s)

\* The second phase of a stack runs when the first has succeeded, and the
\* deletion of its network when those of the firewall and the subnets are done.
PhasesInOrder ==
  \A r \in Parts : ~IsFirstPhase(r) /\ part[r] # "idle" =>
    /\ \A q \in FirstPhase(StackOf[r]) : part[q] = "done" /\ q \notin failed
    /\ r \in Networks => \A q \in BeforeNetwork(StackOf[r]) : part[q] = "done"

Closing ==
  /\ errsClosed => \A s \in Stacks : pc[s] = "done"
  /\ returned => errsClosed

IInv ==
  /\ TypeOK
  /\ PartPlaces
  /\ StackPlaces
  /\ PhasesInOrder
  /\ Closing

-----------------------------------------------------------------------------
\* The initial states satisfy the invariant.
LEMMA InitInvariant == Init => IInv
<1> SUFFICES ASSUME Init PROVE IInv
  OBVIOUS
<1> USE DEF Init
<1>1. TypeOK
  BY DEF TypeOK
<1>2. PartPlaces
  BY DEF PartPlaces, PartPlace
<1>3. StackPlaces
  BY DEF StackPlaces, StackPlace, PartsOf
<1>4. PhasesInOrder /\ Closing
  BY DEF PhasesInOrder, Closing
<1> QED
  BY <1>1, <1>2, <1>3, <1>4 DEF IInv

-----------------------------------------------------------------------------
(* Every action keeps the invariant: one lemma for each.                   *)

LEMMA SkipOnDryRunStep ==
  ASSUME IInv, NEW s \in Stacks, SkipOnDryRun(s)
  PROVE  IInv'
<1> USE GcpStacksAssumption DEF SkipOnDryRun, At, Goto, answer
<1>1. TypeOK'
  BY DEF IInv, TypeOK
<1>2. PartPlaces'
  BY DEF IInv, PartPlaces, PartPlace
<1>3. StackPlaces'
  BY DEF IInv, StackPlaces, StackPlace
<1>4. PhasesInOrder'
  BY DEF IInv, PhasesInOrder
<1>5. Closing'
  BY DEF IInv, Closing
<1> QED
  BY <1>1, <1>2, <1>3, <1>4, <1>5 DEF IInv

LEMMA StartStep ==
  ASSUME IInv, NEW s \in Stacks, Start(s)
  PROVE  IInv'
<1> USE GcpStacksAssumption DEF Start, At, Goto, StartAll, answer
<1>1. TypeOK'
  BY DEF IInv, TypeOK
<1>2. PartPlaces'
  BY DEF IInv, PartPlaces, PartPlace, StackPlaces, StackPlace, FirstPhase
<1>3. StackPlaces'
  BY DEF IInv, TypeOK, StackPlaces, StackPlace, GaveUpOn, IsFirstPhase, FirstPhase, PartsOf
<1>4. PhasesInOrder'
  BY DEF IInv, StackPlaces, StackPlace, PhasesInOrder, IsFirstPhase, FirstPhase, PartsOf,
     BeforeNetwork
<1>5. Closing'
  BY DEF IInv, Closing
<1> QED
  BY <1>1, <1>2, <1>3, <1>4, <1>5 DEF IInv

LEMMA FirstPhaseEndsStep ==
  ASSUME IInv, NEW s \in Stacks, FirstPhaseEnds(s)
  PROVE  IInv'
<1> USE GcpStacksAssumption DEF FirstPhaseEnds, At, Goto, StartAll, answer
<1>1. TypeOK'
  BY DEF IInv, TypeOK
<1>2. PartPlaces'
  BY DEF IInv, PartPlaces, PartPlace, StackPlaces, StackPlace, IsFirstPhase, FirstPhase
<1>3. StackPlaces'
  BY DEF IInv, TypeOK, StackPlaces, StackPlace, GaveUpOn, IsFirstPhase, FirstPhase, PartsOf
<1>4. PhasesInOrder'
  BY DEF IInv, StackPlaces, StackPlace, GaveUpOn, PhasesInOrder, FirstPhase, PartsOf, Networks,
     BeforeNetwork
<1>5. Closing'
  BY DEF IInv, Closing
<1> QED
  BY <1>1, <1>2, <1>3, <1>4, <1>5 DEF IInv

LEMMA StackEndsStep ==
  ASSUME IInv, NEW s \in Stacks, StackEnds(s)
  PROVE  IInv'
<1> USE GcpStacksAssumption DEF StackEnds, At, Goto, answer
<1>1. TypeOK'
  BY DEF IInv, TypeOK
<1>2. PartPlaces'
  BY DEF IInv, PartPlaces, PartPlace
<1>3. StackPlaces'
  BY DEF IInv, StackPlaces, StackPlace, GaveUpOn
<1>4. PhasesInOrder'
  BY DEF IInv, PhasesInOrder
<1>5. Closing'
  BY DEF IInv, Closing
<1> QED
  BY <1>1, <1>2, <1>3, <1>4, <1>5 DEF IInv

LEMMA DeleteNetworkStep ==
  ASSUME IInv, NEW n \in Networks, DeleteNetwork(n)
  PROVE  IInv'
<1> USE GcpStacksAssumption DEF DeleteNetwork, At, PartAt, PartGoto, answer
<1>1. TypeOK'
  BY DEF IInv, TypeOK
<1>2. PartPlaces'
  BY DEF IInv, PartPlaces, PartPlace
<1>3. StackPlaces'
  BY DEF IInv, StackPlaces, StackPlace, GaveUpOn, PartsOf
<1>4. PhasesInOrder'
  <2>1. /\ n \in Parts /\ StackOf[n] \in Stacks
        /\ n \notin FirstPhase(StackOf[n]) /\ n \notin BeforeNetwork(StackOf[n])
    BY DEF Networks, FirstPhase
  <2>2. \A q \in FirstPhase(StackOf[n]) : part[q] = "done" /\ q \notin failed
    BY <2>1 DEF IInv, StackPlaces, StackPlace, GaveUpOn, IsFirstPhase, FirstPhase, PartsOf
  <2>3. \A q \in Parts \ {n} : part'[q] = part[q]
    OBVIOUS
  <2>4. part[n] = "idle"
    OBVIOUS
  <2>5. ASSUME NEW r \in Parts, ~IsFirstPhase(r), part'[r] # "idle"
        PROVE  /\ \A q \in FirstPhase(StackOf[r]) : part'[q] = "done" /\ q \notin failed
               /\ r \in Networks => \A q \in BeforeNetwork(StackOf[r]) : part'[q] = "done"
    <3>1. CASE r = n
      BY <2>1, <2>2, <2>3, <3>1
    <3>2. CASE r # n
      BY <2>3, <2>4, <2>5, <3>2 DEF IInv, PhasesInOrder
    <3> QED
      BY <3>1, <3>2
  <2> QED
    BY <2>5 DEF PhasesInOrder
<1>5. Closing'
  BY DEF IInv, Closing
<1> QED
  BY <1>1, <1>2, <1>3, <1>4, <1>5 DEF IInv

LEMMA DeleteStep ==
  ASSUME IInv, NEW r \in Parts, Delete(r)
  PROVE  IInv'
<1> USE GcpStacksAssumption DEF Delete, PartAt, PartGoto, answer
<1>1. TypeOK'
  BY DEF IInv, TypeOK
<1>2. PartPlaces'
  BY DEF IInv, TypeOK, PartPlaces, PartPlace
<1>3. StackPlaces'
  BY DEF IInv, PartPlaces, PartPlace, StackPlaces, StackPlace, GaveUpOn
<1>4. PhasesInOrder'
  BY DEF IInv, PhasesInOrder
<1>5. Closing'
  BY DEF IInv, Closing
<1> QED
  BY <1>1, <1>2, <1>3, <1>4, <1>5 DEF IInv

LEMMA RequestAddressStep ==
  ASSUME IInv, NEW r \in Parts, RequestAddress(r)
  PROVE  IInv'
<1> USE GcpStacksAssumption DEF RequestAddress, PartAt, PartGoto, answer
<1>1. TypeOK'
  BY DEF IInv, TypeOK
<1>2. PartPlaces'
  BY DEF IInv, TypeOK, PartPlaces, PartPlace, IsFirstPhase, FirstPhase
<1>3. StackPlaces'
  BY DEF IInv, PartPlaces, PartPlace, StackPlaces, StackPlace, GaveUpOn
<1>4. PhasesInOrder'
  BY DEF IInv, PhasesInOrder
<1>5. Closing'
  BY DEF IInv, Closing
<1> QED
  BY <1>1, <1>2, <1>3, <1>4, <1>5 DEF IInv

LEMMA DeleteFailsStep ==
  ASSUME IInv, NEW r \in Parts, DeleteFails(r)
  PROVE  IInv'
<1> USE GcpStacksAssumption DEF DeleteFails, PartAt, PartGoto, answer
<1>1. TypeOK'
  BY DEF IInv, TypeOK
<1>2. PartPlaces'
  BY DEF IInv, TypeOK, PartPlaces, PartPlace
<1>3. StackPlaces'
  BY DEF IInv, StackPlaces, StackPlace, GaveUpOn
<1>4. PhasesInOrder'
  BY DEF IInv, PhasesInOrder
<1>5. Closing'
  BY DEF IInv, Closing
<1> QED
  BY <1>1, <1>2, <1>3, <1>4, <1>5 DEF IInv

LEMMA SendErrorStep ==
  ASSUME IInv, NEW r \in Parts, SendError(r)
  PROVE  IInv'
<1> USE GcpStacksAssumption DEF SendError, PartAt, PartGoto
<1>1. TypeOK'
  BY DEF IInv, TypeOK, PartPlaces, PartPlace
<1>2. PartPlaces'
  BY DEF IInv, TypeOK, PartPlaces, PartPlace
<1>3. StackPlaces'
  BY DEF IInv, StackPlaces, StackPlace, GaveUpOn, PhasesInOrder, PartsOf
<1>4. PhasesInOrder'
  BY DEF IInv, PhasesInOrder
<1>5. Closing'
  BY DEF IInv, Closing
<1> QED
  BY <1>1, <1>2, <1>3, <1>4, <1>5 DEF IInv

LEMMA SendErrorOnClosedStep ==
  ASSUME IInv, NEW r \in Parts, SendErrorOnClosed(r)
  PROVE  IInv'
<1> USE GcpStacksAssumption DEF SendErrorOnClosed, PartAt, answer
<1>1. TypeOK'
  BY DEF IInv, TypeOK
<1>2. PartPlaces'
  BY DEF IInv, PartPlaces, PartPlace
<1>3. StackPlaces'
  BY DEF IInv, StackPlaces, StackPlace, GaveUpOn
<1>4. PhasesInOrder'
  BY DEF IInv, PhasesInOrder
<1>5. Closing'
  BY DEF IInv, PartPlaces, PartPlace, Closing
<1> QED
  BY <1>1, <1>2, <1>3, <1>4, <1>5 DEF IInv

LEMMA SendSuccessStep ==
  ASSUME IInv, NEW r \in Parts, SendSuccess(r)
  PROVE  IInv'
<1> USE GcpStacksAssumption DEF SendSuccess, PartAt, PartGoto, answer
<1>1. TypeOK'
  BY DEF IInv, TypeOK
<1>2. PartPlaces'
  BY DEF IInv, PartPlaces, PartPlace
<1>3. StackPlaces'
  BY DEF IInv, StackPlaces, StackPlace, GaveUpOn
<1>4. PhasesInOrder'
  BY DEF IInv, PhasesInOrder
<1>5. Closing'
  BY DEF IInv, Closing
<1> QED
  BY <1>1, <1>2, <1>3, <1>4, <1>5 DEF IInv

LEMMA SendFailureStep ==
  ASSUME IInv, NEW r \in Parts, SendFailure(r)
  PROVE  IInv'
<1> USE GcpStacksAssumption DEF SendFailure, PartAt, Goto, PartGoto, answer
<1>1. TypeOK'
  BY DEF IInv, TypeOK
<1>2. PartPlaces'
  BY DEF IInv, PartPlaces, PartPlace
<1>3. StackPlaces'
  BY DEF IInv, TypeOK, StackPlaces, StackPlace, GaveUpOn, IsFirstPhase, PartsOf
<1>4. PhasesInOrder'
  BY DEF IInv, PhasesInOrder
<1>5. Closing'
  BY DEF IInv, Closing
<1> QED
  BY <1>1, <1>2, <1>3, <1>4, <1>5 DEF IInv

LEMMA CloseErrorsStep ==
  ASSUME IInv, CloseErrors
  PROVE  IInv'
<1> USE GcpStacksAssumption DEF CloseErrors
<1>1. TypeOK'
  BY DEF IInv, TypeOK
<1>2. PartPlaces'
  BY DEF IInv, PartPlaces, PartPlace
<1>3. StackPlaces'
  BY DEF IInv, StackPlaces, StackPlace, GaveUpOn
<1>4. PhasesInOrder'
  BY DEF IInv, PhasesInOrder
<1>5. Closing'
  BY DEF Closing
<1> QED
  BY <1>1, <1>2, <1>3, <1>4, <1>5 DEF IInv

LEMMA ReturnStep ==
  ASSUME IInv, Return
  PROVE  IInv'
<1> USE GcpStacksAssumption DEF Return
<1>1. TypeOK'
  BY DEF IInv, TypeOK
<1>2. PartPlaces'
  BY DEF IInv, PartPlaces, PartPlace
<1>3. StackPlaces'
  BY DEF IInv, StackPlaces, StackPlace, GaveUpOn
<1>4. PhasesInOrder'
  BY DEF IInv, PhasesInOrder
<1>5. Closing'
  BY DEF IInv, Closing
<1> QED
  BY <1>1, <1>2, <1>3, <1>4, <1>5 DEF IInv

LEMMA StutterStep ==
  ASSUME IInv, UNCHANGED vars
  PROVE  IInv'
<1> USE DEF vars, answer
<1>1. TypeOK' /\ PartPlaces'
  BY DEF IInv, TypeOK, PartPlaces, PartPlace
<1>2. StackPlaces' /\ PhasesInOrder' /\ Closing'
  BY DEF IInv, StackPlaces, StackPlace, GaveUpOn, PhasesInOrder, Closing
<1> QED
  BY <1>1, <1>2 DEF IInv

\* Every step keeps the invariant.
LEMMA StepInvariant == IInv /\ [Next]_vars => IInv'
<1> SUFFICES ASSUME IInv, [Next]_vars PROVE IInv'
  OBVIOUS
<1>1. ASSUME NEW s \in Stacks, StackStep(s) PROVE IInv'
  BY <1>1, SkipOnDryRunStep, StartStep, FirstPhaseEndsStep, StackEndsStep DEF StackStep
<1>2. ASSUME NEW n \in Networks, DeleteNetwork(n) PROVE IInv'
  BY <1>2, DeleteNetworkStep
<1>3. ASSUME NEW r \in Parts, PartStep(r) PROVE IInv'
  BY <1>3, DeleteStep, RequestAddressStep, DeleteFailsStep, SendErrorStep, SendErrorOnClosedStep, SendSuccessStep,
     SendFailureStep DEF PartStep
<1>4. CASE Caller
  BY <1>4, CloseErrorsStep, ReturnStep DEF Caller
<1>5. CASE UNCHANGED vars
  BY <1>5, StutterStep
<1> QED
  BY <1>1, <1>2, <1>3, <1>4, <1>5 DEF Next

\* Every reachable state satisfies the inductive invariant.
THEOREM Invariance == Spec => []IInv
BY InitInvariant, StepInvariant, PTL DEF Spec

-----------------------------------------------------------------------------
(* What the invariant says of a stack that is done, and of a return.       *)

\* The parts of a stack that is done have ended, or the answer names one of
\* its first phase that failed.
LEMMA DoneStack ==
  ASSUME IInv, ~dryRun, NEW s \in Stacks, pc[s] = "done"
  PROVE  \/ \A r \in PartsOf(s) : part[r] = "done" /\ r \in succeeded \cup requested \cup errs
         \/ \E q \in FirstPhase(s) : q \in failed \cap errs
<1>1. CASE \A r \in PartsOf(s) : part[r] = "done"
  BY <1>1 DEF IInv, PartPlaces, PartPlace, PartsOf
<1>2. CASE \E q \in PartsOf(s) : GaveUpOn(s, q)
  BY <1>2 DEF IInv, PartPlaces, PartPlace, PartsOf, GaveUpOn
<1> QED
  BY <1>1, <1>2 DEF IInv, StackPlaces, StackPlace

LEMMA ReturnedMeansDone ==
  ASSUME IInv, returned
  PROVE  \A s \in Stacks : pc[s] = "done"
BY DEF IInv, Closing

\* What is not started has neither succeeded nor failed.
LEMMA DryRunDoesNothing ==
  ASSUME IInv, dryRun
  PROVE  failed = {} /\ \A r \in Parts : part[r] = "idle"
<1>1. \A r \in Parts : part[r] = "idle"
  BY GcpStacksAssumption DEF IInv, StackPlaces, StackPlace, PartsOf
<1> QED
  BY <1>1 DEF IInv, TypeOK, PartPlaces, PartPlace

\* A part whose goroutine has still something to do after its stack is done
\* is of the first phase, and the answer names another of that phase.
LEMMA LeftBehind ==
  ASSUME IInv, NEW r \in Parts, pc[StackOf[r]] = "done", part[r] \in {"delete", "error", "result"}
  PROVE  /\ IsFirstPhase(r)
         /\ \E q \in FirstPhase(StackOf[r]) : q \in failed \cap errs
<1>1. StackOf[r] \in Stacks /\ r \in PartsOf(StackOf[r]) /\ ~dryRun
  BY GcpStacksAssumption, DryRunDoesNothing DEF PartsOf
<1>2. PICK q \in FirstPhase(StackOf[r]) : q \in failed \cap errs
  BY <1>1, DoneStack
<1>3. IsFirstPhase(r)
  BY <1>2 DEF IInv, PhasesInOrder
<1> QED
  BY <1>2, <1>3

-----------------------------------------------------------------------------
(* The invariants TLC checks, for every set of stacks and parts.           *)

\* Every variable of TerminateStacks keeps its type, and the answer only
\* names failures.
THEOREM TypeCorrect == Spec => []TypeOK
<1>1. IInv => TypeOK
  BY DEF IInv
<1> QED
  BY <1>1, Invariance, PTL

\* No address and no network of a stack is touched before its instances and
\* its database are really deleted.
THEOREM InstancesFirst == Spec => []NetworkAfterInstances
<1>1. IInv => NetworkAfterInstances
  BY DEF IInv, PhasesInOrder, PartPlaces, PartPlace, NetworkAfterInstances, FirstPhase, PartsOf
<1> QED
  BY <1>1, Invariance, PTL

\* The deletion of a network starts after those of its firewall and subnets.
THEOREM NetworksLast == Spec => []NetworkLast
<1>1. IInv => NetworkLast
  BY DEF IInv, PhasesInOrder, PartPlaces, PartPlace, NetworkLast, Networks, BeforeNetwork,
     IsFirstPhase, FirstPhase, PartsOf
<1> QED
  BY <1>1, Invariance, PTL

\* When TerminateStacks returns no error outside a dry run, all that it waits
\* for is deleted, the deletion of every address is accepted, and no goroutine
\* is left behind.
THEOREM CleanReturn == Spec => []CleanReturnIsComplete
<1>1. ASSUME IInv, returned, errs = {}, ~dryRun, NEW r \in Parts
      PROVE  (r \in IF Kind[r] = "ip" THEN requested ELSE succeeded) /\ part[r] = "done"
  <2>1. StackOf[r] \in Stacks /\ r \in PartsOf(StackOf[r])
    BY GcpStacksAssumption DEF PartsOf
  <2>2. part[r] = "done" /\ r \in succeeded \cup requested
    BY <1>1, <2>1, ReturnedMeansDone, DoneStack
  <2> QED
    BY <1>1, <2>2 DEF IInv, PartPlaces, PartPlace
<1>2. IInv => CleanReturnIsComplete
  BY <1>1 DEF CleanReturnIsComplete
<1> QED
  BY <1>2, Invariance, PTL

\* A failure that the answer does not name came from the first phase, after
\* another one of it that the answer names.
THEOREM OnlyLateFailuresMissing == Spec => []LateFailuresOnly
<1>1. ASSUME IInv, returned, NEW r \in failed \ errs
      PROVE  /\ IsFirstPhase(r)
             /\ \E q \in FirstPhase(StackOf[r]) : q # r /\ q \in errs
  <2>1. r \in Parts /\ part[r] = "error" /\ pc[StackOf[r]] = "done"
    BY <1>1, GcpStacksAssumption, ReturnedMeansDone DEF IInv, TypeOK, PartPlaces, PartPlace
  <2> QED
    BY <1>1, <2>1, LeftBehind
<1>2. IInv => LateFailuresOnly
  BY <1>1 DEF LateFailuresOnly
<1> QED
  BY <1>2, Invariance, PTL

-----------------------------------------------------------------------------
(* TerminateStacks implements StackTermination. *)

\* The stacks whose failure the answer names are those with one.
LEMMA ReportedStacks ==
  ASSUME IInv, \A s \in Stacks : pc[s] = "done"
  PROVE  FailedStacks(errs) = FailedStacks(failed)
<1>1. errs \subseteq failed /\ failed \subseteq Parts
  BY DEF IInv, TypeOK
<1>2. ASSUME NEW r \in failed PROVE StackOf[r] \in FailedStacks(errs)
  <2>1. CASE r \in errs
    BY <2>1 DEF FailedStacks
  <2>2. CASE r \notin errs
    <3>1. r \in Parts /\ part[r] = "error" /\ pc[StackOf[r]] = "done"
      BY <1>1, <2>2, GcpStacksAssumption DEF IInv, PartPlaces, PartPlace
    <3>2. PICK q \in FirstPhase(StackOf[r]) : q \in errs
      BY <3>1, LeftBehind
    <3> QED
      BY <3>2 DEF FailedStacks, FirstPhase, PartsOf
  <2> QED
    BY <2>1, <2>2
<1> QED
  BY <1>1, <1>2 DEF FailedStacks

LEMMA InitRefines == Init => Abstract!Init
BY DEF Init, Abstract!Init, Outcome, FailedStacks

\* The goroutine of a stack ends: the stack is ok, unless a part has failed.
LEMMA EndRefines ==
  ASSUME IInv, NEW s \in Stacks, SkipOnDryRun(s) \/ StackEnds(s)
  PROVE  Abstract!Finish(s) \/ UNCHANGED Abstract!vars
<1>1. pc[s] # "done" /\ ~crashed /\ pc' = [pc EXCEPT ![s] = "done"] /\ UNCHANGED <<failed, errs, returned, crashed>>
  BY DEF SkipOnDryRun, StackEnds, At, Goto, answer
<1>2. ~returned
  BY <1>1, ReturnedMeansDone
<1>3. CASE s \in FailedStacks(failed)
  BY <1>1, <1>2, <1>3 DEF Abstract!vars, Outcome
<1>4. CASE s \notin FailedStacks(failed)
  <2>1. Outcome(s) = "pending" /\ Outcome(s)' = "ok"
    BY <1>1, <1>4 DEF Outcome, IInv, TypeOK
  <2>2. \A q \in Stacks \ {s} : Outcome(q)' = Outcome(q)
    BY <1>1 DEF Outcome
  <2> QED
    BY <1>1, <1>2, <2>1, <2>2 DEF Abstract!Finish
<1> QED
  BY <1>3, <1>4

\* The first failure of a stack is its outcome; a later one changes nothing.
LEMMA FailureRefines ==
  ASSUME IInv, NEW r \in Parts, DeleteFails(r)
  PROVE  Abstract!Finish(StackOf[r]) \/ UNCHANGED Abstract!vars
<1> DEFINE s == StackOf[r]
<1>1. s \in Stacks /\ ~crashed /\ part[r] = "delete" /\ failed' = failed \cup {r} /\ UNCHANGED <<pc, errs, returned, crashed>>
  BY GcpStacksAssumption DEF DeleteFails, PartAt, answer
<1>2. FailedStacks(failed') = FailedStacks(failed) \cup {s}
  BY <1>1 DEF FailedStacks
<1>3. CASE s \in FailedStacks(failed)
  BY <1>1, <1>2, <1>3 DEF Abstract!vars, Outcome
<1>4. CASE s \notin FailedStacks(failed)
  <2>1. pc[s] # "done"
    BY <1>1, <1>4, LeftBehind DEF FailedStacks, FirstPhase, PartsOf
  <2>2. ~returned
    BY <1>1, <2>1, ReturnedMeansDone
  <2>3. Outcome(s) = "pending" /\ Outcome(s)' = "failed"
    BY <1>2, <1>4, <2>1 DEF Outcome
  <2>4. \A q \in Stacks \ {s} : Outcome(q)' = Outcome(q)
    BY <1>1, <1>2 DEF Outcome
  <2> QED
    BY <1>1, <2>2, <2>3, <2>4 DEF Abstract!Finish
<1> QED
  BY <1>3, <1>4

LEMMA ReturnRefines ==
  ASSUME IInv, Return
  PROVE  Abstract!Return
<1>1. \A s \in Stacks : pc[s] = "done"
  BY DEF Return, IInv, Closing
<1>2. FailedStacks(errs) = FailedStacks(failed) /\ FailedStacks(failed) \subseteq Stacks
  BY <1>1, ReportedStacks, GcpStacksAssumption DEF FailedStacks, IInv, TypeOK
<1>3. Abstract!Ended("pending") = {} /\ Abstract!Ended("failed") = FailedStacks(failed)
  BY <1>1, <1>2 DEF Abstract!Ended, Outcome
<1>4. \A s \in Stacks : Outcome(s)' = Outcome(s)
  BY DEF Return, Outcome
<1> QED
  BY <1>2, <1>3, <1>4 DEF Return, Abstract!Return

LEMMA CrashRefines ==
  ASSUME IInv, NEW r \in Parts, SendErrorOnClosed(r)
  PROVE  Abstract!Crash
<1>1. r \in failed /\ StackOf[r] \in Stacks
  BY GcpStacksAssumption DEF SendErrorOnClosed, PartAt, IInv, PartPlaces, PartPlace
<1>2. StackOf[r] \in Abstract!Ended("failed")
  BY <1>1 DEF Abstract!Ended, Outcome, FailedStacks
<1>3. \A s \in Stacks : Outcome(s)' = Outcome(s)
  BY DEF SendErrorOnClosed, Outcome
<1> QED
  BY <1>2, <1>3 DEF SendErrorOnClosed, PartAt, answer, Abstract!Crash

\* All other steps are invisible in StackTermination.
OtherStackStep(s) == Start(s) \/ FirstPhaseEnds(s)
OtherPartStep(r)  ==
  Delete(r) \/ RequestAddress(r) \/ SendError(r) \/ SendSuccess(r) \/ SendFailure(r)

LEMMA StackStutters ==
  ASSUME IInv, NEW s \in Stacks, OtherStackStep(s)
  PROVE  UNCHANGED Abstract!vars
<1>1. /\ pc[s] # "done" /\ pc'[s] # "done"
      /\ \A q \in Stacks \ {s} : pc'[q] = pc[q]
      /\ UNCHANGED <<failed, errs, returned, crashed>>
  BY DEF OtherStackStep, Start, FirstPhaseEnds, At, Goto, answer, IInv, TypeOK
<1>2. \A q \in Stacks : Outcome(q)' = Outcome(q)
  BY <1>1 DEF Outcome
<1> QED
  BY <1>1, <1>2 DEF Abstract!vars

LEMMA PartStutters ==
  ASSUME IInv, NEW r \in Parts, OtherPartStep(r)
  PROVE  UNCHANGED Abstract!vars
<1>1. CASE Delete(r) \/ RequestAddress(r) \/ SendSuccess(r)
  BY <1>1 DEF Delete, RequestAddress, SendSuccess, answer, Outcome, Abstract!vars
<1>2. CASE SendError(r)
  <2>1. ~returned
    BY <1>2 DEF SendError, IInv, Closing
  <2> QED
    BY <1>2, <2>1 DEF SendError, Outcome, Abstract!vars
<1>3. CASE SendFailure(r)
  <2>1. \A s \in Stacks : Outcome(s)' = Outcome(s)
    BY <1>3 DEF SendFailure, Goto, Outcome, FailedStacks
  <2> QED
    BY <1>3, <2>1 DEF SendFailure, answer, Abstract!vars
<1> QED
  BY <1>1, <1>2, <1>3 DEF OtherPartStep

LEMMA OthersStutter ==
  ASSUME IInv, CloseErrors \/ (\E n \in Networks : DeleteNetwork(n)) \/ UNCHANGED vars
  PROVE  UNCHANGED Abstract!vars
BY DEF CloseErrors, DeleteNetwork, vars, answer, Outcome, Abstract!vars

LEMMA NextRefines == IInv /\ [Next]_vars => [Abstract!Next]_(Abstract!vars)
<1> SUFFICES ASSUME IInv, [Next]_vars PROVE [Abstract!Next]_(Abstract!vars)
  OBVIOUS
<1>1. ASSUME NEW s \in Stacks, StackStep(s) PROVE [Abstract!Next]_(Abstract!vars)
  BY <1>1, EndRefines, StackStutters DEF StackStep, OtherStackStep, Abstract!Next
<1>2. ASSUME NEW r \in Parts, PartStep(r) PROVE [Abstract!Next]_(Abstract!vars)
  <2>1. StackOf[r] \in Stacks
    BY GcpStacksAssumption
  <2> QED
    BY <1>2, <2>1, FailureRefines, CrashRefines, PartStutters DEF PartStep, OtherPartStep,
       Abstract!Next
<1>3. CASE Return
  BY <1>3, ReturnRefines DEF Abstract!Next
<1>4. CASE CloseErrors \/ (\E n \in Networks : DeleteNetwork(n)) \/ UNCHANGED vars
  BY <1>4, OthersStutter
<1> QED
  BY <1>1, <1>2, <1>3, <1>4 DEF Next, Caller

\* Every behaviour of gcp.go's TerminateStacks is one of StackTermination: its
\* answer names exactly the stacks with a failure, and it only crashes after one.
THEOREM Refinement == Spec => ImplementsStackTermination
BY InitRefines, NextRefines, Invariance, PTL DEF Spec, ImplementsStackTermination, Abstract!Spec

-----------------------------------------------------------------------------
(* GcpStacks implements ProviderCall.                                      *)

\* What ProviderTraits says of TerminateStacks.
LEMMA CallTraits ==
  /\ AbstractCall!IsEffective("GCP", "TerminateStacks", dryRun) <=> ~dryRun
  /\ AbstractCall!AnswerIsFull("GCP", "TerminateStacks", dryRun) => ~dryRun
BY DEF AbstractCall!IsEffective, AbstractCall!AnswerIsFull, AbstractCall!IgnoresDryRun,
       AbstractCall!AwsClouds

\* What the call has deleted, or had accepted.
Changed == succeeded \cup requested

\* On a dry run nothing is deleted.
LEMMA DryRunDeletesNothing == IInv => (dryRun => Changed = {})
<1> SUFFICES ASSUME IInv, dryRun, NEW r \in succeeded \cup requested PROVE FALSE
  BY DEF Changed
<1>1. r \in Parts /\ r \in PartsOf(StackOf[r]) /\ StackOf[r] \in Stacks
  BY GcpStacksAssumption DEF IInv, TypeOK, PartsOf
<1> QED
  BY <1>1 DEF IInv, StackPlaces, StackPlace, PartPlaces, PartPlace

\* A goroutine at work after the return was left behind by a failure of its
\* stack, which has been received.
LEMMA AtWorkAfterReturn ==
  ASSUME IInv, NEW r \in Parts, part[r] \in {"delete", "error", "result"}, returned
  PROVE  errs # {}
<1>1. /\ StackOf[r] \in Stacks /\ r \in PartsOf(StackOf[r])
      /\ pc[StackOf[r]] = "done"
  BY GcpStacksAssumption DEF IInv, Closing, PartsOf
<1>2. PICK q \in PartsOf(StackOf[r]) : GaveUpOn(StackOf[r], q)
  BY <1>1 DEF IInv, StackPlaces, StackPlace
<1> QED
  BY <1>2 DEF GaveUpOn, PartsOf, IInv, PartPlaces, PartPlace

\* A part that is deleted, and an error that is received, are work of the call.
LEMMA PartWorks ==
  ASSUME IInv, IInv', (dryRun => Changed = {})', NEW r \in Parts, PartStep(r)
  PROVE  [AbstractCall!Next]_(AbstractCall!vars)
<1>1. /\ UNCHANGED <<dryRun, returned>>
      /\ Changed \subseteq Changed' /\ errs \subseteq errs'
      /\ part[r] \in {"delete", "error", "result"}
  BY DEF PartStep, Delete, RequestAddress, DeleteFails, SendError, SendErrorOnClosed, SendSuccess,
         SendFailure, PartAt, answer, Changed
<1>2. Changed' \subseteq
        IF AbstractCall!IsEffective("GCP", "TerminateStacks", dryRun) THEN Parts ELSE {}
  BY <1>1, CallTraits DEF IInv, TypeOK, Changed
<1>3. returned => errs # {}
  BY <1>1, AtWorkAfterReturn
<1>4. AbstractCall!Work
  BY <1>1, <1>2, <1>3 DEF AbstractCall!Work, AbstractCall!input, Changed
<1> QED
  BY <1>4 DEF AbstractCall!Next

\* The return without errors is one that CleanReturnIsComplete speaks of.
LEMMA CallReturns ==
  ASSUME IInv, CleanReturnIsComplete', Return
  PROVE  AbstractCall!Return
<1>1. UNCHANGED <<dryRun, succeeded, requested, errs>> /\ ~returned /\ returned'
  BY DEF Return
<1>2. ASSUME errs = {}, AbstractCall!AnswerIsFull("GCP", "TerminateStacks", dryRun)
      PROVE  Parts \subseteq succeeded \cup requested
  BY <1>1, <1>2, CallTraits DEF CleanReturnIsComplete
<1> QED
  BY <1>1, <1>2 DEF AbstractCall!Return, AbstractCall!input

LEMMA NextCall ==
  IInv /\ (IInv /\ (dryRun => Changed = {}) /\ CleanReturnIsComplete)' /\ [Next]_vars
    => [AbstractCall!Next]_(AbstractCall!vars)
<1> SUFFICES ASSUME IInv, IInv', (dryRun => Changed = {})', CleanReturnIsComplete', [Next]_vars
             PROVE  [AbstractCall!Next]_(AbstractCall!vars)
  OBVIOUS
<1>1. CASE Return
  BY <1>1, CallReturns DEF AbstractCall!Next
<1>2. ASSUME NEW r \in Parts, PartStep(r) PROVE [AbstractCall!Next]_(AbstractCall!vars)
  BY <1>2, PartWorks
<1>3. CASE \/ \E s \in Stacks : StackStep(s)
           \/ \E n \in Networks : DeleteNetwork(n)
           \/ CloseErrors \/ UNCHANGED vars
  BY <1>3 DEF StackStep, SkipOnDryRun, Start, FirstPhaseEnds, StackEnds, DeleteNetwork,
         CloseErrors, vars, answer, AbstractCall!vars, AbstractCall!input
<1> QED
  BY <1>1, <1>2, <1>3 DEF Next, Caller

\* gcp.go, TerminateStacks does, for any stacks and parts, what Hunt assumes of
\* the calls of a provider.
THEOREM CallRefinement == Spec => ImplementsProviderCall
<1>1. Init => AbstractCall!Init
  BY DEF Init, AbstractCall!Init
<1> QED
  BY <1>1, NextCall, DryRunDeletesNothing, Invariance, CleanReturn, PTL
     DEF Spec, ImplementsProviderCall, AbstractCall!Spec

-----------------------------------------------------------------------------
(* What CallEnds needs beside fairness, and the goroutines that are left   *)
(* behind: SendSuccess and SendFailure have no receiver once a stack has   *)
(* given up.                                                               *)

StackCanGoOn(s) ==
  \/ pc[s] = "start"
  \/ pc[s] = "results" /\ \A r \in FirstPhase(s) : part[r] = "done"
  \/ pc[s] = "network" /\ \A r \in PartsOf(s) : part[r] = "done"

NetworkCanGoOn(n) ==
  /\ pc[StackOf[n]] = "network" /\ part[n] = "idle"
  /\ \A r \in BeforeNetwork(StackOf[n]) : part[r] = "done"

PartCanGoOn(r) ==
  part[r] \in {"delete", "error"} \/ (part[r] = "result" /\ pc[StackOf[r]] = "results")

\* A stack of TerminateStacks that is not done can go on, or the deletion of its
\* network or of another of its parts can: no stack waits for another.
NoDeadlock ==
  \A s \in Stacks : pc[s] # "done" =>
    \/ StackCanGoOn(s)
    \/ \E n \in Networks \cap PartsOf(s) : NetworkCanGoOn(n)
    \/ \E r \in PartsOf(s) : PartCanGoOn(r)

\* A goroutine that waits for ever on resultChan is of the first phase of a
\* stack that gave up before, on the failure of another part, and that failure
\* is reported.
LeakMeansReported ==
  \A r \in Parts : part[r] = "result" /\ ~PartCanGoOn(r) =>
    /\ pc[StackOf[r]] = "done"
    /\ \E q \in FirstPhase(StackOf[r]) \ {r} : q \in errs /\ part[q] = "done"

\* A stack in the first phase.
LEMMA FirstPhaseGoesOn ==
  ASSUME IInv, NEW s \in Stacks, pc[s] = "results", \A r \in PartsOf(s) : ~PartCanGoOn(r)
  PROVE  StackCanGoOn(s)
<1>1. ASSUME NEW r \in FirstPhase(s) PROVE part[r] = "done"
  <2>1. r \in PartsOf(s) /\ r \in Parts /\ IsFirstPhase(r) /\ StackOf[r] = s
    BY DEF FirstPhase, PartsOf, IsFirstPhase
  <2>2. part[r] # "idle"
    BY <2>1 DEF IInv, StackPlaces, StackPlace
  <2> QED
    BY <2>1, <2>2 DEF PartCanGoOn, IInv, TypeOK
<1> QED
  BY <1>1 DEF StackCanGoOn

\* A stack in the second phase: a part that is neither done nor at work is the
\* network, and what it waits for is done.
LEMMA SecondPhaseGoesOn ==
  ASSUME IInv, NEW s \in Stacks, pc[s] = "network", \A r \in PartsOf(s) : ~PartCanGoOn(r)
  PROVE  StackCanGoOn(s) \/ \E n \in Networks \cap PartsOf(s) : NetworkCanGoOn(n)
<1>1. ASSUME NEW r \in PartsOf(s), part[r] # "done"
      PROVE  part[r] = "idle" /\ Kind[r] = "network" /\ r \in Networks /\ StackOf[r] = s
  <2>1. r \in Parts /\ StackOf[r] = s
    BY DEF PartsOf
  <2>2. (IsFirstPhase(r) => part[r] = "done") /\ (part[r] = "idle" => Kind[r] = "network")
    BY DEF IInv, StackPlaces, StackPlace
  <2>3. part[r] = "result" => IsFirstPhase(r)
    BY <2>1 DEF IInv, PartPlaces, PartPlace
  <2> QED
    BY <1>1, <2>1, <2>2, <2>3 DEF PartCanGoOn, Networks, IInv, TypeOK
<1>2. ASSUME NEW n \in PartsOf(s), part[n] # "done" PROVE NetworkCanGoOn(n)
  BY <1>1, <1>2 DEF NetworkCanGoOn, BeforeNetwork
<1> QED
  BY <1>1, <1>2 DEF StackCanGoOn

\* No stack of TerminateStacks waits for ever, for any stacks and parts.
THEOREM NeverDeadlocks == Spec => []NoDeadlock
<1>1. IInv => NoDeadlock
  BY FirstPhaseGoesOn, SecondPhaseGoesOn DEF NoDeadlock, StackCanGoOn, IInv, TypeOK
<1>2. QED
  BY <1>1, Invariance, PTL

\* Only a reported failure leaves a goroutine of TerminateStacks behind, for
\* any stacks and parts.
THEOREM LeaksAreReported == Spec => []LeakMeansReported
<1>1. ASSUME IInv, NEW r \in Parts, part[r] = "result", pc[StackOf[r]] # "results"
      PROVE  /\ pc[StackOf[r]] = "done"
             /\ \E q \in FirstPhase(StackOf[r]) \ {r} : q \in errs /\ part[q] = "done"
  <2> DEFINE s == StackOf[r]
  <2>1. s \in Stacks /\ r \in PartsOf(s) /\ IsFirstPhase(r)
    BY <1>1, GcpStacksAssumption DEF PartsOf, IInv, PartPlaces, PartPlace
  <2>2. StackPlace(s)
    BY <1>1, <2>1 DEF IInv, StackPlaces
  <2>3. pc[s] = "done" /\ ~dryRun
    BY <1>1, <2>1, <2>2 DEF StackPlace, IInv, TypeOK
  <2>4. PICK q \in PartsOf(s) : GaveUpOn(s, q)
    BY <1>1, <2>1, <2>2, <2>3 DEF StackPlace
  <2>5. q \in errs /\ q # r
    BY <1>1, <2>4 DEF GaveUpOn, PartsOf, IInv, PartPlaces, PartPlace
  <2> QED
    BY <2>3, <2>4, <2>5 DEF GaveUpOn
<1>2. IInv => LeakMeansReported
  BY <1>1 DEF LeakMeansReported, PartCanGoOn
<1>3. QED
  BY <1>2, Invariance, PTL

-----------------------------------------------------------------------------
(* TerminateStacks ends without any fairness but that something happens.   *)

\* How far the goroutine of a stack, and that of a part, has come.
Rank == [start |-> 0, results |-> 1, network |-> 2, done |-> 3]
PartRank == [idle |-> 0, delete |-> 1, error |-> 2, result |-> 3, done |-> 4]

\* What only moves one way: the places of the goroutines, the outcomes of the
\* deletions, the errors received and the end of the call.
NothingGoesBack ==
  /\ \A s \in Stacks : Rank[pc[s]] <= Rank[pc'[s]]
  /\ \A r \in Parts : PartRank[part[r]] <= PartRank[part'[r]]
  /\ succeeded \subseteq succeeded' /\ requested \subseteq requested' /\ failed \subseteq failed' /\ errs \subseteq errs'
  /\ (errsClosed => errsClosed') /\ (returned => returned')
  /\ ~crashed

SomethingMoves ==
  \/ \E s \in Stacks : Rank[pc[s]] < Rank[pc'[s]]
  \/ \E r \in Parts : PartRank[part[r]] < PartRank[part'[r]]
  \/ errsClosed' # errsClosed \/ returned' # returned \/ crashed'

Advances == NothingGoesBack /\ SomethingMoves

LEMMA StackAdvances ==
  ASSUME IInv, NEW s \in Stacks, StackStep(s)
  PROVE  Advances
<1> USE DEF Advances, NothingGoesBack, SomethingMoves, IInv, TypeOK, At, Goto, answer
<1>1. CASE SkipOnDryRun(s) \/ StackEnds(s)
  BY <1>1 DEF SkipOnDryRun, StackEnds, Rank, PartRank
<1>2. CASE Start(s)
  <2>1. \A r \in Parts : r \in FirstPhase(s) => part[r] = "idle"
    BY <1>2 DEF Start, StackPlaces, StackPlace, FirstPhase
  <2>2. \A r \in Parts : PartRank[part[r]] <= PartRank[part'[r]]
    BY <1>2, <2>1 DEF Start, StartAll, PartRank
  <2>3. /\ \A q \in Stacks : Rank[pc[q]] <= Rank[pc'[q]]
        /\ Rank[pc[s]] < Rank[pc'[s]]
    BY <1>2 DEF Start, Rank
  <2>4. QED
    BY <1>2, <2>2, <2>3 DEF Start
<1>3. CASE FirstPhaseEnds(s)
  <2>1. \A r \in PartsOf(s) : Kind[r] \in {"ip", "firewall", "subnet"} => part[r] = "idle"
    BY <1>3, GcpStacksAssumption
       DEF FirstPhaseEnds, StackPlaces, StackPlace, IsFirstPhase, FirstPhase, PartsOf
  <2>2. \A r \in Parts : PartRank[part[r]] <= PartRank[part'[r]]
    BY <1>3, <2>1 DEF FirstPhaseEnds, StartAll, PartRank
  <2>3. /\ \A q \in Stacks : Rank[pc[q]] <= Rank[pc'[q]]
        /\ Rank[pc[s]] < Rank[pc'[s]]
    BY <1>3 DEF FirstPhaseEnds, Rank
  <2>4. QED
    BY <1>3, <2>2, <2>3 DEF FirstPhaseEnds
<1>4. QED
  BY <1>1, <1>2, <1>3 DEF StackStep

LEMMA PartAdvances ==
  ASSUME IInv, NEW r \in Parts, PartStep(r) \/ DeleteNetwork(r)
  PROVE  Advances
<1> USE GcpStacksAssumption
        DEF Advances, NothingGoesBack, SomethingMoves, Rank, PartRank, IInv, TypeOK,
            At, PartAt, Goto, PartGoto, answer
<1>1. CASE DeleteNetwork(r)
  BY <1>1 DEF DeleteNetwork
<1>2. CASE Delete(r) \/ RequestAddress(r) \/ DeleteFails(r)
  BY <1>2 DEF Delete, RequestAddress, DeleteFails
<1>3. CASE SendError(r) \/ SendErrorOnClosed(r)
  BY <1>3 DEF SendError, SendErrorOnClosed
<1>4. CASE SendSuccess(r) \/ SendFailure(r)
  BY <1>4 DEF SendSuccess, SendFailure
<1>5. QED
  BY <1>1, <1>2, <1>3, <1>4 DEF PartStep

\* Every step of TerminateStacks is one forward: a goroutine advances, the
\* call returns or the process dies.  No deletion is tried twice, and a phase
\* that has begun is never begun again, whatever fails.
EveryStepAdvances == [][Advances]_vars

THEOREM StepsAdvance == Spec => EveryStepAdvances
<1>1. IInv /\ [Next]_vars => [Advances]_vars
  <2>1. ASSUME IInv, Caller PROVE Advances
    BY <2>1 DEF Caller, CloseErrors, Return, Advances, NothingGoesBack, SomethingMoves,
                Rank, PartRank, IInv, TypeOK
  <2>2. QED
    BY <2>1, StackAdvances, PartAdvances DEF Next, Networks
<1>2. QED
  BY <1>1, Invariance, PTL DEF Spec, EveryStepAdvances
=============================================================================
