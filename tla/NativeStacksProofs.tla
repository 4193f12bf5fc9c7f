-------------------------- MODULE NativeStacksProofs --------------------------
(***************************************************************************)
(* The invariants of NativeStacks and its refinement of StackTermination,  *)
(* for all stacks and parts.  A stack that is done is reported, or it has  *)
(* no failure and all its parts are done (DonePlace); while it still waits *)
(* for the first error of its parts, a failure is one that is about to be  *)
(* sent (RangePlace); its channel is closed twice or used after its close  *)
(* only when it has failed (ClosePlace).                                   *)
(***************************************************************************)
EXTENDS NativeStacks, Naturals, TLAPS

PartPlace(r) ==
  /\ (part[r] = "idle" <=> StackOf[r] \notin terminated)
  /\ part[r] = "send" => StackOf[r] \in failed
  /\ part[r] = "done" /\ StackOf[r] \notin failed => r \in gone

PartPlaces == \A r \in Parts : PartPlace(r)

\* Before the fan-out nothing has happened, and the fan-out is of a native stack.
EarlyPlace(s) ==
  /\ pc[s] \in {"start", "terminate", "wait", "describe", "resources", "deleting"} =>
       s \notin terminated \cup failed
  /\ pc[s] \in {"terminate", "wait"} => type[s] = "native"
  /\ pc[s] \in {"describe", "resources", "deleting"} => type[s] = "cf"
  /\ pc[s] \in {"range", "close"} => s \in terminated
  /\ s \in terminated => type[s] = "native"
  /\ dryRun => pc[s] \in {"start", "done"} /\ s \notin terminated \cup failed

RangePlace(s) ==
  pc[s] = "range" =>
    /\ s \in failed => \E r \in PartsOf(s) : part[r] = "send"
    /\ s \in closed => s \in closer

ClosePlace(s) ==
  /\ pc[s] \in {"close", "status", "report"} => s \in failed
  /\ s \in closer => AllPartsDone(s)
  /\ s \in closed \ closer => s \in failed

DonePlace(s) ==
  /\ s \in errs => pc[s] = "done"
  /\ pc[s] = "done" /\ s \notin errs =>
       /\ s \notin failed
       /\ \/ dryRun
          \/ type[s] = "cf" /\ s \in gone /\ ResourcesOf(s) \subseteq gone \cup missing
          \/ s \in terminated /\ AllPartsDone(s)

StackPlaces ==
  \A s \in Stacks : EarlyPlace(s) /\ RangePlace(s) /\ ClosePlace(s) /\ DonePlace(s)

Closing ==
  /\ outerClosed => AllStacksDone
  /\ returned => outerClosed

IInv ==
  /\ TypeOK
  /\ PartPlaces
  /\ StackPlaces
  /\ Closing

-----------------------------------------------------------------------------
\* The initial states satisfy the invariant.
LEMMA InitInvariant == Init => IInv
<1> SUFFICES ASSUME Init PROVE IInv
  OBVIOUS
<1> USE DEF Init
<1>1. TypeOK
  BY DEF TypeOK
<1>2. PartPlaces
  BY NativeStacksAssumption DEF PartPlaces, PartPlace
<1>3. StackPlaces /\ Closing
  BY DEF StackPlaces, EarlyPlace, RangePlace, ClosePlace, DonePlace, Closing
<1> QED
  BY <1>1, <1>2, <1>3 DEF IInv

-----------------------------------------------------------------------------
(* Every action keeps the invariant: one lemma for each.                   *)

LEMMA StartStep ==
  ASSUME IInv, NEW s \in Stacks, Start(s)
  PROVE  IInv'
<1> USE NativeStacksAssumption DEF Start, At, Goto, input, cf, outer, cloud
<1>1. TypeOK'
  BY DEF FirstCall, IInv, TypeOK, Input
<1>2. PartPlaces'
  BY DEF IInv, PartPlaces, PartPlace
<1>3. ASSUME NEW q \in Stacks PROVE (EarlyPlace(q) /\ RangePlace(q))'
  BY DEF FirstCall, IInv, StackPlaces, EarlyPlace, RangePlace
<1>4. ASSUME NEW q \in Stacks PROVE ClosePlace(q)'
  BY DEF FirstCall, IInv, StackPlaces, ClosePlace, AllPartsDone
<1>5. ASSUME NEW q \in Stacks PROVE DonePlace(q)'
  BY DEF FirstCall, IInv, StackPlaces, DonePlace, AllPartsDone
<1>6. Closing'
  BY DEF IInv, Closing, AllStacksDone
<1> QED
  BY <1>1, <1>2, <1>3, <1>4, <1>5, <1>6 DEF IInv, StackPlaces

LEMMA SkipOnDryRunStep ==
  ASSUME IInv, NEW s \in Stacks, SkipOnDryRun(s)
  PROVE  IInv'
<1> USE NativeStacksAssumption DEF SkipOnDryRun, At, Goto, input, cf, outer, cloud
<1>1. TypeOK'
  BY DEF IInv, TypeOK, Input
<1>2. PartPlaces'
  BY DEF IInv, PartPlaces, PartPlace
<1>3. ASSUME NEW q \in Stacks PROVE (EarlyPlace(q) /\ RangePlace(q))'
  BY DEF IInv, StackPlaces, EarlyPlace, RangePlace
<1>4. ASSUME NEW q \in Stacks PROVE ClosePlace(q)'
  BY DEF IInv, TypeOK, StackPlaces, EarlyPlace, ClosePlace
<1>5. ASSUME NEW q \in Stacks PROVE DonePlace(q)'
  BY DEF IInv, StackPlaces, EarlyPlace, DonePlace
<1>6. Closing'
  BY DEF IInv, Closing, AllStacksDone
<1> QED
  BY <1>1, <1>2, <1>3, <1>4, <1>5, <1>6 DEF IInv, StackPlaces

LEMMA NotImplementedStep ==
  ASSUME IInv, NEW s \in Stacks, NotImplemented(s)
  PROVE  IInv'
<1> USE NativeStacksAssumption DEF NotImplemented, At, Goto, input, cf, outer
<1>1. TypeOK'
  BY DEF IInv, TypeOK, Input
<1>2. PartPlaces'
  BY DEF IInv, PartPlaces, PartPlace
<1>3. ASSUME NEW q \in Stacks PROVE (EarlyPlace(q) /\ RangePlace(q))'
  BY DEF IInv, TypeOK, StackPlaces, EarlyPlace, RangePlace
<1>4. ASSUME NEW q \in Stacks PROVE ClosePlace(q)'
  BY DEF IInv, StackPlaces, ClosePlace, AllPartsDone
<1>5. ASSUME NEW q \in Stacks PROVE DonePlace(q)'
  BY DEF IInv, StackPlaces, DonePlace, AllPartsDone
<1>6. Closing'
  BY DEF IInv, Closing, AllStacksDone
<1> QED
  BY <1>1, <1>2, <1>3, <1>4, <1>5, <1>6 DEF IInv, StackPlaces

LEMMA DescribeStackResourcesStep ==
  ASSUME IInv, NEW s \in Stacks, DescribeStackResources(s)
  PROVE  IInv'
<1> USE NativeStacksAssumption DEF DescribeStackResources, At, Goto, input, cf, outer, cloud
<1>1. TypeOK'
  BY DEF IInv, TypeOK, Input
<1>2. PartPlaces'
  BY DEF IInv, PartPlaces, PartPlace
<1>3. ASSUME NEW q \in Stacks PROVE (EarlyPlace(q) /\ RangePlace(q))'
  BY DEF IInv, TypeOK, StackPlaces, EarlyPlace, RangePlace
<1>4. ASSUME NEW q \in Stacks PROVE ClosePlace(q)'
  BY DEF IInv, TypeOK, StackPlaces, ClosePlace, AllPartsDone
<1>5. ASSUME NEW q \in Stacks PROVE DonePlace(q)'
  BY DEF IInv, TypeOK, StackPlaces, EarlyPlace, DonePlace, AllPartsDone, ResourcesOf
<1>6. Closing'
  BY DEF IInv, Closing, AllStacksDone
<1> QED
  BY <1>1, <1>2, <1>3, <1>4, <1>5, <1>6 DEF IInv, StackPlaces

LEMMA PassResourceStep ==
  ASSUME IInv, NEW s \in Stacks, NEW r \in pending, PassResource(s, r)
  PROVE  IInv'
<1> USE NativeStacksAssumption DEF PassResource, NextResource, At, input, outer
<1>1. TypeOK'
  BY DEF IInv, TypeOK, Input
<1>2. PartPlaces'
  BY DEF IInv, PartPlaces, PartPlace
<1>3. ASSUME NEW q \in Stacks PROVE (EarlyPlace(q) /\ RangePlace(q))'
  BY DEF IInv, TypeOK, StackPlaces, EarlyPlace, RangePlace
<1>4. ASSUME NEW q \in Stacks PROVE ClosePlace(q)'
  BY DEF IInv, TypeOK, StackPlaces, ClosePlace, AllPartsDone
<1>5. ASSUME NEW q \in Stacks PROVE DonePlace(q)'
  BY DEF IInv, TypeOK, StackPlaces, EarlyPlace, DonePlace, AllPartsDone, ResourcesOf
<1>6. Closing'
  BY DEF IInv, Closing, AllStacksDone
<1> QED
  BY <1>1, <1>2, <1>3, <1>4, <1>5, <1>6 DEF IInv, StackPlaces

LEMMA RetainMissingStep ==
  ASSUME IInv, NEW s \in Stacks, NEW r \in pending, RetainMissing(s, r)
  PROVE  IInv'
<1> USE NativeStacksAssumption DEF RetainMissing, NextResource, At, input, outer
<1>1. TypeOK'
  BY DEF IInv, TypeOK, Input
<1>2. PartPlaces'
  BY DEF IInv, PartPlaces, PartPlace
<1>3. ASSUME NEW q \in Stacks PROVE (EarlyPlace(q) /\ RangePlace(q))'
  BY DEF IInv, TypeOK, StackPlaces, EarlyPlace, RangePlace
<1>4. ASSUME NEW q \in Stacks PROVE ClosePlace(q)'
  BY DEF IInv, TypeOK, StackPlaces, ClosePlace, AllPartsDone
<1>5. ASSUME NEW q \in Stacks PROVE DonePlace(q)'
  BY DEF IInv, TypeOK, StackPlaces, EarlyPlace, DonePlace, AllPartsDone, ResourcesOf
<1>6. Closing'
  BY DEF IInv, Closing, AllStacksDone
<1> QED
  BY <1>1, <1>2, <1>3, <1>4, <1>5, <1>6 DEF IInv, StackPlaces

LEMMA DeleteResourceStep ==
  ASSUME IInv, NEW s \in Stacks, NEW r \in pending, DeleteResource(s, r)
  PROVE  IInv'
<1> USE NativeStacksAssumption DEF DeleteResource, NextResource, At, input, outer
<1>1. TypeOK'
  BY DEF IInv, TypeOK, Input
<1>2. PartPlaces'
  BY DEF IInv, PartPlaces, PartPlace
<1>3. ASSUME NEW q \in Stacks PROVE (EarlyPlace(q) /\ RangePlace(q))'
  BY DEF IInv, TypeOK, StackPlaces, EarlyPlace, RangePlace
<1>4. ASSUME NEW q \in Stacks PROVE ClosePlace(q)'
  BY DEF IInv, TypeOK, StackPlaces, ClosePlace, AllPartsDone
<1>5. ASSUME NEW q \in Stacks PROVE DonePlace(q)'
  BY DEF IInv, TypeOK, StackPlaces, EarlyPlace, DonePlace, AllPartsDone, ResourcesOf
<1>6. Closing'
  BY DEF IInv, Closing, AllStacksDone
<1> QED
  BY <1>1, <1>2, <1>3, <1>4, <1>5, <1>6 DEF IInv, StackPlaces

LEMMA DeleteStackStep ==
  ASSUME IInv, NEW s \in Stacks, DeleteStack(s)
  PROVE  IInv'
<1> USE NativeStacksAssumption DEF DeleteStack, At, Goto, input, cf, outer, cloud
<1>1. TypeOK'
  BY DEF IInv, TypeOK, Input
<1>2. PartPlaces'
  BY DEF IInv, PartPlaces, PartPlace
<1>3. ASSUME NEW q \in Stacks PROVE (EarlyPlace(q) /\ RangePlace(q))'
  BY DEF IInv, TypeOK, StackPlaces, EarlyPlace, RangePlace
<1>4. ASSUME NEW q \in Stacks PROVE ClosePlace(q)'
  BY DEF IInv, TypeOK, StackPlaces, ClosePlace, AllPartsDone
<1>5. ASSUME NEW q \in Stacks PROVE DonePlace(q)'
  BY DEF IInv, TypeOK, StackPlaces, EarlyPlace, DonePlace, AllPartsDone, ResourcesOf
<1>6. Closing'
  BY DEF IInv, Closing, AllStacksDone
<1> QED
  BY <1>1, <1>2, <1>3, <1>4, <1>5, <1>6 DEF IInv, StackPlaces

LEMMA WaitUntilStackDeleteCompleteStep ==
  ASSUME IInv, NEW s \in Stacks, WaitUntilStackDeleteComplete(s)
  PROVE  IInv'
<1> USE NativeStacksAssumption DEF WaitUntilStackDeleteComplete, At, Goto, input, cf, outer
<1>1. TypeOK'
  BY DEF IInv, TypeOK, Input, ResourcesOf
<1>2. PartPlaces'
  BY DEF IInv, PartPlaces, PartPlace
<1>3. ASSUME NEW q \in Stacks PROVE (EarlyPlace(q) /\ RangePlace(q))'
  BY DEF IInv, TypeOK, StackPlaces, EarlyPlace, RangePlace
<1>4. ASSUME NEW q \in Stacks PROVE ClosePlace(q)'
  BY DEF IInv, TypeOK, StackPlaces, ClosePlace, AllPartsDone
<1>5. ASSUME NEW q \in Stacks PROVE DonePlace(q)'
  BY DEF IInv, TypeOK, StackPlaces, EarlyPlace, DonePlace, AllPartsDone, ResourcesOf
<1>6. Closing'
  BY DEF IInv, Closing, AllStacksDone
<1> QED
  BY <1>1, <1>2, <1>3, <1>4, <1>5, <1>6 DEF IInv, StackPlaces

LEMMA WaitFailsStep ==
  ASSUME IInv, NEW s \in Stacks, WaitFails(s)
  PROVE  IInv'
<1> USE NativeStacksAssumption DEF WaitFails, At, Goto, input, cf, outer
<1>1. TypeOK'
  BY DEF IInv, TypeOK, Input
<1>2. PartPlaces'
  BY DEF IInv, PartPlaces, PartPlace
<1>3. ASSUME NEW q \in Stacks PROVE (EarlyPlace(q) /\ RangePlace(q))'
  BY DEF IInv, TypeOK, StackPlaces, EarlyPlace, RangePlace
<1>4. ASSUME NEW q \in Stacks PROVE ClosePlace(q)'
  BY DEF IInv, TypeOK, StackPlaces, ClosePlace, AllPartsDone
<1>5. ASSUME NEW q \in Stacks PROVE DonePlace(q)'
  BY DEF IInv, TypeOK, StackPlaces, EarlyPlace, DonePlace, AllPartsDone, ResourcesOf
<1>6. Closing'
  BY DEF IInv, Closing, AllStacksDone
<1> QED
  BY <1>1, <1>2, <1>3, <1>4, <1>5, <1>6 DEF IInv, StackPlaces

LEMMA DescribeStacksStep ==
  ASSUME IInv, NEW s \in Stacks, DescribeStacks(s)
  PROVE  IInv'
<1> USE NativeStacksAssumption DEF DescribeStacks, At, Goto, input, cf, outer, cloud
<1>1. TypeOK'
  BY DEF IInv, TypeOK, Input
<1>2. PartPlaces'
  BY DEF IInv, PartPlaces, PartPlace
<1>3. ASSUME NEW q \in Stacks PROVE (EarlyPlace(q) /\ RangePlace(q))'
  BY DEF IInv, TypeOK, StackPlaces, EarlyPlace, RangePlace
<1>4. ASSUME NEW q \in Stacks PROVE ClosePlace(q)'
  BY DEF IInv, TypeOK, StackPlaces, ClosePlace, AllPartsDone
<1>5. ASSUME NEW q \in Stacks PROVE DonePlace(q)'
  BY DEF IInv, TypeOK, StackPlaces, EarlyPlace, DonePlace, AllPartsDone, ResourcesOf
<1>6. Closing'
  BY DEF IInv, Closing, AllStacksDone
<1> QED
  BY <1>1, <1>2, <1>3, <1>4, <1>5, <1>6 DEF IInv, StackPlaces

LEMMA NoStatusReasonStep ==
  ASSUME IInv, NEW s \in Stacks, NoStatusReason(s)
  PROVE  IInv'
<1> USE NativeStacksAssumption DEF NoStatusReason, At, input, cf, outer, cloud
<1>1. TypeOK'
  BY DEF IInv, TypeOK, Input
<1>2. PartPlaces'
  BY DEF IInv, PartPlaces, PartPlace
<1>3. ASSUME NEW q \in Stacks PROVE (EarlyPlace(q) /\ RangePlace(q))'
  BY DEF IInv, TypeOK, StackPlaces, EarlyPlace, RangePlace
<1>4. ASSUME NEW q \in Stacks PROVE ClosePlace(q)'
  BY DEF IInv, TypeOK, StackPlaces, ClosePlace, AllPartsDone
<1>5. ASSUME NEW q \in Stacks PROVE DonePlace(q)'
  BY DEF IInv, TypeOK, StackPlaces, EarlyPlace, DonePlace, AllPartsDone, ResourcesOf
<1>6. Closing'
  BY DEF IInv, StackPlaces, ClosePlace, Closing, AllStacksDone
<1> QED
  BY <1>1, <1>2, <1>3, <1>4, <1>5, <1>6 DEF IInv, StackPlaces

LEMMA NoPhysicalIdStep ==
  ASSUME IInv, NEW s \in Stacks, NEW r \in pending, NoPhysicalId(s, r)
  PROVE  IInv'
<1> USE NativeStacksAssumption DEF NoPhysicalId, At, input, cf, outer, cloud
<1>1. TypeOK'
  BY DEF IInv, TypeOK, Input
<1>2. PartPlaces'
  BY DEF IInv, PartPlaces, PartPlace
<1>3. ASSUME NEW q \in Stacks PROVE (EarlyPlace(q) /\ RangePlace(q))'
  BY DEF IInv, TypeOK, StackPlaces, EarlyPlace, RangePlace
<1>4. ASSUME NEW q \in Stacks PROVE ClosePlace(q)'
  BY DEF IInv, TypeOK, StackPlaces, ClosePlace, AllPartsDone
<1>5. ASSUME NEW q \in Stacks PROVE DonePlace(q)'
  BY DEF IInv, TypeOK, StackPlaces, EarlyPlace, DonePlace, AllPartsDone, ResourcesOf
<1>6. Closing'
  BY DEF IInv, Closing, AllStacksDone
<1> QED
  BY <1>1, <1>2, <1>3, <1>4, <1>5, <1>6 DEF IInv, StackPlaces

LEMMA TerminateInstancesStep ==
  ASSUME IInv, NEW s \in Stacks, TerminateInstances(s)
  PROVE  IInv'
<1> USE NativeStacksAssumption DEF TerminateInstances, At, Goto, input, cf, outer, cloud
<1>1. TypeOK'
  BY DEF IInv, TypeOK, Input
<1>2. PartPlaces'
  BY DEF IInv, PartPlaces, PartPlace
<1>3. ASSUME NEW q \in Stacks PROVE (EarlyPlace(q) /\ RangePlace(q))'
  BY DEF IInv, StackPlaces, EarlyPlace, RangePlace
<1>4. ASSUME NEW q \in Stacks PROVE ClosePlace(q)'
  BY DEF IInv, StackPlaces, ClosePlace, AllPartsDone
<1>5. ASSUME NEW q \in Stacks PROVE DonePlace(q)'
  BY DEF IInv, StackPlaces, DonePlace, AllPartsDone
<1>6. Closing'
  BY DEF IInv, Closing, AllStacksDone
<1> QED
  BY <1>1, <1>2, <1>3, <1>4, <1>5, <1>6 DEF IInv, StackPlaces

LEMMA WaitUntilTerminatedStep ==
  ASSUME IInv, NEW s \in Stacks, WaitUntilTerminated(s)
  PROVE  IInv'
<1> USE NativeStacksAssumption DEF WaitUntilTerminated, At, Goto, StartParts, input, cf, outer
<1>1. TypeOK'
  BY DEF IInv, TypeOK, Input
<1>2. PartPlaces'
  BY DEF IInv, PartPlaces, PartPlace
<1>3. ASSUME NEW q \in Stacks PROVE (EarlyPlace(q) /\ RangePlace(q))'
  BY DEF IInv, TypeOK, StackPlaces, EarlyPlace, RangePlace, PartsOf
<1>4. ASSUME NEW q \in Stacks PROVE ClosePlace(q)'
  BY DEF IInv, TypeOK, StackPlaces, EarlyPlace, ClosePlace, AllPartsDone, PartsOf
<1>5. ASSUME NEW q \in Stacks PROVE DonePlace(q)'
  BY DEF IInv, StackPlaces, DonePlace, AllPartsDone, PartsOf
<1>6. Closing'
  BY DEF IInv, Closing, AllStacksDone
<1> QED
  BY <1>1, <1>2, <1>3, <1>4, <1>5, <1>6 DEF IInv, StackPlaces

LEMMA StackCallFailsStep ==
  ASSUME IInv, NEW s \in Stacks, StackCallFails(s)
  PROVE  IInv'
<1> USE NativeStacksAssumption DEF StackCallFails, At, Goto, input, cf, outer
<1>1. TypeOK'
  BY DEF IInv, TypeOK, Input
<1>2. PartPlaces'
  BY DEF IInv, PartPlaces, PartPlace
<1>3. ASSUME NEW q \in Stacks PROVE (EarlyPlace(q) /\ RangePlace(q))'
  BY DEF IInv, TypeOK, StackPlaces, EarlyPlace, RangePlace
<1>4. ASSUME NEW q \in Stacks PROVE ClosePlace(q)'
  BY DEF IInv, StackPlaces, ClosePlace, AllPartsDone
<1>5. ASSUME NEW q \in Stacks PROVE DonePlace(q)'
  BY DEF IInv, StackPlaces, DonePlace, AllPartsDone
<1>6. Closing'
  BY DEF IInv, Closing, AllStacksDone
<1> QED
  BY <1>1, <1>2, <1>3, <1>4, <1>5, <1>6 DEF IInv, StackPlaces

LEMMA UnprotectStep ==
  ASSUME IInv, NEW r \in Parts, Unprotect(r)
  PROVE  IInv'
<1> USE NativeStacksAssumption DEF Unprotect, PartAt, PartGoto, input, cf, outer, cloud
<1>1. TypeOK'
  BY DEF IInv, TypeOK, Input
<1>2. PartPlaces'
  BY DEF IInv, PartPlaces, PartPlace
<1>3. ASSUME NEW q \in Stacks PROVE (EarlyPlace(q) /\ RangePlace(q))'
  BY DEF IInv, StackPlaces, EarlyPlace, RangePlace
<1>4. ASSUME NEW q \in Stacks PROVE ClosePlace(q)'
  BY DEF IInv, StackPlaces, ClosePlace, AllPartsDone
<1>5. ASSUME NEW q \in Stacks PROVE DonePlace(q)'
  BY DEF IInv, StackPlaces, DonePlace, AllPartsDone
<1>6. Closing'
  BY DEF IInv, Closing, AllStacksDone
<1> QED
  BY <1>1, <1>2, <1>3, <1>4, <1>5, <1>6 DEF IInv, StackPlaces

LEMMA NotFoundStep ==
  ASSUME IInv, NEW r \in Parts, NotFound(r)
  PROVE  IInv'
<1> USE NativeStacksAssumption DEF NotFound, PartAt, PartGoto, input, cf, outer
<1>1. TypeOK'
  BY DEF IInv, TypeOK, Input
<1>2. PartPlaces'
  BY DEF IInv, PartPlaces, PartPlace
<1>3. ASSUME NEW q \in Stacks PROVE (EarlyPlace(q) /\ RangePlace(q))'
  BY DEF IInv, StackPlaces, EarlyPlace, RangePlace
<1>4. ASSUME NEW q \in Stacks PROVE ClosePlace(q)'
  BY DEF IInv, StackPlaces, ClosePlace, AllPartsDone
<1>5. ASSUME NEW q \in Stacks PROVE DonePlace(q)'
  BY DEF IInv, StackPlaces, DonePlace, AllPartsDone
<1>6. Closing'
  BY DEF IInv, Closing, AllStacksDone
<1> QED
  BY <1>1, <1>2, <1>3, <1>4, <1>5, <1>6 DEF IInv, StackPlaces

LEMMA DeletePartStep ==
  ASSUME IInv, NEW r \in Parts, DeletePart(r)
  PROVE  IInv'
<1> USE NativeStacksAssumption DEF DeletePart, PartAt, PartGoto, input, cf, outer
<1>1. TypeOK'
  BY DEF IInv, TypeOK, Input
<1>2. PartPlaces'
  BY DEF IInv, PartPlaces, PartPlace
<1>3. ASSUME NEW q \in Stacks PROVE (EarlyPlace(q) /\ RangePlace(q))'
  BY DEF IInv, StackPlaces, EarlyPlace, RangePlace
<1>4. ASSUME NEW q \in Stacks PROVE ClosePlace(q)'
  BY DEF IInv, StackPlaces, ClosePlace, AllPartsDone
<1>5. ASSUME NEW q \in Stacks PROVE DonePlace(q)'
  BY DEF IInv, StackPlaces, DonePlace, AllPartsDone
<1>6. Closing'
  BY DEF IInv, Closing, AllStacksDone
<1> QED
  BY <1>1, <1>2, <1>3, <1>4, <1>5, <1>6 DEF IInv, StackPlaces

LEMMA PartFailsStep ==
  ASSUME IInv, NEW r \in Parts, PartFails(r)
  PROVE  IInv'
<1> USE NativeStacksAssumption DEF PartFails, PartAt, PartGoto, input, cf, outer
<1>1. TypeOK'
  BY DEF IInv, TypeOK, Input, PartPlaces, PartPlace
<1>2. PartPlaces'
  BY DEF IInv, PartPlaces, PartPlace
<1>3. ASSUME NEW q \in Stacks PROVE (EarlyPlace(q) /\ RangePlace(q))'
  BY DEF IInv, TypeOK, PartPlaces, PartPlace, StackPlaces, EarlyPlace, RangePlace, PartsOf
<1>4. ASSUME NEW q \in Stacks PROVE ClosePlace(q)'
  BY DEF IInv, StackPlaces, ClosePlace, AllPartsDone
<1>5. ASSUME NEW q \in Stacks PROVE DonePlace(q)'
  BY DEF IInv, PartPlaces, PartPlace, StackPlaces, EarlyPlace, DonePlace, AllPartsDone, PartsOf
<1>6. Closing'
  BY DEF IInv, Closing, AllStacksDone
<1> QED
  BY <1>1, <1>2, <1>3, <1>4, <1>5, <1>6 DEF IInv, StackPlaces

LEMMA SendPartErrorStep ==
  ASSUME IInv, NEW r \in Parts, SendPartError(r)
  PROVE  IInv'
<1> USE NativeStacksAssumption DEF SendPartError, PartAt, Goto, PartGoto, input, cf, outer, cloud
<1>1. TypeOK'
  BY DEF IInv, TypeOK, Input
<1>2. PartPlaces'
  BY DEF IInv, PartPlaces, PartPlace
<1>3. ASSUME NEW q \in Stacks PROVE (EarlyPlace(q) /\ RangePlace(q))'
  BY DEF IInv, TypeOK, StackPlaces, EarlyPlace, RangePlace, PartsOf
<1>4. ASSUME NEW q \in Stacks PROVE ClosePlace(q)'
  BY DEF IInv, PartPlaces, PartPlace, StackPlaces, ClosePlace, AllPartsDone
<1>5. ASSUME NEW q \in Stacks PROVE DonePlace(q)'
  BY DEF IInv, StackPlaces, DonePlace, AllPartsDone
<1>6. Closing'
  BY DEF IInv, Closing, AllStacksDone
<1> QED
  BY <1>1, <1>2, <1>3, <1>4, <1>5, <1>6 DEF IInv, StackPlaces

LEMMA SendOnClosedStep ==
  ASSUME IInv, NEW r \in Parts, SendOnClosed(r)
  PROVE  IInv'
<1> USE NativeStacksAssumption DEF SendOnClosed, PartAt, input, cf, outer, cloud
<1>1. TypeOK'
  BY DEF IInv, TypeOK, Input
<1>2. PartPlaces'
  BY DEF IInv, PartPlaces, PartPlace
<1>3. ASSUME NEW q \in Stacks PROVE (EarlyPlace(q) /\ RangePlace(q))'
  BY DEF IInv, StackPlaces, EarlyPlace, RangePlace
<1>4. ASSUME NEW q \in Stacks PROVE ClosePlace(q)'
  BY DEF IInv, StackPlaces, ClosePlace, AllPartsDone
<1>5. ASSUME NEW q \in Stacks PROVE DonePlace(q)'
  BY DEF IInv, StackPlaces, DonePlace, AllPartsDone
<1>6. Closing'
  BY DEF IInv, PartPlaces, PartPlace, Closing, AllStacksDone
<1> QED
  BY <1>1, <1>2, <1>3, <1>4, <1>5, <1>6 DEF IInv, StackPlaces

LEMMA CloseWhenDoneStep ==
  ASSUME IInv, NEW s \in Stacks, CloseWhenDone(s)
  PROVE  IInv'
<1> USE NativeStacksAssumption DEF CloseWhenDone, input, cf, outer, cloud
<1>1. TypeOK'
  BY DEF IInv, TypeOK, Input
<1>2. PartPlaces'
  BY DEF IInv, PartPlaces, PartPlace
<1>3. ASSUME NEW q \in Stacks PROVE (EarlyPlace(q) /\ RangePlace(q))'
  BY DEF IInv, StackPlaces, EarlyPlace, RangePlace
<1>4. ASSUME NEW q \in Stacks PROVE ClosePlace(q)'
  BY DEF IInv, StackPlaces, ClosePlace, AllPartsDone
<1>5. ASSUME NEW q \in Stacks PROVE DonePlace(q)'
  BY DEF IInv, StackPlaces, DonePlace, AllPartsDone
<1>6. Closing'
  BY DEF IInv, StackPlaces, ClosePlace, Closing, AllStacksDone
<1> QED
  BY <1>1, <1>2, <1>3, <1>4, <1>5, <1>6 DEF IInv, StackPlaces

LEMMA CloseOnErrorStep ==
  ASSUME IInv, NEW s \in Stacks, CloseOnError(s)
  PROVE  IInv'
<1> USE NativeStacksAssumption DEF CloseOnError, At, Goto, input, cf, outer, cloud
<1>1. TypeOK'
  BY DEF IInv, TypeOK, Input, StackPlaces, EarlyPlace
<1>2. PartPlaces'
  BY DEF IInv, PartPlaces, PartPlace
<1>3. ASSUME NEW q \in Stacks PROVE (EarlyPlace(q) /\ RangePlace(q))'
  BY DEF IInv, StackPlaces, EarlyPlace, RangePlace
<1>4. ASSUME NEW q \in Stacks PROVE ClosePlace(q)'
  BY DEF IInv, StackPlaces, ClosePlace, AllPartsDone
<1>5. ASSUME NEW q \in Stacks PROVE DonePlace(q)'
  BY DEF IInv, StackPlaces, DonePlace, AllPartsDone
<1>6. Closing'
  BY DEF IInv, StackPlaces, ClosePlace, Closing, AllStacksDone
<1> QED
  BY <1>1, <1>2, <1>3, <1>4, <1>5, <1>6 DEF IInv, StackPlaces

LEMMA RangeEndsStep ==
  ASSUME IInv, NEW s \in Stacks, RangeEnds(s)
  PROVE  IInv'
<1> USE NativeStacksAssumption DEF RangeEnds, At, Goto, input, cf, outer, cloud
<1>1. TypeOK'
  BY DEF IInv, TypeOK, Input
<1>2. PartPlaces'
  BY DEF IInv, PartPlaces, PartPlace
<1>3. ASSUME NEW q \in Stacks PROVE (EarlyPlace(q) /\ RangePlace(q))'
  BY DEF IInv, StackPlaces, EarlyPlace, RangePlace
<1>4. ASSUME NEW q \in Stacks PROVE ClosePlace(q)'
  BY DEF IInv, StackPlaces, ClosePlace, AllPartsDone
<1>5. ASSUME NEW q \in Stacks PROVE DonePlace(q)'
  BY DEF IInv, TypeOK, StackPlaces, RangePlace, ClosePlace, DonePlace, AllPartsDone
<1>6. Closing'
  BY DEF IInv, Closing, AllStacksDone
<1> QED
  BY <1>1, <1>2, <1>3, <1>4, <1>5, <1>6 DEF IInv, StackPlaces

LEMMA ReportStep ==
  ASSUME IInv, NEW s \in Stacks, Report(s)
  PROVE  IInv'
<1> USE NativeStacksAssumption DEF Report, At, Goto, input, cf, cloud
<1>1. TypeOK'
  BY DEF IInv, TypeOK, Input, StackPlaces, ClosePlace
<1>2. PartPlaces'
  BY DEF IInv, PartPlaces, PartPlace
<1>3. ASSUME NEW q \in Stacks PROVE (EarlyPlace(q) /\ RangePlace(q))'
  BY DEF IInv, StackPlaces, EarlyPlace, RangePlace
<1>4. ASSUME NEW q \in Stacks PROVE ClosePlace(q)'
  BY DEF IInv, StackPlaces, ClosePlace, AllPartsDone
<1>5. ASSUME NEW q \in Stacks PROVE DonePlace(q)'
  BY DEF IInv, TypeOK, StackPlaces, DonePlace, AllPartsDone
<1>6. Closing'
  BY DEF IInv, Closing
<1> QED
  BY <1>1, <1>2, <1>3, <1>4, <1>5, <1>6 DEF IInv, StackPlaces

LEMMA CloseOuterStep ==
  ASSUME IInv, CloseOuter
  PROVE  IInv'
<1> USE NativeStacksAssumption DEF CloseOuter, input, cf, cloud
<1>1. TypeOK'
  BY DEF IInv, TypeOK, Input
<1>2. PartPlaces'
  BY DEF IInv, PartPlaces, PartPlace
<1>3. ASSUME NEW q \in Stacks PROVE (EarlyPlace(q) /\ RangePlace(q))'
  BY DEF IInv, StackPlaces, EarlyPlace, RangePlace
<1>4. ASSUME NEW q \in Stacks PROVE ClosePlace(q)'
  BY DEF IInv, StackPlaces, ClosePlace, AllPartsDone
<1>5. ASSUME NEW q \in Stacks PROVE DonePlace(q)'
  BY DEF IInv, StackPlaces, DonePlace, AllPartsDone
<1>6. Closing'
  BY DEF Closing, AllStacksDone
<1> QED
  BY <1>1, <1>2, <1>3, <1>4, <1>5, <1>6 DEF IInv, StackPlaces

LEMMA ReturnStep ==
  ASSUME IInv, Return
  PROVE  IInv'
<1> USE NativeStacksAssumption DEF Return, input, cf, cloud
<1>1. TypeOK'
  BY DEF IInv, TypeOK, Input
<1>2. PartPlaces'
  BY DEF IInv, PartPlaces, PartPlace
<1>3. ASSUME NEW q \in Stacks PROVE (EarlyPlace(q) /\ RangePlace(q))'
  BY DEF IInv, StackPlaces, EarlyPlace, RangePlace
<1>4. ASSUME NEW q \in Stacks PROVE ClosePlace(q)'
  BY DEF IInv, StackPlaces, ClosePlace, AllPartsDone
<1>5. ASSUME NEW q \in Stacks PROVE DonePlace(q)'
  BY DEF IInv, StackPlaces, DonePlace, AllPartsDone
<1>6. Closing'
  BY DEF IInv, Closing, AllStacksDone
<1> QED
  BY <1>1, <1>2, <1>3, <1>4, <1>5, <1>6 DEF IInv, StackPlaces

LEMMA StutterStep ==
  ASSUME IInv, UNCHANGED vars
  PROVE  IInv'
<1> USE DEF vars, input, cf, outer, cloud
<1>1. TypeOK' /\ PartPlaces'
  BY DEF IInv, TypeOK, Input, PartPlaces, PartPlace
<1>2. StackPlaces' /\ Closing'
  BY DEF IInv, StackPlaces, EarlyPlace, RangePlace, ClosePlace, DonePlace, AllPartsDone,
     Closing, AllStacksDone
<1> QED
  BY <1>1, <1>2 DEF IInv

\* Every step keeps the invariant.
LEMMA StepInvariant == IInv /\ [Next]_vars => IInv'
<1> SUFFICES ASSUME IInv, [Next]_vars PROVE IInv'
  OBVIOUS
<1>1. ASSUME NEW s \in Stacks, StackStep(s) \/ CloseWhenDone(s) PROVE IInv'
  <2>1. ASSUME CfStackStep(s) PROVE IInv'
    BY <2>1, DescribeStackResourcesStep, PassResourceStep, RetainMissingStep,
       DeleteResourceStep, DeleteStackStep, WaitUntilStackDeleteCompleteStep, WaitFailsStep,
       DescribeStacksStep, NoStatusReasonStep, NoPhysicalIdStep DEF CfStackStep
  <2> QED
    BY <1>1, <2>1, StartStep, SkipOnDryRunStep, NotImplementedStep, TerminateInstancesStep,
       WaitUntilTerminatedStep, StackCallFailsStep, CloseOnErrorStep, RangeEndsStep,
       ReportStep, CloseWhenDoneStep DEF StackStep
<1>2. ASSUME NEW r \in Parts, PartStep(r) PROVE IInv'
  BY <1>2, UnprotectStep, NotFoundStep, DeletePartStep, PartFailsStep, SendPartErrorStep,
     SendOnClosedStep DEF PartStep
<1>3. CASE Caller
  BY <1>3, CloseOuterStep, ReturnStep DEF Caller
<1>4. CASE UNCHANGED vars
  BY <1>4, StutterStep
<1> QED
  BY <1>1, <1>2, <1>3, <1>4 DEF Next

\* Every reachable state satisfies the inductive invariant.
THEOREM Invariance == Spec => []IInv
BY InitInvariant, StepInvariant, PTL DEF Spec

-----------------------------------------------------------------------------
(* The invariants TLC checks, for every set of stacks and parts.           *)

\* Every variable of deleteStacks and of the goroutines of a stack keeps its type, and
\* only failed stacks are reported.
THEOREM TypeCorrect == Spec => []TypeOK
<1>1. IInv => TypeOK
  BY DEF IInv
<1> QED
  BY <1>1, Invariance, PTL

\* No goroutine of a part is started before the instances of its stack are
\* terminated, whatever the other stacks do and whatever fails.
THEOREM InstancesFirst == Spec => []PartsAfterInstances
<1>1. IInv => PartsAfterInstances
  BY DEF IInv, PartPlaces, PartPlace, PartsAfterInstances
<1> QED
  BY <1>1, Invariance, PTL

LEMMA ReturnedMeansDone ==
  ASSUME IInv, returned
  PROVE  \A s \in Stacks : pc[s] = "done"
BY DEF IInv, Closing, AllStacksDone

\* When TerminateStacks returns no error outside a dry run, every stack is
\* deleted with all its parts and resources, and no goroutine is left behind.
THEOREM CleanReturn == Spec => []CleanReturnMeansDeleted
<1>1. ASSUME IInv, returned, errs = {}, ~dryRun, NEW s \in Stacks
      PROVE  Deleted(s) /\ \A r \in PartsOf(s) : part[r] = "done"
  <2>1. /\ s \notin failed
        /\ \/ type[s] = "cf" /\ s \in gone /\ ResourcesOf(s) \subseteq gone \cup missing
           \/ s \in terminated /\ AllPartsDone(s)
    BY <1>1, ReturnedMeansDone DEF IInv, StackPlaces, DonePlace
  <2>2. CASE s \in terminated /\ AllPartsDone(s)
    <3>1. type[s] = "native"
      BY <1>1, <2>2 DEF IInv, StackPlaces, EarlyPlace
    <3>2. PartsOf(s) \subseteq gone
      BY <1>1, <2>1, <2>2 DEF AllPartsDone, PartsOf, IInv, PartPlaces, PartPlace
    <3> QED
      BY <2>2, <3>1, <3>2 DEF Deleted, AllPartsDone
  <2>3. CASE type[s] = "cf" /\ s \in gone /\ ResourcesOf(s) \subseteq gone \cup missing
    <3>1. PartsOf(s) = {}
      <4> SUFFICES ASSUME NEW r \in PartsOf(s) PROVE FALSE
        OBVIOUS
      <4>1. r \in Parts /\ StackOf[r] = s
        BY DEF PartsOf
      <4>2. PICK i \in Inputs : type = i.type
        BY <1>1 DEF IInv, TypeOK, Input
      <4> QED
        BY <2>3, <4>1, <4>2, NativeStacksAssumption
    <3> QED
      BY <2>3, <3>1 DEF Deleted
  <2> QED
    BY <2>1, <2>2, <2>3
<1>2. IInv => CleanReturnMeansDeleted
  BY <1>1 DEF CleanReturnMeansDeleted
<1> QED
  BY <1>2, Invariance, PTL

-----------------------------------------------------------------------------
(* deleteStacks implements StackTermination. *)

LEMMA InitRefines == Init => Abstract!Init
BY DEF Init, Abstract!Init, Outcome, Unreadable

\* What the code may fail to read is fixed by the input.
LEMMA UnreadableFixed == UNCHANGED input => UNCHANGED Unreadable
BY DEF input, Unreadable

\* The first failure of a stack that is not done is its outcome, and so is
\* the end of a stack without one.
LEMMA FinishRefines ==
  ASSUME IInv, NEW s \in Stacks, ~crashed, pc[s] # "done", s \notin failed,
         NEW o \in {"ok", "failed"}, Outcome(s)' = o,
         \A q \in Stacks \ {s} : Outcome(q)' = Outcome(q),
         UNCHANGED <<input, errs, returned, crashed>>
  PROVE  Abstract!Finish(s)
<1>1. ~returned
  BY ReturnedMeansDone
<1>2. Outcome(s) = "pending"
  BY DEF Outcome
<1> QED
  BY <1>1, <1>2, UnreadableFixed DEF Abstract!Finish

\* The goroutine of a stack ends without an error.
LEMMA EndRefines ==
  ASSUME IInv, NEW s \in Stacks, SkipOnDryRun(s) \/ WaitUntilStackDeleteComplete(s) \/ RangeEnds(s)
  PROVE  Abstract!Finish(s)
<1>1. /\ ~crashed /\ pc[s] \in {"start", "deleting", "range"}
      /\ pc' = [pc EXCEPT ![s] = "done"]
      /\ UNCHANGED <<input, failed, errs, returned, crashed>>
  BY DEF SkipOnDryRun, WaitUntilStackDeleteComplete, RangeEnds, At, Goto, outer, cloud
<1>2. s \notin failed
  <2>1. CASE SkipOnDryRun(s) \/ WaitUntilStackDeleteComplete(s)
    BY <2>1 DEF SkipOnDryRun, WaitUntilStackDeleteComplete, At, IInv, StackPlaces, EarlyPlace
  <2>2. CASE RangeEnds(s)
    <3>1. s \in closer
      BY <2>2 DEF RangeEnds, At, IInv, StackPlaces, RangePlace
    <3>2. AllPartsDone(s)
      BY <3>1 DEF IInv, StackPlaces, ClosePlace
    <3> QED
      BY <2>2, <3>2 DEF RangeEnds, At, AllPartsDone, IInv, StackPlaces, RangePlace
  <2> QED
    BY <2>1, <2>2
<1>3. Outcome(s)' = "ok"
  BY <1>1, <1>2 DEF Outcome, IInv, TypeOK
<1>4. \A q \in Stacks \ {s} : Outcome(q)' = Outcome(q)
  BY <1>1 DEF Outcome
<1> QED
  BY <1>1, <1>2, <1>3, <1>4, FinishRefines

\* A call of the stack's own goroutine fails.
LEMMA StackFailureRefines ==
  ASSUME IInv, NEW s \in Stacks, NotImplemented(s) \/ StackCallFails(s) \/ WaitFails(s)
  PROVE  Abstract!Finish(s)
<1>1. /\ ~crashed
      /\ pc[s] \in {"start", "terminate", "wait", "describe", "resources", "deleting"}
      /\ \E place \in {"report", "status"} : pc' = [pc EXCEPT ![s] = place]
      /\ failed' = failed \cup {s}
      /\ UNCHANGED <<input, errs, returned, crashed>>
  BY DEF NotImplemented, StackCallFails, WaitFails, At, Goto, outer
<1>2. s \notin failed
  BY <1>1 DEF IInv, StackPlaces, EarlyPlace
<1>3. Outcome(s)' = "failed"
  BY <1>1 DEF Outcome
<1>4. \A q \in Stacks \ {s} : Outcome(q)' = Outcome(q)
  BY <1>1 DEF Outcome
<1> QED
  BY <1>1, <1>2, <1>3, <1>4, FinishRefines

\* A part fails: its stack is not done, or has failed before.
LEMMA PartFailureRefines ==
  ASSUME IInv, NEW r \in Parts, PartFails(r)
  PROVE  Abstract!Finish(StackOf[r]) \/ UNCHANGED Abstract!vars
<1> DEFINE s == StackOf[r]
<1>1. /\ s \in Stacks /\ ~crashed /\ part[r] \in {"unprotect", "delete"}
      /\ failed' = failed \cup {s}
      /\ UNCHANGED <<input, pc, errs, returned, crashed>>
  BY NativeStacksAssumption DEF PartFails, PartAt, outer
<1>2. \A q \in Stacks \ {s} : Outcome(q)' = Outcome(q)
  BY <1>1 DEF Outcome
<1>3. CASE s \in failed
  BY <1>1, <1>3, UnreadableFixed DEF Outcome, Abstract!vars
<1>4. CASE s \notin failed
  <2>1. pc[s] # "done"
    <3> SUFFICES ASSUME pc[s] = "done" PROVE FALSE
      OBVIOUS
    <3>1. s \in terminated /\ ~dryRun /\ type[s] = "native"
      BY <1>1 DEF IInv, PartPlaces, PartPlace, StackPlaces, EarlyPlace
    <3>2. AllPartsDone(s)
      BY <1>1, <1>4, <3>1 DEF IInv, TypeOK, StackPlaces, DonePlace
    <3> QED
      BY <1>1, <3>2 DEF AllPartsDone, PartsOf
  <2>2. Outcome(s)' = "failed"
    BY <1>1 DEF Outcome
  <2> QED
    BY <1>1, <1>2, <1>4, <2>1, <2>2, FinishRefines
<1> QED
  BY <1>3, <1>4

LEMMA ReturnRefines ==
  ASSUME IInv, Return
  PROVE  Abstract!Return
<1>1. \A s \in Stacks : pc[s] = "done"
  BY DEF Return, IInv, Closing, AllStacksDone
<1>2. errs = failed /\ failed \subseteq Stacks
  BY <1>1 DEF IInv, TypeOK, StackPlaces, DonePlace
<1>3. Abstract!Ended("pending") = {} /\ Abstract!Ended("failed") = failed
  BY <1>1, <1>2 DEF Abstract!Ended, Outcome
<1>4. \A s \in Stacks : Outcome(s)' = Outcome(s)
  BY DEF Return, cloud, Outcome
<1> QED
  BY <1>2, <1>3, <1>4, UnreadableFixed DEF Return, Abstract!Return

\* A send on a closed channel, or a second close: the stack has failed.
LEMMA CrashRefines ==
  ASSUME IInv, NEW s \in Stacks, s \in failed, ~crashed, crashed',
         \A q \in Stacks : Outcome(q)' = Outcome(q),
         UNCHANGED <<input, errs, returned>>
  PROVE  Abstract!Crash
<1>1. s \in Abstract!Ended("failed")
  BY DEF Abstract!Ended, Outcome
<1> QED
  BY <1>1, UnreadableFixed DEF Abstract!Crash

LEMMA CloseRefines ==
  ASSUME IInv, NEW s \in Stacks, CloseWhenDone(s) \/ CloseOnError(s)
  PROVE  Abstract!Crash \/ UNCHANGED Abstract!vars
<1>1. ~crashed /\ (crashed' <=> s \in closed) /\ UNCHANGED <<input, failed, errs, returned>>
  BY DEF CloseWhenDone, CloseOnError, At, outer, cloud
<1>2. \A q \in Stacks : Outcome(q)' = Outcome(q)
  <2>1. \A q \in Stacks : (pc'[q] = "done" <=> pc[q] = "done")
    BY DEF CloseWhenDone, CloseOnError, At, Goto, IInv, TypeOK
  <2> QED
    BY <1>1, <2>1 DEF Outcome
<1>3. CASE s \in closed
  <2>1. s \in failed
    BY <1>3 DEF CloseWhenDone, CloseOnError, At, IInv, StackPlaces, ClosePlace
  <2> QED
    BY <1>1, <1>2, <1>3, <2>1, CrashRefines
<1>4. CASE s \notin closed
  BY <1>1, <1>2, <1>4, UnreadableFixed DEF Abstract!vars
<1> QED
  BY <1>3, <1>4

LEMMA SendOnClosedRefines ==
  ASSUME IInv, NEW r \in Parts, SendOnClosed(r)
  PROVE  Abstract!Crash
<1>1. StackOf[r] \in Stacks /\ StackOf[r] \in failed /\ ~crashed /\ crashed'
  BY NativeStacksAssumption DEF SendOnClosed, PartAt, IInv, PartPlaces, PartPlace
<1>2. \A q \in Stacks : Outcome(q)' = Outcome(q)
  BY DEF SendOnClosed, cloud, Outcome
<1> QED
  BY <1>1, <1>2, CrashRefines DEF SendOnClosed, outer

\* The error of a stack, which has failed before, is received before the return.
LEMMA ReportStutters ==
  ASSUME IInv, NEW s \in Stacks, Report(s)
  PROVE  UNCHANGED Abstract!vars
<1>1. ~returned /\ s \in failed
  BY DEF Report, At, IInv, Closing, StackPlaces, ClosePlace
<1>2. \A q \in Stacks : Outcome(q)' = Outcome(q)
  BY <1>1 DEF Report, Goto, cloud, Outcome
<1> QED
  BY <1>1, <1>2, UnreadableFixed DEF Report, Abstract!vars

LEMMA StackStutters ==
  ASSUME IInv, NEW s \in Stacks,
         \/ Start(s) \/ TerminateInstances(s) \/ WaitUntilTerminated(s)
         \/ DescribeStackResources(s) \/ DeleteStack(s) \/ DescribeStacks(s)
  PROVE  UNCHANGED Abstract!vars
<1>1. UNCHANGED <<input, failed, errs, returned, crashed>>
  BY DEF Start, TerminateInstances, WaitUntilTerminated, DescribeStackResources, DeleteStack,
     DescribeStacks, outer, cloud
<1>2. \A q \in Stacks : (pc'[q] = "done" <=> pc[q] = "done")
  BY DEF Start, FirstCall, TerminateInstances, WaitUntilTerminated, DescribeStackResources,
     DeleteStack, DescribeStacks, At, Goto, IInv, TypeOK
<1> QED
  BY <1>1, <1>2, UnreadableFixed DEF Outcome, Abstract!vars

LEMMA ResourceStutters ==
  ASSUME NEW s \in Stacks, NEW r \in pending,
         PassResource(s, r) \/ RetainMissing(s, r) \/ DeleteResource(s, r)
  PROVE  UNCHANGED Abstract!vars
BY DEF PassResource, RetainMissing, DeleteResource, NextResource, input, outer, Outcome,
       Unreadable, Abstract!vars

\* The status of a stack, whose deletion has failed, is without a reason.
LEMMA NoStatusReasonRefines ==
  ASSUME IInv, NEW s \in Stacks, NoStatusReason(s)
  PROVE  Abstract!Crash
<1>1. s \in failed /\ ~crashed /\ crashed'
  BY DEF NoStatusReason, At, IInv, StackPlaces, ClosePlace
<1>2. \A q \in Stacks : Outcome(q)' = Outcome(q)
  BY DEF NoStatusReason, cloud, Outcome
<1> QED
  BY <1>1, <1>2, CrashRefines DEF NoStatusReason, outer

\* A resource without an id: its stack is one of CloudFormation, in progress.
LEMMA NoPhysicalIdRefines ==
  ASSUME IInv, NEW s \in Stacks, NEW r \in pending, NoPhysicalId(s, r)
  PROVE  Abstract!Crash
<1>1. pc[s] = "resources" /\ r \in ResourcesOf(s) \cap unnamed /\ ~crashed /\ crashed'
  BY DEF NoPhysicalId, At, ResourcesOf, IInv, TypeOK
<1>2. ~dryRun /\ type[s] = "cf" /\ s \notin failed
  BY <1>1 DEF IInv, StackPlaces, EarlyPlace
<1>3. s \in Unreadable \cap Abstract!Ended("pending")
  BY <1>1, <1>2 DEF Unreadable, Abstract!Ended, Outcome
<1>4. \A q \in Stacks : Outcome(q)' = Outcome(q)
  BY DEF NoPhysicalId, cloud, Outcome
<1>5. UNCHANGED <<Unreadable, errs, returned>>
  BY DEF NoPhysicalId, input, outer, Unreadable
<1> QED
  BY <1>1, <1>3, <1>4, <1>5 DEF Abstract!Crash

LEMMA PartStutters ==
  ASSUME IInv, NEW r \in Parts,
         Unprotect(r) \/ NotFound(r) \/ DeletePart(r) \/ SendPartError(r)
  PROVE  UNCHANGED Abstract!vars
<1>1. UNCHANGED <<input, failed, errs, returned, crashed>>
  BY DEF Unprotect, NotFound, DeletePart, SendPartError, outer, cloud
<1>2. \A q \in Stacks : (pc'[q] = "done" <=> pc[q] = "done")
  BY DEF Unprotect, NotFound, DeletePart, SendPartError, Goto, IInv, TypeOK
<1> QED
  BY <1>1, <1>2, UnreadableFixed DEF Outcome, Abstract!vars

LEMMA OthersStutter ==
  ASSUME IInv, CloseOuter \/ UNCHANGED vars
  PROVE  UNCHANGED Abstract!vars
BY UnreadableFixed DEF CloseOuter, vars, outer, cloud, Outcome, Abstract!vars

LEMMA NextRefines == IInv /\ [Next]_vars => [Abstract!Next]_(Abstract!vars)
<1> SUFFICES ASSUME IInv, [Next]_vars PROVE [Abstract!Next]_(Abstract!vars)
  OBVIOUS
<1>1. ASSUME NEW s \in Stacks, StackStep(s) \/ CloseWhenDone(s)
      PROVE  [Abstract!Next]_(Abstract!vars)
  BY <1>1, EndRefines, StackFailureRefines, CloseRefines, ReportStutters, StackStutters,
     ResourceStutters, NoStatusReasonRefines, NoPhysicalIdRefines DEF StackStep, CfStackStep, Abstract!Next
<1>2. ASSUME NEW r \in Parts, PartStep(r) PROVE [Abstract!Next]_(Abstract!vars)
  <2>1. StackOf[r] \in Stacks
    BY NativeStacksAssumption
  <2> QED
    BY <1>2, <2>1, PartFailureRefines, SendOnClosedRefines, PartStutters DEF PartStep,
       Abstract!Next
<1>3. CASE Return
  BY <1>3, ReturnRefines DEF Abstract!Next
<1>4. CASE CloseOuter \/ UNCHANGED vars
  BY <1>4, OthersStutter
<1> QED
  BY <1>1, <1>2, <1>3, <1>4 DEF Next, Caller

\* Every behaviour of aws.go's deleteStacks is one of StackTermination: it
\* returns when all stacks have ended, with exactly the failed ones, and its
\* process only dies after a failure, or while it prepares the resources of a
\* CloudFormation stack that has one without a PhysicalResourceId.
THEOREM Refinement == Spec => ImplementsStackTermination
BY InitRefines, NextRefines, Invariance, PTL DEF Spec, ImplementsStackTermination, Abstract!Spec

-----------------------------------------------------------------------------
(* NativeStacks implements ProviderCall.                                   *)

Changed == terminated \cup gone

\* What ProviderTraits says of TerminateStacks.
LEMMA CallTraits ==
  /\ AbstractCall!IsEffective("AWS", "TerminateStacks", dryRun) <=> ~dryRun
  /\ AbstractCall!AnswerIsFull("AWS", "TerminateStacks", dryRun) => ~dryRun
BY DEF AbstractCall!IsEffective, AbstractCall!AnswerIsFull, AbstractCall!IgnoresDryRun,
       AbstractCall!AwsClouds

\* The input of the abstract call is that of the call.
LEMMA CallInputFixed ==
  ASSUME UNCHANGED input
  PROVE  UNCHANGED AbstractCall!input /\ Whole' = Whole
BY DEF input, Whole, AbstractCall!input

\* On a dry run, and after the return unless it was with errors, no goroutine
\* of a stack or a part is at work.
LEMMA StackAtWork ==
  ASSUME IInv, NEW s \in Stacks, pc[s] # "done"
  PROVE  ~returned /\ (pc[s] # "start" => ~dryRun)
BY DEF IInv, Closing, AllStacksDone, StackPlaces, EarlyPlace

LEMMA PartAtWork ==
  ASSUME IInv, NEW r \in Parts, part[r] \in {"unprotect", "delete", "send"}
  PROVE  (returned => errs # {}) /\ ~dryRun
<1>1. StackOf[r] \in Stacks /\ StackOf[r] \in terminated /\ r \in PartsOf(StackOf[r])
  BY NativeStacksAssumption DEF IInv, PartPlaces, PartPlace, PartsOf
<1>2. ~dryRun /\ type[StackOf[r]] = "native"
  BY <1>1 DEF IInv, StackPlaces, EarlyPlace
<1>3. ASSUME returned PROVE StackOf[r] \in errs
  <2>1. pc[StackOf[r]] = "done" /\ ~AllPartsDone(StackOf[r])
    BY <1>1, <1>3 DEF IInv, Closing, AllStacksDone, AllPartsDone
  <2> QED
    BY <1>1, <1>2, <2>1 DEF IInv, StackPlaces, DonePlace
<1> QED
  BY <1>2, <1>3

\* A step that only adds to what is gone, of a goroutine at work.
LEMMA AddingWorks ==
  ASSUME IInv', UNCHANGED <<input, returned>>, ~dryRun,
         Changed \subseteq Changed', errs \subseteq errs', returned => errs # {}
  PROVE  AbstractCall!Work
<1>1. Changed' \subseteq Stacks \cup Parts \cup Resources
  BY DEF IInv, TypeOK, Changed
<1>2. UNCHANGED AbstractCall!input
  BY CallInputFixed
<1> QED
  BY <1>1, <1>2, CallTraits DEF AbstractCall!Work, Changed

LEMMA StackWorks ==
  ASSUME IInv, IInv', NEW s \in Stacks, StackStep(s)
  PROVE  [AbstractCall!Next]_(AbstractCall!vars)
<1>1. /\ UNCHANGED <<input, returned>>
      /\ Changed \subseteq Changed' /\ errs \subseteq errs'
  <2>1. CASE CfStackStep(s)
    BY <2>1 DEF CfStackStep, DescribeStackResources, DeleteStack, WaitUntilStackDeleteComplete,
           WaitFails, DescribeStacks, NoStatusReason, NoPhysicalId, PassResource, RetainMissing, DeleteResource,
           NextResource, Changed, outer, cloud
  <2>2. CASE ~CfStackStep(s)
    BY <2>2 DEF StackStep, Start, SkipOnDryRun, NotImplemented, TerminateInstances,
           WaitUntilTerminated, StackCallFails, CloseOnError, RangeEnds, Report,
           Changed, outer, cloud
  <2> QED
    BY <2>1, <2>2
<1>2. CASE pc[s] = "start"
  <2>1. UNCHANGED <<terminated, gone, errs>>
    BY <1>2 DEF StackStep, Start, SkipOnDryRun, NotImplemented, TerminateInstances,
           WaitUntilTerminated, StackCallFails, CfStackStep, DescribeStackResources, DeleteStack,
           WaitUntilStackDeleteComplete, WaitFails, DescribeStacks, NoStatusReason, NoPhysicalId, PassResource,
           RetainMissing, DeleteResource, NextResource, CloseOnError, RangeEnds, Report, At,
           outer, cloud
  <2> QED
    BY <1>1, <2>1, CallInputFixed DEF AbstractCall!vars
<1>3. CASE pc[s] # "start"
  <2>1. pc[s] # "done"
    BY DEF StackStep, Start, SkipOnDryRun, NotImplemented, TerminateInstances,
           WaitUntilTerminated, StackCallFails, CfStackStep, DescribeStackResources, DeleteStack,
           WaitUntilStackDeleteComplete, WaitFails, DescribeStacks, NoStatusReason, NoPhysicalId, PassResource,
           RetainMissing, DeleteResource, NextResource, CloseOnError, RangeEnds, Report, At
  <2>2. ~returned /\ ~dryRun
    BY <1>3, <2>1, StackAtWork
  <2> QED
    BY <1>1, <2>2, AddingWorks DEF AbstractCall!Next
<1> QED
  BY <1>2, <1>3

LEMMA PartWorks ==
  ASSUME IInv, IInv', NEW r \in Parts, PartStep(r)
  PROVE  [AbstractCall!Next]_(AbstractCall!vars)
<1>1. /\ UNCHANGED <<input, returned>>
      /\ Changed \subseteq Changed' /\ errs \subseteq errs'
      /\ part[r] \in {"unprotect", "delete", "send"}
  BY DEF PartStep, Unprotect, NotFound, DeletePart, PartFails, SendPartError, SendOnClosed,
         PartAt, Changed, outer, cloud
<1>2. (returned => errs # {}) /\ ~dryRun
  BY <1>1, PartAtWork
<1> QED
  BY <1>1, <1>2, AddingWorks DEF AbstractCall!Next

\* The return without errors is one that CleanReturnMeansDeleted speaks of.
LEMMA CallReturns ==
  ASSUME IInv, CleanReturnMeansDeleted', Return
  PROVE  AbstractCall!Return
<1>1. /\ UNCHANGED <<dryRun, type, missing, terminated, gone, errs, AbstractCall!input>>
      /\ ~returned /\ returned'
  BY CallInputFixed DEF Return, input, cloud
<1>2. ASSUME errs = {}, AbstractCall!AnswerIsFull("AWS", "TerminateStacks", dryRun)
      PROVE  Whole \subseteq terminated \cup gone
  <2>1. \A s \in Stacks : Deleted(s)
    <3>1. \A s \in Stacks : Deleted(s)'
      BY <1>1, <1>2, CallTraits DEF CleanReturnMeansDeleted
    <3> QED
      BY <1>1, <3>1 DEF Deleted
  <2>2. ASSUME NEW s \in Stacks PROVE s \in terminated \cup gone
    BY <2>1 DEF Deleted
  <2>3. ASSUME NEW r \in Parts PROVE r \in gone
    <3>1. StackOf[r] \in Stacks /\ type[StackOf[r]] = "native" /\ r \in PartsOf(StackOf[r])
      BY NativeStacksAssumption DEF IInv, TypeOK, Input, PartsOf
    <3> QED
      BY <2>1, <3>1 DEF Deleted
  <2>4. ASSUME NEW r \in Resources \ missing, type[StackOf[r]] = "cf" PROVE r \in gone
    <3>1. StackOf[r] \in Stacks /\ r \in ResourcesOf(StackOf[r])
      BY NativeStacksAssumption DEF ResourcesOf
    <3> QED
      BY <2>1, <2>4, <3>1 DEF Deleted
  <2> QED
    BY <2>2, <2>3, <2>4 DEF Whole
<1> QED
  BY <1>1, <1>2 DEF AbstractCall!Return

LEMMA NextCall ==
  IInv /\ (IInv /\ CleanReturnMeansDeleted)' /\ [Next]_vars
    => [AbstractCall!Next]_(AbstractCall!vars)
<1> SUFFICES ASSUME IInv, IInv', CleanReturnMeansDeleted', [Next]_vars
             PROVE  [AbstractCall!Next]_(AbstractCall!vars)
  OBVIOUS
<1>1. CASE Return
  BY <1>1, CallReturns DEF AbstractCall!Next
<1>2. ASSUME NEW s \in Stacks, StackStep(s) PROVE [AbstractCall!Next]_(AbstractCall!vars)
  BY <1>2, StackWorks
<1>3. ASSUME NEW r \in Parts, PartStep(r) PROVE [AbstractCall!Next]_(AbstractCall!vars)
  BY <1>3, PartWorks
<1>4. CASE (\E s \in Stacks : CloseWhenDone(s)) \/ CloseOuter \/ UNCHANGED vars
  <2>1. UNCHANGED <<input, terminated, gone, errs, returned>>
    BY <1>4 DEF CloseWhenDone, CloseOuter, vars, outer, cloud
  <2> QED
    BY <2>1, CallInputFixed DEF AbstractCall!vars
<1> QED
  BY <1>1, <1>2, <1>3, <1>4 DEF Next, Caller

\* aws.go, TerminateStacks does, for any stacks, parts and resources, what Hunt
\* assumes of the calls of a provider.
THEOREM CallRefinement == Spec => ImplementsProviderCall
<1>1. Init => AbstractCall!Init
  BY DEF Init, AbstractCall!Init
<1> QED
  BY <1>1, NextCall, Invariance, CleanReturn, PTL
     DEF Spec, ImplementsProviderCall, AbstractCall!Spec

-----------------------------------------------------------------------------
(* What CallEnds and PartFailureIsFatal need beside fairness: nobody waits *)
(* for ever while the process lives, and after the failure of a part the   *)
(* process has a second close of the stack's errChan before it.            *)

StackCanGoOn(s) ==
  \/ pc[s] \notin {"range", "report", "done"}
  \/ pc[s] = "range" /\ s \in closed
  \/ pc[s] = "report" /\ ~outerClosed

ClosingCanGoOn(s) == s \in terminated \ closer /\ AllPartsDone(s)

PartCanGoOn(r) ==
  \/ part[r] \in {"unprotect", "delete"}
  \/ part[r] = "send" /\ (pc[StackOf[r]] = "range" \/ StackOf[r] \in closed)

\* While the process lives, a stack of deleteStacks that is not done can go on,
\* or the goroutine that closes its channel, or one of its parts: no stack
\* waits for another.  And no part holds an error that nobody will take or
\* refuse.
NoDeadlock ==
  ~crashed =>
    /\ \A s \in Stacks : pc[s] # "done" =>
         StackCanGoOn(s) \/ ClosingCanGoOn(s) \/ \E r \in PartsOf(s) : PartCanGoOn(r)
    /\ \A r \in Parts : part[r] = "send" => PartCanGoOn(r) \/ pc[StackOf[r]] = "close"

\* The errChan of deleteNativeStack is closed by the closing goroutine and,
\* after an error, by the receiver.  While the process lives after the failure
\* of a part, one of the two closes is still ahead; once the receiver has taken
\* its error and closed, it is the closing goroutine's, which will panic.
SecondCloseAhead ==
  ~crashed => \A s \in terminated \cap failed :
    /\ s \notin closer \/ pc[s] = "close"
    /\ pc[s] \in {"range", "close"} \/ s \in closed \ closer

\* A stack whose instances are terminated is in the fan-out, or has closed its
\* channel.
TerminatedPlace ==
  \A s \in terminated : pc[s] \in {"range", "close"} \/ (pc[s] \in {"report", "done"} /\ s \in closed)

\* One of the two goroutines has not closed the channel yet.
CloseAhead == ~crashed => \A s \in terminated \cap failed : s \notin closer \/ pc[s] = "close"

\* A step of a stack before its fan-out.
LEMMA EarlyKeepsClose ==
  ASSUME TerminatedPlace, CloseAhead, NEW s, s \notin terminated,
         UNCHANGED <<closed, closer, terminated>>, crashed => crashed',
         \A t \in terminated : pc'[t] = pc[t] /\ (t \in failed' => t \in failed)
  PROVE  TerminatedPlace' /\ CloseAhead'
BY DEF TerminatedPlace, CloseAhead

\* The steps of a stack's own goroutine.
LEMMA StackKeepsClose ==
  ASSUME IInv, TerminatedPlace, CloseAhead, NEW s \in Stacks, StackStep(s)
  PROVE  TerminatedPlace' /\ CloseAhead'
<1>1. s \in terminated => pc[s] \in {"range", "close", "report", "done"}
  BY DEF TerminatedPlace
<1>2. DOMAIN pc = Stacks /\ terminated \subseteq Stacks /\ closer \subseteq closed
  BY DEF IInv, TypeOK
<1>3. CASE Start(s) \/ SkipOnDryRun(s) \/ NotImplemented(s) \/ TerminateInstances(s) \/ StackCallFails(s)
  <2>1. s \notin terminated
    BY <1>1, <1>3 DEF Start, SkipOnDryRun, NotImplemented, TerminateInstances, StackCallFails, At
  <2>2. UNCHANGED <<closed, closer, terminated, crashed>>
    BY <1>3 DEF Start, SkipOnDryRun, NotImplemented, TerminateInstances, StackCallFails, cloud
  <2>3. \A t \in terminated : pc'[t] = pc[t] /\ (t \in failed' => t \in failed)
    BY <1>2, <1>3, <2>1 DEF Start, SkipOnDryRun, NotImplemented, TerminateInstances, StackCallFails,
       Goto, cloud
  <2> QED
    BY <2>1, <2>2, <2>3, EarlyKeepsClose
<1>4. CASE CfStackStep(s)
  <2> USE DEF CfStackStep, DescribeStackResources, DeleteStack, WaitUntilStackDeleteComplete,
          WaitFails, DescribeStacks, NoStatusReason, NoPhysicalId
  <2>1. s \notin terminated
    BY <1>1, <1>4 DEF PassResource, RetainMissing, DeleteResource, NextResource, At
  <2>2. UNCHANGED <<closed, closer, terminated>> /\ (crashed => crashed')
    BY <1>4 DEF PassResource, RetainMissing, DeleteResource, NextResource, cloud
  <2>3. \A t \in terminated : pc'[t] = pc[t] /\ (t \in failed' => t \in failed)
    BY <1>2, <1>4, <2>1 DEF PassResource, RetainMissing, DeleteResource, NextResource, Goto, cloud
  <2> QED
    BY <2>1, <2>2, <2>3, EarlyKeepsClose
<1>5. CASE WaitUntilTerminated(s)
  <2>1. s \notin failed
    BY <1>5 DEF WaitUntilTerminated, At, IInv, StackPlaces, EarlyPlace
  <2> QED
    BY <1>2, <1>5, <2>1 DEF WaitUntilTerminated, At, Goto, IInv, TypeOK, TerminatedPlace, CloseAhead
<1>6. CASE CloseOnError(s)
  <2>1. TerminatedPlace'
    BY <1>2, <1>6 DEF CloseOnError, At, Goto, cloud, IInv, TypeOK, TerminatedPlace
  <2>2. ~crashed' => s \notin closer
    BY <1>2, <1>6 DEF CloseOnError
  <2> QED
    BY <1>2, <1>6, <2>1, <2>2 DEF CloseOnError, At, Goto, cloud, IInv, TypeOK, CloseAhead
<1>7. CASE RangeEnds(s)
  <2>1. s \in closed /\ s \in closer /\ s \in terminated
    BY <1>7 DEF RangeEnds, At, IInv, StackPlaces, RangePlace, EarlyPlace
  <2>2. s \notin failed
    BY <1>7, <2>1 DEF RangeEnds, At, CloseAhead
  <2> QED
    BY <1>2, <1>7, <2>1, <2>2 DEF RangeEnds, At, Goto, cloud, IInv, TypeOK, TerminatedPlace, CloseAhead
<1>8. CASE Report(s)
  <2>1. s \in terminated => s \in closed
    BY <1>8 DEF Report, At, TerminatedPlace
  <2>2. TerminatedPlace'
    BY <1>2, <1>8, <2>1 DEF Report, At, Goto, cloud, IInv, TypeOK, TerminatedPlace
  <2> QED
    BY <1>2, <1>8, <2>2 DEF Report, At, Goto, cloud, IInv, TypeOK, CloseAhead
<1> QED
  BY <1>3, <1>4, <1>5, <1>6, <1>7, <1>8 DEF StackStep

\* The steps of a part.
LEMMA PartKeepsClose ==
  ASSUME IInv, TerminatedPlace, CloseAhead, NEW r \in Parts, PartStep(r)
  PROVE  TerminatedPlace' /\ CloseAhead'
<1>1. /\ DOMAIN pc = Stacks /\ terminated \subseteq Stacks /\ closer \subseteq closed
      /\ StackOf[r] \in Stacks
  BY NativeStacksAssumption DEF IInv, TypeOK
<1>2. CASE Unprotect(r) \/ NotFound(r) \/ DeletePart(r) \/ SendOnClosed(r)
  BY <1>2 DEF Unprotect, NotFound, DeletePart, SendOnClosed, cloud, TerminatedPlace, CloseAhead
<1>3. CASE PartFails(r)
  <2>1. StackOf[r] \notin closer
    BY <1>1, <1>3 DEF PartFails, PartAt, IInv, StackPlaces, ClosePlace, AllPartsDone, PartsOf
  <2> QED
    BY <1>3, <2>1 DEF PartFails, TerminatedPlace, CloseAhead
<1>4. CASE SendPartError(r)
  BY <1>1, <1>4 DEF SendPartError, Goto, cloud, IInv, TypeOK, TerminatedPlace, CloseAhead
<1> QED
  BY <1>2, <1>3, <1>4 DEF PartStep

\* The closing goroutine: with a failed part received, the receiver is at its
\* close, or has closed before and this close panics.
LEMMA ClosingKeepsClose ==
  ASSUME IInv, TerminatedPlace, CloseAhead, NEW s \in Stacks, CloseWhenDone(s)
  PROVE  TerminatedPlace' /\ CloseAhead'
<1>1. s \in terminated /\ AllPartsDone(s)
  BY DEF CloseWhenDone
<1>2. s \in failed => pc[s] # "range"
  BY <1>1 DEF IInv, StackPlaces, RangePlace, AllPartsDone
<1>3. s \in failed /\ ~crashed' => pc[s] = "close"
  BY <1>1, <1>2 DEF CloseWhenDone, TerminatedPlace
<1> QED
  BY <1>1, <1>3 DEF CloseWhenDone, cloud, TerminatedPlace, CloseAhead

\* Where the two closes of a stack are, along every behaviour.
LEMMA ClosesInvariant == Spec => [](IInv /\ TerminatedPlace /\ CloseAhead)
<1>1. Init => TerminatedPlace /\ CloseAhead
  BY DEF Init, TerminatedPlace, CloseAhead
<1>2. IInv /\ TerminatedPlace /\ CloseAhead /\ [Next]_vars => TerminatedPlace' /\ CloseAhead'
  <2> SUFFICES ASSUME IInv, TerminatedPlace, CloseAhead, [Next]_vars
               PROVE  TerminatedPlace' /\ CloseAhead'
    OBVIOUS
  <2>1. CASE Caller \/ UNCHANGED vars
    BY <2>1 DEF Caller, CloseOuter, Return, vars, cloud, outer, TerminatedPlace, CloseAhead
  <2> QED
    BY <2>1, StackKeepsClose, PartKeepsClose, ClosingKeepsClose DEF Next
<1>3. QED
  BY <1>1, <1>2, Invariance, PTL DEF Spec

\* No goroutine of deleteStacks waits for ever while the process lives, for
\* any number of stacks and parts.
THEOREM NeverDeadlocks == Spec => []NoDeadlock
<1>1. ASSUME IInv, TerminatedPlace, ~crashed, NEW s \in Stacks, pc[s] # "done",
             \A r \in PartsOf(s) : ~PartCanGoOn(r)
      PROVE  StackCanGoOn(s) \/ ClosingCanGoOn(s)
  <2>1. CASE pc[s] = "range"
    <3>1. s \in terminated
      BY <2>1, <1>1 DEF IInv, StackPlaces, EarlyPlace
    <3>2. ASSUME NEW r \in PartsOf(s) PROVE part[r] = "done"
      BY <1>1, <2>1, <3>1, <3>2 DEF PartCanGoOn, PartsOf, IInv, TypeOK, PartPlaces, PartPlace
    <3> QED
      BY <2>1, <3>1, <3>2, <1>1 DEF StackCanGoOn, ClosingCanGoOn, AllPartsDone, IInv, TypeOK
  <2>2. CASE pc[s] = "report"
    BY <2>2, <1>1 DEF StackCanGoOn, IInv, Closing, AllStacksDone
  <2> QED
    BY <2>1, <2>2, <1>1 DEF StackCanGoOn
<1>2. ASSUME IInv, TerminatedPlace, NEW r \in Parts, part[r] = "send"
      PROVE  PartCanGoOn(r) \/ pc[StackOf[r]] = "close"
  BY <1>2 DEF IInv, PartPlaces, PartPlace, TerminatedPlace, PartCanGoOn
<1>3. IInv /\ TerminatedPlace => NoDeadlock
  BY <1>1, <1>2 DEF NoDeadlock
<1>4. QED
  BY <1>3, ClosesInvariant, PTL

\* After the failure of a part the process will not survive its stack's second
\* close, for any number of stacks and parts.
THEOREM SecondCloseIsAhead == Spec => []SecondCloseAhead
<1>1. IInv /\ TerminatedPlace /\ CloseAhead => SecondCloseAhead
  BY DEF TerminatedPlace, CloseAhead, SecondCloseAhead
<1>2. QED
  BY <1>1, ClosesInvariant, PTL

-----------------------------------------------------------------------------
(* TerminateStacks ends without any fairness but that something happens.   *)

\* How far the goroutine of a stack, and that of a part, has come.
Rank == [start |-> 0, terminate |-> 1, describe |-> 1, wait |-> 2, resources |-> 2,
         range |-> 3, deleting |-> 3, close |-> 4, status |-> 4, report |-> 5, done |-> 6]

PartRank == [idle |-> 0, unprotect |-> 1, delete |-> 2, send |-> 3, done |-> 4]

\* What only moves one way: the places of the goroutines, the resources left
\* to prepare, the closes, and what is deleted, failed and reported.
NothingGoesBack ==
  /\ \A s \in Stacks : Rank[pc[s]] <= Rank[pc'[s]]
  /\ \A r \in Parts : PartRank[part[r]] <= PartRank[part'[r]]
  /\ pending' \subseteq pending /\ retained \subseteq retained'
  /\ closed \subseteq closed' /\ closer \subseteq closer'
  /\ (outerClosed => outerClosed') /\ (returned => returned')
  /\ terminated \subseteq terminated' /\ gone \subseteq gone'
  /\ failed \subseteq failed' /\ errs \subseteq errs'
  /\ ~crashed

SomethingMoves ==
  \/ \E s \in Stacks : Rank[pc[s]] < Rank[pc'[s]]
  \/ \E r \in Parts : PartRank[part[r]] < PartRank[part'[r]]
  \/ pending' # pending \/ closer' # closer
  \/ outerClosed' # outerClosed \/ returned' # returned \/ crashed'

Advances == NothingGoesBack /\ SomethingMoves

\* The fan-out finds the parts idle.
LEMMA FanOutAdvances ==
  ASSUME IInv, NEW s \in Stacks, WaitUntilTerminated(s)
  PROVE  Advances
<1> USE DEF WaitUntilTerminated, At, Goto, input, cf, outer
<1>1. s \notin terminated
  BY DEF IInv, StackPlaces, EarlyPlace
<1>2. \A r \in Parts : StackOf[r] = s => part[r] = "idle"
  BY <1>1 DEF IInv, PartPlaces, PartPlace
<1>3. \A r \in Parts : PartRank[part[r]] <= PartRank[part'[r]]
  BY <1>2 DEF StartParts, PartRank, IInv, TypeOK
<1>4. \A q \in Stacks : Rank[pc[q]] <= Rank[pc'[q]]
  BY DEF Rank, IInv, TypeOK
<1>5. Rank[pc[s]] < Rank[pc'[s]]
  BY DEF Rank, IInv, TypeOK
<1>6. QED
  BY <1>3, <1>4, <1>5 DEF Advances, NothingGoesBack, SomethingMoves

LEMMA StackAdvances ==
  ASSUME IInv, NEW s \in Stacks, StackStep(s) \/ CloseWhenDone(s)
  PROVE  Advances
<1> USE DEF Advances, NothingGoesBack, SomethingMoves, Rank, PartRank, IInv, TypeOK,
            At, Goto, input, cf, outer, cloud
<1>1. CASE Start(s) \/ SkipOnDryRun(s) \/ NotImplemented(s)
  BY <1>1 DEF Start, SkipOnDryRun, NotImplemented, FirstCall
<1>2. CASE TerminateInstances(s) \/ StackCallFails(s)
  BY <1>2 DEF TerminateInstances, StackCallFails
<1>3. CASE WaitUntilTerminated(s)
  BY <1>3, FanOutAdvances
<1>4. CASE DescribeStackResources(s) \/ DeleteStack(s) \/ WaitUntilStackDeleteComplete(s)
  BY <1>4 DEF DescribeStackResources, DeleteStack, WaitUntilStackDeleteComplete
<1>5. CASE WaitFails(s) \/ DescribeStacks(s) \/ NoStatusReason(s)
  BY <1>5 DEF WaitFails, DescribeStacks, NoStatusReason
<1>6. ASSUME NEW r \in pending,
             \/ NoPhysicalId(s, r) \/ PassResource(s, r)
             \/ RetainMissing(s, r) \/ DeleteResource(s, r)
      PROVE  Advances
  BY <1>6 DEF NoPhysicalId, PassResource, RetainMissing, DeleteResource, NextResource
<1>7. CASE CloseOnError(s) \/ RangeEnds(s) \/ Report(s)
  BY <1>7 DEF CloseOnError, RangeEnds, Report
<1>8. CASE CloseWhenDone(s)
  BY <1>8 DEF CloseWhenDone
<1>9. QED
  BY <1>1, <1>2, <1>3, <1>4, <1>5, <1>6, <1>7, <1>8 DEF StackStep, CfStackStep

LEMMA PartAdvances ==
  ASSUME IInv, NEW r \in Parts, PartStep(r)
  PROVE  Advances
<1> USE NativeStacksAssumption
        DEF Advances, NothingGoesBack, SomethingMoves, Rank, PartRank, IInv, TypeOK,
            PartAt, PartGoto, Goto, input, cf, outer, cloud
<1>1. CASE Unprotect(r) \/ NotFound(r) \/ DeletePart(r)
  BY <1>1 DEF Unprotect, NotFound, DeletePart
<1>2. CASE PartFails(r)
  BY <1>2 DEF PartFails
<1>3. CASE SendPartError(r)
  BY <1>3 DEF SendPartError
<1>4. CASE SendOnClosed(r)
  BY <1>4 DEF SendOnClosed
<1>5. QED
  BY <1>1, <1>2, <1>3, <1>4 DEF PartStep

\* Every step of TerminateStacks is one forward: a goroutine advances, a
\* resource is prepared, a channel is closed, the call returns or the process
\* dies.  Nothing is retried or undone, whatever fails and in whatever order.
EveryStepAdvances == [][Advances]_vars

THEOREM StepsAdvance == Spec => EveryStepAdvances
<1>1. IInv /\ [Next]_vars => [Advances]_vars
  <2>1. ASSUME IInv, Caller PROVE Advances
    BY <2>1 DEF Caller, CloseOuter, Return, Advances, NothingGoesBack, SomethingMoves,
                Rank, PartRank, IInv, TypeOK, input, cf, cloud
  <2>2. QED
    BY <2>1, StackAdvances, PartAdvances DEF Next
<1>2. QED
  BY <1>1, Invariance, PTL DEF Spec, EveryStepAdvances
=============================================================================
