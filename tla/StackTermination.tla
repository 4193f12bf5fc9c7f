-------------------------- MODULE StackTermination --------------------------
(***************************************************************************)
(* What CloudProvider.TerminateStacks promises the termination action: it  *)
(* returns when it has finished with every stack, and the errors it returns*)
(* name exactly the stacks of which a call for a deletion has failed.  The *)
(* process may crash under it, but only after such a failure or for a      *)
(* stack in progress that is unreadable.                                   *)
(***************************************************************************)
CONSTANT Stacks

VARIABLES
  unreadable, \* the stacks whose description lacks a field that the code reads
  outcome,    \* per stack: pending, ok or failed
  status,     \* running, returned or crashed
  errors      \* the stacks the returned errors are about

vars == <<unreadable, outcome, status, errors>>

Ended(o) == {s \in Stacks : outcome[s] = o}

Init ==
  /\ unreadable \subseteq Stacks
  /\ outcome = [s \in Stacks |-> "pending"]
  /\ status = "running"
  /\ errors = {}

Finish(s) ==
  /\ status = "running"
  /\ outcome[s] = "pending"
  /\ \E o \in {"ok", "failed"} : outcome' = [outcome EXCEPT ![s] = o]
  /\ UNCHANGED <<unreadable, status, errors>>

Return ==
  /\ status = "running"
  /\ Ended("pending") = {}
  /\ status' = "returned"
  /\ errors' = Ended("failed")
  /\ UNCHANGED <<unreadable, outcome>>

Crash ==
  /\ status # "crashed"
  /\ Ended("failed") # {} \/ unreadable \cap Ended("pending") # {}
  /\ status' = "crashed"
  /\ UNCHANGED <<unreadable, outcome, errors>>

Next == (\E s \in Stacks : Finish(s)) \/ Return \/ Crash

Spec == Init /\ [][Next]_vars
=============================================================================
