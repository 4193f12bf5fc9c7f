---------------------------- MODULE ProviderCall ----------------------------
(***************************************************************************)
(* What a call of a provider promises the action that waits for it         *)
(* (action/termination.go, stop.go, cleanup.go).  While it runs it changes *)
(* resources within its reach, and only if it is effective; when it returns*)
(* without errors, each selected resource was changed, if its answer is    *)
(* full.  After such a return nothing more is changed; after one with      *)
(* errors a goroutine that was left behind may go on, in the time that the *)
(* action takes to end the process.                                        *)
(***************************************************************************)
EXTENDS ProviderTraits

VARIABLES
  cloud, call, dryRun,
  selected,   \* the items the action has handed over
  reach,      \* what the call may change: these, and what goes down with them
  changed,    \* by a request that was accepted: not every operation is waited for
  failing,    \* it will return an error
  returned

input == <<cloud, call, dryRun, selected, reach>>
vars  == <<input, changed, failing, returned>>

Init == changed = {} /\ ~failing /\ ~returned

\* One request, to one resource or to many, may succeed, fail or do both.
Work ==
  /\ returned => failing
  /\ changed \subseteq changed'
  /\ changed' \subseteq changed \cup IF IsEffective(cloud, call, dryRun) THEN reach ELSE {}
  /\ failing => failing'
  /\ UNCHANGED <<input, returned>>

Return ==
  /\ ~returned /\ returned'
  /\ failing' \/ (AnswerIsFull(cloud, call, dryRun) => selected \subseteq changed)
  /\ failing => failing'
  /\ UNCHANGED <<input, changed>>

Next == Work \/ Return

Spec == Init /\ [][Next]_vars
=============================================================================
