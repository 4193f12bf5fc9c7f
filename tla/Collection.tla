----------------------------- MODULE Collection -----------------------------
(***************************************************************************)
(* What an operation's Execute promises its caller (operation/common.go):  *)
(* every selected cloud is asked once, the call returns when all of them   *)
(* have answered, and what it returns and logs are answers really given.   *)
(* Of the two kinds of answer, items and errors, at least one is reported  *)
(* completely.  A provider that cannot be initialised ends the process.    *)
(***************************************************************************)
CONSTANT Clouds

VARIABLES
  answer,    \* what each cloud's getter answered: none yet, items or an error
  status,    \* collecting, returned or crashed
  result,    \* the clouds whose items the call returned
  reported   \* the clouds whose error the call logged

vars == <<answer, status, result, reported>>

Answering(kind) == {c \in Clouds : answer[c] = kind}

Init ==
  /\ answer = [c \in Clouds |-> "none"]
  /\ status = "collecting"
  /\ result = {}
  /\ reported = {}

Answer(c) ==
  /\ status = "collecting"
  /\ answer[c] = "none"
  /\ \E kind \in {"items", "error"} : answer' = [answer EXCEPT ![c] = kind]
  /\ UNCHANGED <<status, result, reported>>

Return ==
  /\ status = "collecting"
  /\ Answering("none") = {}
  /\ status' = "returned"
  /\ result' \in SUBSET Answering("items")
  /\ reported' \in SUBSET Answering("error")
  /\ result' = Answering("items") \/ reported' = Answering("error")
  /\ UNCHANGED answer

Crash ==
  /\ status = "collecting"
  /\ Answering("none") # {}
  /\ status' = "crashed"
  /\ UNCHANGED <<answer, result, reported>>

Next ==
  \/ \E c \in Clouds : Answer(c)
  \/ Return
  \/ Crash

Spec == Init /\ [][Next]_vars
=============================================================================
