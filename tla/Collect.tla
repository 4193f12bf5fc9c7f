------------------------------ MODULE Collect -------------------------------
(***************************************************************************)
(* operation/common.go: collect and wait, the fan-out every get* operation *)
(* runs.  collect starts one goroutine per cloud, which sends the cloud's  *)
(* items or its error on a buffered channel, and one goroutine that closes *)
(* both channels when the WaitGroup is empty.  wait receives from whichever*)
(* channel is ready and returns as soon as either is seen closed.          *)
(*                                                                         *)
(* A batch, the list of items of one cloud or its error, is named by the   *)
(* cloud it comes from.                                                    *)
(***************************************************************************)
EXTENDS Naturals, Sequences, FiniteSets, Functions

CONSTANTS
  Clouds,     \* the selected clouds
  ItemsCap,   \* capacity of itemsChan (10 in the code)
  ErrCap      \* capacity of errChan (5 in the code)

ASSUME CollectAssumption ==
  /\ IsFiniteSet(Clouds)
  /\ ItemsCap \in Nat \ {0}
  /\ ErrCap \in Nat \ {0}

VARIABLES
  pc,           \* per cloud, where its goroutine is
  answer,       \* per cloud, what the provider's getter answered
  wg,           \* the goroutines that have not called wg.Done
  itemsChan, itemsClosed,
  errChan, errClosed,
  waiter,       \* wait's loop: in select, or returned
  allItems,     \* the batches wait has appended, in order
  logged,       \* the errors wait has logged, in order
  crashed       \* a goroutine panicked: the process is gone

channels == <<itemsChan, itemsClosed, errChan, errClosed>>
waiting  == <<waiter, allItems, logged>>
vars     == <<pc, answer, wg, channels, waiting, crashed>>

Init ==
  /\ pc = [c \in Clouds |-> "fetch"]
  /\ answer = [c \in Clouds |-> "none"]
  /\ wg = Clouds
  /\ itemsChan = <<>> /\ itemsClosed = FALSE
  /\ errChan = <<>> /\ errClosed = FALSE
  /\ waiter = "select"
  /\ allItems = <<>>
  /\ logged = <<>>
  /\ crashed = FALSE

-----------------------------------------------------------------------------
(* The goroutine of one cloud. *)

At(c, place) == ~crashed /\ pc[c] = place

\* getter(providers[cloud]()) returns.
Fetch(c) ==
  /\ At(c, "fetch")
  /\ \E kind \in {"items", "error"} : answer' = [answer EXCEPT ![c] = kind]
  /\ pc' = [pc EXCEPT ![c] = "send"]
  /\ UNCHANGED <<wg, channels, waiting, crashed>>

\* providers[cloud]() panics when it cannot build its clients, and nothing
\* in the goroutine recovers.
ProviderPanics(c) ==
  /\ At(c, "fetch")
  /\ crashed' = TRUE
  /\ UNCHANGED <<pc, answer, wg, channels, waiting>>

\* A send blocks while the buffer is full, and on a closed channel it panics.
SendItems(c) ==
  /\ At(c, "send") /\ answer[c] = "items"
  /\ Len(itemsChan) < ItemsCap \/ itemsClosed
  /\ itemsChan' = Append(itemsChan, c)
  /\ pc' = [pc EXCEPT ![c] = "sent"]
  /\ crashed' = itemsClosed
  /\ UNCHANGED <<answer, wg, itemsClosed, errChan, errClosed, waiting>>

\* Mutant of SendError: the else is missing, so an error is followed by a
\* send of the nil items.
SendErrorThenItems(c) ==
  /\ At(c, "send") /\ answer[c] = "error"
  /\ Len(errChan) < ErrCap \/ errClosed
  /\ errChan' = Append(errChan, c)
  /\ itemsChan' = Append(itemsChan, c)
  /\ pc' = [pc EXCEPT ![c] = "sent"]
  /\ crashed' = errClosed
  /\ UNCHANGED <<answer, wg, itemsClosed, errClosed, waiting>>

SendError(c) ==
  /\ At(c, "send") /\ answer[c] = "error"
  /\ Len(errChan) < ErrCap \/ errClosed
  /\ errChan' = Append(errChan, c)
  /\ pc' = [pc EXCEPT ![c] = "sent"]
  /\ crashed' = errClosed
  /\ UNCHANGED <<answer, wg, itemsChan, itemsClosed, errClosed, waiting>>

\* Mutant of WorkerDone: Done is called on the success path only.
WorkerDoneOnSuccess(c) ==
  /\ At(c, "sent")
  /\ wg' = IF answer[c] = "items" THEN wg \ {c} ELSE wg
  /\ pc' = [pc EXCEPT ![c] = "done"]
  /\ UNCHANGED <<answer, channels, waiting, crashed>>

\* The deferred wg.Done().
WorkerDone(c) ==
  /\ At(c, "sent")
  /\ wg' = wg \ {c}
  /\ pc' = [pc EXCEPT ![c] = "done"]
  /\ UNCHANGED <<answer, channels, waiting, crashed>>

Worker(c) ==
  Fetch(c) \/ SendItems(c) \/ SendError(c) \/ WorkerDone(c)

-----------------------------------------------------------------------------
(* The closing goroutine: wg.Wait(), then one channel after the other. *)

\* Mutant of CloseItems: the channels are closed without wg.Wait().
CloseItemsWithoutWait ==
  /\ ~crashed /\ ~itemsClosed
  /\ itemsClosed' = TRUE
  /\ UNCHANGED <<pc, answer, wg, itemsChan, errChan, errClosed, waiting, crashed>>

CloseItems ==
  /\ ~crashed /\ wg = {} /\ ~itemsClosed
  /\ itemsClosed' = TRUE
  /\ UNCHANGED <<pc, answer, wg, itemsChan, errChan, errClosed, waiting, crashed>>

CloseErrors ==
  /\ ~crashed /\ itemsClosed /\ ~errClosed
  /\ errClosed' = TRUE
  /\ UNCHANGED <<pc, answer, wg, itemsChan, itemsClosed, errChan, waiting, crashed>>

Closer == CloseItems \/ CloseErrors

-----------------------------------------------------------------------------
(* wait: one iteration of the select per action.  A closed channel is      *)
(* reported closed once its buffer is empty, and a select with several     *)
(* ready cases takes any of them.                                          *)

Selecting == ~crashed /\ waiter = "select"

\* Mutant of ReceiveItems: the ok of the receive is not looked at, so a
\* closed channel yields its zero value.
ReceiveItemsUnchecked ==
  /\ Selecting
  /\ itemsChan # <<>> \/ itemsClosed
  /\ allItems' = Append(allItems, IF itemsChan = <<>> THEN "nil" ELSE Head(itemsChan))
  /\ itemsChan' = IF itemsChan = <<>> THEN <<>> ELSE Tail(itemsChan)
  /\ UNCHANGED <<pc, answer, wg, itemsClosed, errChan, errClosed, waiter, logged, crashed>>

ReceiveItems ==
  /\ Selecting
  /\ itemsChan # <<>>
  /\ allItems' = Append(allItems, Head(itemsChan))
  /\ itemsChan' = Tail(itemsChan)
  /\ UNCHANGED <<pc, answer, wg, itemsClosed, errChan, errClosed, waiter, logged, crashed>>

ReceiveError ==
  /\ Selecting
  /\ errChan # <<>>
  /\ logged' = Append(logged, Head(errChan))
  /\ errChan' = Tail(errChan)
  /\ UNCHANGED <<pc, answer, wg, itemsChan, itemsClosed, errClosed, waiter, allItems, crashed>>

ItemsExhausted == itemsClosed /\ itemsChan = <<>>
ErrorsExhausted == errClosed /\ errChan = <<>>

\* Mutant of Exit: the loop ends once the channels are closed, whatever is
\* still buffered in them.
ExitWhenClosed ==
  /\ Selecting
  /\ itemsClosed \/ errClosed
  /\ waiter' = "returned"
  /\ UNCHANGED <<pc, answer, wg, channels, allItems, logged, crashed>>

Exit ==
  /\ Selecting
  /\ ItemsExhausted \/ ErrorsExhausted
  /\ waiter' = "returned"
  /\ UNCHANGED <<pc, answer, wg, channels, allItems, logged, crashed>>

Waiter == ReceiveItems \/ ReceiveError \/ Exit

-----------------------------------------------------------------------------
Next ==
  \/ \E c \in Clouds : Worker(c) \/ ProviderPanics(c)
  \/ Closer
  \/ Waiter

Spec == Init /\ [][Next]_vars

\* The Go scheduler runs every runnable goroutine eventually; that a
\* provider's getter returns is assumed of the cloud's SDK.
FairSpec ==
  /\ Spec
  /\ \A c \in Clouds : WF_vars(Worker(c))
  /\ WF_vars(Closer)
  /\ WF_vars(Waiter)

-----------------------------------------------------------------------------
TypeOK ==
  /\ pc \in [Clouds -> {"fetch", "send", "sent", "done"}]
  /\ answer \in [Clouds -> {"none", "items", "error"}]
  /\ wg \subseteq Clouds
  /\ itemsChan \in Seq(Clouds) /\ errChan \in Seq(Clouds)
  /\ allItems \in Seq(Clouds) /\ logged \in Seq(Clouds)
  /\ itemsClosed \in BOOLEAN /\ errClosed \in BOOLEAN
  /\ waiter \in {"select", "returned"}
  /\ crashed \in BOOLEAN

\* A channel is only closed when no goroutine has a send left to do on
\* either of them: collect never panics on a closed channel.
NoSendAfterClose ==
  itemsClosed \/ errClosed => \A c \in Clouds : pc[c] = "done"

Sent(kind) == {c \in Clouds : pc[c] \in {"sent", "done"} /\ answer[c] = kind}

\* Everything a cloud has sent is in exactly one place, once: appended to
\* the result or still in the channel, whatever the order of the receives.
EachBatchOnce ==
  /\ IsInjective(allItems \o itemsChan)
  /\ IsInjective(logged \o errChan)
  /\ Range(allItems \o itemsChan) = Sent("items")
  /\ Range(logged \o errChan) = Sent("error")

\* Whichever channel wait has seen closed, it has received all of it: items
\* and errors are never both left behind.
OneSideComplete ==
  waiter = "returned" => itemsChan = <<>> \/ errChan = <<>>

\* The operations are documented to return all the items of the clouds that
\* answered (types/operation.go).
ReturnsAllItems ==
  waiter = "returned" => Range(allItems) = Sent("items")

\* wait's result and its log are those of the abstract collection.
Abstract ==
  INSTANCE Collection WITH
    status   <- IF crashed THEN "crashed"
                ELSE IF waiter = "returned" THEN "returned" ELSE "collecting",
    result   <- IF waiter = "returned" THEN Range(allItems) ELSE {},
    reported <- IF waiter = "returned" THEN Range(logged) ELSE {}

\* collect and wait implement the promise of Collection: one answer per
\* cloud, a return only after all of them, and one side complete.
ImplementsCollection == Abstract!Spec

\* wait returns, unless a provider's initialisation ends the process: no
\* goroutine blocks for ever on a full channel or an empty WaitGroup.
WaitReturns == <>(waiter = "returned" \/ crashed)
=============================================================================
