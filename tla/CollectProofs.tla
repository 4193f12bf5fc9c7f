--------------------------- MODULE CollectProofs ----------------------------
(***************************************************************************)
(* Proofs about Collect for every set of clouds and every capacity of the  *)
(* two channels: the invariants TLC checks on four clouds, that one side is*)
(* always reported completely, and the refinement of Collection.           *)
(***************************************************************************)
EXTENDS Collect, SequenceTheorems, FunctionTheorems, FiniteSetTheorems, TLAPS

-----------------------------------------------------------------------------
(* Sequences: what wait has taken from a channel followed by what is still *)
(* in it, s \o t, is changed by a send and left alone by a receive.        *)

\* A send appends its element to what was taken and what is buffered.
LEMMA SendAppends ==
  ASSUME NEW S, NEW s \in Seq(S), NEW t \in Seq(S), NEW e \in S
  PROVE  s \o Append(t, e) = Append(s \o t, e)
<1>1. Append(t, e) = t \o <<e>> /\ Append(s \o t, e) = (s \o t) \o <<e>>
  BY AppendIsConcat, ConcatProperties
<1>2. <<e>> \in Seq(S)
  OBVIOUS
<1>3. QED
  BY <1>1, <1>2, ConcatAssociative

\* A receive moves the head of the buffer and keeps the whole.
LEMMA ReceiveKeeps ==
  ASSUME NEW S, NEW s \in Seq(S), NEW t \in Seq(S), t # <<>>
  PROVE  Append(s, Head(t)) \o Tail(t) = s \o t
<1>1. Head(t) \in S /\ Tail(t) \in Seq(S) /\ <<Head(t)>> \in Seq(S)
  BY HeadTailProperties
<1>2. t = <<Head(t)>> \o Tail(t)
  OBVIOUS
<1>3. Append(s, Head(t)) = s \o <<Head(t)>>
  BY <1>1, AppendIsConcat
<1>4. QED
  BY <1>1, <1>2, <1>3, ConcatAssociative

\* Appending an element that is not there yet keeps a sequence free of
\* repetitions and adds the element to its range.
LEMMA AppendFresh ==
  ASSUME NEW S, NEW s \in Seq(S), NEW e \in S,
         IsInjective(s), e \notin Range(s)
  PROVE  /\ IsInjective(Append(s, e))
         /\ Range(Append(s, e)) = Range(s) \cup {e}
<1>1. /\ Append(s, e) \in Seq(S)
      /\ Len(Append(s, e)) = Len(s) + 1
      /\ \A i \in 1 .. Len(s) : Append(s, e)[i] = s[i]
      /\ Append(s, e)[Len(s) + 1] = e
  BY AppendProperties
<1>2. /\ DOMAIN s = 1 .. Len(s)
      /\ DOMAIN Append(s, e) = 1 .. Len(s) + 1
      /\ Len(s) \in Nat
  BY <1>1, LenProperties
<1>3. IsInjective(Append(s, e))
  BY <1>1, <1>2 DEF IsInjective, Range
<1>4. Range(Append(s, e)) = Range(s) \cup {e}
  <2>1. Append(s, e) = s \o <<e>> /\ <<e>> \in Seq(S)
    BY AppendIsConcat
  <2>2. Range(<<e>>) = {e}
    BY DEF Range
  <2>3. Range(s \o <<e>>) = Range(s) \cup Range(<<e>>)
    BY <2>1, RangeConcatenation
  <2>4. QED
    BY <2>1, <2>2, <2>3
<1>5. QED
  BY <1>3, <1>4

-----------------------------------------------------------------------------
(* The inductive invariant. *)

\* The WaitGroup counts exactly the goroutines still to finish.
WgCountsWorkers == wg = {c \in Clouds : pc[c] # "done"}

\* A goroutine has an answer as soon as it is past the getter.
AnswerPastFetch == \A c \in Clouds : answer[c] = "none" <=> pc[c] = "fetch"

\* The channels are closed in order, and only after the WaitGroup is empty.
CloseOrder ==
  /\ itemsClosed => wg = {}
  /\ errClosed => itemsClosed

\* wait only returns on a channel that is closed and drained.
ReturnedOnClosed ==
  waiter = "returned" => ItemsExhausted \/ ErrorsExhausted

IInv ==
  /\ TypeOK
  /\ WgCountsWorkers
  /\ AnswerPastFetch
  /\ CloseOrder
  /\ ReturnedOnClosed
  /\ EachBatchOnce

LEMMA InitIInv == Init => IInv
<1> SUFFICES ASSUME Init PROVE IInv
  OBVIOUS
<1>1. <<>> \o <<>> = <<>>
  OBVIOUS
<1>2. IsInjective(<<>>) /\ Range(<<>>) = {}
  BY DEF IsInjective, Range
<1>3. EachBatchOnce
  BY <1>1, <1>2 DEF Init, EachBatchOnce, Sent
<1>4. TypeOK
  <2>1. <<>> \in Seq(Clouds)
    BY EmptySeq
  <2>2. QED
    BY <2>1 DEF Init, TypeOK
<1>5. WgCountsWorkers
  BY DEF Init, WgCountsWorkers
<1>6. AnswerPastFetch /\ CloseOrder /\ ReturnedOnClosed
  BY DEF Init, AnswerPastFetch, CloseOrder, ReturnedOnClosed
<1>7. QED
  BY <1>3, <1>4, <1>5, <1>6 DEF IInv

LEMMA FetchIInv ==
  ASSUME IInv, NEW c \in Clouds, Fetch(c)
  PROVE  IInv'
<1> USE DEF IInv, Fetch, At, channels, waiting
<1>1. TypeOK'
  BY DEF TypeOK
<1>2. (WgCountsWorkers /\ AnswerPastFetch /\ CloseOrder /\ ReturnedOnClosed)'
  BY DEF TypeOK, WgCountsWorkers, AnswerPastFetch, CloseOrder, ReturnedOnClosed,
         ItemsExhausted, ErrorsExhausted
<1>3. Sent("items")' = Sent("items") /\ Sent("error")' = Sent("error")
  BY DEF TypeOK, Sent
<1>4. EachBatchOnce'
  BY <1>3 DEF EachBatchOnce
<1>5. QED
  BY <1>1, <1>2, <1>4

LEMMA SendItemsIInv ==
  ASSUME IInv, NEW c \in Clouds, SendItems(c)
  PROVE  IInv'
<1> USE DEF IInv, SendItems, At, waiting
<1>1. ~itemsClosed
  BY DEF CloseOrder, WgCountsWorkers
<1>2. itemsChan' = Append(itemsChan, c)
  OBVIOUS
<1>3. TypeOK'
  BY <1>1, <1>2, AppendProperties DEF TypeOK
<1>4. (WgCountsWorkers /\ AnswerPastFetch /\ CloseOrder /\ ReturnedOnClosed)'
  BY <1>1 DEF TypeOK, WgCountsWorkers, AnswerPastFetch, CloseOrder, ReturnedOnClosed,
              ItemsExhausted, ErrorsExhausted
<1>5. Sent("items")' = Sent("items") \cup {c} /\ Sent("error")' = Sent("error")
  BY DEF TypeOK, Sent
<1>6. c \notin Sent("items")
  BY DEF Sent
<1>7. (allItems \o itemsChan)' = Append(allItems \o itemsChan, c)
  BY <1>2, SendAppends DEF TypeOK
<1>8. allItems \o itemsChan \in Seq(Clouds)
  BY ConcatProperties DEF TypeOK
<1>9. IsInjective(allItems \o itemsChan) /\ c \notin Range(allItems \o itemsChan)
  BY <1>6 DEF EachBatchOnce
<1>10. /\ IsInjective(Append(allItems \o itemsChan, c))
       /\ Range(Append(allItems \o itemsChan, c)) = Range(allItems \o itemsChan) \cup {c}
  <2> HIDE DEF IInv, SendItems, SendError, At, waiting
  <2> QED BY <1>8, <1>9, AppendFresh
<1>11. EachBatchOnce'
  BY <1>5, <1>7, <1>10 DEF EachBatchOnce
<1>12. QED
  BY <1>3, <1>4, <1>11

LEMMA SendErrorIInv ==
  ASSUME IInv, NEW c \in Clouds, SendError(c)
  PROVE  IInv'
<1> USE DEF IInv, SendError, At, waiting
<1>1. ~errClosed /\ ~itemsClosed
  BY DEF CloseOrder, WgCountsWorkers
<1>2. errChan' = Append(errChan, c)
  OBVIOUS
<1>3. TypeOK'
  BY <1>1, <1>2, AppendProperties DEF TypeOK
<1>4. (WgCountsWorkers /\ AnswerPastFetch /\ CloseOrder /\ ReturnedOnClosed)'
  BY <1>1 DEF TypeOK, WgCountsWorkers, AnswerPastFetch, CloseOrder, ReturnedOnClosed,
              ItemsExhausted, ErrorsExhausted
<1>5. Sent("error")' = Sent("error") \cup {c} /\ Sent("items")' = Sent("items")
  BY DEF TypeOK, Sent
<1>6. c \notin Sent("error")
  BY DEF Sent
<1>7. (logged \o errChan)' = Append(logged \o errChan, c)
  BY <1>2, SendAppends DEF TypeOK
<1>8. logged \o errChan \in Seq(Clouds)
  BY ConcatProperties DEF TypeOK
<1>9. IsInjective(logged \o errChan) /\ c \notin Range(logged \o errChan)
  BY <1>6 DEF EachBatchOnce
<1>10. /\ IsInjective(Append(logged \o errChan, c))
       /\ Range(Append(logged \o errChan, c)) = Range(logged \o errChan) \cup {c}
  <2> HIDE DEF IInv, SendItems, SendError, At, waiting
  <2> QED BY <1>8, <1>9, AppendFresh
<1>11. EachBatchOnce'
  BY <1>5, <1>7, <1>10 DEF EachBatchOnce
<1>12. QED
  BY <1>3, <1>4, <1>11

LEMMA WorkerDoneIInv ==
  ASSUME IInv, NEW c \in Clouds, WorkerDone(c)
  PROVE  IInv'
<1> USE DEF IInv, WorkerDone, At, channels, waiting
<1>1. TypeOK'
  BY DEF TypeOK
<1>2. (WgCountsWorkers /\ AnswerPastFetch /\ CloseOrder /\ ReturnedOnClosed)'
  BY DEF TypeOK, WgCountsWorkers, AnswerPastFetch, CloseOrder, ReturnedOnClosed,
         ItemsExhausted, ErrorsExhausted
<1>3. Sent("items")' = Sent("items") /\ Sent("error")' = Sent("error")
  BY DEF TypeOK, Sent
<1>4. EachBatchOnce'
  BY <1>3 DEF EachBatchOnce
<1>5. QED
  BY <1>1, <1>2, <1>4

LEMMA ReceiveItemsIInv ==
  ASSUME IInv, ReceiveItems
  PROVE  IInv'
<1> USE DEF IInv, ReceiveItems, Selecting
<1>1. Head(itemsChan) \in Clouds /\ Tail(itemsChan) \in Seq(Clouds)
  BY HeadTailProperties DEF TypeOK
<1>2. TypeOK'
  BY <1>1, AppendProperties DEF TypeOK
<1>3. (WgCountsWorkers /\ AnswerPastFetch /\ CloseOrder /\ ReturnedOnClosed)'
  BY DEF TypeOK, WgCountsWorkers, AnswerPastFetch, CloseOrder, ReturnedOnClosed
<1>4. (allItems \o itemsChan)' = allItems \o itemsChan
  BY ReceiveKeeps DEF TypeOK
<1>5. EachBatchOnce'
  BY <1>4 DEF EachBatchOnce, Sent
<1>6. QED
  BY <1>2, <1>3, <1>5

LEMMA ReceiveErrorIInv ==
  ASSUME IInv, ReceiveError
  PROVE  IInv'
<1> USE DEF IInv, ReceiveError, Selecting
<1>1. Head(errChan) \in Clouds /\ Tail(errChan) \in Seq(Clouds)
  BY HeadTailProperties DEF TypeOK
<1>2. TypeOK'
  BY <1>1, AppendProperties DEF TypeOK
<1>3. (WgCountsWorkers /\ AnswerPastFetch /\ CloseOrder /\ ReturnedOnClosed)'
  BY DEF TypeOK, WgCountsWorkers, AnswerPastFetch, CloseOrder, ReturnedOnClosed
<1>4. (logged \o errChan)' = logged \o errChan
  BY ReceiveKeeps DEF TypeOK
<1>5. EachBatchOnce'
  BY <1>4 DEF EachBatchOnce, Sent
<1>6. QED
  BY <1>2, <1>3, <1>5

\* The steps that move neither a goroutine nor a batch.
LEMMA ControlIInv ==
  ASSUME IInv,
         Closer \/ Exit \/ (\E c \in Clouds : ProviderPanics(c)) \/ UNCHANGED vars
  PROVE  IInv'
<1> USE DEF IInv, TypeOK, WgCountsWorkers, AnswerPastFetch, CloseOrder,
            ReturnedOnClosed, EachBatchOnce, Sent, channels, waiting
<1>1. CASE CloseItems
  BY <1>1 DEF CloseItems, ItemsExhausted, ErrorsExhausted
<1>2. CASE CloseErrors
  BY <1>2 DEF CloseErrors, ItemsExhausted, ErrorsExhausted
<1>3. CASE Exit
  BY <1>3 DEF Exit, Selecting, ItemsExhausted, ErrorsExhausted
<1>4. CASE \E c \in Clouds : ProviderPanics(c)
  BY <1>4 DEF ProviderPanics, At, ItemsExhausted, ErrorsExhausted
<1>5. CASE UNCHANGED vars
  BY <1>5 DEF vars, ItemsExhausted, ErrorsExhausted
<1>6. QED
  BY <1>1, <1>2, <1>3, <1>4, <1>5 DEF Closer

LEMMA NextIInv == IInv /\ [Next]_vars => IInv'
<1> SUFFICES ASSUME IInv, [Next]_vars PROVE IInv'
  OBVIOUS
<1>1. ASSUME NEW c \in Clouds, Worker(c) PROVE IInv'
  BY <1>1, FetchIInv, SendItemsIInv, SendErrorIInv, WorkerDoneIInv DEF Worker
<1>2. CASE Waiter
  BY <1>2, ReceiveItemsIInv, ReceiveErrorIInv, ControlIInv DEF Waiter
<1>3. CASE Closer \/ (\E c \in Clouds : ProviderPanics(c)) \/ UNCHANGED vars
  BY <1>3, ControlIInv
<1>4. QED
  BY <1>1, <1>2, <1>3 DEF Next

LEMMA Invariance == Spec => []IInv
<1>1. QED
  BY InitIInv, NextIInv, PTL DEF Spec

-----------------------------------------------------------------------------
(* The invariants of the run, for every set of clouds and every capacity.  *)

\* The variables of collect and wait keep their types.
THEOREM TypeCorrect == Spec => []TypeOK
<1>1. QED
  BY Invariance, PTL DEF IInv

LEMMA ClosedMeansSettled ==
  ASSUME IInv, itemsClosed \/ errClosed
  PROVE  \A c \in Clouds : pc[c] = "done"
<1>1. QED
  BY DEF IInv, CloseOrder, WgCountsWorkers

\* No goroutine of collect has a send left once a channel is closed.
THEOREM NeverSendsAfterClose == Spec => []NoSendAfterClose
<1>1. IInv => NoSendAfterClose
  BY ClosedMeansSettled DEF NoSendAfterClose
<1>2. QED
  BY <1>1, Invariance, PTL

\* A batch that was sent is neither lost nor duplicated between the channel
\* and the result, for every interleaving of sends and receives.
THEOREM BatchesConserved == Spec => []EachBatchOnce
<1>1. QED
  BY Invariance, PTL DEF IInv

\* When wait returns, what it leaves behind is items or errors, never both.
THEOREM OneSideIsComplete == Spec => []OneSideComplete
<1>1. IInv => OneSideComplete
  BY DEF IInv, ReturnedOnClosed, OneSideComplete, ItemsExhausted, ErrorsExhausted
<1>2. QED
  BY <1>1, Invariance, PTL

\* As long as wait has not returned somebody can go on: a goroutine of collect
\* with its answer or its Done, the closing goroutine, or wait itself.
CanSend(c) ==
  /\ pc[c] = "send"
  /\ \/ answer[c] = "items" /\ (Len(itemsChan) < ItemsCap \/ itemsClosed)
     \/ answer[c] = "error" /\ (Len(errChan) < ErrCap \/ errClosed)

NoDeadlock ==
  ~crashed /\ waiter = "select" =>
    \/ \E c \in Clouds : pc[c] \in {"fetch", "sent"} \/ CanSend(c)
    \/ wg = {} /\ ~itemsClosed
    \/ itemsChan # <<>> \/ errChan # <<>> \/ ItemsExhausted

\* The channels, the WaitGroup and the two loops never wait for each other in
\* a circle, for any number of clouds and any capacities.
THEOREM NeverDeadlocks == Spec => []NoDeadlock
<1>1. ASSUME IInv, \A c \in Clouds : pc[c] = "done"
      PROVE  wg = {}
  BY <1>1 DEF IInv, TypeOK, WgCountsWorkers
<1>2. ASSUME IInv, NEW c \in Clouds, pc[c] = "send", itemsChan = <<>>, errChan = <<>>
      PROVE  CanSend(c)
  <2>1. answer[c] \in {"items", "error"}
    BY <1>2 DEF IInv, TypeOK, AnswerPastFetch
  <2>2. Len(itemsChan) = 0 /\ Len(errChan) = 0
    BY <1>2
  <2> QED
    BY <1>2, <2>1, <2>2, CollectAssumption DEF CanSend
<1>3. IInv => NoDeadlock
  BY <1>1, <1>2 DEF NoDeadlock, ItemsExhausted, IInv, TypeOK
<1>4. QED
  BY <1>3, Invariance, PTL

-----------------------------------------------------------------------------
(* collect and wait implement Collection. *)

\* What wait has taken from a channel is among what was sent on it, and is
\* all of it when the channel is empty.
LEMMA TakenWasSent ==
  ASSUME IInv
  PROVE  /\ Range(allItems) \subseteq Sent("items")
         /\ Range(logged) \subseteq Sent("error")
         /\ itemsChan = <<>> => Range(allItems) = Sent("items")
         /\ errChan = <<>> => Range(logged) = Sent("error")
<1>1. /\ allItems \in Seq(Clouds) /\ itemsChan \in Seq(Clouds)
      /\ logged \in Seq(Clouds) /\ errChan \in Seq(Clouds)
  BY DEF IInv, TypeOK
<1>2. /\ Range(allItems) \cup Range(itemsChan) = Sent("items")
      /\ Range(logged) \cup Range(errChan) = Sent("error")
  BY <1>1, RangeConcatenation DEF IInv, EachBatchOnce
<1>3. Range(<<>>) = {}
  BY DEF Range
<1>4. QED
  BY <1>2, <1>3

LEMMA InitRefines == Init => Abstract!Init
<1>1. Range(<<>>) = {}
  BY DEF Range
<1>2. QED
  BY <1>1 DEF Init, Abstract!Init

\* wait is still selecting while a goroutine has not finished.
LEMMA UnfinishedMeansSelecting ==
  ASSUME IInv, NEW c \in Clouds, pc[c] # "done"
  PROVE  waiter = "select" /\ ~itemsClosed /\ ~errClosed
<1>1. ~itemsClosed /\ ~errClosed
  BY ClosedMeansSettled
<1>2. QED
  BY <1>1 DEF IInv, TypeOK, ReturnedOnClosed, ItemsExhausted, ErrorsExhausted

LEMMA FetchRefines ==
  ASSUME IInv, NEW c \in Clouds, Fetch(c)
  PROVE  Abstract!Answer(c)
<1>1. waiter = "select" /\ answer[c] = "none" /\ ~crashed
  BY UnfinishedMeansSelecting DEF Fetch, At, IInv, AnswerPastFetch
<1>2. QED
  BY <1>1 DEF Fetch, channels, waiting, Abstract!Answer

LEMMA PanicRefines ==
  ASSUME IInv, NEW c \in Clouds, ProviderPanics(c)
  PROVE  Abstract!Crash
<1>1. waiter = "select" /\ answer[c] = "none" /\ ~crashed
  BY UnfinishedMeansSelecting DEF ProviderPanics, At, IInv, AnswerPastFetch
<1>2. QED
  BY <1>1 DEF ProviderPanics, channels, waiting, Abstract!Crash, Abstract!Answering

LEMMA ExitRefines ==
  ASSUME IInv, Exit
  PROVE  Abstract!Return
<1>1. itemsClosed \/ errClosed
  BY DEF Exit, ItemsExhausted, ErrorsExhausted
<1>2. \A c \in Clouds : pc[c] = "done" /\ answer[c] # "none"
  BY <1>1, ClosedMeansSettled DEF IInv, AnswerPastFetch
<1>3. /\ Abstract!Answering("none") = {}
      /\ Abstract!Answering("items") = Sent("items")
      /\ Abstract!Answering("error") = Sent("error")
  BY <1>2 DEF Abstract!Answering, Sent
<1>4. /\ Range(allItems) \subseteq Sent("items")
      /\ Range(logged) \subseteq Sent("error")
      /\ Range(allItems) = Sent("items") \/ Range(logged) = Sent("error")
  BY TakenWasSent DEF Exit, ItemsExhausted, ErrorsExhausted
<1>5. /\ waiter = "select" /\ waiter' = "returned" /\ ~crashed /\ ~crashed'
      /\ allItems' = allItems /\ logged' = logged /\ answer' = answer
  BY DEF Exit, Selecting
<1>6. QED
  BY <1>3, <1>4, <1>5 DEF Abstract!Return

\* Sends, receives and closings are invisible in Collection.
LEMMA OthersStutter ==
  ASSUME IInv,
         \/ \E c \in Clouds : SendItems(c) \/ SendError(c) \/ WorkerDone(c)
         \/ Closer \/ ReceiveItems \/ ReceiveError
         \/ UNCHANGED vars
  PROVE  UNCHANGED Abstract!vars
<1>1. CASE \E c \in Clouds : SendItems(c) \/ SendError(c) \/ WorkerDone(c)
  <2>1. PICK c \in Clouds : SendItems(c) \/ SendError(c) \/ WorkerDone(c)
    BY <1>1
  <2>2. ~itemsClosed /\ ~errClosed
    BY <2>1, UnfinishedMeansSelecting DEF SendItems, SendError, WorkerDone, At
  <2>3. QED
    BY <2>1, <2>2 DEF SendItems, SendError, WorkerDone, At, channels, waiting, Abstract!vars
<1>2. CASE Closer
  BY <1>2 DEF Closer, CloseItems, CloseErrors, waiting, Abstract!vars
<1>3. CASE ReceiveItems \/ ReceiveError
  BY <1>3 DEF ReceiveItems, ReceiveError, Selecting, Abstract!vars
<1>4. CASE UNCHANGED vars
  BY <1>4 DEF vars, waiting, Abstract!vars
<1>5. QED
  BY <1>1, <1>2, <1>3, <1>4

LEMMA NextRefines == IInv /\ [Next]_vars => [Abstract!Next]_(Abstract!vars)
<1> SUFFICES ASSUME IInv, [Next]_vars PROVE [Abstract!Next]_(Abstract!vars)
  OBVIOUS
<1>1. ASSUME NEW c \in Clouds, Fetch(c) PROVE Abstract!Next
  BY <1>1, FetchRefines DEF Abstract!Next
<1>2. ASSUME NEW c \in Clouds, ProviderPanics(c) PROVE Abstract!Next
  BY <1>2, PanicRefines DEF Abstract!Next
<1>3. CASE Exit
  BY <1>3, ExitRefines DEF Abstract!Next
<1>4. CASE \/ \E c \in Clouds : SendItems(c) \/ SendError(c) \/ WorkerDone(c)
           \/ Closer \/ ReceiveItems \/ ReceiveError
           \/ UNCHANGED vars
  BY <1>4, OthersStutter
<1>5. QED
  BY <1>1, <1>2, <1>3, <1>4 DEF Next, Worker, Waiter

\* Every behaviour of collect and wait is one of Collection: a return only
\* after every cloud has answered, with answers really given, and with one
\* of the two kinds complete.
THEOREM Refinement == Spec => ImplementsCollection
<1>1. QED
  BY InitRefines, NextRefines, Invariance, PTL DEF Spec, ImplementsCollection, Abstract!Spec

-----------------------------------------------------------------------------
(* What ReturnsAllItems, which the code does not keep, leaves of itself.   *)

\* The buffers never hold more than make(chan, n) gave them room for.
WithinCapacity == Len(itemsChan) <= ItemsCap /\ Len(errChan) <= ErrCap

LEMMA InitWithinCapacity == Init => WithinCapacity
<1>1. QED
  BY CollectAssumption DEF Init, WithinCapacity

LEMMA NextWithinCapacity == IInv /\ WithinCapacity /\ [Next]_vars => WithinCapacity'
<1> SUFFICES ASSUME IInv, WithinCapacity, [Next]_vars PROVE WithinCapacity'
  OBVIOUS
<1> USE CollectAssumption DEF WithinCapacity
<1>1. ASSUME NEW c \in Clouds, SendItems(c) \/ SendError(c) PROVE WithinCapacity'
  <2>1. ~itemsClosed /\ ~errClosed
    BY <1>1, UnfinishedMeansSelecting DEF SendItems, SendError, At
  <2>2. CASE SendItems(c)
    BY <2>1, <2>2, AppendProperties DEF SendItems, IInv, TypeOK
  <2>3. CASE SendError(c)
    BY <2>1, <2>3, AppendProperties DEF SendError, IInv, TypeOK
  <2>4. QED
    BY <1>1, <2>2, <2>3
<1>2. CASE ReceiveItems
  BY <1>2, HeadTailProperties DEF ReceiveItems, IInv, TypeOK
<1>3. CASE ReceiveError
  BY <1>3, HeadTailProperties DEF ReceiveError, IInv, TypeOK
<1>4. CASE \/ \E c \in Clouds : Fetch(c) \/ WorkerDone(c) \/ ProviderPanics(c)
           \/ Closer \/ Exit \/ UNCHANGED vars
  BY <1>4 DEF Fetch, WorkerDone, ProviderPanics, Closer, CloseItems, CloseErrors, Exit,
              channels, vars
<1>5. QED
  BY <1>1, <1>2, <1>3, <1>4 DEF Next, Worker, Waiter

\* What the result lacks is what is in the buffer: at most ItemsCap batches,
\* and only when every error has been logged.
LossIsBounded ==
  waiter = "returned" =>
    /\ Sent("items") \ Range(allItems) = Range(itemsChan)
    /\ Len(itemsChan) <= ItemsCap
    /\ itemsChan # <<>> => Range(logged) = Sent("error")

LEMMA LostIsBuffered ==
  ASSUME IInv
  PROVE  Sent("items") \ Range(allItems) = Range(itemsChan)
<1>1. allItems \in Seq(Clouds) /\ itemsChan \in Seq(Clouds)
  BY DEF IInv, TypeOK
<1>2. Range(allItems) \cup Range(itemsChan) = Sent("items")
  BY <1>1, RangeConcatenation DEF IInv, EachBatchOnce
<1>3. Range(allItems) \cap Range(itemsChan) = {}
  <2> SUFFICES ASSUME NEW i \in DOMAIN allItems, NEW j \in DOMAIN itemsChan,
                      allItems[i] = itemsChan[j]
               PROVE  FALSE
    BY DEF Range
  <2> DEFINE all == allItems \o itemsChan
  <2>1. /\ DOMAIN allItems = 1 .. Len(allItems)
        /\ DOMAIN itemsChan = 1 .. Len(itemsChan)
        /\ DOMAIN all = 1 .. Len(allItems) + Len(itemsChan)
        /\ Len(allItems) \in Nat /\ Len(itemsChan) \in Nat
    BY <1>1, LenProperties, ConcatProperties
  <2>2. all[i] = allItems[i] /\ all[Len(allItems) + j] = itemsChan[j]
    BY <1>1, <2>1, ConcatProperties
  <2>3. i \in DOMAIN all /\ Len(allItems) + j \in DOMAIN all /\ i # Len(allItems) + j
    BY <2>1
  <2>4. IsInjective(all)
    BY DEF IInv, EachBatchOnce
  <2>5. QED
    BY <2>2, <2>3, <2>4 DEF IsInjective
<1>4. QED
  BY <1>2, <1>3

\* wait may leave items behind, which the run collect_all shows; but never
\* more than the buffer of itemsChan holds, for any number of clouds.
THEOREM LossBounded == Spec => []LossIsBounded
<1>1. IInv /\ WithinCapacity => LossIsBounded
  <2> SUFFICES ASSUME IInv, WithinCapacity, waiter = "returned"
               PROVE  /\ Sent("items") \ Range(allItems) = Range(itemsChan)
                      /\ Len(itemsChan) <= ItemsCap
                      /\ itemsChan # <<>> => Range(logged) = Sent("error")
    BY DEF LossIsBounded
  <2>1. itemsChan # <<>> => errChan = <<>>
    BY DEF IInv, ReturnedOnClosed, ItemsExhausted, ErrorsExhausted
  <2>2. QED
    BY <2>1, LostIsBuffered, TakenWasSent DEF WithinCapacity
<1>2. QED
  BY <1>1, Invariance, InitWithinCapacity, NextWithinCapacity, PTL DEF Spec

-----------------------------------------------------------------------------
(* collect and wait end without any fairness but that something happens.   *)

\* How far the goroutine of a cloud has come.
Rank == [fetch |-> 0, send |-> 1, sent |-> 2, done |-> 3]

\* What only moves one way: the places of the goroutines, the two closes,
\* the batches received, and the loop of wait.
NothingGoesBack ==
  /\ \A c \in Clouds : Rank[pc[c]] <= Rank[pc'[c]]
  /\ (itemsClosed => itemsClosed') /\ (errClosed => errClosed')
  /\ Len(allItems) <= Len(allItems') /\ Len(logged) <= Len(logged')
  /\ waiter = "returned" => waiter' = "returned"
  /\ ~crashed

SomethingMoves ==
  \/ \E c \in Clouds : Rank[pc[c]] < Rank[pc'[c]]
  \/ ~itemsClosed /\ itemsClosed'
  \/ ~errClosed /\ errClosed'
  \/ Len(allItems) < Len(allItems') \/ Len(logged) < Len(logged')
  \/ waiter # waiter'
  \/ crashed'

\* Nothing of it can grow for ever.
ReceivedIsBounded ==
  Len(allItems) <= Cardinality(Clouds) /\ Len(logged) <= Cardinality(Clouds)

LEMMA InjectiveIsShort ==
  ASSUME NEW S, IsFiniteSet(S), NEW s \in Seq(S), NEW t \in Seq(S), IsInjective(s \o t)
  PROVE  Len(s) <= Cardinality(S)
<1> DEFINE st == s \o t
           n  == Len(s) + Len(t)
<1>1. /\ Len(s) \in Nat /\ Len(t) \in Nat /\ n \in Nat
      /\ st \in [1 .. n -> S]
  <2>1. st \in Seq(S) /\ Len(st) = n
    BY ConcatProperties
  <2>2. Len(s) \in Nat /\ Len(t) \in Nat
    BY LenProperties
  <2>3. st \in [1 .. Len(st) -> S]
    BY <2>1, LenProperties
  <2>4. QED
    BY <2>1, <2>2, <2>3
<1>2. st \in Injection(1 .. n, S)
  BY <1>1 DEF Injection, IsInjective
<1>3. Cardinality(1 .. n) = n
  BY <1>1, FS_Interval
<1>4. Cardinality(1 .. n) <= Cardinality(S)
  BY <1>2, FS_Injection
<1>5. Cardinality(S) \in Nat
  BY FS_CardinalityType
<1>6. QED
  BY <1>1, <1>3, <1>4, <1>5

LEMMA StepAdvances ==
  ASSUME IInv, Next
  PROVE  NothingGoesBack /\ SomethingMoves
<1> USE DEF NothingGoesBack, SomethingMoves, Rank, IInv, TypeOK, channels, waiting
<1>1. ASSUME NEW c \in Clouds, Fetch(c) PROVE NothingGoesBack /\ SomethingMoves
  BY <1>1 DEF Fetch, At
<1>2. ASSUME NEW c \in Clouds, SendItems(c) PROVE NothingGoesBack /\ SomethingMoves
  BY <1>2 DEF SendItems, At
<1>3. ASSUME NEW c \in Clouds, SendError(c) PROVE NothingGoesBack /\ SomethingMoves
  BY <1>3 DEF SendError, At
<1>4. ASSUME NEW c \in Clouds, WorkerDone(c) PROVE NothingGoesBack /\ SomethingMoves
  BY <1>4 DEF WorkerDone, At
<1>5. ASSUME NEW c \in Clouds, ProviderPanics(c) PROVE NothingGoesBack /\ SomethingMoves
  BY <1>5 DEF ProviderPanics, At
<1>6. CASE Closer
  BY <1>6 DEF Closer, CloseItems, CloseErrors
<1>7. CASE ReceiveItems
  BY <1>7, HeadTailProperties, AppendProperties DEF ReceiveItems, Selecting
<1>8. CASE ReceiveError
  BY <1>8, HeadTailProperties, AppendProperties DEF ReceiveError, Selecting
<1>9. CASE Exit
  BY <1>9 DEF Exit, Selecting
<1>10. QED
  BY <1>1, <1>2, <1>3, <1>4, <1>5, <1>6, <1>7, <1>8, <1>9 DEF Next, Worker, Waiter

\* Every step of collect and wait is one forward: a goroutine advances, a
\* channel is closed, a batch is received, wait returns or the process ends.
\* Nothing is retried or undone, for any clouds and any scheduling.
EveryStepAdvances == [][NothingGoesBack /\ SomethingMoves]_vars

THEOREM StepsAdvance == Spec => EveryStepAdvances /\ []ReceivedIsBounded
<1>1. IInv => ReceivedIsBounded
  BY InjectiveIsShort, CollectAssumption DEF IInv, TypeOK, EachBatchOnce, ReceivedIsBounded
<1>2. IInv /\ [Next]_vars => [NothingGoesBack /\ SomethingMoves]_vars
  BY StepAdvances
<1>3. QED
  BY <1>1, <1>2, Invariance, PTL DEF Spec, EveryStepAdvances
=============================================================================
