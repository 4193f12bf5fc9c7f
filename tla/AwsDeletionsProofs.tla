------------------------- MODULE AwsDeletionsProofs -------------------------
(***************************************************************************)
(* The invariants of AwsDeletions for all resources, regions, lists, chunk *)
(* sizes and numbers of slots.  An item of the list is to come in its      *)
(* region's loop, or is the volume in hand, or was deleted, or skipped, or *)
(* its error was received; the loops of two regions do not meet.           *)
(***************************************************************************)
EXTENDS AwsDeletions, FiniteSetTheorems, TLAPS

InHand == {"detach", "poll", "delete"}

\* What a region's goroutine has before it: items of its own region that
\* nobody has handled, and a volume in hand that is not one of them.
LoopApart(r) ==
  /\ rest[r] \subseteq InRegion(r) \ (gone \cup skipped)
  /\ call = "alerts" => rest[r] = {}
  /\ pc[r] \in InHand =>
       /\ call = "volumes" /\ ~dryRun
       /\ item[r] \in InRegion(r) \ (rest[r] \cup gone \cup skipped)
       /\ pc[r] \in {"detach", "poll"} => item[r] \in inUse
  /\ pc[r] \in {"release", "done"} =>
       /\ rest[r] = {}
       /\ call = "alerts" => next[r] >= Count(r)

LoopsApart == \A r \in Regions : LoopApart(r)

ByCall ==
  /\ dryRun /\ call # "databases" => gone = {} /\ detached = {}
  /\ call # "volumes" => skipped = {} /\ detached = {}
  /\ call # "alerts" => gone \subseteq Selected
  /\ skipped \subseteq inUse \ gone

Accounted ==
  call # "alerts" /\ (dryRun => call = "databases") =>
    \A i \in Selected :
      \/ i \in rest[RegionOf[i]] \cup gone \cup errs \cup skipped
      \/ pc[RegionOf[i]] \in InHand /\ item[RegionOf[i]] = i

\* The alarms of a region that are gone have the first names of the list, as
\* many as the region has alerts behind it.
NamesSent ==
  call = "alerts" =>
    /\ \A a \in gone :
         /\ InRegion(RegionOf[a]) # {}
         /\ \E b \in Selected : NameOf[b] = NameOf[a]
    /\ ~dryRun /\ errs = {} =>
         \A a \in Resources, k \in DOMAIN listing :
           k <= next[RegionOf[a]] /\ k <= Count(RegionOf[a]) /\ NameOf[listing[k]] = NameOf[a]
             => a \in gone

ClosedAtEnd ==
  /\ returned => closed
  /\ closed => \A r \in Regions : pc[r] \in {"release", "done"}

IInv ==
  /\ TypeOK
  /\ LoopsApart
  /\ ByCall
  /\ Accounted
  /\ NamesSent
  /\ DetachedIsAccountedFor
  /\ ClosedAtEnd

-----------------------------------------------------------------------------
\* The list is finite and without repetition, so a region has as many alerts
\* as its part of the list is long, and at most as many as the list.
LEMMA Selection ==
  ASSUME listing \in Listings
  PROVE  /\ Len(listing) \in Nat /\ DOMAIN listing = 1 .. Len(listing)
         /\ Selected \subseteq Resources
         /\ IsFiniteSet(Selected) /\ Cardinality(Selected) = Len(listing)
         /\ \A r \in Regions : Count(r) \in Nat /\ Count(r) <= Len(listing)
         /\ \A r \in Regions : Count(r) > 0 <=> InRegion(r) # {}
<1>1. /\ listing \in Seq(Resources) /\ Len(listing) \in Nat /\ DOMAIN listing = 1 .. Len(listing)
      /\ listing \in [1 .. Len(listing) -> Resources]
  BY AwsDeletionsAssumption
<1>2. Selected \subseteq Resources
  BY <1>1 DEF Selected
<1>3. listing \in Surjection(1 .. Len(listing), Selected)
  BY <1>1 DEF Selected, Surjection
<1>4. listing \in Injection(1 .. Len(listing), Selected)
  <2>1. \A j, k \in DOMAIN listing : listing[j] = listing[k] => j = k
    BY AwsDeletionsAssumption
  <2> QED
    BY <1>1, <2>1 DEF Selected, Injection, IsInjective
<1>5. IsFiniteSet(1 .. Len(listing)) /\ Cardinality(1 .. Len(listing)) = Len(listing)
  BY <1>1, FS_Interval
<1>6. IsFiniteSet(Selected) /\ Cardinality(Selected) = Len(listing)
  BY <1>3, <1>4, <1>5, FS_Surjection
<1>7. ASSUME NEW r \in Regions
      PROVE  /\ Count(r) \in Nat /\ Count(r) <= Len(listing)
             /\ Count(r) > 0 <=> InRegion(r) # {}
  <2>1. InRegion(r) \in SUBSET Selected
    BY DEF InRegion
  <2>2. IsFiniteSet(InRegion(r)) /\ Cardinality(InRegion(r)) <= Len(listing)
    BY <1>6, <2>1, FS_Subset
  <2>3. Cardinality(InRegion(r)) \in Nat
    BY <2>2, FS_CardinalityType
  <2>4. Cardinality(InRegion(r)) = 0 <=> InRegion(r) = {}
    BY <2>2, FS_EmptySet
  <2> QED
    BY <2>2, <2>3, <2>4 DEF Count
<1> QED
  BY <1>1, <1>2, <1>6, <1>7

\* No step changes the input of the call.
LEMMA InputFixed ==
  ASSUME UNCHANGED input
  PROVE  /\ UNCHANGED <<call, dryRun, listing, inUse>>
         /\ Selected' = Selected
         /\ \A r \in Regions : InRegion(r)' = InRegion(r) /\ Count(r)' = Count(r)
BY DEF input, Selected, InRegion, Count

\* The chunks of a region are positions of the list.
LEMMA Chunk ==
  ASSUME TypeOK, NEW r \in Regions, next[r] < Count(r)
  PROVE  /\ endIndex(r) \in Nat
         /\ next[r] + 1 <= endIndex(r) /\ endIndex(r) <= Count(r)
         /\ endIndex(r) <= next[r] + AwsBulkOperationSize
         /\ next[r] + AwsBulkOperationSize > endIndex(r) => endIndex(r) = Count(r)
         /\ (next[r] + 1) .. endIndex(r) \subseteq DOMAIN listing
         /\ CurrentAlerts(r) \subseteq Selected /\ CurrentAlerts(r) # {}
<1>1. /\ Count(r) \in Nat /\ Count(r) <= Len(listing) /\ Len(listing) \in Nat
      /\ DOMAIN listing = 1 .. Len(listing)
  BY Selection DEF TypeOK
<1>2. next[r] \in Nat /\ AwsBulkOperationSize \in Nat \ {0}
  BY AwsDeletionsAssumption DEF TypeOK
<1>3. /\ endIndex(r) \in Nat
      /\ next[r] + 1 <= endIndex(r) /\ endIndex(r) <= Count(r)
      /\ endIndex(r) <= next[r] + AwsBulkOperationSize
      /\ next[r] + AwsBulkOperationSize > endIndex(r) => endIndex(r) = Count(r)
  BY <1>1, <1>2 DEF endIndex
<1>4. (next[r] + 1) .. endIndex(r) \subseteq DOMAIN listing
  BY <1>1, <1>2, <1>3
<1>5. CurrentAlerts(r) \subseteq Selected
  BY <1>4 DEF CurrentAlerts, Selected
<1>6. next[r] + 1 \in (next[r] + 1) .. endIndex(r)
  BY <1>2, <1>3
<1>7. CurrentAlerts(r) # {}
  BY <1>6 DEF CurrentAlerts
<1> QED
  BY <1>3, <1>4, <1>5, <1>7

LEMMA InitInvariant == Init => IInv
<1> SUFFICES ASSUME Init PROVE IInv
  OBVIOUS
<1>1. /\ listing \in Listings /\ Selected \subseteq Resources
      /\ \A r \in Regions : Count(r) \in Nat /\ (Count(r) > 0 <=> InRegion(r) # {})
  BY Selection DEF Init
<1>2. TypeOK
  <2>1. MaxPolls \in Nat
    BY AwsDeletionsAssumption
  <2>2. \A r \in Regions : InRegion(r) \subseteq Selected
    BY DEF InRegion
  <2>3. 0 \in 0 .. MaxPolls
    BY <2>1
  <2>4. rest \in [Regions -> SUBSET Selected]
    BY <2>2 DEF Init
  <2>5. /\ attachment \in [Selected -> {"attached", "detaching", "available"}]
        /\ inUse \subseteq Selected
    <3>1. inUse \in SUBSET Selected \/ inUse \in {{}}
      BY DEF Init
    <3>2. \/ attachment \in [Selected -> {"available"} \cup {"attached"}]
          \/ attachment \in [Selected -> {"available"} \cup {}]
      BY DEF Init
    <3> QED
      BY <3>1, <3>2
  <2>6. pc \in [Regions -> {"slot", "next", "detach", "poll", "delete", "release", "done"}]
    BY DEF Init
  <2> QED
    BY <1>1, <2>3, <2>4, <2>5, <2>6 DEF Init, TypeOK
<1>3. LoopsApart
  <2> SUFFICES ASSUME NEW r \in Regions PROVE LoopApart(r)
    BY DEF LoopsApart
  <2>1. pc[r] \notin InHand /\ next[r] = 0 /\ gone = {} /\ skipped = {}
    BY DEF Init, InHand
  <2>2. rest[r] = IF call = "alerts" THEN {} ELSE InRegion(r)
    BY DEF Init
  <2>3. pc[r] \in {"release", "done"} => InRegion(r) = {}
    BY DEF Init
  <2> QED
    BY <1>1, <2>1, <2>2, <2>3 DEF LoopApart
<1>4. ByCall /\ DetachedIsAccountedFor /\ ClosedAtEnd
  BY DEF Init, ByCall, DetachedIsAccountedFor, ClosedAtEnd
<1>5. Accounted
  <2> SUFFICES ASSUME NEW i \in Selected, call # "alerts" PROVE i \in rest[RegionOf[i]]
    BY DEF Accounted
  <2>1. RegionOf[i] \in Regions /\ i \in InRegion(RegionOf[i])
    BY <1>1, AwsDeletionsAssumption DEF InRegion
  <2> QED
    BY <2>1 DEF Init
<1>6. NamesSent
  <2>1. \A a \in Resources : RegionOf[a] \in Regions
    BY AwsDeletionsAssumption
  <2>2. ASSUME NEW a \in Resources, NEW k \in DOMAIN listing, k <= next[RegionOf[a]] PROVE FALSE
    <3>1. k \in Nat \ {0} /\ next[RegionOf[a]] = 0
      BY <2>1, Selection DEF Init
    <3> QED
      BY <2>2, <3>1
  <2> QED
    BY <2>2 DEF Init, NamesSent
<1> QED
  BY <1>2, <1>3, <1>4, <1>5, <1>6 DEF IInv

-----------------------------------------------------------------------------
(* Every action keeps the invariant: one lemma for each.                   *)

LEMMA TakeSlotStep ==
  ASSUME IInv, NEW r \in Regions, TakeSlot(r)
  PROVE  IInv'
<1> USE DEF TakeSlot, At, Goto, loop, cloud, answer
<1>1. /\ UNCHANGED <<call, dryRun, listing, inUse>> /\ Selected' = Selected
      /\ \A q \in Regions : InRegion(q)' = InRegion(q) /\ Count(q)' = Count(q)
  BY InputFixed
<1>2. Selected \subseteq Resources /\ \A a \in Resources : RegionOf[a] \in Regions
  BY Selection, AwsDeletionsAssumption DEF IInv, TypeOK
<1>3. LoopApart(r)
  BY DEF IInv, LoopsApart
<1>4. TypeOK'
  BY <1>1, <1>2, <1>3 DEF IInv, TypeOK, LoopApart, InHand, InRegion
<1>5. LoopsApart'
  <2> SUFFICES ASSUME NEW q \in Regions PROVE LoopApart(q)'
    BY DEF LoopsApart
  <2>1. LoopApart(q) /\ (q # r => InRegion(q) \cap InRegion(r) = {})
    BY DEF IInv, LoopsApart, InRegion
  <2> QED
    BY <1>1, <1>2, <1>3, <2>1 DEF IInv, TypeOK, LoopApart, InHand
<1>6. ByCall'
  BY <1>1, <1>2, <1>3 DEF IInv, TypeOK, ByCall, LoopApart, InHand, InRegion
<1>7. Accounted'
  BY <1>1, <1>2, <1>3 DEF IInv, TypeOK, Accounted, LoopApart, InHand, InRegion
<1>8. NamesSent'
  BY <1>1, <1>2, <1>3 DEF IInv, TypeOK, NamesSent, LoopApart, InHand
<1>9. DetachedIsAccountedFor'
  BY <1>1, <1>2, <1>3 DEF IInv, TypeOK, DetachedIsAccountedFor, LoopApart, InHand, ByCall
<1>10. ClosedAtEnd'
  BY DEF IInv, TypeOK, ClosedAtEnd
<1> QED
  BY <1>4, <1>5, <1>6, <1>7, <1>8, <1>9, <1>10 DEF IInv

LEMMA SkipOnDryRunStep ==
  ASSUME IInv, NEW r \in Regions, SkipOnDryRun(r)
  PROVE  IInv'
<1> USE DEF SkipOnDryRun, At, Goto, loop, cloud, answer
<1>1. /\ UNCHANGED <<call, dryRun, listing, inUse>> /\ Selected' = Selected
      /\ \A q \in Regions : InRegion(q)' = InRegion(q) /\ Count(q)' = Count(q)
  BY InputFixed
<1>2. Selected \subseteq Resources /\ \A a \in Resources : RegionOf[a] \in Regions
  BY Selection, AwsDeletionsAssumption DEF IInv, TypeOK
<1>3. LoopApart(r)
  BY DEF IInv, LoopsApart
<1>4. TypeOK'
  BY <1>1, <1>2, <1>3 DEF IInv, TypeOK, LoopApart, InHand, InRegion
<1>5. LoopsApart'
  <2> SUFFICES ASSUME NEW q \in Regions PROVE LoopApart(q)'
    BY DEF LoopsApart
  <2>1. LoopApart(q) /\ (q # r => InRegion(q) \cap InRegion(r) = {})
    BY DEF IInv, LoopsApart, InRegion
  <2> QED
    BY <1>1, <1>2, <1>3, <2>1 DEF IInv, TypeOK, LoopApart, InHand
<1>6. ByCall'
  BY <1>1, <1>2, <1>3 DEF IInv, TypeOK, ByCall, LoopApart, InHand, InRegion
<1>7. Accounted'
  BY <1>1, <1>2, <1>3 DEF IInv, TypeOK, Accounted, LoopApart, InHand, InRegion
<1>8. NamesSent'
  BY <1>1, <1>2, <1>3 DEF IInv, TypeOK, NamesSent, LoopApart, InHand
<1>9. DetachedIsAccountedFor'
  BY <1>1, <1>2, <1>3 DEF IInv, TypeOK, DetachedIsAccountedFor, LoopApart, InHand, ByCall
<1>10. ClosedAtEnd'
  BY DEF IInv, TypeOK, ClosedAtEnd
<1> QED
  BY <1>4, <1>5, <1>6, <1>7, <1>8, <1>9, <1>10 DEF IInv

LEMMA RegionEndsStep ==
  ASSUME IInv, NEW r \in Regions, RegionEnds(r)
  PROVE  IInv'
<1> USE DEF RegionEnds, At, Goto, loop, cloud, answer
<1>1. /\ UNCHANGED <<call, dryRun, listing, inUse>> /\ Selected' = Selected
      /\ \A q \in Regions : InRegion(q)' = InRegion(q) /\ Count(q)' = Count(q)
  BY InputFixed
<1>2. Selected \subseteq Resources /\ \A a \in Resources : RegionOf[a] \in Regions
  BY Selection, AwsDeletionsAssumption DEF IInv, TypeOK
<1>3. LoopApart(r)
  BY DEF IInv, LoopsApart
<1>4. TypeOK'
  BY <1>1, <1>2, <1>3 DEF IInv, TypeOK, LoopApart, InHand, InRegion
<1>5. LoopsApart'
  <2> SUFFICES ASSUME NEW q \in Regions PROVE LoopApart(q)'
    BY DEF LoopsApart
  <2>1. LoopApart(q) /\ (q # r => InRegion(q) \cap InRegion(r) = {})
    BY DEF IInv, LoopsApart, InRegion
  <2> QED
    BY <1>1, <1>2, <1>3, <2>1 DEF IInv, TypeOK, LoopApart, InHand
<1>6. ByCall'
  BY <1>1, <1>2, <1>3 DEF IInv, TypeOK, ByCall, LoopApart, InHand, InRegion
<1>7. Accounted'
  BY <1>1, <1>2, <1>3 DEF IInv, TypeOK, Accounted, LoopApart, InHand, InRegion
<1>8. NamesSent'
  BY <1>1, <1>2, <1>3 DEF IInv, TypeOK, NamesSent, LoopApart, InHand
<1>9. DetachedIsAccountedFor'
  BY <1>1, <1>2, <1>3 DEF IInv, TypeOK, DetachedIsAccountedFor, LoopApart, InHand, ByCall
<1>10. ClosedAtEnd'
  BY DEF IInv, TypeOK, ClosedAtEnd
<1> QED
  BY <1>4, <1>5, <1>6, <1>7, <1>8, <1>9, <1>10 DEF IInv

LEMMA ReleaseSlotStep ==
  ASSUME IInv, NEW r \in Regions, ReleaseSlot(r)
  PROVE  IInv'
<1> USE DEF ReleaseSlot, At, Goto, loop, cloud, answer
<1>1. /\ UNCHANGED <<call, dryRun, listing, inUse>> /\ Selected' = Selected
      /\ \A q \in Regions : InRegion(q)' = InRegion(q) /\ Count(q)' = Count(q)
  BY InputFixed
<1>2. Selected \subseteq Resources /\ \A a \in Resources : RegionOf[a] \in Regions
  BY Selection, AwsDeletionsAssumption DEF IInv, TypeOK
<1>3. LoopApart(r)
  BY DEF IInv, LoopsApart
<1>4. TypeOK'
  BY <1>1, <1>2, <1>3 DEF IInv, TypeOK, LoopApart, InHand, InRegion
<1>5. LoopsApart'
  <2> SUFFICES ASSUME NEW q \in Regions PROVE LoopApart(q)'
    BY DEF LoopsApart
  <2>1. LoopApart(q) /\ (q # r => InRegion(q) \cap InRegion(r) = {})
    BY DEF IInv, LoopsApart, InRegion
  <2> QED
    BY <1>1, <1>2, <1>3, <2>1 DEF IInv, TypeOK, LoopApart, InHand
<1>6. ByCall'
  BY <1>1, <1>2, <1>3 DEF IInv, TypeOK, ByCall, LoopApart, InHand, InRegion
<1>7. Accounted'
  BY <1>1, <1>2, <1>3 DEF IInv, TypeOK, Accounted, LoopApart, InHand, InRegion
<1>8. NamesSent'
  BY <1>1, <1>2, <1>3 DEF IInv, TypeOK, NamesSent, LoopApart, InHand
<1>9. DetachedIsAccountedFor'
  BY <1>1, <1>2, <1>3 DEF IInv, TypeOK, DetachedIsAccountedFor, LoopApart, InHand, ByCall
<1>10. ClosedAtEnd'
  BY DEF IInv, TypeOK, ClosedAtEnd
<1> QED
  BY <1>4, <1>5, <1>6, <1>7, <1>8, <1>9, <1>10 DEF IInv

LEMMA DeregisterImageStep ==
  ASSUME IInv, NEW r \in Regions, NEW i \in Resources, DeregisterImage(r, i)
  PROVE  IInv'
<1> USE DEF DeregisterImage, Take, At, Goto, loop, cloud, answer
<1>1. /\ UNCHANGED <<call, dryRun, listing, inUse>> /\ Selected' = Selected
      /\ \A q \in Regions : InRegion(q)' = InRegion(q) /\ Count(q)' = Count(q)
  BY InputFixed
<1>2. Selected \subseteq Resources /\ \A a \in Resources : RegionOf[a] \in Regions
  BY Selection, AwsDeletionsAssumption DEF IInv, TypeOK
<1>3. LoopApart(r)
  BY DEF IInv, LoopsApart
<1>4. TypeOK'
  BY <1>1, <1>2, <1>3 DEF IInv, TypeOK, LoopApart, InHand, InRegion
<1>5. LoopsApart'
  <2> SUFFICES ASSUME NEW q \in Regions PROVE LoopApart(q)'
    BY DEF LoopsApart
  <2>1. LoopApart(q) /\ (q # r => InRegion(q) \cap InRegion(r) = {})
    BY DEF IInv, LoopsApart, InRegion
  <2> QED
    BY <1>1, <1>2, <1>3, <2>1 DEF IInv, TypeOK, LoopApart, InHand
<1>6. ByCall'
  BY <1>1, <1>2, <1>3 DEF IInv, TypeOK, ByCall, LoopApart, InHand, InRegion
<1>7. Accounted'
  BY <1>1, <1>2, <1>3 DEF IInv, TypeOK, Accounted, LoopApart, InHand, InRegion
<1>8. NamesSent'
  BY <1>1, <1>2, <1>3 DEF IInv, TypeOK, NamesSent, LoopApart, InHand
<1>9. DetachedIsAccountedFor'
  BY <1>1, <1>2, <1>3 DEF IInv, TypeOK, DetachedIsAccountedFor, LoopApart, InHand, ByCall
<1>10. ClosedAtEnd'
  BY DEF IInv, TypeOK, ClosedAtEnd
<1> QED
  BY <1>4, <1>5, <1>6, <1>7, <1>8, <1>9, <1>10 DEF IInv

LEMMA StopDBInstanceStep ==
  ASSUME IInv, NEW r \in Regions, NEW i \in Resources, StopDBInstance(r, i)
  PROVE  IInv'
<1> USE DEF StopDBInstance, Take, At, Goto, loop, cloud, answer
<1>1. /\ UNCHANGED <<call, dryRun, listing, inUse>> /\ Selected' = Selected
      /\ \A q \in Regions : InRegion(q)' = InRegion(q) /\ Count(q)' = Count(q)
  BY InputFixed
<1>2. Selected \subseteq Resources /\ \A a \in Resources : RegionOf[a] \in Regions
  BY Selection, AwsDeletionsAssumption DEF IInv, TypeOK
<1>3. LoopApart(r)
  BY DEF IInv, LoopsApart
<1>4. TypeOK'
  BY <1>1, <1>2, <1>3 DEF IInv, TypeOK, LoopApart, InHand, InRegion
<1>5. LoopsApart'
  <2> SUFFICES ASSUME NEW q \in Regions PROVE LoopApart(q)'
    BY DEF LoopsApart
  <2>1. LoopApart(q) /\ (q # r => InRegion(q) \cap InRegion(r) = {})
    BY DEF IInv, LoopsApart, InRegion
  <2> QED
    BY <1>1, <1>2, <1>3, <2>1 DEF IInv, TypeOK, LoopApart, InHand
<1>6. ByCall'
  BY <1>1, <1>2, <1>3 DEF IInv, TypeOK, ByCall, LoopApart, InHand, InRegion
<1>7. Accounted'
  BY <1>1, <1>2, <1>3 DEF IInv, TypeOK, Accounted, LoopApart, InHand, InRegion
<1>8. NamesSent'
  BY <1>1, <1>2, <1>3 DEF IInv, TypeOK, NamesSent, LoopApart, InHand
<1>9. DetachedIsAccountedFor'
  BY <1>1, <1>2, <1>3 DEF IInv, TypeOK, DetachedIsAccountedFor, LoopApart, InHand, ByCall
<1>10. ClosedAtEnd'
  BY DEF IInv, TypeOK, ClosedAtEnd
<1> QED
  BY <1>4, <1>5, <1>6, <1>7, <1>8, <1>9, <1>10 DEF IInv

LEMMA RequestFailsStep ==
  ASSUME IInv, NEW r \in Regions, NEW i \in Resources, RequestFails(r, i)
  PROVE  IInv'
<1> USE DEF RequestFails, Take, At, Goto, loop, cloud, answer
<1>1. /\ UNCHANGED <<call, dryRun, listing, inUse>> /\ Selected' = Selected
      /\ \A q \in Regions : InRegion(q)' = InRegion(q) /\ Count(q)' = Count(q)
  BY InputFixed
<1>2. Selected \subseteq Resources /\ \A a \in Resources : RegionOf[a] \in Regions
  BY Selection, AwsDeletionsAssumption DEF IInv, TypeOK
<1>3. LoopApart(r)
  BY DEF IInv, LoopsApart
<1>4. TypeOK'
  BY <1>1, <1>2, <1>3 DEF IInv, TypeOK, LoopApart, InHand, InRegion
<1>5. LoopsApart'
  <2> SUFFICES ASSUME NEW q \in Regions PROVE LoopApart(q)'
    BY DEF LoopsApart
  <2>1. LoopApart(q) /\ (q # r => InRegion(q) \cap InRegion(r) = {})
    BY DEF IInv, LoopsApart, InRegion
  <2> QED
    BY <1>1, <1>2, <1>3, <2>1 DEF IInv, TypeOK, LoopApart, InHand
<1>6. ByCall'
  BY <1>1, <1>2, <1>3 DEF IInv, TypeOK, ByCall, LoopApart, InHand, InRegion
<1>7. Accounted'
  BY <1>1, <1>2, <1>3 DEF IInv, TypeOK, Accounted, LoopApart, InHand, InRegion
<1>8. NamesSent'
  BY <1>1, <1>2, <1>3 DEF IInv, TypeOK, NamesSent, LoopApart, InHand
<1>9. DetachedIsAccountedFor'
  BY <1>1, <1>2, <1>3 DEF IInv, TypeOK, DetachedIsAccountedFor, LoopApart, InHand, ByCall
<1>10. ClosedAtEnd'
  BY DEF IInv, TypeOK, ClosedAtEnd
<1> QED
  BY <1>4, <1>5, <1>6, <1>7, <1>8, <1>9, <1>10 DEF IInv

LEMMA NextVolumeStep ==
  ASSUME IInv, NEW r \in Regions, NEW i \in Resources, NextVolume(r, i)
  PROVE  IInv'
<1> USE DEF NextVolume, Take, At, Goto, loop, cloud, answer
<1>1. /\ UNCHANGED <<call, dryRun, listing, inUse>> /\ Selected' = Selected
      /\ \A q \in Regions : InRegion(q)' = InRegion(q) /\ Count(q)' = Count(q)
  BY InputFixed
<1>2. Selected \subseteq Resources /\ \A a \in Resources : RegionOf[a] \in Regions
  BY Selection, AwsDeletionsAssumption DEF IInv, TypeOK
<1>3. LoopApart(r)
  BY DEF IInv, LoopsApart
<1>4. TypeOK'
  BY <1>1, <1>2, <1>3 DEF IInv, TypeOK, LoopApart, InHand, InRegion
<1>5. LoopsApart'
  <2> SUFFICES ASSUME NEW q \in Regions PROVE LoopApart(q)'
    BY DEF LoopsApart
  <2>1. LoopApart(q) /\ (q # r => InRegion(q) \cap InRegion(r) = {})
    BY DEF IInv, LoopsApart, InRegion
  <2> QED
    BY <1>1, <1>2, <1>3, <2>1 DEF IInv, TypeOK, LoopApart, InHand
<1>6. ByCall'
  BY <1>1, <1>2, <1>3 DEF IInv, TypeOK, ByCall, LoopApart, InHand, InRegion
<1>7. Accounted'
  BY <1>1, <1>2, <1>3 DEF IInv, TypeOK, Accounted, LoopApart, InHand, InRegion
<1>8. NamesSent'
  BY <1>1, <1>2, <1>3 DEF IInv, TypeOK, NamesSent, LoopApart, InHand
<1>9. DetachedIsAccountedFor'
  BY <1>1, <1>2, <1>3 DEF IInv, TypeOK, DetachedIsAccountedFor, LoopApart, InHand, ByCall
<1>10. ClosedAtEnd'
  BY DEF IInv, TypeOK, ClosedAtEnd
<1> QED
  BY <1>4, <1>5, <1>6, <1>7, <1>8, <1>9, <1>10 DEF IInv

LEMMA DetachVolumeStep ==
  ASSUME IInv, NEW r \in Regions, DetachVolume(r)
  PROVE  IInv'
<1> USE DEF DetachVolume, At, Goto, loop, cloud, answer
<1>1. /\ UNCHANGED <<call, dryRun, listing, inUse>> /\ Selected' = Selected
      /\ \A q \in Regions : InRegion(q)' = InRegion(q) /\ Count(q)' = Count(q)
  BY InputFixed
<1>2. Selected \subseteq Resources /\ \A a \in Resources : RegionOf[a] \in Regions
  BY Selection, AwsDeletionsAssumption DEF IInv, TypeOK
<1>3. LoopApart(r)
  BY DEF IInv, LoopsApart
<1>4. TypeOK'
  BY <1>1, <1>2, <1>3, AwsDeletionsAssumption DEF IInv, TypeOK, LoopApart, InHand, InRegion
<1>5. LoopsApart'
  <2> SUFFICES ASSUME NEW q \in Regions PROVE LoopApart(q)'
    BY DEF LoopsApart
  <2>1. LoopApart(q) /\ (q # r => InRegion(q) \cap InRegion(r) = {})
    BY DEF IInv, LoopsApart, InRegion
  <2> QED
    BY <1>1, <1>2, <1>3, <2>1 DEF IInv, TypeOK, LoopApart, InHand
<1>6. ByCall'
  BY <1>1, <1>2, <1>3 DEF IInv, TypeOK, ByCall, LoopApart, InHand, InRegion
<1>7. Accounted'
  BY <1>1, <1>2, <1>3 DEF IInv, TypeOK, Accounted, LoopApart, InHand, InRegion
<1>8. NamesSent'
  BY <1>1, <1>2, <1>3 DEF IInv, TypeOK, NamesSent, LoopApart, InHand
<1>9. DetachedIsAccountedFor'
  BY <1>1, <1>2, <1>3 DEF IInv, TypeOK, DetachedIsAccountedFor, LoopApart, InHand, ByCall
<1>10. ClosedAtEnd'
  BY DEF IInv, TypeOK, ClosedAtEnd
<1> QED
  BY <1>4, <1>5, <1>6, <1>7, <1>8, <1>9, <1>10 DEF IInv

LEMMA DetachFailsStep ==
  ASSUME IInv, NEW r \in Regions, DetachFails(r)
  PROVE  IInv'
<1> USE DEF DetachFails, Skip, At, Goto, loop, cloud, answer
<1>1. /\ UNCHANGED <<call, dryRun, listing, inUse>> /\ Selected' = Selected
      /\ \A q \in Regions : InRegion(q)' = InRegion(q) /\ Count(q)' = Count(q)
  BY InputFixed
<1>2. Selected \subseteq Resources /\ \A a \in Resources : RegionOf[a] \in Regions
  BY Selection, AwsDeletionsAssumption DEF IInv, TypeOK
<1>3. LoopApart(r)
  BY DEF IInv, LoopsApart
<1>4. TypeOK'
  BY <1>1, <1>2, <1>3 DEF IInv, TypeOK, LoopApart, InHand, InRegion
<1>5. LoopsApart'
  <2> SUFFICES ASSUME NEW q \in Regions PROVE LoopApart(q)'
    BY DEF LoopsApart
  <2>1. LoopApart(q) /\ (q # r => InRegion(q) \cap InRegion(r) = {})
    BY DEF IInv, LoopsApart, InRegion
  <2> QED
    BY <1>1, <1>2, <1>3, <2>1 DEF IInv, TypeOK, LoopApart, InHand
<1>6. ByCall'
  BY <1>1, <1>2, <1>3 DEF IInv, TypeOK, ByCall, LoopApart, InHand, InRegion
<1>7. Accounted'
  BY <1>1, <1>2, <1>3 DEF IInv, TypeOK, Accounted, LoopApart, InHand, InRegion
<1>8. NamesSent'
  BY <1>1, <1>2, <1>3 DEF IInv, TypeOK, NamesSent, LoopApart, InHand
<1>9. DetachedIsAccountedFor'
  BY <1>1, <1>2, <1>3 DEF IInv, TypeOK, DetachedIsAccountedFor, LoopApart, InHand, ByCall
<1>10. ClosedAtEnd'
  BY DEF IInv, TypeOK, ClosedAtEnd
<1> QED
  BY <1>4, <1>5, <1>6, <1>7, <1>8, <1>9, <1>10 DEF IInv

LEMMA PollUnusedStep ==
  ASSUME IInv, NEW r \in Regions, PollUnused(r)
  PROVE  IInv'
<1> USE DEF PollUnused, At, Goto, loop, cloud, answer
<1>1. /\ UNCHANGED <<call, dryRun, listing, inUse>> /\ Selected' = Selected
      /\ \A q \in Regions : InRegion(q)' = InRegion(q) /\ Count(q)' = Count(q)
  BY InputFixed
<1>2. Selected \subseteq Resources /\ \A a \in Resources : RegionOf[a] \in Regions
  BY Selection, AwsDeletionsAssumption DEF IInv, TypeOK
<1>3. LoopApart(r)
  BY DEF IInv, LoopsApart
<1>4. TypeOK'
  BY <1>1, <1>2, <1>3 DEF IInv, TypeOK, LoopApart, InHand, InRegion
<1>5. LoopsApart'
  <2> SUFFICES ASSUME NEW q \in Regions PROVE LoopApart(q)'
    BY DEF LoopsApart
  <2>1. LoopApart(q) /\ (q # r => InRegion(q) \cap InRegion(r) = {})
    BY DEF IInv, LoopsApart, InRegion
  <2> QED
    BY <1>1, <1>2, <1>3, <2>1 DEF IInv, TypeOK, LoopApart, InHand
<1>6. ByCall'
  BY <1>1, <1>2, <1>3 DEF IInv, TypeOK, ByCall, LoopApart, InHand, InRegion
<1>7. Accounted'
  BY <1>1, <1>2, <1>3 DEF IInv, TypeOK, Accounted, LoopApart, InHand, InRegion
<1>8. NamesSent'
  BY <1>1, <1>2, <1>3 DEF IInv, TypeOK, NamesSent, LoopApart, InHand
<1>9. DetachedIsAccountedFor'
  BY <1>1, <1>2, <1>3 DEF IInv, TypeOK, DetachedIsAccountedFor, LoopApart, InHand, ByCall
<1>10. ClosedAtEnd'
  BY DEF IInv, TypeOK, ClosedAtEnd
<1> QED
  BY <1>4, <1>5, <1>6, <1>7, <1>8, <1>9, <1>10 DEF IInv

LEMMA PollAgainStep ==
  ASSUME IInv, NEW r \in Regions, PollAgain(r)
  PROVE  IInv'
<1> USE DEF PollAgain, StillInUse, At, Goto, loop, cloud, answer
<1>1. /\ UNCHANGED <<call, dryRun, listing, inUse>> /\ Selected' = Selected
      /\ \A q \in Regions : InRegion(q)' = InRegion(q) /\ Count(q)' = Count(q)
  BY InputFixed
<1>2. Selected \subseteq Resources /\ \A a \in Resources : RegionOf[a] \in Regions
  BY Selection, AwsDeletionsAssumption DEF IInv, TypeOK
<1>3. LoopApart(r)
  BY DEF IInv, LoopsApart
<1>4. TypeOK'
  BY <1>1, <1>2, <1>3, AwsDeletionsAssumption DEF IInv, TypeOK, LoopApart, InHand, InRegion
<1>5. LoopsApart'
  <2> SUFFICES ASSUME NEW q \in Regions PROVE LoopApart(q)'
    BY DEF LoopsApart
  <2>1. LoopApart(q) /\ (q # r => InRegion(q) \cap InRegion(r) = {})
    BY DEF IInv, LoopsApart, InRegion
  <2> QED
    BY <1>1, <1>2, <1>3, <2>1 DEF IInv, TypeOK, LoopApart, InHand
<1>6. ByCall'
  BY <1>1, <1>2, <1>3 DEF IInv, TypeOK, ByCall, LoopApart, InHand, InRegion
<1>7. Accounted'
  BY <1>1, <1>2, <1>3 DEF IInv, TypeOK, Accounted, LoopApart, InHand, InRegion
<1>8. NamesSent'
  BY <1>1, <1>2, <1>3 DEF IInv, TypeOK, NamesSent, LoopApart, InHand
<1>9. DetachedIsAccountedFor'
  BY <1>1, <1>2, <1>3 DEF IInv, TypeOK, DetachedIsAccountedFor, LoopApart, InHand, ByCall
<1>10. ClosedAtEnd'
  BY DEF IInv, TypeOK, ClosedAtEnd
<1> QED
  BY <1>4, <1>5, <1>6, <1>7, <1>8, <1>9, <1>10 DEF IInv

LEMMA PollTimesOutStep ==
  ASSUME IInv, NEW r \in Regions, PollTimesOut(r)
  PROVE  IInv'
<1> USE DEF PollTimesOut, Skip, StillInUse, At, Goto, loop, cloud, answer
<1>1. /\ UNCHANGED <<call, dryRun, listing, inUse>> /\ Selected' = Selected
      /\ \A q \in Regions : InRegion(q)' = InRegion(q) /\ Count(q)' = Count(q)
  BY InputFixed
<1>2. Selected \subseteq Resources /\ \A a \in Resources : RegionOf[a] \in Regions
  BY Selection, AwsDeletionsAssumption DEF IInv, TypeOK
<1>3. LoopApart(r)
  BY DEF IInv, LoopsApart
<1>4. TypeOK'
  BY <1>1, <1>2, <1>3 DEF IInv, TypeOK, LoopApart, InHand, InRegion
<1>5. LoopsApart'
  <2> SUFFICES ASSUME NEW q \in Regions PROVE LoopApart(q)'
    BY DEF LoopsApart
  <2>1. LoopApart(q) /\ (q # r => InRegion(q) \cap InRegion(r) = {})
    BY DEF IInv, LoopsApart, InRegion
  <2> QED
    BY <1>1, <1>2, <1>3, <2>1 DEF IInv, TypeOK, LoopApart, InHand
<1>6. ByCall'
  BY <1>1, <1>2, <1>3 DEF IInv, TypeOK, ByCall, LoopApart, InHand, InRegion
<1>7. Accounted'
  BY <1>1, <1>2, <1>3 DEF IInv, TypeOK, Accounted, LoopApart, InHand, InRegion
<1>8. NamesSent'
  BY <1>1, <1>2, <1>3 DEF IInv, TypeOK, NamesSent, LoopApart, InHand
<1>9. DetachedIsAccountedFor'
  BY <1>1, <1>2, <1>3 DEF IInv, TypeOK, DetachedIsAccountedFor, LoopApart, InHand, ByCall
<1>10. ClosedAtEnd'
  BY DEF IInv, TypeOK, ClosedAtEnd
<1> QED
  BY <1>4, <1>5, <1>6, <1>7, <1>8, <1>9, <1>10 DEF IInv

LEMMA PollFailsStep ==
  ASSUME IInv, NEW r \in Regions, PollFails(r)
  PROVE  IInv'
<1> USE DEF PollFails, Skip, At, Goto, loop, cloud, answer
<1>1. /\ UNCHANGED <<call, dryRun, listing, inUse>> /\ Selected' = Selected
      /\ \A q \in Regions : InRegion(q)' = InRegion(q) /\ Count(q)' = Count(q)
  BY InputFixed
<1>2. Selected \subseteq Resources /\ \A a \in Resources : RegionOf[a] \in Regions
  BY Selection, AwsDeletionsAssumption DEF IInv, TypeOK
<1>3. LoopApart(r)
  BY DEF IInv, LoopsApart
<1>4. TypeOK'
  BY <1>1, <1>2, <1>3 DEF IInv, TypeOK, LoopApart, InHand, InRegion
<1>5. LoopsApart'
  <2> SUFFICES ASSUME NEW q \in Regions PROVE LoopApart(q)'
    BY DEF LoopsApart
  <2>1. LoopApart(q) /\ (q # r => InRegion(q) \cap InRegion(r) = {})
    BY DEF IInv, LoopsApart, InRegion
  <2> QED
    BY <1>1, <1>2, <1>3, <2>1 DEF IInv, TypeOK, LoopApart, InHand
<1>6. ByCall'
  BY <1>1, <1>2, <1>3 DEF IInv, TypeOK, ByCall, LoopApart, InHand, InRegion
<1>7. Accounted'
  BY <1>1, <1>2, <1>3 DEF IInv, TypeOK, Accounted, LoopApart, InHand, InRegion
<1>8. NamesSent'
  BY <1>1, <1>2, <1>3 DEF IInv, TypeOK, NamesSent, LoopApart, InHand
<1>9. DetachedIsAccountedFor'
  BY <1>1, <1>2, <1>3 DEF IInv, TypeOK, DetachedIsAccountedFor, LoopApart, InHand, ByCall
<1>10. ClosedAtEnd'
  BY DEF IInv, TypeOK, ClosedAtEnd
<1> QED
  BY <1>4, <1>5, <1>6, <1>7, <1>8, <1>9, <1>10 DEF IInv

LEMMA DeleteVolumeStep ==
  ASSUME IInv, NEW r \in Regions, DeleteVolume(r)
  PROVE  IInv'
<1> USE DEF DeleteVolume, At, Goto, loop, cloud, answer
<1>1. /\ UNCHANGED <<call, dryRun, listing, inUse>> /\ Selected' = Selected
      /\ \A q \in Regions : InRegion(q)' = InRegion(q) /\ Count(q)' = Count(q)
  BY InputFixed
<1>2. Selected \subseteq Resources /\ \A a \in Resources : RegionOf[a] \in Regions
  BY Selection, AwsDeletionsAssumption DEF IInv, TypeOK
<1>3. LoopApart(r)
  BY DEF IInv, LoopsApart
<1>4. TypeOK'
  BY <1>1, <1>2, <1>3 DEF IInv, TypeOK, LoopApart, InHand, InRegion
<1>5. LoopsApart'
  <2> SUFFICES ASSUME NEW q \in Regions PROVE LoopApart(q)'
    BY DEF LoopsApart
  <2>1. LoopApart(q) /\ (q # r => InRegion(q) \cap InRegion(r) = {})
    BY DEF IInv, LoopsApart, InRegion
  <2> QED
    BY <1>1, <1>2, <1>3, <2>1 DEF IInv, TypeOK, LoopApart, InHand
<1>6. ByCall'
  BY <1>1, <1>2, <1>3 DEF IInv, TypeOK, ByCall, LoopApart, InHand, InRegion
<1>7. Accounted'
  BY <1>1, <1>2, <1>3 DEF IInv, TypeOK, Accounted, LoopApart, InHand, InRegion
<1>8. NamesSent'
  BY <1>1, <1>2, <1>3 DEF IInv, TypeOK, NamesSent, LoopApart, InHand
<1>9. DetachedIsAccountedFor'
  BY <1>1, <1>2, <1>3 DEF IInv, TypeOK, DetachedIsAccountedFor, LoopApart, InHand, ByCall
<1>10. ClosedAtEnd'
  BY DEF IInv, TypeOK, ClosedAtEnd
<1> QED
  BY <1>4, <1>5, <1>6, <1>7, <1>8, <1>9, <1>10 DEF IInv

LEMMA DeleteVolumeFailsStep ==
  ASSUME IInv, NEW r \in Regions, DeleteVolumeFails(r)
  PROVE  IInv'
<1> USE DEF DeleteVolumeFails, At, Goto, loop, cloud, answer
<1>1. /\ UNCHANGED <<call, dryRun, listing, inUse>> /\ Selected' = Selected
      /\ \A q \in Regions : InRegion(q)' = InRegion(q) /\ Count(q)' = Count(q)
  BY InputFixed
<1>2. Selected \subseteq Resources /\ \A a \in Resources : RegionOf[a] \in Regions
  BY Selection, AwsDeletionsAssumption DEF IInv, TypeOK
<1>3. LoopApart(r)
  BY DEF IInv, LoopsApart
<1>4. TypeOK'
  BY <1>1, <1>2, <1>3 DEF IInv, TypeOK, LoopApart, InHand, InRegion
<1>5. LoopsApart'
  <2> SUFFICES ASSUME NEW q \in Regions PROVE LoopApart(q)'
    BY DEF LoopsApart
  <2>1. LoopApart(q) /\ (q # r => InRegion(q) \cap InRegion(r) = {})
    BY DEF IInv, LoopsApart, InRegion
  <2> QED
    BY <1>1, <1>2, <1>3, <2>1 DEF IInv, TypeOK, LoopApart, InHand
<1>6. ByCall'
  BY <1>1, <1>2, <1>3 DEF IInv, TypeOK, ByCall, LoopApart, InHand, InRegion
<1>7. Accounted'
  BY <1>1, <1>2, <1>3 DEF IInv, TypeOK, Accounted, LoopApart, InHand, InRegion
<1>8. NamesSent'
  BY <1>1, <1>2, <1>3 DEF IInv, TypeOK, NamesSent, LoopApart, InHand
<1>9. DetachedIsAccountedFor'
  BY <1>1, <1>2, <1>3 DEF IInv, TypeOK, DetachedIsAccountedFor, LoopApart, InHand, ByCall
<1>10. ClosedAtEnd'
  BY DEF IInv, TypeOK, ClosedAtEnd
<1> QED
  BY <1>4, <1>5, <1>6, <1>7, <1>8, <1>9, <1>10 DEF IInv

LEMMA DeleteAlarmsStep ==
  ASSUME IInv, NEW r \in Regions, DeleteAlarms(r)
  PROVE  IInv'
<1> USE DEF DeleteAlarms, NextChunk, At, Goto, loop, cloud, answer
<1>1. /\ UNCHANGED <<call, dryRun, listing, inUse>> /\ Selected' = Selected
      /\ \A q \in Regions : InRegion(q)' = InRegion(q) /\ Count(q)' = Count(q)
  BY InputFixed
<1>2. Selected \subseteq Resources /\ \A a \in Resources : RegionOf[a] \in Regions
  BY Selection, AwsDeletionsAssumption DEF IInv, TypeOK
<1>3. LoopApart(r)
  BY DEF IInv, LoopsApart
<1>11. /\ endIndex(r) \in Nat /\ CurrentAlerts(r) \subseteq Selected /\ CurrentAlerts(r) # {}
       /\ next[r] + AwsBulkOperationSize > endIndex(r) => endIndex(r) = Count(r)
       /\ AwsBulkOperationSize \in Nat \ {0} /\ next[r] \in Nat /\ InRegion(r) # {}
       /\ DOMAIN listing = 1 .. Len(listing) /\ Len(listing) \in Nat /\ Count(r) \in Nat
  <2>1. TypeOK /\ listing \in Listings /\ next[r] \in Nat /\ next[r] < Count(r)
    BY DEF IInv, TypeOK
  <2>2. /\ DOMAIN listing = 1 .. Len(listing) /\ Len(listing) \in Nat /\ Count(r) \in Nat
        /\ Count(r) > 0 <=> InRegion(r) # {}
    BY <2>1, Selection
  <2>3. /\ endIndex(r) \in Nat /\ CurrentAlerts(r) \subseteq Selected /\ CurrentAlerts(r) # {}
        /\ endIndex(r) <= next[r] + AwsBulkOperationSize /\ endIndex(r) <= Count(r)
        /\ next[r] + AwsBulkOperationSize > endIndex(r) => endIndex(r) = Count(r)
    BY <2>1, Chunk
  <2> QED
    BY <2>1, <2>2, <2>3, AwsDeletionsAssumption
<1>4. TypeOK'
  BY <1>1, <1>2, <1>3, <1>11 DEF IInv, TypeOK, LoopApart, InHand, InRegion, Addressed
<1>5. LoopsApart'
  <2> SUFFICES ASSUME NEW q \in Regions PROVE LoopApart(q)'
    BY DEF LoopsApart
  <2>1. LoopApart(q) /\ (q # r => InRegion(q) \cap InRegion(r) = {})
    BY DEF IInv, LoopsApart, InRegion
  <2> QED
    BY <1>1, <1>2, <1>3, <2>1, <1>11 DEF IInv, TypeOK, LoopApart, InHand
<1>6. ByCall'
  BY <1>1, <1>2, <1>3, <1>11 DEF IInv, TypeOK, ByCall, LoopApart, InHand, InRegion
<1>7. Accounted'
  BY <1>1, <1>2, <1>3, <1>11 DEF IInv, TypeOK, Accounted, LoopApart, InHand, InRegion
<1>8. NamesSent'
  <2> SUFFICES ASSUME call = "alerts" PROVE NamesSent'
    BY <1>1 DEF NamesSent
  <2>1. ASSUME NEW a \in gone'
        PROVE  InRegion(RegionOf[a]) # {} /\ \E b \in Selected : NameOf[b] = NameOf[a]
    <3>1. CASE a \in gone
      BY <3>1 DEF IInv, NamesSent
    <3>2. CASE a \in Addressed(r)
      BY <1>11, <3>2 DEF Addressed
    <3> QED
      BY <3>1, <3>2
  <2>2. ASSUME ~dryRun, errs = {}, NEW a \in Resources, NEW k \in DOMAIN listing,
               k <= next'[RegionOf[a]], k <= Count(RegionOf[a]), NameOf[listing[k]] = NameOf[a]
        PROVE  a \in gone'
    <3>1. CASE RegionOf[a] # r \/ k <= next[r]
      BY <1>2, <2>2, <3>1 DEF IInv, TypeOK, NamesSent
    <3>2. CASE RegionOf[a] = r /\ ~(k <= next[r])
      <4>1. k \in (next[r] + 1) .. endIndex(r)
        <5>1. k \in Nat /\ next[r] < k /\ k <= Count(r) /\ k <= next[r] + AwsBulkOperationSize
          BY <1>11, <2>2, <3>2 DEF IInv, TypeOK
        <5> QED
          BY <1>11, <5>1
      <4>2. listing[k] \in CurrentAlerts(r)
        BY <4>1 DEF CurrentAlerts
      <4> QED
        BY <2>2, <3>2, <4>2 DEF Addressed
    <3> QED
      BY <3>1, <3>2
  <2>3. \A a \in Resources : Count(RegionOf[a])' = Count(RegionOf[a]) /\ InRegion(RegionOf[a])' = InRegion(RegionOf[a])
    BY <1>1, <1>2
  <2>4. gone' \subseteq Resources
    BY <1>4 DEF TypeOK
  <2> QED
    BY <1>1, <2>1, <2>2, <2>3, <2>4 DEF NamesSent
<1>9. DetachedIsAccountedFor'
  BY <1>1, <1>2, <1>3, <1>11 DEF IInv, TypeOK, DetachedIsAccountedFor, LoopApart, InHand, ByCall
<1>10. ClosedAtEnd'
  BY DEF IInv, TypeOK, ClosedAtEnd
<1> QED
  BY <1>4, <1>5, <1>6, <1>7, <1>8, <1>9, <1>10 DEF IInv

LEMMA DeleteAlarmsFailsStep ==
  ASSUME IInv, NEW r \in Regions, DeleteAlarmsFails(r)
  PROVE  IInv'
<1> USE DEF DeleteAlarmsFails, NextChunk, At, Goto, loop, cloud, answer
<1>1. /\ UNCHANGED <<call, dryRun, listing, inUse>> /\ Selected' = Selected
      /\ \A q \in Regions : InRegion(q)' = InRegion(q) /\ Count(q)' = Count(q)
  BY InputFixed
<1>2. Selected \subseteq Resources /\ \A a \in Resources : RegionOf[a] \in Regions
  BY Selection, AwsDeletionsAssumption DEF IInv, TypeOK
<1>3. LoopApart(r)
  BY DEF IInv, LoopsApart
<1>11. /\ endIndex(r) \in Nat /\ CurrentAlerts(r) \subseteq Selected /\ CurrentAlerts(r) # {}
       /\ next[r] + AwsBulkOperationSize > endIndex(r) => endIndex(r) = Count(r)
       /\ AwsBulkOperationSize \in Nat \ {0} /\ next[r] \in Nat /\ InRegion(r) # {}
       /\ DOMAIN listing = 1 .. Len(listing) /\ Len(listing) \in Nat /\ Count(r) \in Nat
  <2>1. TypeOK /\ listing \in Listings /\ next[r] \in Nat /\ next[r] < Count(r)
    BY DEF IInv, TypeOK
  <2>2. /\ DOMAIN listing = 1 .. Len(listing) /\ Len(listing) \in Nat /\ Count(r) \in Nat
        /\ Count(r) > 0 <=> InRegion(r) # {}
    BY <2>1, Selection
  <2>3. /\ endIndex(r) \in Nat /\ CurrentAlerts(r) \subseteq Selected /\ CurrentAlerts(r) # {}
        /\ endIndex(r) <= next[r] + AwsBulkOperationSize /\ endIndex(r) <= Count(r)
        /\ next[r] + AwsBulkOperationSize > endIndex(r) => endIndex(r) = Count(r)
    BY <2>1, Chunk
  <2> QED
    BY <2>1, <2>2, <2>3, AwsDeletionsAssumption
<1>4. TypeOK'
  BY <1>1, <1>2, <1>3, <1>11 DEF IInv, TypeOK, LoopApart, InHand, InRegion
<1>5. LoopsApart'
  <2> SUFFICES ASSUME NEW q \in Regions PROVE LoopApart(q)'
    BY DEF LoopsApart
  <2>1. LoopApart(q) /\ (q # r => InRegion(q) \cap InRegion(r) = {})
    BY DEF IInv, LoopsApart, InRegion
  <2> QED
    BY <1>1, <1>2, <1>3, <2>1, <1>11 DEF IInv, TypeOK, LoopApart, InHand
<1>6. ByCall'
  BY <1>1, <1>2, <1>3, <1>11 DEF IInv, TypeOK, ByCall, LoopApart, InHand, InRegion
<1>7. Accounted'
  BY <1>1, <1>2, <1>3, <1>11 DEF IInv, TypeOK, Accounted, LoopApart, InHand, InRegion
<1>8. NamesSent'
  BY <1>1, <1>2, <1>3, <1>11 DEF IInv, TypeOK, NamesSent, LoopApart, InHand
<1>9. DetachedIsAccountedFor'
  BY <1>1, <1>2, <1>3, <1>11 DEF IInv, TypeOK, DetachedIsAccountedFor, LoopApart, InHand, ByCall
<1>10. ClosedAtEnd'
  BY DEF IInv, TypeOK, ClosedAtEnd
<1> QED
  BY <1>4, <1>5, <1>6, <1>7, <1>8, <1>9, <1>10 DEF IInv

LEMMA DetachmentCompletesStep ==
  ASSUME IInv, NEW v \in Resources, DetachmentCompletes(v)
  PROVE  IInv'
<1> USE DEF DetachmentCompletes, At, Goto, loop, cloud, answer
<1>1. /\ UNCHANGED <<call, dryRun, listing, inUse>> /\ Selected' = Selected
      /\ \A q \in Regions : InRegion(q)' = InRegion(q) /\ Count(q)' = Count(q)
  BY InputFixed
<1>2. Selected \subseteq Resources /\ \A a \in Resources : RegionOf[a] \in Regions
  BY Selection, AwsDeletionsAssumption DEF IInv, TypeOK
<1>3. LoopsApart
  BY DEF IInv
<1>4. TypeOK'
  BY <1>1, <1>2, <1>3 DEF IInv, TypeOK, LoopApart, InHand, InRegion
<1>5. LoopsApart'
  <2> SUFFICES ASSUME NEW q \in Regions PROVE LoopApart(q)'
    BY DEF LoopsApart
  <2>1. LoopApart(q) /\ (q # q => InRegion(q) \cap InRegion(q) = {})
    BY DEF IInv, LoopsApart, InRegion
  <2> QED
    BY <1>1, <1>2, <1>3, <2>1 DEF IInv, TypeOK, LoopApart, InHand
<1>6. ByCall'
  BY <1>1, <1>2, <1>3 DEF IInv, TypeOK, ByCall, LoopApart, InHand, InRegion
<1>7. Accounted'
  BY <1>1, <1>2, <1>3 DEF IInv, TypeOK, Accounted, LoopApart, InHand, InRegion
<1>8. NamesSent'
  BY <1>1, <1>2, <1>3 DEF IInv, TypeOK, NamesSent, LoopApart, InHand
<1>9. DetachedIsAccountedFor'
  BY <1>1, <1>2, <1>3 DEF IInv, TypeOK, DetachedIsAccountedFor, LoopApart, InHand, ByCall
<1>10. ClosedAtEnd'
  BY DEF IInv, TypeOK, ClosedAtEnd
<1> QED
  BY <1>4, <1>5, <1>6, <1>7, <1>8, <1>9, <1>10 DEF IInv

LEMMA AttachStep ==
  ASSUME IInv, NEW v \in Resources, Attach(v)
  PROVE  IInv'
<1> USE DEF Attach, At, Goto, loop, cloud, answer
<1>1. /\ UNCHANGED <<call, dryRun, listing, inUse>> /\ Selected' = Selected
      /\ \A q \in Regions : InRegion(q)' = InRegion(q) /\ Count(q)' = Count(q)
  BY InputFixed
<1>2. Selected \subseteq Resources /\ \A a \in Resources : RegionOf[a] \in Regions
  BY Selection, AwsDeletionsAssumption DEF IInv, TypeOK
<1>3. LoopsApart
  BY DEF IInv
<1>4. TypeOK'
  BY <1>1, <1>2, <1>3 DEF IInv, TypeOK, LoopApart, InHand, InRegion
<1>5. LoopsApart'
  <2> SUFFICES ASSUME NEW q \in Regions PROVE LoopApart(q)'
    BY DEF LoopsApart
  <2>1. LoopApart(q) /\ (q # q => InRegion(q) \cap InRegion(q) = {})
    BY DEF IInv, LoopsApart, InRegion
  <2> QED
    BY <1>1, <1>2, <1>3, <2>1 DEF IInv, TypeOK, LoopApart, InHand
<1>6. ByCall'
  BY <1>1, <1>2, <1>3 DEF IInv, TypeOK, ByCall, LoopApart, InHand, InRegion
<1>7. Accounted'
  BY <1>1, <1>2, <1>3 DEF IInv, TypeOK, Accounted, LoopApart, InHand, InRegion
<1>8. NamesSent'
  BY <1>1, <1>2, <1>3 DEF IInv, TypeOK, NamesSent, LoopApart, InHand
<1>9. DetachedIsAccountedFor'
  BY <1>1, <1>2, <1>3 DEF IInv, TypeOK, DetachedIsAccountedFor, LoopApart, InHand, ByCall
<1>10. ClosedAtEnd'
  BY DEF IInv, TypeOK, ClosedAtEnd
<1> QED
  BY <1>4, <1>5, <1>6, <1>7, <1>8, <1>9, <1>10 DEF IInv

LEMMA CloseErrorsStep ==
  ASSUME IInv, CloseErrors
  PROVE  IInv'
<1> USE DEF CloseErrors, At, Goto, loop, cloud, answer
<1>1. /\ UNCHANGED <<call, dryRun, listing, inUse>> /\ Selected' = Selected
      /\ \A q \in Regions : InRegion(q)' = InRegion(q) /\ Count(q)' = Count(q)
  BY InputFixed
<1>2. Selected \subseteq Resources /\ \A a \in Resources : RegionOf[a] \in Regions
  BY Selection, AwsDeletionsAssumption DEF IInv, TypeOK
<1>3. LoopsApart
  BY DEF IInv
<1>4. TypeOK'
  BY <1>1, <1>2, <1>3 DEF IInv, TypeOK, LoopApart, InHand, InRegion
<1>5. LoopsApart'
  <2> SUFFICES ASSUME NEW q \in Regions PROVE LoopApart(q)'
    BY DEF LoopsApart
  <2>1. LoopApart(q) /\ (q # q => InRegion(q) \cap InRegion(q) = {})
    BY DEF IInv, LoopsApart, InRegion
  <2> QED
    BY <1>1, <1>2, <1>3, <2>1 DEF IInv, TypeOK, LoopApart, InHand
<1>6. ByCall'
  BY <1>1, <1>2, <1>3 DEF IInv, TypeOK, ByCall, LoopApart, InHand, InRegion
<1>7. Accounted'
  BY <1>1, <1>2, <1>3 DEF IInv, TypeOK, Accounted, LoopApart, InHand, InRegion
<1>8. NamesSent'
  BY <1>1, <1>2, <1>3 DEF IInv, TypeOK, NamesSent, LoopApart, InHand
<1>9. DetachedIsAccountedFor'
  BY <1>1, <1>2, <1>3 DEF IInv, TypeOK, DetachedIsAccountedFor, LoopApart, InHand, ByCall
<1>10. ClosedAtEnd'
  BY DEF IInv, TypeOK, ClosedAtEnd
<1> QED
  BY <1>4, <1>5, <1>6, <1>7, <1>8, <1>9, <1>10 DEF IInv

LEMMA ReturnStep ==
  ASSUME IInv, Return
  PROVE  IInv'
<1> USE DEF Return, At, Goto, loop, cloud, answer
<1>1. /\ UNCHANGED <<call, dryRun, listing, inUse>> /\ Selected' = Selected
      /\ \A q \in Regions : InRegion(q)' = InRegion(q) /\ Count(q)' = Count(q)
  BY InputFixed
<1>2. Selected \subseteq Resources /\ \A a \in Resources : RegionOf[a] \in Regions
  BY Selection, AwsDeletionsAssumption DEF IInv, TypeOK
<1>3. LoopsApart
  BY DEF IInv
<1>4. TypeOK'
  BY <1>1, <1>2, <1>3 DEF IInv, TypeOK, LoopApart, InHand, InRegion
<1>5. LoopsApart'
  <2> SUFFICES ASSUME NEW q \in Regions PROVE LoopApart(q)'
    BY DEF LoopsApart
  <2>1. LoopApart(q) /\ (q # q => InRegion(q) \cap InRegion(q) = {})
    BY DEF IInv, LoopsApart, InRegion
  <2> QED
    BY <1>1, <1>2, <1>3, <2>1 DEF IInv, TypeOK, LoopApart, InHand
<1>6. ByCall'
  BY <1>1, <1>2, <1>3 DEF IInv, TypeOK, ByCall, LoopApart, InHand, InRegion
<1>7. Accounted'
  BY <1>1, <1>2, <1>3 DEF IInv, TypeOK, Accounted, LoopApart, InHand, InRegion
<1>8. NamesSent'
  BY <1>1, <1>2, <1>3 DEF IInv, TypeOK, NamesSent, LoopApart, InHand
<1>9. DetachedIsAccountedFor'
  BY <1>1, <1>2, <1>3 DEF IInv, TypeOK, DetachedIsAccountedFor, LoopApart, InHand, ByCall
<1>10. ClosedAtEnd'
  BY DEF IInv, TypeOK, ClosedAtEnd
<1> QED
  BY <1>4, <1>5, <1>6, <1>7, <1>8, <1>9, <1>10 DEF IInv

LEMMA StutterStep ==
  ASSUME IInv, UNCHANGED vars
  PROVE  IInv'
<1> USE DEF vars, loop, cloud, answer
<1>1. /\ UNCHANGED <<call, dryRun, listing, inUse>> /\ Selected' = Selected
      /\ \A q \in Regions : InRegion(q)' = InRegion(q) /\ Count(q)' = Count(q)
  BY InputFixed
<1>2. \A a \in Resources : RegionOf[a] \in Regions
  BY AwsDeletionsAssumption
<1>3. TypeOK' /\ ByCall' /\ Accounted' /\ ClosedAtEnd' /\ DetachedIsAccountedFor'
  BY <1>1 DEF IInv, TypeOK, ByCall, Accounted, ClosedAtEnd, DetachedIsAccountedFor
<1>4. LoopsApart'
  BY <1>1 DEF IInv, LoopsApart, LoopApart
<1>5. NamesSent'
  BY <1>1, <1>2 DEF IInv, TypeOK, NamesSent
<1> QED
  BY <1>3, <1>4, <1>5 DEF IInv

-----------------------------------------------------------------------------
\* Every step keeps the invariant.
LEMMA StepInvariant == IInv /\ [Next]_vars => IInv'
<1> SUFFICES ASSUME IInv, [Next]_vars PROVE IInv'
  OBVIOUS
<1>1. CASE Caller
  BY <1>1, CloseErrorsStep, ReturnStep DEF Caller
<1>2. ASSUME NEW r \in Regions, Region(r) PROVE IInv'
  BY <1>2, TakeSlotStep, SkipOnDryRunStep, RegionEndsStep, ReleaseSlotStep,
     DeregisterImageStep, StopDBInstanceStep, RequestFailsStep, NextVolumeStep,
     DetachVolumeStep, DetachFailsStep, PollUnusedStep, PollAgainStep,
     PollTimesOutStep, PollFailsStep, DeleteVolumeStep, DeleteVolumeFailsStep,
     DeleteAlarmsStep, DeleteAlarmsFailsStep DEF Region
<1>3. ASSUME NEW v \in Resources, DetachmentCompletes(v) \/ Attach(v) PROVE IInv'
  BY <1>3, DetachmentCompletesStep, AttachStep
<1>4. CASE UNCHANGED vars
  BY <1>4, StutterStep
<1> QED
  BY <1>1, <1>2, <1>3, <1>4 DEF Next

\* When the goroutines have ended nothing is to come or in hand, so that
\* without an error every item was handled in the way that the call asks for.
LEMMA HandledAtTheEnd == IInv => CleanReturnAccounts
<1> SUFFICES ASSUME IInv, returned, errs = {}
             PROVE  CleanReturnAccounts
  BY DEF CleanReturnAccounts
<1>1. /\ Selected \subseteq Resources /\ DOMAIN listing = 1 .. Len(listing)
      /\ Len(listing) \in Nat /\ Cardinality(Selected) = Len(listing)
  BY Selection DEF IInv, TypeOK
<1>2. \A r \in Regions : /\ pc[r] \in {"release", "done"} /\ rest[r] = {}
                         /\ call = "alerts" => next[r] >= Count(r)
  BY DEF IInv, ClosedAtEnd, LoopsApart, LoopApart
<1>3. ASSUME call # "alerts", dryRun => call = "databases" PROVE Selected \subseteq gone \cup skipped
  <2> SUFFICES ASSUME NEW i \in Selected PROVE i \in gone \cup skipped
    OBVIOUS
  <2>1. RegionOf[i] \in Regions
    BY <1>1, AwsDeletionsAssumption
  <2> QED
    BY <1>2, <1>3, <2>1 DEF IInv, Accounted, InHand
<1>4. CASE dryRun /\ call # "databases"
  BY <1>4 DEF IInv, ByCall, CleanReturnAccounts
<1>5. CASE call = "volumes" /\ ~dryRun
  <2>1. inUse \subseteq Selected
    BY DEF IInv, TypeOK
  <2> QED
    BY <1>3, <1>5, <2>1 DEF IInv, ByCall, CleanReturnAccounts
<1>6. CASE call = "databases" \/ (call = "images" /\ ~dryRun)
  BY <1>3, <1>6 DEF IInv, ByCall, CleanReturnAccounts
<1>7. CASE call = "alerts" /\ ~dryRun
  <2> SUFFICES ASSUME NEW r \in Regions, InRegion(r) = Selected PROVE gone = Selected
    BY <1>7 DEF CleanReturnAccounts
  <2>1. Count(r) = Len(listing) /\ next[r] >= Count(r) /\ next[r] \in Nat
    BY <1>1, <1>2, <1>7 DEF Count, IInv, TypeOK
  <2>2. \A a \in Selected : RegionOf[a] = r
    BY DEF InRegion
  <2>3. ASSUME NEW a \in Selected PROVE a \in gone
    <3>1. PICK k \in DOMAIN listing : listing[k] = a
      BY DEF Selected
    <3>2. k <= next[r] /\ k <= Count(r)
      BY <1>1, <2>1, <3>1
    <3> QED
      BY <1>1, <1>7, <2>2, <3>1, <3>2 DEF IInv, NamesSent
  <2>4. ASSUME NEW a \in gone PROVE a \in Selected
    <3>1. PICK b \in Selected : NameOf[b] = NameOf[a]
      BY <1>7 DEF IInv, NamesSent
    <3>2. a \in Resources /\ RegionOf[a] = r
      <4>1. a \in Resources /\ InRegion(RegionOf[a]) # {}
        BY <1>7 DEF IInv, TypeOK, NamesSent
      <4> QED
        BY <2>2, <4>1 DEF InRegion
    <3> QED
      BY <1>1, <2>2, <3>1, <3>2, AwsDeletionsAssumption
  <2> QED
    BY <2>3, <2>4
<1>8. \/ dryRun /\ call # "databases"
      \/ call = "volumes" /\ ~dryRun
      \/ call = "databases"
      \/ call = "images" /\ ~dryRun
      \/ call = "alerts" /\ ~dryRun
  BY DEF IInv, TypeOK
<1> QED
  BY <1>4, <1>5, <1>6, <1>7, <1>8

\* Every reachable state satisfies the inductive invariant.
THEOREM Invariance == Spec => []IInv
BY InitInvariant, StepInvariant, PTL DEF Spec

\* aws.go, deleteVolumes, deleteImages, deleteAlerts and StopDatabases: every
\* variable keeps its type, and the polling its bound.
THEOREM TypeCorrect == Spec => []TypeOK
<1>1. IInv => TypeOK
  BY DEF IInv
<1> QED
  BY <1>1, Invariance, PTL

\* No disk is taken off its instance and then forgotten, whatever fails and
\* whoever attaches volumes meanwhile.
THEOREM DetachedAccounted == Spec => []DetachedIsAccountedFor
<1>1. IInv => DetachedIsAccountedFor
  BY DEF IInv
<1> QED
  BY <1>1, Invariance, PTL

\* What a return without errors means, for any regions, lists and chunk size.
THEOREM ReturnAccounts == Spec => []CleanReturnAccounts
BY HandledAtTheEnd, Invariance, PTL

-----------------------------------------------------------------------------
(* The refinement of ProviderCall.                                         *)

InReach == gone \cup detached \subseteq IF dryRun /\ call # "databases" THEN {} ELSE Reach

\* What ProviderTraits says of the four calls of AWS.
LEMMA CallTraits ==
  ASSUME TypeOK
  PROVE  /\ Abstract!IsEffective("AWS", CallName[call], dryRun) <=> ~dryRun \/ call = "databases"
         /\ Abstract!AnswerIsFull("AWS", CallName[call], dryRun) =>
              call = "databases" \/ (call = "images" /\ ~dryRun)
BY DEF TypeOK, CallName, Abstract!IsEffective, Abstract!AnswerIsFull, Abstract!IgnoresDryRun,
       Abstract!MaySkip, Abstract!AwsClouds

\* What is deleted was selected, or is an alarm that has the name of one that
\* was, in a region of another.
LEMMA StaysInReach == IInv => InReach
<1> SUFFICES ASSUME IInv PROVE InReach
  OBVIOUS
<1>1. CASE dryRun /\ call # "databases"
  BY <1>1 DEF IInv, ByCall, InReach
<1>2. CASE ~(dryRun /\ call # "databases") /\ call # "alerts"
  BY <1>2 DEF IInv, TypeOK, ByCall, InReach, Reach
<1>3. CASE ~(dryRun /\ call # "databases") /\ call = "alerts"
  <2>1. detached = {} /\ gone \subseteq Resources
    BY <1>3 DEF IInv, TypeOK, ByCall
  <2>2. gone \subseteq Reach
    BY <1>3, <2>1 DEF IInv, NamesSent, Reach
  <2> QED
    BY <1>3, <2>1, <2>2 DEF InReach
<1> QED
  BY <1>1, <1>2, <1>3

\* A goroutine deletes and adds errors, never the reverse.  After the return
\* it only gives its slot back.
LEMMA RegionOnlyAdds ==
  ASSUME IInv, NEW r \in Regions, Region(r)
  PROVE  /\ gone \subseteq gone' /\ detached \subseteq detached'
         /\ errs \subseteq errs'
         /\ returned => UNCHANGED <<gone, detached, errs>>
         /\ UNCHANGED <<input, returned>>
<1>1. CASE ReleaseSlot(r)
  BY <1>1 DEF ReleaseSlot, cloud, answer
<1>2. CASE Region(r) /\ ~ReleaseSlot(r)
  <2>1. pc[r] \notin {"release", "done"}
    BY <1>2 DEF Region, TakeSlot, SkipOnDryRun, RegionEnds, DeregisterImage, StopDBInstance,
         RequestFails, NextVolume, DetachVolume, DetachFails, PollUnused, PollAgain,
         PollTimesOut, PollFails, StillInUse, DeleteVolume, DeleteVolumeFails, DeleteAlarms,
         DeleteAlarmsFails, NextChunk, Take, At
  <2>2. ~returned
    BY <2>1 DEF IInv, ClosedAtEnd
  <2>3. /\ gone \subseteq gone' /\ detached \subseteq detached'
        /\ errs \subseteq errs'
        /\ UNCHANGED <<input, returned>>
    BY <1>2 DEF Region, TakeSlot, SkipOnDryRun, RegionEnds, DeregisterImage, StopDBInstance,
         RequestFails, NextVolume, DetachVolume, DetachFails, Skip, PollUnused, PollAgain,
         PollTimesOut, PollFails, DeleteVolume, DeleteVolumeFails, DeleteAlarms,
         DeleteAlarmsFails, cloud, answer
  <2> QED
    BY <2>2, <2>3
<1> QED
  BY <1>1, <1>2

\* The input of the abstract call is that of the call.
LEMMA AbstractInputFixed ==
  ASSUME UNCHANGED input
  PROVE  UNCHANGED Abstract!input
<1>1. Selected' = Selected /\ UNCHANGED <<call, dryRun>>
  BY InputFixed
<1>2. Reach' = Reach
  BY <1>1 DEF Reach, InRegion
<1> QED
  BY <1>1, <1>2 DEF Abstract!input

LEMMA RegionRefines ==
  ASSUME IInv, InReach', NEW r \in Regions, Region(r)
  PROVE  [Abstract!Next]_(Abstract!vars)
<1>1. /\ gone \cup detached \subseteq gone' \cup detached'
      /\ errs # {} => errs' # {}
      /\ UNCHANGED <<input, returned, Abstract!input>>
  BY RegionOnlyAdds, AbstractInputFixed
<1>2. CASE returned
  BY <1>1, <1>2, RegionOnlyAdds DEF Abstract!vars
<1>3. CASE ~returned
  <2>1. Reach' = Reach /\ UNCHANGED <<call, dryRun>>
    BY <1>1 DEF Abstract!input, input
  <2>2. (gone \cup detached)' \subseteq
          IF Abstract!IsEffective("AWS", CallName[call], dryRun) THEN Reach ELSE {}
    BY <2>1, CallTraits DEF InReach, IInv
  <2>3. Abstract!Work
    BY <1>1, <1>3, <2>2 DEF Abstract!Work
  <2> QED
    BY <2>3 DEF Abstract!Next
<1> QED
  BY <1>2, <1>3

LEMMA ReturnRefines ==
  ASSUME IInv, CleanReturnAccounts', Return
  PROVE  Abstract!Return
<1>1. /\ UNCHANGED <<gone, detached, skipped, errs, call, dryRun, input>>
      /\ ~returned /\ returned'
      /\ Selected' = Selected /\ UNCHANGED Abstract!input
  BY AbstractInputFixed, InputFixed DEF Return, cloud
<1>2. ASSUME errs = {}, Abstract!AnswerIsFull("AWS", CallName[call], dryRun)
      PROVE  Selected \subseteq gone \cup detached
  <2>1. call = "databases" \/ (call = "images" /\ ~dryRun)
    BY <1>2, CallTraits DEF IInv
  <2> QED
    BY <1>1, <1>2, <2>1 DEF CleanReturnAccounts
<1> QED
  BY <1>1, <1>2 DEF Abstract!Return

LEMMA NextRefines ==
  IInv /\ (InReach /\ CleanReturnAccounts)' /\ [Next]_vars => [Abstract!Next]_(Abstract!vars)
<1> SUFFICES ASSUME IInv, InReach', CleanReturnAccounts', [Next]_vars
             PROVE  [Abstract!Next]_(Abstract!vars)
  OBVIOUS
<1>1. CASE Return
  BY <1>1, ReturnRefines DEF Abstract!Next
<1>2. ASSUME NEW r \in Regions, Region(r) PROVE [Abstract!Next]_(Abstract!vars)
  BY <1>2, RegionRefines
<1>3. CASE CloseErrors \/ (\E v \in Resources : DetachmentCompletes(v) \/ Attach(v)) \/ UNCHANGED vars
  <2>1. UNCHANGED <<input, gone, detached, errs, returned>>
    BY <1>3 DEF CloseErrors, DetachmentCompletes, Attach, vars, cloud, answer
  <2> QED
    BY <2>1, AbstractInputFixed DEF Abstract!vars
<1> QED
  BY <1>1, <1>2, <1>3 DEF Next, Caller

\* aws.go, deleteVolumes, deleteImages, deleteAlerts and StopDatabases do, for
\* any resources, regions, lists, chunk size and number of slots, what Hunt
\* assumes of the calls of a provider.
THEOREM Refinement == Spec => ImplementsProviderCall
<1>1. Init => Abstract!Init
  BY DEF Init, Abstract!Init
<1> QED
  BY <1>1, StaysInReach, NextRefines, Invariance, ReturnAccounts, PTL
     DEF Spec, ImplementsProviderCall, Abstract!Spec

\* If the alerts are of one region, nothing is deleted that was not selected.
THEOREM OneRegionOnlySelected ==
  Spec => []((call = "alerts" => \E r \in Regions : InRegion(r) = Selected) => OnlySelectedDeleted)
<1>1. IInv => ((call = "alerts" => \E r \in Regions : InRegion(r) = Selected) => OnlySelectedDeleted)
  <2> SUFFICES ASSUME IInv, call = "alerts" => \E r \in Regions : InRegion(r) = Selected,
                      NEW a \in gone
               PROVE  a \in Selected
    BY DEF OnlySelectedDeleted
  <2>1. CASE call # "alerts"
    BY <2>1 DEF IInv, ByCall
  <2>2. CASE call = "alerts"
    <3>1. PICK r \in Regions : InRegion(r) = Selected
      BY <2>2
    <3>2. PICK b \in Selected : NameOf[b] = NameOf[a]
      BY <2>2 DEF IInv, NamesSent
    <3>3. a \in Resources /\ InRegion(RegionOf[a]) # {}
      BY <2>2 DEF IInv, TypeOK, NamesSent
    <3>4. RegionOf[a] = r /\ RegionOf[b] = r
      BY <3>1, <3>2, <3>3 DEF InRegion
    <3>5. b \in Resources
      BY <3>2, Selection DEF IInv, TypeOK
    <3> QED
      BY <3>2, <3>3, <3>4, <3>5, AwsDeletionsAssumption
  <2> QED
    BY <2>1, <2>2
<1> QED
  BY <1>1, Invariance, PTL

-----------------------------------------------------------------------------
(* The semaphore of deleteImages.                                          *)

\* The semaphore holds the goroutines between sem <- true and <-sem.
SlotsHeld ==
  /\ \A r \in Regions : pc[r] \in {"slot", "release"} => call = "images"
  /\ sem = IF call = "images" THEN {r \in Regions : pc[r] \in {"next", "release"}} ELSE {}
  /\ Cardinality(sem) <= Slots

\* No more regions than there are slots have their images deregistered at a
\* time, counting those that still have to give their slot back.  And as long as
\* a region waits for a slot, one is free or in the hands of a goroutine that
\* is not waiting itself: no slot gets lost on the way of a failure.
SlotsComeFree ==
  /\ call = "images" => Cardinality({r \in Regions : pc[r] \in {"next", "release"}}) <= Slots
  /\ \A r \in Regions : pc[r] = "slot" =>
       Cardinality(sem) < Slots \/ \E h \in Regions \ {r} : pc[h] \in {"next", "release"}

\* Taking and giving back change the number of slots in use by one.
LEMMA SlotCount ==
  ASSUME sem \subseteq Regions, Cardinality(sem) <= Slots, NEW r \in Regions
  PROVE  /\ Cardinality(sem) < Slots => Cardinality(sem \cup {r}) <= Slots
         /\ Cardinality(sem \ {r}) <= Slots
<1>1. IsFiniteSet(sem)
  BY AwsDeletionsAssumption, FS_Subset
<1>2. Cardinality(sem) \in Nat /\ Slots \in Nat
  BY <1>1, FS_CardinalityType, AwsDeletionsAssumption
<1>3. Cardinality(sem \cup {r}) = IF r \in sem THEN Cardinality(sem) ELSE Cardinality(sem) + 1
  BY <1>1, FS_AddElement
<1>4. Cardinality(sem \ {r}) = IF r \in sem THEN Cardinality(sem) - 1 ELSE Cardinality(sem)
  BY <1>1, FS_RemoveElement
<1> QED
  BY <1>2, <1>3, <1>4

LEMMA SlotsHeldInit == Init => SlotsHeld
<1> SUFFICES ASSUME Init PROVE SlotsHeld
  OBVIOUS
<1>1. Cardinality({}) = 0 /\ Slots \in Nat
  BY FS_EmptySet, AwsDeletionsAssumption
<1> QED
  BY <1>1 DEF Init, SlotsHeld

LEMMA SlotsHeldStep == IInv /\ SlotsHeld /\ [Next]_vars => SlotsHeld'
<1> SUFFICES ASSUME IInv, SlotsHeld, [Next]_vars PROVE SlotsHeld'
  OBVIOUS
<1>1. ASSUME NEW r \in Regions, TakeSlot(r) PROVE SlotsHeld'
  <2>1. Cardinality(sem') <= Slots
    BY <1>1, SlotCount DEF TakeSlot, IInv, TypeOK, SlotsHeld
  <2> QED
    BY <1>1, <2>1 DEF TakeSlot, At, Goto, input, IInv, TypeOK, SlotsHeld
<1>2. ASSUME NEW r \in Regions, ReleaseSlot(r) PROVE SlotsHeld'
  <2>1. Cardinality(sem') <= Slots
    BY <1>2, SlotCount DEF ReleaseSlot, IInv, TypeOK, SlotsHeld
  <2> QED
    BY <1>2, <2>1 DEF ReleaseSlot, At, Goto, input, IInv, TypeOK, SlotsHeld
<1>3. ASSUME NEW r \in Regions, RegionEnds(r) PROVE SlotsHeld'
  BY <1>3 DEF RegionEnds, At, Goto, input, loop, IInv, TypeOK, SlotsHeld
<1>4. ASSUME UNCHANGED <<call, pc, sem>> PROVE SlotsHeld'
  BY <1>4 DEF SlotsHeld
<1>5. ASSUME NEW r \in Regions, NEW i \in Resources,
             DeregisterImage(r, i) \/ StopDBInstance(r, i) \/ RequestFails(r, i)
      PROVE  SlotsHeld'
  BY <1>5, <1>4 DEF DeregisterImage, StopDBInstance, RequestFails, input
<1>6. ASSUME NEW r \in Regions, call = "volumes", UNCHANGED <<call, sem>>,
             \/ UNCHANGED pc
             \/ \E place \in {"next", "detach", "poll", "delete"} : Goto(r, place)
      PROVE  SlotsHeld'
  BY <1>6 DEF Goto, IInv, TypeOK, SlotsHeld
<1>7. ASSUME NEW r \in Regions, NEW i \in Resources, NextVolume(r, i) PROVE SlotsHeld'
  BY <1>7, <1>6 DEF NextVolume, input
<1>8. ASSUME NEW r \in Regions,
             \/ DetachVolume(r) \/ DetachFails(r) \/ PollUnused(r) \/ PollAgain(r)
             \/ PollTimesOut(r) \/ PollFails(r) \/ DeleteVolume(r) \/ DeleteVolumeFails(r)
      PROVE  SlotsHeld'
  <2>1. pc[r] \in InHand
    BY <1>8 DEF DetachVolume, DetachFails, PollUnused, PollAgain, PollTimesOut, PollFails,
       StillInUse, DeleteVolume, DeleteVolumeFails, At, InHand
  <2>2. call = "volumes"
    BY <2>1 DEF IInv, LoopsApart, LoopApart
  <2>3. /\ UNCHANGED <<call, sem>>
        /\ UNCHANGED pc \/ \E place \in {"next", "detach", "poll", "delete"} : Goto(r, place)
    BY <1>8 DEF DetachVolume, DetachFails, PollUnused, PollAgain, PollTimesOut, PollFails,
       DeleteVolume, DeleteVolumeFails, Skip, input, loop
  <2> QED
    BY <2>2, <2>3, <1>6
<1>9. ASSUME NEW r \in Regions, DeleteAlarms(r) \/ DeleteAlarmsFails(r) PROVE SlotsHeld'
  BY <1>9, <1>4 DEF DeleteAlarms, DeleteAlarmsFails, input
<1>10. ASSUME Caller \/ (\E v \in Resources : DetachmentCompletes(v) \/ Attach(v)) \/ UNCHANGED vars
       PROVE  SlotsHeld'
  BY <1>10, <1>4 DEF Caller, CloseErrors, Return, DetachmentCompletes, Attach, vars, input, loop
<1>11. ASSUME NEW r \in Regions, Region(r) PROVE SlotsHeld'
  <2>1. CASE \E i \in Resources :
               DeregisterImage(r, i) \/ StopDBInstance(r, i) \/ RequestFails(r, i) \/ NextVolume(r, i)
    BY <2>1, <1>5, <1>7
  <2>2. CASE SkipOnDryRun(r)
    BY <2>2, <1>4 DEF SkipOnDryRun, input
  <2>3. CASE \/ DetachVolume(r) \/ DetachFails(r) \/ PollUnused(r) \/ PollAgain(r)
             \/ PollTimesOut(r) \/ PollFails(r) \/ DeleteVolume(r) \/ DeleteVolumeFails(r)
    BY <2>3, <1>8
  <2> QED
    BY <1>11, <2>1, <2>2, <2>3, <1>1, <1>2, <1>3, <1>9 DEF Region
<1> QED
  BY <1>10, <1>11 DEF Next

\* The semaphore of deleteImages bounds the work and blocks nobody for ever,
\* for any regions and number of slots.
THEOREM SlotsAreReturned == Spec => []SlotsComeFree
<1>1. IInv /\ SlotsHeld => SlotsComeFree
  <2> SUFFICES ASSUME IInv, SlotsHeld PROVE SlotsComeFree
    OBVIOUS
  <2>1. ASSUME NEW r \in Regions, pc[r] = "slot", ~(Cardinality(sem) < Slots)
        PROVE  \E h \in Regions \ {r} : pc[h] \in {"next", "release"}
    <3>1. sem # {}
      <4>1. Cardinality({}) = 0 /\ Slots \in Nat \ {0}
        BY FS_EmptySet, AwsDeletionsAssumption
      <4> QED
        BY <2>1, <4>1
    <3>2. call = "images" /\ sem = {h \in Regions : pc[h] \in {"next", "release"}}
      BY <2>1 DEF SlotsHeld
    <3> QED
      BY <2>1, <3>1, <3>2
  <2> QED
    BY <2>1 DEF SlotsComeFree, SlotsHeld
<1>2. QED
  BY <1>1, SlotsHeldInit, SlotsHeldStep, Invariance, PTL DEF Spec

-----------------------------------------------------------------------------
(* The four calls end without any fairness but that something happens, and *)
(* whatever the cloud does with the volumes meanwhile.                     *)

\* How far a region's goroutine is with the volume in hand, or with all.
Rank == [slot |-> 0, detach |-> 1, poll |-> 2, delete |-> 3, next |-> 4, release |-> 5, done |-> 6]

Shrinks(before, after) == after \subseteq before /\ after # before

\* An iteration takes an item or a chunk; within it the goroutine goes from
\* place to place, or polls once more of the MaxPolls times.
RegionAdvances(r) ==
  \/ Shrinks(rest[r], rest'[r])
  \/ /\ rest'[r] = rest[r]
     /\ \/ next[r] < next'[r] /\ next[r] < Count(r)
        \/ next'[r] = next[r] /\ Rank[pc[r]] < Rank[pc'[r]]
        \/ /\ next'[r] = next[r] /\ pc'[r] = pc[r]
           /\ polls[r] < polls'[r] /\ polls'[r] <= MaxPolls

RegionWaits(r) ==
  /\ pc'[r] = pc[r] /\ rest'[r] = rest[r] /\ item'[r] = item[r]
  /\ next'[r] = next[r] /\ polls'[r] = polls[r]

\* What was detached, deleted, skipped or reported stays so.
NothingTakenBack ==
  /\ detached \subseteq detached' /\ gone \subseteq gone'
  /\ skipped \subseteq skipped' /\ errs \subseteq errs'
  /\ (closed => closed') /\ (returned => returned')

Advances ==
  /\ NothingTakenBack
  /\ \A r \in Regions : RegionAdvances(r) \/ RegionWaits(r)
  /\ closed' # closed \/ returned' # returned \/ \E r \in Regions : RegionAdvances(r)

LEMMA RegionTakesNothingBack ==
  ASSUME NEW r \in Regions, Region(r)
  PROVE  NothingTakenBack
<1> USE DEF NothingTakenBack, cloud, answer
<1>1. CASE TakeSlot(r) \/ SkipOnDryRun(r) \/ RegionEnds(r) \/ ReleaseSlot(r)
  BY <1>1 DEF TakeSlot, SkipOnDryRun, RegionEnds, ReleaseSlot
<1>2. ASSUME NEW i \in Resources,
             DeregisterImage(r, i) \/ StopDBInstance(r, i) \/ RequestFails(r, i) \/ NextVolume(r, i)
      PROVE  NothingTakenBack
  BY <1>2 DEF DeregisterImage, StopDBInstance, RequestFails, NextVolume
<1>3. CASE DetachVolume(r) \/ PollUnused(r) \/ PollAgain(r)
  BY <1>3 DEF DetachVolume, PollUnused, PollAgain
<1>4. CASE DetachFails(r) \/ PollTimesOut(r) \/ PollFails(r)
  BY <1>4 DEF DetachFails, PollTimesOut, PollFails, Skip
<1>5. CASE DeleteVolume(r) \/ DeleteVolumeFails(r)
  BY <1>5 DEF DeleteVolume, DeleteVolumeFails
<1>6. CASE DeleteAlarms(r) \/ DeleteAlarmsFails(r)
  BY <1>6 DEF DeleteAlarms, DeleteAlarmsFails
<1>7. QED
  BY <1>1, <1>2, <1>3, <1>4, <1>5, <1>6 DEF Region

LEMMA LoopTyped ==
  ASSUME IInv
  PROVE  /\ pc \in [Regions -> {"slot", "next", "detach", "poll", "delete", "release", "done"}]
         /\ rest \in [Regions -> SUBSET Selected]
         /\ next \in [Regions -> Nat] /\ polls \in [Regions -> 0 .. MaxPolls]
         /\ DOMAIN item = Regions
BY DEF IInv, TypeOK

LEMMA RegionLeavesOthers ==
  ASSUME IInv, NEW r \in Regions, Region(r)
  PROVE  \A q \in Regions : q # r => RegionWaits(q)
<1> USE LoopTyped DEF RegionWaits, Goto, loop
<1> DEFINE OthersWait == \A q \in Regions : q # r => RegionWaits(q)
<1>1. CASE TakeSlot(r) \/ SkipOnDryRun(r) \/ RegionEnds(r) \/ ReleaseSlot(r)
  BY <1>1 DEF TakeSlot, SkipOnDryRun, RegionEnds, ReleaseSlot
<1>2. ASSUME NEW i \in Resources,
             DeregisterImage(r, i) \/ StopDBInstance(r, i) \/ RequestFails(r, i) \/ NextVolume(r, i)
      PROVE  OthersWait
  BY <1>2 DEF DeregisterImage, StopDBInstance, RequestFails, NextVolume, Take
<1>3. CASE DetachVolume(r) \/ PollUnused(r) \/ PollAgain(r)
  BY <1>3 DEF DetachVolume, PollUnused, PollAgain
<1>4. CASE DetachFails(r) \/ PollTimesOut(r) \/ PollFails(r)
  BY <1>4 DEF DetachFails, PollTimesOut, PollFails, Skip
<1>5. CASE DeleteVolume(r) \/ DeleteVolumeFails(r)
  BY <1>5 DEF DeleteVolume, DeleteVolumeFails
<1>6. CASE DeleteAlarms(r) \/ DeleteAlarmsFails(r)
  BY <1>6 DEF DeleteAlarms, DeleteAlarmsFails, NextChunk
<1>7. QED
  BY <1>1, <1>2, <1>3, <1>4, <1>5, <1>6 DEF Region

LEMMA RegionGoesOn ==
  ASSUME IInv, NEW r \in Regions, Region(r)
  PROVE  RegionAdvances(r)
<1>1. ASSUME UNCHANGED <<rest, next>>, NEW place, pc' = [pc EXCEPT ![r] = place],
             Rank[pc[r]] < Rank[place]
      PROVE  RegionAdvances(r)
  BY <1>1, LoopTyped DEF RegionAdvances
<1>2. CASE SkipOnDryRun(r)
  BY <1>2, LoopTyped DEF SkipOnDryRun, RegionAdvances, Shrinks
<1>3. ASSUME NEW i \in Resources,
             DeregisterImage(r, i) \/ StopDBInstance(r, i) \/ RequestFails(r, i) \/ NextVolume(r, i)
      PROVE  RegionAdvances(r)
  <2>1. i \in rest[r] /\ rest' = [rest EXCEPT ![r] = @ \ {i}]
    BY <1>3 DEF DeregisterImage, StopDBInstance, RequestFails, NextVolume, Take
  <2>2. QED
    BY <2>1, LoopTyped DEF RegionAdvances, Shrinks
<1>4. CASE PollAgain(r)
  BY <1>4, LoopTyped, AwsDeletionsAssumption DEF PollAgain, RegionAdvances
<1>5. CASE DeleteAlarms(r) \/ DeleteAlarmsFails(r)
  <2>1. next[r] < Count(r) /\ next' = [next EXCEPT ![r] = @ + AwsBulkOperationSize] /\ rest' = rest
    BY <1>5 DEF DeleteAlarms, DeleteAlarmsFails, NextChunk
  <2>2. next[r] < next'[r]
    BY <2>1, LoopTyped, AwsDeletionsAssumption
  <2>3. QED
    BY <2>1, <2>2 DEF RegionAdvances
<1>6. CASE TakeSlot(r)
  <2>1. Rank["slot"] < Rank["next"]
    BY DEF Rank
  <2>2. QED
    BY <1>1, <1>6, <2>1 DEF TakeSlot, At, Goto
<1>7. CASE RegionEnds(r) \/ ReleaseSlot(r)
  <2>1. /\ Rank["next"] < Rank["release"] /\ Rank["next"] < Rank["done"]
        /\ Rank["release"] < Rank["done"]
    BY DEF Rank
  <2>2. QED
    BY <1>1, <1>7, <2>1 DEF RegionEnds, ReleaseSlot, loop, At, Goto
<1>8. CASE DetachVolume(r) \/ PollUnused(r)
  <2>1. Rank["detach"] < Rank["poll"] /\ Rank["poll"] < Rank["delete"]
    BY DEF Rank
  <2>2. QED
    BY <1>1, <1>8, <2>1 DEF DetachVolume, PollUnused, loop, At, Goto
<1>9. CASE DetachFails(r) \/ PollTimesOut(r) \/ PollFails(r)
  <2>1. Rank["detach"] < Rank["next"] /\ Rank["poll"] < Rank["next"]
    BY DEF Rank
  <2>2. QED
    BY <1>1, <1>9, <2>1 DEF DetachFails, PollTimesOut, PollFails, StillInUse, Skip, loop, At, Goto
<1>10. CASE DeleteVolume(r) \/ DeleteVolumeFails(r)
  <2>1. Rank["delete"] < Rank["next"]
    BY DEF Rank
  <2>2. QED
    BY <1>1, <1>10, <2>1 DEF DeleteVolume, DeleteVolumeFails, loop, At, Goto
<1>11. QED
  BY <1>2, <1>3, <1>4, <1>5, <1>6, <1>7, <1>8, <1>9, <1>10 DEF Region

\* Every step of the four calls is one forward: an item or a chunk is taken,
\* a place is left for a later one, a poll of a bounded number is made, or
\* the call returns.  No loop of theirs runs for ever, whatever fails and
\* however the attachments of the volumes change meanwhile.
EveryStepAdvances == [][Advances]_<<pc, loop, detached, gone, answer>>

THEOREM StepsAdvance == Spec => EveryStepAdvances
<1> DEFINE own == <<pc, loop, detached, gone, answer>>
<1>1. ASSUME IInv, NEW r \in Regions, Region(r) PROVE Advances
  BY <1>1, RegionTakesNothingBack, RegionLeavesOthers, RegionGoesOn DEF Advances
<1>2. ASSUME IInv, Caller PROVE Advances
  BY <1>2 DEF Caller, CloseErrors, Return, Advances, NothingTakenBack, RegionWaits,
              IInv, TypeOK, loop, cloud
<1>3. ASSUME NEW v \in Resources, DetachmentCompletes(v) \/ Attach(v) PROVE UNCHANGED own
  BY <1>3 DEF DetachmentCompletes, Attach
<1>4. UNCHANGED vars => UNCHANGED own
  BY DEF vars, cloud
<1>5. IInv /\ [Next]_vars => [Advances]_own
  BY <1>1, <1>2, <1>3, <1>4 DEF Next
<1>6. QED
  BY <1>5, Invariance, PTL DEF Spec, EveryStepAdvances
=============================================================================
