----------------------------- MODULE HuntProofs -----------------------------
(***************************************************************************)
(* What a run of cloud-haunter guarantees for every set of providers, every*)
(* inventory and every command line: the invariants of Hunt.               *)
(*                                                                         *)
(* The four stages run one after the other, so the inductive invariant says*)
(* what each has established: a parsed request is valid (Parsed), the      *)
(* operation only lists what it was asked for (ListedWanted) and has       *)
(* prepared the providers (Prepared), nothing is changed before the action *)
(* (QuietBeforeAct), and a goroutine that has ended has handled the items  *)
(* of its cloud (FinishedHandled).                                         *)
(***************************************************************************)
EXTENDS Hunt, TLAPS

Parsed ==
  /\ stage # "parse" => IsValid
  /\ stage \in {"collect", "refused"} => filters = Selected
  /\ filters \subseteq Selected
  /\ stage = "act" => filters = {}

ListedWanted ==
  /\ stage \in {"parse", "collect", "refused"} => listed = {}
  /\ \A i \in listed : i.cloud \in Clouds /\ i.kind = KindOf[request.op]

Prepared ==
  /\ stage \in {"filter", "act"} /\ request.op # "readImages" => Clouds \subseteq prepared
  /\ launched \subseteq Clouds

QuietBeforeAct ==
  /\ stage # "act" => launched = {} /\ touched = {} /\ exit # "clean"
  /\ touched # {} => request.action \in DOMAIN CallOf

FinishedHandled ==
  /\ \A c \in finished : \A i \in ItemsOf(c) :
       Effective(c) /\ <<c, Call>> \notin MaySkip => i.id \in touched
  /\ exit = "clean" => request.action \in Reports \/ Targets \subseteq finished

IInv ==
  /\ TypeOK
  /\ Parsed
  /\ ListedWanted
  /\ FiltersCompose
  /\ Prepared
  /\ QuietBeforeAct
  /\ FinishedHandled
  /\ TouchedWasSelected
  /\ AbortBeforeAction

-----------------------------------------------------------------------------
(* No step changes the request, nor what is derived from it. *)

LEMMA RequestConstant == Next => UNCHANGED request
BY DEF Next, Main, Goroutine, Parse, Reject, Collect, CollectCrashes, PageRefused, AskAgain,
       ReadImages, ReadImagesPanics, ApplyFilter, FilterFails, Act, Report, ReportPanics, Launch,
       LaunchPanics, Finish, Idle, Refuse, Change, Return, ReturnErrors, Running,
       InFlight, Calling, Changing

LEMMA DerivedConstant ==
  ASSUME UNCHANGED request
  PROVE  /\ UNCHANGED <<Clouds, Selected>>
         /\ IsValid' <=> IsValid
         /\ \A f, i : Keeps(request, f, i)' = Keeps(request, f, i)
         /\ \A fs, i : KeptBy(fs, i)' <=> KeptBy(fs, i)
BY DEF Clouds, Selected, IsValid, KeptBy

LEMMA ActionsDisjoint == Reports \cap DOMAIN CallOf = {}
BY DEF Reports, CallOf

-----------------------------------------------------------------------------
LEMMA InitInvariant == Init => IInv
<1> SUFFICES ASSUME Init PROVE IInv
  OBVIOUS
<1>1. TypeOK
  BY DEF Init, TypeOK
<1>2. Parsed /\ ListedWanted /\ FiltersCompose /\ Prepared
  BY DEF Init, Parsed, ListedWanted, FiltersCompose, Prepared
<1>3. QuietBeforeAct /\ FinishedHandled /\ TouchedWasSelected /\ AbortBeforeAction
  BY DEF Init, QuietBeforeAct, FinishedHandled, TouchedWasSelected, AbortBeforeAction
<1> QED
  BY <1>1, <1>2, <1>3 DEF IInv

-----------------------------------------------------------------------------
(* The steps of each stage keep the invariant. *)

LEMMA ParseStep == IInv /\ (Parse \/ Reject) => IInv'
<1> SUFFICES ASSUME IInv, Parse \/ Reject PROVE IInv'
  OBVIOUS
<1> USE DEF IInv
<1>0. UNCHANGED request
  BY DEF Parse, Reject
<1>1. /\ stage = "parse" /\ exit = "no" /\ listed = {} /\ items = {}
      /\ touched = {} /\ launched = {} /\ finished = {}
      /\ UNCHANGED <<prepared, listed, items, work>>
      /\ stage' \in {"parse", "collect"} /\ exit' \in {"no", "recovered"}
  BY DEF Parse, Reject, Running, ListedWanted, QuietBeforeAct, TypeOK, selection
<1>2. filters' \subseteq Selected
  BY DEF Parse, Reject, Running, Parsed, selection
<1>3. Selected \subseteq FilterTypes
  BY HuntAssumption DEF Selected, TypeOK
<1>4. TypeOK'
  BY <1>0, <1>1, <1>2, <1>3 DEF TypeOK, work
<1>5. Parsed'
  BY <1>0, <1>1, <1>2, DerivedConstant DEF Parsed, Parse, Reject
<1>6. ListedWanted' /\ FiltersCompose' /\ Prepared'
  BY <1>0, <1>1, DerivedConstant DEF ListedWanted, FiltersCompose, Prepared, work
<1>7. QuietBeforeAct' /\ FinishedHandled'
  BY <1>0, <1>1 DEF QuietBeforeAct, FinishedHandled, work
<1>8. TouchedWasSelected' /\ AbortBeforeAction'
  BY <1>1 DEF TouchedWasSelected, AbortBeforeAction, work
<1> QED
  BY <1>4, <1>5, <1>6, <1>7, <1>8

LEMMA AsReadKeeps ==
  ASSUME NEW i \in Inventory
  PROVE  /\ AsRead(i).id = i.id
         /\ AsRead(i).cloud = i.cloud
         /\ AsRead(i).kind = i.kind
BY HuntAssumption DEF AsRead

LEMMA CollectStep ==
  IInv /\ (Collect \/ CollectCrashes \/ ReadImages \/ ReadImagesPanics) => IInv'
<1> SUFFICES ASSUME IInv, Collect \/ CollectCrashes \/ ReadImages \/ ReadImagesPanics
             PROVE  IInv'
  OBVIOUS
<1> USE DEF IInv
<1>1. /\ UNCHANGED <<request, filters, work>>
      /\ stage = "collect" /\ exit = "no"
      /\ listed = {} /\ items = {} /\ touched = {} /\ launched = {} /\ finished = {}
  BY DEF Collect, CollectCrashes, ReadImages, ReadImagesPanics, Running, ListedWanted,
         QuietBeforeAct, TypeOK, selection
<1>2. CASE Collect \/ ReadImages
  <2>1. /\ stage' = "filter" /\ exit' = "no" /\ items' = listed'
        /\ listed' \subseteq Listable \cup {AsRead(i) : i \in Listable}
    BY <1>1, <1>2 DEF Collect, ReadImages
  <2>2. /\ listed' \subseteq Inventory \cup {AsRead(i) : i \in Inventory}
        /\ \A i \in listed' : i.cloud \in Clouds /\ i.kind = KindOf[request.op]
    BY <2>1, AsReadKeeps DEF Listable
  <2>3. prepared' \subseteq Providers /\ (request.op # "readImages" => prepared' = Clouds)
    BY <1>2 DEF Collect, ReadImages, Clouds, TypeOK
  <2>4. TypeOK'
    BY <1>1, <2>1, <2>2, <2>3 DEF TypeOK, work
  <2>5. Parsed' /\ ListedWanted' /\ Prepared'
    BY <1>1, <2>1, <2>2, <2>3, DerivedConstant DEF Parsed, ListedWanted, Prepared, work
  <2>6. FiltersCompose'
    <3>1. Selected' \ filters' = {}
      BY <1>1, DerivedConstant DEF Parsed
    <3> QED
      BY <2>1, <3>1 DEF FiltersCompose, KeptBy
  <2>7. QuietBeforeAct' /\ FinishedHandled' /\ TouchedWasSelected' /\ AbortBeforeAction'
    BY <1>1, <2>1 DEF QuietBeforeAct, FinishedHandled, TouchedWasSelected,
                      AbortBeforeAction, work
  <2> QED
    BY <2>4, <2>5, <2>6, <2>7
<1>3. CASE CollectCrashes \/ ReadImagesPanics
  <2>1. UNCHANGED <<stage, prepared, selection>> /\ exit' \in {"crashed", "recovered"}
    BY <1>3 DEF CollectCrashes, ReadImagesPanics
  <2>2. TypeOK'
    BY <1>1, <2>1 DEF TypeOK, work, selection
  <2>3. Parsed' /\ ListedWanted' /\ Prepared' /\ FiltersCompose'
    BY <1>1, <2>1, DerivedConstant
    DEF Parsed, ListedWanted, Prepared, FiltersCompose, work, selection
  <2>4. QuietBeforeAct' /\ FinishedHandled' /\ TouchedWasSelected' /\ AbortBeforeAction'
    BY <1>1, <2>1 DEF QuietBeforeAct, FinishedHandled, TouchedWasSelected,
                      AbortBeforeAction, work
  <2> QED
    BY <2>2, <2>3, <2>4
<1> QED
  BY <1>2, <1>3

\* A refused page and the next try leave everything as it was but the clients
\* of Azure.
LEMMA RefusedStep == IInv /\ (PageRefused \/ AskAgain) => IInv'
<1> SUFFICES ASSUME IInv, PageRefused \/ AskAgain PROVE IInv'
  OBVIOUS
<1> USE DEF IInv
<1>1. /\ UNCHANGED <<request, selection, work, exit>>
      /\ stage \in {"collect", "refused"} /\ stage' \in {"collect", "refused"}
      /\ exit = "no" /\ touched = {} /\ launched = {} /\ finished = {}
  BY DEF PageRefused, AskAgain, Running, QuietBeforeAct, TypeOK
<1>2. prepared' \subseteq Providers
  BY DEF PageRefused, AskAgain, Clouds, TypeOK
<1>3. TypeOK'
  BY <1>1, <1>2 DEF TypeOK, work, selection
<1>4. Parsed' /\ ListedWanted' /\ Prepared' /\ FiltersCompose'
  BY <1>1, DerivedConstant
  DEF Parsed, ListedWanted, Prepared, FiltersCompose, work, selection
<1>5. QuietBeforeAct' /\ FinishedHandled' /\ TouchedWasSelected' /\ AbortBeforeAction'
  BY <1>1 DEF QuietBeforeAct, FinishedHandled, TouchedWasSelected, AbortBeforeAction, work
<1> QED
  BY <1>3, <1>4, <1>5

LEMMA FilterStep ==
  ASSUME NEW f \in FilterTypes
  PROVE  IInv /\ (ApplyFilter(f) \/ FilterFails(f)) => IInv'
<1> SUFFICES ASSUME IInv, ApplyFilter(f) \/ FilterFails(f) PROVE IInv'
  OBVIOUS
<1> USE DEF IInv
<1>1. /\ UNCHANGED <<request, stage, prepared, listed, work>>
      /\ stage = "filter" /\ exit = "no" /\ f \in filters
      /\ touched = {} /\ launched = {} /\ finished = {}
  BY DEF ApplyFilter, FilterFails, Running, QuietBeforeAct, TypeOK, selection
<1>2. /\ items' \subseteq items /\ filters' \subseteq filters
      /\ exit' \in {"no", "fatal"}
  BY <1>1 DEF ApplyFilter, FilterFails, Filtered, selection
<1>3. TypeOK'
  BY <1>1, <1>2 DEF TypeOK, work
<1>4. Parsed' /\ ListedWanted' /\ Prepared'
  BY <1>1, <1>2, DerivedConstant DEF Parsed, ListedWanted, Prepared, work
<1>5. FiltersCompose'
  <2>1. CASE ApplyFilter(f)
    <3>1. Selected' \ filters' = (Selected \ filters) \cup {f}
      BY <1>1, <2>1, DerivedConstant DEF ApplyFilter, Parsed
    <3>2. items' = {i \in listed : KeptBy(Selected \ filters, i) /\ Keeps(request, f, i)}
      BY <1>1, <2>1 DEF ApplyFilter, Filtered, FiltersCompose
    <3>3. \A i : KeptBy(Selected \ filters, i)
                   <=> \A g \in Selected \ filters : Keeps(request, g, i)
      BY DEF KeptBy
    <3>4. items' = {i \in listed' : \A g \in Selected' \ filters' : Keeps(request', g, i)}
      BY <1>1, <3>1, <3>2, <3>3
    <3> QED
      BY <3>4 DEF FiltersCompose, KeptBy
  <2>2. CASE FilterFails(f)
    BY <1>1, <2>2, DerivedConstant DEF FilterFails, FiltersCompose, KeptBy, selection
  <2> QED
    BY <2>1, <2>2
<1>6. QuietBeforeAct' /\ FinishedHandled' /\ TouchedWasSelected' /\ AbortBeforeAction'
  BY <1>1, <1>2 DEF QuietBeforeAct, FinishedHandled, TouchedWasSelected,
                    AbortBeforeAction, work
<1> QED
  BY <1>3, <1>4, <1>5, <1>6

-----------------------------------------------------------------------------
(* The action.  None of its steps changes what was listed and selected, so *)
(* these facts hold after it as they did before.                           *)

SelectionFrozen ==
  UNCHANGED <<request, stage, selection>>

LEMMA FrozenDerived ==
  ASSUME SelectionFrozen
  PROVE  /\ \A c : ItemsOf(c)' = ItemsOf(c)
         /\ \A c : Effective(c)' <=> Effective(c)
         /\ Call' = Call
         /\ Targets' = Targets
         /\ Found' = Found
         /\ \A call, i, j : TakesDown(call, i, j)' <=> TakesDown(call, i, j)
<1> USE DEF SelectionFrozen, selection
<1>1. Clouds' = Clouds
  BY DerivedConstant
<1>2. Call' = Call
  BY DEF Call
<1>3. \A c : ItemsOf(c)' = ItemsOf(c)
  BY DEF ItemsOf
<1>4. \A c : Effective(c)' <=> Effective(c)
  BY <1>2 DEF Effective
<1>5. Targets' = Targets
  BY <1>1, <1>3 DEF Targets, Handles, ItemsOf
<1>6. Found' = Found
  BY DerivedConstant DEF Found, KeptBy, Selected
<1>7. \A call, i, j : TakesDown(call, i, j)' <=> TakesDown(call, i, j)
  BY DEF TakesDown
<1> QED
  BY <1>2, <1>3, <1>4, <1>5, <1>6, <1>7

LEMMA FrozenInvariants ==
  ASSUME IInv, SelectionFrozen
  PROVE  /\ Parsed' /\ ListedWanted' /\ FiltersCompose'
         /\ touched' = touched => TouchedWasSelected'
<1> USE DEF IInv, SelectionFrozen, selection
<1>1. Parsed' /\ ListedWanted'
  BY DerivedConstant DEF Parsed, ListedWanted
<1>2. FiltersCompose'
  BY DEF FiltersCompose, KeptBy, Selected
<1>3. ASSUME touched' = touched PROVE TouchedWasSelected'
  BY <1>3, FrozenDerived, DerivedConstant DEF TouchedWasSelected
<1> QED
  BY <1>1, <1>2, <1>3

LEMMA ItemsAreFound == IInv /\ stage = "act" => items = Found
<1> SUFFICES ASSUME IInv, stage = "act" PROVE items = Found
  OBVIOUS
<1>1. filters = {}
  BY DEF IInv, Parsed
<1>2. Selected \ filters = Selected
  BY <1>1
<1> QED
  BY <1>2 DEF IInv, FiltersCompose, Found

LEMMA ActStep == IInv /\ Act => IInv'
<1> SUFFICES ASSUME IInv, Act PROVE IInv'
  OBVIOUS
<1> USE DEF IInv
<1>1. /\ UNCHANGED <<request, prepared, selection, work, exit>>
      /\ stage = "filter" /\ stage' = "act" /\ exit = "no" /\ filters = {}
      /\ touched = {} /\ launched = {} /\ finished = {}
  BY DEF Act, Running, QuietBeforeAct, TypeOK
<1>2. TypeOK' /\ QuietBeforeAct' /\ FinishedHandled' /\ TouchedWasSelected' /\ AbortBeforeAction'
  BY <1>1 DEF TypeOK, QuietBeforeAct, FinishedHandled, TouchedWasSelected,
              AbortBeforeAction, work, selection
<1>3. Parsed' /\ ListedWanted' /\ Prepared'
  BY <1>1, DerivedConstant DEF Parsed, ListedWanted, Prepared, work, selection
<1>4. FiltersCompose'
  BY <1>1 DEF FiltersCompose, KeptBy, Selected, selection
<1> QED
  BY <1>2, <1>3, <1>4

\* The process ends: nothing but exit changes.
LEMMA EndStep ==
  ASSUME NEW c \in Providers
  PROVE  IInv /\ (Report \/ ReportPanics \/ LaunchPanics(c) \/ Refuse(c)
                    \/ ReturnErrors(c) \/ Finish) => IInv'
<1> SUFFICES ASSUME IInv, Report \/ ReportPanics \/ LaunchPanics(c) \/ Refuse(c)
                            \/ ReturnErrors(c) \/ Finish
             PROVE  IInv'
  OBVIOUS
<1> USE DEF IInv
<1>1. UNCHANGED <<request, stage, prepared, selection, work>> /\ stage = "act" /\ exit = "no"
  BY DEF Report, ReportPanics, LaunchPanics, Refuse, ReturnErrors, Finish, Running,
         Changing, Calling, InFlight
<1>2. exit' \in {"clean", "recovered", "crashed"}
  BY DEF Report, ReportPanics, LaunchPanics, Refuse, ReturnErrors, Finish
<1>3. SelectionFrozen /\ touched' = touched
  BY <1>1 DEF SelectionFrozen, work
<1>4. Parsed' /\ ListedWanted' /\ FiltersCompose' /\ TouchedWasSelected'
  BY <1>3, FrozenInvariants
<1>5. TypeOK' /\ QuietBeforeAct'
  BY <1>1, <1>2 DEF TypeOK, QuietBeforeAct, work, selection
<1>6. Prepared'
  BY <1>1, DerivedConstant DEF Prepared, work
<1>7. FinishedHandled'
  <2>1. exit' = "clean" => request.action \in Reports \/ Targets \subseteq finished
    BY DEF Report, ReportPanics, LaunchPanics, Refuse, ReturnErrors, Finish
  <2> QED
    BY <1>1, <1>3, <2>1, FrozenDerived DEF FinishedHandled, work
<1>8. AbortBeforeAction'
  <2>1. CASE exit' = "recovered"
    <3>1. ReportPanics \/ LaunchPanics(c)
      BY <2>1 DEF Report, ReportPanics, LaunchPanics, Refuse, ReturnErrors, Finish
    <3>2. CASE ReportPanics
      <4>1. request.action \in Reports
        BY <3>2 DEF ReportPanics, Reports
      <4> QED
        BY <1>1, <4>1, ActionsDisjoint DEF QuietBeforeAct, AbortBeforeAction, work
    <3>3. CASE LaunchPanics(c)
      <4>1. c \in Clouds \ prepared
        BY <3>3 DEF LaunchPanics, Targets
      <4> QED
        BY <1>1, <4>1 DEF Prepared, AbortBeforeAction
    <3> QED
      BY <3>1, <3>2, <3>3
  <2>2. CASE exit' # "recovered"
    BY <1>2, <2>2 DEF AbortBeforeAction
  <2> QED
    BY <2>1, <2>2
<1> QED
  BY <1>4, <1>5, <1>6, <1>7, <1>8

\* A goroutine is started, or ends.
LEMMA GoroutineStep ==
  ASSUME NEW c \in Providers
  PROVE  IInv /\ (Launch(c) \/ Idle(c) \/ Return(c)) => IInv'
<1> SUFFICES ASSUME IInv, Launch(c) \/ Idle(c) \/ Return(c) PROVE IInv'
  OBVIOUS
<1> USE DEF IInv
<1>1. /\ UNCHANGED <<request, stage, selection, touched, exit>>
      /\ stage = "act" /\ exit = "no"
  BY DEF Launch, Idle, Return, Running, Changing, Calling, InFlight
<1>2. /\ prepared' \subseteq Providers /\ prepared \subseteq prepared'
      /\ launched' \subseteq Clouds \cap Providers
      /\ finished' \subseteq launched'
  BY DEF Launch, Idle, Return, Targets, Clouds, TypeOK, Prepared, Calling, InFlight
<1>3. SelectionFrozen
  BY <1>1 DEF SelectionFrozen
<1>4. Parsed' /\ ListedWanted' /\ FiltersCompose' /\ TouchedWasSelected'
  BY <1>1, <1>3, FrozenInvariants
<1>5. TypeOK' /\ QuietBeforeAct' /\ AbortBeforeAction'
  BY <1>1, <1>2 DEF TypeOK, QuietBeforeAct, AbortBeforeAction, selection
<1>6. Prepared'
  BY <1>1, <1>2, DerivedConstant DEF Prepared
<1>7. FinishedHandled'
  <2>1. ASSUME NEW d \in finished', NEW i \in ItemsOf(d), Effective(d),
               <<d, Call>> \notin MaySkip
        PROVE  i.id \in touched
    <3>1. CASE d \in finished
      BY <2>1, <3>1 DEF FinishedHandled
    <3>2. CASE d \notin finished
      <4>1. d = c /\ (Idle(c) \/ Return(c))
        BY <2>1, <3>2 DEF Launch, Idle, Return
      <4>2. Return(c)
        BY <2>1, <4>1 DEF Idle
      <4> QED
        BY <2>1, <4>1, <4>2 DEF Return, Untouched, AnswerIsFull, Effective
    <3> QED
      BY <3>1, <3>2
  <2> QED
    BY <1>1, <1>3, <2>1, FrozenDerived DEF FinishedHandled
<1> QED
  BY <1>4, <1>5, <1>6, <1>7

\* A call changes a resource.
LEMMA ChangeStep ==
  ASSUME NEW c \in Providers
  PROVE  IInv /\ Change(c) => IInv'
<1> SUFFICES ASSUME IInv, Change(c) PROVE IInv'
  OBVIOUS
<1> USE DEF IInv
<1>1. /\ UNCHANGED <<request, stage, prepared, selection, launched, finished, exit>>
      /\ stage = "act" /\ exit = "no" /\ request.action \in DOMAIN CallOf
  BY DEF Change, Running, Changing, Calling, InFlight
<1>2. PICK i \in Reach(c) : touched' = touched \cup {i.id}
  BY DEF Change
<1>3. SelectionFrozen
  BY <1>1 DEF SelectionFrozen
<1>4. Parsed' /\ ListedWanted' /\ FiltersCompose'
  BY <1>3, FrozenInvariants
<1>5. TypeOK'
  <2>1. i \in items \cup Inventory
    BY DEF Reach, ItemsOf
  <2>2. i.id \in {j.id : j \in Inventory}
    BY <2>1, AsReadKeeps DEF TypeOK
  <2> QED
    BY <1>1, <1>2, <2>2 DEF TypeOK, selection
<1>6. QuietBeforeAct' /\ AbortBeforeAction' /\ Prepared'
  BY <1>1, DerivedConstant DEF QuietBeforeAct, AbortBeforeAction, Prepared
<1>7. FinishedHandled'
  BY <1>1, <1>2, <1>3, FrozenDerived DEF FinishedHandled
<1>8. TouchedWasSelected'
  <2>1. PICK k \in ItemsOf(c) : k = i \/ (i \in Inventory /\ TakesDown(Call, k, i))
    BY DEF Reach
  <2>2. k \in Found /\ k.cloud \in Clouds /\ k.kind = KindOf[request.op]
    BY <1>1, <2>1, ItemsAreFound DEF ItemsOf, ListedWanted, TypeOK
  <2>3. \A id \in touched' :
          \E g \in Found :
            /\ g.cloud \in Clouds /\ g.kind = KindOf[request.op]
            /\ \/ g.id = id
               \/ \E j \in Inventory : j.id = id /\ TakesDown(Call, g, j)
    BY <1>2, <2>1, <2>2 DEF TouchedWasSelected
  <2> QED
    BY <1>1, <1>3, <2>3, FrozenDerived, DerivedConstant DEF TouchedWasSelected
<1> QED
  BY <1>4, <1>5, <1>6, <1>7, <1>8

-----------------------------------------------------------------------------
LEMMA StepInvariant == IInv /\ [Next]_vars => IInv'
<1> SUFFICES ASSUME IInv, [Next]_vars PROVE IInv'
  OBVIOUS
<1>1. CASE Main
  <2>1. CASE Parse \/ Reject
    BY <2>1, ParseStep
  <2>2. CASE Collect \/ CollectCrashes \/ ReadImages \/ ReadImagesPanics
    BY <2>2, CollectStep
  <2>7. CASE PageRefused \/ AskAgain
    BY <2>7, RefusedStep
  <2>3. CASE \E f \in FilterTypes : ApplyFilter(f) \/ FilterFails(f)
    BY <2>3, FilterStep
  <2>4. CASE Act
    BY <2>4, ActStep
  <2>5. CASE \E c \in Providers : Launch(c) \/ LaunchPanics(c)
    BY <2>5, GoroutineStep, EndStep
  <2>6. CASE Report \/ ReportPanics \/ Finish
    <3>1. \E c \in Providers : TRUE
      BY <2>6 DEF Report, ReportPanics, Finish, Running, Changing, IInv, Parsed,
                  IsValid, Clouds
    <3> QED
      BY <2>6, <3>1, EndStep
  <2> QED
    BY <1>1, <2>1, <2>2, <2>3, <2>4, <2>5, <2>6, <2>7 DEF Main
<1>2. CASE \E c \in Providers : Goroutine(c)
  <2> PICK c \in Providers : Goroutine(c)
    BY <1>2
  <2>1. CASE Idle(c) \/ Return(c)
    BY <2>1, GoroutineStep
  <2>2. CASE Refuse(c) \/ ReturnErrors(c)
    BY <2>2, EndStep
  <2>3. CASE Change(c)
    BY <2>3, ChangeStep
  <2> QED
    BY <2>1, <2>2, <2>3 DEF Goroutine
<1>3. CASE UNCHANGED vars
  <2>1. UNCHANGED <<request, stage, prepared, listed, items, filters, launched, finished,
                    touched, exit>>
    BY <1>3 DEF vars, selection, work
  <2>2. SelectionFrozen
    BY <2>1 DEF SelectionFrozen, selection
  <2>3. Parsed' /\ ListedWanted' /\ FiltersCompose' /\ TouchedWasSelected'
    BY <2>1, <2>2, FrozenInvariants
  <2>4. TypeOK' /\ QuietBeforeAct' /\ AbortBeforeAction'
    BY <2>1 DEF IInv, TypeOK, QuietBeforeAct, AbortBeforeAction
  <2>5. Prepared' /\ FinishedHandled'
    BY <2>1, <2>2, DerivedConstant, FrozenDerived DEF IInv, Prepared, FinishedHandled
  <2> QED
    BY <2>3, <2>4, <2>5 DEF IInv
<1> QED
  BY <1>1, <1>2, <1>3 DEF Next

\* The inductive invariant: what the four stages of a run establish holds
\* throughout the run.
THEOREM Invariance == Spec => []IInv
<1> QED
  BY InitInvariant, StepInvariant, PTL DEF Spec

\* Every variable of a run of main.go keeps its type, and the filters only
\* ever remove items of what the operation returned.
THEOREM TypeCorrect == Spec => []TypeOK
<1>1. IInv => TypeOK
  BY DEF IInv
<1> QED
  BY <1>1, Invariance, PTL

\* The filters of main.go compose in whatever order the map iteration gives
\* them: what is left is what each of them keeps on its own.
THEOREM FilterOrderIrrelevant == Spec => []FiltersCompose
<1>1. IInv => FiltersCompose
  BY DEF IInv
<1> QED
  BY <1>1, Invariance, PTL

\* No action changes a resource that the operation did not list or that a
\* registered filter dropped, but for what a provider's call on a selected
\* resource takes down with it.
THEOREM OnlySelectedTouched == Spec => []TouchedWasSelected
<1>1. IInv => TouchedWasSelected
  BY DEF IInv
<1> QED
  BY <1>1, Invariance, PTL

\* The process never stops itself half-way through an action: log.Fatalf and
\* the panics main recovers come before the first change, readImages apart.
THEOREM NoSelfAbort == Spec => []AbortBeforeAction
<1>1. IInv => AbortBeforeAction
  BY DEF IInv
<1> QED
  BY <1>1, Invariance, PTL

\* An exit code of 0 after termination or cleanup says that each selected
\* item of the calls that report their failures was changed.
THEOREM CleanExitHandled == Spec => []CleanExitMeansHandled
<1>1. IInv => CleanExitMeansHandled
  <2> SUFFICES ASSUME IInv, exit = "clean", request.action \in {"termination", "cleanup"},
                      ~request.dryRun, NEW i \in Found, <<i.cloud, Call>> \notin MaySkip
               PROVE  i.id \in touched
    BY DEF CleanExitMeansHandled
  <2>1. stage = "act"
    BY DEF IInv, QuietBeforeAct
  <2>2. i \in ItemsOf(i.cloud) /\ i.cloud \in Clouds
    BY <2>1, ItemsAreFound DEF IInv, ListedWanted, ItemsOf, Found
  <2>3. Clouds \subseteq finished
    BY DEF IInv, FinishedHandled, Targets, Reports
  <2>4. Effective(i.cloud)
    BY DEF Effective, IsEffective
  <2> QED
    BY <2>2, <2>3, <2>4 DEF IInv, FinishedHandled
<1> QED
  BY <1>1, Invariance, PTL

-----------------------------------------------------------------------------
(* The dry run.  DryRunChangesNothing does not hold; what does is that only *)
(* the calls that do not look at the flag break it.                        *)

DryRunReach ==
  request.dryRun =>
    \A id \in touched :
      \E c \in Providers :
        /\ <<c, Call>> \in IgnoresDryRun
        /\ \E i \in Reach(c) : i.id = id

\* No step but a call's touches anything, and none moves what it can reach
\* once something is touched.
LEMMA TouchedSteps ==
  ASSUME IInv, [Next]_vars
  PROVE  \/ touched' = {}
         \/ SelectionFrozen /\ touched' = touched
         \/ \E c \in Providers : SelectionFrozen /\ Change(c)
<1> USE DEF SelectionFrozen, selection, work
<1>1. stage # "act" => touched = {}
  BY DEF IInv, QuietBeforeAct
<1>2. CASE \/ Parse \/ Reject \/ Collect \/ CollectCrashes \/ PageRefused \/ AskAgain
           \/ ReadImages \/ ReadImagesPanics
  BY <1>1, <1>2 DEF Parse, Reject, Collect, CollectCrashes, PageRefused, AskAgain, ReadImages,
                    ReadImagesPanics, Running
<1>3. CASE \E f \in FilterTypes : ApplyFilter(f) \/ FilterFails(f)
  BY <1>1, <1>3 DEF ApplyFilter, FilterFails, Running
<1>4. CASE Act \/ Report \/ ReportPanics \/ Finish
  BY <1>1, <1>4 DEF Act, Report, ReportPanics, Finish, Running
<1>5. CASE \E c \in Providers : Launch(c) \/ LaunchPanics(c)
  BY <1>5 DEF Launch, LaunchPanics
<1>6. CASE \E c \in Providers : Goroutine(c)
  BY <1>6 DEF Goroutine, Idle, Refuse, Change, Return, ReturnErrors
<1>7. CASE UNCHANGED vars
  BY <1>7 DEF vars
<1> QED
  BY <1>2, <1>3, <1>4, <1>5, <1>6, <1>7 DEF Next, Main

\* What a dry run has changed stays within the reach of such a call.
LEMMA DryRunStep == IInv /\ DryRunReach /\ [Next]_vars => DryRunReach'
<1> SUFFICES ASSUME IInv, DryRunReach, [Next]_vars PROVE DryRunReach'
  OBVIOUS
<1>1. CASE touched' = {}
  BY <1>1 DEF DryRunReach
<1>2. ASSUME SelectionFrozen
      PROVE  request' = request /\ Call' = Call /\ \A c : Reach(c)' = Reach(c)
  BY <1>2, FrozenDerived DEF Reach, SelectionFrozen
<1>3. CASE SelectionFrozen /\ touched' = touched
  BY <1>2, <1>3 DEF DryRunReach
<1>4. ASSUME NEW c \in Providers, SelectionFrozen, Change(c)
      PROVE  DryRunReach'
  <2>1. PICK i \in Reach(c) : touched' = touched \cup {i.id}
    BY <1>4 DEF Change
  <2>2. request.dryRun => <<c, Call>> \in IgnoresDryRun
    BY <1>4 DEF Change, Effective, IsEffective
  <2> QED
    BY <1>2, <1>4, <2>1, <2>2 DEF DryRunReach
<1> QED
  BY <1>1, <1>3, <1>4, TouchedSteps

\* context.go calls DryRun a flag "to skip the concrete action".  What a dry
\* run changes all the same is within reach of one of the provider's calls
\* that do not look at the flag; where the action makes none of these, it
\* changes nothing.
THEOREM DryRunOnlyReachesIgnored ==
  Spec => [](DryRunReach /\ ((\A c \in Providers : <<c, Call>> \notin IgnoresDryRun)
                              => DryRunChangesNothing))
<1>1. Init => DryRunReach
  BY DEF Init, DryRunReach
<1>2. DryRunReach => ((\A c \in Providers : <<c, Call>> \notin IgnoresDryRun)
                        => DryRunChangesNothing)
  BY DEF DryRunReach, DryRunChangesNothing
<1> QED
  BY <1>1, <1>2, DryRunStep, Invariance, PTL DEF Spec

-----------------------------------------------------------------------------
(* A run ends once its calls do. *)

StageRank == [parse |-> 0, collect |-> 1, refused |-> 1, filter |-> 2, act |-> 3]

\* The one round a run can make for ever.
AskedAgain == PageRefused \/ AskAgain

\* The action launches, finishes or changes one more, and loses none.
ActionAdvances ==
  /\ launched \subseteq launched' /\ finished \subseteq finished' /\ touched \subseteq touched'
  /\ launched # launched' \/ finished # finished' \/ touched # touched'

Advances ==
  /\ exit = "no"
  /\ \/ exit' # "no"
     \/ StageRank[stage] < StageRank[stage']
     \/ stage' = stage /\ filters' \subseteq filters /\ filters' # filters
     \/ stage' = stage /\ filters' = filters /\ ActionAdvances

\* A run that has not ended has a next step: it reports, or there is a cloud
\* to launch, a goroutine in flight, or nothing left to wait for.
NoDeadlock ==
  exit = "no" =>
    \/ stage \in {"parse", "collect", "refused", "filter"}
    \/ request.action \in Reports
    \/ Changing /\ \/ \E c \in Providers : c \in Targets \ launched \/ InFlight(c)
                   \/ Targets \subseteq finished

LEMMA MainAdvances ==
  ASSUME Main
  PROVE  Advances \/ AskedAgain
<1> USE DEF Advances, Running
<1>1. CASE Parse \/ Collect \/ ReadImages \/ Act
  BY <1>1 DEF Parse, Collect, ReadImages, Act, StageRank
<1>2. CASE Reject \/ CollectCrashes \/ ReadImagesPanics \/ Report \/ ReportPanics \/ Finish
  BY <1>2 DEF Reject, CollectCrashes, ReadImagesPanics, Report, ReportPanics, Finish, Changing
<1>3. ASSUME NEW f \in FilterTypes, ApplyFilter(f) \/ FilterFails(f)
      PROVE  Advances
  BY <1>3 DEF ApplyFilter, FilterFails
<1>4. ASSUME NEW c \in Providers, Launch(c) \/ LaunchPanics(c)
      PROVE  Advances
  BY <1>4 DEF Launch, LaunchPanics, Changing, ActionAdvances, selection
<1> QED
  BY <1>1, <1>2, <1>3, <1>4 DEF Main, AskedAgain

LEMMA GoroutineAdvances ==
  ASSUME NEW c \in Providers, Goroutine(c)
  PROVE  Advances
<1> USE DEF Advances, Running, Changing, InFlight
<1>1. CASE Refuse(c) \/ ReturnErrors(c)
  BY <1>1 DEF Refuse, ReturnErrors, Calling
<1>2. CASE Idle(c) \/ Return(c)
  BY <1>2 DEF Idle, Return, Calling, ActionAdvances, selection
<1>3. CASE Change(c)
  BY <1>3 DEF Change, Calling, ActionAdvances, selection
<1> QED
  BY <1>1, <1>2, <1>3 DEF Goroutine

\* Every step of a run but one is one forward: it ends the run, reaches a
\* later stage, leaves one filter less to apply, or launches a goroutine, ends
\* one or changes a resource that was not changed before.  There are only so
\* many of these, and a run that has not ended is never stuck.  What is left is
\* the page of a scale set that is refused and asked for again: the exception
\* of RunEnds is the only one there can be.
EveryStepAdvances == [][Advances \/ AskedAgain]_vars

THEOREM RunAdvances == Spec => EveryStepAdvances /\ []NoDeadlock
<1>1. [Next]_vars => [Advances \/ AskedAgain]_vars
  BY MainAdvances, GoroutineAdvances DEF Next
<1>2. IInv => NoDeadlock
  <2> SUFFICES ASSUME IInv, exit = "no", stage \notin {"parse", "collect", "refused", "filter"},
                      request.action \notin Reports
               PROVE  Changing /\ \/ \E c \in Providers : c \in Targets \ launched \/ InFlight(c)
                                  \/ Targets \subseteq finished
    BY DEF NoDeadlock
  <2>1. Changing
    BY DEF IInv, TypeOK, Parsed, IsValid, Changing, Running
  <2>2. Targets \subseteq Providers /\ launched \subseteq Providers
    BY DEF IInv, TypeOK, Targets, Clouds
  <2> QED
    BY <2>1, <2>2 DEF InFlight
<1> QED
  BY <1>1, <1>2, Invariance, PTL DEF Spec, EveryStepAdvances
=============================================================================
