-------------------------------- MODULE Hunt --------------------------------
(***************************************************************************)
(* One run of cloud-haunter: main.go from the parsed command line, over    *)
(* the operation and the filters, to the action (action/*.go) and what its *)
(* calls change in the clouds.                                             *)
(*                                                                         *)
(* The request is the command line and the environment: op, action, clouds *)
(* ({} for all), filters (the names given with -f), registered (the filters*)
(* whose init succeeded), dryRun, and the flags of Filters.                *)
(***************************************************************************)
EXTENDS Filters, ProviderTraits

CONSTANTS
  Providers,   \* the clouds whose credentials are in the environment
  Inventory,   \* the items in the accounts
  Requests     \* the command lines considered

\* main knows no filter but those of the package filter.
ASSUME HuntAssumption ==
  /\ \A r \in Requests : r.registered \subseteq FilterTypes
  /\ Inventory \subseteq [id : STRING, cloud : STRING, region : STRING, kind : STRING,
                         name : STRING, owner : STRING, labels : SUBSET STRING,
                         state : STRING, old : BOOLEAN, group : STRING]

VARIABLES
  request,
  stage,       \* parse, collect, refused (a page of a scale set), filter, act
  prepared,    \* the clouds whose provider has built its clients
  listed,      \* the items the operation returned
  items,       \* what the filters applied so far have kept of them
  filters,     \* the filters still to apply
  launched,    \* the clouds whose goroutine the action has started
  finished,    \* the clouds whose goroutine has called wg.Done
  touched,     \* the ids of the resources changed in the clouds
  exit         \* how the process ended: no (it runs), clean (exit 0),
               \* recovered (a panic on the main goroutine, exit 1),
               \* fatal (log.Fatalf) or crashed (a panic elsewhere)

selection == <<listed, items, filters>>
work      == <<launched, finished, touched>>
vars      == <<request, stage, prepared, selection, work, exit>>

-----------------------------------------------------------------------------
(* The command line *)

KindOf ==
  [getInstances |-> "instance", getStacks |-> "stack", getDatabases |-> "database",
   getDisks |-> "disk", getImages |-> "image", readImages |-> "image",
   getAccess |-> "access", getAlerts |-> "alert", getStorages |-> "storage"]

Reports == {"log", "json", "notification"}

\* The provider's call for each kind of item an action handles.
CallOf ==
  [termination |-> [instance |-> "TerminateInstances", stack |-> "TerminateStacks",
                    disk |-> "DeleteDisks", image |-> "DeleteImages",
                    alert |-> "DeleteAlerts"],
   cleanup     |-> [storage |-> "CleanupStorages"],
   stop        |-> [instance |-> "StopInstances", database |-> "StopDatabases"]]

Clouds ==
  IF request.clouds = {} THEN Providers ELSE Providers \cap request.clouds

\* main drops a name that no filter is registered under.
Selected == request.filters \cap request.registered

IsValid ==
  /\ request.op \in DOMAIN KindOf
  /\ request.action \in Reports \cup DOMAIN CallOf
  /\ Clouds # {}

-----------------------------------------------------------------------------
(* The resources a call may change *)

\* What a call on item i also changes.  GCP deletes the managed groups that a
\* terminated instance is named after; AWS sends an alarm's name to every
\* region that has alarms to delete.
TakesDown(call, i, j) ==
  \/ /\ call = "TerminateInstances" /\ i.cloud = "GCP"
     /\ j.kind = "instance" /\ j.cloud = "GCP"
     /\ j.group # "" /\ <<i.name, j.group>> \in StartsWith
  \/ /\ call = "DeleteAlerts" /\ i.cloud \in AwsClouds
     /\ j.kind = "alert" /\ j.cloud = i.cloud /\ j.name = i.name
     /\ \E k \in items : k.cloud = i.cloud /\ k.region = j.region

ItemsOf(c) == {i \in items : i.cloud = c}

\* All items of a run are of one kind, the kind of its operation.
Handles == KindOf[request.op] \in DOMAIN CallOf[request.action]
Call    == CallOf[request.action][KindOf[request.op]]

\* The resources a call of cloud c may change.
Reach(c) == ItemsOf(c) \cup {j \in Inventory : \E i \in ItemsOf(c) : TakesDown(Call, i, j)}

-----------------------------------------------------------------------------
Init ==
  /\ request \in Requests
  /\ stage = "parse"
  /\ prepared = {}
  /\ listed = {} /\ items = {} /\ filters = {}
  /\ launched = {} /\ finished = {} /\ touched = {}
  /\ exit = "no"

Running(s) == exit = "no" /\ stage = s

\* Mutant of Parse: names that no filter is registered under are kept.
ParseKeepsUnknown ==
  /\ Running("parse")
  /\ IsValid
  /\ filters' = request.filters
  /\ stage' = "collect"
  /\ UNCHANGED <<request, prepared, listed, items, work, exit>>

Parse ==
  /\ Running("parse")
  /\ IsValid
  /\ filters' = Selected
  /\ stage' = "collect"
  /\ UNCHANGED <<request, prepared, listed, items, work, exit>>

\* "Operation is not found", "Action is not found", "Cloud provider not found".
Reject ==
  /\ Running("parse")
  /\ ~IsValid
  /\ exit' = "recovered"
  /\ UNCHANGED <<request, stage, prepared, selection, work>>

-----------------------------------------------------------------------------
(* Operations[*op].Execute(clouds) *)

Listable ==
  {i \in Inventory :
     /\ i.kind = KindOf[request.op]
     /\ i.cloud \in Clouds
     /\ <<i.cloud, i.kind>> \notin Unlistable}

\* Mutant of Collect: the providers are prepared when the action asks for them.
CollectUnprepared ==
  /\ Running("collect")
  /\ request.op # "readImages"
  /\ \E found \in SUBSET Listable : listed' = found /\ items' = found
  /\ stage' = "filter"
  /\ UNCHANGED <<request, prepared, filters, work, exit>>

\* collect may lose what a cloud answered (Collect), and a cloud's getter
\* may lose a region: any part of the inventory may be returned.
Collect ==
  /\ Running("collect")
  /\ request.op # "readImages"
  /\ prepared' = Clouds
  /\ \E found \in SUBSET Listable : listed' = found /\ items' = found
  /\ stage' = "filter"
  /\ UNCHANGED <<request, filters, work, exit>>

\* A provider cannot build its clients: a panic on collect's goroutine.
CollectCrashes ==
  /\ Running("collect")
  /\ request.op # "readImages"
  /\ exit' = "crashed"
  /\ UNCHANGED <<request, stage, prepared, selection, work>>

\* Azure refuses a page of a scale set: the getter logs it, its pager has more
\* pages as before, and the getter asks again.  collect waits for the getter.
PageRefused ==
  /\ Running("collect")
  /\ request.op = "getInstances"
  /\ "AZURE" \in Clouds
  /\ prepared' = prepared \cup {"AZURE"}
  /\ stage' = "refused"
  /\ UNCHANGED <<request, selection, work, exit>>

AskAgain ==
  /\ Running("refused")
  /\ stage' = "collect"
  /\ UNCHANGED <<request, prepared, selection, work, exit>>

\* An image read from standard input is an id and a region.
AsRead(i) == [i EXCEPT !.name = "", !.labels = {}]

ReadImages ==
  /\ Running("collect")
  /\ request.op = "readImages"
  /\ \E found \in SUBSET {AsRead(i) : i \in {j \in Listable : j.cloud # "AWS_GOV"}} :
        listed' = found /\ items' = found
  /\ stage' = "filter"
  /\ UNCHANGED <<request, prepared, filters, work, exit>>

\* Standard input is a terminal, empty or not JSON.
ReadImagesPanics ==
  /\ Running("collect")
  /\ request.op = "readImages"
  /\ exit' = "recovered"
  /\ UNCHANGED <<request, stage, prepared, selection, work>>

-----------------------------------------------------------------------------
(* The filters, in the order of a map iteration *)

\* Mutant of ApplyFilter: the filters see what the operation returned, not
\* what the filters before them have kept.
ApplyFilterToListed(f) ==
  /\ Running("filter")
  /\ f \in filters
  /\ ~Fatal(f, items)
  /\ items' = Filtered(request, f, listed)
  /\ filters' = filters \ {f}
  /\ UNCHANGED <<request, stage, prepared, listed, work, exit>>

ApplyFilter(f) ==
  /\ Running("filter")
  /\ f \in filters
  /\ ~Fatal(f, items)
  /\ items' = Filtered(request, f, items)
  /\ filters' = filters \ {f}
  /\ UNCHANGED <<request, stage, prepared, listed, work, exit>>

FilterFails(f) ==
  /\ Running("filter")
  /\ f \in filters
  /\ Fatal(f, items)
  /\ exit' = "fatal"
  /\ UNCHANGED <<request, stage, prepared, selection, work>>

\* Mutant of Act: one filter is enough.
ActAfterOneFilter ==
  /\ Running("filter")
  /\ filters = {} \/ filters # Selected
  /\ stage' = "act"
  /\ UNCHANGED <<request, prepared, selection, work, exit>>

Act ==
  /\ Running("filter")
  /\ filters = {}
  /\ stage' = "act"
  /\ UNCHANGED <<request, prepared, selection, work, exit>>

-----------------------------------------------------------------------------
(* The actions that only report.  log and json name the account of every   *)
(* cloud, on the main goroutine; a dispatcher does so on its own, and only *)
(* when there are items.                                                   *)

Report ==
  /\ Running("act")
  /\ request.action \in Reports
  /\ exit' = "clean"
  /\ UNCHANGED <<request, stage, prepared, selection, work>>

ReportPanics ==
  /\ Running("act")
  /\ \/ request.action \in {"log", "json"} /\ exit' = "recovered"
     \/ request.action = "notification" /\ items # {} /\ exit' = "crashed"
  /\ ~(Clouds \subseteq prepared)
  /\ UNCHANGED <<request, stage, prepared, selection, work>>

-----------------------------------------------------------------------------
(* The actions that change the clouds *)

Changing == Running("act") /\ request.action \in DOMAIN CallOf

\* termination and cleanup start a goroutine for every cloud, stop for those
\* that have something to stop.
Targets ==
  IF request.action # "stop" THEN Clouds
  ELSE {c \in Clouds : Handles /\ ItemsOf(c) # {}}

\* The provider p() is an argument of the go statement: the loop evaluates
\* it before it starts the goroutine.
Launch(c) ==
  /\ Changing
  /\ c \in Targets \ launched
  /\ prepared' = prepared \cup {c}
  /\ launched' = launched \cup {c}
  /\ UNCHANGED <<request, stage, selection, finished, touched, exit>>

LaunchPanics(c) ==
  /\ Changing
  /\ c \in Targets \ launched
  /\ c \notin prepared
  /\ exit' = "recovered"
  /\ UNCHANGED <<request, stage, prepared, selection, work>>

InFlight(c) == Changing /\ c \in launched \ finished

\* Mutant of Idle: the goroutine returns before wg.Done is deferred.
IdleWithoutDone(c) ==
  /\ InFlight(c)
  /\ ItemsOf(c) = {}
  /\ UNCHANGED vars

\* The cloud has no items, and its goroutine nothing to do.
Idle(c) ==
  /\ InFlight(c)
  /\ ItemsOf(c) = {}
  /\ finished' = finished \cup {c}
  /\ UNCHANGED <<request, stage, prepared, selection, launched, touched, exit>>

\* "Operation on type %T is not allowed"
Refuse(c) ==
  /\ InFlight(c)
  /\ ItemsOf(c) # {}
  /\ ~Handles
  /\ exit' = "crashed"
  /\ UNCHANGED <<request, stage, prepared, selection, work>>

Calling(c) == InFlight(c) /\ ItemsOf(c) # {} /\ Handles

Effective(c) == IsEffective(c, Call, request.dryRun)

\* The call in progress changes one more resource.
Change(c) ==
  /\ Calling(c)
  /\ Effective(c)
  /\ \E i \in Reach(c) :
        /\ i.id \notin touched
        /\ touched' = touched \cup {i.id}
  /\ UNCHANGED <<request, stage, prepared, selection, launched, finished, exit>>

Untouched(c) == {i \in ItemsOf(c) : i.id \notin touched}

\* The call returns no error.
Return(c) ==
  /\ Calling(c)
  /\ AnswerIsFull(c, Call, request.dryRun) => Untouched(c) = {}
  /\ finished' = finished \cup {c}
  /\ UNCHANGED <<request, stage, prepared, selection, launched, touched, exit>>

\* The call returns errors, or panics itself: either way the goroutine
\* panics, and the process with the calls of the other clouds ends.
ReturnErrors(c) ==
  /\ Calling(c)
  /\ exit' = "crashed"
  /\ UNCHANGED <<request, stage, prepared, selection, work>>

\* Mutant of Finish: Execute does not wait for the goroutines it started.
FinishWithoutWait ==
  /\ Changing
  /\ Targets \subseteq launched
  /\ exit' = "clean"
  /\ UNCHANGED <<request, stage, prepared, selection, work>>

\* wg.Wait() returns and main with it.
Finish ==
  /\ Changing
  /\ Targets \subseteq finished
  /\ exit' = "clean"
  /\ UNCHANGED <<request, stage, prepared, selection, work>>

-----------------------------------------------------------------------------
Main ==
  \/ Parse \/ Reject
  \/ Collect \/ CollectCrashes \/ PageRefused \/ AskAgain
  \/ ReadImages \/ ReadImagesPanics
  \/ \E f \in FilterTypes : ApplyFilter(f) \/ FilterFails(f)
  \/ Act \/ Report \/ ReportPanics
  \/ \E c \in Providers : Launch(c) \/ LaunchPanics(c)
  \/ Finish

Goroutine(c) ==
  \/ Idle(c) \/ Refuse(c)
  \/ Change(c) \/ Return(c) \/ ReturnErrors(c)

Next == Main \/ \E c \in Providers : Goroutine(c)

Spec == Init /\ [][Next]_vars

\* The scheduler runs the main goroutine and those of the clouds; that a
\* provider's call of an action ends is assumed of the clouds' SDKs.  Nothing is
\* assumed of a page that is refused: it may be refused for ever.
FairSpec == Spec /\ WF_vars(Main) /\ \A c \in Providers : WF_vars(Goroutine(c))
-----------------------------------------------------------------------------
TypeOK ==
  /\ request \in Requests
  /\ stage \in {"parse", "collect", "refused", "filter", "act"}
  /\ prepared \subseteq Providers
  /\ listed \subseteq Inventory \cup {AsRead(i) : i \in Inventory}
  /\ items \subseteq listed
  /\ filters \subseteq FilterTypes
  /\ launched \subseteq Providers /\ finished \subseteq launched
  /\ touched \subseteq {i.id : i \in Inventory}
  /\ exit \in {"no", "clean", "recovered", "fatal", "crashed"}

KeptBy(fs, i) == \A f \in fs : Keeps(request, f, i)

\* Whatever order the map iteration gives the filters, what is left after
\* any of them is what each of these keeps on its own.
FiltersCompose ==
  stage \in {"filter", "act"} => items = {i \in listed : KeptBy(Selected \ filters, i)}

Found == {i \in listed : KeptBy(Selected, i)}

\* Only resources that the operation found and every registered filter keeps
\* are changed, and those the provider's call takes down with them.
TouchedWasSelected ==
  \A id \in touched :
    \E i \in Found :
      /\ i.cloud \in Clouds /\ i.kind = KindOf[request.op]
      /\ \/ i.id = id
         \/ \E j \in Inventory : j.id = id /\ TakesDown(Call, i, j)

\* When the process exits with 0 after an action that changes the clouds,
\* each selected item was changed, by a call that can be held to its answer.
CleanExitMeansHandled ==
  exit = "clean" /\ request.action \in {"termination", "cleanup"} /\ ~request.dryRun =>
    \A i \in Found : <<i.cloud, Call>> \notin MaySkip => i.id \in touched

\* The process only stops itself, with log.Fatalf or a recovered panic,
\* before it has changed anything.  readImages is the exception: it has
\* prepared no provider when the action's loop asks for them.
AbortBeforeAction ==
  exit \in {"fatal", "recovered"} /\ touched # {} => request.op = "readImages"

\* A run ends, whatever the clouds answer, unless the page of a scale set is
\* refused time and again while the operation is listing.
RunEnds == <>(exit # "no") \/ []<>(stage = "refused")

\* context.go: DryRun is a global flag to skip the concrete action.
DryRunChangesNothing == request.dryRun => touched = {}
=============================================================================
