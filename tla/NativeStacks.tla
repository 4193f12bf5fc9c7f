---------------------------- MODULE NativeStacks ----------------------------
(***************************************************************************)
(* aws.go: deleteStacks, which starts one goroutine per stack;             *)
(* deleteNativeStack, which terminates the stack's instances and then      *)
(* deletes its other resources, one goroutine each; and deleteCfStack,     *)
(* which prepares the resources of a CloudFormation stack that would stand *)
(* in the way of its deletion, has it deleted, and waits.                  *)
(*                                                                         *)
(* Both levels have an unbuffered errChan, a WaitGroup and a goroutine that*)
(* closes the channel when the WaitGroup is empty.  A send and its receive *)
(* are one step.                                                           *)
(***************************************************************************)
EXTENDS FiniteSets

CONSTANTS
  Stacks,
  Parts,           \* the resources of the native stacks, beside their instances:
                   \* a volume, security group, load balancer or elastic IP each,
                   \* and the alarms of a stack together
  Resources,       \* the databases, load balancers and VPCs of the other stacks
  StackOf,         \* per part and resource, its stack
  LoadBalancers, Vpcs,
  Inputs           \* what the stacks and resources may be like: see Init

ASSUME NativeStacksAssumption ==
  /\ StackOf \in [Parts \cup Resources -> Stacks]
  /\ LoadBalancers \subseteq Parts \cup Resources /\ Vpcs \subseteq Resources
  /\ Inputs \subseteq [type : [Stacks -> {"native", "cf", "other"}],
                      missing : SUBSET Resources, unnamed : SUBSET Resources,
                      inFailure : SUBSET Stacks]
  /\ \A i \in Inputs : \A r \in Parts : i.type[StackOf[r]] = "native"

VARIABLES
  dryRun,
  type,         \* per stack, its METADATA_TYPE
  missing,      \* the resources that are not there any more
  unnamed,      \* the resources that have no PhysicalResourceId: none was created
  inFailure,    \* the stacks that were listed with the state Failed
  pc,           \* per stack, where its goroutine is
  part,         \* per part, where its goroutine is
  pending,      \* the resources that deleteCfStack's loops have before them
  retained,     \* retainResources
  closed,       \* the stacks whose inner errChan is closed
  closer,       \* the stacks whose closing goroutine has ended
  outerClosed,  \* deleteStacks' errChan is closed
  errs,         \* the stacks whose error deleteStacks has received
  returned,     \* deleteStacks has returned
  crashed,      \* a goroutine panicked: the process is gone
  terminated,   \* the stacks whose instances are terminated
  gone,         \* the stacks and parts that are deleted
  failed        \* the stacks of which a call failed

outer == <<outerClosed, errs, returned>>
cloud == <<terminated, gone, failed>>
input == <<dryRun, type, missing, unnamed, inFailure>>
cf    == <<pending, retained>>
vars  == <<input, cf, pc, part, closed, closer, outer, crashed, cloud>>

PartsOf(s)     == {r \in Parts : StackOf[r] = s}
ResourcesOf(s) == {r \in Resources : StackOf[r] = s}

Input ==
  /\ dryRun \in BOOLEAN
  /\ \E i \in Inputs :
       /\ type = i.type /\ inFailure = i.inFailure
       /\ missing = i.missing /\ unnamed = i.unnamed

Init ==
  /\ Input
  /\ pending = Resources /\ retained = {}
  /\ pc = [s \in Stacks |-> "start"]
  /\ part = [r \in Parts |-> "idle"]
  /\ closed = {} /\ closer = {}
  /\ outerClosed = FALSE /\ errs = {} /\ returned = FALSE
  /\ crashed = FALSE
  /\ terminated = {} /\ gone = {} /\ failed = {}

At(s, place)     == ~crashed /\ pc[s] = place
PartAt(r, place) == ~crashed /\ part[r] = place

Goto(s, place)     == pc' = [pc EXCEPT ![s] = place]
PartGoto(r, place) == part' = [part EXCEPT ![r] = place]

-----------------------------------------------------------------------------
(* The goroutine of a stack, up to its fan-out *)

FirstCall == [native |-> "terminate", cf |-> "describe"]

Start(s) ==
  /\ At(s, "start")
  /\ ~dryRun /\ type[s] \in DOMAIN FirstCall
  /\ Goto(s, FirstCall[type[s]])
  /\ UNCHANGED <<input, cf, part, closed, closer, outer, crashed, cloud>>

SkipOnDryRun(s) ==
  /\ At(s, "start")
  /\ dryRun
  /\ Goto(s, "done")
  /\ UNCHANGED <<input, cf, part, closed, closer, outer, crashed, cloud>>

\* "Stack type %s ... delete is not implemented"
NotImplemented(s) ==
  /\ At(s, "start")
  /\ ~dryRun /\ type[s] \notin DOMAIN FirstCall
  /\ Goto(s, "report")
  /\ failed' = failed \cup {s}
  /\ UNCHANGED <<input, cf, part, closed, closer, outer, crashed, terminated, gone>>

\* deleteCfStack's loop has been through the resources.
AllPrepared(s) == ResourcesOf(s) \cap pending = {}

\* One goroutine per part; a load balancer's first lifts its protection.
StartParts(s) ==
  part' = [r \in Parts |->
             IF StackOf[r] # s THEN part[r]
             ELSE IF r \in LoadBalancers THEN "unprotect" ELSE "delete"]

\* Mutant of TerminateInstances: the resources are deleted without the wait.
TerminateWithoutWait(s) ==
  /\ At(s, "terminate")
  /\ Goto(s, "range")
  /\ StartParts(s)
  /\ UNCHANGED <<input, cf, closed, closer, outer, crashed, cloud>>

TerminateInstances(s) ==
  /\ At(s, "terminate")
  /\ Goto(s, "wait")
  /\ UNCHANGED <<input, cf, part, closed, closer, outer, crashed, cloud>>

WaitUntilTerminated(s) ==
  /\ At(s, "wait")
  /\ Goto(s, "range")
  /\ terminated' = terminated \cup {s}
  /\ StartParts(s)
  /\ UNCHANGED <<input, cf, closed, closer, outer, crashed, gone, failed>>

\* A call of the stack's own goroutine fails: it has an error to report.
StackCallFails(s) ==
  /\ \/ At(s, "describe") \/ At(s, "terminate") \/ At(s, "wait")
     \/ At(s, "resources") /\ AllPrepared(s)
  /\ Goto(s, "report")
  /\ failed' = failed \cup {s}
  /\ UNCHANGED <<input, cf, part, closed, closer, outer, crashed, terminated, gone>>

-----------------------------------------------------------------------------
(* deleteCfStack *)

DescribeStackResources(s) ==
  /\ At(s, "describe")
  /\ Goto(s, "resources")
  /\ UNCHANGED <<input, cf, part, closed, closer, outer, crashed, cloud>>

NextResource(s, r) ==
  /\ At(s, "resources") /\ r \in pending /\ StackOf[r] = s
  /\ pending' = pending \ {r}
  /\ UNCHANGED <<input, pc, part, closed, closer, outer, crashed, terminated, failed>>

\* Of a database or load balancer that CloudFormation has not deleted before,
\* and of every VPC, the loop reads *stackResource.PhysicalResourceId, which is
\* nil when there is none.
NoPhysicalId(s, r) ==
  /\ At(s, "resources") /\ r \in pending \cap unnamed /\ StackOf[r] = s
  /\ crashed' = TRUE
  /\ UNCHANGED <<input, cf, pc, part, closed, closer, outer, cloud>>

\* A database whose protection is lifted, a resource that CloudFormation has
\* deleted before, or a call that fails, which is logged and no more.
PassResource(s, r) ==
  /\ NextResource(s, r)
  /\ r \notin Vpcs \cap unnamed
  /\ UNCHANGED <<retained, gone>>

\* Mutant of RetainMissing: the call that lifts the protection succeeds.
RetainPresent(s, r) ==
  /\ NextResource(s, r)
  /\ r \notin Vpcs \cup unnamed
  /\ retained' = retained \cup {r}
  /\ UNCHANGED gone

\* "DB instance not found", "ELB not found"
RetainMissing(s, r) ==
  /\ NextResource(s, r)
  /\ r \in missing \ (Vpcs \cup unnamed)
  /\ retained' = retained \cup {r}
  /\ UNCHANGED gone

\* A VPC goes with all that depends on it.
DeleteResource(s, r) ==
  /\ NextResource(s, r)
  /\ r \in (Vpcs \cup (LoadBalancers \ missing)) \ unnamed
  /\ gone' = gone \cup {r}
  /\ UNCHANGED retained

DeleteStack(s) ==
  /\ At(s, "resources") /\ AllPrepared(s)
  /\ Goto(s, "deleting")
  /\ UNCHANGED <<input, cf, part, closed, closer, outer, crashed, cloud>>

\* CloudFormation leaves what the request says it should retain.
WaitUntilStackDeleteComplete(s) ==
  /\ At(s, "deleting")
  /\ Goto(s, "done")
  /\ gone' = gone \cup {s} \cup (ResourcesOf(s) \ IF s \in inFailure THEN retained ELSE {})
  /\ UNCHANGED <<input, cf, part, closed, closer, outer, crashed, terminated, failed>>

WaitFails(s) ==
  /\ At(s, "deleting")
  /\ Goto(s, "status")
  /\ failed' = failed \cup {s}
  /\ UNCHANGED <<input, cf, part, closed, closer, outer, crashed, terminated, gone>>

DescribeStacks(s) ==
  /\ At(s, "status")
  /\ Goto(s, "report")
  /\ UNCHANGED <<input, cf, part, closed, closer, outer, crashed, cloud>>

\* The error message reads *cfStack.StackStatusReason, which may be nil.
NoStatusReason(s) ==
  /\ At(s, "status")
  /\ crashed' = TRUE
  /\ UNCHANGED <<input, cf, pc, part, closed, closer, outer, cloud>>

-----------------------------------------------------------------------------
(* The goroutine of a part *)

\* disableElbDeleteProtection succeeds.
Unprotect(r) ==
  /\ PartAt(r, "unprotect")
  /\ PartGoto(r, "delete")
  /\ UNCHANGED <<input, cf, pc, closed, closer, outer, crashed, cloud>>

\* Mutant of NotFound: the goroutine returns before wg.Done is deferred.
NotFoundWithoutDone(r) ==
  /\ PartAt(r, "unprotect")
  /\ PartGoto(r, "idle")
  /\ gone' = gone \cup {r}
  /\ UNCHANGED <<input, cf, pc, closed, closer, outer, crashed, terminated, failed>>

\* "ELB not found": there is nothing to delete.
NotFound(r) ==
  /\ PartAt(r, "unprotect")
  /\ PartGoto(r, "done")
  /\ gone' = gone \cup {r}
  /\ UNCHANGED <<input, cf, pc, closed, closer, outer, crashed, terminated, failed>>

DeletePart(r) ==
  /\ PartAt(r, "delete")
  /\ PartGoto(r, "done")
  /\ gone' = gone \cup {r}
  /\ UNCHANGED <<input, cf, pc, closed, closer, outer, crashed, terminated, failed>>

PartFails(r) ==
  /\ PartAt(r, "unprotect") \/ PartAt(r, "delete")
  /\ PartGoto(r, "send")
  /\ failed' = failed \cup {StackOf[r]}
  /\ UNCHANGED <<input, cf, pc, closed, closer, outer, crashed, terminated, gone>>

\* errChan <- err meets the range of deleteNativeStack, which takes the
\* first error only.
SendPartError(r) ==
  /\ PartAt(r, "send")
  /\ pc[StackOf[r]] = "range" /\ StackOf[r] \notin closed
  /\ PartGoto(r, "done")
  /\ Goto(StackOf[r], "close")
  /\ UNCHANGED <<input, cf, closed, closer, outer, crashed, cloud>>

\* A send on a closed channel panics, also one that was blocked before.
SendOnClosed(r) ==
  /\ PartAt(r, "send")
  /\ StackOf[r] \in closed
  /\ crashed' = TRUE
  /\ UNCHANGED <<input, cf, pc, part, closed, closer, outer, cloud>>

-----------------------------------------------------------------------------
(* The end of deleteNativeStack *)

AllPartsDone(s) == \A r \in PartsOf(s) : part[r] = "done"

\* wg.Wait(); close(errChan): a second close of a channel panics.
CloseWhenDone(s) ==
  /\ ~crashed
  /\ s \in terminated \ closer
  /\ AllPartsDone(s)
  /\ closed' = closed \cup {s}
  /\ closer' = closer \cup {s}
  /\ crashed' = (s \in closed)
  /\ UNCHANGED <<input, cf, pc, part, outer, cloud>>

\* Mutant of CloseOnError: the error is returned and the channel left open.
LeaveOpenOnError(s) ==
  /\ At(s, "close")
  /\ Goto(s, "report")
  /\ UNCHANGED <<input, cf, part, closed, closer, outer, crashed, cloud>>

\* close(errChan); return err
CloseOnError(s) ==
  /\ At(s, "close")
  /\ closed' = closed \cup {s}
  /\ crashed' = (s \in closed)
  /\ Goto(s, "report")
  /\ UNCHANGED <<input, cf, part, closer, outer, cloud>>

RangeEnds(s) ==
  /\ At(s, "range")
  /\ s \in closed
  /\ Goto(s, "done")
  /\ UNCHANGED <<input, cf, part, closed, closer, outer, crashed, cloud>>

-----------------------------------------------------------------------------
(* deleteStacks *)

\* The stack's error meets the range of deleteStacks.
Report(s) ==
  /\ At(s, "report")
  /\ ~outerClosed
  /\ errs' = errs \cup {s}
  /\ Goto(s, "done")
  /\ UNCHANGED <<input, cf, part, closed, closer, outerClosed, returned, crashed, cloud>>

AllStacksDone == \A s \in Stacks : pc[s] = "done"

\* Mutant of CloseOuter: the closing goroutine does not wait.
CloseOuterWithoutWait ==
  /\ ~crashed /\ ~outerClosed
  /\ outerClosed' = TRUE
  /\ UNCHANGED <<input, cf, pc, part, closed, closer, errs, returned, crashed, cloud>>

CloseOuter ==
  /\ ~crashed /\ ~outerClosed
  /\ AllStacksDone
  /\ outerClosed' = TRUE
  /\ UNCHANGED <<input, cf, pc, part, closed, closer, errs, returned, crashed, cloud>>

Return ==
  /\ ~crashed /\ outerClosed /\ ~returned
  /\ returned' = TRUE
  /\ UNCHANGED <<input, cf, pc, part, closed, closer, outerClosed, errs, crashed, cloud>>

-----------------------------------------------------------------------------
CfStackStep(s) ==
  \/ DescribeStackResources(s) \/ DeleteStack(s) \/ WaitUntilStackDeleteComplete(s)
  \/ WaitFails(s) \/ DescribeStacks(s) \/ NoStatusReason(s)
  \/ \E r \in pending :
       NoPhysicalId(s, r) \/ PassResource(s, r) \/ RetainMissing(s, r) \/ DeleteResource(s, r)

StackStep(s) ==
  \/ Start(s) \/ SkipOnDryRun(s) \/ NotImplemented(s)
  \/ TerminateInstances(s) \/ WaitUntilTerminated(s)
  \/ StackCallFails(s) \/ CfStackStep(s)
  \/ CloseOnError(s) \/ RangeEnds(s) \/ Report(s)

PartStep(r) ==
  \/ Unprotect(r) \/ NotFound(r) \/ DeletePart(r) \/ PartFails(r)
  \/ SendPartError(r) \/ SendOnClosed(r)

Caller == CloseOuter \/ Return

Next ==
  \/ \E s \in Stacks : StackStep(s) \/ CloseWhenDone(s)
  \/ \E r \in Parts : PartStep(r)
  \/ Caller

Spec == Init /\ [][Next]_vars

\* The scheduler runs every goroutine that can take a step; that each call
\* of the SDK ends is assumed, WaitUntilInstanceTerminated with a timeout.
FairSpec ==
  /\ Spec
  /\ \A s \in Stacks : WF_vars(StackStep(s)) /\ WF_vars(CloseWhenDone(s))
  /\ \A r \in Parts : WF_vars(PartStep(r))
  /\ WF_vars(Caller)
-----------------------------------------------------------------------------
TypeOK ==
  /\ Input
  /\ pending \subseteq Resources /\ retained \subseteq missing
  /\ pc \in [Stacks -> {"start", "terminate", "wait", "describe", "resources", "deleting",
                        "status", "range", "close", "report", "done"}]
  /\ part \in [Parts -> {"idle", "unprotect", "delete", "send", "done"}]
  /\ closer \subseteq closed /\ closed \subseteq terminated
  /\ outerClosed \in BOOLEAN /\ returned \in BOOLEAN /\ crashed \in BOOLEAN
  /\ errs \subseteq failed
  /\ terminated \subseteq Stacks /\ failed \subseteq Stacks
  /\ gone \subseteq Stacks \cup Parts \cup Resources

Deleted(s) ==
  CASE type[s] = "native" -> s \in terminated /\ PartsOf(s) \subseteq gone
    [] type[s] = "cf"     -> s \in gone /\ ResourcesOf(s) \subseteq gone \cup missing
    [] OTHER              -> FALSE

\* No volume, security group, load balancer, address or alarm of a native stack
\* is touched before all its instances are really terminated.
PartsAfterInstances ==
  \A r \in Parts : part[r] # "idle" => StackOf[r] \in terminated

\* When TerminateStacks returns without an error outside a dry run, every
\* stack is deleted with all its parts and resources, whatever failed on the
\* way without being reported, and no goroutine that could still send is left.
CleanReturnMeansDeleted ==
  returned /\ errs = {} /\ ~dryRun =>
    \A s \in Stacks : Deleted(s) /\ \A r \in PartsOf(s) : part[r] = "done"

Outcome(s) ==
  IF s \in failed THEN "failed" ELSE IF pc[s] = "done" THEN "ok" ELSE "pending"

\* The stacks of which deleteCfStack may find a resource without an id.
Unreadable ==
  {s \in Stacks : ~dryRun /\ type[s] = "cf" /\ ResourcesOf(s) \cap unnamed # {}}

Abstract ==
  INSTANCE StackTermination WITH
    unreadable <- Unreadable,
    outcome <- [s \in Stacks |-> Outcome(s)],
    status  <- IF crashed THEN "crashed" ELSE IF returned THEN "returned" ELSE "running",
    errors  <- IF returned THEN errs ELSE {}

\* deleteStacks reports exactly the stacks with a failure, once all of them
\* have ended, and only crashes after a call has failed or while it prepares
\* the resources of a CloudFormation stack that has one without an id.
ImplementsStackTermination == Abstract!Spec

\* The stacks with their parts and, for CloudFormation, the resources it has.
Whole == Stacks \cup Parts \cup {r \in Resources \ missing : type[StackOf[r]] = "cf"}

AbstractCall ==
  INSTANCE ProviderCall WITH
    cloud    <- "AWS",
    call     <- "TerminateStacks",
    selected <- Whole,
    reach    <- Stacks \cup Parts \cup Resources,
    changed  <- terminated \cup gone,
    failing  <- errs # {}

\* To the action that waits for it, TerminateStacks behaves as ProviderCall
\* says: only after a return with errors is anything still being deleted.
ImplementsProviderCall == AbstractCall!Spec

\* deleteStacks returns, or its process dies: no goroutine of it blocks for
\* ever on a channel or on a WaitGroup that does not become empty.
CallEnds == <>(returned \/ crashed)

\* Once the deletion of one part has failed the process dies: the failing
\* stack closes errChan, and whoever sends on it or closes it next panics.
PartFailureIsFatal == \A r \in Parts : part[r] = "send" ~> crashed
=============================================================================
