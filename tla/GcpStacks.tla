----------------------------- MODULE GcpStacks ------------------------------
(***************************************************************************)
(* gcp.go: TerminateStacks.  The goroutine of a stack deletes its instances*)
(* and database, one goroutine each, and stops at the first that fails;    *)
(* when all are deleted it goes on with the IP addresses and, after the    *)
(* firewall and the subnets, the network.  Every failure is sent on the    *)
(* errChan of TerminateStacks, the outcome of each first-phase deletion on *)
(* the resultChan of the stack; both are unbuffered.                       *)
(*                                                                         *)
(* A send and its receive are one step, and a goroutine's deferred wg.Done *)
(* is part of its last step.  The calls that are polled (doAndPoll...) are *)
(* one step that ends when the operation is DONE; the deletion of an       *)
(* address is only asked for, and what becomes of it nobody looks at.      *)
(***************************************************************************)
EXTENDS FiniteSets

CONSTANTS
  Stacks,
  Parts,      \* what the stacks consist of
  Kind,       \* per part: instance, database, ip, firewall, subnet or network
  StackOf     \* per part, its stack

Networks  == {r \in Parts : Kind[r] = "network"}
Firewalls == {r \in Parts : Kind[r] = "firewall"}

\* The goroutine that deletes a stack's network always deletes a firewall,
\* by an empty name when the stack has none.
ASSUME GcpStacksAssumption ==
  /\ StackOf \in [Parts -> Stacks]
  /\ Kind \in [Parts -> {"instance", "database", "ip", "firewall", "subnet", "network"}]
  /\ \A s \in Stacks :
       /\ \A n, m \in Networks : StackOf[n] = s /\ StackOf[m] = s => n = m
       /\ \A r \in Parts : Kind[r] \in {"firewall", "subnet"} =>
            \E n \in Networks : StackOf[n] = StackOf[r]
  /\ \A n \in Networks : \E f \in Firewalls : StackOf[f] = StackOf[n]

VARIABLES
  dryRun,
  pc,           \* per stack, where its goroutine is
  part,         \* per part, where its goroutine is
  succeeded,    \* the parts whose deletion was polled until DONE without an error
  requested,    \* the addresses whose deletion the cloud has accepted
  failed,       \* the parts whose deletion failed, or was not accepted
  errs,         \* the parts whose error TerminateStacks has received
  errsClosed,   \* its errChan is closed
  returned,
  crashed       \* a goroutine panicked: the process is gone

answer == <<errs, errsClosed, returned>>
vars   == <<dryRun, pc, part, succeeded, requested, failed, answer, crashed>>

PartsOf(s)      == {r \in Parts : StackOf[r] = s}
FirstPhase(s)   == {r \in PartsOf(s) : Kind[r] \in {"instance", "database"}}
BeforeNetwork(s) == {r \in PartsOf(s) : Kind[r] \in {"firewall", "subnet"}}

Init ==
  /\ dryRun \in BOOLEAN
  /\ pc = [s \in Stacks |-> "start"]
  /\ part = [r \in Parts |-> "idle"]
  /\ succeeded = {} /\ requested = {} /\ failed = {}
  /\ errs = {} /\ errsClosed = FALSE /\ returned = FALSE
  /\ crashed = FALSE

At(s, place)     == ~crashed /\ pc[s] = place
PartAt(r, place) == ~crashed /\ part[r] = place

Goto(s, place)     == pc' = [pc EXCEPT ![s] = place]
PartGoto(r, place) == part' = [part EXCEPT ![r] = place]

StartAll(rs) == part' = [r \in Parts |-> IF r \in rs THEN "delete" ELSE part[r]]

-----------------------------------------------------------------------------
(* The goroutine of a stack *)

\* Mutant of SkipOnDryRun: the goroutine returns before wg.Done is deferred.
SkipOnDryRunWithoutDone(s) ==
  /\ At(s, "start") /\ dryRun
  /\ UNCHANGED vars

SkipOnDryRun(s) ==
  /\ At(s, "start") /\ dryRun
  /\ Goto(s, "done")
  /\ UNCHANGED <<dryRun, part, succeeded, requested, failed, answer, crashed>>

\* terminateInstancesAndDbInStack starts its goroutines.
Start(s) ==
  /\ At(s, "start") /\ ~dryRun
  /\ Goto(s, "results")
  /\ StartAll(FirstPhase(s))
  /\ UNCHANGED <<dryRun, succeeded, requested, failed, answer, crashed>>

\* Mutant of FirstPhaseEnds: the result of a failed deletion is not waited for.
FirstPhaseEndsEarly(s) ==
  /\ At(s, "results")
  /\ \A r \in FirstPhase(s) : part[r] \in {"result", "done"}
  /\ Goto(s, "network")
  /\ StartAll({r \in PartsOf(s) : Kind[r] \in {"ip", "firewall", "subnet"}})
  /\ UNCHANGED <<dryRun, succeeded, requested, failed, answer, crashed>>

\* resultChan is closed, every result was true, and
\* terminateNetworkRelatedResourcesInStack starts its goroutines.
FirstPhaseEnds(s) ==
  /\ At(s, "results")
  /\ \A r \in FirstPhase(s) : part[r] = "done"
  /\ Goto(s, "network")
  /\ StartAll({r \in PartsOf(s) : Kind[r] \in {"ip", "firewall", "subnet"}})
  /\ UNCHANGED <<dryRun, succeeded, requested, failed, answer, crashed>>

\* Mutant of DeleteNetwork: it does not wait for the firewall and the subnets.
DeleteNetworkAtOnce(n) ==
  /\ At(StackOf[n], "network") /\ PartAt(n, "idle")
  /\ PartGoto(n, "delete")
  /\ UNCHANGED <<dryRun, pc, succeeded, requested, failed, answer, crashed>>

\* preNetworkWg.Wait(), whether or not the deletions before it succeeded.
DeleteNetwork(n) ==
  /\ At(StackOf[n], "network") /\ PartAt(n, "idle")
  /\ \A r \in BeforeNetwork(StackOf[n]) : part[r] = "done"
  /\ PartGoto(n, "delete")
  /\ UNCHANGED <<dryRun, pc, succeeded, requested, failed, answer, crashed>>

\* Mutant of StackEnds: the stack waits for its addresses only.
StackEndsWithoutNetwork(s) ==
  /\ At(s, "network")
  /\ \A r \in PartsOf(s) : Kind[r] = "ip" => part[r] = "done"
  /\ Goto(s, "done")
  /\ UNCHANGED <<dryRun, part, succeeded, requested, failed, answer, crashed>>

StackEnds(s) ==
  /\ At(s, "network")
  /\ \A r \in PartsOf(s) : part[r] = "done"
  /\ Goto(s, "done")
  /\ UNCHANGED <<dryRun, part, succeeded, requested, failed, answer, crashed>>

-----------------------------------------------------------------------------
(* The goroutine of a part *)

IsFirstPhase(r) == r \in FirstPhase(StackOf[r])

\* Mutant of Delete: the nil error of a success is sent too.
DeleteSendsNil(r) ==
  /\ PartAt(r, "delete") /\ Kind[r] # "ip"
  /\ succeeded' = succeeded \cup {r}
  /\ PartGoto(r, "error")
  /\ UNCHANGED <<dryRun, pc, requested, failed, answer, crashed>>

Delete(r) ==
  /\ PartAt(r, "delete") /\ Kind[r] # "ip"
  /\ succeeded' = succeeded \cup {r}
  /\ PartGoto(r, IF IsFirstPhase(r) THEN "result" ELSE "done")
  /\ UNCHANGED <<dryRun, pc, requested, failed, answer, crashed>>

\* Addresses.Delete(...).Do(), which is not polled.
RequestAddress(r) ==
  /\ PartAt(r, "delete") /\ Kind[r] = "ip"
  /\ requested' = requested \cup {r}
  /\ PartGoto(r, "done")
  /\ UNCHANGED <<dryRun, pc, succeeded, failed, answer, crashed>>

\* Mutant of DeleteFails: the error is logged but not sent.
DeleteFailsQuietly(r) ==
  /\ PartAt(r, "delete")
  /\ failed' = failed \cup {r}
  /\ PartGoto(r, IF IsFirstPhase(r) THEN "result" ELSE "done")
  /\ UNCHANGED <<dryRun, pc, succeeded, requested, answer, crashed>>

DeleteFails(r) ==
  /\ PartAt(r, "delete")
  /\ failed' = failed \cup {r}
  /\ PartGoto(r, "error")
  /\ UNCHANGED <<dryRun, pc, succeeded, requested, answer, crashed>>

\* errChan <- err meets the range of TerminateStacks.
SendError(r) ==
  /\ PartAt(r, "error")
  /\ ~errsClosed
  /\ errs' = errs \cup {r}
  /\ PartGoto(r, IF IsFirstPhase(r) THEN "result" ELSE "done")
  /\ UNCHANGED <<dryRun, pc, succeeded, requested, failed, errsClosed, returned, crashed>>

\* The goroutines that the first failure has left behind outlive
\* TerminateStacks: its errChan may be closed when they send.
SendErrorOnClosed(r) ==
  /\ PartAt(r, "error")
  /\ errsClosed
  /\ crashed' = TRUE
  /\ UNCHANGED <<dryRun, pc, part, succeeded, requested, failed, answer>>

\* resultChan <- true
SendSuccess(r) ==
  /\ PartAt(r, "result") /\ r \notin failed
  /\ pc[StackOf[r]] = "results"
  /\ PartGoto(r, "done")
  /\ UNCHANGED <<dryRun, pc, succeeded, requested, failed, answer, crashed>>

\* resultChan <- false: terminateInstancesAndDbInStack returns, nobody
\* receives on the channel any more, and the stack is done.
SendFailure(r) ==
  /\ PartAt(r, "result") /\ r \in failed
  /\ pc[StackOf[r]] = "results"
  /\ PartGoto(r, "done")
  /\ Goto(StackOf[r], "done")
  /\ UNCHANGED <<dryRun, succeeded, requested, failed, answer, crashed>>

-----------------------------------------------------------------------------
(* TerminateStacks *)

\* Mutant of CloseErrors: the closing goroutine does not wait.
CloseErrorsWithoutWait ==
  /\ ~crashed /\ ~errsClosed
  /\ errsClosed' = TRUE
  /\ UNCHANGED <<dryRun, pc, part, succeeded, requested, failed, errs, returned, crashed>>

CloseErrors ==
  /\ ~crashed /\ ~errsClosed
  /\ \A s \in Stacks : pc[s] = "done"
  /\ errsClosed' = TRUE
  /\ UNCHANGED <<dryRun, pc, part, succeeded, requested, failed, errs, returned, crashed>>

Return ==
  /\ ~crashed /\ errsClosed /\ ~returned
  /\ returned' = TRUE
  /\ UNCHANGED <<dryRun, pc, part, succeeded, requested, failed, errs, errsClosed, crashed>>

-----------------------------------------------------------------------------
StackStep(s) == SkipOnDryRun(s) \/ Start(s) \/ FirstPhaseEnds(s) \/ StackEnds(s)

PartStep(r) ==
  \/ Delete(r) \/ RequestAddress(r) \/ DeleteFails(r)
  \/ SendError(r) \/ SendErrorOnClosed(r)
  \/ SendSuccess(r) \/ SendFailure(r)

Caller == CloseErrors \/ Return

Next ==
  \/ \E s \in Stacks : StackStep(s)
  \/ \E n \in Networks : DeleteNetwork(n)
  \/ \E r \in Parts : PartStep(r)
  \/ Caller

Spec == Init /\ [][Next]_vars

\* The scheduler runs every goroutine that can take a step; that every
\* operation the code polls becomes DONE is assumed of the cloud.
FairSpec ==
  /\ Spec
  /\ \A s \in Stacks : WF_vars(StackStep(s))
  /\ \A n \in Networks : WF_vars(DeleteNetwork(n))
  /\ \A r \in Parts : WF_vars(PartStep(r))
  /\ WF_vars(Caller)

-----------------------------------------------------------------------------
TypeOK ==
  /\ dryRun \in BOOLEAN
  /\ pc \in [Stacks -> {"start", "results", "network", "done"}]
  /\ part \in [Parts -> {"idle", "delete", "error", "result", "done"}]
  /\ succeeded \subseteq Parts /\ requested \subseteq Parts /\ failed \subseteq Parts
  /\ errs \subseteq failed
  /\ errsClosed \in BOOLEAN /\ returned \in BOOLEAN /\ crashed \in BOOLEAN

\* The addresses and the network of a stack are not touched before all of
\* its instances and its database are really deleted.
NetworkAfterInstances ==
  \A r \in Parts : ~IsFirstPhase(r) /\ part[r] # "idle" =>
    FirstPhase(StackOf[r]) \subseteq succeeded

\* The deletion of a network starts after those of its firewall and subnets
\* have ended, one way or the other.
NetworkLast ==
  \A n \in Networks : part[n] # "idle" =>
    BeforeNetwork(StackOf[n]) \subseteq succeeded \cup failed

\* A return without errors outside a dry run: everything but the addresses is
\* deleted, of each address the deletion is asked for (whether it succeeds the
\* return does not say), and no goroutine is left waiting on a channel nobody
\* receives from.
CleanReturnIsComplete ==
  returned /\ errs = {} /\ ~dryRun =>
    \A r \in Parts :
      /\ r \in IF Kind[r] = "ip" THEN requested ELSE succeeded
      /\ part[r] = "done"

\* Once TerminateStacks has returned every failure is in its answer, but
\* for those of the first phase that came after the stack had given up.
LateFailuresOnly ==
  returned => \A r \in failed \ errs :
    /\ IsFirstPhase(r)
    /\ \E q \in FirstPhase(StackOf[r]) : q # r /\ q \in errs

FailedStacks(rs) == {StackOf[r] : r \in rs}

\* A stack has failed from its first failed deletion on, reported or not.
Outcome(s) ==
  IF s \in FailedStacks(failed) THEN "failed" ELSE IF pc[s] = "done" THEN "ok" ELSE "pending"

Abstract ==
  INSTANCE StackTermination WITH
    unreadable <- {},
    outcome <- [s \in Stacks |-> Outcome(s)],
    status  <- IF crashed THEN "crashed" ELSE IF returned THEN "returned" ELSE "running",
    errors  <- IF returned THEN FailedStacks(errs) ELSE {}

\* TerminateStacks reports exactly the stacks with a failure it could see, once
\* it has given up on or finished each, and only crashes after such a failure.
ImplementsStackTermination == Abstract!Spec

AbstractCall ==
  INSTANCE ProviderCall WITH
    cloud    <- "GCP",
    call     <- "TerminateStacks",
    selected <- Parts,
    reach    <- Parts,
    changed  <- succeeded \cup requested,
    failing  <- errs # {}

\* To the action that waits for it, TerminateStacks behaves as ProviderCall
\* says: only after a return with errors is anything still being deleted.
ImplementsProviderCall == AbstractCall!Spec

\* TerminateStacks returns, or its process dies.
CallEnds == <>(returned \/ crashed)
=============================================================================
