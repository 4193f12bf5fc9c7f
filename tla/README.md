# Cloud Haunter: models and proofs

Cloud Haunter lists resources of AWS, AWS GovCloud, Azure and GCP accounts, filters them and
logs, reports, stops, cleans up or terminates what is left. It is a short-lived command line
program that keeps nothing between runs; what is hard about it is that nearly everything runs in
goroutines that meet on channels and WaitGroups, that any of many remote calls may fail, and
that its effects cannot be taken back.

The directory holds TLA+ modules translated from the Go code, TLC configurations that check them
on small instances, and proofs that TLAPS checks for every instance. `PROJECT.json` lists the
components, the runs, the definitions with the lines they model, the hazards, the disagreements
between code and documentation, and the theorems.

## 1. Inventory

| component | state | operations | interacts with |
|---|---|---|---|
| `main.go`, `context/` | registries of operations, filters, actions and clouds; flags | select, chain, recover | all |
| `operation/common.go` | two channels, a WaitGroup, the collected items | `collect`, `wait` | one goroutine per cloud, which builds the provider |
| `operation/*.go` | none | `Execute` of nine operations; `readImages` reads standard input | `collect` |
| `filter/*.go`, `types/filter_config*.go`, `utils/` | the periods, the configuration | nine filters, `isFilterMatch`, two `GetFilterValues` | the items |
| `action/termination.go`, `stop.go`, `cleanup.go` | a WaitGroup | `Execute`: a goroutine and a provider call per cloud; panic on errors | providers |
| `action/log.go`, `json.go`, `notification.go`, `slack/`, `hipchat/` | none | reports | account names of all providers |
| `aws/aws.go` | clients per region, built on first use | listing; terminate, stop, stacks, volumes, images, alarms | fan-out per region or stack |
| `gcp/gcp.go` | clients, built on first use | the same kinds, managed groups, stacks in two phases | fan-out per resource |
| `azure/azure.go` | clients | the same kinds, resource groups, scale sets, storage clean-up | fan-out per resource |

What is hard, by component, and the property that makes it correct:

* **collection**: goroutines of all clouds, a closing goroutine and a `select` loop. Nothing is
  sent on a closed channel; no batch is lost or doubled before the loop ends; the loop ends.
* **filters**: they run in the order of a map iteration, so they must compose in any order; some
  end the process on a kind of item they do not know.
* **actions**: one cloud's error is a panic that ends the calls of the others. Only selected
  resources are changed; exit code 0 means they were handled; the process does not stop itself
  half-way.
* **stack deletion** (AWS and GCP): two levels of channels and WaitGroups with early returns on
  errors. An error-free return means everything is deleted (on GCP, of the addresses: asked for); the errors
  are those of the stacks that failed; the order between instances, the parts that they use, firewall, subnets and
  network; the call ends.
* **instances** (AWS): chunks, auto scaling groups that must be suspended before their
  instances are stopped, spot instances. Every instance is accounted for.
* **AWS volumes, images, alarms, databases**: a volume is detached and polled before it is
  deleted, while others may attach it again; images share a semaphore; alarms are sent by name in
  chunks. A volume that was torn off its instance is deleted, skipped in the log or reported; a
  return without errors accounts for every item; every slot comes free.
* **GCP items**: managed instance groups are found by name and deleted in place of their
  instances. What is deleted beyond the selection belongs to such a group; what stays failed in the
  log or was left to one.
* **Azure items**: six calls with six control structures (semaphores, loops, a goroutine per
  region). Every item is asked for, passed over for a known reason, or reported.
* **listing**: a goroutine per region, page by page, with failures that are only logged. What a
  list lacks comes from the requests that failed, and nothing else; the stacks that are put together
  from several lists are whole whatever the order of the instances; the call returns.

## 2. Modules

| module | models | kind |
|---|---|---|
| `Collection` | what an operation promises its caller | abstract specification |
| `Collect` | `collect` and `wait` of `operation/common.go` | implements `Collection` |
| `Filters` | the filters, the configuration look-up, the matchers | operators |
| `ProviderTraits` | what `main.go` and the actions rely on of the three providers, call by call | operators |
| `ProviderCall` | what a changing call of a provider promises the action that waits for it | abstract specification |
| `Hunt` | a run of the program: `main.go`, the operations, the filters, the actions | extends `Filters`, `ProviderTraits` |
| `StackTermination` | what `TerminateStacks` promises the action | abstract specification |
| `NativeStacks` | `deleteStacks`, `deleteNativeStack` and `deleteCfStack` of `aws/aws.go` | implements `StackTermination` and `ProviderCall` |
| `GcpStacks` | `TerminateStacks` of `gcp/gcp.go` | implements `StackTermination` and `ProviderCall` |
| `AwsInstances` | `TerminateInstances` and `StopInstances` of `aws/aws.go` | implements `ProviderCall` |
| `AwsDeletions` | `deleteVolumes`, `deleteImages`, `deleteAlerts` and `StopDatabases` of `aws/aws.go` | implements `ProviderCall` |
| `GcpItems` | `TerminateInstances`, `StopInstances`, `DeleteDisks`, `deleteImages` and `StopDatabases` of `gcp/gcp.go` | implements `ProviderCall` |
| `AzureItems` | the six calls of `azure/azure.go` that change something | implements `ProviderCall` |
| `StackAssembly` | how one more instance, with its parts, joins the stacks, on AWS and GCP | operators |
| `Listing` | the `Get*` functions of the three providers | extends `StackAssembly` |
| `CollectProofs`, `HuntProofs`, `NativeStacksProofs`, `GcpStacksProofs`, `AwsInstancesProofs`, `AwsDeletionsProofs`, `ItemsProofs`, `ListingProofs` | theorems and proofs | |
| `MC*` | the constants of the runs | |

Each definition named `Mutant of ...` in a comment is the code with a plausible bug; no
specification uses it. It documents, for each property, a change of the code that the property
excludes.

### How state and actions correspond to the code

**Conventions.** A goroutine is a program counter per cloud, stack, region or resource. A
WaitGroup is the set of goroutines that have not called `Done`, or the condition that all counters
are at `done`. A buffered channel is a sequence; on an unbuffered one a send and its receive are one
step. `crashed` says that a goroutine panicked where nothing recovers, which ends the process.
A call of an SDK is a step that succeeds or fails; a batch call that fails may have taken effect in part.

**Collect.** `Fetch` is `getter(providers[cloud]())`, `ProviderPanics` its panic when the
clients cannot be built, `SendItems` / `SendError` the two sends, `WorkerDone` the deferred `Done`.
`CloseItems` and `CloseErrors` are the closing goroutine, `ReceiveItems`, `ReceiveError` and `Exit`
one iteration of the `select` in `wait`. Go's rule that a closed channel is reported closed only
when its buffer is empty is in `ItemsExhausted` and `ErrorsExhausted`. A batch is named by its cloud.

**Filters.** An item is a record of what a filter looks at; creation time and period are one bit,
`old`. A string is opaque, and which strings start with which is the constant relation
`StartsWith`. V1 and V2 of the configuration keep their different look-ups: reflection on a field
name for V1, the first fitting entry for V2.

**Hunt.** `request` is the command line with the environment. The stages follow `main`: `Parse` /
`Reject`, `Collect` or `ReadImages`, `ApplyFilter` / `FilterFails` in any order, `Act`, then a report or
the goroutines of the action. `Collect` may return any part of what the clouds hold, since
`wait` and the getters can lose answers. `PageRefused` and `AskAgain` are the getter of Azure's instances, which asks for the
refused page of a scale set again without an end, while `collect` waits for it. `Change` is one resource changed by a call in progress, so a
panic elsewhere can cut a call short; `Return` and `ReturnErrors` end a call, the latter also when the call itself panics. What `Hunt` assumes of a call in
progress is in `ProviderTraits` (`Unlistable`, `IgnoresDryRun`, `MaySkip`) and, for what goes down with a selected item, in
`TakesDown`.
`exit` distinguishes a clean end, a panic that `main` recovers, `log.Fatalf` and a panic of
another goroutine.

**ProviderTraits and ProviderCall.** `ProviderCall` has one step for all that a call does (`Work`: some resources within its reach
are changed, if it is effective; a failure may be noted) and one for its return. It is stated with the operators of
`ProviderTraits` that `Hunt` uses for `Change`, `Return` and `ReturnErrors`, so a module that implements `ProviderCall`
discharges what `Hunt` assumes of its call. The six modules of the calls define it in the same way: `CallName` is the name in
`CloudProvider`, `Reach` what the call may change, and `changed` what it has changed so far. After a return with
errors `Work` may go on: `TerminateStacks` of GCP leaves goroutines behind, and the process lives until the action has panicked.

**NativeStacks.** `pc` follows the goroutine of a stack through `deleteStacks` and
`deleteNativeStack`, `part` the goroutine of a volume, security group, load balancer, elastic IP or the
alarms. `CloseOnError` is the `close(errChan)` before `return err`, `CloseWhenDone` the closing
goroutine; the second of the two panics, and so does `SendOnClosed`. From `describe` on `pc` follows
`deleteCfStack`: `PassResource`, `RetainMissing` and `DeleteResource` are the rounds of its loop over the resources, in any
order; a failure in a round is only logged there, and so changes nothing here. What CloudFormation deletes is in
`WaitUntilStackDeleteComplete`, which leaves the retained resources of a stack that was listed as failed.
`NoStatusReason` and `NoPhysicalId` are the dereferences of two optional fields of the answers, on a goroutine nobody recovers:
the reason of a stack's status, and the id of a resource that was never created. The second needs no failed call, so
`StackTermination` has `unreadable`, the stacks with such a resource: the process may also die while one of them is pending.

**GcpStacks.** The goroutine of a stack is at `results` in `terminateInstancesAndDbInStack` and
at `network` in `terminateNetworkRelatedResourcesInStack`. A part of the first phase sends its error to
the caller and then its outcome to the stack; the first `false` ends the stack (`SendFailure`) and
leaves the others without a receiver. `Delete` ends when the operation is done; `RequestAddress` when it is accepted, for the code
does not poll the operation of an address: `requested` is kept apart from `succeeded`, and no property says that an address is gone.

**AwsInstances.** One goroutine per region; `NextRound` cuts the next chunk from `rest`,
in any order. `TerminateInstances` waits for the chunk also after the request has failed.
`StopInstances` asks for the auto scaling instances of the chunk, suspends their groups one
instance at a time, drops the instances whose group cannot be suspended, stops the rest and terminates
the spot instances among them. `skipped` records what is passed over with a line in the log only.

**AwsDeletions.** One goroutine per region; `Take` draws the next item of its loop. For a volume the
goroutine is at `detach`, `poll` or `delete`: `DetachVolume` and `DetachFails` follow the state the
volume was listed with (`inUse`), the polls the state it has now (`attachment`), which
`DetachmentCompletes` and `Attach`, the world's own actions, change at any time. For alarms `next` is the
index of the loop and `CurrentAlerts` the slice of the names of all regions that the code cuts with it.
`TakeSlot` and `ReleaseSlot` are the send to and the receive from `sem` in `deleteImages`.

**GcpItems.** `Classify` is one iteration of the loop over the selected instances, with the set of groups to
delete it tests and fills. `Named` says which instances are named after a group, `Members` which it
manages; the code only sees the former. `Starting` gives each request its goroutine.

**AzureItems.** The calls share no control. `at` follows the goroutines under a semaphore, `position` the two
loops, `accounts`, `containers` and `blobs` what the goroutine of a region has before it in
`CleanupStorages`. `Accept` is a `Begin...` call that is accepted (its end is never awaited),
`AcceptForNothing` the deletion of a scale set member through the client for plain machines, which does
nothing. `ImageResourceGroup` is what the code makes of an image's ID: nothing, unless it is a URL.

**StackAssembly and Listing.** `AddNative` and `AddGcp` are one round of the loops over the instances that build the stacks;
`AddNativeInstance` and `AddGcpInstance` take the rounds in any order, with `left` what the loop has still before it (on GCP it
ranges over a map). Which of two firewalls, alarms or databases the code finds is a choice, and so is each failing request.
`page` counts the pages of a region, user or scale set, `cut` the lists that a failed request ended.
`RequestFails` sends the goroutine of a scale set back to its request, as the code does.

## 3. Runs

| run | instance | what it shows |
|---|---|---|
| `collect` | 4 clouds, capacities 2 and 1 | `NoSendAfterClose`, `EachBatchOnce`, `ImplementsCollection`, `WaitReturns` |
| `hunt` | 4 clouds, 12 items, 403 command lines | `FiltersCompose`, `TouchedWasSelected`, `CleanExitMeansHandled`, `AbortBeforeAction`, `RunEnds` |
| `native_stacks` | 3 stacks, 3 parts, 2 resources of a CloudFormation stack, dry run or not | `PartsAfterInstances`, `CleanReturnMeansDeleted`, `ImplementsStackTermination`, `CallEnds`, `PartFailureIsFatal` |
| `gcp_stacks` | 2 stacks, 8 parts of all kinds | `NetworkAfterInstances`, `NetworkLast`, `CleanReturnIsComplete`, `LateFailuresOnly`, `ImplementsStackTermination`, `CallEnds` |
| `aws_instances` | 2 regions, 5 instances, chunks of 2 | `GroupSuspendedFirst`, `CleanReturnAccounts`, `ImplementsProviderCall`, `CallEnds` |
| `aws_deletions` | 2 regions, 5 items, chunks of 2, 1 slot, 2 polls | `DetachedIsAccountedFor`, `CleanReturnAccounts`, `ImplementsProviderCall`, `CallEnds` |
| `gcp_items` | 5 items, 2 groups, 2 slots, 11 lists | `CleanReturnAccounts`, `CallEnds` |
| `azure_items` | 4 items, 2 regions, 3 containers, 4 blobs, 2 slots | `CleanReturnAccounts`, `CallEnds` |
| `listing` | 11 kinds of calls, 2 sections, up to 5 pages, 5 instances with 18 parts | `ListingAccounts`, `StacksAreWhole`, `ListingEnds` |

Most runs also check the module's `TypeOK`; those of `NativeStacks`, `AwsInstances`, `AwsDeletions` and `Listing` do without, as
the types are part of the invariant that TLAPS proves there (`Typed` in `ListingProofs`). `ImplementsProviderCall` is stated in all six modules of the calls and proved in all six; the
two runs of the table also check it, for AWS has most of the calls that `ProviderTraits` names.

Three runs end in a violation. Each checks what a comment or the documentation says and finds that the code does
something else:

| run | property | the code |
|---|---|---|
| `collect_all` | `ReturnsAllItems` | `wait` stops at the first closed channel; a whole cloud may be missing from the result (`operation/common.go:48`) |
| `hunt_dry_run` | `DryRunChangesNothing` | several provider calls ignore `-d` (`aws/aws.go:269`) |
| `aws_deletions_alarms` | `OnlySelectedDeleted` | one region is sent the names of another's alarms (`aws/aws.go:1745`) |

Further disagreements, which the code shows when read beside the models, are under "findings" in `PROJECT.json`:
`errChan` of `deleteNativeStack` is closed twice (`PartFailureIsFatal` is the property of what follows), a network is deleted
after its firewall could not be, a chunk of spot instances leads to an empty stop request, a filter that failed to
initialise is dropped, the deletion of an address is not polled, a resource that was never created ends the process, a managed group is deleted with its ignored members, Azure images that were listed are never deleted,
lists end after the first page on GCP, and others.

### Bounds

But for the polls of `aws_deletions` no model has a counter to bound; the sets are finite and each goroutine ends, or, in `listing`
and `hunt`, asks for a page again.

* `collect`: there are four clouds in `types/cloud.go`. The code's capacities, 10 and 5, can never fill
  with four senders; 2 and 1 make the sends block, which covers code with more clouds than capacity.
  `collect_all` has the real capacities.
* `hunt`: one or two resources of the kinds that behave differently, the ignore label on some, two
  members of a managed group and an instance that is only named like one, alarms of one name in two regions. The requests combine five operations, five
  actions, four sets of filters and four sets of flags and configurations, and add the
  rejected and restricted command lines.
* `native_stacks`: a stack with two parts, one of them a load balancer, and one with the alarms only, so that a second
  error or a success can meet an error of the same stack or of another; a third of CloudFormation or of a type
  not implemented, the former with a VPC and a load balancer that is missing or not, each with or without an id, in failure or not.
* `gcp_stacks`: two instances in one stack, so that one can fail while the other runs; all kinds of
  parts; a stack without a network.
* `aws_instances`: chunks of two cut three-and-two: a full chunk, a last one, and a
  chunk of one spot instance; a group with an on-demand and a spot member that may fall into one chunk or two.
* `aws_deletions`: a region with a full and a shorter chunk; lists in which the regions alternate; an alarm that has the
  name of one in the other region; one slot for two regions, so that one waits. `MaxPolls` bounds the polls: one after
  the first, where the code has ten; the loop is the same, and the proofs are for any number.
* `gcp_items`: one base name begins with the other and a hyphen, and an instance of no group is named
  like a member; lists with both orders of these. Two slots for up to five images.
* `azure_items`: two images of one name and region in different groups; blobs on both sides of the limit;
  `RETENTION_DAYS` of -1 and 1. Two slots for up to four instances.
* `listing`: a region of two pages and one of a single page, a channel of capacity 1 where the code has 5 (so that a
  sender blocks); stacks of one and of two instances, one group in both regions; two instances of one name; an instance with
  three interfaces, of which one network has two firewalls, one none, and one is unknown.

### Fairness

Weak fairness for each goroutine: the Go scheduler runs a goroutine that can take a step. It
includes that a call of an SDK ends, with success or failure, which the code relies on
everywhere (it sets no deadline of its own but the SDKs'). No fairness favours one outcome of a call over
another, a receive over another, or the panic of a provider. The main goroutine of `Hunt` and
the caller of the other models are treated in the same way. Nothing is assumed of the world: a detachment need
never complete. `ListingEnds` and `RunEnds` therefore have an alternative: a scale set whose page is refused time and again. `WaitReturns`
speaks of `collect` alone and assumes that the getter ends (`Fetch` is a step), which in this one case it need not.

## 4. Proofs

**CollectProofs** (any set of clouds, any capacities). The inductive invariant relates the program counters,
the WaitGroup, what was answered and what is in the channels: a cloud that has not called
`Done` is in `wg`, the channels are only closed when `wg` is empty, and each batch sent is in the
result or the channel exactly once. It is needed because `NoSendAfterClose` says nothing of `wg`,
through which it holds. From it follow `TypeCorrect`, `NeverSendsAfterClose`, `BatchesConserved`,
`OneSideIsComplete` and `Refinement`: every step of `Collect` is a step of `Collection` or leaves its variables
alone. `LossBounded` bounds what `collect_all` refutes: `wait` may return with items unread, but only with those in the buffer of
`itemsChan`, so at most its capacity of batches for any number of clouds, and only when every error was logged. It needs that the
buffers never exceed their capacity (`WithinCapacity`).

**HuntProofs** (any providers, inventory and command lines; assumed are the fields of an item and
that only the nine filters are registered). The stages run one after the other, so the inductive invariant states
what each establishes: the request is valid, the items are of the asked kind and clouds, the
filters applied so far compose, the providers are prepared, nothing is touched before the action,
and a goroutine that has ended has handled its items. From it follow `TypeCorrect`,
`FilterOrderIrrelevant`, `OnlySelectedTouched`, `NoSelfAbort` and `CleanExitHandled`. A refused page changes nothing but that the
clients of Azure are built (`RefusedStep`). Within the action the
selection no longer changes (`SelectionFrozen`), which two lemmas use to carry facts over every step.
`DryRunChangesNothing`, which `hunt_dry_run` refutes, is bounded by `DryRunOnlyReachesIgnored`: what a dry run changes all the same is
within reach of a call in `IgnoresDryRun`, and without such a call nothing is changed.

**NativeStacksProofs** (any stacks, types, parts and resources; assumed is that only native stacks have parts). The
invariant has four parts for each stack: before the fan-out nothing has happened (`EarlyPlace`); while the stack
waits for the first error of its parts, a failure is one about to be sent (`RangePlace`); the channel is only
closed twice, or used after its close, when the stack has failed (`ClosePlace`); and a stack that is done was
reported, or has no failure and all its parts done, or its resources deleted or missing (`DonePlace`). The last is what `CleanReturn` and the
refinement need, and is not inductive without the others. From it follow `TypeCorrect`, `CleanReturn`
and `Refinement`, and from the places of the parts `InstancesFirst`. In the refinement a crash is one after a failure, or
`NoPhysicalId` in a stack that is pending and unreadable.

**GcpStacksProofs** (any stacks and parts; assumed are the kinds of parts and that a network has a firewall,
as in the code). `PartPlaces` ties the place of a part's goroutine to what became of the part, `StackPlaces` the
place of a stack to those of its parts: a stack that is done has all parts done or has given up on a
reported failure of the first phase. `PhasesInOrder` is the order of the phases. From them follow
`TypeCorrect`, `InstancesFirst`, `NetworksLast`, `CleanReturn` (of an address it says that its deletion was accepted),
`OnlyLateFailuresMissing` and `Refinement`; in the
refinement a goroutine left behind after the return only adds failures to a stack that has failed already
(`LeftBehind`).

**AwsInstancesProofs** (any instances, groups and chunk size). At each place of a region's
goroutine `Pending` says which of its instances are still to be handled; as long as no error was sent an
instance is either pending or handled (`Accounted`), and the instances past the suspend loop are in no
group or in a suspended one (`GroupsSuspended`). `CleanReturnAccounts` alone is not inductive: it
speaks of the end, when `Pending` is empty. The invariant gives `TypeCorrect`, `SuspendedFirst`
and `ReturnAccounts`.

**AwsDeletionsProofs** (any resources, regions, lists without repetitions, chunk size, slots and polls). `LoopApart` keeps
the items of a region's loop, the volume in hand and what is handled apart, and the loops of two regions from each other; the
invariant adds that every selected item is in one of these places, that a detached volume in hand is still at `poll` or
`delete`, and that the chunks of alarms sent so far are those before `next`. `CleanReturnAccounts` speaks of the end
only, and needs all of it. Where all alarms are of one region the slice of the code is the region's own (`Chunk`), which is why
the theorem has this condition. It gives `TypeCorrect`, `DetachedAccounted` and `ReturnAccounts`. The same condition gives back
what `aws_deletions_alarms` refutes: `OneRegionOnlySelected`.

**ItemsProofs** has the theorems of `AzureItems` and `GcpItems`. The latter is an instance `Gcp` in it, with constants of its own,
so that its assumption is a hypothesis of every statement about it; the variables the two modules share are, in a statement, those
of the module it is about.

* Azure (any items, listings, containers, blobs, ages and slots). As the calls share no control, the invariant has a
  part for the goroutines per item, one for the two loops and one for the goroutines per region. It gives
  `AzureTypeCorrect` and `AzureReturnAccounts`; that of the images needs `MatchingImages`: of two selected images of one name and
  region the first in the list decides for both.
* GCP (any items, groups, names and slots; assumed is that a group's members are named after it). `GcpClassified`
  says that each instance the loop has seen has a group to delete or a request of its own, `GcpHandled` that a goroutine that has
  ended took what its request takes or failed. From them follow `GcpTypeCorrect`, with the bound on the semaphore, and
  `GcpReturnAccounts`.

**ListingProofs** (any sections, pages, instances, parts and capacity; assumed is that a cloud lists an item once, that there is no
instance outside the regions, and that parts of different kinds are not mistaken for each other). The two invariants speak of the
return, and the proof of what is true before it:

* `ReceivedIsKept`: an item of a page received is listed, in the channel, dropped, or still with the goroutine that has to send it.
  `PagesRead` adds that a goroutine ends with pages missing only after a failure, `Running` that the channel is closed after the
  last goroutine and the call returns when it is empty; so at the return nothing is under way. `Once` and `NothingElse` are the other
  direction: nothing is listed that was dropped, not received, or not asked for. They give `ListIsAccountedFor`.
* `NativeSoFar` and `GcpSoFar`: the stacks of a region, whether still in its map, in the channel or listed, are whole with respect to the
  instances that its loop has seen, and there is exactly one for each of their groups. One round keeps that
  (`NativeRound`, `GcpRound`): a group seen before gets one member more, a new one gets all parts with its label. `left` is what
  makes it inductive; at the return it is empty, but for the regions with a failure, which send nothing. They give
  `AssembledStacksAreWhole`.

**Refinements of ProviderCall** (`Refinement` of `AwsInstancesProofs` and `AwsDeletionsProofs`, `CallRefinement` of
`NativeStacksProofs` and `GcpStacksProofs`, `AzureRefinement` and `GcpRefinement` of `ItemsProofs`). Each follows one argument. The
step of a goroutine is `Work`: it stays within the reach, by an invariant of the module (on a dry run by one of its own, such as
`DryRunDeletesNothing`), and it happens before the return, or, in GCP's `TerminateStacks`, after a return with errors
(`AtWorkAfterReturn`). The return is `Return`: that no errors mean everything changed, for the calls not in `MaySkip`, is
the module's theorem on the clean return. Together the six cover every call of `CloudProvider` that changes something, but the ones whose
whole body is an error. So the assumptions of `Hunt` on the providers are theorems about their models, and where they were not they were
changed: Azure's `TerminateInstances` is in `MaySkip`, for it asks the wrong client for scale set members, and what GCP takes down
with an instance follows the names of the groups and not their members.

**What liveness rests on.** A temporal formula under fairness is out of the prover's reach, but the state property it rests on is not: that no
reachable state has everybody waiting for somebody else. It is proved for any number of goroutines and any capacities, where the
runs have a few:

* `NeverDeadlocks` of `CollectProofs` and `ListingProofs`: until the caller's loop has ended, a goroutine, the one that closes the channel,
  or the loop itself can go on. Full buffers do not block both sides: the loop can receive whenever a buffer is not empty.
* `NeverDeadlocks` of `NativeStacksProofs` and `GcpStacksProofs` says this of every stack by itself: a stack that is not done can go on, or one of its
  own goroutines can, so that no stack waits for another. In GCP some goroutines do wait for ever on `resultChan`; `LeaksAreReported`
  says which: those of the first phase of a stack that gave up before, on another part whose error was received.
* `SecondCloseIsAhead` is the reason for `PartFailureIsFatal`: after the failure of a part, one of the two closes of the stack's `errChan` is still
  ahead, and when the receiver has done its own, it is that of the closing goroutine, which panics. It needs where a stack is whose
  instances are terminated (`TerminatedPlace`), and that a receiver still in its `range` after a failure has the failed part before it, for which the closing
  goroutine waits.
* `SlotsAreReturned`, `AzureSlotsAreReturned`, `GcpSlotsAreReturned`: the semaphore holds exactly the goroutines between `sem <- true` and `<-sem`
  (`SlotsHeld`), so it bounds them, and whoever waits for a slot does so while another goroutine, which is not waiting, holds one.
  For a slot is all that the goroutines of `AwsDeletions`, `AzureItems` and `GcpItems` wait for, and those of `AwsInstances` wait for nothing: at
  every other place a request can fail, whatever the others do, so that these modules have no `NeverDeadlocks`.

The other half is that nobody goes on without an end. `StepsAdvance` (`RunAdvances` in `HuntProofs`, `AzureStepsAdvance` and `GcpStepsAdvance` in
`ItemsProofs`) is an action property of each module: every step moves something forward in an order without infinite climbs, and
moves nothing back that comes first in that order.

* `CollectProofs`, `NativeStacksProofs`, `GcpStacksProofs`: the places of each goroutine have a rank that no step lowers; the channels are
  only closed, what is deleted, failed and reported only grows. A deletion is never tried twice.
* `HuntProofs`: a step ends the run, reaches a later stage, applies one of the filters left, or launches, ends or changes one more;
  and while the run has not ended there is a next step (`NoDeadlock`). One round is left over, `AskedAgain`, as in `ListingProofs`: it
  is the exception of `RunEnds`, and by the theorem the only one there can be.
* `AwsInstancesProofs`, `AwsDeletionsProofs`: first the items left of a region's loop shrink, then the place advances, then the instances of the
  round shrink or the polls grow, up to `MaxPolls`. The loop over the chunks needs that a slice is never empty (`ChunkNotEmpty`). The
  attachments of volumes that others change are not steps of the call, and left out (`EveryStepAdvances` has the
  call's own variables as its subscript).
* `ItemsProofs`: the loop of Azure and GCP passes an item and the goroutines a place; a region of Azure's storages goes through its accounts,
  then the containers, then the blobs. A container or blob list of the account being read is new, so that these come after one
  another in the order. `ListedFirst` is needed for the images: the failure of their list finds nothing reported yet.
* `ListingProofs`: a section receives a page, goes on with the pages it has, or has one instance or item less; only then does it count that
  the channel is emptied. One step is left over, and named in the theorem: `AskedAgain`, the page of a scale set that is refused and
  asked for again with nothing else changed. It is the exception of `ListingEnds`, and by the theorem the only one there can be.

So what the temporal properties add to these theorems is fairness, and that what a call goes through is finite; for stacks
and their parts, pages, containers and blobs no assumption of the modules says so, and no other theorem needs it.

The guards in the `NoDeadlock` properties are those of the actions, written as state predicates: `ENABLED` is out of the prover's reach too.

**Only model-checked**: the liveness properties themselves (`WaitReturns`, `RunEnds`, `CallEnds`, `PartFailureIsFatal`, `ListingEnds`). The
invariants of `GcpItems` are proved as `Gcp!TypeOK` and `Gcp!CleanReturnAccounts`, under the names `GcpTypeCorrect` and `GcpReturnAccounts`. No
recursive definition is used, and every loop is a sequence of steps, so that no theorem needs an induction over data.

## 5. Not modelled

* The SDKs and the network: a call is a step that succeeds, fails, or for a batch partly takes effect.
* The conversion of SDK structures into items, beyond the fields that the assembly of stacks and the deletions read; the formatting
  of logs, JSON and messages (`slack`, `hipchat`); the decoding of YAML.
* Times: the periods of the filters and the conversions of `utils.go` are a bit of each item, and the rate limiter of
  `context.go` is a question of time.
* The construction of the clients in `init` of the providers: it succeeds or panics (`ProviderPanics` in `Collect`).
* Resources that change between listing and action are calls that fail, but for the volumes of `AwsDeletions`, which are
  modelled as the world changes them.

## 6. Plan

1. Time as a number in `Filters`, to ask what a timestamp in the wrong unit does to the filters by age.
2. `Hunt` with `ProviderCall` as the state of a call in progress, in place of `Change` and `Return` in its own words.
