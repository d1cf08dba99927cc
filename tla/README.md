# hepta-paper: a verification project for the paper automation plane

This directory holds TLA+ modules that model the stateful core of hepta-paper,
the TLC configurations that check them on small instances, and TLAPS proofs of
the properties that matter most. Paths are relative to the repository root.

## 1. The system

hepta-paper turns a research workspace into a reviewed, packaged paper. A
*campaign* is a DAG of nodes (research, review rounds, convergence, compile,
verify, package). Any number of *engine* processes execute campaigns: they poll
one SQLite store, lease ready nodes, run an executor (a model call, a LaTeX
build, an experiment), journal the external actions it performs, write its
result into the workspace, and complete the node. Around that core sit a
supervisor that starts campaigns, a governor of shared machine resources, an
outbox for submissions, and a protocol that fences every database mutation
against an external authority.

### 1.1 Inventory

| Component | State it keeps | Operations | Talks to | What is hard | What makes it correct |
|---|---|---|---|---|---|
| Campaign store (`paper-adapters/persistence/sqlite-campaign-*`, `native-store-campaign-mutation-*`) | `paper_campaigns`, `campaign_nodes`, `campaign_node_events`, `campaign_current_releases` | create, claim, renew, recover, start, reserve, record usage, mark/complete external action, defer, prepare, begin/mark integration, complete, fail, pause, resume, cancel, fail, stop, skip rounds, cancel node, retry, extend | engines, operator commands | stale processes, crashes between transactions, lost follow-ups, several actors on one row | fenced leases, exact accounting, no repeated external action, integration is a point of no return, one release that matches the package, if it has a bundle |
| Campaign state and evolution policies (`paper-domain/automation/campaign-state-policy.mjs`, `campaign-evolution-policy.mjs`) | none | readiness, projection, failure transition, cascade, future rounds, resume overrides | store | boundaries: attempt limit, integrated extra attempt | bounded attempts, no deadlocked DAG |
| Campaign engine (`paper-application/automation/campaign-engine.mjs` and its helpers) | claims, abort controllers, timers of one process | run loop, node attempt, heartbeat, convergence follow-up, budget stop | store, governor, executors | decisions taken on snapshots, a follow-up outside the transaction, swallowed errors | what it does twice or late is refused by the store |
| Resource governor (`paper-adapters/automation/sqlite-resource-governor.mjs`) | `automation_resource_leases`, `automation_resource_waiters`, limits, peaks | acquire, heartbeat, release, reap | engines | expiry while in use, dead owners, starvation | limits never exceeded, lost leases announced |
| Externally fenced mutations (`paper-adapters/automation/externally-fenced-sqlite-mutation-*`) | local marker chain, authority's sequence | reserve, commit, finalize, abort, recover | every store | lost replies, crash between commit and finalize | local chain equals the authority's, nothing finalized that was not committed |
| Recoverability controller (`paper-application/automation/autonomous-research-state-recoverability-controller.mjs`) | verified head, dirty head, requirements | reconcile, assert current | fenced mutations, backups | requirements added during an await | no permit while unreconciled |
| Research supervisor (`autonomous-research-supervisor*`) | instance lease, dispatch journal | acquire, dispatch, recover stale dispatch | engines, store | two supervisors, crash between dispatch and record | one live instance, no dispatch lost or doubled |
| Submission outbox (`autonomous-submission-outbox-repository.mjs`) | outbox rows, leases | enqueue, lease, deliver, fail | venue | retry of a delivered submission | at most one handoff |
| Workspace attempts (`workspace-attempt-*`) | descriptors, commit lock and commit journal on disk | prepare, integrate, evict a stale lock owner | engine, scoped files | crash between a file and its journal entry, two evictors of one lock, edits by the user | one integrator, the source is the original with the receipts applied, receipts are exact |
| Scoped file materialization (`paper-adapters/runtime/scoped-file-materialization-*`) | target lock, vault of backups, PREPARED and COMPLETED records | stage, commit, remove, abort, inspect, recover | workspace attempts, packagers | a kill between any two changes of directory entries, also of the recovery | the file changes in one instant, the preimage is never lost |
| Release packages (`campaign-release-package-*`) | package transaction, generation lease | generate, publish, recover | package node | two generators | one generation, no partial package |
| Job receipts, workflow state (`sqlite-job-receipt-store.mjs`, `sqlite-workflow-state-store.mjs`) | receipts, versions | record, replay | CLI | retry of a finished job | idempotent receipts |
| Runtime retention (`runtime-retention-*`) | intents, quarantine | mark, quarantine, remove, recover | operator | deletion racing publication | nothing referenced is removed |

`PROJECT.json` lists these and the stateless or external parts (domain
contracts, executors, adapters, command line, migrations) with the reason each
is or is not modelled, and under `hazards` the places where this code can go
wrong in a way a test would hardly reach.

## 2. Plan

1. **CampaignStore** - the transactions of the campaign store under any number of
   crashing, stale engine processes and an operator. *Done in this version,
   except `extendCampaign`.*
2. **CampaignStoreProofs** - type correctness, budget, fencing, integration,
   release and finality as theorems. *Done.*
3. **FencedMutation** and **MutationLog** - reserve, commit, finalize with crashes,
   lost replies and late requests, refining one abstract log. *Done, without
   schema transitions and backups.*
4. **FencedMutationProofs** - type correctness, aborts never hit commits, permits
   follow commits. *Done.*
5. **Recoverability** - the controller that gives permits for external side
   effects: epochs, requirements, drills and renewals, run by run. *Done.*
6. **ResourceGovernor** - resource leases and waiters. *Done.*
7. **ScopedFile** and **AtomicFile** - replacing one file with kills at any point,
   refining a file that changes in one instant. *Done.*
8. **WorkspaceIntegration** - the commit lock and the journal over many files, each
   file change being one step as AtomicFile promises. *Done.*
9. **CampaignWorkProofs**, **ResourceGovernorProofs**, **RecoverabilityProofs**,
   **ScopedFileProofs**, **WorkspaceIntegrationProofs**, the second half of
   **FencedMutationProofs**, and the facts on sums they share, **FiniteSums**. *Done:
   every invariant, action property and refinement that a run checks is a theorem.*
10. **CampaignEngine** - one process's order of calls, with its snapshots,
   composed with CampaignStore; an abstract campaign life cycle
   (running, paused, settled) that CampaignStore refines.
11. `extendCampaign` and the start-up reconciler; then the submission outbox, the
   supervisor, release packages, job receipts and retention.

Theorems still worth proving: that CampaignStore refines the abstract life cycle of
item 10; for WorkspaceIntegration, that it refines one atomic integration per receipt;
for AttemptsBounded, the bound that holds with pauses (attempts plus pauses).

## 3. CampaignStore

### 3.1 State

One campaign. Columns of `paper_campaigns` are `cstatus`, `stopReason`,
`budget`, `usage`; columns of `campaign_nodes` are functions over `Nodes`:
`status`, `owner` (lease_owner), `lease` (clock ticks until lease_expires_at),
`attempt` (attempt_id), `gen` (lease_generation), `tries` (attempt_count), `prep`
(prepared_result: the generation that prepared it), `integ`
(prepared_integration_status), `result`, `failure` (failure_class), `blame` (the
failed node named in failure_json of a cancelled sibling). An attempt id is a random UUID drawn
with each claim, so the model uses the lease generation as its name. The event table is the journal: `attemptNo`
(campaign_node_started), `reserved`, `actStarted`, `actDone`, `refunded`,
`nested`. `release` is the row of `campaign_current_releases`. A campaign need not have
a package node: its mode decides (`batch-campaign-mode-plan.test.mjs:54-64`), and
`Package` is then outside `Nodes`. `Bundled` names the attempts whose prepared result
carries a release bundle. The memory of
the processes is `claimant` (which process holds a claim on which generation, also after
the store took it back), `followUp` (what a process does next after completing a convergence node), `crashed`, and
`cancelRead` (cancelNode decided, not yet committed).

### 3.2 Actions

Every store operation is one `BEGIN IMMEDIATE ... COMMIT` whose guarded UPDATE
must change exactly one row, so every operation is one action and its guard is
the WHERE clause together with the checks of the JavaScript before it. Three
operations are more than one step because the code is: the convergence
follow-up (`StopNotConverged`, `SkipFutureRounds`) runs after completeNode
committed and its errors are swallowed; cancelNode outside the stopping branch
reads first and commits without checking the revision (`CancelNodeRead`,
`CancelNodeCommit`); recoverExpiredLeases is one transaction per node. A worker
action is parameterised by the node and the generation the process claimed,
which lets a stale process try everything at any later time: the fence must
refuse it. `ClockTick` and `Crash` are the environment. `Commands` selects which
operator commands a run admits, so that a run asks one question.

`CompleteNode` publishes a release only for a package node whose result carries a
bundle (`sqlite-campaign-prepared-integration-operations.mjs:153-162`,
`native-store-campaign-mutation-execution.mjs:533-535`); a package without one, and a
campaign without a package (`local-review-loop`), complete all the same
(`automation-campaign.test.mjs:221-227` and `233-253`). `promoteCompletedRelease` inserts
the row of a completed campaign again and ignores one that is there. cancelNode's branch
for the package path does not exist where there is no package.

### 3.3 Abstraction

Usage is one counter, agent calls. CPU and GPU jobs are reserved by the same
transactions (startNode, reserveNodeInfrastructureUsage, recordUsage) and given back by the
same refunds (`native-store-campaign-mutation-plan.mjs:268-272` and `505-508`). Tokens and
cost are not. What a call has used is known only afterwards: completeNode, failNode,
completeNodeExternalAction (`updateCampaignUsage`, lines 325, 592 and 668) and the record of
a nested call add it without comparing, so these two may exceed their limits; the next
reservation is then refused (`USAGE_BUDGET`, lines 180-184), and nothing is ever refunded.
`BudgetRespected` and `UsageConserved` say nothing of them.

Results, hashes and JSON are reduced to the generation that produced them. A result
carries a workspace integration or not (`Integrating`); an executor performs an external action or not
(`ActionNodes`), whose identity is the node together with the plan
(`ActionId`: a resume that raises a budget changes the plan hash). The recorded
failure of an attempt is chosen freely among retry, terminal and abandoning
(workspace moved), because the executor's outcome is outside the store.

## 4. FencedMutation

Every write to a state database goes through `executeMutation`
(`externally-fenced-sqlite-mutation-coordinator.mjs`): observe the authority's
heads, compare with the local head, BEGIN IMMEDIATE, compare again, apply the
change, reserve it at the authority, insert a marker of the reservation and
COMMIT, finalize at the authority, store the receipt. The authority
(`local-autonomous-research-state-authority-mutation.mjs`) keeps one global chain
of heads and one per database, and at most one unresolved reservation.

### 4.1 State

The authority's tables are `status` (authority_mutation), `globalHead`
(authority_metadata) and `dbHead` (authority_database_head); the local tables
`marker` and `receipts`; `lock` is SQLite's write lock of a database. `req` holds
the reserve request of every attempt, numbered by `next` (the code draws UUIDs).
A head is a sequence number together with the mutation that produced it, which
is what its hash identifies: two heads are equal exactly when their hashes are.
`proc` is the memory of each process: its place in the call, the heads it saw, its
attempt, the rows it still has to recover (`todo`), the reservations it found
without a marker (`absent`). `late` holds requests whose sender was killed.

### 4.2 Actions

`executeMutation` is split wherever another process or the authority can act in
between: `CheckPending`, `ObserveCurrentHead`, `MatchLocalHead`,
`BeginImmediate`, `SendReserve` or `NoChange`, `ReserveMutation`,
`ResolveMutationAttempt`, `Commit`, `CommitOutcomeUnknown` or `GiveUp` with
`AbortMutation`, `FinalizeMutation`, `RecordFinalization`. Recovery of markers
without receipt is `ReadPending`, `RecoverFinalize`, `RecoverRecord`,
`RecoverDone`; start-up reconciliation is `ListUnresolved`, `InspectMarkers`, then
the recovery, then `RemoveBegin` and `Revoke` (abortProvenRemoteOnlyReservation,
under the write lock). The client runs each authority request in a child process
(`spawnSync`) against a server that handles one request at a time
(`...-authority-socket.mjs`), so a request is one atomic step of the authority. A
request or its reply may be lost (`Fault`); the child outlives a parent that is
killed (`Crash`), and its request is handled later or never (`HandleLate`).

### 4.3 Abstraction

Signatures, hashes, schema hashes and clocks of receipts are taken as sound. A
reservation may expire at any time before COMMIT (`GiveUp`). The database's
content is its chain of markers. Schema transitions, rebinds, backup reservations
and the epoch fence of the recoverability controller are not modelled.

### 4.4 The promise

`MutationLog` is the abstract specification: one log for all databases; a
mutation is durable first and published second, and never more than one is
durable and unpublished. `ImplementsLog` maps the log to the finalized mutations in
the order of the global sequence and `pending` to the markers not yet finalized.

## 5. Recoverability

A resident process may cause external side effects only while
`assertCurrent` permits it: the last restore drill of the off-host backup covers
every mutation that the process has finalized. FencedMutation supplies the
finalized and the pending mutations; here one such call is one step, since
`executeMutation` is synchronous.

*State.* `head` is the authority's head and `pending` what a failed mutation left
behind (a reservation, a committed marker, or a finalization whose reply was lost);
`published`, `drills` and `aged` are the backup; `epoch` is the controller's
memory: verified head, dirty head, whether requirements are outstanding, the
fatal code; `inFlight` and `run` are the promises of `reconcile` and where each
stands; `finalized` is the last head this process was told of.

*Actions.* `reconcileOnce` is cut at its awaits: `CheckRequirements`,
`ReconcileDatabases`, `InspectPending`, `RecordRecovered`, `ReadSources`,
`ObserveHead`, `JudgeHead`, `restoreDrill`, `SettleJournal`, and on the way of a
fresh snapshot `RenewBackup`, `RecordRenewed`, `SettleRenewal`. `reconcile(c)` joins
or chains, `StartChained` and `Finish` are the promise callbacks, `Mutate`,
`MutationFails` and `RecoverInline` the coordinator's marks. `OtherMutates`,
`OtherRenews` (the renewal timer) and `Age` are the environment, `Deferred`,
`LeaseLost` and `RangeUnbounded` the failures of the services.

*Abstraction.* A head is its sequence number, which its hash follows, so
equivocation and tampering do not arise and `authority_rollback` is never reached;
the expiry of an observation is left out; one mutation is pending at a time;
inspection and renewal of a fresh snapshot are one step.

*Promise.* `PermitCovered`: a permit implies that the published bundle restores
whatever this process was told is finalized. `EpochRestored`: permits return,
unless the controller went fatal. It can go fatal without any tampering: when the
renewal timer publishes between `RenewBackup` and the second read
(`autonomous-research-state-recoverability-controller.mjs:394`), when another
process finalizes between the observation and the drill (line 466), when a
recovered head is recorded after a newer one (line 298), or when a mutation
becomes pending between reconciliation and inspection.

## 6. ResourceGovernor

Processes share agents, CPUs, GPUs and memory through two SQLite tables. `lease`
and `waiter` hold the time left of each row, `until` the time left as the holder
knows it, `delay` the age of the clock reading a call works with, `before` the
requests with an earlier `requested_at`, `lost` the aborted signals. Times are
relative to now, so that the state space is finite without a bound on the clock.

`acquire` is `Request`, `Enqueue`, then turns of `Poll` (reap, read the clock) and
`Acquire` (one transaction: purge, put the waiter back or renew it, insert the
lease when it is first in line), or `GiveUp` and `Cleanup`. A holder renews
(`StartRenew`, `renewLeaseHeartbeat`) and releases (`StartRelease`, `release`). The
reading of the clock is a step of its own because the code reads it before the
transaction. `EnqueueThrows`, `AcquireUncertain`, `RenewThrows` and `ReleaseThrows`
are the statements that fail, before or after their effect. Peaks, telemetry and
the reconfiguration of limits are left out.

`NoOvercommit` counts those who still have time on their lease by their own
clock: a holder that goes on after `lostSignal` is outside the governor's promise.
`SmallestServed` is stated for the smallest request only, because the statement
serves the first waiter that fits: a large request can wait for ever.

## 7. ScopedFile and AtomicFile

One operation (replace, create or remove) on one file, by processes that retry
it. `entry` maps the names involved (the target, the staged temporary, the local
backup next to the target, the backup in the vault) to inodes and `content` inodes
to what they hold, `intent` and `completion` are the PREPARED and COMPLETED
records, `lock` and `bound` the target lock and the temporary its owner record
names. Each action is one change of a directory entry or a record, in the order of
the code: lock (or reclaim the lock of a dead owner), recover, stage, bind, write,
back up (`BackupStarts`, `BackupCopies`), `createOperationIntent`, `MoveTarget`,
`VerifyMoved`, install, detach, check, complete, clean up, unlock. Recovery is `RecoverDecides`, then undo,
restore and the unlinks. `Kill` may stop a process at every point, `Fault` makes a
call throw, `OutsideWrites` replaces, creates or removes the target from outside.

Removing the lock of a dead owner takes several steps: a process looks at its record
(`LookAtStaleLock`), removes the temporary that the record names (`UnlinkStaleTemp`), and
then the lock (`reclaimStaleTargetLock`). A second process that has looked as well is
*late* from then on. `unlinkOwnedDescriptorEntry` compares identities before it unlinks
(`scoped-file-materialization-path-io.mjs:281-291`), so a late process normally refuses;
but it may have compared before the lock changed hands, and then it unlinks the lock, or
the temporary of the same name, of the process that has just begun (`ReclaimLate`). The
lock is then `"lost"`. Two processes can be at work from there on; the model ends its
account at that step (only outside writes go on), and every property of this module is
a statement about the time before it.

`createOperationIntent` may throw after the record is linked; its caller's catch block has
no record in hand and drops the backup that the record names. `publishOperationCompletion`
may throw after its effect too, but that catch block finds the record.

Left out: power loss (what is renamed is taken as durable), the immutable
definition record, the names of the owner entries that are linked to the lock, and
partial writes from outside.

`ImplementsAtomicFile` maps the file to its `Image`: while an operation is prepared
and not completed, whatever stands at the target stands for the preimage.
`FinishedOrFailedClosed` says that the operation completes, or somebody outside writes
the file, or the lock is lost, or from some point on `FailedClosed` holds for ever. The
"for ever" matters: a temporary that no owner record names, for one, is also a passing state,
between its creation and the binding. What lasts is a
temporary that no record names, a backup that was cut short, and a PREPARED record whose
preimage cannot be put back, in which every later call refuses. There are two ways to the
last one, and both deserve a look. A rollback deletes the backups before the PREPARED
record, and killed in between it leaves a record whose preimage is at the target and whose
backups are gone; `prepared-recovery-repository.mjs:103` refuses it before it looks at the
target. And the throw in `createOperationIntent` above leaves the same: the record without
its backup.

## 8. WorkspaceIntegration

Attempts work on a clone of the workspace and are integrated under a commit lock.
`source` is the workspace, `base`, `post` and `fate` the attempts, `journal` the
commit journals, `dir` the lock directory (absent, empty, or holding the owner file
of a token), `mine` and `read` the tokens a process wrote and saw. `wrote`, `late`
and `line` are history: who wrote which file, what was edited after the final
comparison, and the original with the receipts applied in their order.

`Contend` is the acquisition (`RenameIntoPlace`, `readWorkspaceCommitLockOwnerSync`,
`UnlinkStaleOwner`, `RemoveDirectory`, `Retry`), `integrateWorkspaceAttemptSync` the
integration (`Validate`, `ApplyNext`, `persistWorkspaceIntegrationJournalSync`,
`CheckFinalManifest`, `ReturnReceipt`, `Release`). Each file change is one step,
which is what AtomicFile promises. `LoseLock` is the error between taking the lock
and the `try` that gives it back.

Abstraction: the snapshot of the source is one step (a torn snapshot is rejected by
comparing two manifests with the clone); validation and the first journal write
are one step; the listing of the lock directory and the read of its owner are one
step, with `Retry` free to happen; a crashed process's verdict still counts, which
the store would fence. `Tries` is 2 where the code has 3.

## 9. Runs

The campaign runs have two processes (one stays alive, the other may crash where the
run admits it) and one to three nodes. `MaxGen` bounds how often a node is claimed, `MaxReserve` the nested
calls of an attempt, `LeaseTerm` the ticks of a lease; process symmetry is used in the
safety runs, never with fairness. `CHECK_DEADLOCK FALSE` because campaigns, file
operations and integrations end, and the account of a file ends when its lock is lost.

| Run | Instance | Shows |
|---|---|---|
| CampaignFork | two parallel nodes and the package; retry, pause, cancel | TypeOK, LeasesFenced, IntegrationPointOfNoReturn, IntegratedNeverDropped, DependencyOrder, NeverStuck, ReleaseMatchesPackage |
| CampaignActions | action node then package; pause, cancel-node, retry, budgets 2 and 3 | UsageConserved, BudgetRespected, RefundedNeverActed, SettledIsFinal, UncertainNotRequeued |
| CampaignRounds | two convergence rounds before the package, whose first attempt carries a bundle and whose second does not; crash, failCampaign, older sibling policy | CompletedIsPackaged, NeverStuck |
| CampaignRecovery | one node and no package, heartbeats (lease of two ticks), three generations, crash and cancel-node, fair recovery, no external action | AttemptsBounded, ExpiredLeasesRecovered |
| FencedMutation | two processes, two databases, two attempts, two faults, fair | TypeOK, AbortedNeverCommitted, PermitOnlyWhenCommitted, ChainsAgree, ImplementsLog, ReservationsResolved |
| Recoverability | two callers of different validity, two own mutations, one trouble, fair | TypeOK, PermitCovered, EpochRestored |
| ResourceGovernor | three requests of two processes, two resources, terms of two ticks, readings up to one tick old, one stalling process, one failing request, fair | TypeOK, HolderKeepsRow, NoOvercommit, FirstComeFirstServed, SmallestServed |
| ScopedFile | two processes, all three kinds, two kills anywhere, one fault, two foreign writes or deletions, seven inodes (never all in use), fair | TypeOK, PreimageKept, ImplementsAtomicFile, FinishedOrFailedClosed |
| WorkspaceIntegration | two processes, two attempts, two files, three tokens, one crash, error or edit, fair | TypeOK, OneIntegrator, SourceIsReceipts, WriteAhead, ReceiptIsExact, Settles |
| RecoveryWedged | a chain with an action node, crash | ExpiredLeasesRecovered is violated |
| AbortBlocks | two processes, two databases, no fault | AbortedNeverBlocks is violated |
| RequirementWiped | one caller, two own mutations, no trouble | RequirementSticks is violated |

Why the bounds are enough: two generations are what it takes for a stale
process to meet its successor; a second branch is what it takes for one node's
settlement to meet another's integration; a budget one short of the work is
what it takes to refuse, stop and resume. `AttemptsBounded` needs three
generations, which the single node of CampaignRecovery affords. CampaignFork and
CampaignActions have no crash: a process that never acts again and whose lease runs out does the same,
but for lost follow-ups, which only convergence nodes have. In the fenced
runs two attempts are what it takes for a late request to meet its successor, and two
faults for a loss followed by a crash; the safety properties also hold with three
attempts (2,007,478 states under symmetry). In Recoverability two mutations are one
that is drilled and one that overtakes the drill, and two callers one that chains
behind the other. In ResourceGovernor three requests are a holder, a first and a second
waiter. In ScopedFile the second kill hits the recovery from the first. In
WorkspaceIntegration two files make a half integrated tree and three tokens a lock
that is evicted and taken again.

Fairness. CampaignStore: only weak fairness of recoverExpiredLeases for each node,
because every engine runs it first in every poll of claimReady. Nothing is
assumed about engines claiming, starting or finishing work. FencedMutation: a
process goes on with the synchronous call it is in (weak fairness of its steps,
not of starting one), and every database is reconciled again and again (strong
fairness of `ListUnresolved`): processes reconcile when they start, and the state
controller reconciles on its schedule. Recoverability: runs go on from await to
await, and callers call `reconcile` again, as the supervisor's cycle does.
ResourceGovernor: time passes, calls go on, and holders end their work (strong
fairness of `StartRelease`: node executions are bounded by the wall-time budget and
release in a `finally`); nothing is assumed about calls being made. ScopedFile: a
process that holds the lock goes on, a stale lock is reclaimed, and the operation is
retried. WorkspaceIntegration: live processes go on and integrate attempts that are
described; nothing is assumed about crashes or edits.

### 9.1 Findings

- *RecoveryWedged.* An attempt that completed its external action and died
  before prepareNodeResult is classed `pre_external_action_refund_requeue`
  (`sqlite-campaign-lease-operations.mjs:50`), but the transaction refuses the
  refund of an attempt with any started action
  (`native-store-campaign-mutation-execution.mjs:261`). The recovery throws in
  every poll, and claimReady with it.
- *AbortBlocks.* `authority_mutation.global_sequence` is UNIQUE and abortMutation
  keeps the row without moving the head, so the next reservation, built on the same
  head, inserts the same sequence and fails. One abort thus stops the mutations of
  every database of the scope.
- *RequirementWiped.* reconcilePendingMutations awaits the reconciliation of the
  databases and then clears all requirements, also one that was added during the
  await; the permit comes back while that mutation is unresolved.

Three more disagreements are recorded as hazards, not as runs: cancelNode checks
only its own cascade for an integration in progress and then stops the whole
campaign; cancelNode of the package path stops a running campaign but not a paused
one; the stop of a rejected final round is a second transaction that can be lost.

## 10. Proofs

Every theorem is about `Spec` without fairness and holds for every value of the
constants under the named assumptions of the module (`ASSUME ...Assumption`), which
TLC evaluates in the runs; where a theorem needs more, the extra hypothesis is in its
statement and explained here. Each proof has the same shape: an inductive invariant,
one lemma per action or group of actions that the action keeps it, and a temporal
step. The invariants were checked with TLC on the instances of the runs before they
were proved.

### 10.1 CampaignStoreProofs

For every DAG, any number of processes and every value of the bounds (nonempty finite
nodes, the package is a tail node if the campaign has one, `NoWorker` is no process,
naturals for the bounds), whichever attempts carry a bundle:

- **TypeCorrect** `Spec => []TypeOK`. Inductive as `TypeInv == TypeOK /\
  LeaseIdentity`: a recovery refunds the attempt of the row's generation, and only
  `LeaseIdentity` says that a running row has a generation in range.
- **BudgetNeverOverdrawn** `Spec => []BudgetRespected`: every charge is guarded,
  resumes only raise the budget, refunds only lower the usage.
- **LeasesAlwaysFenced** `Spec => []LeasesFenced`, assuming the operator does not
  use both `failCampaign` and `retryNode`. The strengthening `FenceInv` says that
  a failed row implies an ended campaign, that at most one row failed, and that
  live rows occur only in a running campaign or after a required-path stop.
  The assumption is needed: failCampaign fails every open row, and retrying one
  of them reopens the campaign over the others.
- **IntegrationNeverOvertaken** `Spec => []IntegrationPointOfNoReturn` without
  cancelNode, from FenceInv and "integration is begun on a prepared result".
- **ReleaseAlwaysMatches** `Spec => []ReleaseMatchesPackage`: no transaction
  touches a completed campaign (lemma `CompletedFrozen`), and a release is only published
with the completion (`PublishStep`, `ReleasedFrozen`).
- **SettledStaysFinal** `Spec => SettledIsFinal`, the action property.

### 10.2 CampaignWorkProofs

The accounting and the order of work, on top of `TypeInv` and `FenceInv`:

- **UncertainActionsStay** `Spec => UncertainNotRequeued`, an action property, for
  every set of commands: of the actions that requeue a running row, the recovery
  looks at the journal first and a pause changes the campaign's status with it.
- **RefundsNeverActed** `Spec => []RefundedNeverActed` and
  **UsageAlwaysConserved** `Spec => []UsageConserved`, for every set of commands. Both
  rest on `LedgerInv`, which says for each attempt (node and generation) what its
  journal rows allow: nothing is reserved before the start and nothing started beyond
  the current generation; a running row has its own attempt number and no refund; a
  refunded attempt has started no action, and the counter of its row is below its
  number, so that it is not refunded again. Each action moves the charge of one attempt, and by
  `SumMoves` the sum of all of them moves with it.
- **AttemptsAlwaysBounded** `Spec => []AttemptsBounded`, for campaigns that are not
  paused and whose budget is never raised. A pause requeues running rows with their
  counters unchanged, and a resume with a larger budget reopens what an exhausted
  budget skipped; with either, the bound does not hold of the code. `AttemptInv`: a row
  is queued or leased only while its counter is within the limit, and a campaign
  that stopped on its budget still has none left (`ExhaustedStays`).
- **WorkFollowsDependencies** `Spec => []DependencyOrder`, unless both failCampaign and
  retryNode are in use. `GraphInv` adds what stopping, skipping and reopening leave
  behind: rows that a failed sibling or an exhausted budget skipped are `Dormant`, they
  occur only in a campaign that ended the matching way (`Asleep`), and nothing live or
  completed depends on them (`Undisturbed`), so reopening them breaks no order.
- **CompletionIsPackaged** `Spec => []CompletedIsPackaged`, also without cancelNode,
  which can skip the package path of a paused campaign. As long as the campaign may run
  again its package node, if it has one, is open or skipped in a way that is reopened,
  or it completed and the release is there exactly if its result carries a bundle
  (`PackageHeld`).
- **RunningNeverStuck** `Spec => []NeverStuck` for acyclic dependencies, given as a
  rank of the nodes: the unsettled node of least rank has only settled
  dependencies. That there is an unsettled node (`SomePending`) rests on the projection:
  the transaction that settles the last row also completes the campaign. The exception
  is skipFutureRounds in a paused campaign, which settles rows without a projection, and
  resume does not project either. `NoIdleSkip` excludes it: the campaign has no
  convergence nodes, or is never paused, or has a package whose results always carry a
  bundle, which therefore completes only together with the campaign; `FollowUpGuarded` is
  what the pending skips then leave open. Where a mode has rounds but no package
  (`local-review-loop`, `campaign-mode-graph.mjs:483`), two follow-ups that are still
  outstanding, a requeued live node and a pause could bring a resumed campaign to rest
  with nothing to do; the theorem does not cover that combination.
- **IntegratedResultsKept** `Spec => []IntegratedNeverDropped`, assuming that the nodes
  that skipFutureRounds may skip do not integrate (`Round[n] <= Round[c]`). The
  assumption came out of the failed proof: skipFutureRounds is a second transaction
  after completeNode, and a node of the next round that was claimed, integrated and
  requeued in between is skipped with its result in the workspace.

### 10.3 FiniteSums

`SumFunctionOnSet` of the community modules over a finite set: the empty sum, sums
of functions that agree, one element more, a subset, zeros, and one value that
changes. The operator is a recursive function over subsets; that function exists
and is unique by induction on the cardinality, written as a least counterexample
(`LeastNumber`), since the library's induction rules take an operator as a parameter.

### 10.4 FencedMutationProofs

For all sets of databases and processes and all bounds (`NoProc` is no process,
`NoDb` no database):

- **FencedTypeCorrect** `Spec => []TypeOK`: the sequence numbers stay in range.
- **AbortsNeverHitCommits** `Spec => []AbortedNeverCommitted`.
- **PermitsFollowCommits** `Spec => []PermitOnlyWhenCommitted`.
- **ChainsNeverFork** `Spec => []ChainsAgree`.
- **MutationsImplementLog** `Spec => ImplementsLog`, the refinement of MutationLog.

The first three rest on one inductive invariant `IInv`. Its core: from BEGIN IMMEDIATE to
COMMIT or ROLLBACK a process holds the write lock of its database (`Locked`); a
reservation is `Dead` when it is durable nowhere and no process is between
reserving and committing it; whatever is aborted, in an authority row, in a
process's hands or in a late request, is dead (`AbortsDead`, `Undecided`), and
whatever is being finalized is durable (`FinalizesDurable`, `Decided`). A
reconciliation that holds the lock and sees no marker knows that no writer is
left, which is why its second look has to be under the lock. `HeadsOrdered` (a
head's sequence number is at most its attempt) keeps the numbers in range. The
lemmas `QuietStep`, `MarkerStep`, `ReceiptStep` and `AuthorityStep` say what is left
to show of a step that changes only one part of the state.

The last two add `Chained`: at most one reservation is outstanding and it is built on the
heads of this moment (`OneReserved`), the finalized mutations have the global
sequences up to the head, one each (`GlobalChain`), the markers of a database are its
chain with at most one that is reserved (`LocalChain`), and a process about to commit
still holds its reservation (`Entitled`). Every step is one of six kinds
(`Classified`); a commit is `MutationLog`'s step that makes a mutation durable, a
finalization the one that publishes it, and the others leave log and pending
alone.

### 10.5 RecoverabilityProofs

For every set of callers, validities and bounds: **RecoverabilityTypeCorrect**
`Spec => []TypeOK` and **PermitsAreCovered** `Spec => []PermitCovered`. The invariant:
the published bundle is not ahead of the authority's head (`HeadBound`), whoever waits
waits for a run that settles (`Waits`), the bundle a run has read and the verified head
are covered by the published bundle (`Covered`), and what this process was told is
finalized is verified or makes the epoch dirty (`Told`).

### 10.6 ResourceGovernorProofs

For all requests, sizes, limits, terms and delays: **GovernorTypeCorrect**
`Spec => []TypeOK`, **HoldersKeepTheirRows** `Spec => []HolderKeepsRow`,
**LimitsNeverExceeded** `Spec => []NoOvercommit`, **LineIsKept**
`Spec => FirstComeFirstServed`. `NoOvercommit` follows from two facts about the
table: a holder's row outlives what the holder believes (`HolderKeepsRow`, with
`Punctual`: a holder knows a deadline no later than the one its next heartbeat writes
on an old reading of the clock), and the rows always fit, expired ones included
(`RowsFit`: a grant checks the sum in its transaction). The sums are
those of FiniteSums.

### 10.7 WorkspaceIntegrationProofs

For any number of processes, attempts, files and tokens: **LockIsExclusive**
`Spec => []OneIntegrator`, **IntegrationTypeCorrect** `Spec => []TypeOK`,
**JournalIsWriteAhead** `Spec => []WriteAhead`, **ReceiptsAreExact**
`Spec => ReceiptIsExact`, **ReceiptsTellTheSource** `Spec => []SourceIsReceipts`.
The lock comes first (`LockInv`): whoever has a token has it in the directory, and
the token an evictor has read is stale, so it cannot remove a living one's. On it
rests `JournalInv`: what an attempt wrote is in its journal but for the file in flight
(`JournalOf`), the process at work is on a described attempt with its journal
(`WorkOf`), and the source differs from what the receipts say only where an attempt
without a receipt has written (`SourceInv`).

### 10.8 ScopedFileProofs

For any number of processes, kills, errors and outside writes: **ScopedTypeCorrect**
`Spec => []TypeOK` (whoever is at work holds the target lock, until a late reclaimer has
removed what a later holder made), **PreimageAlwaysKept** `Spec => []PreimageKept`,
**ProtocolIsAtomic** `Spec => ImplementsAtomicFile`. `ScopedInv` says that, while
nobody outside writes the file, the directory, the records and the point of the
process at work determine each other. `Images` (what each name can hold), `Recorded`
(a PREPARED record names complete files) and `Standing` (what is at the target, by the
records) do not mention the process, so a kill keeps them; `Where` is what the
process at work may rely on at each point, and it is empty for `recover`, `abort`
and `unlock`, to which errors lead. From it the image is "after" exactly when the
completion is published (`Told`), so publishing is the step of AtomicFile.

### 10.9 Only model-checked

Liveness: `ExpiredLeasesRecovered`, `ReservationsResolved`, `EpochRestored`,
`SmallestServed`, `FinishedOrFailedClosed` and `Settles` need fairness and ENABLED,
which this prover does not treat. Every other property of a passing run is a theorem.

## 11. Not modelled

`extendCampaign`, the wall-clock, token and cost budgets, the waiver policy, node order and phase
reporting, telemetry and queries, and the components marked `not_modelled` in
`PROJECT.json`. Of the state authority: schema transitions, rebinds, backups and
challenges. SQLite transactions are assumed atomic and isolated.

The modules stand for a small share of the repository's lines. Most of its
1497 implementation files hold no shared state: contracts that validate and hash
one JSON document, command line programs, self tests and verification harnesses,
journal profiles and other data, executors that call a model or a LaTeX build.
What they compute is a function of their input and is what the repository's tests
reach. The parts with state that are not modelled yet are items 10 and 11 of the plan.
