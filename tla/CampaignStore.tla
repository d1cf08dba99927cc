---------------------------- MODULE CampaignStore ----------------------------
(***************************************************************************)
(* The campaign store of the paper automation plane: one campaign, the DAG *)
(* of its nodes, the leases worker processes hold on them, the usage they  *)
(* are charged, and the journal of the external actions they perform.      *)
(*                                                                         *)
(* Every operation of the store is ONE fenced SQLite transaction           *)
(* (paper-adapters/persistence/native-store-campaign-mutation-execution),  *)
(* so every operation is one action here.  A transaction whose guarded     *)
(* UPDATE changes no row throws and rolls back: it is a disabled action.   *)
(* The callers are any number of engine processes that interleave freely,  *)
(* keep acting on claims that were taken from them, and may crash.         *)
(***************************************************************************)
EXTENDS Integers, FiniteSets, Functions

CONSTANTS
  Nodes,          \* campaign_nodes rows of the campaign
  Workers,        \* engine processes (dispatcher identities)
  NoWorker,       \* lease_owner IS NULL
  Deps,           \* dependencies_json of each node
  Package,        \* the node of kind 'package'; no node in modes without one
  Bundled,        \* attempts of it whose result carries a release bundle
  Convergence,    \* nodes of kind 'convergence'
  Tail,           \* final-compile, research-verify, package, release-package
  Round,          \* round_index of each node
  MaxRounds,      \* max_rounds of the campaign
  Integrating,    \* nodes whose result carries a workspace integration
  ActionNodes,    \* nodes whose executor performs an external action
  MaxAttempts,    \* max_attempts of every node
  SettleQueued,   \* terminalSiblingSettlementPolicyVersion = 1
  Budgets,        \* values maxAgentCalls may take; the smallest is initial
  LeaseTerm,      \* clock ticks a granted lease lasts
  Commands,       \* operator commands and faults the environment may issue
  MaxGen,         \* bound on lease_generation
  MaxReserve      \* bound on sub-reservations and nested calls per attempt

Gens == 1 .. MaxGen

ASSUME NodesAssumption ==
  /\ IsFiniteSet(Nodes) /\ Nodes # {}
  /\ Deps \in [Nodes -> SUBSET Nodes]
  /\ Round \in [Nodes -> Nat] /\ MaxRounds \in Nat
  /\ Convergence \subseteq Nodes /\ Tail \subseteq Nodes
  /\ Integrating \subseteq Nodes /\ ActionNodes \subseteq Nodes
  /\ Package \in Nodes => Package \in Tail

ASSUME WorkersAssumption == NoWorker \notin Workers

ASSUME BoundsAssumption ==
  /\ MaxAttempts \in Nat \ {0} /\ LeaseTerm \in Nat \ {0}
  /\ MaxGen \in Nat /\ MaxReserve \in Nat /\ Bundled \subseteq Gens
  /\ SettleQueued \in BOOLEAN
  /\ Budgets \subseteq Nat /\ Budgets # {}

NodeStatus == {"queued", "leased", "running", "completed", "skipped",
               "failed_terminal", "external_outcome_uncertain"}
CampaignStatus == {"running", "paused", "stopped", "completed", "failed",
                   "cancelled"}
Integration == {"none", "pending", "integrating", "integrated"}
\* stop_reason of the campaign; a node skipped by a stop gets it as its class.
StopReason == {"none", "operator", "calls_exhausted", "not_converged",
               "required_path"}
FailureClass == StopReason \cup {"node_failed", "lease_expired_recovered",
               "external_outcome_uncertain", "sibling_cancelled",
               "sibling_uncertain", "node_cancelled", "converged"}

VARIABLES
  cstatus, stopReason, budget, usage,        \* paper_campaigns
  status, owner, lease, attempt, gen, tries, \* campaign_nodes: lease columns
  prep, integ, result, failure, blame,       \* campaign_nodes: result columns
  attemptNo, reserved,                       \* events: started, subreservation
  actStarted, actDone,                       \* events: external action journal
  refunded, nested,                          \* events: refunds; recorded usage
  release,                                   \* campaign_current_releases
  claimant, crashed, followUp, cancelRead    \* memory of the engine processes

campaignVars == <<cstatus, stopReason, budget, usage>>
leaseVars    == <<owner, lease, attempt, gen>>
resultVars   == <<prep, integ, result>>
failureVars  == <<failure, blame>>
releaseVars  == <<release>>
journalVars  == <<attemptNo, reserved, actStarted, actDone, refunded, nested>>
processVars  == <<claimant, crashed, followUp, cancelRead>>
vars == <<campaignVars, status, leaseVars, tries, resultVars, failureVars,
          journalVars, releaseVars, processVars>>

-----------------------------------------------------------------------------
(* Predicates and helpers the transactions share. *)

Done == {"completed", "skipped"}
Live == {"leased", "running"}
\* Mutant: a campaign command also settles rows whose outcome is uncertain.
OpenOrUncertain == Live \cup {"queued", "external_outcome_uncertain"}
Open == Live \cup {"queued"}

\* f with the rows of S set to v: an UPDATE over a set of rows.
Put(f, S, v) == [n \in Nodes |-> IF n \in S THEN v ELSE f[n]]

\* lease_owner = NULL, lease_expires_at = NULL, attempt_id = NULL for S.
ReleaseRows(S) ==
  /\ owner' = Put(owner, S, NoWorker)
  /\ lease' = Put(lease, S, 0)
  /\ attempt' = Put(attempt, S, 0)
  /\ UNCHANGED gen

\* lease_owner = NULL, lease_expires_at = NULL; attempt_id stays.
ReleaseKeepingAttempt(n) ==
  /\ owner' = [owner EXCEPT ![n] = NoWorker]
  /\ lease' = [lease EXCEPT ![n] = 0]
  /\ UNCHANGED <<attempt, gen>>

\* A live process that is not between completeNode and the convergence follow-up,
\* which it executes in the same synchronous turn.
Acting(w) == w \in Workers \ crashed /\ \A f \in followUp : f[1] # w

\* The fence every worker statement repeats: status, lease owner, attempt,
\* generation, unexpired lease, running campaign.
Fence(n, g, st) ==
  /\ Acting(claimant[n][g])
  /\ status[n] = st
  /\ owner[n] = claimant[n][g]
  /\ attempt[n] = g
  /\ gen[n] = g
  /\ lease[n] > 0
  /\ cstatus = "running"

\* Mutants: a dependency at work counts as done; a skipped one does not.
ReadyOverLive(n) ==
  status[n] = "queued" /\ \A d \in Deps[n] : status[d] \in Done \cup Live
ReadyOverCompleted(n) ==
  status[n] = "queued" /\ \A d \in Deps[n] : status[d] = "completed"

Ready(n) == status[n] = "queued" /\ \A d \in Deps[n] : status[d] \in Done

\* Mutant: the projection forgets terminal failures.
ProjectedWithoutFailure(st) ==
  IF cstatus = "running" /\ \A n \in Nodes : st[n] \in Done THEN "completed"
  ELSE cstatus

\* Status the projection statement derives from the rows st of a campaign
\* that is running; it leaves a campaign in any other status alone.
Projected(st) ==
  IF cstatus # "running" THEN cstatus
  ELSE IF \E n \in Nodes : st[n] = "failed_terminal" THEN "failed"
  ELSE IF \A n \in Nodes : st[n] \in Done THEN "completed"
  ELSE "running"

\* Mutants: only one of the two integration states is a point of no return.
NoneIntegrated(S) ==
  \A n \in S : status[n] # "completed" => integ[n] # "integrated"
NoneInFlight(S) ==
  \A n \in S : status[n] # "completed" => integ[n] # "integrating"

\* NOT EXISTS(... status<>'completed' AND integration IN (integrating, integrated)).
NoneIntegrating(S) ==
  \A n \in S : status[n] # "completed" =>
                 integ[n] \notin {"integrating", "integrated"}

\* externalActionId: the node's action under the current campaign plan, whose
\* hash changes exactly when a resume overrides a budget.
ActionId(n) == <<n, budget>>
StartedBy(n, g) == {a \in actStarted : a[1][1] = n /\ a[2] = g}
Unresolved(n, g) == StartedBy(n, g) \ actDone
CompletedAction(id) == \E a \in actDone : a[1] = id

\* cascadeCancelledNodeIds: the least set holding n and closed under dependents.
Cascade(n) ==
  {m \in Nodes : \A S \in SUBSET Nodes :
     (n \in S /\ \A x \in Nodes : Deps[x] \cap S # {} => x \in S) => m \in S}

\* Mutant: off by one at the budget.
AffordableAtLimit == usage <= budget

Affordable == usage + 1 <= budget

\* The types of the five groups of state.
CampaignTypes ==
  /\ cstatus \in CampaignStatus /\ stopReason \in StopReason
  /\ budget \in Budgets /\ usage \in Nat
NodeTypes ==
  /\ status \in [Nodes -> NodeStatus]
  /\ owner \in [Nodes -> Workers \cup {NoWorker}]
  /\ lease \in [Nodes -> 0 .. LeaseTerm]
  /\ attempt \in [Nodes -> 0 .. MaxGen] /\ gen \in [Nodes -> 0 .. MaxGen]
  /\ tries \in [Nodes -> Nat]
ResultTypes ==
  /\ prep \in [Nodes -> 0 .. MaxGen] /\ integ \in [Nodes -> Integration]
  /\ result \in [Nodes -> 0 .. MaxGen]
  /\ failure \in [Nodes -> FailureClass] /\ blame \in [Nodes -> SUBSET Nodes]
  /\ release \in 0 .. MaxGen
JournalTypes ==
  /\ attemptNo \in [Nodes -> [Gens -> Nat]]
  /\ reserved \in [Nodes -> [Gens -> Nat]]
  /\ actStarted \subseteq (Nodes \X Budgets) \X Gens
  /\ actDone \subseteq actStarted
  /\ refunded \subseteq Nodes \X Gens
  /\ nested \in [Nodes -> [Gens -> Nat]]
ProcessTypes ==
  /\ claimant \in [Nodes -> [Gens -> Workers \cup {NoWorker}]]
  /\ crashed \subseteq Workers
  /\ followUp \subseteq Workers \X Convergence \X {"skip", "stop"}
  /\ cancelRead \subseteq Nodes

\* Every column and every event has its type; in particular counters that go
\* down (usage refunds, attempts given back) never go below zero.
TypeOK == CampaignTypes /\ NodeTypes /\ ResultTypes /\ JournalTypes /\ ProcessTypes

\* createCampaign: every node queued, the campaign running (paused instead
\* when the spec carries an execution admission not yet authorized).
Init ==
  /\ cstatus \in {"running", "paused"} /\ stopReason = "none"
  /\ budget \in Budgets /\ (\A b \in Budgets : budget <= b) /\ usage = 0
  /\ status = [n \in Nodes |-> "queued"]
  /\ owner = [n \in Nodes |-> NoWorker] /\ lease = [n \in Nodes |-> 0]
  /\ attempt = [n \in Nodes |-> 0] /\ gen = [n \in Nodes |-> 0]
  /\ tries = [n \in Nodes |-> 0]
  /\ prep = [n \in Nodes |-> 0] /\ integ = [n \in Nodes |-> "none"]
  /\ result = [n \in Nodes |-> 0]
  /\ failure = [n \in Nodes |-> "none"] /\ blame = [n \in Nodes |-> {}]
  /\ attemptNo = [n \in Nodes |-> [g \in Gens |-> 0]]
  /\ reserved = [n \in Nodes |-> [g \in Gens |-> 0]]
  /\ actStarted = {} /\ actDone = {} /\ refunded = {}
  /\ nested = [n \in Nodes |-> [g \in Gens |-> 0]]
  /\ release = 0
  /\ claimant = [n \in Nodes |-> [g \in Gens |-> NoWorker]]
  /\ crashed = {} /\ followUp = {} /\ cancelRead = {}

-----------------------------------------------------------------------------
(* Leases. *)

\* claimReady: lease a ready node of a running campaign to process w.
ClaimReady(w, n) ==
  /\ Acting(w) /\ cstatus = "running" /\ Ready(n) /\ gen[n] < MaxGen
  /\ status' = [status EXCEPT ![n] = "leased"]
  /\ owner' = [owner EXCEPT ![n] = w]
  /\ lease' = [lease EXCEPT ![n] = LeaseTerm]
  /\ gen' = [gen EXCEPT ![n] = @ + 1]
  /\ attempt' = [attempt EXCEPT ![n] = gen[n] + 1]
  /\ claimant' = [claimant EXCEPT ![n][gen[n] + 1] = w]
  /\ UNCHANGED <<campaignVars, tries, resultVars, failureVars, journalVars,
                 releaseVars, crashed, followUp, cancelRead>>

\* renewNodeLease, the heartbeat of a running attempt.
RenewNodeLease(n, g) ==
  /\ Fence(n, g, "running") /\ lease[n] < LeaseTerm
  /\ lease' = [lease EXCEPT ![n] = LeaseTerm]
  /\ UNCHANGED <<campaignVars, status, owner, attempt, gen, tries, resultVars,
                 failureVars, journalVars, releaseVars, processVars>>

\* The wall clock moves towards the expiry of n's lease.
ClockTick(n) ==
  /\ owner[n] # NoWorker /\ lease[n] > 0
  /\ lease' = [lease EXCEPT ![n] = @ - 1]
  /\ UNCHANGED <<campaignVars, status, owner, attempt, gen, tries, resultVars,
                 failureVars, journalVars, releaseVars, processVars>>

\* An engine process dies.  At least one process stays (a restart has a new
\* identity), which bounds the number of crashes.
Crash(w) ==
  /\ "crash" \in Commands /\ w \notin crashed /\ crashed \cup {w} # Workers
  /\ crashed' = crashed \cup {w}
  /\ followUp' = {f \in followUp : f[1] # w}
  /\ UNCHANGED <<campaignVars, status, leaseVars, tries, resultVars,
                 failureVars, journalVars, releaseVars, claimant, cancelRead>>

\* recoverExpiredLeases takes a lease that has expired, or whose owner process
\* no longer exists (processIdentityIsStale).
Recoverable(n) ==
  /\ cstatus = "running" /\ status[n] \in Live
  /\ lease[n] = 0 \/ owner[n] \in crashed

\* Mutant: the attempt counter always goes down, unguarded.
RequeueAlwaysSpent(n, spent) ==
  /\ status' = [status EXCEPT ![n] = "queued"]
  /\ tries' = [tries EXCEPT ![n] = @ - 1]
  /\ ReleaseRows({n})
  /\ failure' = [failure EXCEPT ![n] = "lease_expired_recovered"]
  /\ integ' = [integ EXCEPT ![n] = IF @ = "integrating" THEN "pending" ELSE @]
  /\ UNCHANGED <<stopReason, cstatus, budget, prep, result, blame, releaseVars,
                 processVars>>

\* S.recoverLease: back to the queue; an interrupted integration is pending.
RequeueRecovered(n, spent) ==
  /\ status' = [status EXCEPT ![n] = "queued"]
  /\ tries[n] >= spent /\ tries' = [tries EXCEPT ![n] = @ - spent]
  /\ ReleaseRows({n})
  /\ failure' = [failure EXCEPT ![n] = "lease_expired_recovered"]
  /\ integ' = [integ EXCEPT ![n] = IF @ = "integrating" THEN "pending" ELSE @]
  /\ UNCHANGED <<stopReason, cstatus, budget, prep, result, blame, releaseVars,
                 processVars>>

\* Mutant: a running attempt is requeued like a leased one.
RecoverAnyLive(n) ==
  /\ Recoverable(n)
  /\ RequeueRecovered(n, 0)
  /\ UNCHANGED <<usage, journalVars>>

\* Disposition leased_requeue: the attempt had not started.
RecoverLeased(n) ==
  /\ Recoverable(n) /\ status[n] = "leased"
  /\ RequeueRecovered(n, 0)
  /\ UNCHANGED <<usage, journalVars>>

\* Mutant: an interrupted integration is not recovered.
RecoverPreparedSettled(n) ==
  /\ Recoverable(n) /\ status[n] = "running" /\ prep[n] # 0
  /\ integ[n] # "integrating"
  /\ RequeueRecovered(n, 1)
  /\ UNCHANGED <<usage, journalVars>>

\* Disposition prepared_result_recovery: the result is already journalled.
RecoverPrepared(n) ==
  /\ Recoverable(n) /\ status[n] = "running" /\ prep[n] # 0
  /\ RequeueRecovered(n, 1)
  /\ UNCHANGED <<usage, journalVars>>

\* Mutant: a completed external action no longer refuses the refund.
RefundUnlessUnresolved(n, g) ==
  /\ Unresolved(n, g) = {}
  /\ attemptNo[n][g] # 0
  /\ usage >= reserved[n][g]
  /\ usage' = usage - reserved[n][g]
  /\ refunded' = refunded \cup {<<n, g>>}
  /\ UNCHANGED <<attemptNo, reserved, actStarted, actDone, nested>>

\* infrastructureRefundFromEvents: what the attempt reserved, refused as soon
\* as the attempt has ANY external_action_started event, completed or not.
RefundFromEvents(n, g) ==
  /\ StartedBy(n, g) = {}
  /\ attemptNo[n][g] # 0
  /\ usage >= reserved[n][g]
  /\ usage' = usage - reserved[n][g]
  /\ refunded' = refunded \cup {<<n, g>>}
  /\ UNCHANGED <<attemptNo, reserved, actStarted, actDone, nested>>

\* Disposition pre_external_action_refund_requeue: nothing prepared, no action
\* unresolved; the attempt's reservations are given back.
RecoverRefund(n) ==
  /\ Recoverable(n) /\ status[n] = "running" /\ prep[n] = 0
  /\ Unresolved(n, gen[n]) = {}
  /\ RequeueRecovered(n, 1)
  /\ RefundFromEvents(n, gen[n])

\* Disposition external_outcome_uncertain: the attempt may have acted outside.
RecoverUncertain(n) ==
  /\ Recoverable(n) /\ status[n] = "running" /\ prep[n] = 0
  /\ Unresolved(n, gen[n]) # {}
  /\ status' = [status EXCEPT ![n] = "external_outcome_uncertain"]
  /\ ReleaseKeepingAttempt(n)
  /\ failure' = [failure EXCEPT ![n] = "external_outcome_uncertain"]
  /\ blame' = [blame EXCEPT ![n] = {}]
  /\ UNCHANGED <<campaignVars, tries, resultVars, journalVars, releaseVars,
                 processVars>>

RecoverExpiredLease(n) ==
  \/ RecoverLeased(n)
  \/ RecoverPrepared(n)
  \/ RecoverRefund(n)
  \/ RecoverUncertain(n)

-----------------------------------------------------------------------------
(* One attempt of a node. *)

\* startNode: spend an attempt and reserve its usage, or nothing when a
\* prepared result is replayed.
StartNode(n, g) ==
  LET charge == IF prep[n] = 0 THEN 1 ELSE 0 IN
  /\ Fence(n, g, "leased")
  /\ usage + charge <= budget
  /\ status' = [status EXCEPT ![n] = "running"]
  /\ tries' = [tries EXCEPT ![n] = @ + 1]
  /\ usage' = usage + charge
  /\ attemptNo' = [attemptNo EXCEPT ![n][g] = tries[n] + 1]
  /\ reserved' = [reserved EXCEPT ![n][g] = charge]
  /\ UNCHANGED <<cstatus, stopReason, budget, leaseVars, resultVars,
                 failureVars, actStarted, actDone, refunded, nested, releaseVars,
                 processVars>>

\* reserveNodeInfrastructureUsage: a nested call reserved before any external
\* action of the attempt; refundable with the attempt.
ReserveNodeInfrastructureUsage(n, g) ==
  /\ Fence(n, g, "running") /\ prep[n] = 0 /\ StartedBy(n, g) = {}
  /\ Affordable /\ reserved[n][g] <= MaxReserve
  /\ usage' = usage + 1
  /\ reserved' = [reserved EXCEPT ![n][g] = @ + 1]
  /\ UNCHANGED <<cstatus, stopReason, budget, status, leaseVars, tries,
                 resultVars, failureVars, attemptNo, actStarted, actDone,
                 refunded, nested, releaseVars, processVars>>

\* recordUsage with enforceBudget: a nested call after the attempt's external
\* action started.  The statement checks the campaign and not the lease.
RecordUsage(n, g) ==
  /\ Acting(claimant[n][g]) /\ StartedBy(n, g) # {}
  /\ cstatus = "running" /\ Affordable /\ nested[n][g] < MaxReserve
  /\ usage' = usage + 1
  /\ nested' = [nested EXCEPT ![n][g] = @ + 1]
  /\ UNCHANGED <<cstatus, stopReason, budget, status, leaseVars, tries,
                 resultVars, failureVars, attemptNo, reserved, actStarted,
                 actDone, refunded, releaseVars, processVars>>

\* markNodeExternalActionStarted: the intent is journalled before the call.
MarkNodeExternalActionStarted(n, g) ==
  /\ n \in ActionNodes /\ Fence(n, g, "running") /\ prep[n] = 0
  /\ ~ CompletedAction(ActionId(n))
  /\ <<ActionId(n), g>> \notin actStarted
  /\ actStarted' = actStarted \cup {<<ActionId(n), g>>}
  /\ UNCHANGED <<campaignVars, status, leaseVars, tries, resultVars,
                 failureVars, attemptNo, reserved, actDone, refunded, nested,
                 releaseVars, processVars>>

\* completeNodeExternalAction: the outcome is journalled by the attempt that
\* started the action, at most once per action identity.
CompleteNodeExternalAction(n, g) ==
  /\ Fence(n, g, "running")
  /\ ~ CompletedAction(ActionId(n))
  /\ <<ActionId(n), g>> \in actStarted
  /\ actDone' = actDone \cup {<<ActionId(n), g>>}
  /\ UNCHANGED <<campaignVars, status, leaseVars, tries, resultVars,
                 failureVars, attemptNo, reserved, actStarted, refunded,
                 nested, releaseVars, processVars>>

\* Mutant: after a pause the attempt counter is not compared.
DeferralFenceAnyAttempt(n, g) ==
  \/ Fence(n, g, "running")
  \/ /\ Acting(claimant[n][g])
     /\ status[n] = "queued" /\ owner[n] = NoWorker /\ attempt[n] = 0
     /\ gen[n] = g /\ cstatus \in {"paused", "running"}

\* The attempt still holds the node, or a pause put the node back in the queue
\* and the node's attempt counter still stands where this attempt left it.
DeferralFence(n, g) ==
  \/ Fence(n, g, "running")
  \/ /\ Acting(claimant[n][g])
     /\ status[n] = "queued" /\ owner[n] = NoWorker /\ attempt[n] = 0
     /\ gen[n] = g /\ cstatus \in {"paused", "running"}
     /\ attemptNo[n][g] = tries[n]

\* cancelNodeInfrastructureDeferred: the infrastructure was not ready, so the
\* attempt is undone and its reservations are refunded.
CancelNodeInfrastructureDeferred(n, g) ==
  /\ DeferralFence(n, g)
  /\ tries[n] > 0 /\ prep[n] = 0
  /\ RefundFromEvents(n, g)
  /\ status' = [status EXCEPT ![n] = "queued"]
  /\ tries' = [tries EXCEPT ![n] = @ - 1]
  /\ ReleaseRows({n})
  /\ failure' = [failure EXCEPT ![n] = "none"]
  /\ blame' = [blame EXCEPT ![n] = {}]
  /\ UNCHANGED <<cstatus, stopReason, budget, resultVars, releaseVars, processVars>>

\* prepareNodeResult: journal the result the executor returned, which for an
\* action node needs the outcome of the action (gate.run replays a completed one).
PrepareNodeResult(n, g) ==
  /\ Fence(n, g, "running") /\ prep[n] = 0
  /\ n \in ActionNodes => CompletedAction(ActionId(n))
  /\ prep' = [prep EXCEPT ![n] = g]
  /\ integ' = [integ EXCEPT ![n] = IF n \in Integrating THEN "pending" ELSE "none"]
  /\ UNCHANGED <<campaignVars, status, leaseVars, tries, result, failureVars,
                 journalVars, releaseVars, processVars>>

\* beginNodeResultIntegration: the workspace is about to change; the lease is
\* extended to cover it.
BeginNodeResultIntegration(n, g) ==
  /\ Fence(n, g, "running") /\ prep[n] # 0 /\ integ[n] = "pending"
  /\ integ' = [integ EXCEPT ![n] = "integrating"]
  /\ lease' = [lease EXCEPT ![n] = LeaseTerm]
  /\ UNCHANGED <<campaignVars, status, owner, attempt, gen, tries, prep,
                 result, failureVars, journalVars, releaseVars, processVars>>

\* markNodeResultIntegrated: the workspace integration receipt is recorded.
MarkNodeResultIntegrated(n, g) ==
  /\ Fence(n, g, "running") /\ prep[n] # 0 /\ integ[n] = "integrating"
  /\ integ' = [integ EXCEPT ![n] = "integrated"]
  /\ UNCHANGED <<campaignVars, status, leaseVars, tries, prep, result,
                 failureVars, journalVars, releaseVars, processVars>>

\* What the engine does next, outside the transaction, after it completed a
\* convergence node: skip the later rounds when the round was accepted, stop
\* when the last round was not.
ConvergenceFollowUp(w, n, accepted) ==
  IF n \notin Convergence THEN {}
  ELSE IF accepted THEN {<<w, n, "skip">>}
  ELSE IF Round[n] >= MaxRounds THEN {<<w, n, "stop">>} ELSE {}

\* publishRelease acts on the result of a package node that carries a bundle.
Publishes(n) == n = Package /\ prep[n] \in Bundled

\* completeNode: publish the prepared result, project the campaign and, for a
\* package with its bundle, insert the release that the completed campaign makes
\* current; when that insert selects no row the transaction rolls back.  The
\* result of a convergence node says whether the referees accepted the round.
CompleteNode(n, g, accepted) ==
  LET done == [status EXCEPT ![n] = "completed"] IN
  /\ Fence(n, g, "running") /\ prep[n] # 0
  /\ integ[n] \in {"none", "integrated"}
  /\ accepted \/ n \in Convergence
  /\ status' = done
  /\ result' = [result EXCEPT ![n] = prep[n]]
  /\ ReleaseKeepingAttempt(n)
  /\ failure' = [failure EXCEPT ![n] = "none"]
  /\ cstatus' = Projected(done)
  /\ IF Publishes(n)
     THEN cstatus' = "completed" /\ integ[n] = "integrated" /\ release = 0
          /\ release' = g
     ELSE release' = release
  /\ followUp' = followUp \cup ConvergenceFollowUp(claimant[n][g], n, accepted)
  /\ UNCHANGED <<stopReason, budget, usage, tries, prep, integ, blame,
                 journalVars, claimant, crashed, cancelRead>>

\* Mutant: only queued siblings are settled.
SiblingsQueued(n) ==
  {m \in Nodes \ {n} : status[m] = "queued" /\ SettleQueued}

\* inspectTerminalSiblingNodes and terminalSiblingSettlement: a terminal
\* failure of n settles every other open node in the same transaction.
Siblings(n) ==
  {m \in Nodes \ {n} : status[m] \in Live \/ (status[m] = "queued" /\ SettleQueued)}
OutcomeUncertain(m) ==
  \/ integ[m] = "integrating"
  \/ status[m] # "queued" /\ integ[m] = "integrated"

\* Mutant: off by one at the attempt limit.
CanRetryAtLimit(n) ==
  tries[n] <= (IF integ[n] = "integrated" THEN MaxAttempts + 1 ELSE MaxAttempts)

\* decideNodeFailureTransition: an integrated result earns one more attempt.
CanRetry(n) ==
  tries[n] < (IF integ[n] = "integrated" THEN MaxAttempts + 1 ELSE MaxAttempts)

\* The failing row itself: a prepared result is abandoned (the workspace moved
\* under it) or kept, an interrupted integration being pending again.
FailRow(n, abandon) ==
  /\ prep' = IF abandon THEN [prep EXCEPT ![n] = 0] ELSE prep
  /\ integ' = [integ EXCEPT ![n] =
       IF abandon THEN "none" ELSE IF @ = "integrating" THEN "pending" ELSE @]

\* failNode when another attempt is allowed.
FailNodeRetry(n, g, abandon) ==
  /\ Fence(n, g, "running") /\ CanRetry(n) /\ (abandon => prep[n] # 0)
  /\ status' = [status EXCEPT ![n] = "queued"]
  /\ ReleaseKeepingAttempt(n)
  /\ FailRow(n, abandon)
  /\ failure' = [failure EXCEPT ![n] = "node_failed"]
  /\ blame' = [blame EXCEPT ![n] = {}]
  /\ cstatus' = Projected(status')
  /\ UNCHANGED <<stopReason, budget, usage, tries, result, journalVars,
                 releaseVars, processVars>>

\* failNode when the failure is terminal (not retryable, or out of attempts).
FailNodeTerminal(n, g, abandon) ==
  LET S == Siblings(n)
      U == {m \in S : OutcomeUncertain(m)} IN
  /\ Fence(n, g, "running") /\ (abandon => prep[n] # 0)
  /\ status' = [m \in Nodes |->
       IF m = n THEN "failed_terminal"
       ELSE IF m \in U THEN "external_outcome_uncertain"
       ELSE IF m \in S THEN "skipped" ELSE status[m]]
  /\ owner' = Put(owner, S \cup {n}, NoWorker)
  /\ lease' = Put(lease, S \cup {n}, 0)
  /\ attempt' = Put(attempt, S, 0)
  /\ FailRow(n, abandon)
  /\ failure' = [m \in Nodes |->
       IF m = n THEN "node_failed"
       ELSE IF m \in U THEN "sibling_uncertain"
       ELSE IF m \in S THEN "sibling_cancelled" ELSE failure[m]]
  /\ blame' = [m \in Nodes |->
       IF m = n THEN {} ELSE IF m \in S THEN {n} ELSE blame[m]]
  /\ cstatus' = Projected(status')
  /\ UNCHANGED <<stopReason, budget, usage, gen, tries, result, journalVars,
                 releaseVars, processVars>>

-----------------------------------------------------------------------------
(* The life of the campaign. *)

\* pauseCampaign: live nodes return to the queue, their attempts spent.
PauseCampaign ==
  /\ "pause" \in Commands /\ cstatus = "running" /\ NoneIntegrating(Nodes)
  /\ cstatus' = "paused" /\ stopReason' = "operator"
  /\ LET S == {n \in Nodes : status[n] \in Live} IN
       status' = Put(status, S, "queued") /\ ReleaseRows(S)
  /\ UNCHANGED <<budget, usage, tries, resultVars, failureVars, journalVars,
                 releaseVars, processVars>>

\* resumeCampaign with evolveCampaignForResume: budgets never shrink; a
\* campaign stopped for its budget needs one beyond its usage, and reopens the
\* nodes that stop skipped; other stops are not resumable.
ResumeCampaign(b) ==
  LET exhausted == cstatus = "stopped" /\ stopReason = "calls_exhausted"
      S == {n \in Nodes : /\ exhausted /\ status[n] = "skipped"
                          /\ failure[n] = stopReason} IN
  /\ cstatus = "paused" \/ exhausted
  /\ b >= budget /\ (exhausted => b > usage)
  /\ cstatus' = "running" /\ stopReason' = "none" /\ budget' = b
  /\ status' = Put(status, S, "queued")
  /\ ReleaseRows(S)
  /\ failure' = Put(failure, S, "none") /\ blame' = Put(blame, S, {})
  /\ UNCHANGED <<usage, tries, resultVars, journalVars, releaseVars, processVars>>

\* cancelCampaign, failCampaign, stopCampaign: one guarded campaign statement
\* and one statement over the open nodes.
Terminate(from, to, rowStatus, reason) ==
  LET S == {n \in Nodes : status[n] \in Open} IN
  /\ cstatus \in from /\ NoneIntegrating(Nodes)
  /\ cstatus' = to /\ stopReason' = reason
  /\ status' = Put(status, S, rowStatus)
  /\ ReleaseRows(S)
  /\ failure' = Put(failure, S, reason)
  /\ UNCHANGED <<budget, usage, tries, resultVars, blame, journalVars, releaseVars>>

\* Mutant: a completed campaign can still be cancelled.
CancelCampaignAnyTime ==
  /\ "cancel" \in Commands
  /\ Terminate({"running", "paused", "stopped", "completed"}, "cancelled",
               "skipped", "operator")
  /\ UNCHANGED processVars

CancelCampaign ==
  /\ "cancel" \in Commands
  /\ Terminate({"running", "paused", "stopped"}, "cancelled", "skipped", "operator")
  /\ UNCHANGED processVars

FailCampaign ==
  /\ "fail" \in Commands
  /\ Terminate({"running", "paused", "stopped"}, "failed", "failed_terminal",
               "operator")
  /\ UNCHANGED processVars

\* campaignBudgetBlocker: no call is left for a node that needs one.
BudgetBlocker == usage >= budget

\* stopCampaign by an engine that claimed a node and found the call budget
\* exhausted before it started the attempt.
StopExhausted ==
  /\ BudgetBlocker
  /\ \E n \in Nodes, g \in Gens :
       Acting(claimant[n][g]) /\ attemptNo[n][g] = 0
  /\ Terminate({"running", "paused"}, "stopped", "skipped", "calls_exhausted")
  /\ UNCHANGED processVars

\* stopCampaign by the engine whose final convergence round was not accepted.
\* The engine's error handler swallows a refused stop: the campaign has ended, a
\* result is being integrated, or the process of a live node moved the campaign
\* revision between the stop's read and its transaction.
StopNotConverged(f) ==
  /\ f \in followUp /\ f[3] = "stop"
  /\ followUp' = followUp \ {f}
  /\ \/ Terminate({"running", "paused"}, "stopped", "skipped", "not_converged")
     \/ /\ \/ cstatus \notin {"running", "paused"}
           \/ ~ NoneIntegrating(Nodes)
           \/ \E n \in Nodes : status[n] \in Live
        /\ UNCHANGED <<campaignVars, status, leaseVars, tries, resultVars,
                       failureVars, journalVars, releaseVars>>
  /\ UNCHANGED <<claimant, crashed, cancelRead>>

\* Mutant: the tail is skipped with the rounds.
FutureRoundsAndTail(c) ==
  {n \in Nodes : Round[n] > Round[c] /\ status[n] = "queued"}

\* selectFutureRoundNodeIds: the queued nodes of the rounds after that of c,
\* except the tail of the campaign, whatever its round.
FutureRounds(c) ==
  {n \in Nodes \ Tail : Round[n] > Round[c] /\ status[n] = "queued"}

\* skipFutureRounds after an accepted convergence round, then the projection.
SkipFutureRounds(f) ==
  LET S == FutureRounds(f[2]) IN
  /\ f \in followUp /\ f[3] = "skip"
  /\ followUp' = followUp \ {f}
  /\ status' = Put(status, S, "skipped")
  /\ ReleaseRows(S)
  /\ failure' = Put(failure, S, "converged")
  /\ cstatus' = Projected(status')
  /\ UNCHANGED <<stopReason, budget, usage, tries, resultVars, blame,
                 journalVars, releaseVars, claimant, crashed, cancelRead>>

-----------------------------------------------------------------------------
(* Operator commands on one node. *)

Cancellable(n) == status[n] \notin Done \cup {"failed_terminal"}

\* S.cancelNodeInspect and S.cancelOneNode over the cascade of n.
SkipCascade(n) ==
  LET S == {m \in Cascade(n) : status[m] \in Open} IN
  /\ NoneIntegrating(Cascade(n))
  /\ status' = Put(status, S, "skipped")
  /\ ReleaseRows(S)
  /\ failure' = Put(failure, S, "node_cancelled") /\ blame' = Put(blame, S, {})
  /\ UNCHANGED <<budget, usage, tries, resultVars, journalVars, releaseVars,
                 claimant, crashed, followUp>>

\* cancelNode of a node the package needs, in a running campaign: the revision
\* it read must still be current, and the campaign stops with it.
CancelRequiredNode(n) ==
  /\ "cancel_node" \in Commands /\ Cancellable(n)
  /\ Package \in Cascade(n) /\ cstatus = "running"
  /\ SkipCascade(n)
  /\ cstatus' = "stopped" /\ stopReason' = "required_path"
  /\ UNCHANGED cancelRead

\* Any other cancelNode decides from what it reads here ...
CancelNodeRead(n) ==
  /\ "cancel_node" \in Commands /\ Cancellable(n) /\ n \notin cancelRead
  /\ ~ (Package \in Cascade(n) /\ cstatus = "running")
  /\ cancelRead' = cancelRead \cup {n}
  /\ UNCHANGED <<campaignVars, status, leaseVars, tries, resultVars,
                 failureVars, journalVars, releaseVars, claimant, crashed, followUp>>

\* ... and its transaction, which checks no revision, commits here.
CancelNodeCommit(n) ==
  /\ n \in cancelRead /\ cancelRead' = cancelRead \ {n}
  /\ SkipCascade(n)
  /\ cstatus' = Projected(status')
  /\ UNCHANGED stopReason

\* retryNode: the failed node and the siblings its failure cancelled start
\* over, keeping only a result already integrated; the campaign runs again.
RetryNode(n) ==
  LET S == {n} \cup {m \in Nodes : /\ status[m] = "skipped"
                                   /\ failure[m] = "sibling_cancelled"
                                   /\ blame[m] = {n}
                                   /\ integ[m] # "integrating"}
      Lost == {m \in S : integ[m] # "integrated"} IN
  /\ "retry" \in Commands /\ status[n] = "failed_terminal"
  /\ cstatus' = "running" /\ stopReason' = "none"
  /\ status' = Put(status, S, "queued") /\ tries' = Put(tries, S, 0)
  /\ ReleaseRows(S)
  /\ prep' = Put(prep, Lost, 0) /\ integ' = Put(integ, Lost, "none")
  /\ failure' = Put(failure, S, "none") /\ blame' = Put(blame, S, {})
  /\ UNCHANGED <<budget, usage, result, journalVars, releaseVars, processVars>>

-----------------------------------------------------------------------------
(* The specification. *)

Attempt(n, g) ==
  \/ RenewNodeLease(n, g)
  \/ StartNode(n, g)
  \/ ReserveNodeInfrastructureUsage(n, g)
  \/ RecordUsage(n, g)
  \/ MarkNodeExternalActionStarted(n, g)
  \/ CompleteNodeExternalAction(n, g)
  \/ CancelNodeInfrastructureDeferred(n, g)
  \/ PrepareNodeResult(n, g)
  \/ BeginNodeResultIntegration(n, g)
  \/ MarkNodeResultIntegrated(n, g)
  \/ \E accepted \in BOOLEAN : CompleteNode(n, g, accepted)
  \/ \E abandon \in BOOLEAN : FailNodeRetry(n, g, abandon)
  \/ \E abandon \in BOOLEAN : FailNodeTerminal(n, g, abandon)

Lifecycle ==
  \/ PauseCampaign
  \/ \E b \in Budgets : ResumeCampaign(b)
  \/ CancelCampaign
  \/ FailCampaign
  \/ StopExhausted
  \/ \E f \in followUp : StopNotConverged(f) \/ SkipFutureRounds(f)

Next ==
  \/ \E w \in Workers, n \in Nodes : ClaimReady(w, n)
  \/ \E w \in Workers : Crash(w)
  \/ \E n \in Nodes : ClockTick(n) \/ RecoverExpiredLease(n)
  \/ \E n \in Nodes, g \in Gens : Attempt(n, g)
  \/ Lifecycle
  \/ \E n \in Nodes : \/ CancelRequiredNode(n) \/ CancelNodeRead(n)
                      \/ CancelNodeCommit(n) \/ RetryNode(n)

Spec == Init /\ [][Next]_vars

-----------------------------------------------------------------------------
(* Safety. *)

\* A live row belongs to the process that claimed its current generation, under
\* that generation's attempt, and any other row to nobody.
LeaseIdentity ==
  \A n \in Nodes :
    /\ status[n] \in Live =>
         /\ attempt[n] = gen[n] /\ gen[n] \in Gens
         /\ owner[n] = claimant[n][gen[n]] /\ owner[n] \in Workers
    /\ status[n] \notin Live => owner[n] = NoWorker /\ lease[n] = 0

\* Work is leased only while the campaign runs: once a pause, stop, cancel,
\* failure or completion commits, no row is left leased or running, and a live
\* row belongs to the process that claimed its current generation, whatever
\* stale processes still try (Fence, pauseCampaign, terminalCampaign, failNode).
\* The one exception is cancelNode on the package path, which stops the campaign
\* and leaves the nodes outside the cancelled subtree as they were.
LeasesFenced ==
  /\ LeaseIdentity
  /\ \A n \in Nodes : status[n] \in Live =>
       cstatus = "running" \/ stopReason = "required_path"

\* Beginning to write a result into the workspace is a point of no return that
\* fences campaign control: until it ends, the node is running in a running
\* campaign, or its outcome is recorded as uncertain (NoneIntegrating,
\* terminalSiblingSettlement, recoverExpiredLeases).
IntegrationPointOfNoReturn ==
  \A n \in Nodes : integ[n] = "integrating" =>
    \/ status[n] = "running" /\ cstatus = "running"
    \/ status[n] = "external_outcome_uncertain"

\* A result already in the workspace is skipped only by a terminal sibling
\* failure, which retryNode can undo keeping the result (retrySiblingNode).
IntegratedNeverDropped ==
  \A n \in Nodes : integ[n] = "integrated" =>
    /\ prep[n] # 0
    /\ status[n] = "skipped" => failure[n] = "sibling_cancelled" /\ blame[n] # {}
    /\ status[n] = "completed" => result[n] = prep[n]

\* The current release exists only for a completed campaign whose package node
\* completed with an integrated result in exactly the released attempt
\* (publishCurrentRelease inside completeNode).
ReleaseMatchesPackage ==
  release # 0 =>
    /\ cstatus = "completed" /\ status[Package] = "completed"
    /\ attempt[Package] = release /\ gen[Package] = release
    /\ integ[Package] = "integrated" /\ result[Package] = prep[Package]
    /\ \A n \in Nodes : status[n] \in Done

\* A campaign that reports completion has the results of all its nodes: the rounds
\* it skipped never take the package with them, and it has a release exactly when
\* the package's result carries a bundle (completeNode, skipFutureRounds,
\* publishRelease; modes without a package complete without a release).
CompletedIsPackaged ==
  cstatus = "completed" =>
    /\ \A n \in Nodes : status[n] \in Done
    /\ Package \in Nodes => status[Package] = "completed"
    /\ release # 0 <=> (Package \in Nodes /\ result[Package] \in Bundled)

\* What the journal says each attempt was charged and did not get back.
Charges ==
  [a \in Nodes \X Gens |->
     nested[a[1]][a[2]] + (IF a \in refunded THEN 0 ELSE reserved[a[1]][a[2]])]

\* agent_call_count is exactly what the journal of reservations, refunds and
\* recorded nested calls adds up to: no path charges twice, refunds twice or
\* refunds what it did not charge (startNode, reserveNodeInfrastructureUsage,
\* recordUsage, cancelNodeInfrastructureDeferred, recoverExpiredLeases).
UsageConserved == usage = SumFunctionOnSet(Charges, Nodes \X Gens)

\* The budget is never overdrawn by attempts that reserve concurrently.
BudgetRespected == usage <= budget

\* An attempt whose usage was refunded never started an external action, before
\* the refund or after it (infrastructureRefundFromEvents, Fence).
RefundedNeverActed == \A r \in refunded : StartedBy(r[1], r[2]) = {}

\* A node runs, or has its result published, only over settled dependencies,
\* also after retries and resumes reopened nodes (claimNode, retryNode, resumeNodes).
DependencyOrder ==
  \A n \in Nodes : status[n] \in Live \cup {"completed"} =>
    \A d \in Deps[n] : status[d] \in Done

\* A running campaign can always make progress: some node is leased, running or
\* claimable, unless a node waits for an operator because its outcome is
\* uncertain.  Otherwise the engine's loop ends in
\* campaign_deadlock_or_unsatisfied_dependencies.
NeverStuck ==
  cstatus = "running" =>
    \/ \E n \in Nodes : status[n] \in Live \/ Ready(n)
    \/ \E n \in Nodes : status[n] = "external_outcome_uncertain"

\* Attempts are bounded: crashes, recoveries, deferrals and failures never give
\* a node more than its attempts, plus the one an integrated result earns.
AttemptsBounded == \A n \in Nodes : tries[n] <= MaxAttempts + 1

-----------------------------------------------------------------------------
(* What a step may never do. *)

\* Completed results and published releases are final, and a node whose outcome
\* is uncertain is never put back to work by any transaction.
SettledIsFinal ==
  [][/\ \A n \in Nodes : status[n] = "completed" =>
          status'[n] = "completed" /\ result'[n] = result[n]
     /\ \A n \in Nodes : status[n] = "external_outcome_uncertain" =>
          status'[n] = "external_outcome_uncertain"
     /\ release # 0 => release' = release /\ cstatus' = cstatus]_vars

\* While the campaign keeps running, a node whose attempt started an external
\* action without a recorded outcome or result goes back to the queue only by
\* its own live holder; recovery by another process never repeats the action.
UncertainNotRequeued ==
  [][\A n \in Nodes :
       (/\ status[n] = "running" /\ status'[n] = "queued" /\ cstatus' = "running"
        /\ prep[n] = 0 /\ Unresolved(n, gen[n]) # {})
       => owner[n] \notin crashed /\ lease[n] > 0]_vars

-----------------------------------------------------------------------------
(* Progress. *)

\* Every engine process polls claimReady, which first runs recoverExpiredLeases.
\* Nothing else is assumed of the processes: they may wait, stall or die.
Fairness == \A n \in Nodes : WF_vars(RecoverExpiredLease(n))

FairSpec == Spec /\ Fairness

\* A lease that expired, or whose process died, is taken back: the node does
\* not stay with it for ever (recoverExpiredLeases).
ExpiredLeasesRecovered ==
  \A n \in Nodes : Recoverable(n) ~> ~ Recoverable(n)

=============================================================================
