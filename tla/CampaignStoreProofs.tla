------------------------- MODULE CampaignStoreProofs -------------------------
(***************************************************************************)
(* Proofs about CampaignStore that hold for every DAG, every number of     *)
(* processes and every bound.                                              *)
(***************************************************************************)
EXTENDS CampaignStore, TLAPS

-----------------------------------------------------------------------------
(* Statements over sets of rows. *)

\* An UPDATE over a set of rows keeps the type of the column.
LEMMA PutType ==
  ASSUME NEW T, NEW f \in [Nodes -> T], NEW S, NEW v \in T
  PROVE  Put(f, S, v) \in [Nodes -> T]
  BY DEF Put

\* Releasing rows keeps the types of the lease columns.
LEMMA ReleaseRowsTypes ==
  ASSUME NodeTypes, NEW S, ReleaseRows(S)
  PROVE  /\ owner' \in [Nodes -> Workers \cup {NoWorker}]
         /\ lease' \in [Nodes -> 0 .. LeaseTerm]
         /\ attempt' \in [Nodes -> 0 .. MaxGen]
         /\ gen' \in [Nodes -> 0 .. MaxGen]
  <1>1. 0 \in 0 .. LeaseTerm /\ 0 \in 0 .. MaxGen
    BY BoundsAssumption
  <1> QED BY <1>1, PutType DEF NodeTypes, ReleaseRows

LEMMA ReleaseKeepingAttemptTypes ==
  ASSUME NodeTypes, NEW n \in Nodes, ReleaseKeepingAttempt(n)
  PROVE  /\ owner' \in [Nodes -> Workers \cup {NoWorker}]
         /\ lease' \in [Nodes -> 0 .. LeaseTerm]
         /\ attempt' \in [Nodes -> 0 .. MaxGen]
         /\ gen' \in [Nodes -> 0 .. MaxGen]
  <1>1. 0 \in 0 .. LeaseTerm
    BY BoundsAssumption
  <1> QED BY <1>1 DEF NodeTypes, ReleaseKeepingAttempt

\* A statement that releases exactly the rows it takes out of Live keeps every
\* lease with its claimant.
LEMMA ReleaseRowsIdentity ==
  ASSUME NodeTypes, LeaseIdentity, NEW S, ReleaseRows(S),
         claimant' = claimant,
         \A m \in Nodes : m \in S => status'[m] \notin Live,
         \A m \in Nodes : m \notin S => status'[m] = status[m]
  PROVE  LeaseIdentity'
  BY DEF NodeTypes, LeaseIdentity, ReleaseRows, Put

LEMMA ReleaseKeepingAttemptIdentity ==
  ASSUME NodeTypes, LeaseIdentity, NEW n \in Nodes, ReleaseKeepingAttempt(n),
         claimant' = claimant, status'[n] \notin Live,
         \A m \in Nodes : m # n => status'[m] = status[m]
  PROVE  LeaseIdentity'
  BY DEF NodeTypes, LeaseIdentity, ReleaseKeepingAttempt

\* The projection yields a campaign status.
LEMMA ProjectedType ==
  ASSUME CampaignTypes, NEW st
  PROVE  Projected(st) \in CampaignStatus
  BY DEF CampaignTypes, Projected, CampaignStatus

-----------------------------------------------------------------------------
(* Type correctness.  TypeOK alone is not inductive: the recovery of a row  *)
(* refunds the attempt of the row's generation, which is one of Gens only   *)
(* because a live row carries the generation its claim assigned.            *)

TypeInv == TypeOK /\ LeaseIdentity

LEMMA TypeInvInit == Init => TypeInv
  <1> SUFFICES ASSUME Init PROVE TypeInv
    OBVIOUS
  <1>1. 0 \in 0 .. LeaseTerm /\ 0 \in 0 .. MaxGen
    BY BoundsAssumption
  <1>2. CampaignTypes
    BY DEF Init, CampaignTypes, CampaignStatus, StopReason
  <1>3. NodeTypes
    BY <1>1 DEF Init, NodeTypes, NodeStatus
  <1>4. ResultTypes
    BY <1>1 DEF Init, ResultTypes, Integration, FailureClass, StopReason
  <1>5. JournalTypes
    BY DEF Init, JournalTypes
  <1>6. ProcessTypes
    BY DEF Init, ProcessTypes
  <1>7. LeaseIdentity
    BY DEF Init, LeaseIdentity, Live
  <1> QED BY <1>2, <1>3, <1>4, <1>5, <1>6, <1>7 DEF TypeInv, TypeOK

LEMMA ClaimReadyType ==
  ASSUME TypeInv, NEW w \in Workers, NEW n \in Nodes, ClaimReady(w, n)
  PROVE  TypeInv'
  <1> USE DEF TypeInv, TypeOK
  <1>0. gen[n] \in 0 .. MaxGen /\ gen[n] + 1 \in Gens
    BY BoundsAssumption DEF ClaimReady, NodeTypes, Gens
  <1>1. NodeTypes'
    BY <1>0, BoundsAssumption DEF ClaimReady, NodeTypes, Gens, NodeStatus, Live
  <1>2. CampaignTypes' /\ ResultTypes' /\ JournalTypes'
    BY DEF ClaimReady, CampaignTypes, ResultTypes, JournalTypes, campaignVars,
           resultVars, failureVars, journalVars, releaseVars
  <1>3. ProcessTypes'
    BY <1>0 DEF ClaimReady, ProcessTypes
  <1>4. LeaseIdentity'
    BY <1>0, <1>1, <1>3
       DEF ClaimReady, NodeTypes, ProcessTypes, LeaseIdentity, Live, Gens
  <1> QED BY <1>1, <1>2, <1>3, <1>4

\* Steps that change nothing but the time left on a live lease.
LEMMA LeaseTimeType ==
  ASSUME TypeInv, NEW n \in Nodes,
         lease' \in [Nodes -> 0 .. LeaseTerm],
         \A m \in Nodes : m # n => lease'[m] = lease[m],
         status[n] \in Live,
         UNCHANGED <<campaignVars, status, owner, attempt, gen, tries,
                     failureVars, journalVars, releaseVars, processVars>>,
         ResultTypes'
  PROVE  TypeInv'
  <1> USE DEF TypeInv, TypeOK
  <1>1. CampaignTypes' /\ JournalTypes' /\ ProcessTypes'
    BY DEF CampaignTypes, JournalTypes, ProcessTypes, campaignVars, journalVars,
           processVars
  <1>2. NodeTypes'
    BY DEF NodeTypes
  <1>3. LeaseIdentity'
    BY DEF LeaseIdentity, processVars
  <1> QED BY <1>1, <1>2, <1>3

LEMMA RenewNodeLeaseType ==
  ASSUME TypeInv, NEW n \in Nodes, NEW g \in Gens, RenewNodeLease(n, g)
  PROVE  TypeInv'
  <1>1. ResultTypes'
    BY DEF TypeInv, TypeOK, RenewNodeLease, ResultTypes, resultVars, failureVars,
           releaseVars
  <1>2. LeaseTerm \in 0 .. LeaseTerm
    BY BoundsAssumption
  <1>3. status[n] \in Live
    BY DEF RenewNodeLease, Fence, Live
  <1> QED BY <1>1, <1>2, <1>3, LeaseTimeType
          DEF TypeInv, TypeOK, NodeTypes, RenewNodeLease

LEMMA ClockTickType ==
  ASSUME TypeInv, NEW n \in Nodes, ClockTick(n)
  PROVE  TypeInv'
  <1>1. ResultTypes'
    BY DEF TypeInv, TypeOK, ClockTick, ResultTypes, resultVars, failureVars,
           releaseVars
  <1>2. lease[n] - 1 \in 0 .. LeaseTerm
    BY BoundsAssumption DEF TypeInv, TypeOK, NodeTypes, ClockTick
  <1>3. status[n] \in Live
    BY DEF TypeInv, LeaseIdentity, ClockTick
  <1> QED BY <1>1, <1>2, <1>3, LeaseTimeType
          DEF TypeInv, TypeOK, NodeTypes, ClockTick

LEMMA BeginNodeResultIntegrationType ==
  ASSUME TypeInv, NEW n \in Nodes, NEW g \in Gens,
         BeginNodeResultIntegration(n, g)
  PROVE  TypeInv'
  <1>1. ResultTypes'
    BY DEF TypeInv, TypeOK, BeginNodeResultIntegration, ResultTypes, Integration,
           failureVars, releaseVars
  <1>2. LeaseTerm \in 0 .. LeaseTerm
    BY BoundsAssumption
  <1>3. status[n] \in Live
    BY DEF BeginNodeResultIntegration, Fence, Live
  <1> QED BY <1>1, <1>2, <1>3, LeaseTimeType
          DEF TypeInv, TypeOK, NodeTypes, BeginNodeResultIntegration

LEMMA CrashType ==
  ASSUME TypeInv, NEW w \in Workers, Crash(w)
  PROVE  TypeInv'
  <1> USE DEF TypeInv, TypeOK
  <1>1. CampaignTypes' /\ NodeTypes' /\ ResultTypes' /\ JournalTypes'
    BY DEF Crash, CampaignTypes, NodeTypes, ResultTypes, JournalTypes,
           campaignVars, leaseVars, resultVars, failureVars, journalVars,
           releaseVars
  <1>2. ProcessTypes'
    BY DEF Crash, ProcessTypes
  <1>3. LeaseIdentity'
    BY DEF Crash, LeaseIdentity, leaseVars
  <1> QED BY <1>1, <1>2, <1>3

\* What every requeueing recovery keeps; the usage and the journal are left to
\* the disposition.
LEMMA RequeueRecoveredType ==
  ASSUME TypeInv, NEW n \in Nodes, NEW spent \in {0, 1},
         RequeueRecovered(n, spent)
  PROVE  NodeTypes' /\ ResultTypes' /\ ProcessTypes' /\ LeaseIdentity'
  <1> USE DEF TypeInv, TypeOK
  <1>1. NodeTypes'
    <2>1. status' \in [Nodes -> NodeStatus]
      BY DEF RequeueRecovered, NodeTypes, NodeStatus
    <2>2. tries' \in [Nodes -> Nat]
      BY DEF RequeueRecovered, NodeTypes
    <2> QED BY <2>1, <2>2, ReleaseRowsTypes DEF RequeueRecovered, NodeTypes
  <1>2. ResultTypes'
    BY DEF RequeueRecovered, ResultTypes, Integration, FailureClass, releaseVars
  <1>3. ProcessTypes'
    BY DEF RequeueRecovered, ProcessTypes, processVars
  <1>4. LeaseIdentity'
    <2>1. /\ \A m \in Nodes : m \in {n} => status'[m] \notin Live
          /\ \A m \in Nodes : m \notin {n} => status'[m] = status[m]
      BY DEF RequeueRecovered, NodeTypes, Live
    <2> QED BY <2>1, ReleaseRowsIdentity DEF RequeueRecovered, processVars
  <1> QED BY <1>1, <1>2, <1>3, <1>4

\* The refund of an attempt leaves usage a natural number.
LEMMA RefundType ==
  ASSUME TypeInv, NEW n \in Nodes, NEW g \in Gens, RefundFromEvents(n, g)
  PROVE  usage' \in Nat /\ JournalTypes'
  BY DEF TypeInv, TypeOK, RefundFromEvents, CampaignTypes, JournalTypes

LEMMA RecoverExpiredLeaseType ==
  ASSUME TypeInv, NEW n \in Nodes, RecoverExpiredLease(n)
  PROVE  TypeInv'
  <1> USE DEF TypeInv, TypeOK
  <1>1. CASE RecoverLeased(n) \/ RecoverPrepared(n)
    <2>1. PICK spent \in {0, 1} : RequeueRecovered(n, spent)
      BY <1>1 DEF RecoverLeased, RecoverPrepared
    <2>2. CampaignTypes' /\ JournalTypes'
      BY <1>1, <2>1 DEF RecoverLeased, RecoverPrepared, RequeueRecovered,
         CampaignTypes, JournalTypes, journalVars
    <2> QED BY <2>1, <2>2, RequeueRecoveredType
  <1>2. CASE RecoverRefund(n)
    <2>1. gen[n] \in Gens
      BY <1>2 DEF RecoverRefund, LeaseIdentity, Live
    <2>2. usage' \in Nat /\ JournalTypes'
      BY <1>2, <2>1, RefundType DEF RecoverRefund
    <2>3. RequeueRecovered(n, 1)
      BY <1>2 DEF RecoverRefund
    <2>4. CampaignTypes'
      BY <2>2, <2>3 DEF RequeueRecovered, CampaignTypes
    <2> QED BY <2>2, <2>3, <2>4, RequeueRecoveredType
  <1>3. CASE RecoverUncertain(n)
    <2>1. CampaignTypes' /\ JournalTypes' /\ ProcessTypes'
      BY <1>3 DEF RecoverUncertain, CampaignTypes, JournalTypes, ProcessTypes,
         campaignVars, journalVars, processVars
    <2>2. ResultTypes'
      BY <1>3 DEF RecoverUncertain, ResultTypes, FailureClass, resultVars,
         releaseVars
    <2>3. NodeTypes'
      BY <1>3, ReleaseKeepingAttemptTypes DEF RecoverUncertain, NodeTypes,
         NodeStatus
    <2>4. LeaseIdentity'
      BY <1>3, ReleaseKeepingAttemptIdentity DEF RecoverUncertain, NodeTypes,
         Live, processVars
    <2> QED BY <2>1, <2>2, <2>3, <2>4
  <1> QED BY <1>1, <1>2, <1>3 DEF RecoverExpiredLease

LEMMA StartNodeType ==
  ASSUME TypeInv, NEW n \in Nodes, NEW g \in Gens, StartNode(n, g)
  PROVE  TypeInv'
  <1> USE DEF TypeInv, TypeOK
  <1>1. CampaignTypes'
    BY DEF CampaignTypes, StartNode
  <1>2. NodeTypes'
    BY DEF NodeTypes, StartNode, NodeStatus, leaseVars
  <1>3. ResultTypes' /\ ProcessTypes'
    BY DEF ResultTypes, ProcessTypes, StartNode, resultVars, failureVars,
           releaseVars, processVars
  <1>4. JournalTypes'
    BY DEF JournalTypes, StartNode, NodeTypes
  <1>5. LeaseIdentity'
    BY DEF StartNode, NodeTypes, LeaseIdentity, Live, leaseVars, processVars, Fence
  <1> QED BY <1>1, <1>2, <1>3, <1>4, <1>5

\* Steps that only write the journal and the usage counter.
LEMMA JournalStepType ==
  ASSUME TypeInv, CampaignTypes', JournalTypes',
         UNCHANGED <<status, leaseVars, tries, resultVars, failureVars,
                     releaseVars, processVars>>
  PROVE  TypeInv'
  <1> USE DEF TypeInv, TypeOK
  <1>1. NodeTypes' /\ ResultTypes' /\ ProcessTypes'
    BY DEF NodeTypes, ResultTypes, ProcessTypes, leaseVars, resultVars,
           failureVars, releaseVars, processVars
  <1>2. LeaseIdentity'
    BY DEF LeaseIdentity, leaseVars, processVars
  <1> QED BY <1>1, <1>2

LEMMA JournalType ==
  ASSUME TypeInv, NEW n \in Nodes, NEW g \in Gens,
         \/ ReserveNodeInfrastructureUsage(n, g)
         \/ RecordUsage(n, g)
         \/ MarkNodeExternalActionStarted(n, g)
         \/ CompleteNodeExternalAction(n, g)
  PROVE  TypeInv'
  <1> USE DEF TypeInv, TypeOK
  <1>1. CASE ReserveNodeInfrastructureUsage(n, g)
    <2>1. CampaignTypes' /\ JournalTypes'
      BY <1>1 DEF ReserveNodeInfrastructureUsage, CampaignTypes, JournalTypes
    <2> QED BY <1>1, <2>1, JournalStepType DEF ReserveNodeInfrastructureUsage
  <1>2. CASE RecordUsage(n, g)
    <2>1. CampaignTypes' /\ JournalTypes'
      BY <1>2 DEF RecordUsage, CampaignTypes, JournalTypes
    <2> QED BY <1>2, <2>1, JournalStepType DEF RecordUsage
  <1>3. CASE MarkNodeExternalActionStarted(n, g)
    <2>1. CampaignTypes' /\ JournalTypes'
      BY <1>3 DEF MarkNodeExternalActionStarted, CampaignTypes, JournalTypes,
         ActionId, campaignVars
    <2> QED BY <1>3, <2>1, JournalStepType DEF MarkNodeExternalActionStarted
  <1>4. CASE CompleteNodeExternalAction(n, g)
    <2>1. CampaignTypes' /\ JournalTypes'
      BY <1>4 DEF CompleteNodeExternalAction, CampaignTypes, JournalTypes,
         campaignVars
    <2> QED BY <1>4, <2>1, JournalStepType DEF CompleteNodeExternalAction
  <1> QED BY <1>1, <1>2, <1>3, <1>4

LEMMA CancelNodeInfrastructureDeferredType ==
  ASSUME TypeInv, NEW n \in Nodes, NEW g \in Gens,
         CancelNodeInfrastructureDeferred(n, g)
  PROVE  TypeInv'
  <1> USE DEF TypeInv, TypeOK
  <1>1. usage' \in Nat /\ JournalTypes'
    BY RefundType DEF CancelNodeInfrastructureDeferred
  <1>2. CampaignTypes'
    BY <1>1 DEF CancelNodeInfrastructureDeferred, CampaignTypes
  <1>3. NodeTypes'
    <2>1. status' \in [Nodes -> NodeStatus] /\ tries' \in [Nodes -> Nat]
      BY DEF CancelNodeInfrastructureDeferred, NodeTypes, NodeStatus
    <2> QED BY <2>1, ReleaseRowsTypes
            DEF CancelNodeInfrastructureDeferred, NodeTypes
  <1>4. ResultTypes' /\ ProcessTypes'
    BY DEF CancelNodeInfrastructureDeferred, ResultTypes, ProcessTypes,
           FailureClass, StopReason, resultVars, releaseVars, processVars
  <1>5. LeaseIdentity'
    <2>1. /\ \A m \in Nodes : m \in {n} => status'[m] \notin Live
          /\ \A m \in Nodes : m \notin {n} => status'[m] = status[m]
      BY DEF CancelNodeInfrastructureDeferred, NodeTypes, Live
    <2> QED BY <2>1, ReleaseRowsIdentity
            DEF CancelNodeInfrastructureDeferred, processVars
  <1> QED BY <1>1, <1>2, <1>3, <1>4, <1>5

\* Steps that only write the result columns.
LEMMA ResultStepType ==
  ASSUME TypeInv, ResultTypes',
         UNCHANGED <<campaignVars, status, leaseVars, tries, journalVars,
                     processVars>>
  PROVE  TypeInv'
  <1> USE DEF TypeInv, TypeOK
  <1>1. CampaignTypes' /\ NodeTypes' /\ JournalTypes' /\ ProcessTypes'
    BY DEF CampaignTypes, NodeTypes, JournalTypes, ProcessTypes, campaignVars,
           leaseVars, journalVars, processVars
  <1>2. LeaseIdentity'
    BY DEF LeaseIdentity, leaseVars, processVars
  <1> QED BY <1>1, <1>2

LEMMA ResultType ==
  ASSUME TypeInv, NEW n \in Nodes, NEW g \in Gens,
         PrepareNodeResult(n, g) \/ MarkNodeResultIntegrated(n, g)
  PROVE  TypeInv'
  <1> USE DEF TypeInv, TypeOK
  <1>1. CASE PrepareNodeResult(n, g)
    <2>1. g \in 0 .. MaxGen
      BY BoundsAssumption DEF Gens
    <2>2. ResultTypes'
      BY <1>1, <2>1 DEF PrepareNodeResult, ResultTypes, Integration,
         failureVars, releaseVars
    <2> QED BY <1>1, <2>2, ResultStepType DEF PrepareNodeResult
  <1>2. CASE MarkNodeResultIntegrated(n, g)
    <2>1. ResultTypes'
      BY <1>2 DEF MarkNodeResultIntegrated, ResultTypes, Integration,
         failureVars, releaseVars
    <2> QED BY <1>2, <2>1, ResultStepType DEF MarkNodeResultIntegrated
  <1> QED BY <1>1, <1>2

LEMMA CompleteNodeType ==
  ASSUME TypeInv, NEW n \in Nodes, NEW g \in Gens, NEW accepted \in BOOLEAN,
         CompleteNode(n, g, accepted)
  PROVE  TypeInv'
  <1> USE DEF TypeInv, TypeOK
  <1>1. CampaignTypes'
    BY ProjectedType DEF CompleteNode, CampaignTypes
  <1>2. NodeTypes'
    <2>1. status' \in [Nodes -> NodeStatus]
      BY DEF CompleteNode, NodeTypes, NodeStatus
    <2> QED BY <2>1, ReleaseKeepingAttemptTypes DEF CompleteNode, NodeTypes
  <1>3. ResultTypes'
    <2>1. g \in 0 .. MaxGen
      BY BoundsAssumption DEF Gens
    <2>2. release' \in 0 .. MaxGen
      BY <2>1 DEF CompleteNode, ResultTypes
    <2> QED BY <2>2
            DEF CompleteNode, ResultTypes, FailureClass, StopReason
  <1>4. JournalTypes'
    BY DEF CompleteNode, JournalTypes, journalVars
  <1>5. ProcessTypes'
    BY DEF CompleteNode, ProcessTypes, ConvergenceFollowUp, Fence, Acting
  <1>6. LeaseIdentity'
    BY ReleaseKeepingAttemptIdentity DEF CompleteNode, NodeTypes, Live
  <1> QED BY <1>1, <1>2, <1>3, <1>4, <1>5, <1>6

LEMMA FailNodeRetryType ==
  ASSUME TypeInv, NEW n \in Nodes, NEW g \in Gens, NEW abandon \in BOOLEAN,
         FailNodeRetry(n, g, abandon)
  PROVE  TypeInv'
  <1> USE DEF TypeInv, TypeOK
  <1>1. CampaignTypes'
    BY ProjectedType DEF FailNodeRetry, CampaignTypes
  <1>2. NodeTypes'
    <2>1. status' \in [Nodes -> NodeStatus]
      BY DEF FailNodeRetry, NodeTypes, NodeStatus
    <2> QED BY <2>1, ReleaseKeepingAttemptTypes DEF FailNodeRetry, NodeTypes
  <1>3. ResultTypes'
    BY BoundsAssumption DEF FailNodeRetry, FailRow, ResultTypes, Integration,
       FailureClass, releaseVars
  <1>4. JournalTypes' /\ ProcessTypes'
    BY DEF FailNodeRetry, JournalTypes, ProcessTypes, journalVars, processVars
  <1>5. LeaseIdentity'
    BY ReleaseKeepingAttemptIdentity
       DEF FailNodeRetry, NodeTypes, Live, processVars
  <1> QED BY <1>1, <1>2, <1>3, <1>4, <1>5

LEMMA FailNodeTerminalType ==
  ASSUME TypeInv, NEW n \in Nodes, NEW g \in Gens, NEW abandon \in BOOLEAN,
         FailNodeTerminal(n, g, abandon)
  PROVE  TypeInv'
  <1> USE DEF TypeInv, TypeOK
  <1>1. CampaignTypes'
    BY ProjectedType DEF FailNodeTerminal, CampaignTypes
  <1>2. NodeTypes'
    <2>1. 0 \in 0 .. LeaseTerm /\ 0 \in 0 .. MaxGen
      BY BoundsAssumption
    <2>2. status' \in [Nodes -> NodeStatus]
      BY DEF FailNodeTerminal, NodeTypes, NodeStatus
    <2>3. /\ owner' \in [Nodes -> Workers \cup {NoWorker}]
          /\ lease' \in [Nodes -> 0 .. LeaseTerm]
          /\ attempt' \in [Nodes -> 0 .. MaxGen]
      BY <2>1, PutType DEF FailNodeTerminal, NodeTypes
    <2> QED BY <2>2, <2>3 DEF FailNodeTerminal, NodeTypes
  <1>3. ResultTypes'
    BY BoundsAssumption DEF FailNodeTerminal, FailRow, ResultTypes, Integration,
       FailureClass, releaseVars
  <1>4. JournalTypes' /\ ProcessTypes'
    BY DEF FailNodeTerminal, JournalTypes, ProcessTypes, journalVars, processVars
  <1>5. LeaseIdentity'
    BY DEF FailNodeTerminal, NodeTypes, LeaseIdentity, Live, Put, Siblings,
           processVars
  <1> QED BY <1>1, <1>2, <1>3, <1>4, <1>5

\* Lifecycle steps settle or reopen a set S of rows and release them.
LEMMA RowsStepType ==
  ASSUME TypeInv, NEW S, NEW st \in NodeStatus \ Live,
         CampaignTypes', ResultTypes', ProcessTypes', claimant' = claimant,
         status' = Put(status, S, st), ReleaseRows(S),
         tries' \in [Nodes -> Nat], UNCHANGED journalVars
  PROVE  TypeInv'
  <1> USE DEF TypeInv, TypeOK
  <1>1. status' \in [Nodes -> NodeStatus]
    BY PutType DEF NodeTypes
  <1>2. NodeTypes'
    BY <1>1, ReleaseRowsTypes DEF NodeTypes
  <1>3. JournalTypes'
    BY DEF JournalTypes, journalVars
  <1>4. LeaseIdentity'
    <2>1. /\ \A m \in Nodes : m \in S => status'[m] \notin Live
          /\ \A m \in Nodes : m \notin S => status'[m] = status[m]
      BY DEF Put
    <2> QED BY <2>1, ReleaseRowsIdentity
  <1> QED BY <1>2, <1>3, <1>4

LEMMA PauseCampaignType ==
  ASSUME TypeInv, PauseCampaign
  PROVE  TypeInv'
  <1> USE DEF TypeInv, TypeOK
  <1>1. CampaignTypes'
    BY DEF PauseCampaign, CampaignTypes, CampaignStatus, StopReason
  <1>2. ResultTypes' /\ ProcessTypes' /\ tries' \in [Nodes -> Nat]
    BY DEF PauseCampaign, ResultTypes, ProcessTypes, NodeTypes, resultVars,
           failureVars, releaseVars, processVars
  <1>3. "queued" \in NodeStatus \ Live
    BY DEF NodeStatus, Live
  <1> QED BY <1>1, <1>2, <1>3, RowsStepType DEF PauseCampaign, processVars

LEMMA ResumeCampaignType ==
  ASSUME TypeInv, NEW b \in Budgets, ResumeCampaign(b)
  PROVE  TypeInv'
  <1> USE DEF TypeInv, TypeOK
  <1>1. CampaignTypes'
    BY DEF ResumeCampaign, CampaignTypes, CampaignStatus, StopReason
  <1>2. ResultTypes'
    <2>1. "none" \in FailureClass /\ {} \in SUBSET Nodes
      BY DEF FailureClass, StopReason
    <2>2. failure' \in [Nodes -> FailureClass] /\ blame' \in [Nodes -> SUBSET Nodes]
      BY <2>1, PutType DEF ResumeCampaign, ResultTypes
    <2> QED BY <2>2 DEF ResumeCampaign, ResultTypes, resultVars, releaseVars
  <1>3. ProcessTypes' /\ tries' \in [Nodes -> Nat]
    BY DEF ResumeCampaign, ProcessTypes, NodeTypes, processVars
  <1>4. "queued" \in NodeStatus \ Live
    BY DEF NodeStatus, Live
  <1> QED BY <1>1, <1>2, <1>3, <1>4, RowsStepType DEF ResumeCampaign, processVars

LEMMA TerminateType ==
  ASSUME TypeInv, NEW from, NEW to \in CampaignStatus,
         NEW rowStatus \in NodeStatus \ Live, NEW reason \in StopReason,
         Terminate(from, to, rowStatus, reason),
         ProcessTypes', claimant' = claimant
  PROVE  TypeInv'
  <1> USE DEF TypeInv, TypeOK
  <1>1. CampaignTypes'
    BY DEF Terminate, CampaignTypes
  <1>2. ResultTypes'
    <2>1. reason \in FailureClass
      BY DEF FailureClass
    <2>2. failure' \in [Nodes -> FailureClass]
      BY <2>1, PutType DEF Terminate, ResultTypes
    <2> QED BY <2>2 DEF Terminate, ResultTypes, resultVars, releaseVars
  <1>3. tries' \in [Nodes -> Nat]
    BY DEF Terminate, NodeTypes
  <1> QED BY <1>1, <1>2, <1>3, RowsStepType DEF Terminate

LEMMA TerminationType ==
  ASSUME TypeInv, CancelCampaign \/ FailCampaign \/ StopExhausted
  PROVE  TypeInv'
  <1>1. /\ {"cancelled", "failed", "stopped"} \subseteq CampaignStatus
        /\ {"skipped", "failed_terminal"} \subseteq NodeStatus \ Live
        /\ {"operator", "calls_exhausted"} \subseteq StopReason
    BY DEF CampaignStatus, NodeStatus, Live, StopReason
  <1>2. ProcessTypes' /\ claimant' = claimant
    BY DEF CancelCampaign, FailCampaign, StopExhausted, TypeInv, TypeOK,
           ProcessTypes, processVars
  <1>3. CASE CancelCampaign
    BY <1>1, <1>2, <1>3, TerminateType DEF CancelCampaign
  <1>4. CASE FailCampaign
    BY <1>1, <1>2, <1>4, TerminateType DEF FailCampaign
  <1>5. CASE StopExhausted
    BY <1>1, <1>2, <1>5, TerminateType DEF StopExhausted
  <1> QED BY <1>3, <1>4, <1>5

LEMMA StopNotConvergedType ==
  ASSUME TypeInv, NEW f, StopNotConverged(f)
  PROVE  TypeInv'
  <1> USE DEF TypeInv, TypeOK
  <1>1. ProcessTypes' /\ claimant' = claimant
    BY DEF StopNotConverged, ProcessTypes
  <1>2. CASE Terminate({"running", "paused"}, "stopped", "skipped", "not_converged")
    <2>1. /\ "stopped" \in CampaignStatus /\ "skipped" \in NodeStatus \ Live
          /\ "not_converged" \in StopReason
      BY DEF CampaignStatus, NodeStatus, Live, StopReason
    <2> QED BY <1>1, <1>2, <2>1, TerminateType
  <1>3. CASE UNCHANGED <<campaignVars, status, leaseVars, tries, resultVars,
                         failureVars, journalVars, releaseVars>>
    <2>1. CampaignTypes' /\ NodeTypes' /\ ResultTypes' /\ JournalTypes'
      BY <1>3 DEF CampaignTypes, NodeTypes, ResultTypes, JournalTypes,
         campaignVars, leaseVars, resultVars, failureVars, journalVars, releaseVars
    <2>2. LeaseIdentity'
      BY <1>1, <1>3 DEF LeaseIdentity, leaseVars
    <2> QED BY <1>1, <2>1, <2>2
  <1> QED BY <1>2, <1>3 DEF StopNotConverged

LEMMA SkipFutureRoundsType ==
  ASSUME TypeInv, NEW f, SkipFutureRounds(f)
  PROVE  TypeInv'
  <1> USE DEF TypeInv, TypeOK
  <1>1. CampaignTypes'
    BY ProjectedType DEF SkipFutureRounds, CampaignTypes
  <1>2. ResultTypes'
    <2>1. "converged" \in FailureClass
      BY DEF FailureClass
    <2>2. failure' \in [Nodes -> FailureClass]
      BY <2>1, PutType DEF SkipFutureRounds, ResultTypes
    <2> QED BY <2>2 DEF SkipFutureRounds, ResultTypes, resultVars, releaseVars
  <1>3. ProcessTypes' /\ claimant' = claimant /\ tries' \in [Nodes -> Nat]
    BY DEF SkipFutureRounds, ProcessTypes, NodeTypes
  <1>4. "skipped" \in NodeStatus \ Live
    BY DEF NodeStatus, Live
  <1> QED BY <1>1, <1>2, <1>3, <1>4, RowsStepType DEF SkipFutureRounds

\* The two transactions of cancelNode.
LEMMA SkipCascadeType ==
  ASSUME TypeInv, NEW n \in Nodes, SkipCascade(n), CampaignTypes', ProcessTypes'
  PROVE  TypeInv'
  <1> USE DEF TypeInv, TypeOK
  <1>1. ResultTypes'
    <2>1. "node_cancelled" \in FailureClass /\ {} \in SUBSET Nodes
      BY DEF FailureClass
    <2>2. failure' \in [Nodes -> FailureClass] /\ blame' \in [Nodes -> SUBSET Nodes]
      BY <2>1, PutType DEF SkipCascade, ResultTypes
    <2> QED BY <2>2 DEF SkipCascade, ResultTypes, resultVars, releaseVars
  <1>2. claimant' = claimant /\ tries' \in [Nodes -> Nat]
    BY DEF SkipCascade, NodeTypes
  <1>3. "skipped" \in NodeStatus \ Live
    BY DEF NodeStatus, Live
  <1> QED BY <1>1, <1>2, <1>3, RowsStepType DEF SkipCascade

LEMMA CancelNodeType ==
  ASSUME TypeInv, NEW n \in Nodes,
         CancelRequiredNode(n) \/ CancelNodeRead(n) \/ CancelNodeCommit(n)
  PROVE  TypeInv'
  <1> USE DEF TypeInv, TypeOK
  <1>1. CASE CancelRequiredNode(n)
    <2>1. SkipCascade(n)
      BY <1>1 DEF CancelRequiredNode
    <2>2. CampaignTypes' /\ ProcessTypes'
      BY <1>1 DEF CancelRequiredNode, SkipCascade, CampaignTypes, ProcessTypes,
         CampaignStatus, StopReason
    <2> QED BY <2>1, <2>2, SkipCascadeType
  <1>2. CASE CancelNodeRead(n)
    <2>1. CampaignTypes' /\ NodeTypes' /\ ResultTypes' /\ JournalTypes'
      BY <1>2 DEF CancelNodeRead, CampaignTypes, NodeTypes, ResultTypes,
         JournalTypes, campaignVars, leaseVars, resultVars, failureVars,
         journalVars, releaseVars
    <2>2. ProcessTypes'
      BY <1>2 DEF CancelNodeRead, ProcessTypes
    <2>3. LeaseIdentity'
      BY <1>2 DEF CancelNodeRead, LeaseIdentity, leaseVars
    <2> QED BY <2>1, <2>2, <2>3
  <1>3. CASE CancelNodeCommit(n)
    <2>1. SkipCascade(n)
      BY <1>3 DEF CancelNodeCommit
    <2>2. CampaignTypes' /\ ProcessTypes'
      BY <1>3, ProjectedType DEF CancelNodeCommit, SkipCascade, CampaignTypes,
         ProcessTypes
    <2> QED BY <2>1, <2>2, SkipCascadeType
  <1> QED BY <1>1, <1>2, <1>3

LEMMA RetryNodeType ==
  ASSUME TypeInv, NEW n \in Nodes, RetryNode(n)
  PROVE  TypeInv'
  <1> USE DEF TypeInv, TypeOK
  <1>1. CampaignTypes'
    BY DEF RetryNode, CampaignTypes, CampaignStatus, StopReason
  <1>2. ResultTypes'
    <2>1. /\ 0 \in 0 .. MaxGen /\ "none" \in Integration
          /\ "none" \in FailureClass /\ {} \in SUBSET Nodes
      BY BoundsAssumption DEF Integration, FailureClass, StopReason
    <2>2. /\ prep' \in [Nodes -> 0 .. MaxGen] /\ integ' \in [Nodes -> Integration]
          /\ failure' \in [Nodes -> FailureClass]
          /\ blame' \in [Nodes -> SUBSET Nodes]
      BY <2>1, PutType DEF RetryNode, ResultTypes
    <2> QED BY <2>2 DEF RetryNode, ResultTypes, releaseVars
  <1>3. ProcessTypes' /\ claimant' = claimant
    BY DEF RetryNode, ProcessTypes, processVars
  <1>4. tries' \in [Nodes -> Nat]
    BY PutType DEF RetryNode, NodeTypes
  <1>5. "queued" \in NodeStatus \ Live
    BY DEF NodeStatus, Live
  <1> QED BY <1>1, <1>2, <1>3, <1>4, <1>5, RowsStepType DEF RetryNode

LEMMA TypeInvStep == TypeInv /\ [Next]_vars => TypeInv'
  <1> SUFFICES ASSUME TypeInv, [Next]_vars PROVE TypeInv'
    OBVIOUS
  <1>1. CASE \E w \in Workers, n \in Nodes : ClaimReady(w, n)
    BY <1>1, ClaimReadyType
  <1>2. CASE \E w \in Workers : Crash(w)
    BY <1>2, CrashType
  <1>3. CASE \E n \in Nodes : ClockTick(n) \/ RecoverExpiredLease(n)
    BY <1>3, ClockTickType, RecoverExpiredLeaseType
  <1>4. CASE \E n \in Nodes, g \in Gens : Attempt(n, g)
    BY <1>4, RenewNodeLeaseType, StartNodeType, JournalType,
       CancelNodeInfrastructureDeferredType, ResultType,
       BeginNodeResultIntegrationType, CompleteNodeType, FailNodeRetryType,
       FailNodeTerminalType DEF Attempt
  <1>5. CASE Lifecycle
    BY <1>5, PauseCampaignType, ResumeCampaignType, TerminationType,
       StopNotConvergedType, SkipFutureRoundsType DEF Lifecycle
  <1>6. CASE \E n \in Nodes : \/ CancelRequiredNode(n) \/ CancelNodeRead(n)
                              \/ CancelNodeCommit(n) \/ RetryNode(n)
    BY <1>6, CancelNodeType, RetryNodeType
  <1>7. CASE UNCHANGED vars
    <2>1. UNCHANGED <<campaignVars, status, leaseVars, tries, resultVars,
                      failureVars, journalVars, releaseVars, processVars>>
      BY <1>7 DEF vars
    <2>2. CampaignTypes' /\ JournalTypes'
      BY <2>1 DEF TypeInv, TypeOK, CampaignTypes, JournalTypes, campaignVars,
         journalVars
    <2> QED BY <2>1, <2>2, JournalStepType
  <1> QED BY <1>1, <1>2, <1>3, <1>4, <1>5, <1>6, <1>7 DEF Next

\* Every behaviour keeps the types, and every lease with the process that
\* claimed it: no refund, deferral or recovery drives a counter below zero or
\* refunds an attempt that was never claimed.
THEOREM TypeCorrect == Spec => []TypeOK
  <1>1. TypeInv => TypeOK
    BY DEF TypeInv
  <1> QED BY <1>1, TypeInvInit, TypeInvStep, PTL DEF Spec

\* The same invariant with its lease part, for the theorems below.
LEMMA TypeInvHolds == Spec => []TypeInv
  BY TypeInvInit, TypeInvStep, PTL DEF Spec

-----------------------------------------------------------------------------
(* The call budget. *)

\* Every statement that charges checks the budget in the statement itself, and
\* a resume never lowers it.
LEMMA BudgetStep == TypeInv /\ BudgetRespected /\ [Next]_vars => BudgetRespected'
  <1> SUFFICES ASSUME TypeInv, BudgetRespected, [Next]_vars
               PROVE  BudgetRespected'
    OBVIOUS
  <1> USE DEF BudgetRespected
  <1>0. usage \in Nat /\ budget \in Nat /\ Budgets \subseteq Nat
    BY BoundsAssumption DEF TypeInv, TypeOK, CampaignTypes
  <1>1. CASE \E w \in Workers, n \in Nodes : ClaimReady(w, n)
    BY <1>1 DEF ClaimReady, campaignVars
  <1>2. CASE \E w \in Workers : Crash(w)
    BY <1>2 DEF Crash, campaignVars
  <1>3. CASE \E n \in Nodes : ClockTick(n)
    BY <1>3 DEF ClockTick, campaignVars
  <1>4. CASE \E n \in Nodes : RecoverExpiredLease(n)
    <2>1. PICK n \in Nodes : RecoverExpiredLease(n)
      BY <1>4
    <2>2. CASE RecoverRefund(n)
      <3>1. gen[n] \in Gens
        BY <2>2 DEF RecoverRefund, TypeInv, LeaseIdentity, Live
      <3>2. reserved[n][gen[n]] \in Nat
        BY <3>1 DEF TypeInv, TypeOK, JournalTypes
      <3> QED BY <1>0, <2>2, <3>2
              DEF RecoverRefund, RequeueRecovered, RefundFromEvents
    <2> QED BY <2>1, <2>2 DEF RecoverExpiredLease, RecoverLeased,
            RecoverPrepared, RecoverUncertain, RequeueRecovered, campaignVars
  <1>5. CASE \E n \in Nodes, g \in Gens : Attempt(n, g)
    <2>1. PICK n \in Nodes, g \in Gens : Attempt(n, g)
      BY <1>5
    <2>2. CASE StartNode(n, g)
      BY <1>0, <2>2 DEF StartNode
    <2>3. CASE ReserveNodeInfrastructureUsage(n, g) \/ RecordUsage(n, g)
      BY <1>0, <2>3 DEF ReserveNodeInfrastructureUsage, RecordUsage, Affordable
    <2>4. CASE CancelNodeInfrastructureDeferred(n, g)
      <3>1. reserved[n][g] \in Nat
        BY DEF TypeInv, TypeOK, JournalTypes
      <3> QED BY <1>0, <2>4, <3>1
              DEF CancelNodeInfrastructureDeferred, RefundFromEvents
    <2>5. CASE \/ RenewNodeLease(n, g) \/ MarkNodeExternalActionStarted(n, g)
               \/ CompleteNodeExternalAction(n, g) \/ PrepareNodeResult(n, g)
               \/ BeginNodeResultIntegration(n, g)
               \/ MarkNodeResultIntegrated(n, g)
      BY <2>5 DEF RenewNodeLease, MarkNodeExternalActionStarted,
         CompleteNodeExternalAction, PrepareNodeResult,
         BeginNodeResultIntegration, MarkNodeResultIntegrated, campaignVars
    <2>6. CASE \/ \E accepted \in BOOLEAN : CompleteNode(n, g, accepted)
               \/ \E abandon \in BOOLEAN : FailNodeRetry(n, g, abandon)
               \/ \E abandon \in BOOLEAN : FailNodeTerminal(n, g, abandon)
      BY <2>6 DEF CompleteNode, FailNodeRetry, FailNodeTerminal
    <2> QED BY <2>1, <2>2, <2>3, <2>4, <2>5, <2>6 DEF Attempt
  <1>6. CASE Lifecycle
    <2>1. CASE \E b \in Budgets : ResumeCampaign(b)
      <3>1. PICK b \in Budgets : ResumeCampaign(b)
        BY <2>1
      <3>2. b >= budget /\ budget' = b /\ usage' = usage
        BY <3>1 DEF ResumeCampaign
      <3> QED BY <1>0, <3>2
    <2>2. CASE PauseCampaign \/ CancelCampaign \/ FailCampaign \/ StopExhausted
      BY <2>2 DEF PauseCampaign, CancelCampaign, FailCampaign, StopExhausted,
         Terminate
    <2>3. CASE \E f \in followUp : StopNotConverged(f) \/ SkipFutureRounds(f)
      BY <2>3 DEF StopNotConverged, SkipFutureRounds, Terminate, campaignVars
    <2> QED BY <1>6, <2>1, <2>2, <2>3 DEF Lifecycle
  <1>7. CASE \E n \in Nodes : \/ CancelRequiredNode(n) \/ CancelNodeRead(n)
                              \/ CancelNodeCommit(n) \/ RetryNode(n)
    BY <1>7 DEF CancelRequiredNode, CancelNodeRead, CancelNodeCommit, RetryNode,
       SkipCascade, campaignVars
  <1>8. CASE UNCHANGED vars
    BY <1>8 DEF vars, campaignVars
  <1> QED BY <1>1, <1>2, <1>3, <1>4, <1>5, <1>6, <1>7, <1>8 DEF Next

\* No interleaving of reservations, refunds and resumes overdraws the budget.
THEOREM BudgetNeverOverdrawn == Spec => []BudgetRespected
  <1>1. Init => BudgetRespected
    BY BoundsAssumption DEF Init, BudgetRespected
  <1> QED BY <1>1, TypeInvHolds, BudgetStep, PTL DEF Spec

-----------------------------------------------------------------------------
(* Fencing.  Work is live only in a running campaign because the campaign   *)
(* leaves that status together with the last live row.  The projection can  *)
(* move a running campaign to failed only in the transaction that settles   *)
(* the siblings; this needs that no failed row lingers in a running         *)
(* campaign, which a retry keeps as long as it finds a single failed row.   *)

FailedEnds == \A n \in Nodes : status[n] = "failed_terminal" => cstatus = "failed"

OneFailure ==
  "retry" \in Commands =>
    \A m, n \in Nodes :
      status[m] = "failed_terminal" /\ status[n] = "failed_terminal" => m = n

LiveWhileRunning ==
  \A n \in Nodes : status[n] \in Live =>
    cstatus = "running" \/ stopReason = "required_path"

FenceInv == FailedEnds /\ OneFailure /\ LiveWhileRunning

\* Steps that keep the status of every row and of the campaign.
LEMMA SameStatusFence ==
  ASSUME FenceInv, UNCHANGED <<cstatus, stopReason, status>>
  PROVE  FenceInv'
  BY DEF FenceInv, FailedEnds, OneFailure, LiveWhileRunning

\* A transaction of a running campaign that fails no row and ends with the
\* projection leaves the campaign running, or completed with every row done.
LEMMA ProjectionFence ==
  ASSUME FenceInv, status' \in [Nodes -> NodeStatus],
         \A n \in Nodes : status'[n] = "failed_terminal" => status[n] = "failed_terminal",
         \A n \in Nodes : status'[n] \in Live => status[n] \in Live,
         cstatus' = Projected(status'), stopReason' = stopReason
  PROVE  FenceInv'
  <1>1. CASE cstatus = "running"
    <2>1. \A n \in Nodes : status'[n] # "failed_terminal"
      BY <1>1 DEF FenceInv, FailedEnds
    <2>2. cstatus' = "running" \/ (\A n \in Nodes : status'[n] \in Done)
      BY <1>1, <2>1 DEF Projected
    <2> QED BY <2>1, <2>2
            DEF FenceInv, FailedEnds, OneFailure, LiveWhileRunning, Live, Done
  <1>2. CASE cstatus # "running"
    <2>1. cstatus' = cstatus
      BY <1>2 DEF Projected
    <2> QED BY <2>1 DEF FenceInv, FailedEnds, OneFailure, LiveWhileRunning
  <1> QED BY <1>1, <1>2

\* A transaction of a running campaign that moves one row between the queue and
\* a lease.
LEMMA RequeueFence ==
  ASSUME TypeInv, FenceInv, NEW n \in Nodes,
         NEW st \in {"queued", "leased", "running", "external_outcome_uncertain"},
         status' = [status EXCEPT ![n] = st],
         cstatus' = cstatus, stopReason' = stopReason,
         st \in Live => cstatus = "running"
  PROVE  FenceInv'
  BY DEF TypeInv, TypeOK, NodeTypes, FenceInv, FailedEnds, OneFailure,
         LiveWhileRunning, Live

\* Settling every open row ends all work.
LEMMA TerminateFence ==
  ASSUME TypeInv, FenceInv, ~ ({"fail", "retry"} \subseteq Commands),
         NEW to, NEW rowStatus, NEW reason,
         Terminate({"running", "paused", "stopped"}, to, rowStatus, reason)
           \/ Terminate({"running", "paused"}, to, rowStatus, reason),
         \/ rowStatus = "skipped"
         \/ rowStatus = "failed_terminal" /\ to = "failed" /\ "fail" \in Commands
  PROVE  FenceInv'
  <1>1. /\ cstatus \in {"running", "paused", "stopped"}
        /\ cstatus' = to
        /\ status' = Put(status, {n \in Nodes : status[n] \in Open}, rowStatus)
    BY DEF Terminate
  <1>2. \A n \in Nodes : status[n] # "failed_terminal"
    BY <1>1 DEF FenceInv, FailedEnds
  <1>3. \A n \in Nodes : status'[n] \notin Live
    BY <1>1 DEF Put, Open, Live
  <1> QED BY <1>1, <1>2, <1>3
          DEF FenceInv, FailedEnds, OneFailure, LiveWhileRunning, Put

LEMMA FailNodeTerminalFence ==
  ASSUME TypeInv, FenceInv, NEW n \in Nodes, NEW g \in Gens,
         NEW abandon \in BOOLEAN, FailNodeTerminal(n, g, abandon)
  PROVE  FenceInv'
  <1>1. cstatus = "running" /\ status'[n] = "failed_terminal"
    BY DEF FailNodeTerminal, Fence
  <1>2. cstatus' = "failed"
    BY <1>1 DEF FailNodeTerminal, Projected
  <1>3. \A m \in Nodes : status[m] # "failed_terminal"
    BY <1>1 DEF FenceInv, FailedEnds
  <1>4. \A m \in Nodes \ {n} :
          status'[m] # "failed_terminal" /\ status'[m] \notin Live
    BY <1>3 DEF FailNodeTerminal, Siblings, Live
  <1> QED BY <1>1, <1>2, <1>4
          DEF FenceInv, FailedEnds, OneFailure, LiveWhileRunning, Live

LEMMA RetryNodeFence ==
  ASSUME TypeInv, FenceInv, NEW n \in Nodes, RetryNode(n)
  PROVE  FenceInv'
  <1>1. \A m \in Nodes \ {n} : status[m] # "failed_terminal"
    BY DEF FenceInv, OneFailure, RetryNode
  <1>2. \A m \in Nodes : status'[m] # "failed_terminal"
    BY <1>1 DEF RetryNode, Put
  <1>3. cstatus' = "running"
    BY DEF RetryNode
  <1> QED BY <1>2, <1>3 DEF FenceInv, FailedEnds, OneFailure, LiveWhileRunning

LEMMA FenceStep ==
  ASSUME ~ ({"fail", "retry"} \subseteq Commands)
  PROVE  TypeInv /\ FenceInv /\ [Next]_vars => FenceInv'
  <1> SUFFICES ASSUME TypeInv, FenceInv, [Next]_vars PROVE FenceInv'
    OBVIOUS
  <1>0. TypeInv'
    BY TypeInvStep
  <1>1. CASE \E w \in Workers, n \in Nodes : ClaimReady(w, n)
    BY <1>1, RequeueFence DEF ClaimReady, campaignVars
  <1>2. CASE \E w \in Workers : Crash(w)
    BY <1>2, SameStatusFence DEF Crash, campaignVars
  <1>3. CASE \E n \in Nodes : ClockTick(n)
    BY <1>3, SameStatusFence DEF ClockTick, campaignVars
  <1>4. CASE \E n \in Nodes : RecoverExpiredLease(n)
    <2>1. PICK n \in Nodes : RecoverExpiredLease(n)
      BY <1>4
    <2>2. CASE RecoverUncertain(n)
      BY <2>2, RequeueFence DEF RecoverUncertain, campaignVars, Live
    <2>3. CASE \E spent \in {0, 1} : RequeueRecovered(n, spent)
      BY <2>3, RequeueFence DEF RequeueRecovered, Live
    <2> QED BY <2>1, <2>2, <2>3 DEF RecoverExpiredLease, RecoverLeased,
            RecoverPrepared, RecoverRefund
  <1>5. CASE \E n \in Nodes, g \in Gens : Attempt(n, g)
    <2>1. PICK n \in Nodes, g \in Gens : Attempt(n, g)
      BY <1>5
    <2>2. CASE StartNode(n, g)
      BY <2>2, RequeueFence DEF StartNode, Fence
    <2>3. CASE CancelNodeInfrastructureDeferred(n, g)
      BY <2>3, RequeueFence DEF CancelNodeInfrastructureDeferred, Live
    <2>4. CASE \/ RenewNodeLease(n, g) \/ ReserveNodeInfrastructureUsage(n, g)
               \/ RecordUsage(n, g) \/ MarkNodeExternalActionStarted(n, g)
               \/ CompleteNodeExternalAction(n, g) \/ PrepareNodeResult(n, g)
               \/ BeginNodeResultIntegration(n, g)
               \/ MarkNodeResultIntegrated(n, g)
      BY <2>4, SameStatusFence DEF RenewNodeLease,
         ReserveNodeInfrastructureUsage, RecordUsage,
         MarkNodeExternalActionStarted, CompleteNodeExternalAction,
         PrepareNodeResult, BeginNodeResultIntegration,
         MarkNodeResultIntegrated, campaignVars
    <2>5. CASE \E accepted \in BOOLEAN : CompleteNode(n, g, accepted)
      <3>1. /\ status' = [status EXCEPT ![n] = "completed"]
            /\ cstatus' = Projected(status') /\ stopReason' = stopReason
        BY <2>5 DEF CompleteNode
      <3> QED BY <1>0, <3>1, ProjectionFence
              DEF TypeInv, TypeOK, NodeTypes, Live
    <2>6. CASE \E abandon \in BOOLEAN : FailNodeRetry(n, g, abandon)
      <3>1. /\ status' = [status EXCEPT ![n] = "queued"]
            /\ cstatus' = Projected(status') /\ stopReason' = stopReason
        BY <2>6 DEF FailNodeRetry
      <3> QED BY <1>0, <3>1, ProjectionFence
              DEF TypeInv, TypeOK, NodeTypes, Live
    <2>7. CASE \E abandon \in BOOLEAN : FailNodeTerminal(n, g, abandon)
      BY <2>7, FailNodeTerminalFence
    <2> QED BY <2>1, <2>2, <2>3, <2>4, <2>5, <2>6, <2>7 DEF Attempt
  <1>6. CASE Lifecycle
    <2>1. CASE PauseCampaign
      BY <2>1 DEF PauseCampaign, FenceInv, FailedEnds, OneFailure,
         LiveWhileRunning, Put, Live
    <2>2. CASE \E b \in Budgets : ResumeCampaign(b)
      <3>1. PICK b \in Budgets : ResumeCampaign(b)
        BY <2>2
      <3>2. \A n \in Nodes : status[n] # "failed_terminal"
        BY <3>1 DEF ResumeCampaign, FenceInv, FailedEnds
      <3>3. \A n \in Nodes : status'[n] # "failed_terminal"
        BY <3>1, <3>2 DEF ResumeCampaign, Put
      <3>4. cstatus' = "running"
        BY <3>1 DEF ResumeCampaign
      <3> QED BY <3>3, <3>4
              DEF FenceInv, FailedEnds, OneFailure, LiveWhileRunning
    <2>3. CASE CancelCampaign \/ FailCampaign \/ StopExhausted
      BY <2>3, TerminateFence DEF CancelCampaign, FailCampaign, StopExhausted
    <2>4. CASE \E f \in followUp : StopNotConverged(f)
      <3>1. \/ Terminate({"running", "paused"}, "stopped", "skipped", "not_converged")
            \/ UNCHANGED <<cstatus, stopReason, status>>
        BY <2>4 DEF StopNotConverged, campaignVars
      <3> QED BY <3>1, TerminateFence, SameStatusFence
    <2>5. CASE \E f \in followUp : SkipFutureRounds(f)
      <3>1. PICK f \in followUp : SkipFutureRounds(f)
        BY <2>5
      <3>2. \A n \in Nodes : status'[n] \in {"skipped", status[n]}
        BY <3>1 DEF SkipFutureRounds, Put
      <3>3. cstatus' = Projected(status') /\ stopReason' = stopReason
        BY <3>1 DEF SkipFutureRounds
      <3> QED BY <1>0, <3>2, <3>3, ProjectionFence
              DEF TypeInv, TypeOK, NodeTypes, Live
    <2> QED BY <1>6, <2>1, <2>2, <2>3, <2>4, <2>5 DEF Lifecycle
  <1>7. CASE \E n \in Nodes : CancelRequiredNode(n)
    <2>1. PICK n \in Nodes : CancelRequiredNode(n)
      BY <1>7
    <2>2. /\ cstatus = "running" /\ stopReason' = "required_path"
          /\ \A m \in Nodes : status'[m] \in {"skipped", status[m]}
      BY <2>1 DEF CancelRequiredNode, SkipCascade, Put
    <2> QED BY <2>2 DEF FenceInv, FailedEnds, OneFailure, LiveWhileRunning
  <1>8. CASE \E n \in Nodes : CancelNodeRead(n)
    BY <1>8, SameStatusFence DEF CancelNodeRead, campaignVars
  <1>9. CASE \E n \in Nodes : CancelNodeCommit(n)
    <2>1. PICK n \in Nodes : CancelNodeCommit(n)
      BY <1>9
    <2>2. \A m \in Nodes : status'[m] \in {"skipped", status[m]}
      BY <2>1 DEF CancelNodeCommit, SkipCascade, Put
    <2>3. cstatus' = Projected(status') /\ stopReason' = stopReason
      BY <2>1 DEF CancelNodeCommit
    <2> QED BY <1>0, <2>2, <2>3, ProjectionFence
            DEF TypeInv, TypeOK, NodeTypes, Live
  <1>10. CASE \E n \in Nodes : RetryNode(n)
    BY <1>10, RetryNodeFence
  <1>11. CASE UNCHANGED vars
    BY <1>11, SameStatusFence DEF vars, campaignVars
  <1> QED BY <1>1, <1>2, <1>3, <1>4, <1>5, <1>6, <1>7, <1>8, <1>9, <1>10, <1>11
          DEF Next

LEMMA FenceInvHolds ==
  ASSUME ~ ({"fail", "retry"} \subseteq Commands)
  PROVE  Spec => []FenceInv
  <1>1. Init => FenceInv
    BY DEF Init, FenceInv, FailedEnds, OneFailure, LiveWhileRunning, Live
  <1> QED BY <1>1, TypeInvHolds, FenceStep, PTL DEF Spec

\* Leases are fenced: live rows belong to their claimant and exist only in a
\* running campaign (or one that cancelNode stopped), for every DAG and every
\* number of processes, unless an operator both fails campaigns by command and
\* retries the nodes that command failed.
THEOREM LeasesAlwaysFenced ==
  ASSUME ~ ({"fail", "retry"} \subseteq Commands)
  PROVE  Spec => []LeasesFenced
  <1>1. TypeInv /\ FenceInv => LeasesFenced
    BY DEF TypeInv, FenceInv, LiveWhileRunning, LeasesFenced
  <1> QED BY <1>1, TypeInvHolds, FenceInvHolds, PTL

-----------------------------------------------------------------------------
(* The integration point of no return.  A node being integrated runs in a   *)
(* running campaign, so every statement that settles or requeues rows of    *)
(* the whole campaign finds it in its own guard and rolls back.             *)

\* Only a prepared result is integrated.
PreparedFirst == \A n \in Nodes : prep[n] = 0 => integ[n] = "none"

LEMMA SamePrepared ==
  ASSUME PreparedFirst, UNCHANGED <<prep, integ>>
  PROVE  PreparedFirst'
  BY DEF PreparedFirst

LEMMA PreparedStep == TypeInv /\ PreparedFirst /\ [Next]_vars => PreparedFirst'
  <1> SUFFICES ASSUME TypeInv, PreparedFirst, [Next]_vars PROVE PreparedFirst'
    OBVIOUS
  <1>0. prep \in [Nodes -> 0 .. MaxGen] /\ integ \in [Nodes -> Integration]
    BY DEF TypeInv, TypeOK, ResultTypes
  <1>1. CASE \/ \E w \in Workers : Crash(w) \/ \E n \in Nodes : ClaimReady(w, n)
             \/ \E n \in Nodes : ClockTick(n) \/ RecoverUncertain(n)
             \/ UNCHANGED vars
    BY <1>1, SamePrepared DEF Crash, ClaimReady, ClockTick, RecoverUncertain,
       vars, resultVars
  <1>2. CASE \E n \in Nodes, spent \in {0, 1} : RequeueRecovered(n, spent)
    BY <1>0, <1>2 DEF RequeueRecovered, PreparedFirst
  <1>3. CASE \E n \in Nodes, g \in Gens : Attempt(n, g)
    <2>1. PICK n \in Nodes, g \in Gens : Attempt(n, g)
      BY <1>3
    <2>2. CASE PrepareNodeResult(n, g)
      BY <1>0, <2>2 DEF PrepareNodeResult, PreparedFirst, Gens
    <2>3. CASE BeginNodeResultIntegration(n, g) \/ MarkNodeResultIntegrated(n, g)
      BY <1>0, <2>3 DEF BeginNodeResultIntegration, MarkNodeResultIntegrated,
         PreparedFirst
    <2>4. CASE \E abandon \in BOOLEAN : \/ FailNodeRetry(n, g, abandon)
                                       \/ FailNodeTerminal(n, g, abandon)
      <3>1. PICK abandon \in BOOLEAN : FailRow(n, abandon)
        BY <2>4 DEF FailNodeRetry, FailNodeTerminal
      <3> QED BY <1>0, <3>1 DEF FailRow, PreparedFirst
    <2>5. CASE \E accepted \in BOOLEAN : CompleteNode(n, g, accepted)
      BY <2>5, SamePrepared DEF CompleteNode
    <2>6. CASE \/ RenewNodeLease(n, g) \/ StartNode(n, g)
               \/ ReserveNodeInfrastructureUsage(n, g) \/ RecordUsage(n, g)
               \/ MarkNodeExternalActionStarted(n, g)
               \/ CompleteNodeExternalAction(n, g)
               \/ CancelNodeInfrastructureDeferred(n, g)
      BY <2>6, SamePrepared DEF RenewNodeLease, StartNode,
         ReserveNodeInfrastructureUsage, RecordUsage,
         MarkNodeExternalActionStarted, CompleteNodeExternalAction,
         CancelNodeInfrastructureDeferred, resultVars
    <2> QED BY <2>1, <2>2, <2>3, <2>4, <2>5, <2>6 DEF Attempt
  <1>4. CASE Lifecycle
    BY <1>4, SamePrepared DEF Lifecycle, PauseCampaign, ResumeCampaign,
       CancelCampaign, FailCampaign, StopExhausted, StopNotConverged,
       SkipFutureRounds, Terminate, resultVars
  <1>5. CASE \E n \in Nodes : \/ CancelRequiredNode(n) \/ CancelNodeRead(n)
                              \/ CancelNodeCommit(n)
    BY <1>5, SamePrepared DEF CancelRequiredNode, CancelNodeRead,
       CancelNodeCommit, SkipCascade, resultVars
  <1>6. CASE \E n \in Nodes : RetryNode(n)
    BY <1>0, <1>6 DEF RetryNode, Put, PreparedFirst
  <1> QED BY <1>1, <1>2, <1>3, <1>4, <1>5, <1>6 DEF Next, RecoverExpiredLease,
          RecoverLeased, RecoverPrepared, RecoverRefund

\* While a node is integrated in a running campaign, a transaction that leaves
\* the node running and ends with the projection leaves the campaign running.
LEMMA ProjectionIntegration ==
  ASSUME FenceInv, IntegrationPointOfNoReturn,
         \A n \in Nodes : status'[n] = "failed_terminal" => status[n] = "failed_terminal",
         \A n \in Nodes : integ'[n] = "integrating" =>
           integ[n] = "integrating" /\ status'[n] = status[n],
         cstatus' = Projected(status')
  PROVE  IntegrationPointOfNoReturn'
  <1> SUFFICES ASSUME NEW n \in Nodes, integ'[n] = "integrating",
                      status'[n] # "external_outcome_uncertain"
               PROVE  status'[n] = "running" /\ cstatus' = "running"
    BY DEF IntegrationPointOfNoReturn
  <1>1. status[n] = "running" /\ cstatus = "running" /\ status'[n] = "running"
    BY DEF IntegrationPointOfNoReturn
  <1>2. \A m \in Nodes : status'[m] # "failed_terminal"
    BY <1>1 DEF FenceInv, FailedEnds
  <1> QED BY <1>1, <1>2 DEF Projected, Done

\* Steps that keep the campaign status and every integrating row in place.
LEMMA KeepIntegration ==
  ASSUME IntegrationPointOfNoReturn, cstatus' = cstatus,
         \A n \in Nodes : integ'[n] = "integrating" =>
           integ[n] = "integrating" /\ status'[n] = status[n]
  PROVE  IntegrationPointOfNoReturn'
  BY DEF IntegrationPointOfNoReturn

\* A command that inspects the whole campaign finds nothing integrating.
LEMMA NothingIntegrating ==
  ASSUME IntegrationPointOfNoReturn, NoneIntegrating(Nodes), integ' = integ
  PROVE  IntegrationPointOfNoReturn'
  <1>1. \A n \in Nodes : integ[n] # "integrating"
    BY DEF IntegrationPointOfNoReturn, NoneIntegrating
  <1> QED BY <1>1 DEF IntegrationPointOfNoReturn

LEMMA AttemptIntegration ==
  ASSUME TypeInv, FenceInv, IntegrationPointOfNoReturn,
         PreparedFirst, NEW n \in Nodes, NEW g \in Gens, Attempt(n, g)
  PROVE  IntegrationPointOfNoReturn'
  <1>0. integ \in [Nodes -> Integration] /\ status \in [Nodes -> NodeStatus]
    BY DEF TypeInv, TypeOK, ResultTypes, NodeTypes
  <1>1. CASE \/ RenewNodeLease(n, g) \/ ReserveNodeInfrastructureUsage(n, g)
             \/ RecordUsage(n, g) \/ MarkNodeExternalActionStarted(n, g)
             \/ CompleteNodeExternalAction(n, g)
    BY <1>1, KeepIntegration DEF RenewNodeLease,
       ReserveNodeInfrastructureUsage, RecordUsage,
       MarkNodeExternalActionStarted, CompleteNodeExternalAction,
       campaignVars, resultVars
  <1>2. CASE StartNode(n, g)
    <2>1. integ[n] # "integrating"
      BY <1>2 DEF StartNode, Fence, IntegrationPointOfNoReturn
    <2> QED BY <1>0, <1>2, <2>1, KeepIntegration DEF StartNode, resultVars
  <1>3. CASE CancelNodeInfrastructureDeferred(n, g)
    <2>1. prep[n] = 0 /\ integ' = integ /\ cstatus' = cstatus
      BY <1>3 DEF CancelNodeInfrastructureDeferred, resultVars
    <2>2. status' = [status EXCEPT ![n] = "queued"]
      BY <1>3 DEF CancelNodeInfrastructureDeferred
    <2>3. integ[n] # "integrating"
      BY <2>1 DEF PreparedFirst
    <2> QED BY <1>0, <2>1, <2>2, <2>3, KeepIntegration
  <1>4. CASE PrepareNodeResult(n, g) \/ MarkNodeResultIntegrated(n, g)
    BY <1>0, <1>4, KeepIntegration
       DEF PrepareNodeResult, MarkNodeResultIntegrated, campaignVars
  <1>5. CASE BeginNodeResultIntegration(n, g)
    BY <1>0, <1>5 DEF BeginNodeResultIntegration, Fence, campaignVars,
       IntegrationPointOfNoReturn
  <1>6. CASE \E accepted \in BOOLEAN : CompleteNode(n, g, accepted)
    <2>1. /\ integ[n] # "integrating" /\ integ' = integ
          /\ status' = [status EXCEPT ![n] = "completed"]
          /\ cstatus' = Projected(status')
      BY <1>6 DEF CompleteNode
    <2> QED BY <1>0, <2>1, ProjectionIntegration
  <1>7. CASE \E abandon \in BOOLEAN : FailNodeRetry(n, g, abandon)
    <2>1. /\ integ'[n] # "integrating"
          /\ \A m \in Nodes \ {n} : integ'[m] = integ[m]
      BY <1>0, <1>7 DEF FailNodeRetry, FailRow
    <2>2. /\ status' = [status EXCEPT ![n] = "queued"]
          /\ cstatus' = Projected(status')
      BY <1>7 DEF FailNodeRetry
    <2> QED BY <1>0, <2>1, <2>2, ProjectionIntegration
  <1>8. CASE \E abandon \in BOOLEAN : FailNodeTerminal(n, g, abandon)
    <2>1. /\ integ'[n] # "integrating"
          /\ \A m \in Nodes \ {n} : integ'[m] = integ[m]
      BY <1>0, <1>8 DEF FailNodeTerminal, FailRow
    <2>2. \A m \in Nodes \ {n} : integ[m] = "integrating" =>
            status'[m] = "external_outcome_uncertain"
      BY <1>8 DEF FailNodeTerminal, IntegrationPointOfNoReturn, Siblings,
         OutcomeUncertain, Live
    <2> QED BY <2>1, <2>2 DEF IntegrationPointOfNoReturn
  <1> QED BY <1>1, <1>2, <1>3, <1>4, <1>5, <1>6, <1>7, <1>8 DEF Attempt

LEMMA IntegrationStep ==
  ASSUME "cancel_node" \notin Commands
  PROVE  TypeInv /\ FenceInv /\ PreparedFirst /\ IntegrationPointOfNoReturn
           /\ [Next]_vars => IntegrationPointOfNoReturn'
  <1> SUFFICES ASSUME TypeInv, FenceInv, PreparedFirst,
                      IntegrationPointOfNoReturn, [Next]_vars
               PROVE  IntegrationPointOfNoReturn'
    OBVIOUS
  <1>0. integ \in [Nodes -> Integration] /\ status \in [Nodes -> NodeStatus]
    BY DEF TypeInv, TypeOK, ResultTypes, NodeTypes
  <1>1. CASE \E w \in Workers, n \in Nodes : ClaimReady(w, n)
    <2>1. PICK w \in Workers, n \in Nodes : ClaimReady(w, n)
      BY <1>1
    <2>2. integ[n] # "integrating"
      BY <2>1 DEF ClaimReady, Ready, IntegrationPointOfNoReturn
    <2> QED BY <1>0, <2>1, <2>2, KeepIntegration
            DEF ClaimReady, campaignVars, resultVars
  <1>2. CASE \/ \E w \in Workers : Crash(w)
             \/ \E n \in Nodes : ClockTick(n) \/ CancelNodeRead(n)
             \/ UNCHANGED vars
    BY <1>2, KeepIntegration DEF Crash, ClockTick, CancelNodeRead, vars,
       campaignVars, resultVars
  <1>3. CASE \E n \in Nodes : RecoverExpiredLease(n)
    <2>1. PICK n \in Nodes : RecoverExpiredLease(n)
      BY <1>3
    <2>2. CASE RecoverUncertain(n)
      BY <1>0, <2>2 DEF RecoverUncertain, campaignVars, resultVars,
         IntegrationPointOfNoReturn
    <2>3. CASE \E spent \in {0, 1} : RequeueRecovered(n, spent)
      <3>1. /\ integ'[n] # "integrating" /\ cstatus' = cstatus
            /\ \A m \in Nodes \ {n} : integ'[m] = integ[m] /\ status'[m] = status[m]
        BY <1>0, <2>3 DEF RequeueRecovered
      <3> QED BY <3>1, KeepIntegration
    <2> QED BY <2>1, <2>2, <2>3 DEF RecoverExpiredLease, RecoverLeased,
            RecoverPrepared, RecoverRefund
  <1>4. CASE \E n \in Nodes, g \in Gens : Attempt(n, g)
    BY <1>4, AttemptIntegration
  <1>5. CASE Lifecycle
    <2>1. CASE PauseCampaign \/ CancelCampaign \/ FailCampaign \/ StopExhausted
      <3>1. NoneIntegrating(Nodes) /\ integ' = integ
        BY <2>1 DEF PauseCampaign, CancelCampaign, FailCampaign, StopExhausted,
           Terminate, resultVars
      <3> QED BY <3>1, NothingIntegrating
    <2>2. CASE \E b \in Budgets : ResumeCampaign(b)
      <3>1. PICK b \in Budgets : ResumeCampaign(b)
        BY <2>2
      <3>2. /\ cstatus # "running" /\ integ' = integ
            /\ \A n \in Nodes : status[n] # "skipped" => status'[n] = status[n]
        BY <3>1 DEF ResumeCampaign, Put, resultVars
      <3> QED BY <3>2 DEF IntegrationPointOfNoReturn
    <2>3. CASE \E f \in followUp : StopNotConverged(f)
      <3>1. \/ NoneIntegrating(Nodes) /\ integ' = integ
            \/ UNCHANGED <<cstatus, status, integ>>
        BY <2>3 DEF StopNotConverged, Terminate, campaignVars, resultVars
      <3> QED BY <3>1, NothingIntegrating, KeepIntegration
    <2>4. CASE \E f \in followUp : SkipFutureRounds(f)
      <3>1. PICK f \in followUp : SkipFutureRounds(f)
        BY <2>4
      <3>2. /\ \A n \in Nodes : status'[n] \in {"skipped", status[n]}
            /\ \A n \in Nodes : status[n] # "queued" => status'[n] = status[n]
            /\ integ' = integ /\ cstatus' = Projected(status')
        BY <3>1 DEF SkipFutureRounds, FutureRounds, Put, resultVars
      <3> QED BY <3>2, ProjectionIntegration DEF IntegrationPointOfNoReturn
    <2> QED BY <1>5, <2>1, <2>2, <2>3, <2>4 DEF Lifecycle
  <1>6. CASE \E n \in Nodes : CancelNodeCommit(n)
    <2>1. PICK n \in Nodes : CancelNodeCommit(n)
      BY <1>6
    <2>2. /\ \A m \in Nodes : status'[m] \in {"skipped", status[m]}
          /\ \A m \in Nodes \ Cascade(n) : status'[m] = status[m]
          /\ NoneIntegrating(Cascade(n))
          /\ integ' = integ /\ cstatus' = Projected(status')
      BY <2>1 DEF CancelNodeCommit, SkipCascade, Put, resultVars
    <2>3. \A m \in Nodes : integ[m] = "integrating" => m \notin Cascade(n)
      BY <2>2 DEF NoneIntegrating, IntegrationPointOfNoReturn
    <2> QED BY <2>2, <2>3, ProjectionIntegration
  <1>7. CASE \E n \in Nodes : RetryNode(n)
    <2>1. PICK n \in Nodes : RetryNode(n)
      BY <1>7
    <2>2. /\ cstatus # "running"
          /\ \A m \in Nodes : status'[m] = status[m]
                \/ status[m] \in {"skipped", "failed_terminal"}
          /\ \A m \in Nodes : integ'[m] \in {"none", integ[m]}
      BY <2>1 DEF RetryNode, Put, FenceInv, FailedEnds
    <2> QED BY <2>2 DEF IntegrationPointOfNoReturn
  <1> QED BY <1>1, <1>2, <1>3, <1>4, <1>5, <1>6, <1>7
          DEF Next, CancelRequiredNode

\* As long as no operator cancels single nodes, a result that has begun to be
\* written into the workspace is never overtaken by a command, a failure or a
\* recovery, for every DAG and every number of processes.
THEOREM IntegrationNeverOvertaken ==
  ASSUME "cancel_node" \notin Commands,
         ~ ({"fail", "retry"} \subseteq Commands)
  PROVE  Spec => []IntegrationPointOfNoReturn
  <1>1. Init => PreparedFirst /\ IntegrationPointOfNoReturn
    BY DEF Init, PreparedFirst, IntegrationPointOfNoReturn
  <1> QED BY <1>1, TypeInvHolds, FenceInvHolds, PreparedStep, IntegrationStep, PTL
          DEF Spec

-----------------------------------------------------------------------------
(* The release.  Once it exists every row is done and the campaign is       *)
(* completed, so no transaction finds a row or a campaign it may change.    *)

\* An UPDATE that selects no row changes nothing.
LEMMA PutNothing ==
  ASSUME NEW T, NEW f \in [Nodes -> T], NEW S, NEW v, S \cap Nodes = {}
  PROVE  Put(f, S, v) = f
  BY DEF Put

released == <<cstatus, status, attempt, gen, prep, integ, result, release>>

LEMMA CompletedFrozen ==
  ASSUME TypeInv, cstatus = "completed", \A n \in Nodes : status[n] \in Done,
         [Next]_vars
  PROVE  UNCHANGED released
  <1> USE DEF released
  <1>0. /\ cstatus = "completed"
        /\ \A n \in Nodes : status[n] \in Done
        /\ status \in [Nodes -> NodeStatus]
        /\ attempt \in [Nodes -> 0 .. MaxGen]
    BY DEF TypeInv, TypeOK, NodeTypes
  <1>1. CASE \E w \in Workers : Crash(w) \/ \E n \in Nodes : ClaimReady(w, n)
    BY <1>0, <1>1 DEF Crash, ClaimReady, campaignVars, leaseVars, resultVars,
       releaseVars
  <1>2. CASE \E n \in Nodes : ClockTick(n) \/ RecoverExpiredLease(n)
    BY <1>0, <1>2 DEF ClockTick, RecoverExpiredLease, RecoverLeased,
       RecoverPrepared, RecoverRefund, RecoverUncertain, Recoverable,
       campaignVars, resultVars, releaseVars
  <1>3. CASE \E n \in Nodes, g \in Gens : Attempt(n, g)
    <2>1. PICK n \in Nodes, g \in Gens : Attempt(n, g)
      BY <1>3
    <2>2. CASE RecordUsage(n, g) \/ CancelNodeInfrastructureDeferred(n, g)
      BY <1>0, <2>2 DEF RecordUsage, CancelNodeInfrastructureDeferred,
         DeferralFence, Fence
    <2> QED BY <1>0, <2>1, <2>2 DEF Attempt, RenewNodeLease, StartNode,
            ReserveNodeInfrastructureUsage, MarkNodeExternalActionStarted,
            CompleteNodeExternalAction, PrepareNodeResult,
            BeginNodeResultIntegration, MarkNodeResultIntegrated, CompleteNode,
            FailNodeRetry, FailNodeTerminal, Fence
  <1>4. CASE Lifecycle
    <2>1. CASE \E f \in followUp : SkipFutureRounds(f)
      <3>1. PICK f \in followUp : SkipFutureRounds(f)
        BY <2>1
      <3>2. FutureRounds(f[2]) \cap Nodes = {}
        BY <1>0 DEF FutureRounds, Done
      <3>3. status' = status /\ attempt' = attempt
        BY <1>0, <3>1, <3>2, PutNothing DEF SkipFutureRounds, ReleaseRows
      <3>4. cstatus' = cstatus
        BY <1>0, <3>1 DEF SkipFutureRounds, Projected
      <3> QED BY <3>1, <3>3, <3>4
              DEF SkipFutureRounds, ReleaseRows, resultVars, releaseVars
    <2>2. CASE \E f \in followUp : StopNotConverged(f)
      BY <1>0, <2>2 DEF StopNotConverged, Terminate, campaignVars, leaseVars,
         resultVars, releaseVars
    <2> QED BY <1>0, <1>4, <2>1, <2>2 DEF Lifecycle, PauseCampaign,
            ResumeCampaign, CancelCampaign, FailCampaign, StopExhausted, Terminate
  <1>5. CASE \E n \in Nodes : \/ CancelRequiredNode(n) \/ CancelNodeRead(n)
                              \/ RetryNode(n)
    BY <1>0, <1>5 DEF CancelRequiredNode, CancelNodeRead, RetryNode, Cancellable,
       Done, campaignVars, leaseVars, resultVars, releaseVars
  <1>6. CASE \E n \in Nodes : CancelNodeCommit(n)
    <2>1. PICK n \in Nodes : CancelNodeCommit(n)
      BY <1>6
    <2>2. {m \in Cascade(n) : status[m] \in Open} \cap Nodes = {}
      BY <1>0 DEF Open, Live, Done
    <2>3. status' = status /\ attempt' = attempt
      BY <1>0, <2>1, <2>2, PutNothing DEF CancelNodeCommit, SkipCascade, ReleaseRows
    <2>4. cstatus' = cstatus
      BY <1>0, <2>1 DEF CancelNodeCommit, Projected
    <2> QED BY <2>1, <2>3, <2>4 DEF CancelNodeCommit, SkipCascade, ReleaseRows,
            resultVars, releaseVars
  <1>7. CASE UNCHANGED vars
    BY <1>7 DEF vars, campaignVars, leaseVars, resultVars, releaseVars
  <1> QED BY <1>1, <1>2, <1>3, <1>4, <1>5, <1>6, <1>7 DEF Next

LEMMA ReleasedFrozen ==
  ASSUME TypeInv, ReleaseMatchesPackage, release # 0, [Next]_vars
  PROVE  UNCHANGED released
  BY CompletedFrozen DEF ReleaseMatchesPackage

\* Only completeNode of the package node, with its bundle, inserts the release.
PublishStep == \E g \in Gens, accepted \in BOOLEAN :
                 /\ CompleteNode(Package, g, accepted)
                 /\ Package \in Nodes /\ Publishes(Package)

LEMMA ReleaseOnlyByPackage ==
  ASSUME [Next]_vars, release' # release
  PROVE  PublishStep
  <1> SUFFICES ASSUME ~ PublishStep PROVE release' = release
    OBVIOUS
  <1> USE DEF releaseVars
  <1>1. CASE \E n \in Nodes, g \in Gens : Attempt(n, g)
    <2>1. PICK n \in Nodes, g \in Gens : Attempt(n, g)
      BY <1>1
    <2>2. CASE \E accepted \in BOOLEAN : CompleteNode(n, g, accepted)
      <3>1. ~ Publishes(n)
        BY <2>2 DEF PublishStep, Publishes
      <3> QED BY <2>2, <3>1 DEF CompleteNode
    <2> QED BY <2>1, <2>2 DEF Attempt, RenewNodeLease, StartNode, RecordUsage,
            ReserveNodeInfrastructureUsage, MarkNodeExternalActionStarted,
            CompleteNodeExternalAction, CancelNodeInfrastructureDeferred,
            PrepareNodeResult, BeginNodeResultIntegration,
            MarkNodeResultIntegrated, FailNodeRetry, FailNodeTerminal
  <1>2. CASE Lifecycle
    BY <1>2 DEF Lifecycle, PauseCampaign, ResumeCampaign, CancelCampaign,
       FailCampaign, StopExhausted, StopNotConverged, SkipFutureRounds, Terminate
  <1>3. CASE UNCHANGED vars
    BY <1>3 DEF vars
  <1> QED BY <1>1, <1>2, <1>3 DEF Next, ClaimReady, Crash, ClockTick,
          RecoverExpiredLease, RecoverLeased, RecoverPrepared, RecoverRefund,
          RecoverUncertain, RequeueRecovered, CancelRequiredNode,
          CancelNodeRead, CancelNodeCommit, SkipCascade, RetryNode

LEMMA ReleaseStep ==
  TypeInv /\ ReleaseMatchesPackage /\ [Next]_vars => ReleaseMatchesPackage'
  <1> SUFFICES ASSUME TypeInv, ReleaseMatchesPackage, [Next]_vars
               PROVE  ReleaseMatchesPackage'
    OBVIOUS
  <1>1. CASE release # 0
    BY <1>1, ReleasedFrozen DEF released, ReleaseMatchesPackage
  <1>2. CASE release = 0 /\ release' = release
    BY <1>2 DEF ReleaseMatchesPackage
  <1>3. CASE release' # release
    <2>1. PICK g \in Gens, accepted \in BOOLEAN :
            CompleteNode(Package, g, accepted) /\ Publishes(Package)
      BY <1>3, ReleaseOnlyByPackage DEF PublishStep
    <2>2. Package \in Nodes
      BY <1>3, ReleaseOnlyByPackage DEF PublishStep
    <2>3. /\ release' = g /\ cstatus' = "completed" /\ cstatus = "running"
          /\ integ[Package] = "integrated" /\ integ' = integ /\ prep' = prep
          /\ attempt[Package] = g /\ gen[Package] = g
          /\ attempt' = attempt /\ gen' = gen
      BY <2>1 DEF CompleteNode, Fence, ReleaseKeepingAttempt
    <2>4. status'[Package] = "completed" /\ result'[Package] = prep[Package]
      BY <2>1, <2>2 DEF CompleteNode, TypeInv, TypeOK, NodeTypes, ResultTypes
    <2>5. cstatus' = Projected(status')
      BY <2>1 DEF CompleteNode
    <2>6. \A n \in Nodes : status'[n] \in Done
      BY <2>3, <2>5 DEF Projected
    <2> QED BY <2>3, <2>4, <2>6 DEF ReleaseMatchesPackage
  <1> QED BY <1>1, <1>2, <1>3

LEMMA ReleaseHolds == Spec => []ReleaseMatchesPackage
  <1>1. Init => ReleaseMatchesPackage
    BY DEF Init, ReleaseMatchesPackage
  <1> QED BY <1>1, TypeInvHolds, ReleaseStep, PTL DEF Spec

\* The current release, whenever it exists, is that of the completed package
\* node of a completed campaign, whatever happened before and whatever is
\* still attempted afterwards.
THEOREM ReleaseAlwaysMatches == Spec => []ReleaseMatchesPackage
  BY ReleaseHolds

\* Completed and uncertain rows are outside what any transaction selects.
LEMMA SettledRows ==
  ASSUME TypeInv, [Next]_vars, NEW n \in Nodes,
         status[n] \in {"completed", "external_outcome_uncertain"}
  PROVE  status'[n] = status[n] /\ result'[n] = result[n]
  <1>0. status \in [Nodes -> NodeStatus] /\ result \in [Nodes -> 0 .. MaxGen]
    BY DEF TypeInv, TypeOK, NodeTypes, ResultTypes
  <1>1. CASE \E w \in Workers : Crash(w) \/ \E m \in Nodes : ClaimReady(w, m)
    BY <1>0, <1>1 DEF Crash, ClaimReady, Ready, resultVars
  <1>2. CASE \E m \in Nodes : ClockTick(m) \/ RecoverExpiredLease(m)
    BY <1>0, <1>2 DEF ClockTick, RecoverExpiredLease, RecoverLeased,
       RecoverPrepared, RecoverRefund, RecoverUncertain, RequeueRecovered,
       Recoverable, Live, resultVars
  <1>3. CASE \E m \in Nodes, g \in Gens : Attempt(m, g)
    <2>1. PICK m \in Nodes, g \in Gens : Attempt(m, g)
      BY <1>3
    <2>2. CASE \E abandon \in BOOLEAN : FailNodeTerminal(m, g, abandon)
      BY <2>2 DEF FailNodeTerminal, Fence, Siblings, Live
    <2>3. CASE CancelNodeInfrastructureDeferred(m, g)
      BY <1>0, <2>3 DEF CancelNodeInfrastructureDeferred, DeferralFence, Fence,
         resultVars
    <2> QED BY <1>0, <2>1, <2>2, <2>3 DEF Attempt, RenewNodeLease, StartNode,
            ReserveNodeInfrastructureUsage, RecordUsage,
            MarkNodeExternalActionStarted, CompleteNodeExternalAction,
            PrepareNodeResult, BeginNodeResultIntegration,
            MarkNodeResultIntegrated, CompleteNode, FailNodeRetry, Fence,
            resultVars
  <1>4. CASE Lifecycle
    BY <1>4 DEF Lifecycle, PauseCampaign, ResumeCampaign, CancelCampaign,
       FailCampaign, StopExhausted, StopNotConverged, SkipFutureRounds,
       FutureRounds, Terminate, Put, Open, Live, resultVars
  <1>5. CASE \E m \in Nodes : \/ CancelRequiredNode(m) \/ CancelNodeRead(m)
                              \/ CancelNodeCommit(m) \/ RetryNode(m)
    BY <1>5 DEF CancelRequiredNode, CancelNodeRead, CancelNodeCommit,
       SkipCascade, RetryNode, Put, Open, Live, resultVars
  <1>6. CASE UNCHANGED vars
    BY <1>6 DEF vars, resultVars
  <1> QED BY <1>1, <1>2, <1>3, <1>4, <1>5, <1>6 DEF Next

\* Completed results, uncertain outcomes and published releases are final in
\* every step of every behaviour.
THEOREM SettledStaysFinal == Spec => SettledIsFinal
  <1>1. TypeInv /\ ReleaseMatchesPackage /\ [Next]_vars =>
          [/\ \A n \in Nodes : status[n] = "completed" =>
                status'[n] = "completed" /\ result'[n] = result[n]
           /\ \A n \in Nodes : status[n] = "external_outcome_uncertain" =>
                status'[n] = "external_outcome_uncertain"
           /\ release # 0 => release' = release /\ cstatus' = cstatus]_vars
    BY SettledRows, ReleasedFrozen DEF released
  <1> QED BY <1>1, TypeInvHolds, ReleaseHolds, PTL DEF Spec, SettledIsFinal

=============================================================================
