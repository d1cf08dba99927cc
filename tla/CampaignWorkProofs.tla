------------------------- MODULE CampaignWorkProofs -------------------------
(***************************************************************************)
(* Proofs about the work of a campaign in CampaignStore: what attempts are *)
(* charged, refunded and allowed, in which order nodes work, that a        *)
(* running campaign can go on and a completed one is released, and that    *)
(* results in the workspace are kept.                                      *)
(***************************************************************************)
EXTENDS CampaignStoreProofs, FiniteSums

-----------------------------------------------------------------------------
(* Recovery and external actions. *)

\* A running row goes back to the queue of a running campaign only through its
\* holder's own deferral or retry, or through a recovery that saw its result
\* prepared or none of its actions unresolved.
LEMMA RequeueOfRunning ==
  ASSUME TypeInv, [Next]_vars, NEW n \in Nodes, status[n] = "running",
         status'[n] = "queued", cstatus' = "running", prep[n] = 0,
         Unresolved(n, gen[n]) # {}
  PROVE  owner[n] \notin crashed /\ lease[n] > 0
  <1>0. status \in [Nodes -> NodeStatus]
    BY DEF TypeInv, TypeOK, NodeTypes
  <1>1. CASE \E w \in Workers : Crash(w) \/ \E m \in Nodes : ClaimReady(w, m)
    BY <1>0, <1>1 DEF Crash, ClaimReady
  <1>2. CASE \E m \in Nodes : ClockTick(m) \/ RecoverExpiredLease(m)
    BY <1>0, <1>2 DEF ClockTick, RecoverExpiredLease, RecoverLeased,
       RecoverPrepared, RecoverRefund, RecoverUncertain, RequeueRecovered
  <1>3. CASE \E m \in Nodes, g \in Gens : Attempt(m, g)
    <2>1. PICK m \in Nodes, g \in Gens : Attempt(m, g)
      BY <1>3
    <2>2. CASE CancelNodeInfrastructureDeferred(m, g)
      <3>1. m = n
        BY <1>0, <2>2 DEF CancelNodeInfrastructureDeferred
      <3> QED BY <2>2, <3>1 DEF CancelNodeInfrastructureDeferred, DeferralFence,
              Fence, Acting
    <2>3. CASE \E abandon \in BOOLEAN : FailNodeRetry(m, g, abandon)
      <3>1. m = n
        BY <1>0, <2>3 DEF FailNodeRetry
      <3> QED BY <2>3, <3>1 DEF FailNodeRetry, Fence, Acting
    <2>4. CASE \E abandon \in BOOLEAN : FailNodeTerminal(m, g, abandon)
      BY <2>4 DEF FailNodeTerminal
    <2> QED BY <1>0, <2>1, <2>2, <2>3, <2>4 DEF Attempt, RenewNodeLease,
            StartNode, ReserveNodeInfrastructureUsage, RecordUsage,
            MarkNodeExternalActionStarted, CompleteNodeExternalAction,
            PrepareNodeResult, BeginNodeResultIntegration,
            MarkNodeResultIntegrated, CompleteNode
  <1>4. CASE Lifecycle
    BY <1>4 DEF Lifecycle, PauseCampaign, ResumeCampaign, CancelCampaign,
       FailCampaign, StopExhausted, StopNotConverged, SkipFutureRounds,
       Terminate, Put
  <1>5. CASE \E m \in Nodes : \/ CancelRequiredNode(m) \/ CancelNodeRead(m)
                              \/ CancelNodeCommit(m) \/ RetryNode(m)
    BY <1>5 DEF CancelRequiredNode, CancelNodeRead, CancelNodeCommit,
       SkipCascade, RetryNode, Put
  <1>6. CASE UNCHANGED vars
    BY <1>6 DEF vars
  <1> QED BY <1>1, <1>2, <1>3, <1>4, <1>5, <1>6 DEF Next

\* Recovery never repeats an external action whose outcome is unknown, for every
\* DAG, every number of processes and every set of commands.
THEOREM UncertainActionsStay == Spec => UncertainNotRequeued
  <1>1. TypeInv /\ [Next]_vars =>
          [\A n \in Nodes :
             (/\ status[n] = "running" /\ status'[n] = "queued" /\ cstatus' = "running"
              /\ prep[n] = 0 /\ Unresolved(n, gen[n]) # {})
             => owner[n] \notin crashed /\ lease[n] > 0]_vars
    BY RequeueOfRunning
  <1> QED BY <1>1, TypeInvHolds, PTL DEF Spec, UncertainNotRequeued

-----------------------------------------------------------------------------
(* The ledger.  A refund is granted on two grounds only: the attempt still   *)
(* runs, or a pause put its node back in the queue and the attempt counter   *)
(* of the node still stands where this attempt left it.  A refund takes the  *)
(* counter below that, so the second ground never holds again for the same   *)
(* attempt, and the first one never does because a claim opens a new         *)
(* generation.                                                               *)

LedgerRow(n, g) ==
  /\ attemptNo[n][g] = 0 => reserved[n][g] = 0
  /\ <<n, g>> \in refunded => attemptNo[n][g] # 0 /\ StartedBy(n, g) = {}
  /\ g > gen[n] => attemptNo[n][g] = 0
  /\ g = gen[n] =>
       /\ status[n] = "leased" => attemptNo[n][g] = 0
       /\ status[n] = "running" =>
            /\ attemptNo[n][g] = tries[n] /\ tries[n] # 0
            /\ <<n, g>> \notin refunded
       /\ <<n, g>> \in refunded => tries[n] < attemptNo[n][g]

LedgerInv == \A n \in Nodes, g \in Gens : LedgerRow(n, g)

\* The numbers the ledger is about.
LEMMA LedgerNumbers ==
  ASSUME TypeInv, NEW n \in Nodes, NEW g \in Gens
  PROVE  /\ attemptNo[n][g] \in Nat /\ reserved[n][g] \in Nat
         /\ nested[n][g] \in Nat /\ tries[n] \in Nat /\ gen[n] \in Nat /\ g \in Nat
  BY BoundsAssumption DEF TypeInv, TypeOK, JournalTypes, NodeTypes, Gens

\* A transaction that writes no event of the ledger and claims nothing leaves a
\* row as it was, or takes it out of Live without raising its counter.
LEMMA LedgerKept ==
  ASSUME TypeInv, TypeInv', LedgerInv,
         UNCHANGED <<attemptNo, reserved, refunded, actStarted, gen>>,
         \A m \in Nodes : \/ status'[m] = status[m] /\ tries'[m] = tries[m]
                          \/ status'[m] \notin Live /\ tries'[m] <= tries[m]
  PROVE  LedgerInv'
  <1> SUFFICES ASSUME NEW n \in Nodes, NEW g \in Gens
               PROVE  LedgerRow(n, g)'
    BY DEF LedgerInv
  <1>1. LedgerRow(n, g)
    BY DEF LedgerInv
  <1>2. /\ attemptNo[n][g] \in Nat /\ tries[n] \in Nat /\ tries'[n] \in Nat
    BY LedgerNumbers DEF TypeInv, TypeOK, NodeTypes
  <1>3. StartedBy(n, g)' = StartedBy(n, g)
    BY DEF StartedBy
  <1>4. CASE status'[n] = status[n] /\ tries'[n] = tries[n]
    BY <1>1, <1>3, <1>4 DEF LedgerRow
  <1>5. CASE status'[n] \notin Live /\ tries'[n] <= tries[n]
    BY <1>1, <1>2, <1>3, <1>5 DEF LedgerRow, Live
  <1> QED BY <1>4, <1>5

\* A claim opens a generation that has no event yet.
LEMMA ClaimReadyLedger ==
  ASSUME TypeInv, TypeInv', LedgerInv, NEW w \in Workers, NEW n \in Nodes,
         ClaimReady(w, n)
  PROVE  LedgerInv'
  <1> SUFFICES ASSUME NEW m \in Nodes, NEW g \in Gens
               PROVE  LedgerRow(m, g)'
    BY DEF LedgerInv
  <1>1. LedgerRow(m, g)
    BY DEF LedgerInv
  <1>2. /\ attemptNo' = attemptNo /\ reserved' = reserved /\ refunded' = refunded
        /\ actStarted' = actStarted /\ tries' = tries
    BY DEF ClaimReady, journalVars
  <1>3. StartedBy(m, g)' = StartedBy(m, g)
    BY <1>2 DEF StartedBy
  <1>4. CASE m # n
    <2>1. status'[m] = status[m] /\ gen'[m] = gen[m]
      BY <1>4 DEF ClaimReady, TypeInv, TypeOK, NodeTypes
    <2> QED BY <1>1, <1>2, <1>3, <2>1 DEF LedgerRow
  <1>5. CASE m = n
    <2>1. status'[n] = "leased" /\ gen'[n] = gen[n] + 1
      BY DEF ClaimReady, TypeInv, TypeOK, NodeTypes
    <2>2. gen[n] \in Nat /\ g \in Nat /\ tries[n] \in Nat /\ attemptNo[n][g] \in Nat
      BY LedgerNumbers
    <2>3. g >= gen'[n] => attemptNo[n][g] = 0
      BY <1>1, <1>5, <2>1, <2>2 DEF LedgerRow
    <2> QED BY <1>1, <1>2, <1>3, <1>5, <2>1, <2>2, <2>3 DEF LedgerRow
  <1> QED BY <1>4, <1>5

\* A start numbers the attempt and reserves its calls.
LEMMA StartNodeLedger ==
  ASSUME TypeInv, TypeInv', LedgerInv, NEW n \in Nodes, NEW h \in Gens,
         StartNode(n, h)
  PROVE  LedgerInv'
  <1> SUFFICES ASSUME NEW m \in Nodes, NEW g \in Gens
               PROVE  LedgerRow(m, g)'
    BY DEF LedgerInv
  <1>0. LedgerRow(m, g) /\ LedgerRow(n, h)
    BY DEF LedgerInv
  <1>1. /\ refunded' = refunded /\ actStarted' = actStarted /\ gen' = gen
        /\ status[n] = "leased" /\ gen[n] = h
    BY DEF StartNode, Fence, leaseVars
  <1>2. StartedBy(m, g)' = StartedBy(m, g)
    BY <1>1 DEF StartedBy
  <1>3. /\ status' = [status EXCEPT ![n] = "running"]
        /\ tries' = [tries EXCEPT ![n] = tries[n] + 1]
        /\ status \in [Nodes -> NodeStatus] /\ tries \in [Nodes -> Nat]
    BY DEF StartNode, TypeInv, TypeOK, NodeTypes
  <1>4. /\ attemptNo'[n][h] = tries[n] + 1
        /\ ~ (m = n /\ g = h) =>
             attemptNo'[m][g] = attemptNo[m][g] /\ reserved'[m][g] = reserved[m][g]
    BY DEF StartNode, TypeInv, TypeOK, JournalTypes
  <1>5. CASE m = n /\ g = h
    <2>1. tries'[n] = tries[n] + 1 /\ tries[n] \in Nat /\ h \in Nat
      BY <1>3, LedgerNumbers
    <2>2. <<n, h>> \notin refunded
      BY <1>0, <1>1 DEF LedgerRow
    <2> QED BY <1>1, <1>3, <1>4, <1>5, <2>1, <2>2 DEF LedgerRow
  <1>6. CASE m = n /\ g # h
    BY <1>0, <1>1, <1>2, <1>4, <1>6 DEF LedgerRow
  <1>7. CASE m # n
    <2>1. status'[m] = status[m] /\ tries'[m] = tries[m]
      BY <1>3, <1>7
    <2> QED BY <1>0, <1>1, <1>2, <1>4, <1>7, <2>1 DEF LedgerRow
  <1> QED BY <1>5, <1>6, <1>7

\* A nested reservation raises what a running attempt has reserved.
LEMMA ReserveLedger ==
  ASSUME TypeInv, LedgerInv, NEW n \in Nodes, NEW h \in Gens,
         ReserveNodeInfrastructureUsage(n, h)
  PROVE  LedgerInv'
  <1> SUFFICES ASSUME NEW m \in Nodes, NEW g \in Gens
               PROVE  LedgerRow(m, g)'
    BY DEF LedgerInv
  <1>0. LedgerRow(m, g) /\ LedgerRow(n, h)
    BY DEF LedgerInv
  <1>1. /\ UNCHANGED <<attemptNo, refunded, actStarted, gen, status, tries>>
        /\ status[n] = "running" /\ gen[n] = h
    BY DEF ReserveNodeInfrastructureUsage, Fence, leaseVars
  <1>2. StartedBy(m, g)' = StartedBy(m, g)
    BY <1>1 DEF StartedBy
  <1>3. attemptNo[n][h] # 0
    BY <1>0, <1>1 DEF LedgerRow
  <1>4. ~ (m = n /\ g = h) => reserved'[m][g] = reserved[m][g]
    BY DEF ReserveNodeInfrastructureUsage, TypeInv, TypeOK, JournalTypes
  <1> QED BY <1>0, <1>1, <1>2, <1>3, <1>4 DEF LedgerRow

\* An external action is started only by an attempt that runs, and an attempt
\* that runs has not been refunded.
LEMMA MarkLedger ==
  ASSUME TypeInv, LedgerInv, NEW n \in Nodes, NEW h \in Gens,
         MarkNodeExternalActionStarted(n, h)
  PROVE  LedgerInv'
  <1> SUFFICES ASSUME NEW m \in Nodes, NEW g \in Gens
               PROVE  LedgerRow(m, g)'
    BY DEF LedgerInv
  <1>0. LedgerRow(m, g) /\ LedgerRow(n, h)
    BY DEF LedgerInv
  <1>1. /\ UNCHANGED <<attemptNo, reserved, refunded, gen, status, tries>>
        /\ status[n] = "running" /\ gen[n] = h
    BY DEF MarkNodeExternalActionStarted, Fence, leaseVars
  <1>2. <<n, h>> \notin refunded
    BY <1>0, <1>1 DEF LedgerRow
  <1>3. actStarted' = actStarted \cup {<< <<n, budget>>, h>>}
    BY DEF MarkNodeExternalActionStarted, ActionId
  <1>4. ~ (m = n /\ g = h) => StartedBy(m, g)' = StartedBy(m, g)
    BY <1>3 DEF StartedBy
  <1>5. <<m, g>> \in refunded => ~ (m = n /\ g = h)
    BY <1>2
  <1> QED BY <1>0, <1>1, <1>4, <1>5 DEF LedgerRow

\* A refund of the row's own attempt, which started nothing, together with the
\* return of the row to the queue and of the attempt to its counter.
LEMMA RefundLedger ==
  ASSUME TypeInv, LedgerInv, NEW n \in Nodes, NEW h \in Gens,
         RefundFromEvents(n, h), gen[n] = h, attemptNo[n][h] = tries[n],
         status' = [status EXCEPT ![n] = "queued"],
         tries' = [tries EXCEPT ![n] = tries[n] - 1],
         UNCHANGED gen
  PROVE  LedgerInv'
  <1> SUFFICES ASSUME NEW m \in Nodes, NEW g \in Gens
               PROVE  LedgerRow(m, g)'
    BY DEF LedgerInv
  <1>0. LedgerRow(m, g)
    BY DEF LedgerInv
  <1>1. /\ UNCHANGED <<attemptNo, reserved, actStarted>>
        /\ refunded' = refunded \cup {<<n, h>>}
        /\ StartedBy(n, h) = {} /\ attemptNo[n][h] # 0
    BY DEF RefundFromEvents
  <1>2. StartedBy(m, g)' = StartedBy(m, g)
    BY <1>1 DEF StartedBy
  <1>3. status \in [Nodes -> NodeStatus] /\ tries \in [Nodes -> Nat]
    BY DEF TypeInv, TypeOK, NodeTypes
  <1>4. ~ (m = n /\ g = h) => (<<m, g>> \in refunded' <=> <<m, g>> \in refunded)
    BY <1>1
  <1>5. CASE m # n
    <2>1. status'[m] = status[m] /\ tries'[m] = tries[m]
      BY <1>3, <1>5
    <2> QED BY <1>0, <1>1, <1>2, <1>4, <1>5, <2>1 DEF LedgerRow
  <1>6. CASE m = n
    <2>1. status'[n] = "queued" /\ tries'[n] = tries[n] - 1 /\ tries[n] \in Nat
      BY <1>3
    <2>2. CASE g = h
      BY <1>0, <1>1, <1>2, <1>6, <2>1, <2>2 DEF LedgerRow
    <2>3. CASE g # h
      BY <1>0, <1>1, <1>2, <1>4, <1>6, <2>1, <2>3 DEF LedgerRow
    <2> QED BY <2>2, <2>3
  <1> QED BY <1>5, <1>6

\* The refunds of the two transactions that grant one.
LEMMA RefundGrounds ==
  ASSUME TypeInv, LedgerInv, NEW n \in Nodes, NEW h \in Gens,
         \/ RecoverRefund(n) /\ h = gen[n]
         \/ CancelNodeInfrastructureDeferred(n, h)
  PROVE  /\ RefundFromEvents(n, h) /\ gen[n] = h /\ attemptNo[n][h] = tries[n]
         /\ <<n, h>> \notin refunded
         /\ status' = [status EXCEPT ![n] = "queued"]
         /\ tries' = [tries EXCEPT ![n] = tries[n] - 1]
         /\ UNCHANGED gen
  <1>0. LedgerRow(n, h)
    BY DEF LedgerInv
  <1>1. /\ RefundFromEvents(n, h) /\ gen[n] = h
        /\ status' = [status EXCEPT ![n] = "queued"]
        /\ tries' = [tries EXCEPT ![n] = tries[n] - 1]
        /\ UNCHANGED gen
        /\ status[n] = "running" \/ attemptNo[n][h] = tries[n]
    BY DEF RecoverRefund, RequeueRecovered, ReleaseRows,
           CancelNodeInfrastructureDeferred, DeferralFence, Fence
  <1>2. attemptNo[n][h] = tries[n]
    BY <1>0, <1>1 DEF LedgerRow
  <1>3. attemptNo[n][h] \in Nat /\ tries[n] \in Nat
    BY LedgerNumbers
  <1>4. <<n, h>> \notin refunded
    BY <1>0, <1>1, <1>2, <1>3 DEF LedgerRow
  <1> QED BY <1>1, <1>2, <1>4

LEMMA LedgerStep == TypeInv /\ LedgerInv /\ [Next]_vars => LedgerInv'
  <1> SUFFICES ASSUME TypeInv, LedgerInv, [Next]_vars PROVE LedgerInv'
    OBVIOUS
  <1>0. TypeInv'
    BY TypeInvStep
  <1>00. /\ status \in [Nodes -> NodeStatus] /\ tries \in [Nodes -> Nat]
         /\ \A m \in Nodes : tries[m] <= tries[m] /\ tries[m] - 0 = tries[m]
                             /\ tries[m] - 1 <= tries[m] /\ 0 <= tries[m]
    BY DEF TypeInv, TypeOK, NodeTypes
  <1>1. CASE \E w \in Workers, n \in Nodes : ClaimReady(w, n)
    BY <1>0, <1>1, ClaimReadyLedger
  <1>2. CASE \/ \E w \in Workers : Crash(w)
             \/ \E n \in Nodes : ClockTick(n) \/ CancelNodeRead(n)
             \/ UNCHANGED vars
    BY <1>0, <1>2, LedgerKept DEF Crash, ClockTick, CancelNodeRead, vars,
       journalVars, leaseVars
  <1>3. CASE \E n \in Nodes : RecoverExpiredLease(n)
    <2>1. PICK n \in Nodes : RecoverExpiredLease(n)
      BY <1>3
    <2>2. CASE RecoverRefund(n)
      <3>1. gen[n] \in Gens
        BY <2>2 DEF RecoverRefund, TypeInv, LeaseIdentity, Live
      <3> QED BY <2>2, <3>1, RefundGrounds, RefundLedger
    <2>3. CASE RecoverUncertain(n)
      BY <1>0, <1>00, <2>3, LedgerKept DEF RecoverUncertain, journalVars,
         ReleaseKeepingAttempt, Live
    <2>4. CASE RecoverLeased(n) \/ RecoverPrepared(n)
      <3>1. PICK spent \in {0, 1} : RequeueRecovered(n, spent) /\ UNCHANGED journalVars
        BY <2>4 DEF RecoverLeased, RecoverPrepared
      <3>2. \A m \in Nodes : \/ status'[m] = status[m] /\ tries'[m] = tries[m]
                             \/ status'[m] \notin Live /\ tries'[m] <= tries[m]
        BY <1>00, <3>1 DEF RequeueRecovered, Live
      <3> QED BY <1>0, <3>1, <3>2, LedgerKept
              DEF RequeueRecovered, ReleaseRows, journalVars
    <2> QED BY <2>1, <2>2, <2>3, <2>4 DEF RecoverExpiredLease
  <1>4. CASE \E n \in Nodes, g \in Gens : Attempt(n, g)
    <2>1. PICK n \in Nodes, g \in Gens : Attempt(n, g)
      BY <1>4
    <2>2. CASE StartNode(n, g)
      BY <1>0, <2>2, StartNodeLedger
    <2>3. CASE ReserveNodeInfrastructureUsage(n, g)
      BY <2>3, ReserveLedger
    <2>4. CASE MarkNodeExternalActionStarted(n, g)
      BY <2>4, MarkLedger
    <2>5. CASE CancelNodeInfrastructureDeferred(n, g)
      BY <2>5, RefundGrounds, RefundLedger
    <2>6. CASE \/ RenewNodeLease(n, g) \/ RecordUsage(n, g)
               \/ CompleteNodeExternalAction(n, g) \/ PrepareNodeResult(n, g)
               \/ BeginNodeResultIntegration(n, g)
               \/ MarkNodeResultIntegrated(n, g)
      BY <1>0, <2>6, LedgerKept DEF RenewNodeLease, RecordUsage,
         CompleteNodeExternalAction, PrepareNodeResult,
         BeginNodeResultIntegration, MarkNodeResultIntegrated, journalVars,
         leaseVars
    <2>7. CASE \/ \E accepted \in BOOLEAN : CompleteNode(n, g, accepted)
               \/ \E abandon \in BOOLEAN : FailNodeRetry(n, g, abandon)
      BY <1>0, <1>00, <2>7, LedgerKept DEF CompleteNode, FailNodeRetry,
         ReleaseKeepingAttempt, journalVars, Live
    <2>8. CASE \E abandon \in BOOLEAN : FailNodeTerminal(n, g, abandon)
      <3>1. \A m \in Nodes : status'[m] = status[m] \/ status'[m] \notin Live
        BY <2>8 DEF FailNodeTerminal, Live
      <3>2. UNCHANGED <<attemptNo, reserved, refunded, actStarted, gen, tries>>
        BY <2>8 DEF FailNodeTerminal, journalVars
      <3> QED BY <1>0, <1>00, <3>1, <3>2, LedgerKept
    <2> QED BY <2>1, <2>2, <2>3, <2>4, <2>5, <2>6, <2>7, <2>8 DEF Attempt
  <1>5. CASE Lifecycle
    <2>1. \A m \in Nodes : status'[m] = status[m] \/ status'[m] \notin Live
      BY <1>5 DEF Lifecycle, PauseCampaign, ResumeCampaign, CancelCampaign,
         FailCampaign, StopExhausted, StopNotConverged, SkipFutureRounds,
         Terminate, Put, Live
    <2>2. UNCHANGED <<attemptNo, reserved, refunded, actStarted, gen, tries>>
      BY <1>5 DEF Lifecycle, PauseCampaign, ResumeCampaign, CancelCampaign,
         FailCampaign, StopExhausted, StopNotConverged, SkipFutureRounds,
         Terminate, ReleaseRows, journalVars, leaseVars
    <2> QED BY <1>0, <1>00, <2>1, <2>2, LedgerKept
  <1>6. CASE \E n \in Nodes : CancelRequiredNode(n) \/ CancelNodeCommit(n)
    <2>1. \A m \in Nodes : status'[m] = status[m] \/ status'[m] \notin Live
      BY <1>6 DEF CancelRequiredNode, CancelNodeCommit, SkipCascade, Put, Live
    <2>2. UNCHANGED <<attemptNo, reserved, refunded, actStarted, gen, tries>>
      BY <1>6 DEF CancelRequiredNode, CancelNodeCommit, SkipCascade, ReleaseRows,
         journalVars
    <2> QED BY <1>0, <1>00, <2>1, <2>2, LedgerKept
  <1>7. CASE \E n \in Nodes : RetryNode(n)
    <2>1. PICK n \in Nodes : RetryNode(n)
      BY <1>7
    <2>2. PICK S : status' = Put(status, S, "queued") /\ tries' = Put(tries, S, 0)
      BY <2>1 DEF RetryNode
    <2>3. \A m \in Nodes : \/ status'[m] = status[m] /\ tries'[m] = tries[m]
                           \/ status'[m] \notin Live /\ tries'[m] <= tries[m]
      BY <1>00, <2>2 DEF Put, Live
    <2>4. UNCHANGED <<attemptNo, reserved, refunded, actStarted, gen>>
      BY <2>1 DEF RetryNode, ReleaseRows, journalVars
    <2> QED BY <1>0, <2>3, <2>4, LedgerKept
  <1> QED BY <1>1, <1>2, <1>3, <1>4, <1>5, <1>6, <1>7 DEF Next

LEMMA LedgerHolds == Spec => []LedgerInv
  <1>1. Init => LedgerInv
    BY BoundsAssumption DEF Init, LedgerInv, LedgerRow, Gens
  <1> QED BY <1>1, TypeInvHolds, LedgerStep, PTL DEF Spec

\* No attempt is both refunded and known to have acted outside, whatever order
\* pauses, deferrals, recoveries and late starts come in.
THEOREM RefundsNeverActed == Spec => []RefundedNeverActed
  <1>1. TypeInv /\ LedgerInv => RefundedNeverActed
    <2> SUFFICES ASSUME TypeInv, LedgerInv, NEW r \in refunded
                 PROVE  StartedBy(r[1], r[2]) = {}
      BY DEF RefundedNeverActed
    <2>1. PICK n \in Nodes, g \in Gens : r = <<n, g>>
      BY DEF TypeInv, TypeOK, JournalTypes
    <2> QED BY <2>1 DEF LedgerInv, LedgerRow
  <1> QED BY <1>1, TypeInvHolds, LedgerHolds, PTL

-----------------------------------------------------------------------------
(* The usage counter.  Every transaction that moves it moves the charge of   *)
(* exactly one attempt by the same amount.                                   *)

Attempts == Nodes \X Gens

LEMMA AttemptsFinite == IsFiniteSet(Attempts)
  <1>1. IsFiniteSet(Nodes) /\ IsFiniteSet(Gens)
    BY NodesAssumption, BoundsAssumption, FS_Interval DEF Gens
  <1> QED BY <1>1, FS_Product DEF Attempts

LEMMA ChargesType ==
  ASSUME TypeInv, NEW n \in Nodes, NEW g \in Gens
  PROVE  /\ <<n, g>> \in Attempts
         /\ Charges[<<n, g>>] =
              nested[n][g] + (IF <<n, g>> \in refunded THEN 0 ELSE reserved[n][g])
         /\ Charges[<<n, g>>] \in Nat
  <1>1. nested[n][g] \in Nat /\ reserved[n][g] \in Nat
    BY LedgerNumbers
  <1>2. <<n, g>> \in Nodes \X Gens
    OBVIOUS
  <1>3. Charges[<<n, g>>] =
          nested[n][g] + (IF <<n, g>> \in refunded THEN 0 ELSE reserved[n][g])
    BY <1>2 DEF Charges
  <1>4. Charges[<<n, g>>] \in Nat
    BY <1>1, <1>3
  <1> QED BY <1>2, <1>3, <1>4 DEF Attempts

LEMMA ChargeMoves ==
  ASSUME TypeInv, TypeInv', UsageConserved, NEW n \in Nodes, NEW h \in Gens,
         \A m \in Nodes, g \in Gens : ~ (m = n /\ g = h) =>
           /\ nested'[m][g] = nested[m][g] /\ reserved'[m][g] = reserved[m][g]
           /\ <<m, g>> \in refunded' <=> <<m, g>> \in refunded,
         usage' - usage = Charges'[<<n, h>>] - Charges[<<n, h>>]
  PROVE  UsageConserved'
  <1> DEFINE old == Charges
  <1> DEFINE new == Charges'
  <1> DEFINE y == <<n, h>>
  <1>1. \A x \in Attempts : old[x] \in Nat
    BY ChargesType DEF Attempts
  <1>2. \A x \in Attempts : new[x] \in Nat
    <2>1. ASSUME NEW m \in Nodes, NEW g \in Gens PROVE new[<<m, g>>] \in Nat
      <3>1. nested'[m][g] \in Nat /\ reserved'[m][g] \in Nat
        BY DEF TypeInv, TypeOK, JournalTypes
      <3> QED BY <3>1 DEF Charges
    <2> QED BY <2>1 DEF Attempts
  <1>3. y \in Attempts
    BY DEF Attempts
  <1>4. \A x \in Attempts \ {y} : new[x] = old[x]
    BY DEF Attempts, Charges
  <1>5. /\ usage = SumFunctionOnSet(old, Attempts) /\ usage \in Nat /\ usage' \in Nat
        /\ usage' - usage = new[y] - old[y]
    BY DEF UsageConserved, Attempts, TypeInv, TypeOK, CampaignTypes
  <1>6. UsageConserved' <=> usage' = SumFunctionOnSet(new, Attempts)
    BY DEF UsageConserved, Attempts
  <1> HIDE DEF old, new, y
  <1>7. /\ SumFunctionOnSet(old, Attempts) \in Nat
        /\ SumFunctionOnSet(new, Attempts) \in Nat
        /\ SumFunctionOnSet(new, Attempts) - new[y] = SumFunctionOnSet(old, Attempts) - old[y]
    BY <1>1, <1>2, <1>3, <1>4, AttemptsFinite, SumMoves
  <1>8. old[y] \in Nat /\ new[y] \in Nat
    BY <1>1, <1>2, <1>3
  <1>9. usage' = SumFunctionOnSet(new, Attempts)
    BY <1>5, <1>7, <1>8
  <1> QED BY <1>6, <1>9

LEMMA UsageKept ==
  ASSUME UsageConserved, UNCHANGED <<usage, nested, refunded, reserved>>
  PROVE  UsageConserved'
  <1>1. Charges' = Charges
    BY DEF Charges
  <1> QED BY <1>1 DEF UsageConserved

\* The three transactions that charge an attempt.
LEMMA ChargeUsage ==
  ASSUME TypeInv, TypeInv', LedgerInv, UsageConserved,
         NEW n \in Nodes, NEW h \in Gens,
         \/ StartNode(n, h) \/ ReserveNodeInfrastructureUsage(n, h)
         \/ RecordUsage(n, h)
  PROVE  UsageConserved'
  <1>0. LedgerRow(n, h)
    BY DEF LedgerInv
  <1>1. /\ nested \in [Nodes -> [Gens -> Nat]] /\ reserved \in [Nodes -> [Gens -> Nat]]
        /\ usage \in Nat
    BY DEF TypeInv, TypeOK, JournalTypes, CampaignTypes
  <1>2. /\ Charges[<<n, h>>] =
             nested[n][h] + (IF <<n, h>> \in refunded THEN 0 ELSE reserved[n][h])
        /\ Charges'[<<n, h>>] =
             nested'[n][h] + (IF <<n, h>> \in refunded' THEN 0 ELSE reserved'[n][h])
    BY DEF Charges
  <1>3. nested[n][h] \in Nat /\ reserved[n][h] \in Nat
    BY LedgerNumbers
  <1>4. CASE StartNode(n, h)
    <2>1. status[n] = "leased" /\ gen[n] = h
      BY <1>4 DEF StartNode, Fence
    <2>2. reserved[n][h] = 0 /\ <<n, h>> \notin refunded
      BY <1>0, <2>1 DEF LedgerRow
    <2>3. PICK c \in {0, 1} : usage' = usage + c /\ reserved' = [reserved EXCEPT ![n][h] = c]
      BY <1>4 DEF StartNode
    <2>4. nested' = nested /\ refunded' = refunded
      BY <1>4 DEF StartNode
    <2>5. reserved'[n][h] = c
      BY <1>1, <2>3
    <2>6. usage' - usage = Charges'[<<n, h>>] - Charges[<<n, h>>]
      BY <1>1, <1>2, <1>3, <2>2, <2>3, <2>4, <2>5
    <2> QED BY <1>1, <2>3, <2>4, <2>6, ChargeMoves
  <1>5. CASE ReserveNodeInfrastructureUsage(n, h)
    <2>1. status[n] = "running" /\ gen[n] = h
      BY <1>5 DEF ReserveNodeInfrastructureUsage, Fence
    <2>2. <<n, h>> \notin refunded
      BY <1>0, <2>1 DEF LedgerRow
    <2>3. /\ usage' = usage + 1 /\ nested' = nested /\ refunded' = refunded
          /\ reserved' = [reserved EXCEPT ![n][h] = reserved[n][h] + 1]
      BY <1>5 DEF ReserveNodeInfrastructureUsage
    <2>4. reserved'[n][h] = reserved[n][h] + 1
      BY <1>1, <2>3
    <2>5. usage' - usage = Charges'[<<n, h>>] - Charges[<<n, h>>]
      BY <1>1, <1>2, <1>3, <2>2, <2>3, <2>4
    <2> QED BY <1>1, <2>3, <2>5, ChargeMoves
  <1>6. CASE RecordUsage(n, h)
    <2>1. /\ usage' = usage + 1 /\ reserved' = reserved /\ refunded' = refunded
          /\ nested' = [nested EXCEPT ![n][h] = nested[n][h] + 1]
      BY <1>6 DEF RecordUsage
    <2>2. nested'[n][h] = nested[n][h] + 1
      BY <1>1, <2>1
    <2>3. usage' - usage = Charges'[<<n, h>>] - Charges[<<n, h>>]
      BY <1>1, <1>2, <1>3, <2>1, <2>2
    <2> QED BY <1>1, <2>1, <2>3, ChargeMoves
  <1> QED BY <1>4, <1>5, <1>6

\* A refund, of an attempt not refunded before.
LEMMA RefundUsage ==
  ASSUME TypeInv, TypeInv', UsageConserved, NEW n \in Nodes, NEW h \in Gens,
         RefundFromEvents(n, h), <<n, h>> \notin refunded
  PROVE  UsageConserved'
  <1>1. /\ usage' = usage - reserved[n][h] /\ nested' = nested /\ reserved' = reserved
        /\ refunded' = refunded \cup {<<n, h>>}
    BY DEF RefundFromEvents
  <1>2. /\ Charges[<<n, h>>] = nested[n][h] + reserved[n][h]
        /\ Charges'[<<n, h>>] = nested[n][h] + 0
    BY <1>1 DEF Charges
  <1>3. nested[n][h] \in Nat /\ reserved[n][h] \in Nat /\ usage \in Nat
    BY LedgerNumbers DEF TypeInv, TypeOK, CampaignTypes
  <1>4. usage' - usage = Charges'[<<n, h>>] - Charges[<<n, h>>]
    BY <1>1, <1>2, <1>3
  <1> QED BY <1>1, <1>4, ChargeMoves

LEMMA UsageStep ==
  TypeInv /\ LedgerInv /\ UsageConserved /\ [Next]_vars => UsageConserved'
  <1> SUFFICES ASSUME TypeInv, LedgerInv, UsageConserved, [Next]_vars
               PROVE  UsageConserved'
    OBVIOUS
  <1>0. TypeInv'
    BY TypeInvStep
  <1>1. CASE \/ \E w \in Workers : Crash(w) \/ \E n \in Nodes : ClaimReady(w, n)
             \/ \E n \in Nodes : ClockTick(n) \/ CancelNodeRead(n) \/ RetryNode(n)
             \/ UNCHANGED vars
    BY <1>1, UsageKept DEF Crash, ClaimReady, ClockTick, CancelNodeRead,
       RetryNode, vars, campaignVars, journalVars
  <1>2. CASE \E n \in Nodes : RecoverExpiredLease(n)
    <2>1. PICK n \in Nodes : RecoverExpiredLease(n)
      BY <1>2
    <2>2. CASE RecoverRefund(n)
      <3>1. gen[n] \in Gens
        BY <2>2 DEF RecoverRefund, TypeInv, LeaseIdentity, Live
      <3> QED BY <1>0, <2>2, <3>1, RefundGrounds, RefundUsage
    <2> QED BY <2>1, <2>2, UsageKept DEF RecoverExpiredLease, RecoverLeased,
            RecoverPrepared, RecoverUncertain, campaignVars, journalVars
  <1>3. CASE \E n \in Nodes, g \in Gens : Attempt(n, g)
    <2>1. PICK n \in Nodes, g \in Gens : Attempt(n, g)
      BY <1>3
    <2>2. CASE \/ StartNode(n, g) \/ ReserveNodeInfrastructureUsage(n, g)
               \/ RecordUsage(n, g)
      BY <1>0, <2>2, ChargeUsage
    <2>3. CASE CancelNodeInfrastructureDeferred(n, g)
      BY <1>0, <2>3, RefundGrounds, RefundUsage
    <2> QED BY <2>1, <2>2, <2>3, UsageKept DEF Attempt, RenewNodeLease,
            MarkNodeExternalActionStarted, CompleteNodeExternalAction,
            PrepareNodeResult, BeginNodeResultIntegration,
            MarkNodeResultIntegrated, CompleteNode, FailNodeRetry,
            FailNodeTerminal, campaignVars, journalVars
  <1>4. CASE Lifecycle
    BY <1>4, UsageKept DEF Lifecycle, PauseCampaign, ResumeCampaign,
       CancelCampaign, FailCampaign, StopExhausted, StopNotConverged,
       SkipFutureRounds, Terminate, campaignVars, journalVars
  <1>5. CASE \E n \in Nodes : CancelRequiredNode(n) \/ CancelNodeCommit(n)
    BY <1>5, UsageKept DEF CancelRequiredNode, CancelNodeCommit, SkipCascade,
       journalVars
  <1> QED BY <1>1, <1>2, <1>3, <1>4, <1>5 DEF Next

LEMMA UsageInit == Init => UsageConserved
  <1> SUFFICES ASSUME Init PROVE UsageConserved
    OBVIOUS
  <1> DEFINE v == Charges
  <1>1. \A x \in Attempts : v[x] = 0
    BY DEF Init, Charges, Attempts
  <1>2. UsageConserved <=> SumFunctionOnSet(v, Attempts) = 0
    BY DEF Init, UsageConserved, Attempts
  <1> HIDE DEF v
  <1>3. SumFunctionOnSet(v, Attempts) = 0
    BY <1>1, AttemptsFinite, SumOfZeros
  <1> QED BY <1>2, <1>3

\* The usage counter of the campaign is at every moment what its journal adds up
\* to, for every DAG, every number of processes and every set of commands.
THEOREM UsageAlwaysConserved == Spec => []UsageConserved
  BY UsageInit, TypeInvHolds, LedgerHolds, UsageStep, PTL DEF Spec

-----------------------------------------------------------------------------
(* The attempt limit.  An attempt ends in the queue only when the limit      *)
(* leaves room for the next one or when the attempt is given back.  Two      *)
(* commands put running rows back as they are: a pause, and a resume with a  *)
(* larger budget, which reopens what an exhausted budget skipped.  The       *)
(* theorem is about campaigns that meet neither.                             *)

\* A campaign stopped for its budget has no call left, and nothing refunds one.
ExhaustedStays ==
  cstatus = "stopped" /\ stopReason = "calls_exhausted" => usage >= budget

AttemptRow(n) ==
  /\ tries[n] <= MaxAttempts + 1
  /\ status[n] \in {"queued", "leased"} => tries[n] <= MaxAttempts

AttemptInv == ExhaustedStays /\ \A n \in Nodes : AttemptRow(n)

LEMMA ExhaustedKept ==
  ASSUME ExhaustedStays, UNCHANGED <<usage, budget>>,
         \/ cstatus' # "stopped"
         \/ stopReason' # "calls_exhausted"
         \/ cstatus' = cstatus /\ stopReason' = stopReason
  PROVE  ExhaustedStays'
  BY DEF ExhaustedStays

LEMMA ExhaustedStep == TypeInv /\ ExhaustedStays /\ [Next]_vars => ExhaustedStays'
  <1> SUFFICES ASSUME TypeInv, ExhaustedStays, [Next]_vars PROVE ExhaustedStays'
    OBVIOUS
  <1>1. CASE \/ \E w \in Workers : Crash(w) \/ \E n \in Nodes : ClaimReady(w, n)
             \/ \E n \in Nodes : ClockTick(n) \/ CancelNodeRead(n) \/ RetryNode(n)
             \/ UNCHANGED vars
    BY <1>1, ExhaustedKept DEF Crash, ClaimReady, ClockTick, CancelNodeRead,
       RetryNode, vars, campaignVars
  <1>2. CASE \E n \in Nodes : RecoverExpiredLease(n)
    <2>1. cstatus = "running" /\ cstatus' = cstatus
      BY <1>2 DEF RecoverExpiredLease, RecoverLeased, RecoverPrepared,
         RecoverRefund, RecoverUncertain, RequeueRecovered, Recoverable,
         campaignVars
    <2> QED BY <2>1 DEF ExhaustedStays
  <1>3. CASE \E n \in Nodes, g \in Gens : Attempt(n, g)
    <2>1. PICK n \in Nodes, g \in Gens : Attempt(n, g)
      BY <1>3
    <2>2. CASE CancelNodeInfrastructureDeferred(n, g)
      <3>1. cstatus \in {"paused", "running"} /\ cstatus' = cstatus
        BY <2>2 DEF CancelNodeInfrastructureDeferred, DeferralFence, Fence
      <3> QED BY <3>1 DEF ExhaustedStays
    <2>3. CASE \/ \E accepted \in BOOLEAN : CompleteNode(n, g, accepted)
               \/ \E abandon \in BOOLEAN : \/ FailNodeRetry(n, g, abandon)
                                           \/ FailNodeTerminal(n, g, abandon)
      <3>1. /\ cstatus = "running" /\ cstatus' = Projected(status')
        BY <2>3 DEF CompleteNode, FailNodeRetry, FailNodeTerminal, Fence
      <3>2. cstatus' # "stopped"
        BY <3>1 DEF Projected
      <3> QED BY <3>2 DEF ExhaustedStays
    <2>4. CASE ~ \/ CancelNodeInfrastructureDeferred(n, g)
                 \/ \E accepted \in BOOLEAN : CompleteNode(n, g, accepted)
                 \/ \E abandon \in BOOLEAN : \/ FailNodeRetry(n, g, abandon)
                                             \/ FailNodeTerminal(n, g, abandon)
      <3>1. cstatus = "running" /\ cstatus' = cstatus
        BY <2>1, <2>4 DEF Attempt, RenewNodeLease, StartNode,
           ReserveNodeInfrastructureUsage, RecordUsage,
           MarkNodeExternalActionStarted, CompleteNodeExternalAction,
           PrepareNodeResult, BeginNodeResultIntegration,
           MarkNodeResultIntegrated, Fence, campaignVars
      <3> QED BY <3>1 DEF ExhaustedStays
    <2> QED BY <2>2, <2>3, <2>4
  <1>4. CASE Lifecycle
    <2>1. CASE StopExhausted
      BY <2>1 DEF StopExhausted, BudgetBlocker, Terminate, ExhaustedStays
    <2>2. CASE \/ PauseCampaign \/ CancelCampaign \/ FailCampaign
               \/ \E b \in Budgets : ResumeCampaign(b)
      BY <2>2 DEF PauseCampaign, ResumeCampaign, CancelCampaign, FailCampaign,
         Terminate, ExhaustedStays
    <2>3. CASE \E f \in followUp : StopNotConverged(f)
      BY <2>3, ExhaustedKept DEF StopNotConverged, Terminate, campaignVars
    <2>4. CASE \E f \in followUp : SkipFutureRounds(f)
      BY <2>4, ExhaustedKept DEF SkipFutureRounds, Projected
    <2> QED BY <1>4, <2>1, <2>2, <2>3, <2>4 DEF Lifecycle
  <1>5. CASE \E n \in Nodes : CancelRequiredNode(n) \/ CancelNodeCommit(n)
    BY <1>5, ExhaustedKept DEF CancelRequiredNode, CancelNodeCommit, SkipCascade,
       Projected
  <1> QED BY <1>1, <1>2, <1>3, <1>4, <1>5 DEF Next

\* A row that is not put back in the queue keeps its bound.
LEMMA AttemptsKept ==
  ASSUME \A n \in Nodes : AttemptRow(n), UNCHANGED tries,
         \A m \in Nodes : \/ status'[m] = status[m]
                          \/ status'[m] \notin {"queued", "leased"}
  PROVE  \A n \in Nodes : AttemptRow(n)'
  BY DEF AttemptRow

\* An attempt that is given back makes room for the next one.
LEMMA AttemptReturned ==
  ASSUME TypeInv, \A n \in Nodes : AttemptRow(n), NEW n \in Nodes, tries[n] > 0,
         status' = [status EXCEPT ![n] = "queued"],
         tries' = [tries EXCEPT ![n] = tries[n] - 1]
  PROVE  \A m \in Nodes : AttemptRow(m)'
  <1>1. /\ status \in [Nodes -> NodeStatus] /\ tries \in [Nodes -> Nat]
        /\ MaxAttempts \in Nat
    BY BoundsAssumption DEF TypeInv, TypeOK, NodeTypes
  <1>2. AttemptRow(n)'
    BY <1>1 DEF AttemptRow
  <1>3. ASSUME NEW m \in Nodes, m # n PROVE AttemptRow(m)'
    BY <1>1, <1>3 DEF AttemptRow
  <1> QED BY <1>2, <1>3

LEMMA AttemptStep ==
  ASSUME "pause" \notin Commands, \A b, c \in Budgets : b = c
  PROVE  TypeInv /\ AttemptInv /\ [Next]_vars => \A n \in Nodes : AttemptRow(n)'
  <1> SUFFICES ASSUME TypeInv, AttemptInv, [Next]_vars
               PROVE  \A n \in Nodes : AttemptRow(n)'
    OBVIOUS
  <1>0. \A n \in Nodes : AttemptRow(n)
    BY DEF AttemptInv
  <1>00. /\ status \in [Nodes -> NodeStatus] /\ tries \in [Nodes -> Nat]
         /\ MaxAttempts \in Nat
    BY BoundsAssumption DEF TypeInv, TypeOK, NodeTypes
  <1>1. CASE \E w \in Workers, n \in Nodes : ClaimReady(w, n)
    BY <1>0, <1>00, <1>1 DEF ClaimReady, Ready, AttemptRow
  <1>2. CASE \/ \E w \in Workers : Crash(w)
             \/ \E n \in Nodes : ClockTick(n) \/ CancelNodeRead(n)
             \/ UNCHANGED vars
    BY <1>0, <1>2, AttemptsKept DEF Crash, ClockTick, CancelNodeRead, vars
  <1>3. CASE \E n \in Nodes : RecoverExpiredLease(n)
    <2>1. PICK n \in Nodes : RecoverExpiredLease(n)
      BY <1>3
    <2>2. CASE RecoverRefund(n) \/ RecoverPrepared(n)
      <3>1. /\ tries[n] >= 1 /\ status' = [status EXCEPT ![n] = "queued"]
            /\ tries' = [tries EXCEPT ![n] = tries[n] - 1]
        BY <2>2 DEF RecoverRefund, RecoverPrepared, RequeueRecovered
      <3>2. tries[n] > 0
        BY <1>00, <3>1
      <3> QED BY <1>0, <3>1, <3>2, AttemptReturned
    <2>3. CASE RecoverLeased(n)
      <3>1. /\ status[n] = "leased" /\ status' = [status EXCEPT ![n] = "queued"]
            /\ tries' = [tries EXCEPT ![n] = tries[n] - 0]
        BY <2>3 DEF RecoverLeased, RequeueRecovered
      <3>2. tries' = tries
        BY <1>00, <3>1
      <3> QED BY <1>0, <1>00, <3>1, <3>2 DEF AttemptRow
    <2>4. CASE RecoverUncertain(n)
      BY <1>0, <1>00, <2>4, AttemptsKept DEF RecoverUncertain
    <2> QED BY <2>1, <2>2, <2>3, <2>4 DEF RecoverExpiredLease
  <1>4. CASE \E n \in Nodes, g \in Gens : Attempt(n, g)
    <2>1. PICK n \in Nodes, g \in Gens : Attempt(n, g)
      BY <1>4
    <2>2. CASE StartNode(n, g)
      <3>1. /\ status[n] = "leased" /\ status' = [status EXCEPT ![n] = "running"]
            /\ tries' = [tries EXCEPT ![n] = tries[n] + 1]
        BY <2>2 DEF StartNode, Fence
      <3>2. AttemptRow(n)'
        BY <1>0, <1>00, <3>1 DEF AttemptRow
      <3>3. ASSUME NEW m \in Nodes, m # n PROVE AttemptRow(m)'
        BY <1>0, <1>00, <3>1, <3>3 DEF AttemptRow
      <3> QED BY <3>2, <3>3
    <2>3. CASE CancelNodeInfrastructureDeferred(n, g)
      BY <1>0, <2>3, AttemptReturned DEF CancelNodeInfrastructureDeferred
    <2>4. CASE \E abandon \in BOOLEAN : FailNodeRetry(n, g, abandon)
      <3>1. /\ status' = [status EXCEPT ![n] = "queued"] /\ tries' = tries
            /\ CanRetry(n)
        BY <2>4 DEF FailNodeRetry
      <3>2. tries[n] <= MaxAttempts
        BY <1>00, <3>1 DEF CanRetry
      <3> QED BY <1>0, <1>00, <3>1, <3>2 DEF AttemptRow
    <2>5. CASE \E abandon \in BOOLEAN : FailNodeTerminal(n, g, abandon)
      <3>1. tries' = tries /\ \A m \in Nodes : \/ status'[m] = status[m]
              \/ status'[m] \notin {"queued", "leased"}
        BY <2>5 DEF FailNodeTerminal
      <3> QED BY <1>0, <3>1, AttemptsKept
    <2> QED BY <1>0, <1>00, <2>1, <2>2, <2>3, <2>4, <2>5, AttemptsKept
            DEF Attempt, RenewNodeLease, ReserveNodeInfrastructureUsage,
            RecordUsage, MarkNodeExternalActionStarted,
            CompleteNodeExternalAction, PrepareNodeResult,
            BeginNodeResultIntegration, MarkNodeResultIntegrated, CompleteNode
  <1>5. CASE Lifecycle
    <2>1. CASE \E b \in Budgets : ResumeCampaign(b)
      <3>1. PICK b \in Budgets : ResumeCampaign(b)
        BY <2>1
      <3>2. budget = b /\ budget \in Nat /\ usage \in Nat
        BY BoundsAssumption DEF TypeInv, TypeOK, CampaignTypes
      <3>3. ~ (cstatus = "stopped" /\ stopReason = "calls_exhausted")
        BY <3>1, <3>2 DEF ResumeCampaign, AttemptInv, ExhaustedStays
      <3>4. \A m \in Nodes : status'[m] = status[m]
        BY <3>1, <3>3 DEF ResumeCampaign, Put
      <3> QED BY <1>0, <3>1, <3>4, AttemptsKept DEF ResumeCampaign
    <2>2. CASE CancelCampaign \/ FailCampaign \/ StopExhausted
      BY <1>0, <2>2, AttemptsKept DEF CancelCampaign, FailCampaign,
         StopExhausted, Terminate, Put
    <2>3. CASE \E f \in followUp : StopNotConverged(f) \/ SkipFutureRounds(f)
      BY <1>0, <2>3, AttemptsKept DEF StopNotConverged, SkipFutureRounds,
         Terminate, Put
    <2> QED BY <1>5, <2>1, <2>2, <2>3 DEF Lifecycle, PauseCampaign
  <1>6. CASE \E n \in Nodes : CancelRequiredNode(n) \/ CancelNodeCommit(n)
    BY <1>0, <1>6, AttemptsKept DEF CancelRequiredNode, CancelNodeCommit,
       SkipCascade, Put
  <1>7. CASE \E n \in Nodes : RetryNode(n)
    <2>1. PICK S : status' = Put(status, S, "queued") /\ tries' = Put(tries, S, 0)
      BY <1>7 DEF RetryNode
    <2> QED BY <1>0, <1>00, <2>1 DEF Put, AttemptRow
  <1> QED BY <1>1, <1>2, <1>3, <1>4, <1>5, <1>6, <1>7 DEF Next

\* Crashes, recoveries, deferrals and failures never give a node more than its
\* attempts plus the one an integrated result earns, as long as no operator
\* pauses the campaign or raises its budget.
THEOREM AttemptsAlwaysBounded ==
  ASSUME "pause" \notin Commands, \A b, c \in Budgets : b = c
  PROVE  Spec => []AttemptsBounded
  <1>1. Init => AttemptInv
    BY BoundsAssumption DEF Init, AttemptInv, ExhaustedStays, AttemptRow
  <1>2. TypeInv /\ AttemptInv /\ [Next]_vars => AttemptInv'
    BY ExhaustedStep, AttemptStep DEF AttemptInv
  <1>3. AttemptInv => AttemptsBounded
    BY DEF AttemptInv, AttemptRow, AttemptsBounded
  <1> QED BY <1>1, <1>2, <1>3, TypeInvHolds, PTL DEF Spec

-----------------------------------------------------------------------------
(* The order of the work.  A node is claimed only over settled dependencies, *)
(* and what is completed stays so; the danger is the rows that a resume or a *)
(* retry reopens.  These were open when they were skipped, so nothing that   *)
(* depends on them was at work, and nothing is claimed while they sleep: a   *)
(* campaign that runs has none, because the resume or the retry that sets it *)
(* running again reopens all of them.                                        *)

Dormant(d) ==
  status[d] = "skipped" /\ failure[d] \in {"calls_exhausted", "sibling_cancelled"}

DormantWhere(d) ==
  /\ failure[d] = "calls_exhausted" =>
       \/ cstatus \in {"stopped", "cancelled"}
       \/ cstatus = "failed" /\ "retry" \notin Commands
  /\ failure[d] = "sibling_cancelled" =>
       /\ cstatus = "failed" /\ integ[d] # "integrating"
       /\ \E x \in Nodes : status[x] = "failed_terminal" /\ blame[d] = {x}

Asleep == \A d \in Nodes : Dormant(d) => DormantWhere(d)

Undisturbed ==
  \A d, n \in Nodes : Dormant(d) /\ d \in Deps[n] =>
    status[n] \notin Live \cup {"completed"}

GraphInv == DependencyOrder /\ Asleep /\ Undisturbed

LEMMA DepsInNodes == ASSUME NEW n \in Nodes PROVE Deps[n] \subseteq Nodes
  BY NodesAssumption

\* A campaign that runs, or is paused, has nothing to reopen.
LEMMA NoneDormant ==
  ASSUME Asleep, cstatus \in {"running", "paused"}
  PROVE  \A d \in Nodes : ~ Dormant(d)
  BY DEF Asleep, Dormant, DormantWhere

\* No row leaves Done and nothing starts to work but what was ready.
LEMMA OrderKept ==
  ASSUME DependencyOrder,
         \A m \in Nodes : status[m] \in Done => status'[m] \in Done,
         \A m \in Nodes : status'[m] \in Live \cup {"completed"} =>
           status[m] \in Live \cup {"completed"} \/ Ready(m)
  PROVE  DependencyOrder'
  <1> SUFFICES ASSUME NEW n \in Nodes, status'[n] \in Live \cup {"completed"},
                      NEW d \in Deps[n]
               PROVE  status'[d] \in Done
    BY DEF DependencyOrder
  <1>1. d \in Nodes
    BY DepsInNodes
  <1>2. status[d] \in Done
    BY DEF DependencyOrder, Ready
  <1> QED BY <1>1, <1>2

\* A step that leaves nothing dormant.
LEMMA AwakeGraph ==
  ASSUME DependencyOrder', \A d \in Nodes : ~ Dormant(d)'
  PROVE  GraphInv'
  BY DEF GraphInv, Asleep, Undisturbed

\* A step of a running campaign that skips no row.
LEMMA RunningGraph ==
  ASSUME GraphInv, cstatus \in {"running", "paused"},
         \A m \in Nodes : status[m] \in Done => status'[m] \in Done,
         \A m \in Nodes : status'[m] \in Live \cup {"completed"} =>
           status[m] \in Live \cup {"completed"} \/ Ready(m),
         \A m \in Nodes : status'[m] = "skipped" =>
           \/ status[m] = "skipped" /\ failure'[m] = failure[m]
           \/ failure'[m] \notin {"calls_exhausted", "sibling_cancelled"}
  PROVE  GraphInv'
  <1>1. \A d \in Nodes : ~ Dormant(d)
    BY NoneDormant DEF GraphInv
  <1>2. \A d \in Nodes : ~ Dormant(d)'
    BY <1>1 DEF Dormant
  <1> QED BY <1>2, OrderKept, AwakeGraph DEF GraphInv

\* A step that settles open rows and puts none to work: the rows it makes
\* dormant were open, so what depends on them was not at work.
LEMMA SettlingGraph ==
  ASSUME GraphInv, Asleep',
         \A m \in Nodes : status[m] \in Done => status'[m] \in Done,
         \A m \in Nodes : status'[m] \in Live \cup {"completed"} =>
           status[m] \in Live \cup {"completed"},
         \A m \in Nodes : Dormant(m)' => Dormant(m) \/ status[m] \in Open
  PROVE  GraphInv'
  <1>1. DependencyOrder'
    BY OrderKept DEF GraphInv
  <1>2. Undisturbed'
    <2> SUFFICES ASSUME NEW d \in Nodes, NEW n \in Nodes, Dormant(d)', d \in Deps[n],
                        status'[n] \in Live \cup {"completed"}
                 PROVE  FALSE
      BY DEF Undisturbed
    <2>1. status[n] \in Live \cup {"completed"}
      OBVIOUS
    <2>2. ~ Dormant(d)
      BY <2>1 DEF GraphInv, Undisturbed
    <2>3. status[d] \in Done
      BY <2>1 DEF GraphInv, DependencyOrder
    <2> QED BY <2>2, <2>3 DEF Open, Live, Done
  <1> QED BY <1>1, <1>2 DEF GraphInv

\* A step that reopens all that is dormant, and only that.
LEMMA ReopenGraph ==
  ASSUME GraphInv,
         \A m \in Nodes :
           \/ status'[m] = status[m]
           \/ status'[m] = "queued" /\ (Dormant(m) \/ status[m] = "failed_terminal"),
         \A d \in Nodes : ~ Dormant(d)'
  PROVE  GraphInv'
  <1>1. DependencyOrder'
    <2> SUFFICES ASSUME NEW n \in Nodes, status'[n] \in Live \cup {"completed"},
                        NEW d \in Deps[n]
                 PROVE  status'[d] \in Done
      BY DEF DependencyOrder
    <2>1. d \in Nodes
      BY DepsInNodes
    <2>2. status[n] \in Live \cup {"completed"}
      BY DEF Live
    <2>3. status[d] \in Done /\ ~ Dormant(d)
      BY <2>1, <2>2 DEF GraphInv, DependencyOrder, Undisturbed
    <2> QED BY <2>1, <2>3 DEF Done
  <1> QED BY <1>1, AwakeGraph

\* Nothing the invariant reads changes.
LEMMA GraphKept ==
  ASSUME GraphInv, UNCHANGED <<cstatus, status, failure, blame, integ>>
  PROVE  GraphInv'
  <1>1. \A d \in Nodes : Dormant(d)' <=> Dormant(d)
    BY DEF Dormant
  <1>2. Asleep'
    BY <1>1 DEF GraphInv, Asleep, DormantWhere
  <1> QED BY <1>1, <1>2 DEF GraphInv, DependencyOrder, Undisturbed

LEMMA AttemptGraph ==
  ASSUME TypeInv, GraphInv, NEW n \in Nodes, NEW g \in Gens, Attempt(n, g)
  PROVE  GraphInv'
  <1>0. /\ status \in [Nodes -> NodeStatus] /\ failure \in [Nodes -> FailureClass]
        /\ integ \in [Nodes -> Integration]
    BY DEF TypeInv, TypeOK, NodeTypes, ResultTypes
  <1>1. CASE \/ RenewNodeLease(n, g) \/ ReserveNodeInfrastructureUsage(n, g)
             \/ RecordUsage(n, g) \/ MarkNodeExternalActionStarted(n, g)
             \/ CompleteNodeExternalAction(n, g)
    BY <1>1, GraphKept DEF RenewNodeLease, ReserveNodeInfrastructureUsage,
       RecordUsage, MarkNodeExternalActionStarted, CompleteNodeExternalAction,
       campaignVars, resultVars, failureVars
  <1>2. CASE \/ PrepareNodeResult(n, g) \/ BeginNodeResultIntegration(n, g)
             \/ MarkNodeResultIntegrated(n, g)
    <2>1. cstatus = "running" /\ UNCHANGED <<status, failure>>
      BY <1>2 DEF PrepareNodeResult, BeginNodeResultIntegration,
         MarkNodeResultIntegrated, Fence, failureVars
    <2> QED BY <2>1, RunningGraph
  <1>3. CASE StartNode(n, g)
    <2>1. /\ cstatus = "running" /\ failure' = failure /\ status[n] = "leased"
          /\ status' = [status EXCEPT ![n] = "running"]
      BY <1>3 DEF StartNode, Fence, failureVars
    <2> QED BY <1>0, <2>1, RunningGraph DEF Live, Done
  <1>4. CASE CancelNodeInfrastructureDeferred(n, g)
    <2>1. /\ cstatus \in {"running", "paused"} /\ status[n] \in {"queued", "running"}
          /\ status' = [status EXCEPT ![n] = "queued"]
          /\ failure' = [failure EXCEPT ![n] = "none"]
      BY <1>4 DEF CancelNodeInfrastructureDeferred, DeferralFence, Fence
    <2> QED BY <1>0, <2>1, RunningGraph DEF Live, Done
  <1>5. CASE \E accepted \in BOOLEAN : CompleteNode(n, g, accepted)
    <2>1. /\ cstatus = "running" /\ status[n] = "running"
          /\ status' = [status EXCEPT ![n] = "completed"]
          /\ failure' = [failure EXCEPT ![n] = "none"]
      BY <1>5 DEF CompleteNode, Fence
    <2> QED BY <1>0, <2>1, RunningGraph DEF Live, Done
  <1>6. CASE \E abandon \in BOOLEAN : FailNodeRetry(n, g, abandon)
    <2>1. /\ cstatus = "running" /\ status[n] = "running"
          /\ status' = [status EXCEPT ![n] = "queued"]
          /\ failure' = [failure EXCEPT ![n] = "node_failed"]
      BY <1>6 DEF FailNodeRetry, Fence
    <2> QED BY <1>0, <2>1, RunningGraph DEF Live, Done
  <1>7. CASE \E abandon \in BOOLEAN : FailNodeTerminal(n, g, abandon)
    <2>1. PICK abandon \in BOOLEAN : FailNodeTerminal(n, g, abandon)
      BY <1>7
    <2>2. cstatus = "running" /\ status[n] = "running" /\ status'[n] = "failed_terminal"
      BY <2>1 DEF FailNodeTerminal, Fence
    <2>3. cstatus' = "failed"
      BY <2>1, <2>2 DEF FailNodeTerminal, Projected
    <2>4. \A m \in Nodes : ~ Dormant(m)
      BY <2>2, NoneDormant DEF GraphInv
    <2>5. ASSUME NEW m \in Nodes, Dormant(m)'
          PROVE  /\ m # n /\ m \in Siblings(n) /\ ~ OutcomeUncertain(m)
                 /\ failure'[m] = "sibling_cancelled" /\ blame'[m] = {n}
      <3>1. m # n
        BY <2>2, <2>5 DEF Dormant
      <3>2. m \in Siblings(n)
        BY <2>1, <2>4, <2>5, <3>1 DEF FailNodeTerminal, Dormant
      <3> QED BY <2>1, <2>5, <3>1, <3>2 DEF FailNodeTerminal, Dormant
    <2>6. Asleep'
      <3> SUFFICES ASSUME NEW m \in Nodes, Dormant(m)' PROVE DormantWhere(m)'
        BY DEF Asleep
      <3>1. integ'[m] = integ[m]
        BY <1>0, <2>1, <2>5 DEF FailNodeTerminal, FailRow
      <3>2. integ'[m] # "integrating"
        BY <2>5, <3>1 DEF OutcomeUncertain
      <3> QED BY <2>2, <2>3, <2>5, <3>2 DEF DormantWhere
    <2>7. /\ \A m \in Nodes : status[m] \in Done => status'[m] \in Done
          /\ \A m \in Nodes : status'[m] \in Live \cup {"completed"} =>
               status[m] \in Live \cup {"completed"}
      BY <2>1, <2>2 DEF FailNodeTerminal, Siblings, Live, Done
    <2>8. \A m \in Nodes : Dormant(m)' => status[m] \in Open
      BY <2>5 DEF Siblings, Open
    <2> QED BY <2>6, <2>7, <2>8, SettlingGraph
  <1> QED BY <1>1, <1>2, <1>3, <1>4, <1>5, <1>6, <1>7 DEF Attempt

\* cancelCampaign, failCampaign and the two stops.
LEMMA TerminateGraph ==
  ASSUME GraphInv, ~ ({"fail", "retry"} \subseteq Commands),
         NEW from, NEW to, NEW rowStatus, NEW reason, Terminate(from, to, rowStatus, reason),
         from \subseteq {"running", "paused", "stopped"},
         \/ to \in {"stopped", "cancelled"} /\ rowStatus = "skipped"
         \/ to = "failed" /\ rowStatus = "failed_terminal" /\ "fail" \in Commands,
         reason \in StopReason
  PROVE  GraphInv'
  <1> DEFINE S == {n \in Nodes : status[n] \in Open}
  <1>1. /\ cstatus \in {"running", "paused", "stopped"} /\ cstatus' = to
        /\ status' = Put(status, S, rowStatus) /\ failure' = Put(failure, S, reason)
    BY DEF Terminate
  <1>2. ASSUME NEW m \in Nodes, Dormant(m)'
        PROVE  /\ Dormant(m) \/ status[m] \in Open
               /\ failure'[m] = "calls_exhausted"
               /\ to \in {"stopped", "cancelled"} \/ "fail" \in Commands
    <2>1. CASE m \in S
      BY <1>1, <1>2, <2>1 DEF Dormant, Put, StopReason
    <2>2. CASE m \notin S
      <3>1. status'[m] = status[m] /\ failure'[m] = failure[m]
        BY <1>1, <2>2 DEF Put
      <3>2. Dormant(m)
        BY <1>2, <3>1 DEF Dormant
      <3>3. failure[m] = "calls_exhausted"
        BY <1>1, <3>2 DEF GraphInv, Asleep, DormantWhere, Dormant
      <3> QED BY <3>1, <3>2, <3>3
    <2> QED BY <2>1, <2>2
  <1>3. Asleep'
    <2> SUFFICES ASSUME NEW m \in Nodes, Dormant(m)' PROVE DormantWhere(m)'
      BY DEF Asleep
    <2> QED BY <1>1, <1>2 DEF DormantWhere
  <1>4. /\ \A m \in Nodes : status[m] \in Done => status'[m] \in Done
        /\ \A m \in Nodes : status'[m] \in Live \cup {"completed"} =>
             status[m] \in Live \cup {"completed"}
    BY <1>1 DEF Put, Open, Live, Done
  <1> QED BY <1>2, <1>3, <1>4, SettlingGraph

\* A transaction that skips open rows for good and ends with the projection.
LEMMA SkippingGraph ==
  ASSUME GraphInv, NEW S, \A m \in Nodes : m \in S => status[m] \in Open,
         NEW reason, reason \notin {"calls_exhausted", "sibling_cancelled"},
         status' = Put(status, S, "skipped"), failure' = Put(failure, S, reason),
         integ' = integ, \A m \in Nodes : m \notin S => blame'[m] = blame[m],
         cstatus' = cstatus \/ cstatus = "running"
  PROVE  GraphInv'
  <1>1. ASSUME NEW m \in Nodes, Dormant(m)'
        PROVE  /\ Dormant(m) /\ m \notin S
               /\ failure'[m] = failure[m] /\ blame'[m] = blame[m] /\ cstatus' = cstatus
    <2>1. m \notin S
      BY <1>1 DEF Dormant, Put
    <2>2. status'[m] = status[m] /\ failure'[m] = failure[m] /\ blame'[m] = blame[m]
      BY <2>1 DEF Put
    <2>3. Dormant(m)
      BY <1>1, <2>2 DEF Dormant
    <2>4. cstatus # "running"
      BY <2>3, NoneDormant DEF GraphInv
    <2> QED BY <2>1, <2>2, <2>3, <2>4
  <1>2. \A x \in Nodes : status[x] = "failed_terminal" => status'[x] = "failed_terminal"
    BY DEF Put, Open, Live
  <1>3. Asleep'
    <2> SUFFICES ASSUME NEW m \in Nodes, Dormant(m)' PROVE DormantWhere(m)'
      BY DEF Asleep
    <2>1. Dormant(m) /\ DormantWhere(m)
      BY <1>1 DEF GraphInv, Asleep
    <2> QED BY <1>1, <1>2, <2>1 DEF DormantWhere
  <1>4. /\ \A m \in Nodes : status[m] \in Done => status'[m] \in Done
        /\ \A m \in Nodes : status'[m] \in Live \cup {"completed"} =>
             status[m] \in Live \cup {"completed"}
    BY DEF Put, Open, Live, Done
  <1> QED BY <1>1, <1>3, <1>4, SettlingGraph

LEMMA ResumeGraph ==
  ASSUME GraphInv, NEW b \in Budgets, ResumeCampaign(b)
  PROVE  GraphInv'
  <1> DEFINE exhausted == cstatus = "stopped" /\ stopReason = "calls_exhausted"
  <1> DEFINE S == {n \in Nodes : exhausted /\ status[n] = "skipped"
                                 /\ failure[n] = stopReason}
  <1>1. /\ cstatus = "paused" \/ exhausted
        /\ status' = Put(status, S, "queued") /\ failure' = Put(failure, S, "none")
    BY DEF ResumeCampaign
  <1>2. \A m \in Nodes : m \in S => Dormant(m)
    BY DEF Dormant
  <1>3. ASSUME NEW m \in Nodes, Dormant(m) PROVE m \in S
    <2>1. DormantWhere(m)
      BY <1>3 DEF GraphInv, Asleep
    <2>2. failure[m] = "calls_exhausted" /\ exhausted
      BY <1>1, <1>3, <2>1 DEF Dormant, DormantWhere
    <2> QED BY <1>3, <2>2 DEF Dormant
  <1>4. \A m \in Nodes : ~ Dormant(m)'
    BY <1>1, <1>3 DEF Dormant, Put
  <1>5. \A m \in Nodes :
          \/ status'[m] = status[m]
          \/ status'[m] = "queued" /\ Dormant(m)
    BY <1>1, <1>2 DEF Put
  <1> QED BY <1>4, <1>5, ReopenGraph

LEMMA RetryGraph ==
  ASSUME FenceInv, GraphInv, NEW n \in Nodes, RetryNode(n)
  PROVE  GraphInv'
  <1> DEFINE R == {m \in Nodes : /\ status[m] = "skipped"
                                 /\ failure[m] = "sibling_cancelled"
                                 /\ blame[m] = {n} /\ integ[m] # "integrating"}
  <1> DEFINE S == {n} \cup R
  <1>1. /\ "retry" \in Commands /\ status[n] = "failed_terminal"
        /\ status' = Put(status, S, "queued") /\ failure' = Put(failure, S, "none")
    BY DEF RetryNode
  <1>2. cstatus = "failed" /\ \A x \in Nodes : status[x] = "failed_terminal" => x = n
    BY <1>1 DEF FenceInv, FailedEnds, OneFailure
  <1>3. ASSUME NEW m \in Nodes, Dormant(m) PROVE m \in R
    <2>1. DormantWhere(m)
      BY <1>3 DEF GraphInv, Asleep
    <2> QED BY <1>1, <1>2, <1>3, <2>1 DEF Dormant, DormantWhere
  <1>4. \A m \in Nodes : ~ Dormant(m)'
    BY <1>1, <1>3 DEF Dormant, Put
  <1>5. \A m \in Nodes :
          \/ status'[m] = status[m]
          \/ status'[m] = "queued" /\ (Dormant(m) \/ status[m] = "failed_terminal")
    BY <1>1 DEF Put, Dormant
  <1> QED BY <1>4, <1>5, ReopenGraph

LEMMA GraphStep ==
  ASSUME ~ ({"fail", "retry"} \subseteq Commands)
  PROVE  TypeInv /\ FenceInv /\ GraphInv /\ [Next]_vars => GraphInv'
  <1> SUFFICES ASSUME TypeInv, FenceInv, GraphInv, [Next]_vars PROVE GraphInv'
    OBVIOUS
  <1>0. status \in [Nodes -> NodeStatus] /\ failure \in [Nodes -> FailureClass]
    BY DEF TypeInv, TypeOK, NodeTypes, ResultTypes
  <1>1. CASE \E w \in Workers, n \in Nodes : ClaimReady(w, n)
    <2>1. PICK n \in Nodes : /\ cstatus = "running" /\ Ready(n) /\ failure' = failure
                             /\ status' = [status EXCEPT ![n] = "leased"]
      BY <1>1 DEF ClaimReady, failureVars
    <2>2. status[n] = "queued"
      BY <2>1 DEF Ready
    <2> QED BY <1>0, <2>1, <2>2, RunningGraph DEF Live, Done
  <1>2. CASE \/ \E w \in Workers : Crash(w)
             \/ \E n \in Nodes : ClockTick(n) \/ CancelNodeRead(n)
             \/ UNCHANGED vars
    BY <1>2, GraphKept DEF Crash, ClockTick, CancelNodeRead, vars, campaignVars,
       resultVars, failureVars
  <1>3. CASE \E n \in Nodes : RecoverExpiredLease(n)
    <2>1. PICK n \in Nodes, st \in {"queued", "external_outcome_uncertain"},
               c \in {"lease_expired_recovered", "external_outcome_uncertain"} :
            /\ cstatus = "running" /\ status[n] \in Live
            /\ status' = [status EXCEPT ![n] = st]
            /\ failure' = [failure EXCEPT ![n] = c]
      BY <1>3 DEF RecoverExpiredLease, RecoverLeased, RecoverPrepared,
         RecoverRefund, RecoverUncertain, RequeueRecovered, Recoverable
    <2> QED BY <1>0, <2>1, RunningGraph DEF Live, Done
  <1>4. CASE \E n \in Nodes, g \in Gens : Attempt(n, g)
    BY <1>4, AttemptGraph
  <1>5. CASE Lifecycle
    <2>1. CASE PauseCampaign
      <3>1. /\ cstatus = "running" /\ failure' = failure
            /\ status' = Put(status, {n \in Nodes : status[n] \in Live}, "queued")
        BY <2>1 DEF PauseCampaign, failureVars
      <3> QED BY <1>0, <3>1, RunningGraph DEF Put, Live, Done
    <2>2. CASE \E b \in Budgets : ResumeCampaign(b)
      BY <2>2, ResumeGraph
    <2>3. CASE CancelCampaign \/ FailCampaign \/ StopExhausted
      BY <2>3, TerminateGraph DEF CancelCampaign, FailCampaign, StopExhausted,
         StopReason
    <2>4. CASE \E f \in followUp : StopNotConverged(f)
      <3>1. \/ Terminate({"running", "paused"}, "stopped", "skipped", "not_converged")
            \/ UNCHANGED <<cstatus, status, failure, blame, integ>>
        BY <2>4 DEF StopNotConverged, campaignVars, resultVars, failureVars
      <3> QED BY <3>1, TerminateGraph, GraphKept DEF StopReason
    <2>5. CASE \E f \in followUp : SkipFutureRounds(f)
      <3>1. PICK f \in followUp : SkipFutureRounds(f)
        BY <2>5
      <3>2. /\ status' = Put(status, FutureRounds(f[2]), "skipped")
            /\ failure' = Put(failure, FutureRounds(f[2]), "converged")
            /\ integ' = integ /\ blame' = blame
            /\ cstatus' = cstatus \/ cstatus = "running"
        BY <3>1 DEF SkipFutureRounds, Projected, resultVars
      <3>3. \A m \in Nodes : m \in FutureRounds(f[2]) => status[m] \in Open
        BY DEF FutureRounds, Open
      <3> QED BY <3>2, <3>3, SkippingGraph
    <2> QED BY <1>5, <2>1, <2>2, <2>3, <2>4, <2>5 DEF Lifecycle
  <1>6. CASE \E n \in Nodes : CancelRequiredNode(n) \/ CancelNodeCommit(n)
    <2>1. PICK n \in Nodes : CancelRequiredNode(n) \/ CancelNodeCommit(n)
      BY <1>6
    <2> DEFINE S == {m \in Cascade(n) : status[m] \in Open}
    <2>2. /\ status' = Put(status, S, "skipped")
          /\ failure' = Put(failure, S, "node_cancelled")
          /\ integ' = integ /\ blame' = Put(blame, S, {})
          /\ cstatus' = cstatus \/ cstatus = "running"
      BY <2>1 DEF CancelRequiredNode, CancelNodeCommit, SkipCascade, Projected,
         resultVars
    <2>3. \A m \in Nodes : m \notin S => blame'[m] = blame[m]
      BY <2>2 DEF Put
    <2> QED BY <2>2, <2>3, SkippingGraph
  <1>7. CASE \E n \in Nodes : RetryNode(n)
    BY <1>7, RetryGraph
  <1> QED BY <1>1, <1>2, <1>3, <1>4, <1>5, <1>6, <1>7 DEF Next

LEMMA GraphHolds ==
  ASSUME ~ ({"fail", "retry"} \subseteq Commands)
  PROVE  Spec => []GraphInv
  <1>1. Init => GraphInv
    BY DEF Init, GraphInv, DependencyOrder, Asleep, Undisturbed, Dormant, Live
  <1> QED BY <1>1, TypeInvHolds, FenceInvHolds, GraphStep, PTL DEF Spec

\* Work happens in the order of the DAG, whatever was stopped, resumed, failed
\* and retried in between, unless an operator both fails campaigns by command
\* and retries the nodes that command failed.
THEOREM WorkFollowsDependencies ==
  ASSUME ~ ({"fail", "retry"} \subseteq Commands)
  PROVE  Spec => []DependencyOrder
  <1>1. GraphInv => DependencyOrder
    BY DEF GraphInv
  <1> QED BY <1>1, GraphHolds, PTL

-----------------------------------------------------------------------------
(* Pending work.  As long as the campaign may still run, a row that is not   *)
(* settled, or that running again reopens, stays so until its own completion *)
(* or an accepted convergence round before it settles it.                    *)

\* Without node cancellation, no cancelNode is ever half way.
NoCancelRead == cancelRead = {}

MayRun ==
  \/ cstatus \in {"running", "paused"}
  \/ cstatus = "stopped" /\ stopReason = "calls_exhausted"
  \/ cstatus = "failed" /\ "retry" \in Commands

Pending(m) == status[m] \notin Done \/ Dormant(m)

OpenRow(m) == MayRun => Pending(m)

LEMMA CancelReadStep ==
  ASSUME "cancel_node" \notin Commands, NoCancelRead, [Next]_vars
  PROVE  NoCancelRead'
  <1> USE DEF NoCancelRead
  <1>1. CASE \E n \in Nodes, g \in Gens : Attempt(n, g)
    BY <1>1 DEF Attempt, RenewNodeLease, StartNode, RecordUsage,
       ReserveNodeInfrastructureUsage, MarkNodeExternalActionStarted,
       CompleteNodeExternalAction, CancelNodeInfrastructureDeferred,
       PrepareNodeResult, BeginNodeResultIntegration,
       MarkNodeResultIntegrated, CompleteNode, FailNodeRetry, FailNodeTerminal,
       processVars
  <1>2. CASE Lifecycle
    BY <1>2 DEF Lifecycle, PauseCampaign, ResumeCampaign, CancelCampaign,
       FailCampaign, StopExhausted, StopNotConverged, SkipFutureRounds,
       processVars
  <1>3. CASE UNCHANGED vars
    BY <1>3 DEF vars, processVars
  <1> QED BY <1>1, <1>2, <1>3 DEF Next, ClaimReady, Crash, ClockTick,
          RecoverExpiredLease, RecoverLeased, RecoverPrepared, RecoverRefund,
          RecoverUncertain, RequeueRecovered, CancelRequiredNode,
          CancelNodeRead, CancelNodeCommit, RetryNode, processVars

\* In a campaign that runs or is paused an open row is simply not settled.
LEMMA RowUnsettled ==
  ASSUME GraphInv, NEW m \in Nodes, OpenRow(m), cstatus \in {"running", "paused"}
  PROVE  status[m] \notin Done
  <1>1. ~ Dormant(m)
    BY NoneDormant DEF GraphInv
  <1> QED BY <1>1 DEF OpenRow, Pending, MayRun

\* A step that leaves the row and the way back to running alone.
LEMMA RowKept ==
  ASSUME NEW m, OpenRow(m), MayRun' => MayRun, status'[m] = status[m],
         failure'[m] = failure[m]
  PROVE  OpenRow(m)'
  BY DEF OpenRow, Pending, Dormant

\* A step that leaves the row unsettled.
LEMMA RowStaysOpen ==
  ASSUME NEW m, status'[m] \notin Done
  PROVE  OpenRow(m)'
  BY DEF OpenRow, Pending

Completes(m) ==
  \E g \in Gens, accepted \in BOOLEAN : CompleteNode(m, g, accepted)

Converges(m) == \E f \in followUp : SkipFutureRounds(f) /\ m \in FutureRounds(f[2])

LEMMA RowAttempt ==
  ASSUME TypeInv, GraphInv, NEW m \in Nodes, OpenRow(m), ~ Completes(m),
         NEW n \in Nodes, NEW g \in Gens, Attempt(n, g)
  PROVE  OpenRow(m)'
  <1>0. status \in [Nodes -> NodeStatus]
    BY DEF TypeInv, TypeOK, NodeTypes
  <1>1. cstatus \in {"running", "paused"}
    BY DEF Attempt, RenewNodeLease, StartNode, RecordUsage,
       ReserveNodeInfrastructureUsage, MarkNodeExternalActionStarted,
       CompleteNodeExternalAction, CancelNodeInfrastructureDeferred,
       DeferralFence, PrepareNodeResult, BeginNodeResultIntegration,
       MarkNodeResultIntegrated, CompleteNode, FailNodeRetry, FailNodeTerminal,
       Fence
  <1>2. status[m] \notin Done
    BY <1>1, RowUnsettled
  <1>3. CASE \E accepted \in BOOLEAN : CompleteNode(n, g, accepted)
    <2>1. n # m
      BY <1>3 DEF Completes
    <2>2. status'[m] = status[m]
      BY <1>0, <1>3, <2>1 DEF CompleteNode
    <2> QED BY <1>2, <2>2, RowStaysOpen
  <1>4. CASE \E abandon \in BOOLEAN : FailNodeTerminal(n, g, abandon)
    <2>1. \/ status'[m] \notin Done
          \/ status'[m] = "skipped" /\ failure'[m] = "sibling_cancelled"
      BY <1>0, <1>2, <1>4 DEF FailNodeTerminal, Done
    <2> QED BY <2>1 DEF OpenRow, Pending, Dormant
  <1>5. CASE \/ StartNode(n, g) \/ CancelNodeInfrastructureDeferred(n, g)
             \/ \E abandon \in BOOLEAN : FailNodeRetry(n, g, abandon)
    <2>1. PICK st \in {"running", "queued"} : status' = [status EXCEPT ![n] = st]
      BY <1>5 DEF StartNode, CancelNodeInfrastructureDeferred, FailNodeRetry
    <2> QED BY <1>0, <1>2, <2>1, RowStaysOpen DEF Done
  <1>6. CASE \/ RenewNodeLease(n, g) \/ ReserveNodeInfrastructureUsage(n, g)
             \/ RecordUsage(n, g) \/ MarkNodeExternalActionStarted(n, g)
             \/ CompleteNodeExternalAction(n, g) \/ PrepareNodeResult(n, g)
             \/ BeginNodeResultIntegration(n, g)
             \/ MarkNodeResultIntegrated(n, g)
    <2>1. status' = status
      BY <1>6 DEF RenewNodeLease, ReserveNodeInfrastructureUsage, RecordUsage,
         MarkNodeExternalActionStarted, CompleteNodeExternalAction,
         PrepareNodeResult, BeginNodeResultIntegration, MarkNodeResultIntegrated
    <2> QED BY <1>2, <2>1, RowStaysOpen
  <1> QED BY <1>3, <1>4, <1>5, <1>6 DEF Attempt

\* Only its own completion or an accepted convergence round settles a row.
LEMMA RowStep ==
  ASSUME ~ ({"fail", "retry"} \subseteq Commands), "cancel_node" \notin Commands,
         TypeInv, FenceInv, GraphInv, NoCancelRead, [Next]_vars,
         NEW m \in Nodes, OpenRow(m), ~ Completes(m), ~ Converges(m)
  PROVE  OpenRow(m)'
  <1>0. status \in [Nodes -> NodeStatus]
    BY DEF TypeInv, TypeOK, NodeTypes
  <1>1. CASE \/ \E w \in Workers, n \in Nodes : ClaimReady(w, n)
             \/ \E n \in Nodes : RecoverExpiredLease(n)
    <2>1. PICK n \in Nodes, st \in {"leased", "queued", "external_outcome_uncertain"} :
            cstatus = "running" /\ status' = [status EXCEPT ![n] = st]
      BY <1>1 DEF ClaimReady, RecoverExpiredLease, RecoverLeased,
         RecoverPrepared, RecoverRefund, RecoverUncertain, RequeueRecovered,
         Recoverable
    <2>2. status[m] \notin Done
      BY <2>1, RowUnsettled
    <2> QED BY <1>0, <2>1, <2>2, RowStaysOpen DEF Done
  <1>2. CASE \/ \E w \in Workers : Crash(w)
             \/ \E n \in Nodes : ClockTick(n) \/ CancelNodeRead(n)
             \/ UNCHANGED vars
    BY <1>2, RowKept DEF Crash, ClockTick, CancelNodeRead, vars, campaignVars,
       failureVars, MayRun
  <1>3. CASE \E n \in Nodes, g \in Gens : Attempt(n, g)
    BY <1>3, RowAttempt
  <1>4. CASE Lifecycle
    <2>1. CASE PauseCampaign
      <3>1. /\ cstatus = "running"
            /\ status' = Put(status, {n \in Nodes : status[n] \in Live}, "queued")
        BY <2>1 DEF PauseCampaign
      <3>2. status[m] \notin Done
        BY <3>1, RowUnsettled
      <3> QED BY <1>0, <3>1, <3>2, RowStaysOpen DEF Put, Done
    <2>2. CASE \E b \in Budgets : ResumeCampaign(b)
      <3>1. GraphInv' /\ cstatus' = "running"
        BY <2>2, ResumeGraph DEF ResumeCampaign
      <3>2. \A d \in Nodes : ~ Dormant(d)'
        BY <3>1 DEF GraphInv, Asleep, Dormant, DormantWhere
      <3>3. MayRun
        BY <2>2 DEF ResumeCampaign, MayRun
      <3>4. CASE Dormant(m)
        <4>1. status'[m] \in {"queued", "skipped"}
              /\ (status'[m] = "skipped" => failure'[m] = failure[m])
          BY <1>0, <2>2, <3>4 DEF ResumeCampaign, Put, Dormant
        <4>2. status'[m] # "skipped"
          BY <1>0, <3>2, <3>4, <4>1 DEF Dormant
        <4> QED BY <4>1, <4>2, RowStaysOpen DEF Done
      <3>5. CASE status[m] \notin Done
        <4>1. status'[m] = status[m]
          BY <1>0, <2>2, <3>5 DEF ResumeCampaign, Put, Done
        <4> QED BY <3>5, <4>1, RowStaysOpen
      <3> QED BY <3>3, <3>4, <3>5 DEF OpenRow, Pending
    <2>3. CASE StopExhausted
      <3>1. /\ cstatus \in {"running", "paused"}
            /\ status' = Put(status, {n \in Nodes : status[n] \in Open}, "skipped")
            /\ failure' = Put(failure, {n \in Nodes : status[n] \in Open}, "calls_exhausted")
        BY <2>3 DEF StopExhausted, Terminate
      <3>2. status[m] \notin Done
        BY <3>1, RowUnsettled
      <3> QED BY <1>0, <3>1, <3>2 DEF OpenRow, Pending, Put, Dormant
    <2>4. CASE CancelCampaign \/ FailCampaign
      BY <2>4 DEF CancelCampaign, FailCampaign, Terminate, OpenRow, MayRun
    <2>5. CASE \E f \in followUp : StopNotConverged(f)
      <3>1. \/ cstatus' = "stopped" /\ stopReason' = "not_converged"
            \/ UNCHANGED <<cstatus, stopReason, status, failure>>
        BY <2>5 DEF StopNotConverged, Terminate, campaignVars, failureVars
      <3> QED BY <3>1, RowKept DEF OpenRow, Pending, MayRun
    <2>6. CASE \E f \in followUp : SkipFutureRounds(f)
      <3>1. /\ status'[m] = status[m] /\ failure'[m] = failure[m]
            /\ cstatus' = cstatus \/ cstatus = "running"
            /\ stopReason' = stopReason
        BY <1>0, <2>6 DEF SkipFutureRounds, Converges, Put, Projected
      <3>2. MayRun' => MayRun
        BY <3>1 DEF MayRun
      <3> QED BY <3>1, <3>2, RowKept
    <2> QED BY <1>4, <2>1, <2>2, <2>3, <2>4, <2>5, <2>6 DEF Lifecycle
  <1>5. CASE \E n \in Nodes : RetryNode(n)
    <2>1. PICK n \in Nodes : RetryNode(n)
      BY <1>5
    <2>2. GraphInv' /\ cstatus' = "running"
      BY <2>1, RetryGraph DEF RetryNode
    <2>3. \A d \in Nodes : ~ Dormant(d)'
      BY <2>2 DEF GraphInv, Asleep, Dormant, DormantWhere
    <2>4. MayRun
      BY <2>1 DEF RetryNode, FenceInv, FailedEnds, MayRun
    <2>5. PICK S : status' = Put(status, S, "queued") /\ failure' = Put(failure, S, "none")
      BY <2>1 DEF RetryNode
    <2>6. CASE m \in S
      BY <1>0, <2>5, <2>6, RowStaysOpen DEF Put, Done
    <2>7. CASE m \notin S
      <3>1. status'[m] = status[m] /\ failure'[m] = failure[m]
        BY <1>0, <2>5, <2>7 DEF Put
      <3>2. ~ Dormant(m)
        BY <1>0, <2>3, <3>1 DEF Dormant
      <3> QED BY <2>4, <3>1, <3>2, RowStaysOpen DEF OpenRow, Pending
    <2> QED BY <2>6, <2>7
  <1> QED BY <1>1, <1>2, <1>3, <1>4, <1>5
          DEF Next, CancelRequiredNode, CancelNodeCommit, NoCancelRead

\* No row becomes completed but by completeNode.
LEMMA CompletedBy ==
  ASSUME TypeInv, [Next]_vars, NEW m \in Nodes, status[m] # "completed",
         ~ Completes(m)
  PROVE  status'[m] # "completed"
  <1>0. status \in [Nodes -> NodeStatus]
    BY DEF TypeInv, TypeOK, NodeTypes
  <1>1. CASE \E w \in Workers : Crash(w) \/ \E n \in Nodes : ClaimReady(w, n)
    BY <1>0, <1>1 DEF Crash, ClaimReady
  <1>2. CASE \E n \in Nodes : ClockTick(n) \/ RecoverExpiredLease(n)
    BY <1>0, <1>2 DEF ClockTick, RecoverExpiredLease, RecoverLeased,
       RecoverPrepared, RecoverRefund, RecoverUncertain, RequeueRecovered
  <1>3. CASE \E n \in Nodes, g \in Gens : Attempt(n, g)
    <2>1. PICK n \in Nodes, g \in Gens : Attempt(n, g)
      BY <1>3
    <2>2. CASE \E accepted \in BOOLEAN : CompleteNode(n, g, accepted)
      <3>1. n # m
        BY <2>2 DEF Completes
      <3> QED BY <1>0, <2>2, <3>1 DEF CompleteNode
    <2>3. CASE \E abandon \in BOOLEAN : FailNodeTerminal(n, g, abandon)
      BY <1>0, <2>3 DEF FailNodeTerminal
    <2> QED BY <1>0, <2>1, <2>2, <2>3 DEF Attempt, RenewNodeLease, StartNode,
            ReserveNodeInfrastructureUsage, RecordUsage,
            MarkNodeExternalActionStarted, CompleteNodeExternalAction,
            CancelNodeInfrastructureDeferred, PrepareNodeResult,
            BeginNodeResultIntegration, MarkNodeResultIntegrated, FailNodeRetry
  <1>4. CASE Lifecycle
    BY <1>4 DEF Lifecycle, PauseCampaign, ResumeCampaign, CancelCampaign,
       FailCampaign, StopExhausted, StopNotConverged, SkipFutureRounds,
       Terminate, Put
  <1>5. CASE \E n \in Nodes : \/ CancelRequiredNode(n) \/ CancelNodeRead(n)
                              \/ CancelNodeCommit(n) \/ RetryNode(n)
    BY <1>5 DEF CancelRequiredNode, CancelNodeRead, CancelNodeCommit,
       SkipCascade, RetryNode, Put
  <1>6. CASE UNCHANGED vars
    BY <1>6 DEF vars
  <1> QED BY <1>1, <1>2, <1>3, <1>4, <1>5, <1>6 DEF Next

\* The package of a campaign that may still run is completed or still to come: no
\* skipped round ever takes it along.  It is published when it carries a bundle.
PackageHeld ==
  Package \in Nodes =>
    /\ MayRun => status[Package] = "completed" \/ Pending(Package)
    /\ status[Package] = "completed" =>
         result[Package] \in Gens /\ (release # 0 <=> result[Package] \in Bundled)

LEMMA PackageHeldStep ==
  ASSUME ~ ({"fail", "retry"} \subseteq Commands), "cancel_node" \notin Commands,
         TypeInv, FenceInv, GraphInv, NoCancelRead, ReleaseMatchesPackage,
         PackageHeld, [Next]_vars
  PROVE  PackageHeld'
  <1> SUFFICES ASSUME Package \in Nodes
               PROVE  /\ MayRun' => status'[Package] = "completed" \/ Pending(Package)'
                      /\ status'[Package] = "completed" =>
                           /\ result'[Package] \in Gens
                           /\ release' # 0 <=> result'[Package] \in Bundled
    BY DEF PackageHeld
  <1>0. /\ Package \in Tail /\ status \in [Nodes -> NodeStatus]
        /\ prep \in [Nodes -> 0 .. MaxGen] /\ result \in [Nodes -> 0 .. MaxGen]
    BY NodesAssumption DEF TypeInv, TypeOK, NodeTypes, ResultTypes
  <1>1. CASE Completes(Package)
    <2>1. PICK g \in Gens, accepted \in BOOLEAN : CompleteNode(Package, g, accepted)
      BY <1>1 DEF Completes
    <2>2. /\ status'[Package] = "completed" /\ result'[Package] = prep[Package]
          /\ prep[Package] \in Gens /\ status[Package] = "running"
      BY <1>0, <2>1, BoundsAssumption DEF CompleteNode, Fence, Gens
    <2>3. release = 0
      BY <2>2 DEF ReleaseMatchesPackage
    <2>4. release' # 0 <=> prep[Package] \in Bundled
      BY <2>1, <2>3 DEF CompleteNode, Publishes, Gens
    <2> QED BY <2>2, <2>4
  <1>2. CASE status[Package] = "completed"
    <2>1. status'[Package] = "completed" /\ result'[Package] = result[Package]
      BY <1>2, SettledRows
    <2>2. release' = release
      <3>1. SUFFICES ASSUME PublishStep PROVE FALSE
        BY ReleaseOnlyByPackage
      <3> QED BY <1>2, <3>1 DEF PublishStep, CompleteNode, Fence
    <2> QED BY <1>2, <2>1, <2>2 DEF PackageHeld
  <1>3. CASE status[Package] # "completed" /\ ~ Completes(Package)
    <2>1. OpenRow(Package)
      BY <1>3 DEF PackageHeld, OpenRow
    <2>2. ~ Converges(Package)
      BY <1>0 DEF Converges, FutureRounds
    <2>3. OpenRow(Package)'
      BY <1>3, <2>1, <2>2, RowStep
    <2>4. status'[Package] # "completed"
      BY <1>3, CompletedBy
    <2> QED BY <2>3, <2>4 DEF OpenRow
  <1> QED BY <1>1, <1>2, <1>3

LEMMA PackageHolds ==
  ASSUME ~ ({"fail", "retry"} \subseteq Commands), "cancel_node" \notin Commands
  PROVE  Spec => [](NoCancelRead /\ PackageHeld)
  <1>1. Init => NoCancelRead /\ PackageHeld
    BY DEF Init, NoCancelRead, PackageHeld, Pending, Done
  <1>2. TypeInv /\ FenceInv /\ GraphInv /\ ReleaseMatchesPackage
          /\ (NoCancelRead /\ PackageHeld) /\ [Next]_vars
          => (NoCancelRead /\ PackageHeld)'
    BY CancelReadStep, PackageHeldStep
  <1> QED BY <1>1, <1>2, TypeInvHolds, FenceInvHolds, GraphHolds, ReleaseHolds, PTL
          DEF Spec

\* The campaign becomes completed only by the projection, and only with every
\* row settled.
LEMMA BecomesCompleted ==
  ASSUME TypeInv, NoCancelRead, "cancel_node" \notin Commands, [Next]_vars,
         cstatus # "completed", cstatus' = "completed"
  PROVE  /\ cstatus = "running" /\ \A n \in Nodes : status'[n] \in Done
         /\ \A m \in Nodes : Completes(m) \/ status'[m] = status[m] \/ Converges(m)
  <1>0. status \in [Nodes -> NodeStatus]
    BY DEF TypeInv, TypeOK, NodeTypes
  <1>1. CASE \E n \in Nodes, g \in Gens : Attempt(n, g)
    <2>1. PICK n \in Nodes, g \in Gens : Attempt(n, g)
      BY <1>1
    <2>2. CASE \E accepted \in BOOLEAN : CompleteNode(n, g, accepted)
      <3>1. /\ cstatus = "running" /\ cstatus' = Projected(status')
            /\ status' = [status EXCEPT ![n] = "completed"] /\ Completes(n)
        BY <2>2 DEF CompleteNode, Fence, Completes
      <3>2. \A m \in Nodes : Completes(m) \/ status'[m] = status[m]
        BY <1>0, <3>1
      <3> QED BY <3>1, <3>2 DEF Projected
    <2>3. CASE \E abandon \in BOOLEAN : FailNodeRetry(n, g, abandon)
      <3>1. /\ cstatus = "running" /\ cstatus' = Projected(status')
            /\ status'[n] \notin Done
        BY <1>0, <2>3 DEF FailNodeRetry, Fence, Done
      <3> QED BY <3>1 DEF Projected
    <2>4. CASE \E abandon \in BOOLEAN : FailNodeTerminal(n, g, abandon)
      <3>1. /\ cstatus = "running" /\ cstatus' = Projected(status')
            /\ status'[n] = "failed_terminal"
        BY <2>4 DEF FailNodeTerminal, Fence
      <3> QED BY <3>1 DEF Projected
    <2> QED BY <2>1, <2>2, <2>3, <2>4 DEF Attempt, RenewNodeLease,
            StartNode, RecordUsage, ReserveNodeInfrastructureUsage,
            MarkNodeExternalActionStarted, CompleteNodeExternalAction,
            CancelNodeInfrastructureDeferred, PrepareNodeResult,
            BeginNodeResultIntegration, MarkNodeResultIntegrated, campaignVars
  <1>2. CASE Lifecycle
    <2>1. CASE \E f \in followUp : SkipFutureRounds(f)
      <3>1. PICK f \in followUp : SkipFutureRounds(f)
        BY <2>1
      <3>2. /\ cstatus' = Projected(status')
            /\ status' = Put(status, FutureRounds(f[2]), "skipped")
        BY <3>1 DEF SkipFutureRounds
      <3>3. cstatus = "running" /\ \A n \in Nodes : status'[n] \in Done
        BY <3>2 DEF Projected
      <3>4. \A m \in Nodes : status'[m] = status[m] \/ Converges(m)
        BY <3>1, <3>2 DEF Put, Converges
      <3> QED BY <3>3, <3>4
    <2> QED BY <1>2, <2>1 DEF Lifecycle, PauseCampaign, ResumeCampaign,
            CancelCampaign, FailCampaign, StopExhausted, StopNotConverged,
            Terminate, campaignVars
  <1>3. CASE UNCHANGED vars
    BY <1>3 DEF vars, campaignVars
  <1> QED BY <1>1, <1>2, <1>3 DEF Next, ClaimReady, Crash, ClockTick,
          RecoverExpiredLease, RecoverLeased, RecoverPrepared, RecoverRefund,
          RecoverUncertain, RequeueRecovered, CancelRequiredNode,
          CancelNodeRead, CancelNodeCommit, RetryNode, NoCancelRead, campaignVars

LEMMA CompletedStep ==
  ASSUME ~ ({"fail", "retry"} \subseteq Commands), "cancel_node" \notin Commands,
         TypeInv, FenceInv, GraphInv, NoCancelRead, ReleaseMatchesPackage,
         PackageHeld, CompletedIsPackaged, [Next]_vars
  PROVE  CompletedIsPackaged'
  <1> SUFFICES ASSUME cstatus' = "completed"
               PROVE  /\ \A n \in Nodes : status'[n] \in Done
                      /\ Package \in Nodes => status'[Package] = "completed"
                      /\ release' # 0 <=>
                           (Package \in Nodes /\ result'[Package] \in Bundled)
    BY DEF CompletedIsPackaged
  <1>1. CASE cstatus = "completed"
    <2>1. \A n \in Nodes : status[n] \in Done
      BY <1>1 DEF CompletedIsPackaged
    <2>2. UNCHANGED released
      BY <1>1, <2>1, CompletedFrozen
    <2> QED BY <1>1, <2>2 DEF released, CompletedIsPackaged
  <1>2. CASE cstatus # "completed"
    <2>1. /\ cstatus = "running" /\ \A n \in Nodes : status'[n] \in Done
          /\ \A m \in Nodes : Completes(m) \/ status'[m] = status[m] \/ Converges(m)
      BY <1>2, BecomesCompleted
    <2>2. ASSUME Package \in Nodes PROVE status'[Package] = "completed"
      <3>0. Package \in Tail /\ status \in [Nodes -> NodeStatus]
        BY <2>2, NodesAssumption DEF TypeInv, TypeOK, NodeTypes
      <3>1. CASE Completes(Package)
        BY <2>2, <3>0, <3>1 DEF Completes, CompleteNode
      <3>2. CASE ~ Completes(Package)
        <4>1. status'[Package] = status[Package]
          BY <2>1, <2>2, <3>0, <3>2 DEF Converges, FutureRounds
        <4>2. status[Package] = "completed" \/ Pending(Package)
          BY <2>1, <2>2 DEF PackageHeld, MayRun
        <4>3. ~ Dormant(Package)
          BY <2>1, <2>2, NoneDormant DEF GraphInv
        <4> QED BY <2>1, <2>2, <4>1, <4>2, <4>3 DEF Pending
      <3> QED BY <3>1, <3>2
    <2>3. PackageHeld'
      BY PackageHeldStep
    <2>4. CASE Package \in Nodes
      BY <2>1, <2>2, <2>3, <2>4 DEF PackageHeld
    <2>5. CASE Package \notin Nodes
      <3>1. release' = release
        BY <2>5, ReleaseOnlyByPackage DEF PublishStep
      <3>2. release = 0
        BY <2>1 DEF ReleaseMatchesPackage
      <3> QED BY <2>1, <2>5, <3>1, <3>2
    <2> QED BY <2>4, <2>5
  <1> QED BY <1>1, <1>2

\* A campaign that reports completion has the result of its package, if it has
\* one, and a release exactly when that result carries a bundle, for every DAG,
\* every number of rounds and every number of processes, as long as no operator
\* cancels single nodes.
THEOREM CompletionIsPackaged ==
  ASSUME ~ ({"fail", "retry"} \subseteq Commands), "cancel_node" \notin Commands
  PROVE  Spec => []CompletedIsPackaged
  <1>1. Init => CompletedIsPackaged
    BY DEF Init, CompletedIsPackaged
  <1>2. TypeInv /\ FenceInv /\ GraphInv /\ (NoCancelRead /\ PackageHeld)
          /\ ReleaseMatchesPackage /\ CompletedIsPackaged /\ [Next]_vars
          => CompletedIsPackaged'
    BY CompletedStep
  <1> QED BY <1>1, <1>2, TypeInvHolds, FenceInvHolds, GraphHolds, PackageHolds,
          ReleaseHolds, PTL DEF Spec

-----------------------------------------------------------------------------
(* Something to do.  completeNode ends with the projection, which reports a  *)
(* campaign with nothing left to do as completed; skipFutureRounds does so   *)
(* only while the campaign runs.  Round skipping is therefore harmless when  *)
(* there are no rounds, when no one pauses, or when the package, which no    *)
(* round takes along, can complete only together with the campaign.          *)

NoIdleSkip ==
  \/ Convergence = {}
  \/ "pause" \notin Commands
  \/ Package \in Nodes /\ Bundled = Gens

SomePending == MayRun => \E m \in Nodes : Pending(m)

\* Rows that no transaction settles while the campaign does not run.
Lasting(m) == \/ Dormant(m)
              \/ status[m] \in {"failed_terminal", "external_outcome_uncertain"}

\* While a convergence follow-up is outstanding and nobody pauses, a campaign that
\* does not run but may run again has a row that outlasts the follow-up.
FollowUpGuarded ==
  "pause" \notin Commands /\ followUp # {} /\ MayRun =>
    cstatus = "running" \/ \E m \in Nodes : Lasting(m)

LEMMA LastingKept ==
  ASSUME TypeInv, NoCancelRead, "cancel_node" \notin Commands, [Next]_vars,
         NEW m \in Nodes, Lasting(m), cstatus' # "running"
  PROVE  Lasting(m)'
  <1>0. status \in [Nodes -> NodeStatus] /\ failure \in [Nodes -> FailureClass]
    BY DEF TypeInv, TypeOK, NodeTypes, ResultTypes
  <1>a. status[m] \notin Open
    BY DEF Lasting, Dormant, Open, Live
  <1> SUFFICES status'[m] = status[m] /\ failure'[m] = failure[m]
    BY DEF Lasting, Dormant
  <1>1. CASE \E w \in Workers : Crash(w) \/ \E n \in Nodes : ClaimReady(w, n)
    BY <1>0, <1>1 DEF Crash, ClaimReady, campaignVars, failureVars
  <1>2. CASE \E n \in Nodes : ClockTick(n) \/ RecoverExpiredLease(n)
    BY <1>0, <1>a, <1>2 DEF ClockTick, RecoverExpiredLease, RecoverLeased,
       RecoverPrepared, RecoverRefund, RecoverUncertain, RequeueRecovered,
       Recoverable, Open, failureVars
  <1>3. CASE \E n \in Nodes, g \in Gens : Attempt(n, g)
    <2>1. PICK n \in Nodes, g \in Gens : Attempt(n, g)
      BY <1>3
    <2>2. CASE \E abandon \in BOOLEAN : FailNodeTerminal(n, g, abandon)
      BY <1>0, <1>a, <2>2 DEF FailNodeTerminal, Fence, Siblings, Open, Live
    <2>3. CASE CancelNodeInfrastructureDeferred(n, g)
      BY <1>0, <1>a, <2>3 DEF CancelNodeInfrastructureDeferred, DeferralFence,
         Fence, Open, Live, failureVars
    <2> QED BY <1>0, <1>a, <2>1, <2>2, <2>3 DEF Attempt, RenewNodeLease,
            StartNode, ReserveNodeInfrastructureUsage, RecordUsage,
            MarkNodeExternalActionStarted, CompleteNodeExternalAction,
            PrepareNodeResult, BeginNodeResultIntegration,
            MarkNodeResultIntegrated, CompleteNode, FailNodeRetry, Fence, Open,
            Live, failureVars
  <1>4. CASE Lifecycle
    <2>1. CASE \E f \in followUp : SkipFutureRounds(f)
      BY <1>0, <1>a, <2>1 DEF SkipFutureRounds, FutureRounds, Put, Open
    <2>2. CASE \E f \in followUp : StopNotConverged(f)
      BY <1>0, <1>a, <2>2 DEF StopNotConverged, Terminate, Put, failureVars
    <2> QED BY <1>0, <1>a, <1>4, <2>1, <2>2 DEF Lifecycle, PauseCampaign,
            ResumeCampaign, CancelCampaign, FailCampaign, StopExhausted,
            Terminate, Put, Open, failureVars
  <1>5. CASE \E n \in Nodes : CancelNodeRead(n) \/ RetryNode(n)
    BY <1>5 DEF CancelNodeRead, RetryNode
  <1>6. CASE UNCHANGED vars
    BY <1>6 DEF vars, failureVars
  <1> QED BY <1>1, <1>2, <1>3, <1>4, <1>5, <1>6
          DEF Next, CancelRequiredNode, CancelNodeCommit, NoCancelRead

\* The projection of a campaign that ran leaves it completed, or with a row that
\* is not settled.
LEMMA ProjectedPending ==
  ASSUME cstatus = "running", cstatus' = Projected(status'), MayRun'
  PROVE  \/ cstatus' = "running" /\ \E m \in Nodes : status'[m] \notin Done
         \/ \E m \in Nodes : status'[m] = "failed_terminal"
  BY DEF Projected, MayRun

\* How a campaign that may still run comes to rest, with no one pausing it.
LEMMA ComesToRest ==
  ASSUME ~ ({"fail", "retry"} \subseteq Commands), "pause" \notin Commands,
         "cancel_node" \notin Commands, NoCancelRead, [Next]_vars, MayRun',
         cstatus' # "running"
  PROVE  \/ cstatus = "running" /\ cstatus' = Projected(status')
         \/ StopExhausted
         \/ MayRun /\ cstatus # "running" /\ followUp' \subseteq followUp
  <1>1. CASE \E w \in Workers : Crash(w) \/ \E n \in Nodes : ClaimReady(w, n)
    BY <1>1 DEF Crash, ClaimReady, campaignVars, MayRun, processVars
  <1>2. CASE \E n \in Nodes : ClockTick(n) \/ RecoverExpiredLease(n)
    BY <1>2 DEF ClockTick, RecoverExpiredLease, RecoverLeased, RecoverPrepared,
       RecoverRefund, RecoverUncertain, RequeueRecovered, Recoverable,
       campaignVars, MayRun, processVars
  <1>3. CASE \E n \in Nodes, g \in Gens : Attempt(n, g)
    <2>1. PICK n \in Nodes, g \in Gens : Attempt(n, g)
      BY <1>3
    <2>2. CASE \/ \E accepted \in BOOLEAN : CompleteNode(n, g, accepted)
               \/ \E abandon \in BOOLEAN : FailNodeRetry(n, g, abandon)
               \/ \E abandon \in BOOLEAN : FailNodeTerminal(n, g, abandon)
      BY <2>2 DEF CompleteNode, FailNodeRetry, FailNodeTerminal, Fence
    <2>3. CASE CancelNodeInfrastructureDeferred(n, g) \/ RecordUsage(n, g)
      BY <2>3 DEF CancelNodeInfrastructureDeferred, RecordUsage, campaignVars,
         DeferralFence, Fence, MayRun, processVars
    <2> QED BY <2>1, <2>2, <2>3 DEF Attempt, RenewNodeLease, StartNode,
            ReserveNodeInfrastructureUsage, MarkNodeExternalActionStarted,
            CompleteNodeExternalAction, PrepareNodeResult,
            BeginNodeResultIntegration, MarkNodeResultIntegrated, Fence,
            campaignVars, MayRun, processVars
  <1>4. CASE Lifecycle
    <2>1. CASE \E f \in followUp : SkipFutureRounds(f)
      BY <2>1 DEF SkipFutureRounds, Projected, MayRun
    <2>2. CASE \E f \in followUp : StopNotConverged(f)
      BY <2>2 DEF StopNotConverged, Terminate, campaignVars, MayRun
    <2> QED BY <1>4, <2>1, <2>2 DEF Lifecycle, PauseCampaign, ResumeCampaign,
            CancelCampaign, FailCampaign, Terminate, MayRun
  <1>5. CASE \E n \in Nodes : CancelNodeRead(n) \/ RetryNode(n)
    BY <1>5 DEF CancelNodeRead, RetryNode, campaignVars, MayRun
  <1>6. CASE UNCHANGED vars
    BY <1>6 DEF vars, campaignVars, processVars, MayRun
  <1> QED BY <1>1, <1>2, <1>3, <1>4, <1>5, <1>6
          DEF Next, CancelRequiredNode, CancelNodeCommit, NoCancelRead

LEMMA FollowUpStep ==
  ASSUME ~ ({"fail", "retry"} \subseteq Commands), "cancel_node" \notin Commands,
         TypeInv, FenceInv, GraphInv, NoCancelRead, SomePending, FollowUpGuarded,
         [Next]_vars
  PROVE  FollowUpGuarded'
  <1> SUFFICES ASSUME "pause" \notin Commands, followUp' # {}, MayRun',
                      cstatus' # "running"
               PROVE  \E m \in Nodes : Lasting(m)'
    BY DEF FollowUpGuarded
  <1>1. CASE cstatus = "running" /\ cstatus' = Projected(status')
    BY <1>1, ProjectedPending DEF Lasting
  <1>2. CASE StopExhausted
    <2>1. /\ cstatus \in {"running", "paused"}
          /\ status' = Put(status, {n \in Nodes : status[n] \in Open}, "skipped")
          /\ failure' = Put(failure, {n \in Nodes : status[n] \in Open}, "calls_exhausted")
      BY <1>2 DEF StopExhausted, Terminate
    <2>2. PICK m \in Nodes : Pending(m)
      BY <2>1 DEF SomePending, MayRun
    <2>3. status[m] \notin Done
      BY <2>1, <2>2, NoneDormant DEF GraphInv, Pending
    <2>4. status[m] \in Open \cup {"failed_terminal", "external_outcome_uncertain"}
      BY <2>3 DEF TypeInv, TypeOK, NodeTypes, NodeStatus, Open, Live, Done
    <2>5. Lasting(m)'
      BY <2>1, <2>4 DEF Put, Lasting, Dormant
    <2> QED BY <2>5
  <1>3. CASE MayRun /\ cstatus # "running" /\ followUp' \subseteq followUp
    <2>1. PICK m \in Nodes : Lasting(m)
      BY <1>3 DEF FollowUpGuarded
    <2>2. Lasting(m)'
      BY <2>1, LastingKept
    <2> QED BY <2>2
  <1> QED BY <1>1, <1>2, <1>3, ComesToRest

LEMMA SomePendingStep ==
  ASSUME ~ ({"fail", "retry"} \subseteq Commands), "cancel_node" \notin Commands,
         NoIdleSkip, TypeInv, FenceInv, GraphInv, NoCancelRead, PackageHeld,
         ReleaseMatchesPackage, SomePending, FollowUpGuarded, [Next]_vars
  PROVE  SomePending'
  <1> SUFFICES ASSUME MayRun' PROVE \E m \in Nodes : Pending(m)'
    BY DEF SomePending
  <1>1. ASSUME cstatus = "running", cstatus' = Projected(status')
        PROVE  \E m \in Nodes : Pending(m)'
    BY <1>1, ProjectedPending DEF Pending, Done
  <1>2. CASE \E n \in Nodes : Completes(n)
    BY <1>1, <1>2 DEF Completes, CompleteNode, Fence
  <1>3. CASE /\ \A n \in Nodes : ~ Completes(n)
             /\ \E f \in followUp : SkipFutureRounds(f)
    <2>1. PICK f \in followUp : SkipFutureRounds(f)
      BY <1>3
    <2>2. CASE cstatus = "running"
      BY <1>1, <2>1, <2>2 DEF SkipFutureRounds
    <2>3. CASE cstatus # "running"
      <3>1. cstatus' = cstatus /\ stopReason' = stopReason /\ MayRun
        BY <2>1, <2>3 DEF SkipFutureRounds, Projected, MayRun
      <3>2. CASE Convergence = {}
        BY <2>1, <3>2 DEF TypeInv, TypeOK, ProcessTypes
      <3>3. CASE "pause" \notin Commands
        <4>1. PICK m \in Nodes : Lasting(m)
          BY <2>1, <2>3, <3>1, <3>3 DEF FollowUpGuarded
        <4>2. Lasting(m)'
          BY <2>3, <3>1, <4>1, LastingKept
        <4> QED BY <4>2 DEF Lasting, Pending, Done
      <3>4. CASE Package \in Nodes /\ Bundled = Gens
        <4>1. OpenRow(Package)
          BY <3>1, <3>4 DEF PackageHeld, OpenRow, ReleaseMatchesPackage, MayRun
        <4>2. ~ Converges(Package)
          BY <3>4, NodesAssumption DEF Converges, FutureRounds
        <4>3. OpenRow(Package)'
          BY <1>3, <3>4, <4>1, <4>2, RowStep
        <4> QED BY <3>4, <4>3 DEF OpenRow
      <3> QED BY <3>2, <3>3, <3>4 DEF NoIdleSkip
    <2> QED BY <2>2, <2>3
  <1>4. CASE /\ \A n \in Nodes : ~ Completes(n)
             /\ ~ \E f \in followUp : SkipFutureRounds(f)
    <2>1. PICK m \in Nodes : OpenRow(m)
      BY NodesAssumption DEF SomePending, OpenRow
    <2>2. OpenRow(m)'
      BY <1>4, <2>1, RowStep DEF Converges
    <2> QED BY <2>2 DEF OpenRow
  <1> QED BY <1>2, <1>3, <1>4

LEMMA SomePendingHolds ==
  ASSUME ~ ({"fail", "retry"} \subseteq Commands), "cancel_node" \notin Commands,
         NoIdleSkip
  PROVE  Spec => [](SomePending /\ FollowUpGuarded)
  <1>1. Init => SomePending /\ FollowUpGuarded
    BY NodesAssumption
       DEF Init, SomePending, FollowUpGuarded, Pending, Done
  <1>2. TypeInv /\ FenceInv /\ GraphInv /\ (NoCancelRead /\ PackageHeld)
          /\ ReleaseMatchesPackage /\ (SomePending /\ FollowUpGuarded) /\ [Next]_vars
          => (SomePending /\ FollowUpGuarded)'
    BY SomePendingStep, FollowUpStep
  <1> QED BY <1>1, <1>2, TypeInvHolds, FenceInvHolds, GraphHolds, PackageHolds,
          ReleaseHolds, PTL DEF Spec

\* A running campaign is never stuck when its dependencies have no cycle (each
\* node ranks above what it depends on): the unsettled node of least rank is at
\* work, claimable, or waits for an operator.
THEOREM RunningNeverStuck ==
  ASSUME NEW rank \in [Nodes -> Nat],
         \A n \in Nodes : \A d \in Deps[n] : rank[d] < rank[n],
         ~ ({"fail", "retry"} \subseteq Commands), "cancel_node" \notin Commands,
         NoIdleSkip
  PROVE  Spec => []NeverStuck
  <1>1. TypeInv /\ FenceInv /\ GraphInv /\ (SomePending /\ FollowUpGuarded)
          => NeverStuck
    <2> SUFFICES ASSUME TypeInv, FenceInv, GraphInv, SomePending, cstatus = "running"
                 PROVE  \E n \in Nodes : \/ status[n] \in Live \/ Ready(n)
                                         \/ status[n] = "external_outcome_uncertain"
      BY DEF NeverStuck
    <2> DEFINE Unsettled == {n \in Nodes : status[n] \notin Done}
    <2> DEFINE Ranks == {rank[n] : n \in Unsettled}
    <2>1. PICK m \in Nodes : m \in Unsettled
      BY NoneDormant DEF SomePending, MayRun, Pending, GraphInv
    <2>2. Ranks \subseteq Nat /\ Ranks # {}
      BY <2>1
    <2>3. PICK r \in Ranks : \A k \in Ranks : r <= k
      BY <2>2, LeastNumber
    <2>4. PICK n \in Unsettled : rank[n] = r
      BY <2>3
    <2>5. ASSUME NEW d \in Deps[n] PROVE status[d] \in Done
      <3>1. d \in Nodes /\ rank[d] < r /\ rank[d] \in Nat /\ r \in Nat
        BY <2>4, DepsInNodes
      <3>2. rank[d] \notin Ranks
        BY <2>3, <3>1
      <3> QED BY <3>1, <3>2
    <2>6. status[n] \in NodeStatus /\ status[n] # "failed_terminal"
      BY DEF TypeInv, TypeOK, NodeTypes, FenceInv, FailedEnds
    <2>7. status[n] \in Live \cup {"queued", "external_outcome_uncertain"}
      BY <2>6 DEF NodeStatus, Live, Done
    <2>8. status[n] = "queued" => Ready(n)
      BY <2>5 DEF Ready
    <2> QED BY <2>7, <2>8
  <1> QED BY <1>1, TypeInvHolds, FenceInvHolds, GraphHolds, SomePendingHolds, PTL
-----------------------------------------------------------------------------
(* Results in the workspace.  Every command that skips rows refuses while a  *)
(* row it would skip is integrated, except two: the settlement of siblings,  *)
(* which leaves a trail that retryNode follows, and skipFutureRounds, which  *)
(* looks at the queue only.  The theorem is about campaigns in which no node *)
(* that writes into the workspace lies in a round that may be skipped.       *)

IntegratedRow(n) ==
  /\ integ[n] # "none" => n \in Integrating
  /\ integ[n] = "integrated" =>
       /\ status[n] = "skipped" => failure[n] = "sibling_cancelled" /\ blame[n] # {}
       /\ status[n] = "completed" => result[n] = prep[n]

IntegratedInv == \A n \in Nodes : IntegratedRow(n)

LEMMA IntegratedAttempt ==
  ASSUME TypeInv, IntegratedInv, NEW n \in Nodes, NEW g \in Gens, Attempt(n, g)
  PROVE  IntegratedInv'
  <1> SUFFICES ASSUME NEW m \in Nodes PROVE IntegratedRow(m)'
    BY DEF IntegratedInv
  <1>0. /\ status \in [Nodes -> NodeStatus] /\ integ \in [Nodes -> Integration]
        /\ failure \in [Nodes -> FailureClass] /\ blame \in [Nodes -> SUBSET Nodes]
        /\ prep \in [Nodes -> 0 .. MaxGen] /\ result \in [Nodes -> 0 .. MaxGen]
        /\ IntegratedRow(m) /\ IntegratedRow(n)
    BY DEF TypeInv, TypeOK, NodeTypes, ResultTypes, IntegratedInv
  <1>1. CASE \/ RenewNodeLease(n, g) \/ ReserveNodeInfrastructureUsage(n, g)
             \/ RecordUsage(n, g) \/ MarkNodeExternalActionStarted(n, g)
             \/ CompleteNodeExternalAction(n, g)
    <2>1. UNCHANGED <<status, integ, failure, blame, prep, result>>
      BY <1>1 DEF RenewNodeLease, ReserveNodeInfrastructureUsage,
         RecordUsage, MarkNodeExternalActionStarted, CompleteNodeExternalAction,
         resultVars, failureVars
    <2> QED BY <1>0, <2>1 DEF IntegratedRow
  <1>2. CASE \/ StartNode(n, g) \/ CancelNodeInfrastructureDeferred(n, g)
             \/ \E abandon \in BOOLEAN : FailNodeRetry(n, g, abandon)
    <2>1. /\ status'[n] \notin Done
          /\ integ'[n] # "none" => integ[n] # "none"
          /\ m # n => /\ status'[m] = status[m] /\ integ'[m] = integ[m]
                      /\ failure'[m] = failure[m] /\ blame'[m] = blame[m]
                      /\ prep'[m] = prep[m] /\ result'[m] = result[m]
      BY <1>0, <1>2 DEF StartNode, CancelNodeInfrastructureDeferred,
         FailNodeRetry, FailRow, Done, resultVars, failureVars
    <2> QED BY <1>0, <2>1 DEF IntegratedRow, Done
  <1>3. CASE \/ PrepareNodeResult(n, g) \/ BeginNodeResultIntegration(n, g)
             \/ MarkNodeResultIntegrated(n, g)
    <2>1. /\ status' = status /\ status[n] = "running"
          /\ integ'[n] # "none" => integ[n] # "none" \/ n \in Integrating
          /\ failure' = failure /\ blame' = blame /\ result' = result
          /\ m # n => integ'[m] = integ[m] /\ prep'[m] = prep[m]
      BY <1>0, <1>3 DEF PrepareNodeResult, BeginNodeResultIntegration,
         MarkNodeResultIntegrated, Fence, failureVars
    <2> QED BY <1>0, <2>1 DEF IntegratedRow
  <1>4. CASE \E accepted \in BOOLEAN : CompleteNode(n, g, accepted)
    <2>1. /\ status' = [status EXCEPT ![n] = "completed"]
          /\ result' = [result EXCEPT ![n] = prep[n]]
          /\ failure' = [failure EXCEPT ![n] = "none"]
          /\ prep' = prep /\ integ' = integ /\ blame' = blame
      BY <1>4 DEF CompleteNode
    <2>2. CASE m = n
      <3>1. status'[n] = "completed" /\ result'[n] = prep'[n] /\ integ'[n] = integ[n]
        BY <1>0, <2>1
      <3> QED BY <1>0, <2>2, <3>1 DEF IntegratedRow
    <2>3. CASE m # n
      <3>1. /\ status'[m] = status[m] /\ result'[m] = result[m]
            /\ failure'[m] = failure[m] /\ prep'[m] = prep[m] /\ integ'[m] = integ[m]
            /\ blame'[m] = blame[m]
        BY <1>0, <2>1, <2>3
      <3> QED BY <1>0, <3>1 DEF IntegratedRow
    <2> QED BY <2>2, <2>3
  <1>5. CASE \E abandon \in BOOLEAN : FailNodeTerminal(n, g, abandon)
    <2>1. PICK abandon \in BOOLEAN : FailNodeTerminal(n, g, abandon)
      BY <1>5
    <2>2. CASE m = n
      <3>1. status'[n] = "failed_terminal" /\ (integ'[n] # "none" => integ[n] # "none")
        BY <1>0, <2>1 DEF FailNodeTerminal, FailRow
      <3> QED BY <1>0, <2>2, <3>1 DEF IntegratedRow
    <2>3. CASE m # n
      <3>1. integ'[m] = integ[m] /\ prep'[m] = prep[m] /\ result'[m] = result[m]
        BY <1>0, <2>1, <2>3 DEF FailNodeTerminal, FailRow
      <3>2. CASE m \in Siblings(n)
        BY <1>0, <2>1, <2>3, <3>1, <3>2 DEF FailNodeTerminal, IntegratedRow
      <3>3. CASE m \notin Siblings(n)
        <4>1. /\ status'[m] = status[m] /\ failure'[m] = failure[m]
              /\ blame'[m] = blame[m]
          BY <2>1, <2>3, <3>3 DEF FailNodeTerminal
        <4> QED BY <1>0, <3>1, <4>1 DEF IntegratedRow
      <3> QED BY <3>2, <3>3
    <2> QED BY <2>2, <2>3
  <1> QED BY <1>1, <1>2, <1>3, <1>4, <1>5 DEF Attempt

\* An UPDATE over open rows that are not integrated.
LEMMA IntegratedSettle ==
  ASSUME IntegratedInv, NEW S, NEW st, status' = Put(status, S, st),
         UNCHANGED <<integ, prep, result>>,
         \A m \in Nodes : m \notin S => failure'[m] = failure[m] /\ blame'[m] = blame[m],
         \A m \in Nodes : m \in S => st \notin Done \/ integ[m] # "integrated"
  PROVE  IntegratedInv'
  <1> SUFFICES ASSUME NEW m \in Nodes PROVE IntegratedRow(m)'
    BY DEF IntegratedInv
  <1>0. IntegratedRow(m)
    BY DEF IntegratedInv
  <1>1. CASE m \in S
    BY <1>0, <1>1 DEF IntegratedRow, Put, Done
  <1>2. CASE m \notin S
    BY <1>0, <1>2 DEF IntegratedRow, Put
  <1> QED BY <1>1, <1>2

LEMMA TerminateIntegrated ==
  ASSUME IntegratedInv, NEW from, NEW to, NEW rowStatus, NEW reason,
         Terminate(from, to, rowStatus, reason)
  PROVE  IntegratedInv'
  <1> DEFINE S == {n \in Nodes : status[n] \in Open}
  <1>1. /\ status' = Put(status, S, rowStatus) /\ failure' = Put(failure, S, reason)
        /\ blame' = blame /\ UNCHANGED <<integ, prep, result>> /\ NoneIntegrating(Nodes)
    BY DEF Terminate, resultVars
  <1>2. \A m \in Nodes : m \in S => integ[m] # "integrated"
    BY <1>1 DEF NoneIntegrating, Open, Live
  <1>3. \A m \in Nodes : m \notin S => failure'[m] = failure[m] /\ blame'[m] = blame[m]
    BY <1>1 DEF Put
  <1> HIDE DEF S
  <1> QED BY <1>1, <1>2, <1>3, IntegratedSettle

LEMMA IntegratedStep ==
  ASSUME \A c \in Convergence, n \in Integrating \ Tail : Round[n] <= Round[c]
  PROVE  TypeInv /\ IntegratedInv /\ [Next]_vars => IntegratedInv'
  <1> SUFFICES ASSUME TypeInv, IntegratedInv, [Next]_vars PROVE IntegratedInv'
    OBVIOUS
  <1>0. /\ status \in [Nodes -> NodeStatus] /\ integ \in [Nodes -> Integration]
        /\ failure \in [Nodes -> FailureClass] /\ blame \in [Nodes -> SUBSET Nodes]
        /\ prep \in [Nodes -> 0 .. MaxGen]
        /\ \A n \in Nodes : IntegratedRow(n)
    BY DEF TypeInv, TypeOK, NodeTypes, ResultTypes, IntegratedInv
  <1>1. CASE \E w \in Workers, n \in Nodes : ClaimReady(w, n)
    BY <1>0, <1>1 DEF ClaimReady, IntegratedInv, IntegratedRow, resultVars, failureVars
  <1>2. CASE \/ \E w \in Workers : Crash(w)
             \/ \E n \in Nodes : ClockTick(n) \/ CancelNodeRead(n)
             \/ UNCHANGED vars
    <2>1. UNCHANGED <<status, integ, failure, blame, prep, result>>
      BY <1>2 DEF Crash, ClockTick, CancelNodeRead, vars, resultVars, failureVars
    <2> QED BY <2>1 DEF IntegratedInv, IntegratedRow
  <1>3. CASE \E n \in Nodes : RecoverExpiredLease(n)
    <2>1. PICK n \in Nodes : RecoverExpiredLease(n)
      BY <1>3
    <2>2. /\ status'[n] \in {"queued", "external_outcome_uncertain"}
          /\ integ'[n] # "none" => integ[n] # "none"
          /\ \A m \in Nodes : m # n =>
               /\ status'[m] = status[m] /\ integ'[m] = integ[m]
               /\ failure'[m] = failure[m] /\ blame'[m] = blame[m]
          /\ prep' = prep /\ result' = result
      BY <1>0, <2>1 DEF RecoverExpiredLease, RecoverLeased, RecoverPrepared,
         RecoverRefund, RecoverUncertain, RequeueRecovered, resultVars
    <2> QED BY <1>0, <2>2 DEF IntegratedInv, IntegratedRow
  <1>4. CASE \E n \in Nodes, g \in Gens : Attempt(n, g)
    BY <1>4, IntegratedAttempt
  <1>5. CASE Lifecycle
    <2>1. CASE PauseCampaign
      <3>1. /\ status' = Put(status, {n \in Nodes : status[n] \in Live}, "queued")
            /\ UNCHANGED <<integ, prep, result, failure, blame>>
        BY <2>1 DEF PauseCampaign, resultVars, failureVars
      <3> QED BY <3>1, IntegratedSettle DEF Done
    <2>2. CASE \E b \in Budgets : ResumeCampaign(b)
      <3>1. PICK S : /\ status' = Put(status, S, "queued")
                     /\ failure' = Put(failure, S, "none") /\ blame' = Put(blame, S, {})
        BY <2>2 DEF ResumeCampaign
      <3>2. UNCHANGED <<integ, prep, result>>
        BY <2>2 DEF ResumeCampaign, resultVars
      <3>3. \A m \in Nodes : m \notin S => failure'[m] = failure[m] /\ blame'[m] = blame[m]
        BY <3>1 DEF Put
      <3> QED BY <3>1, <3>2, <3>3, IntegratedSettle DEF Done
    <2>3. CASE CancelCampaign \/ FailCampaign \/ StopExhausted
      BY <2>3, TerminateIntegrated DEF CancelCampaign, FailCampaign, StopExhausted
    <2>4. CASE \E f \in followUp : StopNotConverged(f)
      <3>1. \/ Terminate({"running", "paused"}, "stopped", "skipped", "not_converged")
            \/ UNCHANGED <<status, integ, failure, blame, prep, result>>
        BY <2>4 DEF StopNotConverged, resultVars, failureVars
      <3>2. CASE UNCHANGED <<status, integ, failure, blame, prep, result>>
        BY <3>2 DEF IntegratedInv, IntegratedRow
      <3> QED BY <3>1, <3>2, TerminateIntegrated
    <2>5. CASE \E f \in followUp : SkipFutureRounds(f)
      <3>1. PICK f \in followUp : SkipFutureRounds(f)
        BY <2>5
      <3> DEFINE S == FutureRounds(f[2])
      <3>2. /\ status' = Put(status, S, "skipped") /\ failure' = Put(failure, S, "converged")
            /\ blame' = blame /\ UNCHANGED <<integ, prep, result>>
        BY <3>1 DEF SkipFutureRounds, resultVars
      <3>3. f[2] \in Convergence
        BY DEF TypeInv, TypeOK, ProcessTypes
      <3>4. ASSUME NEW m \in Nodes, m \in S PROVE integ[m] # "integrated"
        <4>1. m \notin Tail /\ Round[m] > Round[f[2]]
          BY <3>4 DEF FutureRounds
        <4>2. Round[m] \in Nat /\ Round[f[2]] \in Nat
          BY <3>3, NodesAssumption
        <4>3. m \notin Integrating
          BY <3>3, <4>1, <4>2
        <4> QED BY <1>0, <4>3 DEF IntegratedRow
      <3>5. \A m \in Nodes : m \notin S => failure'[m] = failure[m] /\ blame'[m] = blame[m]
        BY <3>2 DEF Put
      <3> HIDE DEF S
      <3> QED BY <3>2, <3>4, <3>5, IntegratedSettle
    <2> QED BY <1>5, <2>1, <2>2, <2>3, <2>4, <2>5 DEF Lifecycle
  <1>6. CASE \E n \in Nodes : CancelRequiredNode(n) \/ CancelNodeCommit(n)
    <2>1. PICK n \in Nodes : CancelRequiredNode(n) \/ CancelNodeCommit(n)
      BY <1>6
    <2> DEFINE S == {m \in Cascade(n) : status[m] \in Open}
    <2>2. /\ status' = Put(status, S, "skipped") /\ NoneIntegrating(Cascade(n))
          /\ failure' = Put(failure, S, "node_cancelled") /\ blame' = Put(blame, S, {})
          /\ UNCHANGED <<integ, prep, result>>
      BY <2>1 DEF CancelRequiredNode, CancelNodeCommit, SkipCascade, resultVars
    <2>3. \A m \in Nodes : m \in S => integ[m] # "integrated"
      BY <2>2 DEF NoneIntegrating, Open, Live
    <2>4. \A m \in Nodes : m \notin S => failure'[m] = failure[m] /\ blame'[m] = blame[m]
      BY <2>2 DEF Put
    <2> HIDE DEF S
    <2> QED BY <2>2, <2>3, <2>4, IntegratedSettle
  <1>7. CASE \E n \in Nodes : RetryNode(n)
    <2>1. PICK n \in Nodes : RetryNode(n)
      BY <1>7
    <2>2. PICK S, L : /\ status' = Put(status, S, "queued") /\ L \subseteq S
                      /\ failure' = Put(failure, S, "none") /\ blame' = Put(blame, S, {})
                      /\ prep' = Put(prep, L, 0) /\ integ' = Put(integ, L, "none")
                      /\ result' = result
      BY <2>1 DEF RetryNode
    <2> QED BY <1>0, <2>2 DEF IntegratedInv, IntegratedRow, Put
  <1> QED BY <1>1, <1>2, <1>3, <1>4, <1>5, <1>6, <1>7 DEF Next

\* A result already in the workspace is never skipped, except by a sibling's
\* terminal failure, and what is published is what was prepared, as long as the
\* rounds that may be skipped write nothing into the workspace.
THEOREM IntegratedResultsKept ==
  ASSUME \A c \in Convergence, n \in Integrating \ Tail : Round[n] <= Round[c]
  PROVE  Spec => []IntegratedNeverDropped
  <1>1. Init => PreparedFirst /\ IntegratedInv
    BY DEF Init, PreparedFirst, IntegratedInv, IntegratedRow
  <1>2. PreparedFirst /\ IntegratedInv => IntegratedNeverDropped
    BY DEF PreparedFirst, IntegratedInv, IntegratedRow, IntegratedNeverDropped
  <1> QED BY <1>1, <1>2, TypeInvHolds, PreparedStep, IntegratedStep, PTL DEF Spec

=============================================================================
