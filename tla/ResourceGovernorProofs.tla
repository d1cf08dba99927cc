------------------------ MODULE ResourceGovernorProofs ------------------------
(***************************************************************************)
(* Proofs about ResourceGovernor, for every finite set of requests, all    *)
(* sizes and limits, all terms and every delay shorter than the terms.     *)
(*                                                                         *)
(* The argument: what is granted fits beside every row of the lease table  *)
(* that is still there afterwards (RowsFit), and no other statement adds   *)
(* rows.  A holder's row outlives its own deadline: heartbeats and grants  *)
(* compute both from one reading of the clock, the reading of a heartbeat  *)
(* is younger than the deadline it may miss (Punctual), and only rows of   *)
(* dead processes and expired rows are deleted.                            *)
(***************************************************************************)
EXTENDS ResourceGovernor, FiniteSums

\* A holder knows a deadline no later than the one its next heartbeat would write.
Punctual == \A r \in Requests : until[r] + delay[r] <= LeaseTerm

\* Dead processes hold nothing, and a request that waits has no lease row.
NoHolderDead == \A r \in Requests : OwnerOf[r] \notin alive => until[r] <= 0
WaitersHaveNoLease == \A r \in Requests : pc[r] \in Waiting => lease[r] = Gone

\* The rows of the lease table fit into the limits together, expired ones included.
RowsFit == \A k \in Keys : Used(k, Rows(lease)) <= Limit[k]

GovernorInv ==
  TypeOK /\ HolderKeepsRow /\ Punctual /\ NoHolderDead /\ WaitersHaveNoLease /\ RowsFit

USE TermsAssumption DEF Gone

LEMMA TypeInit == Init => TypeOK
BY DEF Init, TypeOK, PCs

-----------------------------------------------------------------------------
(* The sums. *)

LEMMA UsedIsNat ==
  ASSUME NEW k \in Keys, NEW rows \in SUBSET Requests
  PROVE  Used(k, rows) \in Nat
<1> DEFINE v == [q \in Requests |-> Size[q][k]]
<1>1. IsFiniteSet(rows) /\ \A q \in rows : v[q] \in Nat
  BY RequestsAssumption, SizesAssumption, FS_Subset
<1> HIDE DEF v
<1>2. SumFunctionOnSet(v, rows) \in Nat
  BY <1>1, SumAdd
<1>3. QED
  BY <1>2 DEF Used, v

LEMMA UsedMonotone ==
  ASSUME NEW k \in Keys, NEW rows \in SUBSET Requests, NEW some \in SUBSET rows
  PROVE  Used(k, some) <= Used(k, rows)
<1> DEFINE v == [q \in Requests |-> Size[q][k]]
<1>1. IsFiniteSet(rows) /\ \A q \in rows : v[q] \in Nat
  BY RequestsAssumption, SizesAssumption, FS_Subset
<1> HIDE DEF v
<1>2. SumFunctionOnSet(v, some) <= SumFunctionOnSet(v, rows)
  BY <1>1, SumMonotone
<1>3. QED
  BY <1>2 DEF Used, v

LEMMA UsedAdd ==
  ASSUME NEW k \in Keys, NEW rows \in SUBSET Requests, NEW r \in Requests
  PROVE  Used(k, rows \cup {r}) <= Used(k, rows) + Size[r][k]
<1> DEFINE v == [q \in Requests |-> Size[q][k]]
<1>1. Used(k, rows) \in Nat /\ Size[r][k] \in Nat
  BY UsedIsNat, SizesAssumption
<1>2. CASE r \in rows
  <2>1. rows \cup {r} = rows
    BY <1>2
  <2>2. Used(k, rows \cup {r}) = Used(k, rows)
    BY <2>1, Zenon
  <2>3. QED
    BY <1>1, <2>2
<1>3. CASE r \notin rows
  <2> DEFINE all == rows \cup {r}
  <2>1. IsFiniteSet(all) /\ (\A q \in all : v[q] \in Nat) /\ r \in all /\ all \ {r} = rows
        /\ v[r] = Size[r][k]
    BY <1>3, RequestsAssumption, SizesAssumption, FS_Subset
  <2> HIDE DEF v, all
  <2>2. SumFunctionOnSet(v, all) = v[r] + SumFunctionOnSet(v, all \ {r})
    BY <2>1, SumAdd
  <2>3. Used(k, all) = Size[r][k] + Used(k, rows)
    BY <2>1, <2>2 DEF Used, v
  <2>4. QED
    BY <1>1, <2>3 DEF all
<1>4. QED
  BY <1>2, <1>3

\* Fewer rows fit as well.
LEMMA FewerRowsFit ==
  ASSUME RowsFit, TypeOK, NEW rows \in SUBSET Rows(lease)
  PROVE  \A k \in Keys : Used(k, rows) <= Limit[k]
<1> SUFFICES ASSUME NEW k \in Keys PROVE Used(k, rows) <= Limit[k]
  OBVIOUS
<1>1. Rows(lease) \in SUBSET Requests
  BY DEF Rows
<1>2. Used(k, rows) <= Used(k, Rows(lease)) /\ Used(k, Rows(lease)) <= Limit[k]
  BY <1>1, UsedMonotone DEF RowsFit
<1>3. Used(k, rows) \in Nat /\ Used(k, Rows(lease)) \in Nat /\ Limit[k] \in Nat
  BY <1>1, UsedIsNat, SizesAssumption
<1>4. QED
  BY <1>2, <1>3

-----------------------------------------------------------------------------
(* Statements that add no lease row. *)

\* Lease rows are only deleted, extended or left; deadlines are only left or given
\* up, but for the row that a heartbeat extends.
Keeps ==
  /\ \A q \in Requests : lease[q] = Gone => lease'[q] = Gone
  /\ \A q \in Requests : until'[q] > 0 => pc'[q] \in Holding /\ lease'[q] >= until'[q]
  /\ \A q \in Requests : until'[q] + delay'[q] <= LeaseTerm
  /\ \A q \in Requests : OwnerOf[q] \notin alive' => until'[q] <= 0
  /\ \A q \in Requests : pc'[q] \in Waiting => pc[q] \in Waiting \/ lease'[q] = Gone

LEMMA KeepsInv ==
  ASSUME GovernorInv, TypeOK', Keeps
  PROVE  GovernorInv'
<1>1. HolderKeepsRow' /\ Punctual' /\ NoHolderDead' /\ WaitersHaveNoLease'
  BY DEF GovernorInv, Keeps, HolderKeepsRow, Punctual, NoHolderDead, WaitersHaveNoLease
<1>2. Rows(lease') \in SUBSET Rows(lease)
  BY DEF Rows, Keeps, GovernorInv, TypeOK
<1>3. \A k \in Keys : Used(k, Rows(lease')) <= Limit[k]
  BY <1>2, FewerRowsFit DEF GovernorInv
<1>4. QED
  BY <1>1, <1>3 DEF GovernorInv, RowsFit, Rows, Used

-----------------------------------------------------------------------------
(* Types. *)

LEMMA OnlyType ==
  ASSUME NEW term \in Nat, NEW table \in [Requests -> Gone .. term], NEW rows
  PROVE  Only(table, rows) \in [Requests -> Gone .. term]
BY DEF Only

LEMMA GotoType ==
  ASSUME TypeOK, NEW r \in Requests, NEW to \in PCs, Goto(r, to)
  PROVE  /\ pc' \in [Requests -> PCs] /\ delay' \in [Requests -> 0 .. MaxDelay]
         /\ before' \in [Requests -> SUBSET Requests]
BY DEF TypeOK, Goto

LEMMA PutWaiterType ==
  ASSUME TypeOK, NEW r \in Requests, NEW rows, PutWaiter(r, rows)
  PROVE  waiter' \in [Requests -> Gone .. WaiterTerm]
<1>1. Only(waiter, rows) \in [Requests -> Gone .. WaiterTerm]
  BY OnlyType DEF TypeOK
<1>2. WaiterTerm - delay[r] \in Gone .. WaiterTerm
  BY DEF TypeOK
<1>3. QED
  BY <1>1, <1>2 DEF PutWaiter

LEMMA ReapType ==
  ASSUME TypeOK, reapDeadOwners
  PROVE  /\ lease' \in [Requests -> Gone .. LeaseTerm]
         /\ waiter' \in [Requests -> Gone .. WaiterTerm]
BY OnlyType DEF TypeOK, reapDeadOwners

LEMMA AcquireType ==
  ASSUME TypeOK, NEW r \in Requests, AcquireTransaction(r)
  PROVE  /\ lease' \in [Requests -> Gone .. LeaseTerm]
         /\ waiter' \in [Requests -> Gone .. WaiterTerm]
<1>1. Only(lease, Unexpired(lease, r)) \in [Requests -> Gone .. LeaseTerm]
  BY OnlyType DEF TypeOK
<1>2. Only(waiter, Unexpired(waiter, r) \ {r}) \in [Requests -> Gone .. WaiterTerm]
  BY OnlyType DEF TypeOK
<1>3. LeaseTerm - delay[r] \in Gone .. LeaseTerm
  BY DEF TypeOK
<1>4. CASE Granted(r)
  BY <1>1, <1>2, <1>3, <1>4 DEF AcquireTransaction
<1>5. CASE ~ Granted(r)
  BY <1>1, <1>5, PutWaiterType DEF AcquireTransaction
<1>6. QED
  BY <1>4, <1>5

\* The steps of a call before it holds a lease.
LEMMA WaiterTypes ==
  ASSUME TypeOK, NEW r \in Requests,
         \/ Request(r) \/ Enqueue(r) \/ EnqueueThrows(r) \/ Poll(r) \/ Acquire(r)
         \/ AcquireUncertain(r) \/ GiveUp(r) \/ Cleanup(r)
  PROVE  TypeOK'
<1>1. CASE Request(r)
  <2>1. before' \in [Requests -> SUBSET Requests]
    BY <1>1 DEF Request, TypeOK, Rows
  <2>2. pc' \in [Requests -> PCs] /\ delay' \in [Requests -> 0 .. MaxDelay]
    BY <1>1 DEF Request, TypeOK, PCs
  <2>3. QED
    BY <1>1, <2>1, <2>2 DEF Request, TypeOK
<1>2. CASE Enqueue(r)
  BY <1>2, PutWaiterType, GotoType DEF Enqueue, TypeOK, PCs
<1>3. CASE EnqueueThrows(r)
  BY <1>3, PutWaiterType, GotoType DEF EnqueueThrows, TypeOK, PCs
<1>4. CASE Poll(r)
  BY <1>4, ReapType, GotoType DEF Poll, TypeOK, PCs
<1>5. CASE Acquire(r)
  <2>1. until' \in [Requests -> Gone .. LeaseTerm]
    BY <1>5 DEF Acquire, TypeOK
  <2>2. QED
    BY <1>5, <2>1, AcquireType, GotoType DEF Acquire, TypeOK, PCs
<1>6. CASE AcquireUncertain(r)
  BY <1>6, AcquireType, GotoType DEF AcquireUncertain, TypeOK, PCs
<1>7. CASE GiveUp(r)
  BY <1>7, GotoType DEF GiveUp, TypeOK, PCs
<1>8. CASE Cleanup(r)
  <2>1. waiter' \in [Requests -> Gone .. WaiterTerm]
    BY <1>8 DEF Cleanup, TypeOK
  <2>2. QED
    BY <1>8, <2>1, GotoType DEF Cleanup, TypeOK, PCs
<1>9. QED
  BY <1>1, <1>2, <1>3, <1>4, <1>5, <1>6, <1>7, <1>8

LEMMA ExtendedType ==
  ASSUME TypeOK, NEW r \in Requests, NEW times \in [Requests -> Gone .. LeaseTerm]
  PROVE  Extended(times, r) \in [Requests -> Gone .. LeaseTerm]
BY DEF TypeOK, Extended

LEMMA HolderTypes ==
  ASSUME TypeOK, NEW r \in Requests,
         \/ StartRenew(r) \/ renewLeaseHeartbeat(r) \/ RenewThrows(r)
         \/ StartRelease(r) \/ release(r) \/ ReleaseThrows(r)
  PROVE  TypeOK'
<1>1. CASE StartRenew(r) \/ StartRelease(r)
  BY <1>1, GotoType DEF StartRenew, StartRelease, TypeOK, PCs
<1>2. CASE renewLeaseHeartbeat(r) \/ RenewThrows(r)
  <2>1. lease' \in [Requests -> Gone .. LeaseTerm] /\ until' \in [Requests -> Gone .. LeaseTerm]
    BY <1>2, ExtendedType DEF renewLeaseHeartbeat, RenewThrows, TypeOK
  <2>2. lost' \in SUBSET Requests
    BY <1>2 DEF renewLeaseHeartbeat, RenewThrows, TypeOK
  <2>3. QED
    BY <1>2, <2>1, <2>2, GotoType DEF renewLeaseHeartbeat, RenewThrows, TypeOK, PCs
<1>3. CASE release(r) \/ ReleaseThrows(r)
  <2>1. lease' \in [Requests -> Gone .. LeaseTerm] /\ until' \in [Requests -> Gone .. LeaseTerm]
    BY <1>3 DEF release, ReleaseThrows, End, TypeOK
  <2>2. lost' \in SUBSET Requests
    BY <1>3 DEF release, ReleaseThrows, End, TypeOK
  <2>3. QED
    BY <1>3, <2>1, <2>2, GotoType DEF release, ReleaseThrows, End, TypeOK, PCs
<1>4. QED
  BY <1>1, <1>2, <1>3

LEMMA OlderType ==
  ASSUME NEW term \in Nat, NEW times \in [Requests -> Gone .. term]
  PROVE  Older(times) \in [Requests -> Gone .. term]
BY DEF Older

LEMMA WorldTypes ==
  ASSUME TypeOK, Tick \/ \E o \in Owners : Snapshot(o) \/ Crash(o)
  PROVE  TypeOK'
<1>1. CASE Tick
  <2>1. delay' \in [Requests -> 0 .. MaxDelay]
    BY <1>1 DEF Tick, MayPass, TypeOK
  <2>2. QED
    BY <1>1, <2>1, OlderType DEF Tick, TypeOK
<1>2. ASSUME NEW o \in Owners, Snapshot(o) PROVE TypeOK'
  BY <1>2, ReapType DEF Snapshot, TypeOK
<1>3. ASSUME NEW o \in Owners, Crash(o) PROVE TypeOK'
  <2>1. pc' \in [Requests -> PCs] /\ delay' \in [Requests -> 0 .. MaxDelay]
    BY <1>3 DEF Crash, TypeOK, PCs
  <2>2. before' \in [Requests -> SUBSET Requests] /\ until' \in [Requests -> Gone .. LeaseTerm]
    BY <1>3, OnlyType DEF Crash, TypeOK
  <2>3. QED
    BY <1>3, <2>1, <2>2 DEF Crash, TypeOK
<1>4. QED
  BY <1>1, <1>2, <1>3

LEMMA TypeStep == TypeOK /\ [Next]_vars => TypeOK'
<1> SUFFICES ASSUME TypeOK, [Next]_vars PROVE TypeOK'
  OBVIOUS
<1>1. CASE UNCHANGED vars
  BY <1>1 DEF vars, TypeOK
<1>2. CASE Next
  BY <1>2, WaiterTypes, HolderTypes, WorldTypes DEF Next
<1>3. QED
  BY <1>1, <1>2

-----------------------------------------------------------------------------
(* The invariant. *)

LEMMA GovernorInit == Init => GovernorInv
<1> SUFFICES ASSUME Init PROVE GovernorInv
  OBVIOUS
<1>1. HolderKeepsRow /\ Punctual /\ NoHolderDead /\ WaitersHaveNoLease
  BY DEF Init, HolderKeepsRow, Punctual, NoHolderDead, WaitersHaveNoLease
<1>2. \A k \in Keys : Used(k, Rows(lease)) <= Limit[k]
  <2>1. Rows(lease) = {}
    BY DEF Init, Rows
  <2>2. \A k \in Keys : Used(k, Rows(lease)) = 0 /\ Limit[k] \in Nat
    BY <2>1, SumEmpty, SizesAssumption DEF Used
  <2>3. QED
    BY <2>2
<1>3. QED
  BY <1>1, <1>2, TypeInit DEF GovernorInv, RowsFit

\* Enqueuing, waiting and giving up leave leases and deadlines alone.
LEMMA QuietKeeps ==
  ASSUME GovernorInv, NEW r \in Requests,
         \/ Request(r) \/ Enqueue(r) \/ EnqueueThrows(r) \/ GiveUp(r) \/ Cleanup(r)
  PROVE  Keeps
<1> USE DEF GovernorInv, TypeOK, HolderKeepsRow, Punctual, NoHolderDead, Waiting, Holding
<1>1. UNCHANGED <<lease, until, alive>>
  BY DEF Request, Enqueue, EnqueueThrows, GiveUp, Cleanup
<1>2. /\ pc[r] \notin Holding /\ delay'[r] = 0
      /\ \A q \in Requests \ {r} : pc'[q] = pc[q] /\ delay'[q] = delay[q]
  BY DEF Request, Enqueue, EnqueueThrows, GiveUp, Cleanup, At, Goto
<1>3. pc'[r] \in Waiting => pc[r] \in Waiting \/ lease'[r] = Gone
  BY DEF Request, Enqueue, EnqueueThrows, GiveUp, Cleanup, At, Goto, Rows
<1>4. QED
  BY <1>1, <1>2, <1>3 DEF Keeps

\* Reaping deletes only rows of dead processes, which hold nothing.
LEMMA ReapKeeps ==
  ASSUME GovernorInv, reapDeadOwners
  PROVE  /\ \A q \in Requests : lease[q] = Gone => lease'[q] = Gone
         /\ \A q \in Requests : until[q] > 0 => lease'[q] = lease[q]
BY DEF GovernorInv, TypeOK, NoHolderDead, reapDeadOwners, Only, OfDeadOwners

LEMMA PollKeeps ==
  ASSUME GovernorInv,
         (\E r \in Requests : Poll(r)) \/ (\E o \in Owners : Snapshot(o))
  PROVE  Keeps
<1> USE DEF GovernorInv, TypeOK, HolderKeepsRow, Punctual, NoHolderDead, Waiting, Holding
<1>1. /\ \A q \in Requests : lease[q] = Gone => lease'[q] = Gone
      /\ \A q \in Requests : until[q] > 0 => lease'[q] = lease[q]
  BY ReapKeeps DEF Poll, Snapshot
<1>2. UNCHANGED <<until, alive>>
  BY DEF Poll, Snapshot
<1>3. \A q \in Requests : \/ pc'[q] = pc[q] /\ delay'[q] = delay[q]
                          \/ pc[q] = "polling" /\ pc'[q] = "acquire" /\ delay'[q] = 0
  BY DEF Poll, Snapshot, At, Goto
<1>4. QED
  BY <1>1, <1>2, <1>3 DEF Keeps

\* Heartbeats and releases.
LEMMA HolderKeeps ==
  ASSUME GovernorInv, NEW r \in Requests,
         \/ StartRenew(r) \/ renewLeaseHeartbeat(r) \/ RenewThrows(r)
         \/ StartRelease(r) \/ release(r) \/ ReleaseThrows(r)
  PROVE  Keeps
<1> USE DEF GovernorInv, TypeOK, HolderKeepsRow, Punctual, NoHolderDead, Waiting, Holding
<1>1. /\ pc[r] \in Holding /\ OwnerOf[r] \in alive /\ alive' = alive /\ delay'[r] = 0
      /\ pc'[r] \in Holding \cup {"idle"}
      /\ \A q \in Requests \ {r} : /\ pc'[q] = pc[q] /\ delay'[q] = delay[q]
                                   /\ lease'[q] = lease[q] /\ until'[q] = until[q]
  BY DEF StartRenew, renewLeaseHeartbeat, RenewThrows, StartRelease, release, ReleaseThrows,
         End, At, Goto, Extended
<1>2. lease[r] = Gone => lease'[r] = Gone
  BY DEF StartRenew, renewLeaseHeartbeat, RenewThrows, StartRelease, release, ReleaseThrows,
         End, Extended, Unexpired, Rows
<1>3. CASE StartRenew(r) \/ StartRelease(r)
  BY <1>1, <1>2, <1>3 DEF Keeps, StartRenew, StartRelease, Goto
<1>4. CASE renewLeaseHeartbeat(r) \/ RenewThrows(r)
  <2>1. pc'[r] = "holding"
    BY <1>4 DEF renewLeaseHeartbeat, RenewThrows, Goto
  <2>2. \/ lease'[r] = LeaseTerm - delay[r] /\ until'[r] = LeaseTerm - delay[r]
        \/ lease'[r] = LeaseTerm - delay[r] /\ until'[r] = until[r]
        \/ lease'[r] = lease[r] /\ until'[r] = until[r]
    BY <1>4 DEF renewLeaseHeartbeat, RenewThrows, Extended
  <2>3. QED
    BY <1>1, <1>2, <2>1, <2>2 DEF Keeps
<1>5. CASE release(r) \/ ReleaseThrows(r)
  <2>1. until'[r] = Gone /\ pc'[r] = "idle"
    BY <1>5 DEF release, ReleaseThrows, End, Goto
  <2>2. QED
    BY <1>1, <1>2, <2>1 DEF Keeps
<1>6. QED
  BY <1>3, <1>4, <1>5

LEMMA WorldKeeps ==
  ASSUME GovernorInv, Tick \/ \E o \in Owners : Crash(o)
  PROVE  Keeps
<1> USE DEF GovernorInv, TypeOK, HolderKeepsRow, Punctual, NoHolderDead, Waiting, Holding
<1>1. CASE Tick
  BY <1>1 DEF Tick, MayPass, Older, Keeps
<1>2. ASSUME NEW o \in Owners, Crash(o) PROVE Keeps
  BY <1>2, OwnersAssumption DEF Crash, Only, Keeps
<1>3. QED
  BY <1>1, <1>2

-----------------------------------------------------------------------------
(* A grant. *)

\* A lease is granted beside rows that leave room for it, and expired rows go.
LEMMA GrantFits ==
  ASSUME GovernorInv, NEW r \in Requests, AcquireTransaction(r)
  PROVE  \A k \in Keys : Used(k, Rows(lease')) <= Limit[k]
<1> DEFINE held == Unexpired(lease, r)
<1>0. held \in SUBSET Requests /\ held \in SUBSET Rows(lease)
  BY DEF Unexpired, Rows
<1>1. CASE Granted(r)
  <2>1. Rows(lease') \in SUBSET (held \cup {r})
    <3>1. lease' = [Only(lease, held) EXCEPT ![r] = LeaseTerm - delay[r]]
      BY <1>1 DEF AcquireTransaction
    <3> HIDE DEF held
    <3>2. \A q \in Requests : q # r /\ q \notin held => lease'[q] = Gone
      BY <3>1 DEF Only
    <3>3. QED
      BY <3>2 DEF Rows
  <2> SUFFICES ASSUME NEW k \in Keys PROVE Used(k, Rows(lease')) <= Limit[k]
    OBVIOUS
  <2>2. Used(k, held) + Size[r][k] <= Limit[k]
    BY <1>1 DEF Granted, Eligible, Fits
  <2>3. held \cup {r} \in SUBSET Requests
    BY <1>0
  <2> HIDE DEF held
  <2>4. Used(k, held \cup {r}) <= Used(k, held) + Size[r][k]
    BY <1>0, UsedAdd
  <2>5. Used(k, Rows(lease')) <= Used(k, held \cup {r})
    BY <2>1, <2>3, UsedMonotone
  <2>6. /\ Used(k, Rows(lease')) \in Nat /\ Used(k, held \cup {r}) \in Nat
        /\ Used(k, held) \in Nat /\ Size[r][k] \in Nat /\ Limit[k] \in Nat
    BY <1>0, <2>1, <2>3, UsedIsNat, SizesAssumption
  <2>7. QED
    BY <2>2, <2>4, <2>5, <2>6
<1>2. CASE ~ Granted(r)
  <2>1. Rows(lease') \in SUBSET Rows(lease)
    BY <1>2 DEF AcquireTransaction, Rows, Only, Unexpired, GovernorInv, TypeOK
  <2>2. QED
    BY <2>1, FewerRowsFit DEF GovernorInv
<1>3. QED
  BY <1>1, <1>2

LEMMA AcquireKeepsOthers ==
  ASSUME GovernorInv, NEW r \in Requests, AcquireTransaction(r)
  PROVE  /\ \A q \in Requests \ {r} : lease'[q] = lease[q] \/ lease'[q] = Gone
         /\ \A q \in Requests \ {r} : until[q] > 0 => lease'[q] = lease[q]
         /\ Granted(r) => lease'[r] = LeaseTerm - delay[r]
         /\ ~ Granted(r) => lease'[r] = lease[r] \/ lease'[r] = Gone
<1> DEFINE held == Unexpired(lease, r)
<1>1. \A q \in Requests : until[q] > 0 => q \in held
  BY DEF Unexpired, Rows, GovernorInv, TypeOK, HolderKeepsRow
<1>2. /\ Granted(r) => lease' = [Only(lease, held) EXCEPT ![r] = LeaseTerm - delay[r]]
      /\ ~ Granted(r) => lease' = Only(lease, held)
  BY DEF AcquireTransaction
<1>3. \A q \in Requests : /\ Only(lease, held)[q] \in {lease[q], Gone}
                          /\ q \in held => Only(lease, held)[q] = lease[q]
  BY DEF Only
<1>4. Only(lease, held) = [q \in Requests |-> Only(lease, held)[q]]
  BY DEF Only
<1> HIDE DEF held
<1>5. QED
  BY <1>1, <1>2, <1>3, <1>4

LEMMA AcquireInv ==
  ASSUME GovernorInv, TypeOK', NEW r \in Requests, Acquire(r) \/ AcquireUncertain(r)
  PROVE  GovernorInv'
<1> USE DEF GovernorInv
<1>1. AcquireTransaction(r)
  BY DEF Acquire, AcquireUncertain
<1>2. /\ pc[r] = "acquire" /\ OwnerOf[r] \in alive /\ alive' = alive /\ delay'[r] = 0
      /\ \A q \in Requests \ {r} : /\ pc'[q] = pc[q] /\ delay'[q] = delay[q]
                                   /\ until'[q] = until[q]
  BY DEF Acquire, AcquireUncertain, At, Goto, TypeOK
<1>3. \/ Granted(r) /\ pc'[r] = "holding" /\ until'[r] = LeaseTerm - delay[r]
      \/ ~ Granted(r) /\ pc'[r] = "polling" /\ until'[r] = until[r]
      \/ pc'[r] = "idle" /\ until'[r] = until[r]
  BY DEF Acquire, AcquireUncertain, Goto, TypeOK
<1>4. until[r] <= 0 /\ lease[r] = Gone /\ delay[r] >= 0
  BY <1>2 DEF HolderKeepsRow, WaitersHaveNoLease, TypeOK, Holding, Waiting
<1>5. HolderKeepsRow' /\ Punctual' /\ NoHolderDead'
  BY <1>1, <1>2, <1>3, <1>4, AcquireKeepsOthers
     DEF HolderKeepsRow, Punctual, NoHolderDead, TypeOK, Holding
<1>6. WaitersHaveNoLease'
  BY <1>1, <1>2, <1>3, <1>4, AcquireKeepsOthers DEF WaitersHaveNoLease, Waiting
<1>7. RowsFit'
  BY <1>1, GrantFits DEF RowsFit, Rows, Used
<1>8. QED
  BY <1>5, <1>6, <1>7

LEMMA GovernorStep == GovernorInv /\ [Next]_vars => GovernorInv'
<1> SUFFICES ASSUME GovernorInv, [Next]_vars PROVE GovernorInv'
  OBVIOUS
<1>0. TypeOK'
  BY TypeStep DEF GovernorInv
<1>1. CASE UNCHANGED vars
  BY <1>1 DEF vars, GovernorInv, TypeOK, HolderKeepsRow, Punctual, NoHolderDead,
              WaitersHaveNoLease, RowsFit, Rows, Used
<1>2. ASSUME NEW r \in Requests,
             \/ Request(r) \/ Enqueue(r) \/ EnqueueThrows(r) \/ Poll(r) \/ Acquire(r)
             \/ AcquireUncertain(r) \/ GiveUp(r) \/ Cleanup(r)
             \/ StartRenew(r) \/ renewLeaseHeartbeat(r) \/ RenewThrows(r)
             \/ StartRelease(r) \/ release(r) \/ ReleaseThrows(r)
      PROVE  GovernorInv'
  BY <1>0, <1>2, KeepsInv, QuietKeeps, PollKeeps, HolderKeeps, AcquireInv
<1>3. CASE Tick \/ \E o \in Owners : Snapshot(o) \/ Crash(o)
  BY <1>0, <1>3, KeepsInv, PollKeeps, WorldKeeps
<1>4. QED
  BY <1>1, <1>2, <1>3 DEF Next

LEMMA GovernorHolds == Spec => []GovernorInv
BY GovernorInit, GovernorStep, PTL DEF Spec

-----------------------------------------------------------------------------
(* The theorems. *)

\* The tables and the calls stay well formed, and no clock reading in use is older
\* than MaxDelay, for all values of the constants (TypeOK).
THEOREM GovernorTypeCorrect == Spec => []TypeOK
BY GovernorHolds, PTL DEF GovernorInv

\* A holder whose lease has time left still has its row, whoever reaped, purged or
\* was granted resources meanwhile (HolderKeepsRow).
THEOREM HoldersKeepTheirRows == Spec => []HolderKeepsRow
BY GovernorHolds, PTL DEF GovernorInv

\* The processes that work within their leases never use more than the limits
\* together, for any number of requests, any sizes and any limits (NoOvercommit).
THEOREM LimitsNeverExceeded == Spec => []NoOvercommit
<1>1. GovernorInv => NoOvercommit
  <2> SUFFICES ASSUME GovernorInv PROVE NoOvercommit
    OBVIOUS
  <2>1. {r \in Requests : until[r] > 0} \in SUBSET Rows(lease)
    BY DEF GovernorInv, TypeOK, HolderKeepsRow, Rows
  <2>2. QED
    BY <2>1, FewerRowsFit DEF GovernorInv, NoOvercommit
<1>2. QED
  BY <1>1, GovernorHolds, PTL

\* A grant never overtakes an earlier compatible request whose waiter row is alive
\* (FirstComeFirstServed): the order is that of the requests, not of the polls.
THEOREM LineIsKept == Spec => FirstComeFirstServed
<1>1. GovernorInv /\ [Next]_vars =>
        [\A r \in Requests : pc[r] = "acquire" /\ pc'[r] = "holding" =>
           \A q \in before[r] : waiter[q] > 0 => ~ Fits(q, Rows(lease') \ {r})]_vars
  <2> SUFFICES ASSUME GovernorInv, Next, NEW r \in Requests, pc[r] = "acquire",
                      pc'[r] = "holding", NEW q \in before[r], waiter[q] > 0
               PROVE  ~ Fits(q, Rows(lease') \ {r})
    OBVIOUS
  <2>1. Acquire(r) /\ Granted(r)
    <3> USE DEF GovernorInv, TypeOK, At, Goto
    <3>1. ASSUME NEW p \in Requests,
                 \/ Request(p) \/ Enqueue(p) \/ EnqueueThrows(p) \/ Poll(p)
                 \/ AcquireUncertain(p) \/ GiveUp(p) \/ Cleanup(p)
          PROVE  FALSE
      BY <3>1 DEF Request, Enqueue, EnqueueThrows, Poll, AcquireUncertain, GiveUp, Cleanup
    <3>2. ASSUME NEW p \in Requests,
                 \/ StartRenew(p) \/ renewLeaseHeartbeat(p) \/ RenewThrows(p)
                 \/ StartRelease(p) \/ release(p) \/ ReleaseThrows(p)
          PROVE  FALSE
      BY <3>2 DEF StartRenew, renewLeaseHeartbeat, RenewThrows, StartRelease, release,
                  ReleaseThrows, End
    <3>3. CASE Tick \/ \E o \in Owners : Snapshot(o) \/ Crash(o)
      BY <3>3 DEF Tick, Snapshot, Crash
    <3>4. ASSUME NEW p \in Requests, Acquire(p) PROVE p = r /\ Granted(r)
      BY <3>4 DEF Acquire
    <3>5. QED
      BY <3>1, <3>2, <3>3, <3>4 DEF Next
  <2>2. q \in Requests /\ q \in Unexpired(waiter, r)
    BY DEF GovernorInv, TypeOK, Unexpired, Rows
  <2>3. ~ Fits(q, Unexpired(lease, r))
    BY <2>1, <2>2 DEF Granted, Eligible
  <2>4. Rows(lease') \ {r} = Unexpired(lease, r)
    <3>1. lease[r] = Gone
      BY DEF GovernorInv, WaitersHaveNoLease, Waiting
    <3>2. lease' = [Only(lease, Unexpired(lease, r)) EXCEPT ![r] = LeaseTerm - delay[r]]
      BY <2>1 DEF Acquire, AcquireTransaction
    <3>3. QED
      BY <3>1, <3>2 DEF Rows, Only, Unexpired, GovernorInv, TypeOK
  <2>5. QED
    BY <2>3, <2>4
<1>2. QED
  BY <1>1, GovernorHolds, PTL DEF Spec, FirstComeFirstServed
=============================================================================
