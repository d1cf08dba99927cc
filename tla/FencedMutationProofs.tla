------------------------- MODULE FencedMutationProofs -------------------------
(***************************************************************************)
(* Proofs about FencedMutation, for every set of databases and processes   *)
(* and every bound.                                                        *)
(*                                                                         *)
(* The argument: a process between reserve and commit holds the write lock *)
(* of its database (Locked).  Whoever gives a reservation up does so after *)
(* its own rollback, or under that lock and in sight of no marker, when    *)
(* the reservation is Dead: durable nowhere, and nobody can make it so.    *)
(* Death is for ever, so an abort, however late it arrives, revokes only   *)
(* what never becomes durable; and a finalization is requested only for    *)
(* what is durable already.                                                *)
(***************************************************************************)
EXTENDS FencedMutation, TLAPS, SequenceTheorems

-----------------------------------------------------------------------------
(* The inductive invariant: what the shared state satisfies. *)

\* The sequence number of a head is bounded by the attempt it stands for and the
\* attempt by the requests sent: this keeps the sequence numbers in range.
Ordered(h, n) == h.seq <= h.id /\ h.id < n

HeadsOrdered ==
  /\ Ordered(globalHead, next)
  /\ \A d \in Dbs : Ordered(dbHead[d], next)
  /\ \A r \in Attempts : r < next => Ordered(req[r].global, r) /\ Ordered(req[r].head, r)

\* Only requests that were sent are known to the authority, in transit or durable.
SentOnly ==
  /\ \A r \in Attempts : status[r] # "none" => r < next
  /\ \A d \in Dbs : \A r \in marker[d] : r < next /\ req[r].db = d
  /\ \A k \in {"reserve", "finalize", "abort"}, r \in Attempts :
       <<k, r>> \in late => r < next

\* A process that may still make its reservation durable.
Writing(p, r) == proc[p].pc \in {"reserve", "resolve", "commit"} /\ proc[p].id = r

\* A reservation that is durable nowhere and that no process can make durable.
Dead(r) ==
  /\ r < next
  /\ \A d \in Dbs : r \notin marker[d]
  /\ \A p \in Procs : ~ Writing(p, r)

\* Aborts were requested only of dead reservations.
AbortsDead ==
  \A r \in Attempts : status[r] = "aborted" \/ <<"abort", r>> \in late => Dead(r)

\* A mutation that is durable in its database.
Durable(r) == req[r].db \in Dbs /\ r \in marker[req[r].db]

\* Finalizations were requested only of durable mutations.
FinalizesDurable ==
  /\ \A r \in Attempts : status[r] = "finalized" \/ <<"finalize", r>> \in late
       => Durable(r)
  /\ \A r \in receipts : status[r] = "finalized"

Shared == HeadsOrdered /\ SentOnly /\ AbortsDead /\ FinalizesDurable

-----------------------------------------------------------------------------
(* ... and what the memory of a process satisfies. *)

\* What a process remembers belongs to the database it works on.
Located(p) ==
  /\ ~ At(p, "idle") => proc[p].db \in Dbs
  /\ proc[p].pc \in {"reserve", "resolve", "commit", "abort", "finalize", "record"}
       => /\ proc[p].id \in Attempts /\ proc[p].id < next
          /\ req[proc[p].id].db = proc[p].db
  /\ \A r \in proc[p].absent : r < next /\ req[r].db = proc[p].db
  /\ At(p, "inspect") => \A r \in proc[p].todo : r < next /\ req[r].db = proc[p].db

\* The heads a process saw are heads of the past.
Seen(p) == Ordered(proc[p].global, next) /\ Ordered(proc[p].head, next)

\* From BEGIN IMMEDIATE to COMMIT or ROLLBACK a process holds the write lock.
Locked(p) ==
  proc[p].pc \in {"apply", "reserve", "resolve", "commit", "revoke"}
    => lock[proc[p].db] = p

\* What a process may still commit is not durable yet, what it gives up is dead.
Undecided(p) ==
  /\ \A r \in Attempts : Writing(p, r) => r \notin marker[proc[p].db]
  /\ At(p, "abort") => Dead(proc[p].id)
  /\ At(p, "revoke") => \A r \in proc[p].absent : Dead(r)

\* What a process finalizes is durable, what it records is finalized.
Decided(p) ==
  /\ At(p, "finalize") => proc[p].id \in marker[proc[p].db]
  /\ proc[p].pc \in {"recover", "recovered"} => proc[p].todo \subseteq marker[proc[p].db]
  /\ proc[p].pc \in {"record", "recovered"}
       => proc[p].id \in Attempts /\ status[proc[p].id] = "finalized"

Own(p) == Located(p) /\ Seen(p) /\ Locked(p) /\ Undecided(p) /\ Decided(p)

IInv == TypeOK /\ Shared /\ \A p \in Procs : Own(p)

-----------------------------------------------------------------------------
(* How the memory of a process changes. *)

Moved(p) == proc' \in [Procs -> Memory] /\ \A q \in Procs : q # p => proc'[q] = proc[q]

LEMMA IdleType == Idle \in Memory
  BY BoundsAssumption DEF Idle, Fresh, Memory, PCs, Heads, Genesis

LEMMA GotoFacts ==
  ASSUME proc \in [Procs -> Memory], NEW p \in Procs, NEW x \in PCs, Goto(p, x)
  PROVE  /\ Moved(p)
         /\ proc'[p].pc = x /\ proc'[p].job = proc[p].job
         /\ proc'[p].db = proc[p].db /\ proc'[p].id = proc[p].id
         /\ proc'[p].global = proc[p].global /\ proc'[p].head = proc[p].head
         /\ proc'[p].todo = proc[p].todo /\ proc'[p].absent = proc[p].absent
  BY DEF Goto, Memory, Moved

LEMMA QuitFacts ==
  ASSUME proc \in [Procs -> Memory], NEW p \in Procs, Quit(p)
  PROVE  /\ Moved(p)
         /\ proc'[p].pc = "idle" /\ proc'[p].absent = {}
         /\ proc'[p].global = Genesis /\ proc'[p].head = Genesis
  <1>1. Moved(p) /\ proc'[p] = Idle
    BY IdleType DEF Quit, Moved
  <1> QED BY <1>1 DEF Idle, Fresh

LEMMA StartFacts ==
  ASSUME proc \in [Procs -> Memory], NEW p \in Procs, NEW d \in Dbs,
         NEW j \in {"execute", "reconcile"}, NEW x \in PCs,
         NEW T \in SUBSET Attempts, Start(p, d, j, x, T)
  PROVE  /\ Moved(p)
         /\ proc'[p].pc = x /\ proc'[p].db = d
         /\ proc'[p].global = Genesis /\ proc'[p].head = Genesis
         /\ proc'[p].todo = T /\ proc'[p].absent = {}
  <1>1. Fresh(d, j, x, T) \in Memory
    BY BoundsAssumption DEF Fresh, Memory, Heads, Genesis
  <1>2. Moved(p) /\ proc'[p] = Fresh(d, j, x, T)
    BY <1>1 DEF Start, Moved
  <1> QED BY <1>2 DEF Fresh

LEMMA SeeFacts ==
  ASSUME proc \in [Procs -> Memory], NEW p \in Procs, NEW x \in PCs,
         NEW g \in Heads, NEW h \in Heads, See(p, x, g, h)
  PROVE  /\ Moved(p)
         /\ proc'[p].pc = x /\ proc'[p].db = proc[p].db
         /\ proc'[p].global = g /\ proc'[p].head = h
         /\ proc'[p].absent = proc[p].absent
  BY DEF See, Memory, Moved

LEMMA TakeFacts ==
  ASSUME proc \in [Procs -> Memory], NEW p \in Procs, NEW x \in PCs,
         NEW r \in Attempts, Take(p, x, r)
  PROVE  /\ Moved(p)
         /\ proc'[p].pc = x /\ proc'[p].id = r /\ proc'[p].db = proc[p].db
         /\ proc'[p].global = proc[p].global /\ proc'[p].head = proc[p].head
         /\ proc'[p].todo = proc[p].todo /\ proc'[p].absent = proc[p].absent
  <1>1. r \in 0 .. MaxAttempts
    BY BoundsAssumption DEF Attempts
  <1> QED BY <1>1 DEF Take, Memory, Moved

LEMMA WorkFacts ==
  ASSUME proc \in [Procs -> Memory], NEW p \in Procs, NEW x \in PCs,
         NEW T \in SUBSET Attempts, Work(p, x, T)
  PROVE  /\ Moved(p)
         /\ proc'[p].pc = x /\ proc'[p].db = proc[p].db
         /\ proc'[p].global = proc[p].global /\ proc'[p].head = proc[p].head
         /\ proc'[p].todo = T /\ proc'[p].absent = proc[p].absent
  BY DEF Work, Memory, Moved

LEMMA FindFacts ==
  ASSUME proc \in [Procs -> Memory], NEW p \in Procs, NEW x \in PCs,
         NEW T \in SUBSET Attempts, Find(p, x, T)
  PROVE  /\ Moved(p)
         /\ proc'[p].pc = x /\ proc'[p].db = proc[p].db
         /\ proc'[p].global = proc[p].global /\ proc'[p].head = proc[p].head
         /\ proc'[p].absent = T
  BY DEF Find, Memory, Moved

-----------------------------------------------------------------------------
(* What steps have in common. *)

\* Death is for ever.
LEMMA DeadStays ==
  ASSUME TypeOK, next' \in Nat, next <= next',
         NEW r \in Attempts, Dead(r),
         \A d \in Dbs : r \in marker'[d] =>
           r \in marker[d] \/ \E q \in Procs : Writing(q, r),
         \A q \in Procs : Writing(q, r)' => Writing(q, r) \/ next <= r
  PROVE  Dead(r)'
  BY BoundsAssumption DEF TypeOK, Dead, Attempts

\* A process that does not move keeps its part of the invariant.
LEMMA OthersKept ==
  ASSUME IInv, NEW q \in Procs, proc'[q] = proc[q],
         next' \in Nat, next <= next',
         \A r \in Attempts : r < next => req'[r] = req[r],
         \A d \in Dbs : marker[d] \subseteq marker'[d],
         \A d \in Dbs : lock[d] = q => lock'[d] = q /\ marker'[d] = marker[d],
         \A r \in Attempts : status[r] = "finalized" => status'[r] = "finalized",
         \A r \in Attempts : Dead(r) => Dead(r)'
  PROVE  Own(q)'
  <1>1. /\ TypeOK /\ Located(q) /\ Seen(q) /\ Locked(q) /\ Undecided(q) /\ Decided(q)
        /\ proc[q] \in Memory /\ next \in Nat /\ Attempts \subseteq Nat
    BY BoundsAssumption DEF IInv, Own, TypeOK, Attempts
  <1>2. /\ proc[q].absent \subseteq Attempts /\ proc[q].todo \subseteq Attempts
        /\ proc[q].global \in Heads /\ proc[q].head \in Heads
    BY <1>1 DEF Memory
  <1>3. \A r \in Attempts : r < next => r < next' /\ req'[r] = req[r]
    BY <1>1
  <1>4. Located(q)'
    <2>1. \A r \in proc[q].absent \cup proc[q].todo :
            r < next => r < next' /\ req'[r] = req[r]
      BY <1>2, <1>3
    <2> QED BY <1>1, <1>3, <2>1 DEF Located, At
  <1>5. Seen(q)'
    BY <1>1, <1>2 DEF Seen, Ordered, Heads
  <1>6. Locked(q)'
    BY <1>1 DEF Locked, Located, At
  <1>7. Undecided(q)'
    BY <1>1, <1>2 DEF Undecided, Writing, Located, Locked, At
  <1>8. Decided(q)'
    BY <1>1 DEF Decided, Located, At
  <1> QED BY <1>4, <1>5, <1>6, <1>7, <1>8 DEF Own

\* A step of one process that leaves the authority, the markers, the receipts
\* and the requests alone: what remains to be shown concerns that process.
LEMMA QuietStep ==
  ASSUME IInv, NEW p \in Procs, Moved(p), Own(p)',
         UNCHANGED <<authorityVars, localVars, req, next, late>>,
         faults' \in 0 .. MaxFaults, lock' \in [Dbs -> Procs \cup {NoProc}],
         \A d \in Dbs : lock'[d] # lock[d] => lock[d] \in {p, NoProc},
         \A r \in Attempts : Writing(p, r)' => Writing(p, r)
  PROVE  IInv'
  <1> TypeOK /\ Shared /\ next \in Nat
    BY BoundsAssumption DEF IInv, TypeOK
  <1>1. TypeOK'
    BY DEF TypeOK, Moved, authorityVars, localVars
  <1>2. ASSUME NEW r \in Attempts, Dead(r) PROVE Dead(r)'
    <2>1. \A q \in Procs : Writing(q, r)' => Writing(q, r)
      BY DEF Moved, Writing
    <2> QED BY <2>1, <1>2, DeadStays DEF localVars
  <1>3. ASSUME NEW q \in Procs, q # p PROVE Own(q)'
    <2>1. \A d \in Dbs : lock[d] = q => lock'[d] = q
      BY <1>3, ScopeAssumption DEF TypeOK
    <2> QED BY <2>1, <1>2, <1>3, OthersKept DEF Moved, authorityVars, localVars
  <1>4. Shared'
    <2>1. HeadsOrdered' /\ SentOnly' /\ FinalizesDurable'
      BY DEF Shared, HeadsOrdered, SentOnly, FinalizesDurable, Durable,
             Ordered, authorityVars, localVars
    <2>2. AbortsDead'
      BY <1>2 DEF Shared, AbortsDead, authorityVars
    <2> QED BY <2>1, <2>2 DEF Shared
  <1> QED BY <1>1, <1>3, <1>4 DEF IInv

\* Facts about the types that the steps below use.
LEMMA TypeFacts ==
  ASSUME IInv
  PROVE  /\ proc \in [Procs -> Memory] /\ lock \in [Dbs -> Procs \cup {NoProc}]
         /\ next \in Nat /\ next \in 1 .. MaxAttempts + 1 /\ Attempts \subseteq Nat
         /\ faults \in 0 .. MaxFaults /\ marker \in [Dbs -> SUBSET Attempts]
         /\ status \in [Attempts -> {"none", "reserved", "finalized", "aborted"}]
         /\ globalHead \in Heads /\ dbHead \in [Dbs -> Heads]
         /\ receipts \subseteq Attempts /\ late \subseteq Late
         /\ \A q \in Procs : /\ proc[q].todo \subseteq Attempts
                             /\ proc[q].absent \subseteq Attempts
                             /\ proc[q].id \in Nat
                             /\ proc[q].global \in Heads /\ proc[q].head \in Heads
  BY BoundsAssumption DEF IInv, TypeOK, Attempts, Memory

\* A process that is in no call satisfies its part.
LEMMA QuitOwn ==
  ASSUME IInv, NEW p \in Procs, Quit(p), next' = next
  PROVE  Own(p)' /\ Moved(p) /\ \A r \in Attempts : ~ Writing(p, r)'
  <1>1. /\ proc'[p].pc = "idle" /\ proc'[p].absent = {} /\ Moved(p)
        /\ proc'[p].global = Genesis /\ proc'[p].head = Genesis
    BY TypeFacts, QuitFacts
  <1>2. next \in Nat /\ 0 < next
    BY BoundsAssumption DEF IInv, TypeOK
  <1> QED
    BY <1>1, <1>2 DEF Own, Located, Seen, Locked, Undecided, Decided, Writing, At,
       Ordered, Genesis

\* Letting the lock of one's own transaction go.
LEMMA UnlockFacts ==
  ASSUME IInv, NEW p \in Procs, Unlock(proc[p].db),
         proc[p].pc \in {"apply", "reserve", "resolve", "commit", "revoke"}
  PROVE  /\ lock' \in [Dbs -> Procs \cup {NoProc}]
         /\ \A d \in Dbs : lock'[d] # lock[d] => lock[d] = p
  BY TypeFacts DEF IInv, Own, Locked, Unlock

\* A call that ends, with or without a ROLLBACK, and leaves nothing behind.
LEMMA QuitStep ==
  ASSUME IInv, NEW p \in Procs, Quit(p),
         UNCHANGED <<authorityVars, localVars, req, next, late>>,
         faults' = faults \/ Fault,
         \/ lock' = lock
         \/ /\ Unlock(proc[p].db)
            /\ proc[p].pc \in {"apply", "reserve", "resolve", "commit", "revoke"}
  PROVE  IInv'
  <1>1. faults' \in 0 .. MaxFaults
    BY BoundsAssumption, TypeFacts DEF Fault
  <1>2. /\ lock' \in [Dbs -> Procs \cup {NoProc}]
        /\ \A d \in Dbs : lock'[d] # lock[d] => lock[d] = p
    BY TypeFacts, UnlockFacts
  <1> QED BY <1>1, <1>2, QuitOwn, QuietStep

-----------------------------------------------------------------------------
(* Steps that leave the authority and the markers alone. *)

LEMMA CheckPendingInv ==
  ASSUME IInv, NEW p \in Procs, NEW d \in Dbs, CheckPending(p, d)
  PROVE  IInv'
  <1> DEFINE x == IF Pending(d) = {} THEN "observe" ELSE "rows"
  <1>1. Start(p, d, "execute", x, {}) /\ x \in PCs /\ {} \in SUBSET Attempts
    BY DEF CheckPending, PCs
  <1>2. /\ Moved(p) /\ proc'[p].pc \in {"observe", "rows"} /\ proc'[p].db = d
        /\ proc'[p].global = Genesis /\ proc'[p].head = Genesis
        /\ proc'[p].todo = {} /\ proc'[p].absent = {}
    <2> HIDE DEF x
    <2>1. /\ Moved(p) /\ proc'[p].pc = x /\ proc'[p].db = d
          /\ proc'[p].global = Genesis /\ proc'[p].head = Genesis
          /\ proc'[p].todo = {} /\ proc'[p].absent = {}
      BY <1>1, TypeFacts, StartFacts
    <2> QED BY <2>1 DEF x
  <1>3. Own(p)' /\ \A r \in Attempts : ~ Writing(p, r)'
    BY <1>2, TypeFacts DEF CheckPending, Own, Located, Seen, Locked, Undecided,
       Decided, Writing, At, Ordered, Genesis
  <1> QED BY <1>2, <1>3, TypeFacts, QuietStep DEF CheckPending

LEMMA ListUnresolvedInv ==
  ASSUME IInv, NEW p \in Procs, NEW d \in Dbs, ListUnresolved(p, d)
  PROVE  IInv'
  <1> DEFINE T == {r \in Unresolved : req[r].db = d}
  <1>1. /\ Start(p, d, "reconcile", "inspect", T) /\ "inspect" \in PCs
        /\ T \in SUBSET Attempts
    BY DEF ListUnresolved, PCs, Unresolved
  <1>2. \A r \in T : r < next /\ req[r].db = d
    BY DEF Unresolved, IInv, Shared, SentOnly
  <1> HIDE DEF T
  <1>3. /\ Moved(p) /\ proc'[p].pc = "inspect" /\ proc'[p].db = d
        /\ proc'[p].global = Genesis /\ proc'[p].head = Genesis
        /\ proc'[p].todo = T /\ proc'[p].absent = {}
    BY <1>1, TypeFacts, StartFacts
  <1>4. Own(p)' /\ \A r \in Attempts : ~ Writing(p, r)'
    BY <1>2, <1>3, TypeFacts DEF ListUnresolved, Own, Located, Seen, Locked,
       Undecided, Decided, Writing, At, Ordered, Genesis
  <1> QED BY <1>3, <1>4, TypeFacts, QuietStep DEF ListUnresolved

LEMMA ObserveCurrentHeadInv ==
  ASSUME IInv, NEW p \in Procs, ObserveCurrentHead(p)
  PROVE  IInv'
  <1> DEFINE h == dbHead[proc[p].db]
  <1>1. Own(p) /\ proc[p].db \in Dbs /\ h \in Heads
    BY TypeFacts DEF IInv, Own, Located, At, ObserveCurrentHead
  <1>2. Ordered(globalHead, next) /\ Ordered(h, next)
    BY <1>1 DEF IInv, Shared, HeadsOrdered
  <1>3. CASE Unresolved = {}
    <2> HIDE DEF h
    <2>1. See(p, "local", globalHead, h) /\ "local" \in PCs
      BY <1>3 DEF ObserveCurrentHead, h, PCs
    <2>2. /\ Moved(p) /\ proc'[p].pc = "local" /\ proc'[p].db = proc[p].db
          /\ proc'[p].global = globalHead /\ proc'[p].head = h
          /\ proc'[p].absent = proc[p].absent
      BY <1>1, <2>1, TypeFacts, SeeFacts
    <2>3. Own(p)' /\ \A r \in Attempts : ~ Writing(p, r)'
      BY <1>1, <1>2, <2>2 DEF ObserveCurrentHead, Own, Located, Seen, Locked,
         Undecided, Decided, Writing, At, Ordered
    <2> QED BY <2>2, <2>3, TypeFacts, QuietStep DEF ObserveCurrentHead
  <1>4. CASE Unresolved # {}
    BY <1>4, QuitStep DEF ObserveCurrentHead
  <1> QED BY <1>3, <1>4

LEMMA MatchLocalHeadInv ==
  ASSUME IInv, NEW p \in Procs, MatchLocalHead(p)
  PROVE  IInv'
  <1>1. CASE LocalHead(proc[p].db) = proc[p].head
    <2>1. Goto(p, "begin") /\ "begin" \in PCs
      BY <1>1 DEF MatchLocalHead, PCs
    <2>2. /\ Moved(p) /\ proc'[p].pc = "begin" /\ proc'[p].db = proc[p].db
          /\ proc'[p].global = proc[p].global /\ proc'[p].head = proc[p].head
          /\ proc'[p].absent = proc[p].absent
      BY <2>1, TypeFacts, GotoFacts
    <2>3. Own(p)' /\ \A r \in Attempts : ~ Writing(p, r)'
      BY <2>2 DEF MatchLocalHead, IInv, Own, Located, Seen, Locked, Undecided,
         Decided, Writing, At, Ordered
    <2> QED BY <2>2, <2>3, TypeFacts, QuietStep DEF MatchLocalHead
  <1>2. CASE LocalHead(proc[p].db) # proc[p].head
    BY <1>2, QuitStep DEF MatchLocalHead
  <1> QED BY <1>1, <1>2

LEMMA BeginImmediateInv ==
  ASSUME IInv, NEW p \in Procs, BeginImmediate(p)
  PROVE  IInv'
  <1> DEFINE d == proc[p].db
  <1>1. Own(p) /\ d \in Dbs
    BY DEF IInv, Own, Located, At, BeginImmediate
  <1>2. CASE lock[d] = NoProc /\ LocalHead(d) = proc[p].head
    <2>1. Goto(p, "apply") /\ "apply" \in PCs
      BY <1>2 DEF BeginImmediate, PCs
    <2>2. /\ Moved(p) /\ proc'[p].pc = "apply" /\ proc'[p].db = proc[p].db
          /\ proc'[p].global = proc[p].global /\ proc'[p].head = proc[p].head
          /\ proc'[p].absent = proc[p].absent
      BY <2>1, TypeFacts, GotoFacts
    <2>3. lock' = [lock EXCEPT ![d] = p]
      BY <1>2 DEF BeginImmediate
    <2>4. /\ lock' \in [Dbs -> Procs \cup {NoProc}] /\ lock'[d] = p
          /\ \A e \in Dbs : lock'[e] # lock[e] => lock[e] = NoProc
      BY <1>1, <1>2, <2>3, TypeFacts
    <2>5. Own(p)' /\ \A r \in Attempts : ~ Writing(p, r)'
      BY <1>1, <2>2, <2>4 DEF BeginImmediate, Own, Located, Seen, Locked, Undecided,
         Decided, Writing, At, Ordered
    <2> QED BY <2>2, <2>4, <2>5, TypeFacts, QuietStep DEF BeginImmediate
  <1>3. CASE ~ (lock[d] = NoProc /\ LocalHead(d) = proc[p].head)
    BY <1>3, QuitStep DEF BeginImmediate
  <1> QED BY <1>2, <1>3

LEMMA NoChangeInv ==
  ASSUME IInv, NEW p \in Procs, NoChange(p)
  PROVE  IInv'
  BY QuitStep DEF NoChange, At

LEMMA ResolveMutationAttemptInv ==
  ASSUME IInv, NEW p \in Procs, ResolveMutationAttempt(p)
  PROVE  IInv'
  <1>1. CASE Goto(p, "commit") /\ UNCHANGED <<lock, faults>>
    <2>1. "commit" \in PCs
      BY DEF PCs
    <2>2. /\ Moved(p) /\ proc'[p].pc = "commit" /\ proc'[p].db = proc[p].db
          /\ proc'[p].id = proc[p].id
          /\ proc'[p].global = proc[p].global /\ proc'[p].head = proc[p].head
          /\ proc'[p].absent = proc[p].absent
      BY <1>1, <2>1, TypeFacts, GotoFacts
    <2>3. Own(p)' /\ \A r \in Attempts : Writing(p, r)' => Writing(p, r)
      BY <1>1, <2>2 DEF ResolveMutationAttempt, IInv, Own, Located, Seen, Locked,
         Undecided, Decided, Writing, At, Ordered, localVars
    <2> QED BY <1>1, <2>2, <2>3, TypeFacts, QuietStep DEF ResolveMutationAttempt
  <1>2. CASE Unlock(proc[p].db) /\ Quit(p) /\ (faults' = faults \/ Fault)
    BY <1>2, QuitStep DEF ResolveMutationAttempt, At
  <1> QED BY <1>1, <1>2 DEF ResolveMutationAttempt

\* The writer's own rollback makes its reservation dead: nobody else holds the
\* lock, so nobody else can be writing it.
LEMMA GiveUpInv ==
  ASSUME IInv, NEW p \in Procs, GiveUp(p)
  PROVE  IInv'
  <1>1. Own(p) /\ proc[p].pc = "commit" /\ "abort" \in PCs
    BY DEF IInv, GiveUp, At, PCs
  <1>2. /\ Moved(p) /\ proc'[p].pc = "abort" /\ proc'[p].db = proc[p].db
        /\ proc'[p].id = proc[p].id
        /\ proc'[p].global = proc[p].global /\ proc'[p].head = proc[p].head
        /\ proc'[p].absent = proc[p].absent
    BY <1>1, TypeFacts, GotoFacts DEF GiveUp
  <1>3. Dead(proc[p].id)'
    <2>1. /\ proc[p].id \in Attempts /\ proc[p].id < next /\ proc[p].db \in Dbs
          /\ req[proc[p].id].db = proc[p].db /\ lock[proc[p].db] = p
          /\ proc[p].id \notin marker[proc[p].db]
      BY <1>1 DEF Own, Located, Locked, Undecided, Writing, At
    <2>2. \A d \in Dbs : proc[p].id \notin marker[d]
      BY <2>1 DEF IInv, Shared, SentOnly
    <2>3. \A q \in Procs : q # p => ~ Writing(q, proc[p].id)
      BY <2>1 DEF IInv, Own, Located, Locked, Writing, At
    <2> QED BY <1>2, <2>1, <2>2, <2>3 DEF Dead, Writing, Moved, GiveUp, localVars
  <1>4. Own(p)' /\ \A r \in Attempts : ~ Writing(p, r)'
    BY <1>1, <1>2, <1>3 DEF GiveUp, Own, Located, Seen, Locked, Undecided, Decided,
       Writing, At, Ordered
  <1>5. /\ lock' \in [Dbs -> Procs \cup {NoProc}]
        /\ \A d \in Dbs : lock'[d] # lock[d] => lock[d] = p
    BY <1>1, UnlockFacts DEF GiveUp
  <1> QED BY <1>2, <1>4, <1>5, TypeFacts, QuietStep DEF GiveUp

LEMMA ReadPendingInv ==
  ASSUME IInv, NEW p \in Procs, ReadPending(p)
  PROVE  IInv'
  <1> DEFINE T == Pending(proc[p].db)
  <1>1. Own(p) /\ proc[p].db \in Dbs /\ "recover" \in PCs
    BY DEF IInv, Own, Located, At, ReadPending, PCs
  <1>2. T \subseteq marker[proc[p].db] /\ T \in SUBSET Attempts
    BY <1>1, TypeFacts DEF Pending
  <1> HIDE DEF T
  <1>3. /\ Moved(p) /\ proc'[p].pc = "recover" /\ proc'[p].db = proc[p].db
        /\ proc'[p].global = proc[p].global /\ proc'[p].head = proc[p].head
        /\ proc'[p].todo = T /\ proc'[p].absent = proc[p].absent
    BY <1>1, <1>2, TypeFacts, WorkFacts DEF ReadPending, T
  <1>4. Own(p)' /\ \A r \in Attempts : ~ Writing(p, r)'
    BY <1>1, <1>2, <1>3 DEF ReadPending, Own, Located, Seen, Locked, Undecided,
       Decided, Writing, At, Ordered, localVars
  <1> QED BY <1>3, <1>4, TypeFacts, QuietStep DEF ReadPending

LEMMA RecoverDoneInv ==
  ASSUME IInv, NEW p \in Procs, RecoverDone(p)
  PROVE  IInv'
  <1>1. CASE Goto(p, "remove")
    <2>1. Own(p) /\ "remove" \in PCs
      BY DEF IInv, PCs
    <2>2. /\ Moved(p) /\ proc'[p].pc = "remove" /\ proc'[p].db = proc[p].db
          /\ proc'[p].global = proc[p].global /\ proc'[p].head = proc[p].head
          /\ proc'[p].absent = proc[p].absent
      BY <1>1, <2>1, TypeFacts, GotoFacts
    <2>3. Own(p)' /\ \A r \in Attempts : ~ Writing(p, r)'
      BY <2>1, <2>2 DEF RecoverDone, Own, Located, Seen, Locked, Undecided,
         Decided, Writing, At, Ordered
    <2> QED BY <2>2, <2>3, TypeFacts, QuietStep DEF RecoverDone
  <1>2. CASE Quit(p)
    BY <1>2, QuitStep DEF RecoverDone
  <1> QED BY <1>1, <1>2 DEF RecoverDone

LEMMA InspectMarkersInv ==
  ASSUME IInv, NEW p \in Procs, InspectMarkers(p)
  PROVE  IInv'
  <1> DEFINE T == proc[p].todo \ marker[proc[p].db]
  <1>1. CASE Find(p, "rows", T)
    <2>1. Own(p) /\ proc[p].pc = "inspect" /\ "rows" \in PCs
      BY DEF IInv, InspectMarkers, At, PCs
    <2>2. T \in SUBSET Attempts /\ \A r \in T : r < next /\ req[r].db = proc[p].db
      BY <2>1, TypeFacts DEF Own, Located, At
    <2> HIDE DEF T
    <2>3. /\ Moved(p) /\ proc'[p].pc = "rows" /\ proc'[p].db = proc[p].db
          /\ proc'[p].global = proc[p].global /\ proc'[p].head = proc[p].head
          /\ proc'[p].absent = T
      BY <1>1, <2>1, <2>2, TypeFacts, FindFacts
    <2>4. Own(p)' /\ \A r \in Attempts : ~ Writing(p, r)'
      BY <2>1, <2>2, <2>3 DEF InspectMarkers, Own, Located, Seen, Locked, Undecided,
         Decided, Writing, At, Ordered
    <2> QED BY <2>3, <2>4, TypeFacts, QuietStep DEF InspectMarkers
  <1>2. CASE Quit(p)
    BY <1>2, QuitStep DEF InspectMarkers
  <1> QED BY <1>1, <1>2 DEF InspectMarkers

\* Under the write lock, and in sight of no marker, the reservations are dead.
LEMMA RemoveBeginInv ==
  ASSUME IInv, NEW p \in Procs, RemoveBegin(p)
  PROVE  IInv'
  <1> DEFINE d == proc[p].db
             free == /\ lock[d] = NoProc
                     /\ \A r \in proc[p].absent :
                          r \notin marker[d] /\ LocalHead(d) = req[r].head
  <1>1. Own(p) /\ d \in Dbs /\ "revoke" \in PCs
    BY DEF IInv, Own, Located, At, RemoveBegin, PCs
  <1>2. CASE free
    <2>1. lock' = [lock EXCEPT ![d] = p] /\ Goto(p, "revoke")
      BY <1>2 DEF RemoveBegin
    <2>2. /\ Moved(p) /\ proc'[p].pc = "revoke" /\ proc'[p].db = proc[p].db
          /\ proc'[p].global = proc[p].global /\ proc'[p].head = proc[p].head
          /\ proc'[p].absent = proc[p].absent
      BY <1>1, <2>1, TypeFacts, GotoFacts
    <2>3. /\ lock' \in [Dbs -> Procs \cup {NoProc}] /\ lock'[d] = p
          /\ \A e \in Dbs : lock'[e] # lock[e] => lock[e] = NoProc
      BY <1>1, <1>2, <2>1, TypeFacts
    <2>4. ASSUME NEW r \in proc[p].absent PROVE Dead(r)'
      <3>1. r \in Attempts /\ r < next /\ req[r].db = d /\ r \notin marker[d]
        BY <1>1, <1>2, <2>4, TypeFacts DEF Own, Located
      <3>2. \A e \in Dbs : r \notin marker[e]
        BY <3>1 DEF IInv, Shared, SentOnly
      <3>3. \A q \in Procs : q # p => ~ Writing(q, r)
        BY <1>1, <1>2, <3>1, ScopeAssumption DEF IInv, Own, Located, Locked, Writing, At
      <3> QED BY <2>2, <3>1, <3>2, <3>3 DEF Dead, Writing, Moved, RemoveBegin, localVars
    <2>5. Own(p)' /\ \A r \in Attempts : ~ Writing(p, r)'
      BY <1>1, <2>2, <2>3, <2>4 DEF RemoveBegin, Own, Located, Seen, Locked,
         Undecided, Decided, Writing, At, Ordered
    <2> QED BY <2>2, <2>3, <2>5, TypeFacts, QuietStep DEF RemoveBegin
  <1>3. CASE ~ free
    BY <1>3, QuitStep DEF RemoveBegin
  <1> QED BY <1>2, <1>3

LEMMA InterruptedInv ==
  ASSUME IInv, NEW p \in Procs, Interrupted(p)
  PROVE  IInv'
  BY QuitStep DEF Interrupted

-----------------------------------------------------------------------------
(* Steps that change the requests, the markers or the receipts. *)

LEMMA SendReserveInv ==
  ASSUME IInv, NEW p \in Procs, SendReserve(p)
  PROVE  IInv'
  <1>1. /\ Own(p) /\ proc[p].pc = "apply" /\ "reserve" \in PCs
        /\ next \in Attempts /\ next' = next + 1 /\ proc[p].db \in Dbs
    BY BoundsAssumption, TypeFacts
       DEF IInv, Own, Located, SendReserve, At, PCs, Attempts
  <1>2. /\ Moved(p) /\ proc'[p].pc = "reserve" /\ proc'[p].id = next
        /\ proc'[p].db = proc[p].db
        /\ proc'[p].global = proc[p].global /\ proc'[p].head = proc[p].head
        /\ proc'[p].todo = proc[p].todo /\ proc'[p].absent = proc[p].absent
    BY <1>1, TypeFacts, TakeFacts DEF SendReserve
  <1>3. /\ \A r \in Attempts : r # next => req'[r] = req[r]
        /\ req'[next] = [db |-> proc[p].db, global |-> proc[p].global,
                         head |-> proc[p].head]
        /\ req' \in [Attempts -> [db : Dbs \cup {NoDb}, global : Heads, head : Heads]]
    BY <1>1, TypeFacts DEF SendReserve, IInv, TypeOK
  <1>4. \A r \in Attempts : r < next => req'[r] = req[r] /\ r < next'
    BY <1>1, <1>3, TypeFacts
  <1>5. TypeOK'
    <2>1. next' \in 1 .. MaxAttempts + 1
      BY <1>1, BoundsAssumption DEF Attempts
    <2> QED BY <1>2, <1>3, <2>1 DEF IInv, TypeOK, SendReserve, Moved, authorityVars,
               localVars
  <1>6. ASSUME NEW r \in Attempts, Dead(r) PROVE Dead(r)'
    <2>1. r # next
      BY <1>6, TypeFacts DEF Dead
    <2>2. \A q \in Procs : Writing(q, r)' => Writing(q, r)
      BY <1>2, <2>1 DEF Moved, Writing
    <2> QED BY <1>1, <1>6, <2>2, TypeFacts, DeadStays DEF SendReserve, localVars, IInv
  <1>7. ASSUME NEW q \in Procs, q # p PROVE Own(q)'
    BY <1>1, <1>2, <1>4, <1>6, <1>7, TypeFacts, OthersKept
       DEF Moved, SendReserve, authorityVars, localVars
  <1>8. Own(p)'
    <2>1. next \notin marker[proc[p].db] /\ next < next'
      BY <1>1, TypeFacts DEF IInv, Shared, SentOnly
    <2>2. Located(p)'
      <3>1. \A r \in proc[p].absent : r < next' /\ req'[r].db = proc[p].db
        BY <1>1, <1>4, TypeFacts DEF Own, Located
      <3> QED BY <1>1, <1>2, <1>3, <2>1, <3>1 DEF Located, At
    <2>3. Seen(p)'
      BY <1>1, <1>2, TypeFacts DEF Own, Seen, Ordered, Heads
    <2>4. Locked(p)' /\ Undecided(p)' /\ Decided(p)'
      BY <1>1, <1>2, <2>1 DEF Own, Locked, Undecided, Decided, Writing, At,
         SendReserve, localVars
    <2> QED BY <2>2, <2>3, <2>4 DEF Own
  <1>9. Shared'
    <2>1. HeadsOrdered'
      <3>1. Ordered(globalHead, next') /\ \A d \in Dbs : Ordered(dbHead[d], next')
        BY <1>1, TypeFacts DEF IInv, Shared, HeadsOrdered, Ordered, Heads
      <3>2. Ordered(req'[next].global, next) /\ Ordered(req'[next].head, next)
        BY <1>1, <1>3 DEF Own, Seen
      <3>3. ASSUME NEW r \in Attempts, r < next'
            PROVE  Ordered(req'[r].global, r) /\ Ordered(req'[r].head, r)
        <4>1. r = next \/ r < next
          BY <1>1, <3>3, TypeFacts
        <4> QED BY <1>4, <3>2, <4>1 DEF IInv, Shared, HeadsOrdered
      <3> QED BY <3>1, <3>3 DEF HeadsOrdered, Ordered, SendReserve, authorityVars
    <2>2. SentOnly'
      <3>1. \A d \in Dbs : \A r \in marker[d] : r < next' /\ req'[r].db = d
        BY <1>4, TypeFacts DEF IInv, Shared, SentOnly
      <3>2. \A r \in Attempts : r < next => r < next'
        BY <1>4
      <3> QED BY <3>1, <3>2 DEF IInv, Shared, SentOnly, SendReserve, authorityVars,
                 localVars
    <2>3. AbortsDead'
      BY <1>6 DEF IInv, Shared, AbortsDead, SendReserve, authorityVars
    <2>4. FinalizesDurable'
      <3>1. \A r \in Attempts : status[r] = "finalized" \/ <<"finalize", r>> \in late
              => req'[r] = req[r]
        BY <1>4 DEF IInv, Shared, SentOnly
      <3> QED BY <3>1 DEF IInv, Shared, FinalizesDurable, Durable, SendReserve,
                 authorityVars, localVars
    <2> QED BY <2>1, <2>2, <2>3, <2>4 DEF Shared
  <1> QED BY <1>5, <1>7, <1>8, <1>9 DEF IInv

\* The marker of the reservation that p is writing becomes durable, or does not;
\* p is not writing any more.
LEMMA MarkerStep ==
  ASSUME IInv, NEW p \in Procs, Moved(p), Own(p)', At(p, "commit"),
         marker' \in {marker,
           [marker EXCEPT ![proc[p].db] = @ \cup {proc[p].id}]},
         Unlock(proc[p].db), faults' \in 0 .. MaxFaults,
         UNCHANGED <<authorityVars, receipts, req, next, late>>,
         \A r \in Attempts : ~ Writing(p, r)'
  PROVE  IInv'
  <1>1. /\ proc[p].db \in Dbs /\ proc[p].id \in Attempts /\ proc[p].id < next
        /\ req[proc[p].id].db = proc[p].db /\ lock[proc[p].db] = p
        /\ Writing(p, proc[p].id)
    BY DEF IInv, Own, Located, Locked, Writing, At
  <1>2. /\ lock' \in [Dbs -> Procs \cup {NoProc}]
        /\ \A d \in Dbs : lock'[d] # lock[d] => lock[d] = p
    BY UnlockFacts DEF At
  <1>3. /\ marker' \in [Dbs -> SUBSET Attempts]
        /\ \A d \in Dbs : d # proc[p].db => marker'[d] = marker[d]
        /\ \A d \in Dbs : marker[d] \subseteq marker'[d]
        /\ \A d \in Dbs : \A r \in marker'[d] :
             r \in marker[d] \/ (r = proc[p].id /\ d = proc[p].db)
    BY <1>1, TypeFacts
  <1>4. TypeOK'
    BY <1>2, <1>3 DEF IInv, TypeOK, Moved, authorityVars
  <1>5. ASSUME NEW r \in Attempts, Dead(r) PROVE Dead(r)'
    <2>1. \A q \in Procs : Writing(q, r)' => Writing(q, r)
      BY DEF Moved, Writing
    <2> QED BY <1>1, <1>3, <1>5, <2>1, TypeFacts, DeadStays DEF IInv
  <1>6. ASSUME NEW q \in Procs, q # p PROVE Own(q)'
    <2>1. \A d \in Dbs : lock[d] = q => lock'[d] = q /\ marker'[d] = marker[d]
      BY <1>1, <1>2, <1>3, <1>6
    <2> QED BY <1>3, <1>5, <1>6, <2>1, TypeFacts, OthersKept DEF Moved, authorityVars
  <1>7. Shared'
    <2>1. HeadsOrdered'
      BY DEF IInv, Shared, HeadsOrdered, Ordered, authorityVars
    <2>2. SentOnly'
      BY <1>1, <1>3 DEF IInv, Shared, SentOnly, authorityVars
    <2>3. AbortsDead'
      BY <1>5 DEF IInv, Shared, AbortsDead, authorityVars
    <2>4. FinalizesDurable'
      <3>1. \A r \in Attempts : Durable(r) => Durable(r)'
        BY <1>3 DEF Durable
      <3> QED BY <3>1 DEF IInv, Shared, FinalizesDurable, authorityVars
    <2> QED BY <2>1, <2>2, <2>3, <2>4 DEF Shared
  <1> QED BY <1>4, <1>6, <1>7 DEF IInv

LEMMA CommitInv ==
  ASSUME IInv, NEW p \in Procs, Commit(p)
  PROVE  IInv'
  <1>1. Own(p) /\ proc[p].pc = "commit" /\ "finalize" \in PCs
    BY DEF IInv, Commit, At, PCs
  <1>2. /\ Moved(p) /\ proc'[p].pc = "finalize" /\ proc'[p].db = proc[p].db
        /\ proc'[p].id = proc[p].id
        /\ proc'[p].global = proc[p].global /\ proc'[p].head = proc[p].head
        /\ proc'[p].absent = proc[p].absent
    BY <1>1, TypeFacts, GotoFacts DEF Commit
  <1>3. proc[p].db \in Dbs /\ proc[p].id \in marker'[proc[p].db]
    BY <1>1, TypeFacts DEF Commit, Own, Located, At
  <1>4. Own(p)' /\ \A r \in Attempts : ~ Writing(p, r)'
    BY <1>1, <1>2, <1>3 DEF Commit, Own, Located, Seen, Locked, Undecided, Decided,
       Writing, At, Ordered
  <1> QED BY <1>2, <1>4, TypeFacts, MarkerStep DEF Commit

LEMMA CommitOutcomeUnknownInv ==
  ASSUME IInv, NEW p \in Procs, CommitOutcomeUnknown(p)
  PROVE  IInv'
  <1>1. faults' \in 0 .. MaxFaults
    BY BoundsAssumption, TypeFacts DEF CommitOutcomeUnknown, Fault
  <1> QED BY <1>1, QuitOwn, MarkerStep DEF CommitOutcomeUnknown

\* A receipt of a finalized mutation is stored.
LEMMA ReceiptStep ==
  ASSUME IInv, NEW p \in Procs, Moved(p), Own(p)',
         receipts' \in {receipts, receipts \cup {proc[p].id}},
         proc[p].id \in Attempts, status[proc[p].id] = "finalized",
         UNCHANGED <<authorityVars, marker, req, lock, next, late, faults>>,
         \A r \in Attempts : ~ Writing(p, r)'
  PROVE  IInv'
  <1>1. TypeOK'
    BY DEF IInv, TypeOK, Moved, authorityVars
  <1>2. ASSUME NEW r \in Attempts, Dead(r) PROVE Dead(r)'
    <2>1. \A q \in Procs : Writing(q, r)' => Writing(q, r)
      BY DEF Moved, Writing
    <2> QED BY <1>2, <2>1, TypeFacts, DeadStays DEF IInv
  <1>3. ASSUME NEW q \in Procs, q # p PROVE Own(q)'
    BY <1>2, <1>3, TypeFacts, OthersKept DEF Moved, authorityVars
  <1>4. Shared'
    <2>1. HeadsOrdered' /\ SentOnly'
      BY DEF IInv, Shared, HeadsOrdered, SentOnly, Ordered, authorityVars
    <2>2. AbortsDead'
      BY <1>2 DEF IInv, Shared, AbortsDead, authorityVars
    <2>3. FinalizesDurable'
      BY DEF IInv, Shared, FinalizesDurable, Durable, authorityVars
    <2> QED BY <2>1, <2>2, <2>3 DEF Shared
  <1> QED BY <1>1, <1>3, <1>4 DEF IInv

LEMMA RecordFinalizationInv ==
  ASSUME IInv, NEW p \in Procs, RecordFinalization(p)
  PROVE  IInv'
  <1>1. proc[p].id \in Attempts /\ status[proc[p].id] = "finalized"
    BY DEF IInv, Own, Decided, RecordFinalization, At
  <1> QED BY <1>1, QuitOwn, ReceiptStep DEF RecordFinalization

LEMMA RecoverRecordInv ==
  ASSUME IInv, NEW p \in Procs, RecoverRecord(p)
  PROVE  IInv'
  <1>1. /\ proc[p].id \in Attempts /\ status[proc[p].id] = "finalized"
        /\ Own(p) /\ proc[p].pc = "recovered" /\ "recover" \in PCs
    BY DEF IInv, Own, Decided, RecoverRecord, At, PCs
  <1>2. CASE lock[proc[p].db] = NoProc
    <2> DEFINE T == proc[p].todo \ {proc[p].id}
    <2>1. T \in SUBSET Attempts /\ T \subseteq marker[proc[p].db]
      BY <1>1, TypeFacts DEF Own, Decided
    <2> HIDE DEF T
    <2>2. /\ Moved(p) /\ proc'[p].pc = "recover" /\ proc'[p].db = proc[p].db
          /\ proc'[p].global = proc[p].global /\ proc'[p].head = proc[p].head
          /\ proc'[p].todo = T /\ proc'[p].absent = proc[p].absent
      BY <1>1, <1>2, <2>1, TypeFacts, WorkFacts DEF RecoverRecord, T
    <2>3. Own(p)' /\ \A r \in Attempts : ~ Writing(p, r)'
      BY <1>1, <2>1, <2>2 DEF RecoverRecord, Own, Located, Seen, Locked, Undecided,
         Decided, Writing, At, Ordered
    <2> QED BY <1>1, <1>2, <2>2, <2>3, ReceiptStep DEF RecoverRecord
  <1>3. CASE lock[proc[p].db] # NoProc
    BY <1>3, QuitStep DEF RecoverRecord, localVars
  <1> QED BY <1>2, <1>3


-----------------------------------------------------------------------------
(* Steps of the authority, and requests that outlive their sender. *)

\* What a step may do to the state of the authority: heads stay ordered, what is
\* finalized stays so, dead reservations are aborted and durable ones finalized.
Lawful ==
  /\ status' \in [Attempts -> {"none", "reserved", "finalized", "aborted"}]
  /\ globalHead' \in Heads /\ dbHead' \in [Dbs -> Heads]
  /\ Ordered(globalHead', next) /\ \A d \in Dbs : Ordered(dbHead'[d], next)
  /\ \A m \in Attempts : status[m] = "finalized" => status'[m] = "finalized"
  /\ \A m \in Attempts : status'[m] # status[m] =>
       /\ m < next
       /\ status'[m] = "aborted" => Dead(m)
       /\ status'[m] = "finalized" => Durable(m)

LEMMA UnchangedLawful ==
  ASSUME IInv, UNCHANGED authorityVars
  PROVE  Lawful
  BY TypeFacts DEF IInv, Shared, HeadsOrdered, Ordered, Lawful, authorityVars

LEMMA GrantLawful ==
  ASSUME IInv, NEW r \in Attempts, r < next, Grant(r)
  PROVE  Lawful
  BY TypeFacts DEF IInv, Shared, HeadsOrdered, Ordered, Lawful, Grant, CanReserve

LEMMA AbortLawful ==
  ASSUME IInv, NEW r \in Attempts, Dead(r), Abort(r)
  PROVE  Lawful
  BY TypeFacts DEF IInv, Shared, HeadsOrdered, Ordered, Lawful, Abort, Dead

LEMMA FinalizeLawful ==
  ASSUME IInv, NEW r \in Attempts, Durable(r), Finalize(r)
  PROVE  Lawful
  <1>1. CASE UNCHANGED authorityVars
    BY <1>1, UnchangedLawful
  <1>2. CASE /\ status[r] = "reserved"
             /\ status' = [status EXCEPT ![r] = "finalized"]
             /\ globalHead' = [seq |-> req[r].global.seq + 1, id |-> r]
             /\ dbHead' = [dbHead EXCEPT ![req[r].db] =
                             [seq |-> req[r].head.seq + 1, id |-> r]]
    <2>1. r < next /\ r \in 0 .. MaxAttempts /\ r \in Nat
      BY TypeFacts, BoundsAssumption DEF Durable, IInv, Shared, SentOnly, Attempts
    <2>2. /\ req[r].global \in Heads /\ req[r].head \in Heads
          /\ Ordered(req[r].global, r) /\ Ordered(req[r].head, r)
      BY <2>1 DEF IInv, TypeOK, Shared, HeadsOrdered
    <2> DEFINE g == [seq |-> req[r].global.seq + 1, id |-> r]
               h == [seq |-> req[r].head.seq + 1, id |-> r]
    <2>3. g \in Heads /\ h \in Heads /\ Ordered(g, next) /\ Ordered(h, next)
      BY <2>1, <2>2, BoundsAssumption DEF Ordered, Heads
    <2> HIDE DEF g, h
    <2>4. globalHead' = g /\ dbHead' = [dbHead EXCEPT ![req[r].db] = h]
      BY <1>2 DEF g, h
    <2>5. /\ dbHead' \in [Dbs -> Heads]
          /\ \A d \in Dbs : dbHead'[d] \in {dbHead[d], h}
      BY <2>3, <2>4, TypeFacts
    <2>6. \A d \in Dbs : Ordered(dbHead'[d], next)
      BY <2>3, <2>5 DEF IInv, Shared, HeadsOrdered
    <2>7. /\ status' \in [Attempts -> {"none", "reserved", "finalized", "aborted"}]
          /\ \A m \in Attempts : status[m] = "finalized" => status'[m] = "finalized"
          /\ \A m \in Attempts : status'[m] # status[m] => m = r /\ status'[m] = "finalized"
      BY <1>2, TypeFacts
    <2> QED BY <2>1, <2>3, <2>4, <2>5, <2>6, <2>7 DEF Lawful
  <1> QED BY <1>1, <1>2 DEF Finalize

\* A step of the authority; a request that stays behind is one that a living
\* process was entitled to send.
LEMMA AuthorityStep ==
  ASSUME IInv, Lawful, UNCHANGED <<localVars, req, next>>,
         proc' \in [Procs -> Memory], faults' \in 0 .. MaxFaults,
         lock' \in [Dbs -> Procs \cup {NoProc}], late' \subseteq Late,
         \A k \in {"reserve", "finalize", "abort"}, r \in Attempts :
           <<k, r>> \in late' =>
             \/ <<k, r>> \in late
             \/ /\ r < next
                /\ k = "abort" => Dead(r)
                /\ k = "finalize" => Durable(r),
         \A q \in Procs : \/ Own(q)'
                          \/ /\ proc'[q] = proc[q]
                             /\ \A d \in Dbs : lock[d] = q => lock'[d] = q,
         \A q \in Procs, r \in Attempts : Writing(q, r)' => Writing(q, r)
  PROVE  IInv'
  <1>1. TypeOK'
    BY DEF IInv, TypeOK, Lawful, localVars
  <1>2. ASSUME NEW r \in Attempts, Dead(r) PROVE Dead(r)'
    BY <1>2, TypeFacts, DeadStays DEF IInv, localVars
  <1>3. ASSUME NEW q \in Procs PROVE Own(q)'
    <2>1. CASE /\ proc'[q] = proc[q]
               /\ \A d \in Dbs : lock[d] = q => lock'[d] = q
      BY <1>2, <2>1, TypeFacts, OthersKept DEF Lawful, localVars
    <2> QED BY <2>1
  <1>4. Shared'
    <2>1. HeadsOrdered'
      BY DEF IInv, Shared, HeadsOrdered, Ordered, Lawful
    <2>2. SentOnly'
      BY DEF IInv, Shared, SentOnly, Lawful, localVars
    <2>3. AbortsDead'
      BY <1>2 DEF IInv, Shared, AbortsDead, Lawful
    <2>4. FinalizesDurable'
      <3>1. \A r \in Attempts : Durable(r) => Durable(r)'
        BY DEF Durable, localVars
      <3> QED BY <3>1, TypeFacts DEF IInv, Shared, FinalizesDurable, Lawful, localVars
    <2> QED BY <2>1, <2>2, <2>3, <2>4 DEF Shared
  <1> QED BY <1>1, <1>3, <1>4 DEF IInv

\* A process calls the authority.
LEMMA CallStep ==
  ASSUME IInv, Lawful, NEW p \in Procs, Moved(p), Own(p)',
         UNCHANGED <<localVars, req, next, late>>,
         faults' = faults \/ Fault,
         \/ lock' = lock
         \/ Unlock(proc[p].db) /\ At(p, "revoke"),
         \A r \in Attempts : Writing(p, r)' => Writing(p, r)
  PROVE  IInv'
  <1>1. faults' \in 0 .. MaxFaults
    BY BoundsAssumption, TypeFacts DEF Fault
  <1>2. /\ lock' \in [Dbs -> Procs \cup {NoProc}]
        /\ \A d \in Dbs : lock'[d] # lock[d] => lock[d] = p
    BY TypeFacts, UnlockFacts DEF At
  <1>3. ASSUME NEW q \in Procs
        PROVE  \/ Own(q)'
               \/ /\ proc'[q] = proc[q]
                  /\ \A d \in Dbs : lock[d] = q => lock'[d] = q
    BY <1>2 DEF Moved
  <1>4. \A q \in Procs, r \in Attempts : Writing(q, r)' => Writing(q, r)
    BY DEF Moved, Writing
  <1> QED BY <1>1, <1>2, <1>3, <1>4, TypeFacts, AuthorityStep DEF Moved

LEMMA ReserveMutationInv ==
  ASSUME IInv, NEW p \in Procs, ReserveMutation(p)
  PROVE  IInv'
  <1> DEFINE r == proc[p].id
  <1>1. Own(p) /\ proc[p].pc = "reserve" /\ r \in Attempts /\ r < next
    BY DEF IInv, Own, Located, ReserveMutation, At
  <1>2. Lawful
    BY <1>1, GrantLawful, UnchangedLawful DEF ReserveMutation
  <1>3. PICK x \in {"commit", "resolve"} : Goto(p, x)
    BY DEF ReserveMutation
  <1>4. /\ Moved(p) /\ proc'[p].pc = x /\ proc'[p].db = proc[p].db
        /\ proc'[p].id = proc[p].id
        /\ proc'[p].global = proc[p].global /\ proc'[p].head = proc[p].head
        /\ proc'[p].absent = proc[p].absent
    <2>1. x \in PCs
      BY DEF PCs
    <2> QED BY <1>3, <2>1, TypeFacts, GotoFacts
  <1>5. Own(p)' /\ \A m \in Attempts : Writing(p, m)' => Writing(p, m)
    BY <1>1, <1>4 DEF ReserveMutation, Own, Located, Seen, Locked, Undecided, Decided,
       Writing, At, Ordered, localVars
  <1>6. (faults' = faults \/ Fault) /\ UNCHANGED <<localVars, req, lock, next, late>>
    BY DEF ReserveMutation
  <1> QED BY <1>2, <1>4, <1>5, <1>6, CallStep

LEMMA AbortMutationInv ==
  ASSUME IInv, NEW p \in Procs, AbortMutation(p)
  PROVE  IInv'
  <1>1. proc[p].id \in Attempts /\ Dead(proc[p].id)
    BY DEF IInv, Own, Located, Undecided, AbortMutation, At
  <1>2. Lawful
    BY <1>1, AbortLawful, UnchangedLawful DEF AbortMutation
  <1> QED BY <1>2, QuitOwn, CallStep DEF AbortMutation

LEMMA RevokeInv ==
  ASSUME IInv, NEW p \in Procs, Revoke(p)
  PROVE  IInv'
  <1>1. PICK r \in proc[p].absent :
          \/ Abort(r) /\ UNCHANGED faults
          \/ status[r] # "reserved" /\ UNCHANGED <<authorityVars, faults>>
          \/ Fault /\ (Abort(r) \/ UNCHANGED authorityVars)
    BY DEF Revoke
  <1>2. r \in Attempts /\ Dead(r)
    BY TypeFacts DEF IInv, Own, Undecided, Revoke
  <1>3. Lawful /\ (faults' = faults \/ Fault)
    BY <1>1, <1>2, AbortLawful, UnchangedLawful
  <1> QED BY <1>3, QuitOwn, CallStep DEF Revoke

LEMMA FinalizeMutationInv ==
  ASSUME IInv, NEW p \in Procs, FinalizeMutation(p)
  PROVE  IInv'
  <1> DEFINE r == proc[p].id
  <1>1. Own(p) /\ proc[p].pc = "finalize" /\ r \in Attempts /\ Durable(r)
    BY DEF IInv, Own, Located, Decided, Durable, FinalizeMutation, At
  <1>2. Lawful /\ (faults' = faults \/ Fault)
    BY <1>1, FinalizeLawful, UnchangedLawful DEF FinalizeMutation
  <1>3. CASE Finalize(r) /\ Goto(p, "record")
    <2>1. "record" \in PCs
      BY DEF PCs
    <2>2. /\ Moved(p) /\ proc'[p].pc = "record" /\ proc'[p].db = proc[p].db
          /\ proc'[p].id = proc[p].id
          /\ proc'[p].global = proc[p].global /\ proc'[p].head = proc[p].head
          /\ proc'[p].absent = proc[p].absent
      BY <1>3, <2>1, TypeFacts, GotoFacts
    <2>3. status'[r] = "finalized"
      BY <1>1, <1>3, TypeFacts DEF Finalize, authorityVars
    <2>4. Own(p)' /\ \A m \in Attempts : ~ Writing(p, m)'
      BY <1>1, <2>2, <2>3 DEF FinalizeMutation, Own, Located, Seen, Locked, Undecided,
         Decided, Writing, At, Ordered, localVars
    <2> QED BY <1>2, <2>2, <2>4, CallStep DEF FinalizeMutation
  <1>4. CASE Quit(p)
    BY <1>2, <1>4, QuitOwn, CallStep DEF FinalizeMutation
  <1> QED BY <1>3, <1>4 DEF FinalizeMutation

LEMMA RecoverFinalizeInv ==
  ASSUME IInv, NEW p \in Procs, RecoverFinalize(p)
  PROVE  IInv'
  <1>1. PICK r \in proc[p].todo :
          \/ Finalize(r) /\ Take(p, "recovered", r) /\ UNCHANGED faults
          \/ status[r] = "aborted" /\ Quit(p) /\ UNCHANGED <<authorityVars, faults>>
          \/ Fault /\ Quit(p) /\ (Finalize(r) \/ UNCHANGED authorityVars)
    BY DEF RecoverFinalize
  <1>2. /\ Own(p) /\ proc[p].pc = "recover" /\ proc[p].db \in Dbs
        /\ r \in Attempts /\ r \in marker[proc[p].db]
    BY TypeFacts DEF IInv, Own, Located, Decided, RecoverFinalize, At
  <1>3. Durable(r)
    BY <1>2 DEF Durable, IInv, Shared, SentOnly
  <1>4. Lawful /\ (faults' = faults \/ Fault)
    BY <1>1, <1>2, <1>3, FinalizeLawful, UnchangedLawful
  <1>5. CASE Finalize(r) /\ Take(p, "recovered", r)
    <2>1. "recovered" \in PCs
      BY DEF PCs
    <2>2. /\ Moved(p) /\ proc'[p].pc = "recovered" /\ proc'[p].db = proc[p].db
          /\ proc'[p].id = r /\ proc'[p].todo = proc[p].todo
          /\ proc'[p].global = proc[p].global /\ proc'[p].head = proc[p].head
          /\ proc'[p].absent = proc[p].absent
      BY <1>2, <1>5, <2>1, TypeFacts, TakeFacts
    <2>3. status'[r] = "finalized"
      BY <1>2, <1>5, TypeFacts DEF Finalize, authorityVars
    <2>4. Own(p)' /\ \A m \in Attempts : ~ Writing(p, m)'
      BY <1>2, <2>2, <2>3 DEF RecoverFinalize, Own, Located, Seen, Locked, Undecided,
         Decided, Writing, At, Ordered, localVars
    <2> QED BY <1>4, <2>2, <2>4, CallStep DEF RecoverFinalize
  <1>6. CASE Quit(p)
    BY <1>4, <1>6, QuitOwn, CallStep DEF RecoverFinalize
  <1> QED BY <1>1, <1>5, <1>6

\* A late request does what its sender was entitled to when it died.
LEMMA HandleLateInv ==
  ASSUME IInv, NEW m \in Late, HandleLate(m)
  PROVE  IInv'
  <1>1. PICK k \in {"reserve", "finalize", "abort"}, r \in Attempts : m = <<k, r>>
    BY DEF Late
  <1>2. <<k, r>> \in late /\ m[1] = k /\ m[2] = r /\ late' \subseteq late
    BY <1>1 DEF HandleLate
  <1>3. /\ r < next
        /\ k = "abort" => Dead(r)
        /\ k = "finalize" => Durable(r)
    BY <1>2 DEF IInv, Shared, SentOnly, AbortsDead, FinalizesDurable
  <1>4. Lawful
    BY <1>2, <1>3, GrantLawful, AbortLawful, FinalizeLawful, UnchangedLawful
       DEF HandleLate
  <1>5. \A q \in Procs, n \in Attempts : Writing(q, n)' => Writing(q, n)
    BY DEF HandleLate, Writing
  <1> QED BY <1>2, <1>4, <1>5, TypeFacts, AuthorityStep DEF HandleLate

\* What a process leaves behind when it is killed: a request it was entitled to.
LEMMA InFlightEntitled ==
  ASSUME IInv, NEW p \in Procs, NEW m \in InFlight(p)
  PROVE  \E k \in {"reserve", "finalize", "abort"}, r \in Attempts :
           /\ m = <<k, r>> /\ r < next
           /\ k = "abort" => Dead(r)
           /\ k = "finalize" => Durable(r)
  <1>1. Own(p)
    BY DEF IInv
  <1>2. CASE At(p, "reserve")
    <2>1. m = <<"reserve", proc[p].id>>
      BY <1>2 DEF InFlight, At
    <2> QED BY <1>1, <1>2, <2>1 DEF Own, Located, At
  <1>3. CASE At(p, "finalize")
    <2>1. m = <<"finalize", proc[p].id>>
      BY <1>3 DEF InFlight, At
    <2> QED BY <1>1, <1>3, <2>1 DEF Own, Located, Decided, Durable, At
  <1>4. CASE At(p, "abort")
    <2>1. m = <<"abort", proc[p].id>>
      BY <1>4 DEF InFlight, At
    <2> QED BY <1>1, <1>4, <2>1 DEF Own, Located, Undecided, At
  <1>5. CASE At(p, "revoke")
    <2>1. PICK r \in proc[p].absent : m = <<"abort", r>>
      BY <1>5 DEF InFlight, At
    <2> QED BY <1>1, <1>5, <2>1, TypeFacts DEF Own, Located, Undecided
  <1>6. CASE At(p, "recover")
    <2>1. PICK r \in proc[p].todo : m = <<"finalize", r>>
      BY <1>6 DEF InFlight, At
    <2>2. r \in Attempts /\ proc[p].db \in Dbs /\ r \in marker[proc[p].db]
      BY <1>1, <1>6, <2>1, TypeFacts DEF Own, Located, Decided, At
    <2>3. r < next /\ Durable(r)
      BY <2>2 DEF Durable, IInv, Shared, SentOnly
    <2> QED BY <2>1, <2>2, <2>3
  <1> QED BY <1>2, <1>3, <1>4, <1>5, <1>6 DEF InFlight

LEMMA CrashInv ==
  ASSUME IInv, NEW p \in Procs, Crash(p)
  PROVE  IInv'
  <1>1. Lawful
    BY UnchangedLawful DEF Crash
  <1>2. /\ Own(p)' /\ Moved(p) /\ \A r \in Attempts : ~ Writing(p, r)'
    BY QuitOwn DEF Crash
  <1>3. /\ lock' \in [Dbs -> Procs \cup {NoProc}]
        /\ \A d \in Dbs : lock'[d] # lock[d] => lock[d] = p
    BY TypeFacts DEF Crash
  <1> DEFINE Entitled ==
        /\ late' \subseteq Late
        /\ \A k \in {"reserve", "finalize", "abort"}, r \in Attempts :
             <<k, r>> \in late' =>
               \/ <<k, r>> \in late
               \/ /\ r < next
                  /\ k = "abort" => Dead(r)
                  /\ k = "finalize" => Durable(r)
  <1>4. Entitled
    <2>1. CASE UNCHANGED late
      BY <2>1, TypeFacts
    <2>2. ASSUME NEW m \in InFlight(p), late' = late \cup {m}
          PROVE  Entitled
      <3>1. PICK k \in {"reserve", "finalize", "abort"}, r \in Attempts :
              /\ m = <<k, r>> /\ r < next
              /\ k = "abort" => Dead(r)
              /\ k = "finalize" => Durable(r)
        BY <2>2, InFlightEntitled
      <3>2. m \in Late
        BY <3>1 DEF Late
      <3>3. ASSUME NEW j \in {"reserve", "finalize", "abort"}, NEW n \in Attempts,
                   <<j, n>> \in late', <<j, n>> \notin late
            PROVE  j = k /\ n = r
        BY <2>2, <3>1, <3>3
      <3> QED BY <2>2, <3>1, <3>2, <3>3, TypeFacts
    <2> QED BY <2>1, <2>2 DEF Crash
  <1>5. ASSUME NEW q \in Procs
        PROVE  \/ Own(q)'
               \/ /\ proc'[q] = proc[q]
                  /\ \A d \in Dbs : lock[d] = q => lock'[d] = q
    BY <1>2, <1>3 DEF Moved
  <1>6. \A q \in Procs, r \in Attempts : Writing(q, r)' => Writing(q, r)
    BY <1>2 DEF Moved, Writing
  <1>7. faults' \in 0 .. MaxFaults
    BY BoundsAssumption, TypeFacts DEF Crash, Fault
  <1> QED BY <1>1, <1>2, <1>3, <1>4, <1>5, <1>6, <1>7, AuthorityStep DEF Crash, Moved

-----------------------------------------------------------------------------
(* The theorems. *)

LEMMA InitInv == Init => IInv
  <1> SUFFICES ASSUME Init PROVE IInv
    OBVIOUS
  <1>1. TypeOK
    <2>1. Genesis \in Heads
      BY BoundsAssumption DEF Genesis, Heads
    <2> QED BY <2>1, IdleType, BoundsAssumption DEF Init, TypeOK
  <1>2. Shared
    BY BoundsAssumption DEF Init, Shared, HeadsOrdered, SentOnly, AbortsDead,
       FinalizesDurable, Ordered, Genesis, Attempts
  <1>3. ASSUME NEW p \in Procs PROVE Own(p)
    <2>1. proc[p].pc = "idle" /\ proc[p].absent = {} /\ proc[p].global = Genesis
          /\ proc[p].head = Genesis
      BY DEF Init, Idle, Fresh
    <2> QED BY <2>1 DEF Init, Own, Located, Seen, Locked, Undecided, Decided,
               Writing, At, Ordered, Genesis
  <1> QED BY <1>1, <1>2, <1>3 DEF IInv

LEMMA StutterInv ==
  ASSUME IInv, UNCHANGED vars
  PROVE  IInv'
  BY DEF vars, authorityVars, localVars, IInv, TypeOK, Shared, HeadsOrdered, SentOnly,
     AbortsDead, FinalizesDurable, Durable, Own, Located, Seen, Locked, Undecided,
     Decided, Writing, Dead, At, Ordered

LEMMA NextInv == IInv /\ [Next]_vars => IInv'
  <1> SUFFICES ASSUME IInv, [Next]_vars PROVE IInv'
    OBVIOUS
  <1>1. ASSUME NEW p \in Procs, NEW d \in Dbs,
               CheckPending(p, d) \/ ListUnresolved(p, d)
        PROVE  IInv'
    BY <1>1, CheckPendingInv, ListUnresolvedInv
  <1>2. ASSUME NEW p \in Procs, ExecuteMutation(p) PROVE IInv'
    BY <1>2, ObserveCurrentHeadInv, MatchLocalHeadInv, BeginImmediateInv, NoChangeInv,
       SendReserveInv, ReserveMutationInv, ResolveMutationAttemptInv, CommitInv,
       CommitOutcomeUnknownInv, GiveUpInv, AbortMutationInv, FinalizeMutationInv,
       RecordFinalizationInv DEF ExecuteMutation
  <1>3. ASSUME NEW p \in Procs, Recover(p) PROVE IInv'
    BY <1>3, ReadPendingInv, RecoverFinalizeInv, RecoverRecordInv, RecoverDoneInv
       DEF Recover
  <1>4. ASSUME NEW p \in Procs, Reconcile(p) PROVE IInv'
    BY <1>4, InspectMarkersInv, RemoveBeginInv, RevokeInv DEF Reconcile
  <1>5. ASSUME NEW p \in Procs, Interrupted(p) \/ Crash(p) PROVE IInv'
    BY <1>5, InterruptedInv, CrashInv
  <1>6. ASSUME NEW m \in Late, HandleLate(m) PROVE IInv'
    BY <1>6, HandleLateInv
  <1> QED BY <1>1, <1>2, <1>3, <1>4, <1>5, <1>6, StutterInv DEF Next

LEMMA Inductive == Spec => []IInv
  BY InitInv, NextInv, PTL DEF Spec

\* Sequence numbers and attempt ids of both chains stay within the number of
\* attempts, whatever is lost, repeated or late, and the memory of every process is
\* one a call can have (the coordinator and LocalStateAuthority's tables).
THEOREM FencedTypeCorrect == Spec => []TypeOK
  <1>1. IInv => TypeOK
    BY DEF IInv
  <1> QED BY <1>1, Inductive, PTL

\* No abort, be it the writer's own (GiveUp), a reconciliation's beside a living
\* writer (abortProvenRemoteOnlyReservation) or the late request of a process that
\* was killed, ever hits a reservation that is or becomes durable.
THEOREM AbortsNeverHitCommits == Spec => []AbortedNeverCommitted
  <1>1. IInv => AbortedNeverCommitted
    <2> SUFFICES ASSUME IInv, NEW r \in Committed PROVE status[r] # "aborted"
      BY DEF AbortedNeverCommitted
    <2>1. PICK d \in Dbs : r \in marker[d]
      BY DEF Committed
    <2>2. r \in Attempts
      BY <2>1, TypeFacts
    <2> QED BY <2>1, <2>2 DEF IInv, Shared, AbortsDead, Dead
  <1> QED BY <1>1, Inductive, PTL

\* The authority permits the side effects of a mutation only when the mutation is
\* durable in its database, and a receipt of the permission is stored only for what
\* it has finalized, also for finalizations that arrive after their sender's death.
THEOREM PermitsFollowCommits == Spec => []PermitOnlyWhenCommitted
  <1>1. IInv => PermitOnlyWhenCommitted
    BY DEF IInv, Shared, FinalizesDurable, Durable, PermitOnlyWhenCommitted
  <1> QED BY <1>1, Inductive, PTL

-----------------------------------------------------------------------------
(***************************************************************************)
(* The chains, and the one log that they implement.                        *)
(*                                                                         *)
(* The argument: a reservation is built on the heads of this moment and is *)
(* the only one that is outstanding (Chained), so the one that is          *)
(* finalized comes right behind them.  A process that is about to commit   *)
(* still holds its reservation, since an abort hits only what is dead and  *)
(* a finalization only what is durable; so at most one durable mutation is *)
(* not in the log.  Every step is one of six kinds (Classified), and the   *)
(* two that matter are the steps of MutationLog.                           *)
(***************************************************************************)

-----------------------------------------------------------------------------
(* The invariant of the chains. *)

\* One reservation, built on the heads of this moment, is outstanding.
OneReserved ==
  /\ \A r, m \in Attempts : status[r] = "reserved" /\ status[m] = "reserved" => r = m
  /\ \A r \in Attempts : status[r] = "reserved" => OnCurrentHeads(r)
  /\ \A r \in Attempts : r < next => req[r].db \in Dbs

\* The finalized mutations have the global sequences up to the head, one each.
GlobalChain ==
  /\ \A r \in Attempts : status[r] = "finalized" => req[r].global.seq < globalHead.seq
  /\ \A r, m \in Attempts :
       /\ status[r] = "finalized" /\ status[m] = "finalized"
       /\ req[r].global.seq = req[m].global.seq
       => r = m
  /\ \A i \in 1 .. globalHead.seq : \E r \in Attempts :
       status[r] = "finalized" /\ req[r].global.seq + 1 = i

\* Of the markers of a database the head's is the last one that is finalized.
LocalChain(d) ==
  /\ \A m \in marker[d] : status[m] \in {"reserved", "finalized"}
  /\ \A m \in marker[d] : status[m] = "finalized" /\ m # dbHead[d].id
       => req[m].head.seq + 1 < dbHead[d].seq
  /\ \/ dbHead[d] = Genesis
     \/ /\ dbHead[d].id \in marker[d] /\ status[dbHead[d].id] = "finalized"
        /\ req[dbHead[d].id].head.seq + 1 = dbHead[d].seq

\* Whoever is about to commit still has its reservation.
Entitled(p) == At(p, "commit") => status[proc[p].id] = "reserved"

Chained ==
  /\ OneReserved /\ GlobalChain
  /\ \A d \in Dbs : LocalChain(d)
  /\ \A p \in Procs : Entitled(p)

-----------------------------------------------------------------------------
(* The kinds of steps. *)

Quiet == UNCHANGED <<authorityVars, marker, req, next>>
Sent ==
  /\ next \in Attempts /\ next' = next + 1
  /\ \E d \in Dbs, g \in Heads, h \in Heads :
       req' = [req EXCEPT ![next] = [db |-> d, global |-> g, head |-> h]]
  /\ UNCHANGED <<authorityVars, marker>>
Committing(p) ==
  /\ At(p, "commit") /\ proc[p].db \in Dbs
  /\ marker' = [marker EXCEPT ![proc[p].db] = @ \cup {proc[p].id}]
  /\ UNCHANGED <<authorityVars, req, next>>
Granted(r) == r < next /\ Grant(r) /\ UNCHANGED <<marker, req, next>>
Aborted(r) == Dead(r) /\ Abort(r) /\ UNCHANGED <<marker, req, next>>
Published(r) ==
  /\ Durable(r) /\ status[r] = "reserved"
  /\ status' = [status EXCEPT ![r] = "finalized"]
  /\ globalHead' = [seq |-> req[r].global.seq + 1, id |-> r]
  /\ dbHead' = [dbHead EXCEPT ![req[r].db] = [seq |-> req[r].head.seq + 1, id |-> r]]
  /\ UNCHANGED <<marker, req, next>>

Kind ==
  \/ Quiet \/ Sent \/ (\E p \in Procs : Committing(p))
  \/ \E r \in Attempts : Granted(r) \/ Aborted(r) \/ Published(r)

\* Who is about to commit was so before, or has just seen its reservation.
Candid ==
  \A q \in Procs : At(q, "commit")' =>
    \/ At(q, "commit") /\ proc'[q].id = proc[q].id
    \/ proc'[q].id \in Attempts /\ status'[proc'[q].id] = "reserved"

LEMMA CandidMove ==
  ASSUME NEW p \in Procs, Moved(p), proc'[p].pc # "commit"
  PROVE  Candid
BY DEF Moved, Candid, At

LEMMA QuitCandid ==
  ASSUME IInv, NEW p \in Procs, Quit(p)
  PROVE  Candid
BY TypeFacts, QuitFacts, CandidMove

LEMMA GotoCandid ==
  ASSUME IInv, NEW p \in Procs, NEW x \in PCs, x # "commit", Goto(p, x)
  PROVE  Candid
BY TypeFacts, GotoFacts, CandidMove

LEMMA FinalizeKind ==
  ASSUME NEW r \in Attempts, Durable(r), Finalize(r), UNCHANGED <<localVars, req, next>>
  PROVE  Quiet \/ Published(r)
BY DEF Finalize, Quiet, Published, localVars

-----------------------------------------------------------------------------
(* The steps of a call that stay in the process. *)

LEMMA ReadingKind ==
  ASSUME IInv, NEW p \in Procs,
         \/ \E d \in Dbs : CheckPending(p, d) \/ ListUnresolved(p, d)
         \/ ObserveCurrentHead(p) \/ MatchLocalHead(p) \/ BeginImmediate(p) \/ NoChange(p)
         \/ GiveUp(p) \/ ReadPending(p) \/ RecoverDone(p) \/ InspectMarkers(p)
         \/ RemoveBegin(p) \/ Interrupted(p) \/ Crash(p)
  PROVE  Quiet /\ Candid
<1>1. Quiet
  BY DEF CheckPending, ListUnresolved, ObserveCurrentHead, MatchLocalHead, BeginImmediate,
         NoChange, GiveUp, ReadPending, RecoverDone, InspectMarkers, RemoveBegin,
         Interrupted, Crash, Quiet, localVars
<1>2. CASE Quit(p)
  BY <1>1, <1>2, QuitCandid
<1>3. CASE \E x \in {"begin", "apply", "abort", "remove", "revoke"} : Goto(p, x)
  BY <1>1, <1>3, GotoCandid DEF PCs
<1>4. CASE \E d \in Dbs : CheckPending(p, d) \/ ListUnresolved(p, d)
  <2>1. PICK d \in Dbs : CheckPending(p, d) \/ ListUnresolved(p, d)
    BY <1>4
  <2>2. CASE CheckPending(p, d)
    <3>1. PICK x \in {"observe", "rows"} : Start(p, d, "execute", x, {})
      BY <2>2 DEF CheckPending
    <3>2. QED
      BY <1>1, <3>1, TypeFacts, StartFacts, CandidMove DEF PCs
  <2>3. CASE ListUnresolved(p, d)
    <3> DEFINE T == {r \in Unresolved : req[r].db = d}
    <3>1. T \in SUBSET Attempts
      BY DEF Unresolved
    <3>2. Start(p, d, "reconcile", "inspect", T)
      BY <2>3 DEF ListUnresolved
    <3> HIDE DEF T
    <3>3. QED
      BY <1>1, <3>1, <3>2, TypeFacts, StartFacts, CandidMove DEF PCs
  <2>4. QED
    BY <2>1, <2>2, <2>3
<1>5. CASE ObserveCurrentHead(p) /\ ~ Quit(p)
  <2>1. See(p, "local", globalHead, dbHead[proc[p].db])
    BY <1>5 DEF ObserveCurrentHead
  <2>2. proc[p].db \in Dbs
    BY <1>5 DEF ObserveCurrentHead, IInv, Own, Located, At
  <2>3. QED
    BY <1>1, <2>1, <2>2, TypeFacts, SeeFacts, CandidMove DEF PCs
<1>6. CASE ReadPending(p)
  <2>1. proc[p].db \in Dbs
    BY <1>6 DEF ReadPending, IInv, Own, Located, At
  <2> DEFINE T == Pending(proc[p].db)
  <2>2. T \in SUBSET Attempts
    BY <2>1, TypeFacts DEF Pending
  <2>3. Work(p, "recover", T)
    BY <1>6 DEF ReadPending
  <2> HIDE DEF T
  <2>4. QED
    BY <1>1, <2>2, <2>3, TypeFacts, WorkFacts, CandidMove DEF PCs
<1>7. CASE InspectMarkers(p) /\ ~ Quit(p)
  <2> DEFINE T == proc[p].todo \ marker[proc[p].db]
  <2>1. T \in SUBSET Attempts
    BY TypeFacts
  <2>2. Find(p, "rows", T)
    BY <1>7 DEF InspectMarkers
  <2> HIDE DEF T
  <2>3. QED
    BY <1>1, <2>1, <2>2, TypeFacts, FindFacts, CandidMove DEF PCs
<1>8. QED
  BY <1>1, <1>2, <1>3, <1>4, <1>5, <1>6, <1>7
     DEF MatchLocalHead, BeginImmediate, NoChange, GiveUp, RecoverDone,
         RemoveBegin, Interrupted, Crash

LEMMA WritingKind ==
  ASSUME IInv, NEW p \in Procs,
         \/ SendReserve(p) \/ ResolveMutationAttempt(p) \/ Commit(p)
         \/ CommitOutcomeUnknown(p) \/ RecordFinalization(p) \/ RecoverRecord(p)
  PROVE  Kind /\ Candid
<1>1. CASE SendReserve(p)
  <2>1. next \in Attempts
    BY <1>1, TypeFacts, BoundsAssumption DEF SendReserve, Attempts
  <2>2. proc[p].db \in Dbs /\ proc[p].global \in Heads /\ proc[p].head \in Heads
    BY <1>1, TypeFacts DEF SendReserve, IInv, Own, Located, At
  <2>3. Sent
    BY <1>1, <2>1, <2>2 DEF SendReserve, Sent, localVars
  <2>4. Candid
    BY <1>1, <2>1, TypeFacts, TakeFacts, CandidMove DEF SendReserve, PCs
  <2>5. QED
    BY <2>3, <2>4 DEF Kind
<1>2. CASE ResolveMutationAttempt(p)
  <2>1. Quiet
    BY <1>2 DEF ResolveMutationAttempt, Quiet, localVars
  <2>2. CASE Quit(p)
    BY <2>1, <2>2, QuitCandid DEF Kind
  <2>3. CASE status[proc[p].id] = "reserved" /\ Goto(p, "commit")
    <3>1. proc[p].id \in Attempts
      BY <1>2 DEF ResolveMutationAttempt, IInv, Own, Located, At
    <3>2. Moved(p) /\ proc'[p].id = proc[p].id
      BY <2>3, TypeFacts, GotoFacts DEF PCs
    <3>3. status' = status
      BY <2>1 DEF Quiet, authorityVars
    <3>4. Candid
      BY <2>3, <3>1, <3>2, <3>3 DEF Candid, Moved, At
    <3>5. QED
      BY <2>1, <3>4 DEF Kind
  <2>4. QED
    BY <1>2, <2>2, <2>3 DEF ResolveMutationAttempt
<1>3. CASE Commit(p) \/ CommitOutcomeUnknown(p)
  <2>1. proc[p].db \in Dbs
    BY <1>3 DEF Commit, CommitOutcomeUnknown, IInv, Own, Located, At
  <2>2. Quiet \/ Committing(p)
    BY <1>3, <2>1 DEF Commit, CommitOutcomeUnknown, Quiet, Committing
  <2>3. Quit(p) \/ Goto(p, "finalize")
    BY <1>3 DEF Commit, CommitOutcomeUnknown
  <2>4. QED
    BY <2>2, <2>3, QuitCandid, GotoCandid DEF Kind, PCs
<1>4. CASE RecordFinalization(p) \/ RecoverRecord(p)
  <2>1. Quiet
    BY <1>4 DEF RecordFinalization, RecoverRecord, Quiet, localVars
  <2>2. CASE Quit(p)
    BY <2>1, <2>2, QuitCandid DEF Kind
  <2>3. CASE Work(p, "recover", proc[p].todo \ {proc[p].id})
    <3>1. proc[p].todo \ {proc[p].id} \in SUBSET Attempts
      BY TypeFacts
    <3>2. QED
      BY <2>1, <2>3, <3>1, TypeFacts, WorkFacts, CandidMove DEF Kind, PCs
  <2>4. QED
    BY <1>4, <2>2, <2>3 DEF RecordFinalization, RecoverRecord
<1>5. QED
  BY <1>1, <1>2, <1>3, <1>4

-----------------------------------------------------------------------------
(* The steps of the authority. *)

LEMMA CallKind ==
  ASSUME IInv, NEW p \in Procs,
         \/ ReserveMutation(p) \/ AbortMutation(p) \/ FinalizeMutation(p)
         \/ RecoverFinalize(p) \/ Revoke(p)
  PROVE  Kind /\ Candid
<1> DEFINE id == proc[p].id
<1>1. CASE ReserveMutation(p)
  <2>1. id \in Attempts /\ id < next /\ UNCHANGED <<localVars, req, next>>
    BY <1>1 DEF ReserveMutation, IInv, Own, Located, At
  <2>2. CASE Grant(id)
    <3>1. Granted(id)
      BY <2>1, <2>2 DEF Granted, localVars
    <3>2. status'[id] = "reserved"
      BY <2>1, <2>2, TypeFacts DEF Grant
    <3>3. PICK x \in {"commit", "resolve"} : Goto(p, x)
      BY <1>1 DEF ReserveMutation
    <3>4. Moved(p) /\ proc'[p].id = id
      BY <3>3, TypeFacts, GotoFacts DEF PCs
    <3>5. Candid
      BY <2>1, <3>2, <3>4 DEF Candid, Moved, At
    <3>6. QED
      BY <2>1, <3>1, <3>5 DEF Kind
  <2>3. CASE UNCHANGED authorityVars /\ Goto(p, "resolve")
    BY <2>1, <2>3, GotoCandid DEF Kind, Quiet, localVars, PCs
  <2>4. QED
    BY <1>1, <2>2, <2>3 DEF ReserveMutation
<1>2. CASE AbortMutation(p)
  <2>1. id \in Attempts /\ Dead(id)
    BY <1>2 DEF AbortMutation, IInv, Own, Located, Undecided, At
  <2>2. Quiet \/ Aborted(id)
    BY <1>2, <2>1 DEF AbortMutation, Quiet, Aborted, localVars
  <2>3. QED
    BY <1>2, <2>1, <2>2, QuitCandid DEF AbortMutation, Kind
<1>3. CASE Revoke(p)
  <2>1. PICK r \in proc[p].absent : Abort(r) \/ UNCHANGED authorityVars
    BY <1>3 DEF Revoke
  <2>2. r \in Attempts /\ Dead(r)
    BY <1>3, TypeFacts DEF Revoke, IInv, Own, Undecided
  <2>3. Quiet \/ Aborted(r)
    BY <1>3, <2>1, <2>2 DEF Revoke, Quiet, Aborted, localVars
  <2>4. QED
    BY <1>3, <2>2, <2>3, QuitCandid DEF Revoke, Kind
<1>4. CASE FinalizeMutation(p)
  <2>1. id \in Attempts /\ Durable(id) /\ UNCHANGED <<localVars, req, next>>
    BY <1>4 DEF FinalizeMutation, IInv, Own, Located, Decided, Durable, At
  <2>2. Quiet \/ Published(id)
    BY <1>4, <2>1, FinalizeKind DEF FinalizeMutation, Quiet, localVars
  <2>3. Quit(p) \/ Goto(p, "record")
    BY <1>4 DEF FinalizeMutation
  <2>4. QED
    BY <2>1, <2>2, <2>3, QuitCandid, GotoCandid DEF Kind, PCs
<1>5. CASE RecoverFinalize(p)
  <2>1. PICK r \in proc[p].todo :
          /\ Finalize(r) \/ UNCHANGED authorityVars
          /\ Take(p, "recovered", r) \/ Quit(p)
    BY <1>5 DEF RecoverFinalize
  <2>2. /\ r \in Attempts /\ proc[p].db \in Dbs /\ r \in marker[proc[p].db]
        /\ UNCHANGED <<localVars, req, next>>
    BY <1>5, TypeFacts DEF RecoverFinalize, IInv, Own, Located, Decided, At
  <2>3. Durable(r)
    BY <2>2 DEF Durable, IInv, Shared, SentOnly
  <2>4. Quiet \/ Published(r)
    BY <2>1, <2>2, <2>3, FinalizeKind DEF Quiet, localVars
  <2>5. Candid
    BY <2>1, <2>2, TypeFacts, TakeFacts, QuitCandid, CandidMove DEF PCs
  <2>6. QED
    BY <2>2, <2>4, <2>5 DEF Kind
<1>6. QED
  BY <1>1, <1>2, <1>3, <1>4, <1>5

LEMMA LateKind ==
  ASSUME IInv, NEW m \in Late, HandleLate(m)
  PROVE  Kind /\ Candid
<1>1. PICK k \in {"reserve", "finalize", "abort"}, r \in Attempts : m = <<k, r>>
  BY DEF Late
<1>2. <<k, r>> \in late /\ m[1] = k /\ m[2] = r /\ UNCHANGED <<localVars, req, next, proc>>
  BY <1>1 DEF HandleLate
<1>3. /\ r < next
      /\ k = "abort" => Dead(r)
      /\ k = "finalize" => Durable(r)
  BY <1>2 DEF IInv, Shared, SentOnly, AbortsDead, FinalizesDurable
<1>4. Quiet \/ Granted(r) \/ Aborted(r) \/ Published(r)
  <2>1. CASE k = "reserve" /\ Grant(r)
    BY <1>2, <1>3, <2>1 DEF Granted, localVars
  <2>2. CASE k = "abort" /\ Abort(r)
    BY <1>2, <1>3, <2>2 DEF Aborted, localVars
  <2>3. CASE k = "finalize" /\ Finalize(r)
    BY <1>2, <1>3, <2>3, FinalizeKind
  <2>4. CASE UNCHANGED authorityVars
    BY <1>2, <2>4 DEF Quiet, localVars
  <2>5. QED
    BY <1>2, <2>1, <2>2, <2>3, <2>4 DEF HandleLate
<1>5. Candid
  BY <1>2 DEF Candid, At
<1>6. QED
  BY <1>4, <1>5 DEF Kind

\* Every step is of one of the kinds.
LEMMA Classified ==
  ASSUME IInv, [Next]_vars
  PROVE  Kind /\ Candid
<1>1. CASE UNCHANGED vars
  BY <1>1 DEF vars, Kind, Quiet, Candid, At, localVars
<1>2. CASE \E p \in Procs, d \in Dbs : CheckPending(p, d) \/ ListUnresolved(p, d)
  BY <1>2, ReadingKind DEF Kind
<1>3. CASE \E p \in Procs : Interrupted(p) \/ Crash(p)
  BY <1>3, ReadingKind DEF Kind
<1>4. CASE \E m \in Late : HandleLate(m)
  BY <1>4, LateKind
<1>5. CASE \E p \in Procs : ExecuteMutation(p) \/ Recover(p) \/ Reconcile(p)
  <2>1. PICK p \in Procs : ExecuteMutation(p) \/ Recover(p) \/ Reconcile(p)
    BY <1>5
  <2>2. QED
    BY <2>1, ReadingKind, WritingKind, CallKind
       DEF Kind, ExecuteMutation, Recover, Reconcile
<1>6. QED
  BY <1>1, <1>2, <1>3, <1>4, <1>5 DEF Next

-----------------------------------------------------------------------------
(* Each kind of step keeps the chains. *)

LEMMA ReqType ==
  ASSUME IInv
  PROVE  \A r \in Attempts : /\ req[r].global \in Heads /\ req[r].head \in Heads
                             /\ req[r].global.seq \in Nat /\ req[r].head.seq \in Nat
BY BoundsAssumption DEF IInv, TypeOK, Heads

LEMMA HeadType ==
  ASSUME IInv
  PROVE  /\ globalHead.seq \in Nat /\ globalHead.seq \in 0 .. MaxAttempts
         /\ \A d \in Dbs : dbHead[d].seq \in Nat
BY TypeFacts, BoundsAssumption DEF Heads

\* Whoever is about to commit keeps the reservation, unless it dies or is durable.
LEMMA EntitledKept ==
  ASSUME IInv, Chained, Candid,
         \A r \in Attempts : status[r] = "reserved" /\ status'[r] # "reserved"
           => Dead(r) \/ Durable(r)
  PROVE  \A p \in Procs : Entitled(p)'
<1> SUFFICES ASSUME NEW p \in Procs, At(p, "commit")'
             PROVE  status'[proc'[p].id] = "reserved"
  BY DEF Entitled
<1>1. CASE At(p, "commit") /\ proc'[p].id = proc[p].id
  <2> DEFINE r == proc[p].id
  <2>1. /\ r \in Attempts /\ status[r] = "reserved" /\ req[r].db = proc[p].db
        /\ Writing(p, r) /\ r \notin marker[proc[p].db]
    BY <1>1 DEF Chained, Entitled, IInv, Own, Located, Undecided, Writing, At
  <2>2. ~ Dead(r) /\ ~ Durable(r)
    BY <2>1 DEF Dead, Durable
  <2>3. QED
    BY <1>1, <2>1, <2>2
<1>2. QED
  BY <1>1 DEF Candid

LEMMA QuietChained ==
  ASSUME IInv, Chained, Quiet, Candid
  PROVE  Chained'
<1>1. /\ status' = status /\ globalHead' = globalHead /\ dbHead' = dbHead
      /\ marker' = marker /\ req' = req /\ next' = next
  BY DEF Quiet, authorityVars
<1>2. \A p \in Procs : Entitled(p)'
  BY <1>1, EntitledKept
<1>3. OneReserved' /\ GlobalChain'
  BY <1>1 DEF Chained, OneReserved, GlobalChain, OnCurrentHeads
<1>4. \A d \in Dbs : LocalChain(d)'
  BY <1>1 DEF Chained, LocalChain
<1>5. QED
  BY <1>2, <1>3, <1>4 DEF Chained

LEMMA SentChained ==
  ASSUME IInv, Chained, Sent, Candid
  PROVE  Chained'
<1>1. /\ status' = status /\ globalHead' = globalHead /\ dbHead' = dbHead
      /\ marker' = marker /\ next' = next + 1 /\ next \in Attempts
  BY DEF Sent, authorityVars
<1>2. /\ \A r \in Attempts : r # next => req'[r] = req[r]
      /\ req'[next].db \in Dbs
  BY <1>1 DEF Sent, IInv, TypeOK
<1>3. status[next] = "none" /\ \A d \in Dbs : next \notin marker[d]
  BY <1>1, TypeFacts DEF IInv, Shared, SentOnly
<1>4. \A p \in Procs : Entitled(p)'
  BY <1>1, EntitledKept
<1>5. OneReserved'
  <2>1. ASSUME NEW r \in Attempts, status[r] = "reserved" PROVE OnCurrentHeads(r)'
    BY <1>1, <1>2, <1>3, <2>1 DEF Chained, OneReserved, OnCurrentHeads
  <2>2. ASSUME NEW r \in Attempts, r < next + 1 PROVE req'[r].db \in Dbs
    <3>1. r < next \/ r = next
      BY <2>2, TypeFacts
    <3>2. r < next => r # next
      BY TypeFacts
    <3>3. QED
      BY <1>2, <3>1, <3>2 DEF Chained, OneReserved
  <2>3. QED
    BY <1>1, <2>1, <2>2 DEF Chained, OneReserved
<1>6. GlobalChain'
  <2>1. \A r \in Attempts : status[r] = "finalized" => req'[r] = req[r]
    BY <1>2, <1>3
  <2>2. QED
    BY <1>1, <2>1 DEF Chained, GlobalChain
<1>7. ASSUME NEW d \in Dbs PROVE LocalChain(d)'
  <2>1. \A m \in marker[d] : m \in Attempts /\ req'[m] = req[m]
    BY <1>2, <1>3, TypeFacts
  <2>2. QED
    BY <1>1, <2>1 DEF Chained, LocalChain
<1>8. QED
  BY <1>4, <1>5, <1>6, <1>7 DEF Chained

LEMMA CommitChained ==
  ASSUME IInv, Chained, NEW p \in Procs, Committing(p), Candid
  PROVE  Chained'
<1> DEFINE id == proc[p].id
<1>1. /\ status' = status /\ globalHead' = globalHead /\ dbHead' = dbHead
      /\ req' = req /\ next' = next
  BY DEF Committing, authorityVars
<1>2. /\ status[id] = "reserved"
      /\ \A d \in Dbs : /\ marker[d] \subseteq marker'[d]
                        /\ \A m \in marker'[d] : m \in marker[d] \/ m = id
  BY TypeFacts DEF Committing, Chained, Entitled
<1>3. \A q \in Procs : Entitled(q)'
  BY <1>1, EntitledKept
<1>4. OneReserved' /\ GlobalChain'
  BY <1>1 DEF Chained, OneReserved, GlobalChain, OnCurrentHeads
<1>5. \A d \in Dbs : LocalChain(d)'
  BY <1>1, <1>2 DEF Chained, LocalChain
<1>6. QED
  BY <1>3, <1>4, <1>5 DEF Chained

LEMMA GrantChained ==
  ASSUME IInv, Chained, NEW r \in Attempts, Granted(r), Candid
  PROVE  Chained'
<1>1. /\ globalHead' = globalHead /\ dbHead' = dbHead /\ marker' = marker
      /\ req' = req /\ next' = next /\ status[r] = "none" /\ OnCurrentHeads(r)
      /\ \A m \in Attempts : status[m] # "reserved"
  BY DEF Granted, Grant, CanReserve, Unresolved
<1>2. /\ status'[r] = "reserved" /\ \A m \in Attempts : m # r => status'[m] = status[m]
  BY TypeFacts DEF Granted, Grant
<1>3. \A q \in Procs : Entitled(q)'
  BY <1>1, <1>2, EntitledKept
<1>4. OneReserved'
  BY <1>1, <1>2 DEF Chained, OneReserved, OnCurrentHeads
<1>5. \A m \in Attempts : status'[m] = "finalized" <=> status[m] = "finalized"
  BY <1>1, <1>2
<1>6. GlobalChain'
  BY <1>1, <1>5 DEF Chained, GlobalChain
<1>7. \A d \in Dbs : LocalChain(d)'
  <2>1. \A d \in Dbs : r \notin marker[d] /\ \A m \in marker[d] : m \in Attempts
    BY <1>1, TypeFacts DEF Chained, LocalChain
  <2>2. QED
    BY <1>1, <1>2, <1>5, <2>1 DEF Chained, LocalChain
<1>8. QED
  BY <1>3, <1>4, <1>6, <1>7 DEF Chained

LEMMA AbortChained ==
  ASSUME IInv, Chained, NEW r \in Attempts, Aborted(r), Candid
  PROVE  Chained'
<1>1. /\ globalHead' = globalHead /\ dbHead' = dbHead /\ marker' = marker
      /\ req' = req /\ next' = next /\ status[r] = "reserved" /\ Dead(r)
  BY DEF Aborted, Abort
<1>2. /\ status'[r] = "aborted" /\ \A m \in Attempts : m # r => status'[m] = status[m]
  BY TypeFacts DEF Aborted, Abort
<1>3. \A q \in Procs : Entitled(q)'
  BY <1>1, <1>2, EntitledKept
<1>4. OneReserved'
  BY <1>1, <1>2 DEF Chained, OneReserved, OnCurrentHeads
<1>5. \A m \in Attempts : status'[m] = "finalized" <=> status[m] = "finalized"
  BY <1>1, <1>2
<1>6. GlobalChain'
  BY <1>1, <1>5 DEF Chained, GlobalChain
<1>7. \A d \in Dbs : LocalChain(d)'
  <2>1. \A d \in Dbs : r \notin marker[d] /\ \A m \in marker[d] : m \in Attempts
    BY <1>1, TypeFacts DEF Dead
  <2>2. QED
    BY <1>1, <1>2, <1>5, <2>1 DEF Chained, LocalChain
<1>8. QED
  BY <1>3, <1>4, <1>6, <1>7 DEF Chained

LEMMA PublishChained ==
  ASSUME IInv, Chained, NEW r \in Attempts, Published(r), Candid
  PROVE  Chained'
<1> DEFINE home == req[r].db
<1>1. /\ marker' = marker /\ req' = req /\ next' = next /\ status[r] = "reserved"
      /\ Durable(r) /\ home \in Dbs /\ r \in marker[home]
      /\ req[r].global = globalHead /\ req[r].head = dbHead[home]
      /\ \A m \in Attempts : status[m] = "reserved" => m = r
  BY DEF Published, Durable, Chained, OneReserved, OnCurrentHeads
<1>2. /\ status'[r] = "finalized" /\ \A m \in Attempts : m # r => status'[m] = status[m]
  BY TypeFacts DEF Published
<1>3. /\ globalHead'.seq = globalHead.seq + 1
      /\ dbHead'[home].seq = dbHead[home].seq + 1 /\ dbHead'[home].id = r
      /\ \A d \in Dbs : d # home => dbHead'[d] = dbHead[d]
  BY <1>1, TypeFacts DEF Published
<1>4. \A q \in Procs : Entitled(q)'
  BY <1>1, <1>2, EntitledKept
<1>5. OneReserved'
  BY <1>1, <1>2 DEF Chained, OneReserved
<1>6. GlobalChain'
  <2>1. \A m \in Attempts : status[m] = "finalized" => req[m].global.seq < globalHead.seq
    BY DEF Chained, GlobalChain
  <2>2. ASSUME NEW m \in Attempts, status'[m] = "finalized"
        PROVE  req[m].global.seq < globalHead.seq + 1
    BY <1>1, <1>2, <2>1, <2>2, ReqType, HeadType
  <2>3. ASSUME NEW m \in Attempts, NEW n \in Attempts, status'[m] = "finalized",
               status'[n] = "finalized", req[m].global.seq = req[n].global.seq
        PROVE  m = n
    <3>1. m # r /\ n # r => m = n
      BY <1>2, <2>3 DEF Chained, GlobalChain
    <3>2. m # r => req[m].global.seq < globalHead.seq
      BY <1>2, <2>1, <2>3
    <3>3. n # r => req[n].global.seq < globalHead.seq
      BY <1>2, <2>1, <2>3
    <3>4. req[r].global.seq = globalHead.seq
      BY <1>1
    <3>5. QED
      BY <2>3, <3>1, <3>2, <3>3, <3>4, ReqType, HeadType
  <2>4. ASSUME NEW i \in 1 .. globalHead.seq + 1
        PROVE  \E m \in Attempts : status'[m] = "finalized" /\ req[m].global.seq + 1 = i
    <3>1. CASE i = globalHead.seq + 1
      BY <1>1, <1>2, <3>1
    <3>2. CASE i # globalHead.seq + 1
      <4>1. i \in 1 .. globalHead.seq
        BY <3>2, HeadType
      <4>2. PICK m \in Attempts : status[m] = "finalized" /\ req[m].global.seq + 1 = i
        BY <4>1 DEF Chained, GlobalChain
      <4>3. m # r
        BY <1>1, <4>2
      <4>4. QED
        BY <1>2, <4>2, <4>3
    <3>3. QED
      BY <3>1, <3>2
  <2>5. QED
    BY <1>1, <1>3, <2>2, <2>3, <2>4 DEF GlobalChain
<1>7. ASSUME NEW d \in Dbs PROVE LocalChain(d)'
  <2>1. /\ LocalChain(d) /\ \A m \in marker[d] : m \in Attempts
    BY TypeFacts DEF Chained
  <2>2. CASE d # home
    <3>1. r \notin marker[d]
      BY <1>1, <2>2 DEF IInv, Shared, SentOnly
    <3>2. QED
      BY <1>1, <1>2, <1>3, <2>1, <2>2, <3>1 DEF LocalChain
  <2>3. CASE d = home
    <3>1. \A m \in marker[d] : status'[m] \in {"reserved", "finalized"}
      BY <1>2, <2>1 DEF LocalChain
    <3>2. ASSUME NEW m \in marker[d], status'[m] = "finalized", m # r
          PROVE  req[m].head.seq + 1 < dbHead[d].seq + 1
      <4>1. status[m] = "finalized" /\ m \in Attempts
        BY <1>2, <2>1, <3>2
      <4>2. \/ req[m].head.seq + 1 < dbHead[d].seq
            \/ req[m].head.seq + 1 = dbHead[d].seq
        <5>1. CASE m # dbHead[d].id
          BY <2>1, <4>1, <5>1 DEF LocalChain
        <5>2. CASE m = dbHead[d].id
          <6>1. m # 0
            BY <4>1 DEF Attempts
          <6>2. dbHead[d] # Genesis
            BY <5>2, <6>1 DEF Genesis
          <6>3. QED
            BY <2>1, <5>2, <6>2 DEF LocalChain
        <5>3. QED
          BY <5>1, <5>2
      <4>3. QED
        BY <4>1, <4>2, ReqType, HeadType
    <3>3. req[r].head.seq + 1 = dbHead[d].seq + 1
      BY <1>1, <2>3
    <3>4. QED
      BY <1>1, <1>2, <1>3, <2>3, <3>1, <3>2, <3>3 DEF LocalChain
  <2>4. QED
    BY <2>2, <2>3
<1>8. QED
  BY <1>4, <1>5, <1>6, <1>7 DEF Chained

LEMMA ChainedInit == Init => Chained
<1> SUFFICES ASSUME Init PROVE Chained
  OBVIOUS
<1>1. OneReserved
  BY BoundsAssumption DEF Init, OneReserved, Attempts
<1>2. GlobalChain
  <2>1. 1 .. globalHead.seq = {}
    BY DEF Init, Genesis
  <2>2. QED
    BY <2>1 DEF Init, GlobalChain
<1>3. (\A d \in Dbs : LocalChain(d)) /\ (\A p \in Procs : Entitled(p))
  BY DEF Init, LocalChain, Entitled, At, Idle, Fresh
<1>4. QED
  BY <1>1, <1>2, <1>3 DEF Chained

LEMMA ChainedStep == IInv /\ Chained /\ [Next]_vars => Chained'
BY Classified, QuietChained, SentChained, CommitChained, GrantChained, AbortChained,
   PublishChained DEF Kind

LEMMA ChainedHolds == Spec => [](IInv /\ Chained)
<1>1. Init => IInv /\ Chained
  BY InitInv, ChainedInit
<1>2. IInv /\ Chained /\ [Next]_vars => (IInv /\ Chained)'
  BY NextInv, ChainedStep
<1>3. QED
  BY <1>1, <1>2, PTL DEF Spec

-----------------------------------------------------------------------------
(* The heads agree. *)

LEMMA Agreement ==
  ASSUME IInv, Chained
  PROVE  ChainsAgree
<1> SUFFICES ASSUME NEW d \in Dbs
             PROVE  \/ LocalHead(d) = dbHead[d]
                    \/ \E r \in marker[d] :
                         /\ status[r] = "reserved" /\ LocalHead(d).id = r
                         /\ req[r].head = dbHead[d]
  BY DEF ChainsAgree
<1>1. LocalChain(d) /\ (\A m \in marker[d] : m \in Attempts /\ req[m].db = d)
  BY TypeFacts DEF Chained, IInv, Shared, SentOnly
<1>2. dbHead[d] \in Heads /\ dbHead[d].seq \in Nat
  BY TypeFacts, HeadType
<1> DEFINE Last(m) == \A n \in marker[d] : req[n].head.seq <= req[m].head.seq
           last == CHOOSE m \in marker[d] : Last(m)
\* The marker that is chosen, once there is one behind all others.
<1>3. ASSUME NEW r \in marker[d],
             \A n \in marker[d] : n # r => req[n].head.seq < req[r].head.seq
      PROVE  last = r
  <2>1. Last(r)
    BY <1>1, <1>3, ReqType
  <2>2. last \in marker[d] /\ Last(last)
    BY <2>1
  <2> HIDE DEF last
  <2>3. req[r].head.seq <= req[last].head.seq
    BY <2>2
  <2>4. last # r => req[last].head.seq < req[r].head.seq
    BY <1>3, <2>2
  <2>5. QED
    BY <1>1, <2>2, <2>3, <2>4, ReqType
<1>4. marker[d] # {} => LocalHead(d) = [seq |-> req[last].head.seq + 1, id |-> last]
  BY DEF LocalHead
<1> HIDE DEF last
<1>5. CASE \E r \in marker[d] : status[r] = "reserved"
  <2>1. PICK r \in marker[d] : status[r] = "reserved"
    BY <1>5
  <2>2. req[r].head = dbHead[d] /\ \A n \in marker[d] : n # r => status[n] = "finalized"
    BY <1>1, <2>1 DEF Chained, OneReserved, OnCurrentHeads, LocalChain
  <2>3. ASSUME NEW n \in marker[d], n # r PROVE req[n].head.seq < req[r].head.seq
    <3>1. status[n] = "finalized" /\ n \in Attempts /\ n # 0
      BY <1>1, <2>2, <2>3 DEF Attempts
    <3>2. n = dbHead[d].id => dbHead[d] # Genesis
      BY <3>1 DEF Genesis
    <3>3. \/ req[n].head.seq + 1 < dbHead[d].seq
          \/ req[n].head.seq + 1 = dbHead[d].seq
      BY <1>1, <3>1, <3>2 DEF LocalChain
    <3>4. QED
      BY <1>2, <2>2, <3>1, <3>3, ReqType
  <2>4. last = r
    BY <1>3, <2>3
  <2>5. LocalHead(d).id = r
    BY <1>4, <2>4
  <2>6. QED
    BY <2>1, <2>2, <2>5
<1>6. CASE ~ \E r \in marker[d] : status[r] = "reserved"
  <2>1. \A n \in marker[d] : status[n] = "finalized"
    BY <1>1, <1>6 DEF LocalChain
  <2>2. CASE marker[d] = {}
    BY <1>1, <2>2 DEF LocalChain, LocalHead
  <2>3. CASE marker[d] # {}
    <3> DEFINE r == dbHead[d].id
    <3>1. dbHead[d] # Genesis
      <4>1. SUFFICES ASSUME dbHead[d] = Genesis PROVE FALSE
        OBVIOUS
      <4>2. PICK n \in marker[d] : TRUE
        BY <2>3
      <4>3. n \in Attempts /\ n # dbHead[d].id /\ dbHead[d].seq = 0
        BY <1>1, <4>1 DEF Attempts, Genesis
      <4>4. req[n].head.seq + 1 < 0
        BY <1>1, <2>1, <4>3 DEF LocalChain
      <4>5. QED
        BY <4>3, <4>4, ReqType
    <3>2. r \in marker[d] /\ req[r].head.seq + 1 = dbHead[d].seq
      BY <1>1, <3>1 DEF LocalChain
    <3>3. ASSUME NEW n \in marker[d], n # r PROVE req[n].head.seq < req[r].head.seq
      <4>1. req[n].head.seq + 1 < dbHead[d].seq
        BY <1>1, <2>1, <3>3 DEF LocalChain
      <4>2. n \in Attempts /\ r \in Attempts
        BY <1>1, <3>2
      <4>3. QED
        BY <1>2, <3>2, <4>1, <4>2, ReqType
    <3>4. last = r
      BY <1>3, <3>2, <3>3
    <3>5. LocalHead(d) = [seq |-> dbHead[d].seq, id |-> dbHead[d].id]
      BY <1>4, <2>3, <3>2, <3>4
    <3>6. QED
      BY <1>2, <3>5 DEF Heads
  <2>4. QED
    BY <2>2, <2>3
<1>7. QED
  BY <1>5, <1>6

\* The markers of every database are the chain that the authority knows, or one
\* mutation ahead of it whose finalization is outstanding (ChainsAgree): however
\* reservations, commits, crashes, late requests and recoveries interleave, the
\* local and the external head never fork.
THEOREM ChainsNeverFork == Spec => []ChainsAgree
<1>1. IInv /\ Chained => ChainsAgree
  BY Agreement
<1>2. QED
  BY <1>1, ChainedHolds, PTL

-----------------------------------------------------------------------------
(* The refinement of MutationLog. *)

\* The mutation that stands at place i of the log.
Stands(r, i) == status[r] = "finalized" /\ req[r].global.seq + 1 = i

LEMMA LogEntry ==
  ASSUME IInv, Chained, NEW i \in 1 .. globalHead.seq, NEW r \in Attempts, Stands(r, i)
  PROVE  PublishedLog[i] = r
<1>1. PublishedLog[i] = CHOOSE m \in Attempts : Stands(m, i)
  BY DEF PublishedLog, Stands
<1> DEFINE e == CHOOSE m \in Attempts : Stands(m, i)
<1>2. e \in Attempts /\ Stands(e, i)
  OBVIOUS
<1> HIDE DEF e
<1>3. req[e].global.seq = req[r].global.seq
  BY <1>2, ReqType DEF Stands
<1>4. e = r
  BY <1>2, <1>3 DEF Chained, GlobalChain, Stands
<1>5. QED
  BY <1>1, <1>4 DEF e

LEMMA LogType ==
  ASSUME IInv, Chained
  PROVE  /\ PublishedLog \in Seq(Attempts) /\ Len(PublishedLog) = globalHead.seq
         /\ DOMAIN PublishedLog = 1 .. globalHead.seq
         /\ \A i \in 1 .. globalHead.seq :
              PublishedLog[i] \in Attempts /\ Stands(PublishedLog[i], i)
<1>1. globalHead.seq \in Nat
  BY HeadType
<1>2. DOMAIN PublishedLog = 1 .. globalHead.seq
  BY DEF PublishedLog
<1>3. ASSUME NEW i \in 1 .. globalHead.seq
      PROVE  PublishedLog[i] \in Attempts /\ Stands(PublishedLog[i], i)
  <2>1. PICK r \in Attempts : Stands(r, i)
    BY DEF Chained, GlobalChain, Stands
  <2>2. PublishedLog[i] = r
    BY <2>1, LogEntry
  <2>3. QED
    BY <2>1, <2>2
<1>4. PublishedLog \in [1 .. globalHead.seq -> Attempts]
  BY <1>3 DEF PublishedLog
<1>5. QED
  BY <1>1, <1>2, <1>3, <1>4, LenProperties

LogSound ==
  /\ PublishedLog \in Seq(Attempts) /\ Len(PublishedLog) = globalHead.seq
  /\ DOMAIN PublishedLog = 1 .. globalHead.seq
  /\ \A i \in 1 .. globalHead.seq :
       PublishedLog[i] \in Attempts /\ Stands(PublishedLog[i], i)
  /\ \A i \in 1 .. globalHead.seq, r \in Attempts : Stands(r, i) => PublishedLog[i] = r

LEMMA LogIsSound == IInv /\ Chained => LogSound
BY LogType, LogEntry DEF LogSound

\* A durable mutation is in the log or holds the one reservation.
LEMMA DurableStatus ==
  ASSUME IInv, Chained
  PROVE  /\ Committed \subseteq Attempts
         /\ \A r \in Unpublished : r \in Attempts /\ status[r] = "reserved"
<1>1. \A d \in Dbs : \A r \in marker[d] : r \in Attempts /\ status[r] \in {"reserved", "finalized"}
  BY TypeFacts DEF Chained, LocalChain
<1>2. QED
  BY <1>1 DEF Committed, Unpublished

\* A step that finalizes nothing leaves the log alone.
LEMMA LogKept ==
  ASSUME LogSound, LogSound', globalHead'.seq = globalHead.seq,
         \A r \in Attempts : status[r] = "finalized" => status'[r] = "finalized"
                                                        /\ req'[r] = req[r]
  PROVE  PublishedLog' = PublishedLog
<1>1. ASSUME NEW i \in 1 .. globalHead.seq PROVE PublishedLog'[i] = PublishedLog[i]
  <2>1. PICK r \in Attempts : r = PublishedLog[i] /\ Stands(r, i)
    BY DEF LogSound
  <2>2. Stands(r, i)'
    BY <2>1 DEF Stands
  <2>3. QED
    BY <2>1, <2>2 DEF LogSound
<1>2. QED
  BY <1>1 DEF LogSound

\* The mutation that is finalized comes last.
LEMMA LogGrows ==
  ASSUME IInv, Chained, LogSound, LogSound', NEW r \in Attempts, Published(r)
  PROVE  PublishedLog' = Append(PublishedLog, r)
<1>1. /\ req[r].global = globalHead /\ req' = req /\ status'[r] = "finalized"
      /\ globalHead'.seq = globalHead.seq + 1
      /\ \A m \in Attempts : status[m] = "finalized" => status'[m] = "finalized"
  BY TypeFacts DEF Published, Chained, OneReserved, OnCurrentHeads
<1>2. globalHead.seq \in Nat
  BY HeadType
<1>3. /\ Append(PublishedLog, r) \in Seq(Attempts)
      /\ Len(Append(PublishedLog, r)) = globalHead.seq + 1
      /\ \A i \in 1 .. globalHead.seq : Append(PublishedLog, r)[i] = PublishedLog[i]
      /\ Append(PublishedLog, r)[globalHead.seq + 1] = r
  BY AppendProperties DEF LogSound
<1>4. ASSUME NEW i \in 1 .. globalHead.seq + 1
      PROVE  PublishedLog'[i] = Append(PublishedLog, r)[i]
  <2>1. CASE i = globalHead.seq + 1
    <3>1. Stands(r, i)'
      BY <1>1, <2>1 DEF Stands
    <3>2. PublishedLog'[i] = r
      BY <1>1, <3>1 DEF LogSound
    <3>3. QED
      BY <1>3, <2>1, <3>2
  <2>2. CASE i # globalHead.seq + 1
    <3>1. i \in 1 .. globalHead.seq
      BY <1>2, <2>2
    <3>2. PICK m \in Attempts : m = PublishedLog[i] /\ Stands(m, i)
      BY <3>1 DEF LogSound
    <3>3. Stands(m, i)'
      BY <1>1, <3>2 DEF Stands
    <3>4. PublishedLog'[i] = PublishedLog[i]
      BY <1>1, <3>2, <3>3 DEF LogSound
    <3>5. QED
      BY <1>3, <3>1, <3>4
  <2>3. QED
    BY <2>1, <2>2
<1>5. PublishedLog' \in Seq(Attempts) /\ Len(PublishedLog') = globalHead.seq + 1
  BY <1>1 DEF LogSound
<1>6. QED
  <2>1. \A s, t \in Seq(Attempts) :
          Len(s) = Len(t) /\ (\A i \in 1 .. Len(s) : s[i] = t[i]) => s = t
    OBVIOUS
  <2>2. QED
    BY <1>3, <1>4, <1>5, <2>1

LEMMA LogInit == Init => Log!Init
<1> SUFFICES ASSUME Init PROVE Log!Init
  OBVIOUS
<1>1. PublishedLog = << >>
  <2>1. 1 .. globalHead.seq = {}
    BY DEF Init, Genesis
  <2>2. QED
    BY <2>1 DEF PublishedLog
<1>2. Unpublished = {}
  BY DEF Init, Unpublished, Committed
<1>3. QED
  BY <1>1, <1>2 DEF Log!Init

\* A COMMIT is a commit of the log: what was durable before is published.
LEMMA CommitIsCommit ==
  ASSUME IInv, Chained, LogSound, LogSound', NEW p \in Procs, Committing(p)
  PROVE  proc[p].id \in Attempts /\ Log!Commit(proc[p].id)
<1> DEFINE id == proc[p].id
           d == proc[p].db
<1>1. /\ id \in Attempts /\ status[id] = "reserved" /\ d \in Dbs /\ req[id].db = d
      /\ id \notin marker[d]
  BY DEF Committing, Chained, Entitled, IInv, Own, Located, Undecided, Writing, At
<1>2. /\ status' = status /\ globalHead' = globalHead /\ req' = req
      /\ marker'[d] = marker[d] \cup {id} /\ \A e \in Dbs : e # d => marker'[e] = marker[e]
  BY TypeFacts DEF Committing, authorityVars
<1>3. \A e \in Dbs : id \notin marker[e]
  BY <1>1 DEF IInv, Shared, SentOnly
<1>4. Unpublished = {}
  <2>1. \A r \in Unpublished : r = id
    BY <1>1, DurableStatus DEF Chained, OneReserved
  <2>2. id \notin Unpublished
    BY <1>3 DEF Unpublished, Committed
  <2>3. QED
    BY <2>1, <2>2
<1>5. Committed' = Committed \cup {id}
  BY <1>1, <1>2 DEF Committed
<1>6. Unpublished' = {id}
  BY <1>1, <1>2, <1>4, <1>5 DEF Unpublished
<1>7. \A i \in 1 .. globalHead.seq : PublishedLog[i] # id
  BY <1>1 DEF LogSound, Stands
<1>8. id \notin Log!Range(PublishedLog)
  BY <1>7 DEF LogSound, Log!Range
<1>9. PublishedLog' = PublishedLog
  BY <1>2, LogKept
<1>10. QED
  BY <1>1, <1>4, <1>6, <1>8, <1>9 DEF Log!Commit

\* A finalization publishes what is durable and unpublished.
LEMMA PublishIsPublish ==
  ASSUME IInv, Chained, LogSound, LogSound', NEW r \in Attempts, Published(r)
  PROVE  Log!Publish(r)
<1>1. /\ status[r] = "reserved" /\ marker' = marker /\ r \in Committed
      /\ status'[r] = "finalized" /\ \A m \in Attempts : m # r => status'[m] = status[m]
  BY TypeFacts DEF Published, Durable, Committed
<1>2. \A m \in Unpublished : m = r
  BY <1>1, DurableStatus DEF Chained, OneReserved
<1>3. r \in Unpublished
  BY <1>1 DEF Unpublished
<1>4. Unpublished' = {}
  <2>1. ASSUME NEW m \in Committed PROVE status'[m] = "finalized"
    <3>1. m \in Attempts /\ (status[m] = "finalized" \/ m \in Unpublished)
      BY DurableStatus DEF Unpublished
    <3>2. QED
      BY <1>1, <1>2, <3>1
  <2>2. Committed' = Committed
    BY <1>1 DEF Committed
  <2>3. QED
    BY <2>1, <2>2 DEF Unpublished
<1>5. QED
  BY <1>3, <1>4, LogGrows DEF Log!Publish

\* All other steps are not seen in the log.
LEMMA UnseenInLog ==
  ASSUME IInv, Chained, LogSound, LogSound',
         Quiet \/ Sent \/ \E r \in Attempts : Granted(r) \/ Aborted(r)
  PROVE  PublishedLog' = PublishedLog /\ Unpublished' = Unpublished
<1>1. globalHead' = globalHead /\ marker' = marker
  BY DEF Quiet, Sent, Granted, Aborted, Grant, Abort, authorityVars
<1>2. ASSUME NEW m \in Attempts PROVE status'[m] = "finalized" <=> status[m] = "finalized"
  BY TypeFacts DEF Quiet, Sent, Granted, Aborted, Grant, CanReserve, Abort, authorityVars
<1>3. ASSUME NEW m \in Attempts, status[m] = "finalized" PROVE req'[m] = req[m]
  <2>1. CASE Sent
    <3>1. status[next] = "none"
      BY <2>1, TypeFacts DEF Sent, IInv, Shared, SentOnly
    <3>2. QED
      BY <1>3, <2>1, <3>1 DEF Sent, IInv, TypeOK
  <2>2. CASE ~ Sent
    BY <2>2 DEF Quiet, Granted, Aborted
  <2>3. QED
    BY <2>1, <2>2
<1>4. PublishedLog' = PublishedLog
  BY <1>1, <1>2, <1>3, LogKept
<1>5. Committed' = Committed /\ Committed \subseteq Attempts
  BY <1>1, DurableStatus DEF Committed
<1>6. QED
  BY <1>2, <1>4, <1>5 DEF Unpublished

LEMMA LogStep ==
  IInv /\ Chained /\ LogSound /\ LogSound' /\ [Next]_vars
    => [Log!Next]_<<PublishedLog, Unpublished>>
<1> SUFFICES ASSUME IInv, Chained, LogSound, LogSound', [Next]_vars
             PROVE  [Log!Next]_<<PublishedLog, Unpublished>>
  OBVIOUS
<1>1. Kind
  BY Classified
<1>2. CASE \E p \in Procs : Committing(p)
  BY <1>2, CommitIsCommit DEF Log!Next
<1>3. CASE \E r \in Attempts : Published(r)
  BY <1>3, PublishIsPublish DEF Log!Next
<1>4. CASE Quiet \/ Sent \/ \E r \in Attempts : Granted(r) \/ Aborted(r)
  BY <1>4, UnseenInLog
<1>5. QED
  BY <1>1, <1>2, <1>3, <1>4 DEF Kind

\* Reserving, committing and finalizing over any number of databases and processes,
\* with every crash, lost reply and late request, implements one shared log in which
\* at most one mutation, of all databases, is durable and unpublished (ImplementsLog).
THEOREM MutationsImplementLog == Spec => ImplementsLog
<1>1. Spec => []LogSound
  BY LogIsSound, ChainedHolds, PTL
<1>2. QED
  BY <1>1, LogInit, LogStep, ChainedHolds, PTL DEF Spec, ImplementsLog, Log!Spec
=============================================================================
