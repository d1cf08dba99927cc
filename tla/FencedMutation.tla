---------------------------- MODULE FencedMutation ----------------------------
(***************************************************************************)
(* Externally fenced SQLite mutations: every write to a state database is  *)
(* reserved at an authority, committed locally together with a marker of   *)
(* the reservation, and finalized at the authority, which then permits its *)
(* side effects.  Several processes write several databases; processes     *)
(* die, requests and replies get lost, and a process that restarts (or the *)
(* state controller) reconciles a database with the authority.             *)
(*                                                                         *)
(* A call to the authority is a child process that sends one request to a  *)
(* server with one queue, so a call is one atomic step whose reply may be  *)
(* lost.  The child outlives a parent that is killed: its request may be   *)
(* handled later (late).                                                   *)
(***************************************************************************)
EXTENDS Integers, FiniteSets

CONSTANTS
  Dbs,            \* database instances of the scope
  Procs,          \* processes that open them
  NoProc,         \* the write lock of a database is free
  MaxAttempts,    \* bound on mutation attempts
  MaxFaults       \* bound on crashes, lost messages and failed statements

Attempts == 1 .. MaxAttempts
NoDb == "none"

ASSUME ScopeAssumption == NoProc \notin Procs /\ NoDb \notin Dbs
ASSUME BoundsAssumption == MaxAttempts \in Nat /\ MaxFaults \in Nat

\* A head of a chain: its sequence number and the mutation it stands for, which
\* is what the hash of a head identifies.
Genesis == [seq |-> 0, id |-> 0]
Heads == [seq : 0 .. MaxAttempts, id : 0 .. MaxAttempts]

PCs == {"idle", "observe", "local", "begin", "apply", "reserve", "resolve",
        "commit", "abort", "finalize", "record", "rows", "recover", "recovered",
        "inspect", "remove", "revoke"}
Late == {"reserve", "finalize", "abort"} \X Attempts

\* What a process remembers of the call it is in: the heads it saw, the attempt it
\* is at, the rows it still has to handle, the reservations it found no marker of.
Memory == [pc : PCs, job : {"execute", "reconcile"}, db : Dbs \cup {NoDb},
           id : 0 .. MaxAttempts, global : Heads, head : Heads,
           todo : SUBSET Attempts, absent : SUBSET Attempts]

VARIABLES
  status,     \* authority_mutation.status of each attempt
  req,        \* the reserve request of each attempt
  globalHead, \* authority_metadata
  dbHead,     \* authority_database_head
  marker,     \* authority_marker rows of each database
  receipts,   \* finalization_receipt rows of all databases
  lock,       \* write lock of each database
  next,       \* the next mutationAttemptId
  proc,       \* memory of each process
  late,       \* requests whose sender was killed
  faults      \* faults so far

authorityVars == <<status, globalHead, dbHead>>
localVars == <<marker, receipts>>
vars == <<authorityVars, localVars, req, lock, next, proc, late, faults>>

\* A call that begins, and a process that is in none.
Fresh(d, job, pc, todo) ==
  [pc |-> pc, job |-> job, db |-> d, id |-> 0, global |-> Genesis,
   head |-> Genesis, todo |-> todo, absent |-> {}]
Idle == Fresh(NoDb, "execute", "idle", {})

TypeOK ==
  /\ status \in [Attempts -> {"none", "reserved", "finalized", "aborted"}]
  /\ req \in [Attempts ->
       [db : Dbs \cup {NoDb}, global : Heads, head : Heads]]
  /\ globalHead \in Heads /\ dbHead \in [Dbs -> Heads]
  /\ marker \in [Dbs -> SUBSET Attempts] /\ receipts \subseteq Attempts
  /\ lock \in [Dbs -> Procs \cup {NoProc}]
  /\ next \in 1 .. MaxAttempts + 1
  /\ proc \in [Procs -> Memory]
  /\ late \subseteq Late /\ faults \in 0 .. MaxFaults

Init ==
  /\ status = [r \in Attempts |-> "none"]
  /\ req = [r \in Attempts |-> [db |-> NoDb, global |-> Genesis, head |-> Genesis]]
  /\ globalHead = Genesis /\ dbHead = [d \in Dbs |-> Genesis]
  /\ marker = [d \in Dbs |-> {}] /\ receipts = {}
  /\ lock = [d \in Dbs |-> NoProc]
  /\ next = 1 /\ proc = [p \in Procs |-> Idle]
  /\ late = {} /\ faults = 0

-----------------------------------------------------------------------------
(* The authority. *)

Unresolved == {r \in Attempts : status[r] = "reserved"}

\* The request was built on the heads the authority has now.
OnCurrentHeads(r) == req[r].global = globalHead /\ req[r].head = dbHead[req[r].db]

\* UNIQUE global_sequence of authority_mutation, whose rows, aborted ones too,
\* are never deleted.
SequenceUnused(r) ==
  \A m \in Attempts : status[m] # "none" => req[m].global.seq # req[r].global.seq

\* Mutant: several reservations may be outstanding.
CanReserveBeside(r) == status[r] = "none" /\ OnCurrentHeads(r)

\* reserveMutation refuses while any reservation is outstanding, when the request
\* was built on another global or database head, and when the INSERT fails.
CanReserve(r) ==
  /\ status[r] = "none" /\ Unresolved = {}
  /\ OnCurrentHeads(r) /\ SequenceUnused(r)

Grant(r) ==
  /\ CanReserve(r)
  /\ status' = [status EXCEPT ![r] = "reserved"]
  /\ UNCHANGED <<globalHead, dbHead>>

\* Mutant: a repeated finalization moves the heads again.
FinalizeAgain(r) ==
  /\ status[r] \in {"reserved", "finalized"}
  /\ status' = [status EXCEPT ![r] = "finalized"]
  /\ globalHead' = [seq |-> globalHead.seq + 1, id |-> r]
  /\ dbHead' = [dbHead EXCEPT ![req[r].db] = [seq |-> @.seq + 1, id |-> r]]

\* finalizeMutation: the reservation becomes the head of both chains; the same
\* request again returns the stored receipt.
Finalize(r) ==
  \/ /\ status[r] = "reserved"
     /\ status' = [status EXCEPT ![r] = "finalized"]
     /\ globalHead' = [seq |-> req[r].global.seq + 1, id |-> r]
     /\ dbHead' = [dbHead EXCEPT ![req[r].db] =
                     [seq |-> req[r].head.seq + 1, id |-> r]]
  \/ status[r] = "finalized" /\ UNCHANGED authorityVars

\* abortMutation.
Abort(r) ==
  /\ status[r] = "reserved"
  /\ status' = [status EXCEPT ![r] = "aborted"]
  /\ UNCHANGED <<globalHead, dbHead>>

-----------------------------------------------------------------------------
(* Local databases and the memory of a process. *)

\* latestLocalHead: the marker with the largest database_sequence.
LocalHead(d) ==
  IF marker[d] = {} THEN Genesis
  ELSE LET r == CHOOSE m \in marker[d] :
                  \A n \in marker[d] : req[n].head.seq <= req[m].head.seq
       IN [seq |-> req[r].head.seq + 1, id |-> r]

\* pendingFinalizationCount and the rows recovery reads.
Pending(d) == marker[d] \ receipts

At(p, pc) == proc[p].pc = pc
Goto(p, pc) == proc' = [proc EXCEPT ![p].pc = pc]
Quit(p) == proc' = [proc EXCEPT ![p] = Idle]
Start(p, d, job, pc, todo) ==
  proc' = [proc EXCEPT ![p] = Fresh(d, job, pc, todo)]
See(p, pc, global, head) ==
  proc' = [proc EXCEPT ![p] = [@ EXCEPT !.pc = pc, !.global = global, !.head = head]]
Take(p, pc, r) == proc' = [proc EXCEPT ![p] = [@ EXCEPT !.pc = pc, !.id = r]]
Work(p, pc, todo) == proc' = [proc EXCEPT ![p] = [@ EXCEPT !.pc = pc, !.todo = todo]]
Find(p, pc, absent) ==
  proc' = [proc EXCEPT ![p] = [@ EXCEPT !.pc = pc, !.todo = {}, !.absent = absent]]
Unlock(d) == lock' = [lock EXCEPT ![d] = NoProc]
Fault == faults < MaxFaults /\ faults' = faults + 1

-----------------------------------------------------------------------------
(* executeMutation. *)

\* A marker without receipt is recovered before anything else.
CheckPending(p, d) ==
  /\ At(p, "idle") /\ (Pending(d) # {} \/ next <= MaxAttempts)
  /\ Start(p, d, "execute", IF Pending(d) = {} THEN "observe" ELSE "rows", {})
  /\ UNCHANGED <<authorityVars, localVars, req, lock, next, late, faults>>

\* observeCurrentHead; its receipt is refused while a reservation is outstanding.
ObserveCurrentHead(p) ==
  /\ At(p, "observe")
  /\ IF Unresolved = {}
     THEN See(p, "local", globalHead, dbHead[proc[p].db]) ELSE Quit(p)
  /\ UNCHANGED <<authorityVars, localVars, req, lock, next, late, faults>>

\* matchingAuthorityDatabaseHead.
MatchLocalHead(p) ==
  /\ At(p, "local")
  /\ IF LocalHead(proc[p].db) = proc[p].head THEN Goto(p, "begin") ELSE Quit(p)
  /\ UNCHANGED <<authorityVars, localVars, req, lock, next, late, faults>>

\* BEGIN IMMEDIATE, which fails when the lock stays busy, and the second look
\* at the local head.
BeginImmediate(p) ==
  LET d == proc[p].db IN
  /\ At(p, "begin")
  /\ IF lock[d] = NoProc /\ LocalHead(d) = proc[p].head
     THEN lock' = [lock EXCEPT ![d] = p] /\ Goto(p, "apply")
     ELSE UNCHANGED lock /\ Quit(p)
  /\ UNCHANGED <<authorityVars, localVars, req, next, late, faults>>

\* The callback changed nothing, or failed: ROLLBACK.
NoChange(p) ==
  /\ At(p, "apply")
  /\ Unlock(proc[p].db) /\ Quit(p)
  /\ UNCHANGED <<authorityVars, localVars, req, next, late, faults>>

\* The reserve request, built on the heads seen, under a new attempt id.
SendReserve(p) ==
  /\ At(p, "apply") /\ next <= MaxAttempts
  /\ req' = [req EXCEPT ![next] = [db |-> proc[p].db,
       global |-> proc[p].global, head |-> proc[p].head]]
  /\ next' = next + 1
  /\ Take(p, "reserve", next)
  /\ UNCHANGED <<authorityVars, localVars, lock, late, faults>>

\* The reservation, a refusal, or a request or reply that got lost: the last
\* two go on to resolveMutationAttempt.
ReserveMutation(p) ==
  LET r == proc[p].id IN
  /\ At(p, "reserve")
  /\ \/ Grant(r) /\ Goto(p, "commit") /\ UNCHANGED faults
     \/ /\ ~ CanReserve(r)
        /\ Goto(p, "resolve") /\ UNCHANGED <<authorityVars, faults>>
     \/ /\ Fault /\ Goto(p, "resolve")
        /\ Grant(r) \/ UNCHANGED authorityVars
  /\ UNCHANGED <<localVars, req, lock, next, late>>

\* resolveMutationAttempt: go on with a reservation that was made; otherwise
\* roll back, also when the resolution fails and the reservation stays behind.
ResolveMutationAttempt(p) ==
  /\ At(p, "resolve")
  /\ \/ /\ status[proc[p].id] = "reserved"
        /\ Goto(p, "commit") /\ UNCHANGED <<lock, faults>>
     \/ /\ status[proc[p].id] # "reserved"
        /\ Unlock(proc[p].db) /\ Quit(p) /\ UNCHANGED faults
     \/ Fault /\ Unlock(proc[p].db) /\ Quit(p)
  /\ UNCHANGED <<authorityVars, localVars, req, next, late>>

\* UNIQUE(database_instance_id, database_sequence), UNIQUE(global_sequence).
MarkerFits(d, r) ==
  \A m \in marker[d] : /\ req[m].head.seq # req[r].head.seq
                       /\ req[m].global.seq # req[r].global.seq

\* insertMarker and COMMIT.
Commit(p) ==
  LET d == proc[p].db IN
  /\ At(p, "commit") /\ MarkerFits(d, proc[p].id)
  /\ marker' = [marker EXCEPT ![d] = @ \cup {proc[p].id}]
  /\ Unlock(d) /\ Goto(p, "finalize")
  /\ UNCHANGED <<authorityVars, receipts, req, next, late, faults>>

\* Mutant: an unknown COMMIT is treated as if it had succeeded.
CommitAssumed(p) ==
  LET d == proc[p].db IN
  /\ At(p, "commit") /\ MarkerFits(d, proc[p].id) /\ Fault
  /\ marker' \in {marker, [marker EXCEPT ![d] = @ \cup {proc[p].id}]}
  /\ Unlock(d) /\ Goto(p, "finalize")
  /\ UNCHANGED <<authorityVars, receipts, req, next, late>>

\* COMMIT throws: durable or not, the call ends and nothing is aborted.
CommitOutcomeUnknown(p) ==
  LET d == proc[p].db IN
  /\ At(p, "commit") /\ MarkerFits(d, proc[p].id) /\ Fault
  /\ marker' \in {marker, [marker EXCEPT ![d] = @ \cup {proc[p].id}]}
  /\ Unlock(d) /\ Quit(p)
  /\ UNCHANGED <<authorityVars, receipts, req, next, late>>

\* The reservation is about to expire or the marker is refused: ROLLBACK.
GiveUp(p) ==
  /\ At(p, "commit")
  /\ Unlock(proc[p].db) /\ Goto(p, "abort")
  /\ UNCHANGED <<authorityVars, localVars, req, next, late, faults>>

\* abortMutation after the rollback; whatever comes of it, the call ends.
AbortMutation(p) ==
  LET r == proc[p].id IN
  /\ At(p, "abort")
  /\ \/ Abort(r) /\ UNCHANGED faults
     \/ status[r] # "reserved" /\ UNCHANGED <<authorityVars, faults>>
     \/ Fault /\ (Abort(r) \/ UNCHANGED authorityVars)
  /\ Quit(p)
  /\ UNCHANGED <<localVars, req, lock, next, late>>

\* finalizeMutation by the process that committed.
FinalizeMutation(p) ==
  LET r == proc[p].id IN
  /\ At(p, "finalize")
  /\ \/ Finalize(r) /\ Goto(p, "record") /\ UNCHANGED faults
     \/ status[r] = "aborted" /\ Quit(p) /\ UNCHANGED <<authorityVars, faults>>
     \/ Fault /\ Quit(p) /\ (Finalize(r) \/ UNCHANGED authorityVars)
  /\ UNCHANGED <<localVars, req, lock, next, late>>

\* recordExternallyFencedSqliteMutationFinalization; a busy database fails it.
RecordFinalization(p) ==
  /\ At(p, "record")
  /\ receipts' = IF lock[proc[p].db] = NoProc
                 THEN receipts \cup {proc[p].id} ELSE receipts
  /\ Quit(p)
  /\ UNCHANGED <<authorityVars, marker, req, lock, next, late, faults>>

-----------------------------------------------------------------------------
(* recoverExternallyFencedSqliteMutations. *)

\* The rows without receipt, read after the caller's own look at the markers.
ReadPending(p) ==
  /\ At(p, "rows")
  /\ Work(p, "recover", Pending(proc[p].db))
  /\ UNCHANGED <<authorityVars, localVars, req, lock, next, late, faults>>

\* The next marker in the order of database_sequence is finalized ...
RecoverFinalize(p) ==
  /\ At(p, "recover")
  /\ \E r \in proc[p].todo :
       /\ \A m \in proc[p].todo : req[r].head.seq <= req[m].head.seq
       /\ \/ Finalize(r) /\ Take(p, "recovered", r) /\ UNCHANGED faults
          \/ status[r] = "aborted" /\ Quit(p) /\ UNCHANGED <<authorityVars, faults>>
          \/ Fault /\ Quit(p) /\ (Finalize(r) \/ UNCHANGED authorityVars)
  /\ UNCHANGED <<localVars, req, lock, next, late>>

\* ... and recorded.
RecoverRecord(p) ==
  /\ At(p, "recovered")
  /\ IF lock[proc[p].db] = NoProc
     THEN /\ receipts' = receipts \cup {proc[p].id}
          /\ Work(p, "recover", proc[p].todo \ {proc[p].id})
     ELSE UNCHANGED receipts /\ Quit(p)
  /\ UNCHANGED <<authorityVars, marker, req, lock, next, late, faults>>

\* After the last row, executeMutation asks its caller to retry and the
\* reconciliation goes on to the reservations without marker.
RecoverDone(p) ==
  /\ At(p, "recover") /\ proc[p].todo = {}
  /\ IF proc[p].job = "reconcile" /\ proc[p].absent # {}
     THEN Goto(p, "remove") ELSE Quit(p)
  /\ UNCHANGED <<authorityVars, localVars, req, lock, next, late, faults>>

-----------------------------------------------------------------------------
(* reconcileAutonomousResearchOnlineMutationDatabaseStartup. *)

\* listUnresolvedMutations of the database.
ListUnresolved(p, d) ==
  /\ At(p, "idle")
  /\ Start(p, d, "reconcile", "inspect", {r \in Unresolved : req[r].db = d})
  /\ UNCHANGED <<authorityVars, localVars, req, lock, next, late, faults>>

\* Mutant: reservations without a marker are left alone.
InspectMarkersOnly(p) ==
  /\ At(p, "inspect")
  /\ IF proc[p].todo \cap receipts # {} THEN Quit(p)
     ELSE Find(p, "rows", {})
  /\ UNCHANGED <<authorityVars, localVars, req, lock, next, late, faults>>

\* markerState of every listed reservation.
InspectMarkers(p) ==
  /\ At(p, "inspect")
  /\ IF proc[p].todo \cap receipts # {} THEN Quit(p)
     ELSE Find(p, "rows", proc[p].todo \ marker[proc[p].db])
  /\ UNCHANGED <<authorityVars, localVars, req, lock, next, late, faults>>

\* Mutant: the reservation is removed without another look at the database.
RemoveUnseen(p) ==
  LET d == proc[p].db IN
  /\ At(p, "remove")
  /\ lock[d] = NoProc /\ lock' = [lock EXCEPT ![d] = p] /\ Goto(p, "revoke")
  /\ UNCHANGED <<authorityVars, localVars, req, next, late, faults>>

\* abortProvenRemoteOnlyReservation takes the write lock and looks again: the
\* marker must still be absent and the local head the one reserved on.
RemoveBegin(p) ==
  LET d == proc[p].db IN
  /\ At(p, "remove")
  /\ IF lock[d] = NoProc /\ \A r \in proc[p].absent :
          r \notin marker[d] /\ LocalHead(d) = req[r].head
     THEN lock' = [lock EXCEPT ![d] = p] /\ Goto(p, "revoke")
     ELSE UNCHANGED lock /\ Quit(p)
  /\ UNCHANGED <<authorityVars, localVars, req, next, late, faults>>

\* ... and aborts the reservation before it lets the lock go.
Revoke(p) ==
  /\ At(p, "revoke")
  /\ \E r \in proc[p].absent :
       \/ Abort(r) /\ UNCHANGED faults
       \/ status[r] # "reserved" /\ UNCHANGED <<authorityVars, faults>>
       \/ Fault /\ (Abort(r) \/ UNCHANGED authorityVars)
  /\ Unlock(proc[p].db) /\ Quit(p)
  /\ UNCHANGED <<localVars, req, next, late>>

-----------------------------------------------------------------------------
(* Faults. *)

\* A read of the authority or a local statement fails and the call throws.
Interrupted(p) ==
  /\ Fault /\ proc[p].pc \in {"observe", "record", "recovered", "inspect"}
  /\ Quit(p)
  /\ UNCHANGED <<authorityVars, localVars, req, lock, next, late>>

\* The request a process has sent and whose child process outlives it.
InFlight(p) ==
  CASE At(p, "reserve") -> {<<"reserve", proc[p].id>>}
    [] At(p, "finalize") -> {<<"finalize", proc[p].id>>}
    [] At(p, "abort") -> {<<"abort", proc[p].id>>}
    [] At(p, "revoke") -> {"abort"} \X proc[p].absent
    [] At(p, "recover") -> {"finalize"} \X proc[p].todo
    [] OTHER -> {}

\* A process dies; its transaction is rolled back and its lock freed.
Crash(p) ==
  /\ Fault /\ ~ At(p, "idle")
  /\ lock' = [d \in Dbs |-> IF lock[d] = p THEN NoProc ELSE lock[d]]
  /\ \/ UNCHANGED late
     \/ \E m \in InFlight(p) : late' = late \cup {m}
  /\ Quit(p)
  /\ UNCHANGED <<authorityVars, localVars, req, next>>

\* The authority handles a request whose sender is gone.
HandleLate(m) ==
  /\ m \in late /\ late' = late \ {m}
  /\ \/ m[1] = "reserve" /\ Grant(m[2])
     \/ m[1] = "finalize" /\ Finalize(m[2])
     \/ m[1] = "abort" /\ Abort(m[2])
     \/ UNCHANGED authorityVars
  /\ UNCHANGED <<localVars, req, lock, next, proc, faults>>

-----------------------------------------------------------------------------
(* The specification. *)

ExecuteMutation(p) ==
  \/ ObserveCurrentHead(p) \/ MatchLocalHead(p) \/ BeginImmediate(p)
  \/ NoChange(p) \/ SendReserve(p) \/ ReserveMutation(p)
  \/ ResolveMutationAttempt(p) \/ Commit(p) \/ CommitOutcomeUnknown(p)
  \/ GiveUp(p) \/ AbortMutation(p) \/ FinalizeMutation(p)
  \/ RecordFinalization(p)

Recover(p) == ReadPending(p) \/ RecoverFinalize(p) \/ RecoverRecord(p) \/ RecoverDone(p)

Reconcile(p) == InspectMarkers(p) \/ RemoveBegin(p) \/ Revoke(p)

Next ==
  \/ \E p \in Procs, d \in Dbs : CheckPending(p, d) \/ ListUnresolved(p, d)
  \/ \E p \in Procs : ExecuteMutation(p) \/ Recover(p) \/ Reconcile(p)
  \/ \E p \in Procs : Interrupted(p) \/ Crash(p)
  \/ \E m \in Late : HandleLate(m)

Spec == Init /\ [][Next]_vars

-----------------------------------------------------------------------------
(* Safety. *)

\* The database named by a committed mutation.
Committed == UNION {marker[d] : d \in Dbs}

\* A reservation the authority has aborted is not, and will not become, durable in
\* any database: neither the writer's own abort nor a reconciliation that runs
\* beside it can overtake a commit (GiveUp, abortProvenRemoteOnlyReservation).
AbortedNeverCommitted == \A r \in Committed : status[r] # "aborted"

\* The authority permits the side effects of a mutation, and a receipt of that
\* permission is stored, only when the mutation is durable in its database.
PermitOnlyWhenCommitted ==
  /\ \A r \in Attempts : status[r] = "finalized" => r \in marker[req[r].db]
  /\ \A r \in receipts : status[r] = "finalized"

\* The chain of markers of a database is the chain the authority knows, or it
\* is longer by the one mutation whose finalization is outstanding: the local
\* and the external head never fork, so a database can always go on.
ChainsAgree ==
  \A d \in Dbs :
    \/ LocalHead(d) = dbHead[d]
    \/ \E r \in marker[d] :
         /\ status[r] = "reserved" /\ LocalHead(d).id = r /\ req[r].head = dbHead[d]

\* An aborted reservation no longer blocks the scope: a request that is built on
\* the current heads, while nothing is unresolved, is reserved.  The documents
\* reserve "blocks startup" for head drift and commit ambiguity; reserveMutation
\* inserts the aborted row's global_sequence a second time.
AbortedNeverBlocks ==
  \A p \in Procs : LET r == proc[p].id IN
    At(p, "reserve") /\ status[r] = "none" /\ Unresolved = {} /\ OnCurrentHeads(r)
      => CanReserve(r)

-----------------------------------------------------------------------------
(* One shared log: the refinement. *)

\* The finalized mutations in the order of the global sequence.
PublishedLog ==
  [i \in 1 .. globalHead.seq |->
     CHOOSE r \in Attempts : status[r] = "finalized" /\ req[r].global.seq + 1 = i]

Unpublished == {r \in Committed : status[r] # "finalized"}

Log == INSTANCE MutationLog
         WITH Mutations <- Attempts, log <- PublishedLog, pending <- Unpublished

\* Reserving, committing and finalizing over several databases, with all their
\* failures, implements the one log that promises at most one unpublished mutation.
ImplementsLog == Log!Spec

-----------------------------------------------------------------------------
(* Progress. *)

\* A process goes on with what it is doing, a dead one is restarted, every database
\* is reconciled again and again (by restarts and by the state controller).
Fairness ==
  /\ \A p \in Procs : WF_vars(ExecuteMutation(p) \/ Recover(p) \/ Reconcile(p))
  /\ \A d \in Dbs : SF_vars(\E p \in Procs : ListUnresolved(p, d))

FairSpec == Spec /\ Fairness

\* A reservation never blocks the scope for ever: it is finalized or aborted,
\* however its process died (startup reconciliation, recovery).
ReservationsResolved ==
  \A r \in Attempts : status[r] = "reserved" ~> status[r] # "reserved"

=============================================================================
