---------------------------- MODULE Recoverability ----------------------------
(***************************************************************************)
(* The recoverability controller of a resident process.  External side     *)
(* effects are permitted only while the last restore drill covers every    *)
(* mutation that the process has finalized; mutations mark the epoch       *)
(* dirty, and reconcile() settles what they left pending, observes the     *)
(* authority's head and drills the backup again until the epoch is clean.  *)
(*                                                                         *)
(* reconcile() is an async function that several callers share: they join  *)
(* the run in flight, or chain a run of their own behind it when they need *)
(* a longer validity.  A step goes from one await to the next; between     *)
(* them the process itself and other processes mutate the databases, and a *)
(* renewal unit replaces the backup.                                       *)
(***************************************************************************)
EXTENDS Integers, FiniteSets

CONSTANTS
  Callers,        \* flows of the process that call reconcile
  NoCaller,       \* no run is in flight
  Validity,       \* requiredValidityMs of each caller
  OwnMutations,   \* bound on the mutations of this process
  MaxTroubles     \* bound on faults and on what other processes do

ASSUME CallersAssumption ==
  NoCaller \notin Callers /\ Validity \in [Callers -> Nat]
ASSUME RecoverabilityBounds == OwnMutations \in Nat /\ MaxTroubles \in Nat

\* Heads are known by their global sequence, which their hashes follow.
Heads == 0 .. OwnMutations + MaxTroubles
None == 0 - 1
Unknown == 0 - 2

Fatal == {"no", "resident_lease_lost", "finalized_head_conflict",
          "verified_head_rollback", "authority_rollback", "journal_publish_invalid",
          "fresh_snapshot_publish_invalid", "pending_finalization_required"}

\* Where a run stands: the await it is in.
Runs == {"lease", "pending", "inspecting", "recording", "sources", "observe",
         "judge", "drill", "publish", "settle", "renew", "renewInspect",
         "renewed", "resettle"}
PCs == Runs \cup {"idle", "joined", "chained", "starting", "returned", "thrown"}

\* A backup bundle and its restore drill: the head the drill reached, and which
\* drill it was.
Bundles == [bundle : Nat, head : Heads, drill : Nat]
FirstBundle == [bundle |-> 0, head |-> 0, drill |-> 0]

VARIABLES
  head,       \* the authority's head: the last finalized mutation
  pending,    \* a mutation of this process whose outcome it does not know
  published,  \* the latest drilled bundle
  drills,     \* drills so far
  aged,       \* it is missing or due for a fresh snapshot
  epoch,      \* the controller's verifiedHead, dirtyHead, requirements, fatal
  inFlight,   \* the caller whose run is in flight
  run,        \* of each caller: its await and what it has read
  finalized,  \* the last head that this process was told is finalized
  own,        \* mutations of this process so far
  troubles    \* faults and steps of other processes so far

databases == <<head, pending, finalized, own>>
backup == <<published, drills, aged>>
calls == <<inFlight, run>>
vars == <<databases, backup, epoch, calls, troubles>>

\* The rows a failed mutation leaves: a remote reservation, a committed marker,
\* or a marker whose finalization the authority has recorded as head seq.
Settled == [kind |-> "none", seq |-> 0]
Pendings == [kind : {"none", "reserved", "committed", "finalized"}, seq : Heads]

Idle == [pc |-> "idle", on |-> NoCaller, source |-> FirstBundle, live |-> 0,
         drilled |-> FirstBundle, found |-> {}]

Init ==
  /\ head = 0 /\ pending = Settled
  /\ published = FirstBundle /\ drills = 0 /\ aged \in BOOLEAN
  /\ \E v \in {0, None} :
       /\ v = None => aged
       /\ epoch = [verified |-> v, dirty |-> IF v = None THEN Unknown ELSE None,
                  required |-> FALSE, fatal |-> "no"]
  /\ inFlight = NoCaller /\ run = [c \in Callers |-> Idle]
  /\ finalized = 0 /\ own = 0 /\ troubles = 0

-----------------------------------------------------------------------------
(* What marks and receipts do to the epoch.                                *)

enterFatal(e, why) == [e EXCEPT !.fatal = why]

recordFinalizedHead(e, n) ==
  LET previous == IF e.dirty = Unknown THEN e.verified ELSE e.dirty
  IN  IF e.fatal # "no" THEN e
      ELSE IF n < previous THEN enterFatal(e, "finalized_head_conflict")
      ELSE [e EXCEPT !.dirty = IF n = e.verified THEN None ELSE n]

NotCovered(e, n) == n < e.dirty
ReadyWhateverIsDirty(e, n) ==
  IF n < e.verified THEN enterFatal(e, "verified_head_rollback")
  ELSE [e EXCEPT !.verified = n, !.dirty = None]
ready(e, n) ==
  IF NotCovered(e, n) THEN e
  ELSE IF n < e.verified THEN enterFatal(e, "verified_head_rollback")
  ELSE [e EXCEPT !.verified = n, !.dirty = None]

-----------------------------------------------------------------------------
(* The mutations of this process: executeMutation is synchronous, so each  *)
(* is one step of the process.                                             *)

Tell(n) == finalized' = IF n > finalized THEN n ELSE finalized

\* A mutation that finalizes.  Reservations wait for an outstanding one.
Mutate ==
  /\ own < OwnMutations /\ pending.kind \notin {"reserved", "committed"}
  /\ own' = own + 1 /\ head' = head + 1
  /\ Tell(head') /\ epoch' = recordFinalizedHead(epoch, head')
  /\ UNCHANGED <<pending, backup, calls, troubles>>

\* A mutation that ends in controlOutcome: its reservation could not be aborted,
\* it is committed and not finalized, or the reply of its finalization is lost.
markMutationReconciliationRequired ==
  IF epoch.fatal # "no" THEN epoch ELSE [epoch EXCEPT !.required = TRUE]
MutationFails ==
  /\ own < OwnMutations /\ pending = Settled
  /\ own' = own + 1
  /\ \/ \E kind \in {"reserved", "committed"} :
          pending' = [kind |-> kind, seq |-> 0] /\ UNCHANGED head
     \/ /\ head' = head + 1
        /\ pending' = [kind |-> "finalized", seq |-> head + 1]
  /\ epoch' = markMutationReconciliationRequired
  /\ UNCHANGED <<finalized, backup, calls, troubles>>

\* What a reconciliation of the databases does: it finalizes what is committed,
\* aborts what is only reserved, and tells the heads it finalized.
Recovered == CASE pending.kind = "committed" -> {head + 1}
               [] pending.kind = "finalized" -> {pending.seq}
               [] OTHER -> {}
RecoverDatabases ==
  /\ head' = IF pending.kind = "committed" THEN head + 1 ELSE head
  /\ pending' = Settled
RecordAll(e, heads) ==
  IF heads = {} THEN e ELSE recordFinalizedHead(e, CHOOSE n \in heads : TRUE)
Conflict(heads) == heads # {} /\ RecordAll(epoch, heads).fatal # "no"
TellAll(heads) ==
  IF heads = {} THEN UNCHANGED finalized ELSE Tell(CHOOSE n \in heads : TRUE)

\* The next mutation of the same database recovers it first, marks what it
\* finalized, and asks its caller to retry.
RecoverInline ==
  /\ pending.kind \in {"committed", "finalized"}
  /\ RecoverDatabases
  /\ epoch' = RecordAll(epoch, Recovered) /\ TellAll(Recovered)
  /\ UNCHANGED <<own, backup, calls, troubles>>

-----------------------------------------------------------------------------
(* Other processes, and time.                                              *)

Trouble == troubles < MaxTroubles /\ troubles' = troubles + 1

OtherMutates ==
  /\ Trouble /\ pending.kind \notin {"reserved", "committed"}
  /\ head' = head + 1
  /\ UNCHANGED <<pending, finalized, own, backup, epoch, calls>>

\* A fresh bundle, drilled at the head of this moment.
Fresh == [bundle |-> published.bundle + 1, head |-> head, drill |-> drills + 1]
Publish(b) == published' = b /\ drills' = b.drill /\ aged' = FALSE

\* The periodic renewal unit.
OtherRenews ==
  Trouble /\ Publish(Fresh) /\ UNCHANGED <<databases, epoch, calls>>

Age ==
  /\ ~aged /\ Trouble /\ aged' = TRUE
  /\ UNCHANGED <<databases, published, drills, epoch, calls>>

-----------------------------------------------------------------------------
(* reconcile: joining, chaining and starting runs.                         *)

\* start(): a run of c, in flight from now on whatever was in flight.
Start(c) ==
  /\ inFlight' = c
  /\ run' = [run EXCEPT ![c] =
       [Idle EXCEPT !.pc = IF epoch.fatal = "no" THEN "lease" ELSE "thrown"]]

reconcile(c) ==
  /\ run[c].pc = "idle"
  /\ IF inFlight = NoCaller THEN Start(c)
     ELSE /\ run' = [run EXCEPT ![c] = [Idle EXCEPT !.on = inFlight,
               !.pc = IF Validity[c] <= Validity[inFlight]
                      THEN "joined" ELSE "chained"]]
          /\ UNCHANGED inFlight
  /\ UNCHANGED <<databases, backup, epoch, troubles>>

\* A caller that chained its run behind another one, which has returned.
StartChained(c) ==
  /\ run[c].pc = "starting" /\ Start(c)
  /\ UNCHANGED <<databases, backup, epoch, troubles>>

\* The promise of a run settles: who joined it gets its result, and who chained a
\* run behind it starts it, unless it was rejected.
FinishKeepsInFlight(c) ==
  /\ run[c].pc \in {"returned", "thrown"}
  /\ run' = [d \in Callers |-> IF d = c \/ run[d].on = c THEN Idle ELSE run[d]]
  /\ UNCHANGED <<databases, backup, epoch, inFlight, troubles>>
Finish(c) ==
  /\ run[c].pc \in {"returned", "thrown"}
  /\ inFlight' = IF inFlight = c THEN NoCaller ELSE inFlight
  /\ run' = [d \in Callers |->
       IF d = c THEN Idle
       ELSE IF run[d].on # c THEN run[d]
       ELSE IF run[d].pc = "chained" /\ run[c].pc = "returned"
            THEN [Idle EXCEPT !.pc = "starting"] ELSE Idle]
  /\ UNCHANGED <<databases, backup, epoch, troubles>>

-----------------------------------------------------------------------------
(* reconcileOnce, from one await to the next.                              *)

At(c, pc) == run[c].pc = pc
\* A run goes on with what it has read, or without.
Go(c, pc) == run' = [run EXCEPT ![c].pc = pc] /\ UNCHANGED inFlight
Enter(c, pc) == run' = [run EXCEPT ![c] = [Idle EXCEPT !.pc = pc]] /\ UNCHANGED inFlight
Fails(c, why) == epoch' = enterFatal(epoch, why) /\ Enter(c, "thrown")

\* The authority's process cannot be reached: the result is deferred.
Deferred(c) ==
  /\ run[c].pc \in {"pending", "inspecting", "observe", "judge", "drill", "renew"}
  /\ Trouble
  /\ Enter(c, "returned") /\ UNCHANGED <<databases, backup, epoch>>

LeaseLost(c) ==
  /\ run[c].pc \in {"lease", "pending", "recording", "judge", "drill", "publish",
                   "renew", "renewed"}
  /\ Trouble /\ Fails(c, "resident_lease_lost")
  /\ UNCHANGED <<databases, backup>>

CheckRequirements(c) ==
  /\ At(c, "lease")
  /\ Go(c, IF epoch.required THEN "pending" ELSE "sources")
  /\ UNCHANGED <<databases, backup, epoch, troubles>>

\* reconcilePending, or the first half of reconcileAndRenew.
ReconcileDatabases(c) ==
  /\ run[c].pc \in {"pending", "renew"}
  /\ RecoverDatabases
  /\ run' = [run EXCEPT ![c].found = Recovered,
       ![c].pc = IF At(c, "renew") THEN "renewInspect" ELSE "inspecting"]
  /\ UNCHANGED <<finalized, own, backup, inFlight, epoch, troubles>>

\* Every database is inspected again after all were reconciled.
StillPending == pending.kind \in {"committed", "finalized"}
InspectPending(c) ==
  /\ At(c, "inspecting")
  /\ IF StillPending THEN Fails(c, "pending_finalization_required")
     ELSE Go(c, "recording") /\ UNCHANGED epoch
  /\ UNCHANGED <<databases, backup, troubles>>

\* The recovered heads are recorded, and the requirements are cleared.
RecordWithoutClearing(c) ==
  /\ At(c, "recording")
  /\ epoch' = RecordAll(epoch, run[c].found)
  /\ Enter(c, IF Conflict(run[c].found) THEN "thrown" ELSE "sources")
  /\ TellAll(run[c].found)
  /\ UNCHANGED <<head, pending, own, backup, troubles>>
RecordRecovered(c) ==
  /\ At(c, "recording")
  /\ LET e == RecordAll(epoch, run[c].found)
     IN  IF Conflict(run[c].found) THEN epoch' = e /\ Enter(c, "thrown")
         ELSE epoch' = [e EXCEPT !.required = FALSE] /\ Enter(c, "sources")
  /\ TellAll(run[c].found)
  /\ UNCHANGED <<head, pending, own, backup, troubles>>

\* The latest drilled bundle; a run begins with a renewal when it is missing or due.
ReadSources(c) ==
  /\ run[c].pc \in {"sources", "publish"}
  /\ IF At(c, "sources") /\ aged THEN Enter(c, "renew")
     ELSE /\ run' = [run EXCEPT ![c].source = published,
               ![c].pc = IF At(c, "sources") THEN "observe" ELSE "settle"]
          /\ UNCHANGED inFlight
  /\ UNCHANGED <<databases, backup, epoch, troubles>>

ObserveHead(c) ==
  /\ At(c, "observe")
  /\ run' = [run EXCEPT ![c].live = head, ![c].pc = "judge"]
  /\ UNCHANGED <<databases, backup, epoch, inFlight, troubles>>

\* The epoch after ready(), and how the run ends.
Ready(c, n) ==
  /\ epoch' = ready(epoch, n)
  /\ Enter(c, IF ~NotCovered(epoch, n) /\ n < epoch.verified
            THEN "thrown" ELSE "returned")

JudgeHead(c) ==
  /\ At(c, "judge")
  /\ CASE run[c].live < run[c].source.head -> Fails(c, "authority_rollback")
       [] run[c].live = run[c].source.head -> Ready(c, run[c].live)
       [] OTHER -> Go(c, "drill") /\ UNCHANGED epoch
  /\ UNCHANGED <<databases, backup, troubles>>

\* The drill replays the journal up to the head of this moment onto the bundle
\* that was read, and replaces its receipt.
Drilled(c) == [run[c].source EXCEPT !.head = head, !.drill = drills + 1]
restoreDrill(c) ==
  /\ At(c, "drill")
  /\ published' = IF published.bundle = run[c].source.bundle
                  THEN Drilled(c) ELSE published
  /\ drills' = drills + 1
  /\ run' = [run EXCEPT ![c].drilled = Drilled(c), ![c].pc = "publish"]
  /\ UNCHANGED <<databases, aged, inFlight, epoch, troubles>>

\* The journal range is too long to replay.
RangeUnbounded(c) ==
  /\ At(c, "drill") /\ Trouble /\ Enter(c, "renew")
  /\ UNCHANGED <<databases, backup, epoch>>

SettleJournal(c) ==
  /\ At(c, "settle")
  /\ IF run[c].source = run[c].drilled /\ run[c].source.head = run[c].live
     THEN Ready(c, run[c].source.head)
     ELSE Fails(c, "journal_publish_invalid")
  /\ UNCHANGED <<databases, backup, troubles>>

\* The second half of reconcileAndRenew: a fresh bundle is drilled and published.
RenewBackup(c) ==
  /\ At(c, "renewInspect")
  /\ IF StillPending
     THEN /\ Fails(c, "pending_finalization_required") /\ UNCHANGED backup
     ELSE /\ Publish(Fresh)
          /\ run' = [run EXCEPT ![c].drilled = Fresh, ![c].pc = "renewed"]
          /\ UNCHANGED <<inFlight, epoch>>
  /\ UNCHANGED <<databases, troubles>>

RecordRenewed(c) ==
  /\ At(c, "renewed")
  /\ epoch' = RecordAll(epoch, run[c].found)
  /\ IF Conflict(run[c].found) THEN Enter(c, "thrown")
     ELSE /\ run' = [run EXCEPT ![c].source = published, ![c].found = {},
                                ![c].pc = "resettle"]
          /\ UNCHANGED inFlight
  /\ TellAll(run[c].found)
  /\ UNCHANGED <<head, pending, own, backup, troubles>>

SettleRenewal(c) ==
  /\ At(c, "resettle")
  /\ IF run[c].source = run[c].drilled THEN Ready(c, run[c].source.head)
     ELSE Fails(c, "fresh_snapshot_publish_invalid")
  /\ UNCHANGED <<databases, backup, troubles>>

-----------------------------------------------------------------------------
Step(c) ==
  \/ CheckRequirements(c) \/ ReconcileDatabases(c) \/ InspectPending(c)
  \/ RecordRecovered(c) \/ ReadSources(c) \/ ObserveHead(c) \/ JudgeHead(c)
  \/ restoreDrill(c) \/ SettleJournal(c) \/ RenewBackup(c) \/ RecordRenewed(c)
  \/ SettleRenewal(c) \/ StartChained(c) \/ Finish(c)

Next ==
  \/ \E c \in Callers :
       reconcile(c) \/ Step(c) \/ Deferred(c) \/ LeaseLost(c) \/ RangeUnbounded(c)
  \/ Mutate \/ MutationFails \/ RecoverInline
  \/ OtherMutates \/ OtherRenews \/ Age

Spec == Init /\ [][Next]_vars

\* A run that is not waiting for anyone goes on, and the cycles of the supervisor
\* keep calling reconcile.
Fairness == \A c \in Callers : WF_vars(Step(c)) /\ WF_vars(reconcile(c))
FairSpec == Spec /\ Fairness

-----------------------------------------------------------------------------
\* The types, and: the run in flight is one that will settle, so whoever joins it
\* or chains behind it gets an answer (inFlight and its finally).
TypeOK ==
  /\ head \in Heads /\ finalized \in Heads
  /\ pending \in Pendings
  /\ published \in Bundles /\ drills \in Nat /\ aged \in BOOLEAN
  /\ epoch \in [verified : Heads \cup {None}, dirty : Heads \cup {None, Unknown},
                required : BOOLEAN, fatal : Fatal]
  /\ inFlight \in Callers \cup {NoCaller}
  /\ run \in [Callers -> [pc : PCs, on : Callers \cup {NoCaller}, live : Heads,
                          source : Bundles, drilled : Bundles, found : SUBSET Heads]]
  /\ own \in 0 .. OwnMutations /\ troubles \in 0 .. MaxTroubles
  /\ inFlight # NoCaller => run[inFlight].pc \in Runs \cup {"returned", "thrown"}
  /\ \A c \in Callers : run[c].pc \in {"joined", "chained"} =>
       run[run[c].on].pc \in Runs \cup {"returned", "thrown"}

\* assertCurrent grants a permit.
Permit ==
  /\ epoch.fatal = "no" /\ epoch.verified # None /\ epoch.dirty = None
  /\ ~epoch.required

\* A side effect is permitted only while the published bundle restores every
\* mutation this process has been told is finalized, whichever runs, marks and
\* renewals overlapped (ready, recordFinalizedHead, assertCurrent).
PermitCovered ==
  Permit => finalized <= epoch.verified /\ epoch.verified <= published.head

\* Whatever happened, permits come back once the faults stop, unless the
\* controller has gone fatal (reconcilePendingMutations, reconcileOnce).
EpochRestored == []<>(Permit \/ epoch.fatal # "no")

\* No permit while the outcome of a mutation of this process is unknown: its
\* requirement stays until a reconciliation that came after it.
RequirementSticks == Permit => pending = Settled
=============================================================================
