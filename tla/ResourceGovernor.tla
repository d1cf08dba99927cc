--------------------------- MODULE ResourceGovernor ---------------------------
(***************************************************************************)
(* The resource governor that campaign processes share through SQLite      *)
(* (createSqliteResourceGovernor).  A request enters a table of waiters,   *)
(* polls, and is granted a lease when its resources fit and no compatible  *)
(* waiter asked before it.  Holders renew their lease by a heartbeat.      *)
(* Leases and waiters expire, and rows of dead processes are reaped.       *)
(*                                                                         *)
(* A process reads the clock before its transaction starts, so every       *)
(* statement compares expiry times with a clock up to MaxDelay old.  Times *)
(* are kept relative to now: what is left of a row, how old a reading is.  *)
(***************************************************************************)
EXTENDS Integers, FiniteSets, Functions

CONSTANTS
  Requests,    \* acquire calls, each with its lease id and waiter id
  Owners,      \* processes
  OwnerOf,     \* the process of each request
  Keys,        \* kinds of resources
  Limit,       \* configured limit of each kind
  Size,        \* resources each request asks for
  LeaseTerm,   \* leaseSeconds
  WaiterTerm,  \* the 30 seconds a waiter row lives
  MaxDelay,    \* bound: ticks between reading the clock and the transaction
  Stalling,    \* processes that may be held up past their deadlines
  Failing      \* bound: requests whose statements may fail

ASSUME RequestsAssumption == IsFiniteSet(Requests)
ASSUME OwnersAssumption == OwnerOf \in [Requests -> Owners] /\ Stalling \subseteq Owners
ASSUME FaultsAssumption == Failing \subseteq Requests
ASSUME SizesAssumption ==
  /\ Limit \in [Keys -> Nat]
  /\ Size \in [Requests -> [Keys -> Nat]]
  /\ \A r \in Requests, k \in Keys : Size[r][k] <= Limit[k]
ASSUME TermsAssumption ==
  /\ {LeaseTerm, WaiterTerm, MaxDelay} \subseteq Nat
  /\ MaxDelay < LeaseTerm /\ MaxDelay < WaiterTerm

PCs == {"idle", "asked", "polling", "acquire", "giveup", "holding", "renew",
        "release", "dead"}

VARIABLES
  pc,      \* where each acquire call is
  delay,   \* age of the clock reading it works with
  before,  \* requests with an earlier requested_at, while it waits
  lease,   \* automation_resource_leases: time until each row expires
  waiter,  \* automation_resource_waiters: time until each row expires
  until,   \* time left on the lease as its holder knows it
  lost,    \* holders whose lostSignal is aborted
  alive    \* living processes

vars == <<pc, delay, before, lease, waiter, until, lost, alive>>

\* There is no row, or one that has expired by every clock reading in use: no
\* statement tells them apart.
Gone == -MaxDelay

Waiting == {"asked", "polling", "acquire"}
Holding == {"holding", "renew", "release"}

\* The tables and the calls stay well formed; in particular a reading of the
\* clock is never older than MaxDelay.
TypeOK ==
  /\ pc \in [Requests -> PCs]
  /\ delay \in [Requests -> 0 .. MaxDelay]
  /\ before \in [Requests -> SUBSET Requests]
  /\ lease \in [Requests -> Gone .. LeaseTerm]
  /\ waiter \in [Requests -> Gone .. WaiterTerm]
  /\ until \in [Requests -> Gone .. LeaseTerm]
  /\ lost \in SUBSET Requests
  /\ alive \in SUBSET Owners

Init ==
  /\ pc = [r \in Requests |-> "idle"]
  /\ delay = [r \in Requests |-> 0]
  /\ before = [r \in Requests |-> {}]
  /\ lease = [r \in Requests |-> Gone]
  /\ waiter = [r \in Requests |-> Gone]
  /\ until = [r \in Requests |-> Gone]
  /\ lost = {}
  /\ alive = Owners

-----------------------------------------------------------------------------
(* The statements. *)

Rows(table) == {q \in Requests : table[q] > Gone}

\* Rows still valid at the clock reading of request r.
Unexpired(table, r) == {q \in Rows(table) : table[q] + delay[r] > 0}

Only(table, rows) == [q \in Requests |-> IF q \in rows THEN table[q] ELSE Gone]

Used(k, rows) == SumFunctionOnSet([q \in Requests |-> Size[q][k]], rows)

\* The resources of r fit beside the leases in rows.
Fits(r, rows) == \A k \in Keys : Used(k, rows) + Size[r][k] <= Limit[k]

\* Mutant: whoever fits first is served.
EligibleByFit(r, held, line) == Fits(r, held)

\* r is the first of the waiters in line, by requested_at, whose resources fit.
Eligible(r, held, line) ==
  /\ Fits(r, held)
  /\ \A q \in line \cap before[r] : ~ Fits(q, held)

\* Requests whose dead process some unexpired row names; their rows are deleted.
OfDeadOwners ==
  {q \in Requests : /\ OwnerOf[q] \notin alive
                    /\ \E w \in Requests : /\ OwnerOf[w] = OwnerOf[q]
                                           /\ lease[w] > 0 \/ waiter[w] > 0}

reapDeadOwners ==
  /\ lease' = Only(lease, Requests \ OfDeadOwners)
  /\ waiter' = Only(waiter, Requests \ OfDeadOwners)

-----------------------------------------------------------------------------
(* acquire *)

At(r, from) == pc[r] = from /\ OwnerOf[r] \in alive

\* The call moves on; a clock reading it takes is fresh.
Goto(r, to) ==
  /\ pc' = [pc EXCEPT ![r] = to]
  /\ delay' = [delay EXCEPT ![r] = 0]
  /\ before' = [before EXCEPT ![r] = IF to \in Waiting THEN @ ELSE {}]

\* The call reads requested_at.  Its ids are new: no row carries them yet.
Request(r) ==
  /\ At(r, "idle") /\ r \notin Rows(lease) \cup Rows(waiter)
  /\ pc' = [pc EXCEPT ![r] = "asked"]
  /\ delay' = [delay EXCEPT ![r] = 0]
  /\ before' = [q \in Requests |->
       IF q = r THEN Rows(waiter) \cup {w \in Requests : pc[w] \in Waiting}
                ELSE before[q] \ {r}]
  /\ UNCHANGED <<lease, waiter, until, lost, alive>>

PutWaiter(r, line) ==
  waiter' = [Only(waiter, line) EXCEPT ![r] = WaiterTerm - delay[r]]

Enqueue(r) ==
  /\ At(r, "asked") /\ PutWaiter(r, Requests) /\ Goto(r, "polling")
  /\ UNCHANGED <<lease, until, lost, alive>>

\* The enqueuing throws; it lies outside the try, so a row it committed stays.
EnqueueThrows(r) ==
  /\ At(r, "asked") /\ r \in Failing /\ Goto(r, "idle")
  /\ PutWaiter(r, Requests) \/ UNCHANGED waiter
  /\ UNCHANGED <<lease, until, lost, alive>>

\* Mutant: the waiter is put back with a new requested_at.
PollAtEndOfLine(r) ==
  /\ At(r, "polling") /\ reapDeadOwners
  /\ pc' = [pc EXCEPT ![r] = "acquire"]
  /\ delay' = [delay EXCEPT ![r] = 0]
  /\ before' = [q \in Requests |->
       IF q = r THEN {w \in Requests \ {r} : pc[w] \in Waiting} ELSE before[q] \ {r}]
  /\ UNCHANGED <<until, lost, alive>>

\* One turn of the polling loop starts: dead owners are reaped, the clock is read.
Poll(r) ==
  /\ At(r, "polling") /\ Goto(r, "acquire") /\ reapDeadOwners
  /\ UNCHANGED <<until, lost, alive>>

Granted(r) ==
  Eligible(r, Unexpired(lease, r), Unexpired(waiter, r) \cup {r})

\* Mutant: expired leases are not counted, but not deleted either.
AcquireKeepingExpired(r) ==
  IF Granted(r)
    THEN /\ lease' = [lease EXCEPT ![r] = LeaseTerm - delay[r]]
         /\ waiter' = Only(waiter, Unexpired(waiter, r) \ {r})
    ELSE PutWaiter(r, Unexpired(waiter, r)) /\ UNCHANGED lease

\* Mutant: leases at their last instant are deleted with the expired ones.
AcquireDeletingDue(r) ==
  LET kept == Only(lease, {q \in Unexpired(lease, r) : lease[q] > 1}) IN
  IF Granted(r)
    THEN /\ lease' = [kept EXCEPT ![r] = LeaseTerm - delay[r]]
         /\ waiter' = Only(waiter, Unexpired(waiter, r) \ {r})
    ELSE lease' = kept /\ PutWaiter(r, Unexpired(waiter, r))

\* The transaction of a turn: expired rows go, the waiter is put back or renewed,
\* and becomes a lease when it is its turn.
AcquireTransaction(r) ==
  IF Granted(r)
    THEN /\ lease' = [Only(lease, Unexpired(lease, r)) EXCEPT ![r] = LeaseTerm - delay[r]]
         /\ waiter' = Only(waiter, Unexpired(waiter, r) \ {r})
    ELSE /\ lease' = Only(lease, Unexpired(lease, r))
         /\ PutWaiter(r, Unexpired(waiter, r))

Acquire(r) ==
  /\ At(r, "acquire") /\ AcquireTransaction(r)
  /\ IF Granted(r)
       THEN Goto(r, "holding") /\ until' = [until EXCEPT ![r] = LeaseTerm - delay[r]]
       ELSE Goto(r, "polling") /\ UNCHANGED until
  /\ UNCHANGED <<lost, alive>>

\* The transaction committed and its caller got an error (error.committed):
\* nothing is cleaned up, a lease it granted has no holder.
AcquireUncertain(r) ==
  /\ At(r, "acquire") /\ r \in Failing /\ AcquireTransaction(r) /\ Goto(r, "idle")
  /\ UNCHANGED <<until, lost, alive>>

\* The transaction fails, or the signal of the caller aborts the wait.
GiveUp(r) ==
  /\ At(r, "polling") \/ (At(r, "acquire") /\ r \in Failing)
  /\ Goto(r, "giveup")
  /\ UNCHANGED <<lease, waiter, until, lost, alive>>

\* The finally of acquire deletes the waiter, or throws and leaves it.
Cleanup(r) ==
  /\ At(r, "giveup") /\ Goto(r, "idle")
  /\ \/ waiter' = [waiter EXCEPT ![r] = Gone]
     \/ r \in Failing /\ UNCHANGED waiter
  /\ UNCHANGED <<lease, until, lost, alive>>

-----------------------------------------------------------------------------
(* The holder: heartbeat and release. *)

StartRenew(r) ==
  /\ At(r, "holding") /\ r \notin lost /\ Goto(r, "renew")
  /\ UNCHANGED <<lease, waiter, until, lost, alive>>

StartRelease(r) ==
  /\ At(r, "holding") /\ Goto(r, "release")
  /\ UNCHANGED <<lease, waiter, until, lost, alive>>

\* Mutant: the term is added to the old expiry.
ExtendedFromExpiry(times, r) == [times EXCEPT ![r] = @ + LeaseTerm]

Extended(times, r) == [times EXCEPT ![r] = LeaseTerm - delay[r]]

renewLeaseHeartbeat(r) ==
  /\ At(r, "renew") /\ Goto(r, "holding")
  /\ IF r \in Unexpired(lease, r)
       THEN lease' = Extended(lease, r) /\ until' = Extended(until, r) /\ UNCHANGED lost
       ELSE lost' = lost \cup {r} /\ UNCHANGED <<lease, until>>
  /\ UNCHANGED <<waiter, alive>>

\* The heartbeat throws, before or after its statement took effect, and stops.
RenewThrows(r) ==
  /\ At(r, "renew") /\ r \in Failing /\ Goto(r, "holding") /\ lost' = lost \cup {r}
  /\ \/ r \in Unexpired(lease, r) /\ lease' = Extended(lease, r)
     \/ UNCHANGED lease
  /\ UNCHANGED <<waiter, until, alive>>

\* The call of the holder ends.
End(r) == Goto(r, "idle") /\ lost' = lost \ {r} /\ until' = [until EXCEPT ![r] = Gone]

\* The row goes unless it has expired, which the caller is told.
release(r) ==
  /\ At(r, "release") /\ End(r)
  /\ lease' = IF r \in Unexpired(lease, r) THEN [lease EXCEPT ![r] = Gone] ELSE lease
  /\ UNCHANGED <<waiter, alive>>

\* The statement of the release fails: the row stays until it expires.
ReleaseThrows(r) ==
  /\ At(r, "release") /\ r \in Failing /\ End(r) /\ UNCHANGED <<lease, waiter, alive>>

-----------------------------------------------------------------------------
(* Processes and time. *)

\* snapshot reaps too.
Snapshot(o) ==
  /\ o \in alive /\ reapDeadOwners
  /\ UNCHANGED <<pc, delay, before, until, lost, alive>>

Crash(o) ==
  LET mine == {r \in Requests : OwnerOf[r] = o}
  IN /\ o \in alive /\ alive' = alive \ {o}
     /\ pc' = [r \in Requests |-> IF r \in mine THEN "dead" ELSE pc[r]]
     /\ delay' = [r \in Requests |-> IF r \in mine THEN 0 ELSE delay[r]]
     /\ before' = [r \in Requests |-> IF r \in mine THEN {} ELSE before[r]]
     /\ until' = Only(until, Requests \ mine)
     /\ lost' = lost \ mine
     /\ UNCHANGED <<lease, waiter>>

\* A process works with a clock reading.
Reading(r) == pc[r] \in {"asked", "acquire", "renew", "release"}

\* Time may pass: no reading gets older than MaxDelay, and a process that is not
\* held up renews its waiter row and its lease in time.
MayPass ==
  /\ \A r \in Requests : Reading(r) => delay[r] < MaxDelay
  /\ \A r \in Requests : OwnerOf[r] \in alive \ Stalling =>
       /\ pc[r] \in {"polling", "acquire"} => waiter[r] > 1
       /\ pc[r] \in {"holding", "renew"} /\ r \notin lost => until[r] > 1

Older(times) == [r \in Requests |-> IF times[r] = Gone THEN Gone ELSE times[r] - 1]

Tick ==
  /\ MayPass
  /\ lease' = Older(lease) /\ waiter' = Older(waiter) /\ until' = Older(until)
  /\ delay' = [r \in Requests |-> IF Reading(r) THEN delay[r] + 1 ELSE 0]
  /\ UNCHANGED <<pc, before, lost, alive>>

Next ==
  \/ \E r \in Requests :
       \/ Request(r) \/ Enqueue(r) \/ EnqueueThrows(r) \/ Poll(r) \/ Acquire(r)
       \/ AcquireUncertain(r) \/ GiveUp(r) \/ Cleanup(r)
       \/ StartRenew(r) \/ renewLeaseHeartbeat(r) \/ RenewThrows(r)
       \/ StartRelease(r) \/ release(r) \/ ReleaseThrows(r)
  \/ \E o \in Owners : Snapshot(o) \/ Crash(o)
  \/ Tick

Spec == Init /\ [][Next]_vars

\* Time passes, calls go on, and the work of a holder ends: every node execution
\* is bounded by the campaign's wall time, and its finally block releases.
FairSpec ==
  /\ Spec
  /\ WF_vars(Tick)
  /\ \A r \in Requests :
       /\ WF_vars(Enqueue(r)) /\ WF_vars(Poll(r)) /\ WF_vars(Acquire(r))
       /\ WF_vars(Cleanup(r)) /\ WF_vars(StartRenew(r))
       /\ WF_vars(renewLeaseHeartbeat(r)) /\ WF_vars(release(r))
       /\ SF_vars(StartRelease(r))

-----------------------------------------------------------------------------
(* Properties. *)

\* A holder whose lease has time left still has its row, whoever reaped, purged
\* or was granted resources meanwhile (acquire, reapDeadOwners, renewLeaseHeartbeat).
HolderKeepsRow ==
  \A r \in Requests : until[r] > 0 => pc[r] \in Holding /\ lease[r] >= until[r]

\* The processes that work within their leases never use more than the limits
\* together, also when a heartbeat or a release works with an old clock.
NoOvercommit ==
  \A k \in Keys : Used(k, {r \in Requests : until[r] > 0}) <= Limit[k]

\* A grant never overtakes an earlier compatible request whose waiter row is
\* alive: a request that polls in time keeps its place in the line.
FirstComeFirstServed ==
  [][\A r \in Requests : pc[r] = "acquire" /\ pc'[r] = "holding" =>
       \A q \in before[r] : waiter[q] > 0 => ~ Fits(q, Rows(lease') \ {r})]_vars

\* A request that is not larger than any other, of a process that is not held up,
\* is answered: it never starves behind dead, slow or greedy processes.
SmallestServed ==
  \A r \in Requests :
    (OwnerOf[r] \notin Stalling /\ \A q \in Requests, k \in Keys : Size[r][k] <= Size[q][k])
      => (pc[r] \in {"polling", "acquire"} ~> pc[r] \notin {"polling", "acquire"})
=============================================================================
