------------------------- MODULE RecoverabilityProofs -------------------------
(***************************************************************************)
(* Proofs about Recoverability, for every set of callers, all validities   *)
(* they ask for and every bound.                                           *)
(*                                                                         *)
(* The argument: the head that the published drill has reached only grows, *)
(* so a bundle that a run read, however long ago, is covered by the one    *)
(* that is published now; the verified head is one of those.  And whatever *)
(* the process was told is finalized is bounded by the verified head or by *)
(* the dirty one, which ready() never clears below.                        *)
(***************************************************************************)
EXTENDS Recoverability, TLAPS

USE CallersAssumption, RecoverabilityBounds DEF None, Unknown

Records == [pc : PCs, on : Callers \cup {NoCaller}, live : Heads,
            source : Bundles, drilled : Bundles, found : SUBSET Heads]
Epochs == [verified : Heads \cup {None}, dirty : Heads \cup {None, Unknown},
           required : BOOLEAN, fatal : Fatal]

Settling == Runs \cup {"returned", "thrown"}

-----------------------------------------------------------------------------
(* The types, without what they say of runs that wait for each other. *)

DataTypes ==
  /\ head \in Heads /\ finalized \in Heads
  /\ pending \in Pendings
  /\ published \in Bundles /\ drills \in Nat /\ aged \in BOOLEAN
  /\ epoch \in Epochs
  /\ inFlight \in Callers \cup {NoCaller}
  /\ run \in [Callers -> Records]
  /\ own \in 0 .. OwnMutations /\ troubles \in 0 .. MaxTroubles

\* The head stands for mutations that were counted; one that is committed is still
\* to be finalized.  Whoever was told of a head was told of one there is.
HeadBound ==
  /\ head + (IF pending.kind = "committed" THEN 1 ELSE 0) <= own + troubles
  /\ published.head <= head

\* A run waits for another one exactly while it is joined to it or chained behind it.
Waits ==
  /\ \A c \in Callers : run[c].on # NoCaller <=> run[c].pc \in {"joined", "chained"}
  /\ \A c \in Callers : run[c].on # NoCaller => run[run[c].on].pc \in Settling
  /\ inFlight # NoCaller => run[inFlight].pc \in Settling

\* The bundle that a run has read is covered by the published one, and so is the
\* verified head.
Covered ==
  /\ epoch.verified <= published.head
  /\ \A c \in Callers : run[c].source.head <= published.head

\* What the process was told is finalized is verified, or dirty and not yet verified.
Told ==
  epoch.fatal = "no" =>
    \/ finalized <= epoch.verified
    \/ finalized <= epoch.dirty
    \/ finalized = 0 /\ epoch.verified = None

RecoverabilityInv == DataTypes /\ HeadBound /\ Waits /\ Covered /\ Told

LEMMA RecoverabilityInit == Init => RecoverabilityInv
<1> SUFFICES ASSUME Init PROVE RecoverabilityInv
  OBVIOUS
<1>1. 0 \in Heads /\ Idle \in Records /\ FirstBundle \in Bundles /\ Settled \in Pendings
  BY DEF Heads, Records, Idle, FirstBundle, Bundles, PCs, Settled, Pendings
<1>2. epoch \in Epochs
  BY <1>1 DEF Init, Epochs, Fatal
<1>3. aged \in BOOLEAN
  BY DEF Init
<1>4. own \in 0 .. OwnMutations /\ troubles \in 0 .. MaxTroubles
  BY DEF Init
<1>5. DataTypes
  BY <1>1, <1>2, <1>3, <1>4 DEF Init, DataTypes
<1>6. HeadBound /\ Waits
  BY DEF Init, HeadBound, Waits, FirstBundle, Settled, Idle
<1>7. Covered /\ Told
  BY DEF Init, Covered, Told, FirstBundle, Idle
<1>8. QED
  BY <1>5, <1>6, <1>7 DEF RecoverabilityInv

-----------------------------------------------------------------------------
(* What the operations on the epoch keep. *)

LEMMA RecordKeeps ==
  ASSUME NEW e \in Epochs, NEW n \in Heads
  PROVE  /\ recordFinalizedHead(e, n) \in Epochs
         /\ recordFinalizedHead(e, n).verified = e.verified
         /\ recordFinalizedHead(e, n).required = e.required
         /\ e.fatal # "no" => recordFinalizedHead(e, n).fatal # "no"
BY DEF recordFinalizedHead, enterFatal, Epochs, Fatal, Heads

\* A head that is recorded is verified or dirty afterwards, and so is whatever was.
LEMMA RecordCovers ==
  ASSUME NEW e \in Epochs, NEW n \in Heads, NEW told \in Heads, NEW told2 \in Heads,
         e.fatal = "no" => \/ told <= e.verified \/ told <= e.dirty
                           \/ told = 0 /\ e.verified = None,
         told2 = (IF n > told THEN n ELSE told),
         recordFinalizedHead(e, n).fatal = "no"
  PROVE  \/ told2 <= e.verified \/ told2 <= recordFinalizedHead(e, n).dirty
BY DEF recordFinalizedHead, enterFatal, Epochs, Fatal, Heads

LEMMA ReadyKeeps ==
  ASSUME NEW e \in Epochs, NEW n \in Heads
  PROVE  /\ ready(e, n) \in Epochs
         /\ ready(e, n).verified = e.verified \/ ready(e, n).verified = n
BY DEF ready, enterFatal, NotCovered, Epochs, Fatal, Heads

LEMMA ReadyCovers ==
  ASSUME NEW e \in Epochs, NEW n \in Heads, NEW told \in Heads,
         e.fatal = "no" => \/ told <= e.verified \/ told <= e.dirty
                           \/ told = 0 /\ e.verified = None,
         ready(e, n).fatal = "no"
  PROVE  \/ told <= ready(e, n).verified \/ told <= ready(e, n).dirty
         \/ told = 0 /\ ready(e, n).verified = None
BY DEF ready, enterFatal, NotCovered, Epochs, Fatal, Heads

\* The same for the heads of a reconciliation, of which there is at most one.
LEMMA RecordAllKeeps ==
  ASSUME RecoverabilityInv, NEW heads \in SUBSET Heads, TellAll(heads),
         NEW e \in Epochs, e = RecordAll(epoch, heads)
  PROVE  /\ finalized' \in Heads /\ e.verified = epoch.verified
         /\ e.required = epoch.required
         /\ e.fatal = "no" => \/ finalized' <= e.verified \/ finalized' <= e.dirty
                              \/ finalized' = 0 /\ e.verified = None
<1> USE DEF RecoverabilityInv, DataTypes, Told
<1>1. CASE heads = {}
  BY <1>1 DEF RecordAll, TellAll
<1>2. CASE heads # {}
  <2> DEFINE n == CHOOSE m \in heads : TRUE
  <2>1. n \in Heads
    BY <1>2
  <2>2. e = recordFinalizedHead(epoch, n) /\ finalized' = (IF n > finalized THEN n ELSE finalized)
    BY <1>2 DEF RecordAll, TellAll, Tell
  <2> HIDE DEF n
  <2>3. finalized' \in Heads
    BY <2>1, <2>2
  <2>4. e.verified = epoch.verified /\ e.required = epoch.required
    BY <2>1, <2>2, RecordKeeps
  <2>5. QED
    BY <2>1, <2>2, <2>3, <2>4, RecordCovers
<1>3. QED
  BY <1>1, <1>2

LEMMA RecordAllType ==
  ASSUME NEW e \in Epochs, NEW heads \in SUBSET Heads
  PROVE  RecordAll(e, heads) \in Epochs
BY RecordKeeps DEF RecordAll

\* What a reconciliation of the databases finalizes are heads, and it stays in bounds.
LEMMA RecoveredHeads ==
  ASSUME RecoverabilityInv
  PROVE  /\ Recovered \in SUBSET Heads /\ Settled \in Pendings
         /\ pending.kind = "committed" => head + 1 \in Heads
BY DEF RecoverabilityInv, DataTypes, HeadBound, Recovered, Heads, Pendings, Settled

-----------------------------------------------------------------------------
(* Mutations, other processes and time. *)

LEMMA CallsKept ==
  ASSUME RecoverabilityInv, UNCHANGED calls, published.head <= published'.head,
         published \in Bundles, published' \in Bundles
  PROVE  /\ Waits' /\ run' \in [Callers -> Records] /\ inFlight' \in Callers \cup {NoCaller}
         /\ \A c \in Callers : run'[c].source.head <= published'.head
<1> USE DEF RecoverabilityInv, DataTypes, calls
<1>1. Waits'
  BY DEF Waits, Settling
<1>2. ASSUME NEW c \in Callers PROVE run'[c].source.head <= published'.head
  <2>1. run[c].source.head <= published.head /\ run[c].source.head \in Int
    BY DEF Covered, Records, Bundles, Heads
  <2>2. published.head \in Int /\ published'.head \in Int
    BY DEF Bundles, Heads
  <2>3. QED
    BY <2>1, <2>2
<1>3. QED
  BY <1>1, <1>2

LEMMA OwnSteps ==
  ASSUME RecoverabilityInv, Mutate \/ MutationFails \/ RecoverInline
  PROVE  RecoverabilityInv'
<1> USE DEF RecoverabilityInv, DataTypes, backup
<1>1. /\ UNCHANGED <<published, drills, aged, calls, troubles>>
      /\ published.head \in Heads
  BY DEF Mutate, MutationFails, RecoverInline, Bundles
<1>2. /\ Waits' /\ run' \in [Callers -> Records] /\ inFlight' \in Callers \cup {NoCaller}
      /\ \A c \in Callers : run'[c].source.head <= published'.head
  BY <1>1, CallsKept DEF Heads
<1>3. CASE Mutate
  <2>1. head' = head + 1 /\ own' = own + 1 /\ head' \in Heads /\ own' \in 0 .. OwnMutations
    BY <1>3 DEF Mutate, HeadBound, Heads, Pendings
  <2>2. finalized' = (IF head' > finalized THEN head' ELSE finalized)
        /\ epoch' = recordFinalizedHead(epoch, head') /\ pending' = pending
    BY <1>3 DEF Mutate, Tell
  <2>3. /\ epoch' \in Epochs /\ epoch'.verified = epoch.verified /\ finalized' \in Heads
    BY <2>1, <2>2, RecordKeeps
  <2>4. HeadBound' /\ Covered'
    BY <1>1, <1>2, <1>3, <2>1, <2>2, <2>3 DEF HeadBound, Covered, Mutate, Heads
  <2>5. Told'
    BY <2>1, <2>2, <2>3, RecordCovers DEF Told
  <2>6. QED
    BY <1>1, <1>2, <2>1, <2>2, <2>3, <2>4, <2>5
<1>4. CASE MutationFails
  <2>1. /\ head' \in Heads /\ pending' \in Pendings /\ own' \in 0 .. OwnMutations
        /\ UNCHANGED finalized
    BY <1>4 DEF MutationFails, HeadBound, Heads, Pendings, Settled
  <2>2. HeadBound'
    BY <1>1, <1>4 DEF MutationFails, HeadBound, Heads, Settled
  <2>3. epoch' \in Epochs /\ epoch'.verified = epoch.verified /\ epoch'.dirty = epoch.dirty
        /\ epoch'.fatal = epoch.fatal
    BY <1>4 DEF MutationFails, markMutationReconciliationRequired, Epochs
  <2>4. Told' /\ Covered'
    BY <1>1, <1>2, <2>1, <2>3 DEF Told, Covered
  <2>5. QED
    BY <1>1, <1>2, <2>1, <2>2, <2>3, <2>4
<1>5. CASE RecoverInline
  <2>1. head' \in Heads /\ pending' \in Pendings /\ own' = own
    BY <1>5, RecoveredHeads DEF RecoverInline, RecoverDatabases
  <2>2. HeadBound'
    BY <1>1, <1>5 DEF RecoverInline, RecoverDatabases, HeadBound, Heads, Settled
  <2>3. epoch' \in Epochs /\ epoch' = RecordAll(epoch, Recovered)
    BY <1>5, RecoveredHeads, RecordAllType DEF RecoverInline
  <2>4. finalized' \in Heads /\ epoch'.verified = epoch.verified /\ Told'
    BY <1>5, <2>3, RecoveredHeads, RecordAllKeeps DEF RecoverInline, Told
  <2>5. Covered'
    BY <1>1, <1>2, <2>4 DEF Covered
  <2>6. QED
    BY <1>1, <1>2, <2>1, <2>2, <2>3, <2>4, <2>5
<1>6. QED
  BY <1>3, <1>4, <1>5

LEMMA OtherSteps ==
  ASSUME RecoverabilityInv, OtherMutates \/ OtherRenews \/ Age
  PROVE  RecoverabilityInv'
<1> USE DEF RecoverabilityInv, DataTypes
<1>1. /\ UNCHANGED <<pending, finalized, own, epoch, calls>>
      /\ troubles' = troubles + 1 /\ troubles' \in 0 .. MaxTroubles
  BY DEF OtherMutates, OtherRenews, Age, Trouble, databases
<1>2. head' \in Heads /\ head <= head' /\ HeadBound'
  <2>1. CASE OtherMutates
    <3>1. head' = head + 1 /\ published' = published /\ pending.kind # "committed"
      BY <2>1 DEF OtherMutates, backup
    <3>2. published.head \in Int /\ head \in Int
      BY DEF Bundles, Heads
    <3>3. QED
      BY <1>1, <3>1, <3>2 DEF HeadBound, Heads
  <2>2. CASE OtherRenews
    <3>1. head' = head /\ published'.head = head
      BY <2>2 DEF OtherRenews, databases, Publish, Fresh
    <3>2. QED
      BY <1>1, <3>1 DEF HeadBound, Heads
  <2>3. CASE Age
    <3>1. head' = head /\ published' = published
      BY <2>3 DEF Age, databases
    <3>2. QED
      BY <1>1, <3>1 DEF HeadBound, Heads
  <2>4. QED
    BY <2>1, <2>2, <2>3
<1>3. published' \in Bundles /\ drills' \in Nat /\ aged' \in BOOLEAN
  <2>1. Fresh \in Bundles /\ Fresh.drill \in Nat
    BY DEF Fresh, Bundles
  <2>2. QED
    BY <2>1 DEF OtherMutates, OtherRenews, Age, backup, Publish
<1>4. published.head <= published'.head /\ published.head \in Int /\ published'.head \in Int
  BY <1>3 DEF OtherMutates, OtherRenews, Age, backup, Publish, Fresh, HeadBound, Bundles, Heads
<1>5. /\ Waits' /\ run' \in [Callers -> Records] /\ inFlight' \in Callers \cup {NoCaller}
      /\ \A c \in Callers : run'[c].source.head <= published'.head
  BY <1>1, <1>3, <1>4, CallsKept
<1>6. epoch.verified \in Int
  BY DEF Epochs, Heads
<1>7. Covered' /\ Told'
  BY <1>1, <1>4, <1>5, <1>6 DEF Covered, Told
<1>8. QED
  BY <1>1, <1>2, <1>3, <1>5, <1>7

-----------------------------------------------------------------------------
(* Runs that start, wait and finish. *)

LEMMA RestKept ==
  ASSUME RecoverabilityInv, UNCHANGED <<databases, backup, epoch, troubles>>, Waits',
         run' \in [Callers -> Records], inFlight' \in Callers \cup {NoCaller},
         \A c \in Callers : run'[c].source.head <= published'.head
  PROVE  RecoverabilityInv'
<1> USE DEF RecoverabilityInv, DataTypes, databases, backup
<1>1. DataTypes' /\ HeadBound'
  BY DEF HeadBound
<1>2. Covered' /\ Told'
  BY DEF Covered, Told
<1>3. QED
  BY <1>1, <1>2

LEMMA RecordGoes ==
  ASSUME NEW r \in Records, NEW p \in PCs
  PROVE  /\ [r EXCEPT !.pc = p] \in Records /\ [r EXCEPT !.pc = p].pc = p
         /\ [r EXCEPT !.pc = p].on = r.on /\ [r EXCEPT !.pc = p].source = r.source
BY DEF Records

LEMMA RecordWaits ==
  ASSUME NEW r \in Records, NEW p \in PCs, NEW o \in Callers \cup {NoCaller}
  PROVE  /\ [r EXCEPT !.on = o, !.pc = p] \in Records
         /\ [r EXCEPT !.on = o, !.pc = p].pc = p
         /\ [r EXCEPT !.on = o, !.pc = p].on = o
         /\ [r EXCEPT !.on = o, !.pc = p].source = r.source
BY DEF Records

LEMMA IdleRecord ==
  ASSUME NEW p \in PCs, NEW o \in Callers \cup {NoCaller}
  PROVE  /\ [Idle EXCEPT !.on = o, !.pc = p] \in Records
         /\ [Idle EXCEPT !.pc = p] \in Records /\ Idle \in Records
         /\ [Idle EXCEPT !.pc = p].pc = p /\ [Idle EXCEPT !.pc = p].on = NoCaller
         /\ [Idle EXCEPT !.pc = p].source.head = 0
         /\ [Idle EXCEPT !.on = o, !.pc = p].source.head = 0
         /\ [Idle EXCEPT !.on = o, !.pc = p].on = o /\ [Idle EXCEPT !.on = o, !.pc = p].pc = p
         /\ Idle.source.head = 0 /\ Idle.on = NoCaller /\ Idle.pc = "idle"
<1>1. Idle \in Records
  BY DEF Heads, Records, Idle, FirstBundle, Bundles, PCs
<1>2. Idle.source.head = 0 /\ Idle.on = NoCaller /\ Idle.pc = "idle"
  BY DEF Idle, FirstBundle
<1>3. /\ [Idle EXCEPT !.pc = p] \in Records /\ [Idle EXCEPT !.pc = p].pc = p
      /\ [Idle EXCEPT !.pc = p].on = Idle.on
      /\ [Idle EXCEPT !.pc = p].source = Idle.source
  BY <1>1, RecordGoes
<1>4. /\ [Idle EXCEPT !.on = o, !.pc = p] \in Records
      /\ [Idle EXCEPT !.on = o, !.pc = p].pc = p
      /\ [Idle EXCEPT !.on = o, !.pc = p].on = o
      /\ [Idle EXCEPT !.on = o, !.pc = p].source = Idle.source
  BY <1>1, RecordWaits
<1>5. QED
  BY <1>1, <1>2, <1>3, <1>4

\* A run that starts is in flight, and settles; nobody waited for it before.
LEMMA StartedWaits ==
  ASSUME RecoverabilityInv, NEW c \in Callers, run[c].pc \in {"idle", "starting"},
         Start(c), UNCHANGED published
  PROVE  /\ Waits' /\ run' \in [Callers -> Records] /\ inFlight' \in Callers \cup {NoCaller}
         /\ \A d \in Callers : run'[d].source.head <= published'.head
<1> USE DEF RecoverabilityInv, DataTypes
<1>1. PICK p \in {"lease", "thrown"} : run' = [run EXCEPT ![c] = [Idle EXCEPT !.pc = p]]
  BY DEF Start
<1>2. p \in PCs /\ p \in Settling
  BY DEF PCs, Runs, Settling
<1>3. /\ run' \in [Callers -> Records] /\ run'[c].pc \in Settling /\ run'[c].on = NoCaller
      /\ run'[c].source.head = 0 /\ \A d \in Callers \ {c} : run'[d] = run[d]
  BY <1>1, <1>2, IdleRecord
<1>4. published.head \in Heads
  BY DEF Bundles
<1>5. \A d \in Callers : run[d].on # c
  BY DEF Waits, Settling, Runs
<1>6. \A d \in Callers : run[d].on \in Callers \cup {NoCaller}
  BY DEF Records
<1>7. Waits'
  BY <1>3, <1>5, <1>6 DEF Waits, Start, Settling, Runs
<1>8. QED
  BY <1>3, <1>4, <1>7 DEF Covered, Start, Heads

LEMMA StartSteps ==
  ASSUME RecoverabilityInv, NEW c \in Callers, reconcile(c) \/ StartChained(c)
  PROVE  RecoverabilityInv'
<1> USE DEF RecoverabilityInv, DataTypes
<1>1. UNCHANGED <<databases, backup, epoch, troubles>>
  BY DEF reconcile, StartChained
<1>2. CASE Start(c)
  BY <1>1, <1>2, StartedWaits, RestKept DEF reconcile, StartChained, backup
<1>3. CASE ~ Start(c)
  <2>1. PICK p \in {"joined", "chained"} :
          run' = [run EXCEPT ![c] = [Idle EXCEPT !.on = inFlight, !.pc = p]]
    BY <1>3 DEF reconcile, StartChained
  <2>2. p \in PCs /\ run[c].pc = "idle" /\ inFlight \in Callers /\ UNCHANGED inFlight
    BY <1>3 DEF PCs, reconcile, StartChained
  <2>3. /\ run' \in [Callers -> Records] /\ run'[c].pc = p /\ run'[c].on = inFlight
        /\ run'[c].source.head = 0 /\ \A d \in Callers \ {c} : run'[d] = run[d]
    BY <2>1, <2>2, IdleRecord
  <2>4. /\ \A d \in Callers : run[d].on # c
        /\ inFlight # c
    BY <2>2 DEF Waits, Settling, Runs
  <2>5. \A d \in Callers : run[d].on \in Callers \cup {NoCaller}
    BY DEF Records
  <2>6. Waits'
    BY <2>2, <2>3, <2>4, <2>5 DEF Waits, Settling, Runs
  <2>7. published.head \in Heads /\ UNCHANGED published
    BY <1>1 DEF Bundles, backup
  <2>8. \A d \in Callers : run'[d].source.head <= published'.head
    BY <2>3, <2>7 DEF Covered, Heads
  <2>9. QED
    BY <1>1, <2>2, <2>3, <2>6, <2>8, RestKept
<1>4. QED
  BY <1>2, <1>3

\* The promise settles: nobody is left waiting for it.
LEMMA FinishStep ==
  ASSUME RecoverabilityInv, NEW c \in Callers, Finish(c)
  PROVE  RecoverabilityInv'
<1> USE DEF RecoverabilityInv, DataTypes
<1>1. UNCHANGED <<databases, backup, epoch, troubles>>
  BY DEF Finish
<1>2. ASSUME NEW d \in Callers
      PROVE  /\ run'[d] \in Records
             /\ \/ run'[d] = run[d] /\ run[d].on # c /\ d # c
                \/ /\ run'[d].pc \in {"idle", "starting"} /\ run'[d].on = NoCaller
                   /\ run'[d].source.head = 0 /\ (d = c \/ run[d].on = c)
  <2>1. \/ run'[d] = run[d] /\ run[d].on # c /\ d # c
        \/ run'[d] \in {Idle, [Idle EXCEPT !.pc = "starting"]} /\ (d = c \/ run[d].on = c)
    BY DEF Finish
  <2>2. "starting" \in PCs
    BY DEF PCs
  <2> DEFINE waking == [Idle EXCEPT !.pc = "starting"]
  <2>3. /\ Idle \in Records /\ Idle.pc = "idle" /\ Idle.on = NoCaller /\ Idle.source.head = 0
        /\ waking \in Records /\ waking.pc = "starting" /\ waking.on = NoCaller
        /\ waking.source.head = 0
    BY <2>2, IdleRecord
  <2>4. run[d] \in Records
    OBVIOUS
  <2>5. \/ run'[d] = run[d] /\ run[d].on # c /\ d # c
        \/ run'[d] = Idle /\ (d = c \/ run[d].on = c)
        \/ run'[d] = waking /\ (d = c \/ run[d].on = c)
    BY <2>1
  <2> HIDE DEF waking
  <2>6. CASE run'[d] = run[d] /\ run[d].on # c /\ d # c
    BY <2>4, <2>6
  <2>7. CASE run'[d] = Idle /\ (d = c \/ run[d].on = c)
    BY <2>3, <2>7
  <2>8. CASE run'[d] = waking /\ (d = c \/ run[d].on = c)
    BY <2>3, <2>8
  <2>9. QED
    BY <2>5, <2>6, <2>7, <2>8
<1>3. run' = [d \in Callers |-> run'[d]]
  BY DEF Finish
<1>4. run' \in [Callers -> Records]
  BY <1>2, <1>3
<1>5. inFlight' = (IF inFlight = c THEN NoCaller ELSE inFlight)
  BY DEF Finish
<1>6. \A d \in Callers : run[d].on \in Callers \cup {NoCaller}
  BY DEF Records
<1>7. Waits'
  <2>1. \A d \in Callers : run'[d].on # NoCaller <=> run'[d].pc \in {"joined", "chained"}
    BY <1>2 DEF Waits
  <2>2. ASSUME NEW d \in Callers, run'[d].on # NoCaller PROVE run'[run'[d].on].pc \in Settling
    <3>1. run'[d] = run[d] /\ run[d].on # c /\ run[d].on \in Callers
      BY <1>2, <1>6, <2>2
    <3>2. run[run[d].on].pc \in Settling /\ run[run[d].on].on = NoCaller
      BY <2>2, <3>1 DEF Waits, Settling, Runs
    <3>3. run'[run[d].on] = run[run[d].on]
      BY <1>2, <3>1, <3>2
    <3>4. QED
      BY <3>1, <3>2, <3>3
  <2>3. inFlight' # NoCaller => run'[inFlight'].pc \in Settling
    <3> SUFFICES ASSUME inFlight' # NoCaller PROVE run'[inFlight'].pc \in Settling
      OBVIOUS
    <3>1. inFlight' = inFlight /\ inFlight \in Callers \ {c}
      BY <1>5
    <3>2. run[inFlight].pc \in Settling /\ run[inFlight].on = NoCaller
      BY <3>1 DEF Waits, Settling, Runs
    <3>3. run'[inFlight] = run[inFlight]
      BY <1>2, <3>1, <3>2
    <3>4. QED
      BY <3>1, <3>2, <3>3
  <2>4. QED
    BY <2>1, <2>2, <2>3 DEF Waits
<1>8. published.head \in Heads /\ UNCHANGED published
  BY <1>1 DEF Bundles, backup
<1>9. \A d \in Callers : run'[d].source.head <= published'.head
  BY <1>2, <1>8 DEF Covered, Heads
<1>10. QED
  BY <1>1, <1>4, <1>5, <1>7, <1>9, RestKept

-----------------------------------------------------------------------------
(* A run in flight goes from one await to the next. *)

CallsSound ==
  /\ Waits /\ run \in [Callers -> Records] /\ inFlight \in Callers \cup {NoCaller}
  /\ \A c \in Callers : run[c].source.head <= published.head

LEMMA RunMoves ==
  ASSUME RecoverabilityInv, NEW c \in Callers, run[c].pc \in Runs, NEW r \in Records,
         r.pc \in Settling, r.on = NoCaller, run' = [run EXCEPT ![c] = r], UNCHANGED inFlight,
         published' \in Bundles, published.head <= published'.head,
         r.source.head <= published'.head
  PROVE  CallsSound'
<1> USE DEF RecoverabilityInv, DataTypes
<1>1. /\ run' \in [Callers -> Records] /\ run'[c] = r
      /\ \A d \in Callers \ {c} : run'[d] = run[d]
  OBVIOUS
<1>2. ASSUME NEW d \in Callers PROVE run'[d].source.head <= published'.head
  <2>1. run[d].source.head <= published.head /\ run[d].source.head \in Int
    BY DEF Covered, Records, Bundles, Heads
  <2>2. published.head \in Int /\ published'.head \in Int
    BY DEF Bundles, Heads
  <2>3. QED
    BY <1>1, <2>1, <2>2
<1>3. \A d \in Callers : run[d].on \in Callers \cup {NoCaller}
  BY DEF Records
<1>4. Waits'
  <2>1. \A d \in Callers : run'[d].on # NoCaller <=> run'[d].pc \in {"joined", "chained"}
    BY <1>1 DEF Waits, Settling, Runs
  <2>2. ASSUME NEW d \in Callers, run'[d].on # NoCaller PROVE run'[run'[d].on].pc \in Settling
    <3>1. run'[d] = run[d] /\ run[d].on \in Callers
      BY <1>1, <1>3, <2>2
    <3>2. run[run[d].on].pc \in Settling
      BY <2>2, <3>1 DEF Waits
    <3>3. QED
      BY <1>1, <3>1, <3>2
  <2>3. inFlight' # NoCaller => run'[inFlight'].pc \in Settling
    BY <1>1 DEF Waits
  <2>4. QED
    BY <2>1, <2>2, <2>3 DEF Waits
<1>5. QED
  BY <1>1, <1>2, <1>4 DEF CallsSound

LEMMA RunEnters ==
  ASSUME RecoverabilityInv, NEW c \in Callers, run[c].pc \in Runs, NEW p \in Settling,
         Enter(c, p), UNCHANGED published
  PROVE  CallsSound'
<1> USE DEF RecoverabilityInv, DataTypes
<1>1. p \in PCs
  BY DEF Settling, PCs
<1> DEFINE r == [Idle EXCEPT !.pc = p]
<1>2. r \in Records /\ r.pc = p /\ r.on = NoCaller /\ r.source.head = 0
  BY <1>1, IdleRecord
<1>3. run' = [run EXCEPT ![c] = r] /\ UNCHANGED inFlight
  BY DEF Enter
<1> HIDE DEF r
<1>4. /\ published' \in Bundles /\ published.head <= published'.head
      /\ r.source.head <= published'.head
  BY <1>2 DEF Bundles, Heads
<1>5. r.pc \in Settling
  BY <1>2
<1>6. QED
  BY <1>2, <1>3, <1>4, <1>5, RunMoves

LEMMA RunGoes ==
  ASSUME RecoverabilityInv, NEW c \in Callers, run[c].pc \in Runs, NEW p \in Settling,
         Go(c, p), UNCHANGED published
  PROVE  CallsSound'
<1> USE DEF RecoverabilityInv, DataTypes
<1>1. p \in PCs /\ run[c] \in Records /\ run[c].on = NoCaller
  BY DEF Settling, PCs, Waits, Runs
<1> DEFINE r == [run[c] EXCEPT !.pc = p]
<1>2. r \in Records /\ r.pc = p /\ r.on = NoCaller /\ r.source = run[c].source
  BY <1>1, RecordGoes
<1>3. run' = [run EXCEPT ![c] = r] /\ UNCHANGED inFlight
  BY DEF Go
<1> HIDE DEF r
<1>4. /\ published' \in Bundles /\ published.head <= published'.head
      /\ r.source.head <= published'.head
  BY <1>2 DEF Bundles, Heads, Covered
<1>5. r.pc \in Settling
  BY <1>2
<1>6. QED
  BY <1>2, <1>3, <1>4, <1>5, RunMoves

LEMMA StaysBelow ==
  ASSUME NEW a \in Int, NEW b \in Int, NEW t \in Int, NEW u \in Int, a <= b + t, t <= u
  PROVE  a <= b + u
OBVIOUS

\* What is left to show of a step that changes the calls and the epoch.
LEMMA BooksKept ==
  ASSUME RecoverabilityInv, UNCHANGED <<databases, backup>>, CallsSound',
         troubles' = troubles \/ Trouble,
         epoch' \in Epochs, epoch'.verified <= published.head, Told'
  PROVE  RecoverabilityInv'
<1> USE DEF RecoverabilityInv, DataTypes, databases, backup
<1>1. /\ head' = head /\ pending' = pending /\ finalized' = finalized /\ own' = own
      /\ published' = published /\ drills' = drills /\ aged' = aged
  OBVIOUS
<1>2. troubles' \in 0 .. MaxTroubles /\ troubles <= troubles'
  BY DEF Trouble
<1>3. HeadBound'
  <2>1. /\ head + 1 \in Int /\ head + 0 \in Int
        /\ own \in Int /\ troubles \in Int /\ troubles' \in Int
    BY <1>2 DEF Heads
  <2>2. CASE pending.kind = "committed"
    <3>1. head + 1 <= own + troubles /\ published.head <= head
      BY <2>2 DEF HeadBound
    <3>2. head + 1 <= own + troubles'
      BY <1>2, <2>1, <3>1, StaysBelow
    <3>3. QED
      BY <1>1, <2>2, <3>1, <3>2 DEF HeadBound
  <2>3. CASE pending.kind # "committed"
    <3>1. head + 0 <= own + troubles /\ published.head <= head
      BY <2>3 DEF HeadBound
    <3>2. head + 0 <= own + troubles'
      BY <1>2, <2>1, <3>1, StaysBelow
    <3>3. QED
      BY <1>1, <2>3, <3>1, <3>2 DEF HeadBound
  <2>4. QED
    BY <2>2, <2>3
<1>4. Covered' /\ Waits'
  BY <1>1 DEF Covered, CallsSound
<1>5. DataTypes'
  BY <1>1, <1>2 DEF CallsSound
<1>6. QED
  BY <1>3, <1>4, <1>5

\* A run that fails leaves the controller fatal.
LEMMA RunFails ==
  ASSUME RecoverabilityInv, NEW c \in Callers, run[c].pc \in Runs, NEW why \in Fatal \ {"no"},
         Fails(c, why), UNCHANGED <<databases, backup>>, troubles' = troubles \/ Trouble
  PROVE  RecoverabilityInv'
<1> USE DEF RecoverabilityInv, DataTypes
<1>1. CallsSound'
  BY RunEnters DEF Fails, Settling, backup
<1>2. epoch' \in Epochs /\ epoch'.verified = epoch.verified /\ epoch'.fatal # "no"
  BY DEF Fails, enterFatal, Epochs
<1>3. QED
  BY <1>1, <1>2, BooksKept DEF Covered, Told

\* A run that ends in ready, with a head that the published bundle covers.
LEMMA RunIsReady ==
  ASSUME RecoverabilityInv, NEW c \in Callers, run[c].pc \in Runs, NEW n \in Heads,
         Ready(c, n), UNCHANGED <<databases, backup, troubles>>, n <= published.head
  PROVE  RecoverabilityInv'
<1> USE DEF RecoverabilityInv, DataTypes
<1>1. CallsSound'
  BY RunEnters DEF Ready, Settling, backup
<1>2. epoch' = ready(epoch, n) /\ finalized' = finalized
  BY DEF Ready, databases
<1>3. epoch' \in Epochs /\ epoch'.verified <= published.head
  BY <1>2, ReadyKeeps DEF Covered
<1>4. Told'
  BY <1>2, ReadyCovers DEF Told
<1>5. QED
  BY <1>1, <1>3, <1>4, BooksKept

LEMMA RunStays ==
  ASSUME RecoverabilityInv, CallsSound', UNCHANGED <<databases, backup, epoch>>,
         troubles' = troubles \/ Trouble
  PROVE  RecoverabilityInv'
BY BooksKept DEF RecoverabilityInv, DataTypes, Covered, Told, databases

-----------------------------------------------------------------------------
(* The steps of reconcileOnce. *)

LEMMA MarkSteps ==
  ASSUME RecoverabilityInv, NEW c \in Callers,
         \/ CheckRequirements(c) \/ InspectPending(c)
         \/ Deferred(c) \/ LeaseLost(c) \/ RangeUnbounded(c)
  PROVE  RecoverabilityInv'
<1>1. CASE CheckRequirements(c)
  <2>1. PICK p \in {"pending", "sources"} : Go(c, p)
    BY <1>1 DEF CheckRequirements
  <2>2. CallsSound'
    BY <1>1, <2>1, RunGoes DEF CheckRequirements, At, Runs, Settling, backup
  <2>3. QED
    BY <1>1, <2>2, RunStays DEF CheckRequirements
<1>2. CASE InspectPending(c)
  <2>1. run[c].pc \in Runs
    BY <1>2 DEF InspectPending, At, Runs
  <2>2. CASE StillPending
    BY <1>2, <2>1, <2>2, RunFails DEF InspectPending, Fatal
  <2>3. CASE ~ StillPending
    <3>1. CallsSound'
      BY <1>2, <2>1, <2>3, RunGoes DEF InspectPending, Runs, Settling, backup
    <3>2. QED
      BY <1>2, <2>3, <3>1, RunStays DEF InspectPending
  <2>4. QED
    BY <2>2, <2>3
<1>3. CASE Deferred(c) \/ RangeUnbounded(c)
  <2>1. PICK p \in {"returned", "renew"} : Enter(c, p)
    BY <1>3 DEF Deferred, RangeUnbounded
  <2>2. CallsSound'
    BY <1>3, <2>1, RunEnters DEF Deferred, RangeUnbounded, At, Runs, Settling, backup
  <2>3. QED
    BY <1>3, <2>2, RunStays DEF Deferred, RangeUnbounded
<1>4. CASE LeaseLost(c)
  BY <1>4, RunFails DEF LeaseLost, Runs, Fatal
<1>5. QED
  BY <1>1, <1>2, <1>3, <1>4

\* What the process was told is recorded in the same step.
LEMMA RecordSteps ==
  ASSUME RecoverabilityInv, NEW c \in Callers, RecordRecovered(c) \/ RecordRenewed(c)
  PROVE  RecoverabilityInv'
<1> USE DEF RecoverabilityInv, DataTypes
<1> DEFINE heads == run[c].found
           e == RecordAll(epoch, heads)
<1>1. run[c] \in Records /\ heads \in SUBSET Heads /\ run[c].pc \in Runs
  BY DEF Records, RecordRecovered, RecordRenewed, At, Runs
<1>2. TellAll(heads) /\ UNCHANGED <<head, pending, own, backup, troubles>>
  BY DEF RecordRecovered, RecordRenewed
<1>3. e \in Epochs
  BY <1>1, RecordAllType
<1>4. /\ finalized' \in Heads /\ e.verified = epoch.verified
      /\ e.fatal = "no" => \/ finalized' <= e.verified \/ finalized' <= e.dirty
                           \/ finalized' = 0 /\ e.verified = None
  <2> HIDE DEF e, heads
  <2>1. e = RecordAll(epoch, heads)
    BY DEF e
  <2>2. QED
    BY <1>1, <1>2, <1>3, <2>1, RecordAllKeeps
<1>5. epoch' = e \/ epoch' = [e EXCEPT !.required = FALSE]
  BY DEF RecordRecovered, RecordRenewed
<1>6. CallsSound'
  <2>1. CASE RecordRenewed(c) /\ ~ Conflict(heads)
    <3> DEFINE r == [run[c] EXCEPT !.source = published, !.found = {}, !.pc = "resettle"]
    <3>1. r \in Records /\ r.pc = "resettle" /\ r.on = run[c].on /\ r.source = published
      BY <1>1 DEF Records, PCs, Runs
    <3>2. run' = [run EXCEPT ![c] = r] /\ UNCHANGED inFlight
      BY <2>1 DEF RecordRenewed
    <3> HIDE DEF r
    <3>3. r.on = NoCaller /\ r.pc \in Settling
      BY <1>1, <3>1 DEF Waits, Runs, Settling
    <3>4. /\ published' \in Bundles /\ published.head <= published'.head
          /\ r.source.head <= published'.head
      BY <1>2, <3>1 DEF Bundles, Heads, backup
    <3>5. QED
      BY <1>1, <3>1, <3>2, <3>3, <3>4, RunMoves
  <2>2. CASE ~ (RecordRenewed(c) /\ ~ Conflict(heads))
    <3>1. PICK p \in {"thrown", "sources"} : Enter(c, p)
      BY <2>2 DEF RecordRecovered, RecordRenewed
    <3>2. QED
      BY <1>1, <1>2, <3>1, RunEnters DEF Settling, Runs, backup
  <2>3. QED
    BY <2>1, <2>2
<1> HIDE DEF e, heads
<1>7. /\ epoch' \in Epochs /\ epoch'.verified = epoch.verified
      /\ epoch'.verified = e.verified /\ epoch'.dirty = e.dirty /\ epoch'.fatal = e.fatal
  BY <1>3, <1>4, <1>5 DEF Epochs
<1>8. Told'
  BY <1>4, <1>7 DEF Told
<1>9. HeadBound' /\ Covered'
  BY <1>2, <1>6, <1>7 DEF HeadBound, Covered, CallsSound, backup
<1>10. DataTypes' /\ Waits'
  BY <1>2, <1>4, <1>6, <1>7 DEF CallsSound, backup
<1>11. QED
  BY <1>8, <1>9, <1>10

\* The databases are reconciled: what was committed is finalized now.
LEMMA ReconcileStep ==
  ASSUME RecoverabilityInv, NEW c \in Callers, ReconcileDatabases(c)
  PROVE  RecoverabilityInv'
<1> USE DEF RecoverabilityInv, DataTypes
<1>1. run[c] \in Records /\ run[c].pc \in Runs /\ Recovered \in SUBSET Heads
  BY RecoveredHeads DEF ReconcileDatabases, Runs
<1>2. /\ UNCHANGED <<finalized, own, published, drills, aged, inFlight, epoch, troubles>>
      /\ RecoverDatabases
  BY DEF ReconcileDatabases, backup
<1>3. CallsSound'
  <2>1. PICK p \in {"renewInspect", "inspecting"} :
          run' = [run EXCEPT ![c] = [run[c] EXCEPT !.found = Recovered, !.pc = p]]
    <3> DEFINE p == IF At(c, "renew") THEN "renewInspect" ELSE "inspecting"
    <3>1. run' = [run EXCEPT ![c] = [run[c] EXCEPT !.found = Recovered, !.pc = p]]
      BY DEF ReconcileDatabases
    <3>2. p \in {"renewInspect", "inspecting"}
      OBVIOUS
    <3> HIDE DEF p
    <3>3. QED
      BY <3>1, <3>2
  <2> DEFINE r == [run[c] EXCEPT !.found = Recovered, !.pc = p]
  <2>2. p \in PCs /\ p \in Settling
    BY DEF PCs, Settling, Runs
  <2>3. r \in Records /\ r.pc = p /\ r.on = run[c].on /\ r.source = run[c].source
    BY <1>1, <2>2 DEF Records
  <2>4. run' = [run EXCEPT ![c] = r]
    BY <2>1
  <2> HIDE DEF r
  <2>5. r.on = NoCaller /\ r.pc \in Settling
    BY <1>1, <2>2, <2>3 DEF Waits, Runs
  <2>6. /\ published' \in Bundles /\ published.head <= published'.head
        /\ r.source.head <= published'.head
    BY <1>2, <2>3 DEF Bundles, Heads, Covered
  <2>7. QED
    BY <1>1, <1>2, <2>3, <2>4, <2>5, <2>6, RunMoves
<1>4. head' \in Heads /\ pending' \in Pendings
  BY <1>2, RecoveredHeads DEF RecoverDatabases
<1>5. HeadBound'
  BY <1>2 DEF RecoverDatabases, HeadBound, Heads, Settled, Bundles
<1>6. Covered' /\ Told' /\ Waits'
  BY <1>2, <1>3 DEF Covered, Told, CallsSound
<1>7. DataTypes'
  BY <1>2, <1>3, <1>4 DEF CallsSound
<1>8. QED
  BY <1>5, <1>6, <1>7

\* What is read is what is published, or the head, at that moment.
LEMMA ReadSteps ==
  ASSUME RecoverabilityInv, NEW c \in Callers, ReadSources(c) \/ ObserveHead(c)
  PROVE  RecoverabilityInv'
<1> USE DEF RecoverabilityInv, DataTypes
<1>1. run[c] \in Records /\ run[c].pc \in Runs /\ run[c].on = NoCaller
  BY DEF ReadSources, ObserveHead, At, Runs, Waits
<1>2. UNCHANGED <<databases, backup, epoch, troubles>> /\ UNCHANGED published
  BY DEF ReadSources, ObserveHead, backup
<1>3. published.head \in Int /\ published' \in Bundles /\ published.head <= published'.head
  BY <1>2 DEF Bundles, Heads
<1>4. CASE ReadSources(c) /\ At(c, "sources") /\ aged
  <2>1. CallsSound'
    BY <1>1, <1>2, <1>4, RunEnters DEF ReadSources, Settling, Runs
  <2>2. QED
    BY <1>2, <2>1, RunStays
<1>5. CASE ReadSources(c) /\ ~ (At(c, "sources") /\ aged)
  <2> DEFINE p == IF At(c, "sources") THEN "observe" ELSE "settle"
             r == [run[c] EXCEPT !.source = published, !.pc = p]
  <2>1. p \in PCs /\ p \in Settling
    BY DEF PCs, Settling, Runs
  <2>2. run' = [run EXCEPT ![c] = r] /\ UNCHANGED inFlight
    BY <1>5 DEF ReadSources
  <2> HIDE DEF p
  <2>3. r \in Records /\ r.pc = p /\ r.on = run[c].on /\ r.source = published
    BY <1>1, <2>1 DEF Records
  <2> HIDE DEF r
  <2>4. CallsSound'
    BY <1>1, <1>2, <1>3, <2>1, <2>2, <2>3, RunMoves
  <2>5. QED
    BY <1>2, <2>4, RunStays
<1>6. CASE ObserveHead(c)
  <2> DEFINE r == [run[c] EXCEPT !.live = head, !.pc = "judge"]
  <2>1. "judge" \in PCs /\ "judge" \in Settling
    BY DEF PCs, Settling, Runs
  <2>2. run' = [run EXCEPT ![c] = r] /\ UNCHANGED inFlight
    BY <1>6 DEF ObserveHead
  <2>3. r \in Records /\ r.pc = "judge" /\ r.on = run[c].on /\ r.source = run[c].source
    BY <1>1, <2>1 DEF Records
  <2>4. run[c].source.head <= published'.head
    BY <1>2 DEF Covered
  <2> HIDE DEF r
  <2>5. CallsSound'
    BY <1>1, <1>2, <1>3, <2>1, <2>2, <2>3, <2>4, RunMoves
  <2>6. QED
    BY <1>2, <2>5, RunStays
<1>7. QED
  BY <1>4, <1>5, <1>6

\* The head that is verified is the head of the bundle that was read.
LEMMA SettleSteps ==
  ASSUME RecoverabilityInv, NEW c \in Callers,
         JudgeHead(c) \/ SettleJournal(c) \/ SettleRenewal(c)
  PROVE  RecoverabilityInv'
<1> USE DEF RecoverabilityInv, DataTypes
<1> DEFINE n == run[c].source.head
<1>1. run[c] \in Records /\ run[c].pc \in Runs
  BY DEF JudgeHead, SettleJournal, SettleRenewal, At, Runs
<1>2. UNCHANGED <<databases, backup, troubles>> /\ UNCHANGED published
  BY DEF JudgeHead, SettleJournal, SettleRenewal, backup
<1>3. n \in Heads /\ n <= published.head
  BY <1>1 DEF Records, Bundles, Covered
<1>4. \/ Ready(c, n) \/ (Go(c, "drill") /\ UNCHANGED epoch)
      \/ \E why \in Fatal \ {"no"} : Fails(c, why)
  <2>1. CASE JudgeHead(c)
    BY <2>1 DEF JudgeHead, Fatal
  <2>2. CASE SettleJournal(c) \/ SettleRenewal(c)
    BY <2>2 DEF SettleJournal, SettleRenewal, Fatal
  <2>3. QED
    BY <2>1, <2>2
<1> HIDE DEF n
<1>5. CASE Ready(c, n)
  BY <1>1, <1>2, <1>3, <1>5, RunIsReady
<1>6. CASE Go(c, "drill") /\ UNCHANGED epoch
  <2>1. CallsSound'
    BY <1>1, <1>2, <1>6, RunGoes DEF Settling, Runs
  <2>2. QED
    BY <1>2, <1>6, <2>1, RunStays
<1>7. CASE \E why \in Fatal \ {"no"} : Fails(c, why)
  BY <1>1, <1>2, <1>7, RunFails
<1>8. QED
  BY <1>4, <1>5, <1>6, <1>7

LEMMA BundleDrilled ==
  ASSUME NEW b \in Bundles, NEW h \in Heads, NEW n \in Nat
  PROVE  /\ [b EXCEPT !.head = h, !.drill = n] \in Bundles
         /\ [b EXCEPT !.head = h, !.drill = n].head = h
BY DEF Bundles

\* Drills and fresh bundles reach the head, which the published one never passed.
LEMMA DrillSteps ==
  ASSUME RecoverabilityInv, NEW c \in Callers, restoreDrill(c) \/ RenewBackup(c)
  PROVE  RecoverabilityInv'
<1> USE DEF RecoverabilityInv, DataTypes
<1>1. run[c] \in Records /\ run[c].pc \in Runs /\ run[c].on = NoCaller
  BY DEF restoreDrill, RenewBackup, At, Runs, Waits
<1>2. run[c].source \in Bundles
  BY <1>1 DEF Records
<1>3. CASE RenewBackup(c) /\ StillPending
  BY <1>1, <1>3, RunFails DEF RenewBackup, Fatal
<1>4. CASE restoreDrill(c) \/ (RenewBackup(c) /\ ~ StillPending)
  <2>1. PICK b \in Bundles, p \in {"publish", "renewed"} :
          /\ b.head = head /\ (published' = b \/ published' = published)
          /\ run' = [run EXCEPT ![c] = [run[c] EXCEPT !.drilled = b, !.pc = p]]
    <3>1. CASE restoreDrill(c)
      <4>1. Drilled(c) \in Bundles /\ Drilled(c).head = head
        <5>1. drills + 1 \in Nat /\ head \in Heads
          OBVIOUS
        <5>2. QED
          BY <1>2, <5>1, BundleDrilled DEF Drilled
      <4>2. run' = [run EXCEPT ![c] = [run[c] EXCEPT !.drilled = Drilled(c), !.pc = "publish"]]
        BY <3>1 DEF restoreDrill
      <4>3. published' = Drilled(c) \/ published' = published
        BY <3>1 DEF restoreDrill
      <4>4. QED
        BY <4>1, <4>2, <4>3
    <3>2. CASE RenewBackup(c) /\ ~ StillPending
      <4>1. Fresh \in Bundles /\ Fresh.head = head
        BY DEF Fresh, Bundles
      <4>2. run' = [run EXCEPT ![c] = [run[c] EXCEPT !.drilled = Fresh, !.pc = "renewed"]]
        BY <3>2 DEF RenewBackup
      <4>3. published' = Fresh
        BY <3>2 DEF RenewBackup, Publish
      <4>4. QED
        BY <4>1, <4>2, <4>3
    <3>3. QED
      BY <1>4, <3>1, <3>2
  <2>2. UNCHANGED <<databases, inFlight, epoch, troubles>>
    BY <1>4 DEF restoreDrill, RenewBackup
  <2>3. drills' \in Nat /\ aged' \in BOOLEAN
    <3>1. drills + 1 \in Nat /\ Fresh.drill = drills + 1
      BY DEF Fresh
    <3>2. drills' = drills + 1
      BY <1>4, <3>1 DEF restoreDrill, RenewBackup, Publish
    <3>3. aged' = aged \/ aged' = FALSE
      BY <1>4 DEF restoreDrill, RenewBackup, Publish
    <3>4. QED
      BY <3>1, <3>2, <3>3
  <2>4. published' \in Bundles /\ published.head <= published'.head /\ published'.head <= head
    BY <2>1 DEF HeadBound, Bundles, Heads
  <2> DEFINE r == [run[c] EXCEPT !.drilled = b, !.pc = p]
  <2>5. p \in PCs /\ p \in Settling
    BY DEF PCs, Settling, Runs
  <2>6. r \in Records /\ r.pc = p /\ r.on = run[c].on /\ r.source = run[c].source
    BY <1>1, <2>5 DEF Records
  <2>7. run' = [run EXCEPT ![c] = r]
    BY <2>1
  <2> HIDE DEF r
  <2>8. r.source.head <= published'.head
    BY <1>2, <2>4, <2>6 DEF Covered, Bundles, Heads
  <2>9. CallsSound'
    BY <1>1, <2>2, <2>4, <2>5, <2>6, <2>7, <2>8, RunMoves
  <2>10. HeadBound'
    BY <2>2, <2>4 DEF HeadBound, databases
  <2>11. epoch.verified <= published'.head
    BY <2>4 DEF Covered, Epochs, Bundles, Heads
  <2>12. Covered' /\ Told' /\ Waits'
    BY <2>2, <2>9, <2>11 DEF Covered, Told, CallsSound, databases
  <2>13. DataTypes'
    BY <2>2, <2>3, <2>4, <2>9 DEF CallsSound, databases
  <2>14. QED
    BY <2>10, <2>12, <2>13
<1>5. QED
  BY <1>3, <1>4

-----------------------------------------------------------------------------
LEMMA RecoverabilityStep == RecoverabilityInv /\ [Next]_vars => RecoverabilityInv'
<1> SUFFICES ASSUME RecoverabilityInv, [Next]_vars PROVE RecoverabilityInv'
  OBVIOUS
<1>1. ASSUME NEW c \in Callers,
             reconcile(c) \/ Step(c) \/ Deferred(c) \/ LeaseLost(c) \/ RangeUnbounded(c)
      PROVE  RecoverabilityInv'
  <2>1. CASE reconcile(c) \/ StartChained(c)
    BY <2>1, StartSteps
  <2>2. CASE Finish(c)
    BY <2>2, FinishStep
  <2>3. CASE \/ CheckRequirements(c) \/ InspectPending(c)
             \/ Deferred(c) \/ LeaseLost(c) \/ RangeUnbounded(c)
    BY <2>3, MarkSteps
  <2>4. CASE RecordRecovered(c) \/ RecordRenewed(c)
    BY <2>4, RecordSteps
  <2>5. CASE ReconcileDatabases(c)
    BY <2>5, ReconcileStep
  <2>6. CASE ReadSources(c) \/ ObserveHead(c)
    BY <2>6, ReadSteps
  <2>7. CASE JudgeHead(c) \/ SettleJournal(c) \/ SettleRenewal(c)
    BY <2>7, SettleSteps
  <2>8. CASE restoreDrill(c) \/ RenewBackup(c)
    BY <2>8, DrillSteps
  <2>9. QED
    BY <1>1, <2>1, <2>2, <2>3, <2>4, <2>5, <2>6, <2>7, <2>8 DEF Step
<1>2. CASE Mutate \/ MutationFails \/ RecoverInline
  BY <1>2, OwnSteps
<1>3. CASE OtherMutates \/ OtherRenews \/ Age
  BY <1>3, OtherSteps
<1>4. CASE UNCHANGED vars
  BY <1>4 DEF vars, databases, backup, calls, RecoverabilityInv, DataTypes, HeadBound,
              Waits, Covered, Told
<1>5. QED
  BY <1>1, <1>2, <1>3, <1>4 DEF Next

LEMMA RecoverabilityHolds == Spec => []RecoverabilityInv
BY RecoverabilityInit, RecoverabilityStep, PTL DEF Spec

\* Every field keeps its type, and whoever joined a run or chained one behind it
\* waits for a run that is going to settle (TypeOK), for every set of callers,
\* whatever validities they ask for.
THEOREM RecoverabilityTypeCorrect == Spec => []TypeOK
<1>1. RecoverabilityInv => TypeOK
  <2> SUFFICES ASSUME RecoverabilityInv PROVE TypeOK
    OBVIOUS
  <2> USE DEF RecoverabilityInv
  <2>1. \A c \in Callers : run[c].pc \in {"joined", "chained"} =>
          run[run[c].on].pc \in Runs \cup {"returned", "thrown"}
    BY DEF Waits, Settling
  <2>2. inFlight # NoCaller => run[inFlight].pc \in Runs \cup {"returned", "thrown"}
    BY DEF Waits, Settling
  <2>3. QED
    BY <2>1, <2>2 DEF DataTypes, TypeOK, Records, Epochs
<1>2. QED
  BY <1>1, RecoverabilityHolds, PTL

\* A side effect is permitted only while the published bundle restores every
\* mutation that this process was told is finalized (PermitCovered), however many
\* callers, mutations, renewals and faults overlap.
THEOREM PermitsAreCovered == Spec => []PermitCovered
<1>1. RecoverabilityInv => PermitCovered
  BY DEF RecoverabilityInv, PermitCovered, Permit, Covered, Told, DataTypes, Heads, Epochs
<1>2. QED
  BY <1>1, RecoverabilityHolds, PTL
=============================================================================
