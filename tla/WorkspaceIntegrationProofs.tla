---------------------- MODULE WorkspaceIntegrationProofs ----------------------
(***************************************************************************)
(* Proofs about WorkspaceIntegration, for every set of processes, attempts *)
(* and files, and every bound.                                             *)
(*                                                                         *)
(* The argument has three layers.  The commit lock: a live token is the    *)
(* one in the directory, and a token that a reaper has read is nobody's,   *)
(* for ever; so an eviction never removes a live owner and at most one     *)
(* process integrates.  The journal: with one integrator, the only file    *)
(* that an attempt may have written and not marked is the first of its     *)
(* pending ones, and an integrated attempt has none pending.  The source:  *)
(* it differs from what the receipts say only in files that an attempt     *)
(* without a receipt has written.                                          *)
(***************************************************************************)
EXTENDS WorkspaceIntegration, FiniteSums

-----------------------------------------------------------------------------
(* The commit lock. *)

LockTypes ==
  /\ dir \in Tokens \cup {"absent", "empty"}
  /\ pc \in [Processes -> Acquiring \cup Integrating \cup {"idle", "rmdir"}]
  /\ task \in [Processes -> Attempts \cup {NoAttempt}]
  /\ mine \in [Processes -> Tokens \cup {NoToken}]
  /\ read \in [Processes -> Tokens \cup {NoToken}]
  /\ tries \in [Processes -> 0 .. Tries - 1]

\* What the lock tells of one process: it is on an attempt unless it is idle, it
\* has a token while it integrates, its token is the one in the directory, and the
\* token it has read as a reaper is nobody's.
LockOf(p) ==
  /\ pc[p] # "idle" => task[p] \in Attempts
  /\ pc[p] \in Integrating => mine[p] # NoToken
  /\ mine[p] # NoToken => dir = mine[p]
  /\ read[p] # NoToken => Stale(read[p])
  /\ pc[p] = "evict" => read[p] # NoToken

LockInv ==
  /\ LockTypes
  /\ \A p \in Processes : LockOf(p)
  /\ \A p, q \in Processes : mine[p] # NoToken /\ mine[p] = mine[q] => p = q

lockVars == <<lock, local>>

LEMMA LockInit == Init => LockInv
<1> SUFFICES ASSUME Init PROVE LockInv
  OBVIOUS
<1>1. LockTypes
  BY BoundsAssumption DEF Init, LockTypes
<1>2. \A p \in Processes : LockOf(p)
  BY DEF Init, LockOf, Integrating
<1>3. QED
  BY <1>1, <1>2 DEF Init, LockInv

\* Leaving, going round again and moving on, with the token and the directory kept.
LEMMA LockKept ==
  ASSUME LockInv, NEW p \in Processes, UNCHANGED <<dir, mine>>,
         \/ Leave(p)
         \/ pc[p] # "idle" /\ Retry(p)
         \/ \E to \in {"acquire", "contend", "rmdir", "release"} :
              Go(p, to) /\ UNCHANGED <<read, tries>> /\ pc[p] # "idle"
              /\ (to = "release" => pc[p] \in Integrating)
  PROVE  LockInv'
<1> USE DEF LockInv, Leave, Retry, Go
<1>1. LockTypes'
  BY BoundsAssumption DEF LockTypes, Acquiring, Integrating
<1>2. ASSUME NEW q \in Processes PROVE LockOf(q)'
  BY <1>2 DEF LockTypes, LockOf, Stale, Integrating
<1>3. QED
  BY <1>1, <1>2

\* A fresh token is put into a directory that nobody owns.
LEMMA LockTaken ==
  ASSUME LockInv, NEW p \in Processes, RenameIntoPlace(p)
  PROVE  LockInv'
<1> USE DEF LockInv, RenameIntoPlace
<1>1. CASE dir \in {"absent", "empty"}
  <2>1. PICK t \in Tokens \ InUse : dir' = t /\ mine' = [mine EXCEPT ![p] = t]
    BY <1>1
  <2>2. \A q \in Processes : mine[q] = NoToken
    BY <1>1, TokensAssumption DEF LockTypes, LockOf
  <2>3. LockTypes'
    BY <1>1, <2>1, BoundsAssumption DEF LockTypes, Go, Integrating
  <2>4. \A q \in Processes : t # read[q]
    BY <2>1 DEF InUse
  <2>5. ASSUME NEW q \in Processes PROVE LockOf(q)'
    BY <1>1, <2>1, <2>2, <2>4, <2>5, TokensAssumption
       DEF LockTypes, LockOf, Stale, Integrating, Go
  <2>6. QED
    BY <2>1, <2>2, <2>3, <2>5, TokensAssumption DEF LockTypes
<1>2. CASE dir \notin {"absent", "empty"}
  BY <1>2, LockKept
<1>3. QED
  BY <1>1, <1>2

\* A contender reads a stale token or is sent away.
LEMMA LockRead ==
  ASSUME LockInv, NEW p \in Processes, readWorkspaceCommitLockOwnerSync(p)
  PROVE  LockInv'
<1> USE DEF readWorkspaceCommitLockOwnerSync
<1>1. CASE Leave(p) \/ Retry(p)
  BY <1>1, LockKept
<1>2. CASE dir \in Tokens /\ Stale(dir) /\ Go(p, "evict")
           /\ read' = [read EXCEPT ![p] = dir] /\ UNCHANGED <<fate, tries>>
  <2>1. LockTypes'
    BY <1>2 DEF LockInv, LockTypes, Go, Acquiring
  <2>2. ASSUME NEW q \in Processes PROVE LockOf(q)'
    BY <1>2, <2>2, TokensAssumption DEF LockInv, LockTypes, LockOf, Stale, Go, Integrating
  <2>3. QED
    BY <1>2, <2>1, <2>2 DEF LockInv
<1>3. QED
  BY <1>1, <1>2

\* The owner file that a reaper unlinks is nobody's.
LEMMA LockEvicted ==
  ASSUME LockInv, NEW p \in Processes, UnlinkStaleOwner(p)
  PROVE  LockInv'
<1> USE DEF UnlinkStaleOwner
<1>1. CASE dir = read[p] /\ dir' = "empty" /\ Go(p, "rmdir") /\ UNCHANGED <<read, tries>>
  <2>1. \A q \in Processes : mine[q] = NoToken
    BY <1>1 DEF LockInv, LockOf, Stale
  <2>2. LockTypes'
    BY <1>1 DEF LockInv, LockTypes, Go
  <2>3. ASSUME NEW q \in Processes PROVE LockOf(q)'
    BY <1>1, <2>1, <2>3 DEF LockInv, LockTypes, LockOf, Stale, Go, Integrating
  <2>4. QED
    BY <2>1, <2>2, <2>3 DEF LockInv
<1>2. CASE dir # read[p] /\ Retry(p) /\ UNCHANGED dir
  BY <1>2, LockKept
<1>3. QED
  BY <1>1, <1>2

LEMMA LockRemoved ==
  ASSUME LockInv, NEW p \in Processes, RemoveDirectory(p)
  PROVE  LockInv'
<1> USE DEF RemoveDirectory
<1>1. CASE dir = "empty"
  <2>1. \A q \in Processes : mine[q] = NoToken
    BY <1>1, TokensAssumption DEF LockInv, LockTypes, LockOf
  <2>2. LockTypes'
    BY <1>1, BoundsAssumption DEF LockInv, LockTypes, Go, Leave, Retry, Acquiring
  <2>3. ASSUME NEW q \in Processes PROVE LockOf(q)'
    BY <1>1, <2>1, <2>3 DEF LockInv, LockTypes, LockOf, Stale, Go, Leave, Retry, Integrating
  <2>4. QED
    BY <2>1, <2>2, <2>3 DEF LockInv
<1>2. CASE dir # "empty"
  BY <1>2, LockKept
<1>3. QED
  BY <1>1, <1>2

\* The integrator moves on under the lock.
LEMMA LockInside ==
  ASSUME LockInv, NEW p \in Processes,
         NEW from \in Integrating, NEW to \in Integrating, Inside(p, from, to)
  PROVE  LockInv'
<1> USE DEF LockInv, Inside, lock
<1>1. LockTypes'
  BY DEF LockTypes
<1>2. ASSUME NEW q \in Processes PROVE LockOf(q)'
  BY <1>2 DEF LockTypes, LockOf, Stale, Integrating
<1>3. QED
  BY <1>1, <1>2

\* The owner gives its token up, whether or not it empties the directory.
LEMMA LockReleased ==
  ASSUME LockInv, NEW p \in Processes, Release(p) \/ Crash(p)
  PROVE  LockInv'
<1> USE DEF Release, Crash, Owned, Leave, Go
<1>1. LockTypes'
  BY BoundsAssumption DEF LockInv, LockTypes
<1>2. Release(p) => \A q \in Processes \ {p} : mine[q] = NoToken
  BY DEF LockInv, LockOf, Integrating
<1>3. ASSUME NEW q \in Processes PROVE LockOf(q)'
  BY <1>2, <1>3 DEF LockInv, LockTypes, LockOf, Stale, Integrating
<1>4. QED
  BY <1>1, <1>3 DEF LockInv, LockTypes

LEMMA LockStarted ==
  ASSUME LockInv, NEW p \in Processes, Start(p)
  PROVE  LockInv'
<1> USE DEF Start, LockInv, lock
<1>1. LockTypes'
  BY DEF LockTypes, Acquiring
<1>2. ASSUME NEW q \in Processes PROVE LockOf(q)'
  BY <1>2 DEF LockTypes, LockOf, Stale, Integrating
<1>3. QED
  BY <1>1, <1>2

LEMMA LockUntouched ==
  ASSUME LockInv, UNCHANGED lockVars
  PROVE  LockInv'
BY DEF LockInv, LockTypes, LockOf, Stale, lockVars, lock, local

LEMMA LockIntegrating ==
  ASSUME LockInv, NEW p \in Processes, integrateWorkspaceAttemptSync(p)
  PROVE  LockInv'
<1>1. CASE Validate(p)
  BY <1>1, LockInside DEF Validate, Refuse, Integrating
<1>2. CASE ApplyNext(p)
  BY <1>2, LockInside DEF ApplyNext, Refuse, Integrating
<1>3. CASE persistWorkspaceIntegrationJournalSync(p)
  BY <1>3, LockInside DEF persistWorkspaceIntegrationJournalSync, Integrating
<1>4. CASE CheckFinalManifest(p)
  BY <1>4, LockInside DEF CheckFinalManifest, Refuse, Integrating
<1>5. CASE ReturnReceipt(p)
  BY <1>5, LockInside DEF ReturnReceipt, Integrating
<1>6. CASE Release(p)
  BY <1>6, LockReleased
<1>7. QED
  BY <1>1, <1>2, <1>3, <1>4, <1>5, <1>6 DEF integrateWorkspaceAttemptSync

LEMMA LockPreserved == LockInv /\ [Next]_vars => LockInv'
<1> SUFFICES ASSUME LockInv, [Next]_vars PROVE LockInv'
  OBVIOUS
<1>1. ASSUME NEW a \in Attempts, Prepare(a) PROVE LockInv'
  BY <1>1, LockUntouched DEF Prepare, SnapshotSource, Describe, lockVars
<1>2. ASSUME NEW p \in Processes, Start(p) PROVE LockInv'
  BY <1>2, LockStarted
<1>3. ASSUME NEW p \in Processes, Contend(p) PROVE LockInv'
  BY <1>3, LockTaken, LockRead, LockEvicted, LockRemoved DEF Contend
<1>4. ASSUME NEW p \in Processes, integrateWorkspaceAttemptSync(p) PROVE LockInv'
  BY <1>4, LockIntegrating
<1>5. ASSUME NEW p \in Processes, LoseLock(p) PROVE LockInv'
  BY <1>5, LockKept DEF LoseLock
<1>6. ASSUME NEW p \in Processes, Fault(p) PROVE LockInv'
  BY <1>6, LockKept DEF Fault, lock, Integrating
<1>7. ASSUME NEW p \in Processes, Crash(p) PROVE LockInv'
  BY <1>7, LockReleased
<1>8. CASE Edit
  BY <1>8, LockUntouched DEF Edit, lockVars
<1>9. CASE UNCHANGED vars
  BY <1>9, LockUntouched DEF vars, lockVars
<1>10. QED
  BY <1>1, <1>2, <1>3, <1>4, <1>5, <1>6, <1>7, <1>8, <1>9 DEF Next

LEMMA LockHolds == Spec => []LockInv
BY LockInit, LockPreserved, PTL DEF Spec

LEMMA LockExcludes == LockInv => OneIntegrator
BY DEF LockInv, LockOf, OneIntegrator

\* At most one process is between taking the commit lock and giving it back, for
\* any number of processes, deaths and evictions (OneIntegrator).
THEOREM LockIsExclusive == Spec => []OneIntegrator
BY LockHolds, LockExcludes, PTL

-----------------------------------------------------------------------------
(* The journal. *)

\* A set of paths that is not empty has a first one, by the order of the descriptor.
LEMMA FirstIsLeast ==
  ASSUME NEW S, S \subseteq Files, S # {}
  PROVE  First(S) \in S /\ \A g \in S : First(S) <= g
<1>1. \E f \in S : \A g \in S : f <= g
  BY FilesAssumption, LeastNumber
<1>2. QED
  BY <1>1 DEF First

JournalTypes ==
  /\ source \in Tree /\ line \in Tree
  /\ fate \in [Attempts -> {"new", "cloning", "described", "integrated", "abandoned", "failed"}]
  /\ base \in [Attempts -> Tree] /\ post \in [Attempts -> Tree]
  /\ journal \in [Attempts -> [status : {"none", "integrating", "completed"},
                               applied : SUBSET Files]]
  /\ wrote \in [Attempts -> SUBSET Files]
  /\ late \subseteq Files
  /\ edited \in BOOLEAN /\ troubles \in 0 .. MaxTroubles

\* What an attempt has written and marked are changes it is to make, and nothing
\* before it is described; the one file that it may have written and not marked is
\* the first of the pending ones; an integrated attempt has none pending.
JournalOf(a) ==
  /\ wrote[a] \subseteq Changes(a) /\ journal[a].applied \subseteq Changes(a)
  /\ fate[a] \in {"new", "cloning"} => wrote[a] = {} /\ journal[a].applied = {}
  /\ wrote[a] # {} => journal[a].status # "none"
  /\ \A f \in wrote[a] \ journal[a].applied : \A g \in Pending(a) : f <= g
  /\ fate[a] = "integrated" => Pending(a) = {}

\* A process is on an attempt that is described, whose journal it has written when
\* it applies the changes; it marks a change that is pending; and the receipt it is
\* about to return describes the source, but for edits that came after.
WorkOf(p) ==
  /\ pc[p] # "idle" => fate[task[p]] \notin {"new", "cloning"}
  /\ pc[p] \in {"apply", "record", "final"} => journal[task[p]].status # "none"
  /\ pc[p] = "record" => Pending(task[p]) # {}
  /\ pc[p] = "final" =>
       /\ Pending(task[p]) = {}
       /\ \A f \in Files \ late : source[f] = Integrated(task[p])[f]

\* Without edits, the source differs from what the receipts say only where an
\* attempt without a receipt has written.
SourceInv ==
  ~ edited =>
    /\ late = {}
    /\ \A f \in Files : source[f] # line[f] =>
         \E a \in Attempts : f \in wrote[a] /\ fate[a] # "integrated"

JournalInv ==
  /\ JournalTypes
  /\ \A a \in Attempts : JournalOf(a)
  /\ \A p \in Processes : WorkOf(p)
  /\ SourceInv

\* What the layers below say of an integrator.
Context == LockInv /\ LockInv' /\ OneIntegrator /\ OneIntegrator'

LEMMA JournalInit == Init => JournalInv
<1> SUFFICES ASSUME Init PROVE JournalInv
  OBVIOUS
<1>1. JournalTypes
  <2>1. Original \in Tree
    BY DEF Original, Tree, Hashes
  <2>2. edited \in BOOLEAN
    BY DEF Init
  <2>3. troubles \in 0 .. MaxTroubles
    BY BoundsAssumption DEF Init
  <2>4. QED
    BY <2>1, <2>2, <2>3 DEF Init, JournalTypes, NoJournal
<1>2. \A a \in Attempts : JournalOf(a)
  BY DEF Init, JournalOf, NoJournal, Changes, Pending
<1>3. (\A p \in Processes : WorkOf(p)) /\ SourceInv
  BY DEF Init, WorkOf, SourceInv
<1>4. QED
  BY <1>1, <1>2, <1>3 DEF JournalInv

\* The step of a contender: it fails the attempt at most.
LEMMA JournalContend ==
  ASSUME JournalInv, Context, NEW p \in Processes, Start(p) \/ Contend(p)
  PROVE  JournalInv'
<1>1. UNCHANGED <<source, base, post, journal, history, bounds>>
  BY DEF Start, Contend, RenameIntoPlace, readWorkspaceCommitLockOwnerSync, UnlinkStaleOwner,
         RemoveDirectory, LockStep, attempts
<1>2. \A a \in Attempts : fate'[a] # fate[a] => fate[a] = "described" /\ fate'[a] = "failed"
  BY DEF JournalInv, JournalTypes, Start, Contend, RenameIntoPlace, LockStep, attempts,
         readWorkspaceCommitLockOwnerSync, UnlinkStaleOwner, RemoveDirectory
<1>3. fate' \in [Attempts -> {"new", "cloning", "described", "integrated", "abandoned", "failed"}]
  BY DEF JournalInv, JournalTypes, Start, Contend, RenameIntoPlace, LockStep, attempts,
         readWorkspaceCommitLockOwnerSync, UnlinkStaleOwner, RemoveDirectory
<1>4. \A q \in Processes \ {p} : pc'[q] = pc[q] /\ task'[q] = task[q]
  BY DEF Context, LockInv, LockTypes, Start, Contend, RenameIntoPlace, LockStep,
         readWorkspaceCommitLockOwnerSync, UnlinkStaleOwner, RemoveDirectory, Go, Leave, Retry
<1>5. /\ pc'[p] \notin {"apply", "record", "final"}
      /\ pc'[p] # "idle" =>
           \/ pc[p] # "idle" /\ task'[p] = task[p]
           \/ fate[task'[p]] = "described"
  BY DEF Context, LockInv, LockTypes, Start, Contend, RenameIntoPlace, LockStep,
         readWorkspaceCommitLockOwnerSync, UnlinkStaleOwner, RemoveDirectory, Go, Leave, Retry
<1>6. JournalTypes'
  BY <1>1, <1>3 DEF JournalInv, JournalTypes, history, bounds
<1>7. ASSUME NEW a \in Attempts PROVE JournalOf(a)'
  BY <1>1, <1>2, <1>7 DEF JournalInv, JournalOf, Changes, Pending, history
<1>8. ASSUME NEW q \in Processes PROVE WorkOf(q)'
  BY <1>1, <1>2, <1>4, <1>5, <1>8 DEF JournalInv, WorkOf, Changes, Pending, Integrated, history, Context, LockInv, LockOf
<1>9. SourceInv'
  BY <1>1, <1>2 DEF JournalInv, SourceInv, history, bounds
<1>10. QED
  BY <1>6, <1>7, <1>8, <1>9 DEF JournalInv

\* A process that leaves its work where it is: it stops integrating, whatever of the
\* attempt's fate it decides.
LEMMA JournalStops ==
  ASSUME JournalInv, Context, NEW p \in Processes,
         UNCHANGED <<source, base, post, journal, history, edited>>,
         troubles' \in 0 .. MaxTroubles,
         pc'[p] \in {"idle", "release", "rmdir"},
         pc'[p] # "idle" => pc[p] # "idle" /\ task'[p] = task[p],
         \A q \in Processes \ {p} : pc'[q] = pc[q] /\ task'[q] = task[q],
         fate' \in [Attempts -> {"new", "cloning", "described", "integrated", "abandoned", "failed"}],
         \A a \in Attempts : fate'[a] # fate[a] =>
           fate[a] = "described" /\ fate'[a] \in {"abandoned", "failed"}
  PROVE  JournalInv'
<1>1. JournalTypes'
  BY DEF JournalInv, JournalTypes, history
<1>2. ASSUME NEW a \in Attempts PROVE JournalOf(a)'
  BY <1>2 DEF JournalInv, JournalOf, Changes, Pending, history
<1>3. ASSUME NEW q \in Processes PROVE WorkOf(q)'
  BY <1>3 DEF JournalInv, WorkOf, Changes, Pending, Integrated, history, Context, LockInv, LockOf
<1>4. SourceInv'
  BY DEF JournalInv, SourceInv, history
<1>5. QED
  BY <1>1, <1>2, <1>3, <1>4 DEF JournalInv

LEMMA JournalInterrupted ==
  ASSUME JournalInv, Context, NEW p \in Processes,
         Release(p) \/ LoseLock(p) \/ Fault(p) \/ Crash(p)
  PROVE  JournalInv'
<1> USE DEF Release, LoseLock, Fault, Crash, LockStep, Leave, Go, attempts
<1>1. troubles' \in 0 .. MaxTroubles
  BY BoundsAssumption DEF JournalInv, JournalTypes, Trouble, bounds
<1>2. /\ pc'[p] \in {"idle", "release", "rmdir"}
      /\ pc'[p] # "idle" => pc[p] # "idle" /\ task'[p] = task[p]
      /\ \A q \in Processes \ {p} : pc'[q] = pc[q] /\ task'[q] = task[q]
  BY DEF Context, LockInv, LockTypes
<1>3. UNCHANGED <<source, fate, base, post, journal, history, edited>>
  BY DEF bounds
<1>4. QED
  BY <1>1, <1>2, <1>3, JournalStops DEF JournalInv, JournalTypes

LEMMA JournalRefused ==
  ASSUME JournalInv, Context, NEW p \in Processes, NEW from \in {"locked", "apply"},
         NEW verdict \in {"abandoned", "failed"}, Refuse(p, from, verdict)
  PROVE  JournalInv'
<1> USE DEF Refuse, Inside
<1>1. /\ pc'[p] \in {"idle", "release", "rmdir"}
      /\ pc'[p] # "idle" => pc[p] # "idle" /\ task'[p] = task[p]
      /\ \A q \in Processes \ {p} : pc'[q] = pc[q] /\ task'[q] = task[q]
  BY DEF Context, LockInv, LockTypes
<1>2. /\ fate' \in [Attempts -> {"new", "cloning", "described", "integrated", "abandoned", "failed"}]
      /\ \A a \in Attempts : fate'[a] # fate[a] =>
           fate[a] = "described" /\ fate'[a] \in {"abandoned", "failed"}
  BY DEF JournalInv, JournalTypes
<1>3. troubles' \in 0 .. MaxTroubles /\ UNCHANGED edited
  BY DEF JournalInv, JournalTypes, bounds
<1>4. QED
  BY <1>1, <1>2, <1>3, JournalStops

\* Nobody is on an attempt that is not described yet, and nothing has been done for it.
LEMMA JournalPrepared ==
  ASSUME JournalInv, Context, NEW a \in Attempts, Prepare(a)
  PROVE  JournalInv'
<1> USE DEF Prepare, SnapshotSource, Describe
<1>1. /\ UNCHANGED <<source, journal, local, history, bounds>>
      /\ fate[a] \in {"new", "cloning"} /\ fate'[a] \in {"new", "cloning", "described"}
      /\ \A b \in Attempts \ {a} : base'[b] = base[b] /\ post'[b] = post[b] /\ fate'[b] = fate[b]
  BY DEF JournalInv, JournalTypes
<1>2. JournalTypes'
  <2>1. fate' \in [Attempts -> {"new", "cloning", "described", "integrated", "abandoned", "failed"}]
    BY DEF JournalInv, JournalTypes
  <2>2. base' \in [Attempts -> Tree] /\ post' \in [Attempts -> Tree]
    BY OutcomesAssumption DEF JournalInv, JournalTypes
  <2>3. QED
    BY <1>1, <2>1, <2>2 DEF JournalInv, JournalTypes, history, bounds
<1>3. ASSUME NEW b \in Attempts PROVE JournalOf(b)'
  BY <1>1, <1>3 DEF JournalInv, JournalOf, Changes, Pending, history
<1>4. ASSUME NEW q \in Processes PROVE WorkOf(q)'
  <2>1. pc[q] # "idle" => task[q] \in Attempts \ {a}
    BY <1>1 DEF JournalInv, WorkOf, Context, LockInv, LockOf
  <2>2. QED
    BY <1>1, <2>1 DEF JournalInv, WorkOf, Changes, Pending, Integrated, history, local
<1>5. SourceInv'
  BY <1>1 DEF JournalInv, SourceInv, history, bounds
<1>6. QED
  BY <1>2, <1>3, <1>4, <1>5 DEF JournalInv

\* The journal is brought up to what is in the source.
LEMMA JournalLoaded ==
  ASSUME JournalInv, Context, NEW p \in Processes, Validate(p)
  PROVE  JournalInv'
<1> DEFINE a == task[p]
<1>1. CASE Refuse(p, "locked", "abandoned") \/ Refuse(p, "locked", "failed")
  BY <1>1, JournalRefused
<1>2. CASE /\ journal[a].applied \subseteq Already(a) /\ Inside(p, "locked", "apply")
           /\ journal' = [journal EXCEPT ![a] = [status |-> "integrating", applied |-> Already(a)]]
           /\ UNCHANGED <<source, attempts, history>>
  <2>1. a \in Attempts /\ Already(a) \subseteq Changes(a) /\ Changes(a) \subseteq Files
    BY <1>2 DEF Context, LockInv, LockOf, Inside, Already, Changes
  <2>2. JournalTypes'
    BY <1>2, <2>1 DEF JournalInv, JournalTypes, history, attempts, bounds, Inside
  <2>3. /\ journal'[a].applied = Already(a) /\ journal'[a].status = "integrating"
        /\ \A b \in Attempts \ {a} : journal'[b] = journal[b]
    BY <1>2, <2>1 DEF JournalInv, JournalTypes
  <2>4. fate[a] \notin {"new", "cloning"}
    BY <1>2 DEF JournalInv, WorkOf, Inside
  <2>5. ASSUME NEW b \in Attempts PROVE JournalOf(b)'
    BY <1>2, <2>1, <2>3, <2>4, <2>5 DEF JournalInv, JournalOf, Changes, Pending, history, attempts
  <2>6. /\ pc[p] = "locked" /\ pc'[p] = "apply" /\ UNCHANGED task
        /\ \A q \in Processes \ {p} : pc'[q] = pc[q]
    BY <1>2 DEF Context, LockInv, LockTypes, Inside
  <2>7. ASSUME NEW q \in Processes PROVE WorkOf(q)'
    <3>1. CASE q = p
      BY <1>2, <2>3, <2>4, <2>6, <3>1 DEF WorkOf, attempts
    <3>2. CASE q # p
      <4>1. pc[q] \notin {"apply", "record", "final"}
        BY <2>6, <3>2 DEF Context, OneIntegrator, Integrating
      <4>2. QED
        BY <1>2, <2>6, <2>7, <3>2, <4>1 DEF JournalInv, WorkOf, attempts
    <3>3. QED
      BY <3>1, <3>2
  <2>8. SourceInv'
    BY <1>2 DEF JournalInv, SourceInv, history, attempts, Inside, bounds
  <2>9. QED
    BY <2>2, <2>5, <2>7, <2>8 DEF JournalInv
<1>3. QED
  BY <1>1, <1>2 DEF Validate

\* A change is made, or is found made: it is the first of the pending ones.
LEMMA JournalApplied ==
  ASSUME JournalInv, Context, NEW p \in Processes, ApplyNext(p)
  PROVE  JournalInv'
<1> DEFINE a == task[p]
<1> DEFINE f == First(Pending(a))
<1>1. CASE Refuse(p, "apply", "abandoned")
  BY <1>1, JournalRefused
<1>2. CASE /\ Inside(p, "apply", "record") /\ UNCHANGED <<attempts, journal, late, line>>
           /\ \/ UNCHANGED <<source, wrote>>
              \/ /\ source' = [source EXCEPT ![f] = post[a][f]]
                 /\ wrote' = [wrote EXCEPT ![a] = @ \cup {f}]
  <2>1. a \in Attempts /\ Pending(a) # {}
    BY <1>2 DEF Context, LockInv, LockOf, Inside, ApplyNext
  <2>2. f \in Pending(a) /\ (\A g \in Pending(a) : f <= g) /\ f \in Changes(a) /\ f \in Files
    BY <2>1, FirstIsLeast DEF Pending, Changes
  <2>3. fate[a] # "integrated" /\ fate[a] \notin {"new", "cloning"} /\ journal[a].status # "none"
    BY <1>2, <2>1 DEF JournalInv, JournalOf, WorkOf, Inside
  <2>4. JournalTypes'
    <3>1. post[a][f] \in Hashes
      BY <2>1, <2>2 DEF JournalInv, JournalTypes, Tree
    <3>2. source' \in Tree
      BY <1>2, <3>1 DEF JournalInv, JournalTypes, Tree
    <3>3. wrote' \in [Attempts -> SUBSET Files]
      BY <1>2, <2>2 DEF JournalInv, JournalTypes
    <3>4. QED
      BY <1>2, <3>2, <3>3 DEF JournalInv, JournalTypes, attempts, bounds, Inside
  <2>5. ASSUME NEW b \in Attempts PROVE JournalOf(b)'
    <3>1. wrote'[b] \subseteq wrote[b] \cup {f} /\ (b # a => wrote'[b] = wrote[b])
      BY <1>2, <2>1, <2>5 DEF JournalInv, JournalTypes
    <3>2. Pending(b)' = Pending(b) /\ Changes(b)' = Changes(b)
      BY <1>2 DEF Pending, Changes, attempts
    <3>3. QED
      BY <1>2, <2>2, <2>3, <2>5, <3>1, <3>2 DEF JournalInv, JournalOf, attempts
  <2>6. /\ pc[p] = "apply" /\ pc'[p] = "record" /\ UNCHANGED task
        /\ \A q \in Processes \ {p} : pc'[q] = pc[q]
    BY <1>2 DEF Context, LockInv, LockTypes, Inside
  <2>7. ASSUME NEW q \in Processes PROVE WorkOf(q)'
    <3>1. CASE q = p
      BY <1>2, <2>1, <2>3, <2>6, <3>1 DEF WorkOf, Pending, Changes, attempts
    <3>2. CASE q # p
      <4>1. pc[q] \notin {"apply", "record", "final"}
        BY <2>6, <3>2 DEF Context, OneIntegrator, Integrating
      <4>2. QED
        BY <1>2, <2>6, <2>7, <3>2, <4>1 DEF JournalInv, WorkOf, attempts
    <3>3. QED
      BY <3>1, <3>2
  <2>8. SourceInv'
    <3>1. SUFFICES ASSUME ~ edited', NEW g \in Files, source'[g] # line'[g]
                   PROVE  \E b \in Attempts : g \in wrote'[b] /\ fate'[b] # "integrated"
      BY <1>2 DEF SourceInv, JournalInv, Inside, bounds
    <3>2. \A b \in Attempts : wrote[b] \subseteq wrote'[b]
      BY <1>2, <2>1 DEF JournalInv, JournalTypes
    <3>3. CASE source'[g] = source[g]
      BY <1>2, <3>1, <3>2, <3>3 DEF JournalInv, SourceInv, Inside, bounds, attempts
    <3>4. CASE source'[g] # source[g]
      <4>1. g = f /\ f \in wrote'[a]
        BY <1>2, <2>1, <2>2, <3>4 DEF JournalInv, JournalTypes, Tree
      <4>2. QED
        BY <1>2, <2>1, <2>3, <4>1 DEF attempts
    <3>5. QED
      BY <3>3, <3>4
  <2>9. QED
    BY <2>4, <2>5, <2>7, <2>8 DEF JournalInv
<1>3. QED
  BY <1>1, <1>2 DEF ApplyNext, history

\* The change in flight is marked.
LEMMA JournalMarked ==
  ASSUME JournalInv, Context, NEW p \in Processes, persistWorkspaceIntegrationJournalSync(p)
  PROVE  JournalInv'
<1> DEFINE a == task[p]
<1> DEFINE f == First(Pending(a))
<1> USE DEF persistWorkspaceIntegrationJournalSync
<1>1. a \in Attempts /\ Pending(a) # {} /\ journal[a].status # "none"
      /\ fate[a] \notin {"new", "cloning"}
  BY DEF Context, LockInv, LockOf, Inside, JournalInv, WorkOf
<1>2. f \in Pending(a) /\ (\A g \in Pending(a) : f <= g) /\ f \in Changes(a) /\ f \in Files
  BY <1>1, FirstIsLeast DEF Pending, Changes
<1>3. /\ journal'[a].status = journal[a].status
      /\ journal'[a].applied = journal[a].applied \cup {f}
      /\ \A b \in Attempts \ {a} : journal'[b] = journal[b]
  BY <1>1 DEF JournalInv, JournalTypes
<1>4. JournalTypes'
  BY <1>1, <1>2 DEF JournalInv, JournalTypes, attempts, history, bounds, Inside
<1>5. ASSUME NEW b \in Attempts PROVE JournalOf(b)'
  <2>1. Changes(b)' = Changes(b) /\ Pending(b)' \subseteq Pending(b)
    BY <1>3, <1>5 DEF Pending, Changes, attempts
  <2>2. QED
    BY <1>1, <1>2, <1>3, <1>5, <2>1 DEF JournalInv, JournalOf, attempts, history
<1>6. /\ pc[p] = "record" /\ pc'[p] = "apply" /\ UNCHANGED task
      /\ \A q \in Processes \ {p} : pc'[q] = pc[q]
  BY DEF Context, LockInv, LockTypes, Inside
<1>7. ASSUME NEW q \in Processes PROVE WorkOf(q)'
  <2>1. CASE q = p
    BY <1>1, <1>3, <1>6, <2>1 DEF WorkOf, attempts
  <2>2. CASE q # p
    <3>1. pc[q] \notin {"apply", "record", "final"}
      BY <1>6, <2>2 DEF Context, OneIntegrator, Integrating
    <3>2. QED
      BY <1>6, <1>7, <2>2, <3>1 DEF JournalInv, WorkOf, attempts
  <2>3. QED
    BY <2>1, <2>2
<1>8. SourceInv'
  BY DEF JournalInv, SourceInv, history, attempts, Inside, bounds
<1>9. QED
  BY <1>4, <1>5, <1>7, <1>8 DEF JournalInv

\* The source is compared with what the receipt is to say.
LEMMA JournalCompared ==
  ASSUME JournalInv, Context, NEW p \in Processes, CheckFinalManifest(p)
  PROVE  JournalInv'
<1> DEFINE a == task[p]
<1>1. CASE Refuse(p, "apply", "failed")
  BY <1>1, JournalRefused
<1>2. CASE /\ Pending(a) = {} /\ source = Integrated(a) /\ Inside(p, "apply", "final")
           /\ UNCHANGED <<source, attempts, journal, history>>
  <2>1. JournalTypes'
    BY <1>2 DEF JournalInv, JournalTypes, attempts, history, bounds, Inside
  <2>2. ASSUME NEW b \in Attempts PROVE JournalOf(b)'
    BY <1>2, <2>2 DEF JournalInv, JournalOf, Changes, Pending, attempts, history
  <2>3. ASSUME NEW q \in Processes PROVE WorkOf(q)'
    BY <1>2, <2>3 DEF JournalInv, WorkOf, Changes, Pending, Integrated, attempts, history,
                      Inside, Context, LockInv, LockTypes
  <2>4. SourceInv'
    BY <1>2 DEF JournalInv, SourceInv, attempts, history, bounds, Inside
  <2>5. QED
    BY <2>1, <2>2, <2>3, <2>4 DEF JournalInv
<1>3. QED
  BY <1>1, <1>2 DEF CheckFinalManifest

\* The receipt: what the attempt has written is in the source, and what it has not
\* changed is what it read.
LEMMA JournalReceipted ==
  ASSUME JournalInv, Context, NEW p \in Processes, ReturnReceipt(p)
  PROVE  JournalInv'
<1> DEFINE a == task[p]
<1> USE DEF ReturnReceipt
<1>1. /\ a \in Attempts /\ fate[a] \notin {"new", "cloning"} /\ Pending(a) = {}
      /\ \A f \in Files \ late : source[f] = Integrated(a)[f]
  BY DEF Context, LockInv, LockOf, Inside, JournalInv, WorkOf
<1>2. /\ journal'[a].status = "completed" /\ journal'[a].applied = journal[a].applied
      /\ \A b \in Attempts \ {a} : journal'[b] = journal[b]
      /\ fate'[a] = (IF fate[a] = "described" THEN "integrated" ELSE fate[a])
      /\ \A b \in Attempts \ {a} : fate'[b] = fate[b]
  BY <1>1 DEF JournalInv, JournalTypes
<1>3. JournalTypes'
  <2>1. journal' \in [Attempts -> [status : {"none", "integrating", "completed"},
                                   applied : SUBSET Files]]
    BY <1>1 DEF JournalInv, JournalTypes
  <2>2. fate' \in [Attempts -> {"new", "cloning", "described", "integrated", "abandoned", "failed"}]
    BY <1>1 DEF JournalInv, JournalTypes
  <2>3. line' \in Tree
    BY <1>1 DEF JournalInv, JournalTypes, Tree
  <2>4. QED
    BY <2>1, <2>2, <2>3 DEF JournalInv, JournalTypes, bounds, Inside
<1>4. \A b \in Attempts : Changes(b)' = Changes(b) /\ Pending(b)' = Pending(b)
  BY <1>2 DEF Changes, Pending
<1>5. ASSUME NEW b \in Attempts PROVE JournalOf(b)'
  BY <1>1, <1>2, <1>4, <1>5 DEF JournalInv, JournalOf
<1>6. /\ pc[p] = "final" /\ pc'[p] = "release" /\ UNCHANGED task
      /\ \A q \in Processes \ {p} : pc'[q] = pc[q]
  BY DEF Context, LockInv, LockTypes, Inside
<1>7. ASSUME NEW q \in Processes PROVE WorkOf(q)'
  <2>1. CASE q = p
    BY <1>1, <1>2, <1>6, <2>1 DEF WorkOf
  <2>2. CASE q # p
    <3>1. pc[q] \notin {"apply", "record", "final"}
      BY <1>6, <2>2 DEF Context, OneIntegrator, Integrating
    <3>2. pc[q] # "idle" => task[q] \in Attempts
      BY DEF Context, LockInv, LockOf
    <3>3. QED
      BY <1>1, <1>2, <1>6, <1>7, <2>2, <3>1, <3>2 DEF JournalInv, WorkOf
  <2>3. QED
    BY <2>1, <2>2
<1>8. SourceInv'
  <2>1. CASE fate[a] # "described"
    BY <1>1, <1>2, <2>1 DEF JournalInv, SourceInv, Inside, bounds, JournalTypes
  <2>2. CASE fate[a] = "described"
    <3>1. SUFFICES ASSUME ~ edited', NEW f \in Files, source'[f] # line'[f]
                   PROVE  \E b \in Attempts : f \in wrote'[b] /\ fate'[b] # "integrated"
      BY DEF SourceInv, JournalInv, Inside, bounds
    <3>2. ~ edited /\ late = {} /\ source[f] = Integrated(a)[f]
      BY <1>1, <3>1 DEF JournalInv, SourceInv, Inside, bounds
    <3>3. line'[f] = IF base[a][f] # post[a][f] THEN post[a][f] ELSE line[f]
      BY <2>2
    <3>4. f \notin Changes(a) /\ line'[f] = line[f] /\ source[f] # line[f]
      BY <3>1, <3>2, <3>3 DEF Changes, Integrated
    <3>5. PICK b \in Attempts : f \in wrote[b] /\ fate[b] # "integrated"
      BY <3>2, <3>4 DEF JournalInv, SourceInv
    <3>6. b # a
      BY <1>1, <3>4, <3>5 DEF JournalInv, JournalOf
    <3>7. QED
      BY <1>2, <3>5, <3>6
  <2>3. QED
    BY <2>1, <2>2
<1>9. QED
  BY <1>3, <1>5, <1>7, <1>8 DEF JournalInv

LEMMA JournalEdited ==
  ASSUME JournalInv, Context, Edit
  PROVE  JournalInv'
<1> USE DEF Edit
<1>1. PICK g \in Files :
        /\ source' = [source EXCEPT ![g] = UserText]
        /\ late' = IF \E p \in Processes : pc[p] = "final" THEN late \cup {g} ELSE late
  OBVIOUS
<1>2. JournalTypes'
  <2>1. troubles' \in 0 .. MaxTroubles
    BY BoundsAssumption DEF JournalInv, JournalTypes, Trouble
  <2>2. source' \in Tree
    BY <1>1 DEF JournalInv, JournalTypes, Tree, Hashes, UserText
  <2>3. edited' \in BOOLEAN
    OBVIOUS
  <2>4. QED
    BY <1>1, <2>1, <2>2, <2>3 DEF JournalInv, JournalTypes, attempts
<1>3. ASSUME NEW b \in Attempts PROVE JournalOf(b)'
  BY <1>3 DEF JournalInv, JournalOf, Changes, Pending, attempts
<1>4. ASSUME NEW q \in Processes PROVE WorkOf(q)'
  <2>1. /\ UNCHANGED <<pc, task, fate, journal>> /\ Pending(task[q])' = Pending(task[q])
        /\ Integrated(task[q])' = Integrated(task[q])
    BY DEF local, attempts, Pending, Changes, Integrated
  <2>2. pc[q] = "final" => \A f \in Files \ late' : f \in Files \ late /\ source'[f] = source[f]
    BY <1>1, <1>4 DEF JournalInv, JournalTypes, Tree
  <2>3. QED
    BY <1>4, <2>1, <2>2 DEF JournalInv, WorkOf
<1>5. SourceInv'
  BY DEF SourceInv
<1>6. QED
  BY <1>2, <1>3, <1>4, <1>5 DEF JournalInv

LEMMA JournalUntouched ==
  ASSUME JournalInv, UNCHANGED vars
  PROVE  JournalInv'
BY DEF JournalInv, JournalTypes, JournalOf, WorkOf, SourceInv, Changes, Pending, Integrated,
       vars, attempts, local, history, bounds

LEMMA JournalPreserved == JournalInv /\ Context /\ [Next]_vars => JournalInv'
<1> SUFFICES ASSUME JournalInv, Context, [Next]_vars PROVE JournalInv'
  OBVIOUS
<1>1. ASSUME NEW a \in Attempts, Prepare(a) PROVE JournalInv'
  BY <1>1, JournalPrepared
<1>2. ASSUME NEW p \in Processes, Start(p) \/ Contend(p) PROVE JournalInv'
  BY <1>2, JournalContend
<1>3. ASSUME NEW p \in Processes, integrateWorkspaceAttemptSync(p) PROVE JournalInv'
  BY <1>3, JournalLoaded, JournalApplied, JournalMarked, JournalCompared, JournalReceipted,
     JournalInterrupted DEF integrateWorkspaceAttemptSync
<1>4. ASSUME NEW p \in Processes, LoseLock(p) \/ Fault(p) \/ Crash(p) PROVE JournalInv'
  BY <1>4, JournalInterrupted
<1>5. CASE Edit
  BY <1>5, JournalEdited
<1>6. CASE UNCHANGED vars
  BY <1>6, JournalUntouched
<1>7. QED
  BY <1>1, <1>2, <1>3, <1>4, <1>5, <1>6 DEF Next

LEMMA JournalHolds == Spec => [](LockInv /\ JournalInv)
<1>1. Init => LockInv /\ JournalInv
  BY LockInit, JournalInit
<1>2. (LockInv /\ JournalInv) /\ [Next]_vars => (LockInv /\ JournalInv)'
  <2> SUFFICES ASSUME LockInv, JournalInv, [Next]_vars PROVE (LockInv /\ JournalInv)'
    OBVIOUS
  <2>1. LockInv'
    BY LockPreserved
  <2>2. OneIntegrator /\ OneIntegrator'
    BY <2>1, LockExcludes DEF LockInv, LockOf, OneIntegrator
  <2>3. JournalInv'
    BY <2>1, <2>2, JournalPreserved DEF Context
  <2>4. QED
    BY <2>1, <2>3
<1>3. QED
  BY <1>1, <1>2, PTL DEF Spec

-----------------------------------------------------------------------------
(* The theorems. *)

\* Attempts, journals and the lock directory stay well formed in every run, for all
\* values of the constants (TypeOK).
THEOREM IntegrationTypeCorrect == Spec => []TypeOK
<1>1. LockInv /\ JournalInv => TypeOK
  BY DEF LockInv, LockTypes, JournalInv, JournalTypes, TypeOK
<1>2. QED
  BY <1>1, JournalHolds, PTL

\* An attempt that has changed the source has a journal, which misses at most the
\* file in flight, through every crash, replay and rival (WriteAhead).
THEOREM JournalIsWriteAhead == Spec => []WriteAhead
<1>1. ASSUME JournalInv PROVE WriteAhead
  <2> SUFFICES ASSUME NEW a \in Attempts
               PROVE  Cardinality(wrote[a] \ journal[a].applied) <= 1
    BY <1>1 DEF JournalInv, JournalOf, WriteAhead
  <2> DEFINE W == wrote[a] \ journal[a].applied
  <2>1. W \subseteq Nat /\ \A f, g \in W : f <= g
    BY <1>1, FilesAssumption DEF JournalInv, JournalTypes, JournalOf, Pending, Changes
  <2>2. CASE W = {}
    BY <2>2, FS_EmptySet
  <2>3. CASE W # {}
    <3>1. PICK f \in W : TRUE
      BY <2>3
    <3>2. \A g \in W : g <= f /\ f <= g /\ g \in Nat /\ f \in Nat
      BY <2>1, <3>1
    <3>3. \A g \in W : g = f
      BY <3>2
    <3>4. W = {f}
      BY <3>1, <3>3
    <3>5. Cardinality(W) = 1
      BY <3>4, FS_Singleton
    <3>6. QED
      BY <3>5
  <2>4. QED
    BY <2>2, <2>3
<1>2. QED
  BY <1>1, JournalHolds, PTL

\* A receipt is returned only when the whole source is the tree that the descriptor
\* promises, apart from edits made after the comparison (ReceiptIsExact).
THEOREM ReceiptsAreExact == Spec => ReceiptIsExact
<1>1. LockInv /\ JournalInv /\ [Next]_vars =>
        [\A a \in Attempts : fate[a] = "described" /\ fate'[a] = "integrated" =>
           \A f \in Files \ late : source[f] = Integrated(a)[f]]_vars
  <2> SUFFICES ASSUME LockInv, JournalInv, Next, NEW a \in Attempts,
                      fate[a] = "described", fate'[a] = "integrated"
               PROVE  \A f \in Files \ late : source[f] = Integrated(a)[f]
    OBVIOUS
  <2> USE DEF JournalInv, JournalTypes
  <2>1. ASSUME NEW b \in Attempts, Prepare(b) PROVE FALSE
    BY <2>1 DEF Prepare, SnapshotSource, Describe
  <2>2. ASSUME NEW p \in Processes, Start(p) \/ Contend(p) PROVE FALSE
    BY <2>2 DEF Start, Contend, RenameIntoPlace, readWorkspaceCommitLockOwnerSync,
                UnlinkStaleOwner, RemoveDirectory, LockStep, attempts
  <2>3. ASSUME NEW p \in Processes,
               \/ Validate(p) \/ ApplyNext(p) \/ persistWorkspaceIntegrationJournalSync(p)
               \/ CheckFinalManifest(p) \/ Release(p) \/ LoseLock(p) \/ Fault(p) \/ Crash(p)
        PROVE  FALSE
    BY <2>3 DEF Validate, ApplyNext, persistWorkspaceIntegrationJournalSync, Refuse,
                CheckFinalManifest, Release, LoseLock, Fault, Crash, LockStep, attempts
  <2>4. ASSUME NEW p \in Processes, ReturnReceipt(p)
        PROVE  \A f \in Files \ late : source[f] = Integrated(a)[f]
    BY <2>4 DEF ReturnReceipt, Inside, WorkOf
  <2>5. CASE Edit
    BY <2>5 DEF Edit, attempts
  <2>6. QED
    BY <2>1, <2>2, <2>3, <2>4, <2>5 DEF Next, integrateWorkspaceAttemptSync
<1>2. QED
  BY <1>1, JournalHolds, PTL DEF Spec, ReceiptIsExact

\* When nothing is half done and the user has changed nothing, the source is the
\* original with the changes of the receipts applied in their order: crashes, replays
\* and rivals lose and repeat nothing (SourceIsReceipts).
THEOREM ReceiptsTellTheSource == Spec => []SourceIsReceipts
<1>1. JournalInv => SourceIsReceipts
  <2> SUFFICES ASSUME JournalInv, ~ edited,
                      \A a \in Attempts : wrote[a] # {} => fate[a] = "integrated"
               PROVE  source = line
    BY DEF SourceIsReceipts
  <2>1. \A f \in Files : source[f] = line[f]
    BY DEF JournalInv, SourceInv
  <2>2. QED
    BY <2>1 DEF JournalInv, JournalTypes, Tree
<1>2. QED
  BY <1>1, JournalHolds, PTL
=============================================================================
