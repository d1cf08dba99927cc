------------------------ MODULE WorkspaceIntegration ------------------------
(***************************************************************************)
(* Isolated attempts on a shared source tree (the workspace-attempt         *)
(* modules): an attempt clones the source, works on the clone, and its      *)
(* changes are integrated under a commit lock, file by file, with a journal *)
(* that a later process replays.                                            *)
(*                                                                         *)
(* The lock is a directory that holds one owner file; it is taken by a      *)
(* rename, which replaces a directory only when it is empty, and given back *)
(* by unlinking the owner file and removing the directory.  One file is     *)
(* changed in one step: this is what module AtomicFile promises.           *)
(***************************************************************************)
EXTENDS Integers, FiniteSets

CONSTANTS
  Processes,   \* processes that integrate attempts
  Attempts,    \* attempts, each with its clone and its descriptor
  Files,       \* paths, numbered in the order of the descriptor
  Outcomes,    \* the trees an executor may leave in its clone
  Tokens,      \* lock tokens
  NoToken, NoAttempt,
  Tries,       \* rounds of the loop of acquireWorkspaceCommitLock (3 in the code)
  MaxTroubles  \* bound on crashes, I/O errors and edits of the user together

Absent == 0
Hashes == 0 .. 3
Tree == [Files -> Hashes]
Original == [f \in Files |-> 1]
UserText == 3

ASSUME FilesAssumption == Files \subseteq Nat
ASSUME OutcomesAssumption == Outcomes \subseteq Tree
ASSUME TokensAssumption ==
  /\ IsFiniteSet(Tokens) /\ Tokens \cap {NoToken, "absent", "empty"} = {}
  /\ NoAttempt \notin Attempts
ASSUME BoundsAssumption == MaxTroubles \in Nat /\ Tries \in Nat \ {0}

Acquiring == {"acquire", "contend", "evict"}
Integrating == {"locked", "apply", "record", "final", "release"}

VARIABLES
  source,   \* the source tree
  fate,     \* of each attempt: new, cloning, described, integrated, abandoned, failed
  base,     \* sourceBaseline: the source when the attempt was cloned
  post,     \* attemptPostimage: the clone when the attempt was described
  journal,  \* per attempt: the status and the operations marked applied
  dir,      \* the lock directory: absent, empty, or the token of its owner file
  pc, task, \* where a process is, and on which attempt
  mine,     \* the token of a live process
  read,     \* the token a contender found in the directory
  tries,    \* rounds of the loop of acquireWorkspaceCommitLock
  wrote,    \* files each attempt has written (history)
  late,     \* files edited after a process compared the final manifest (history)
  line,     \* the source as the receipts describe it (history)
  edited,   \* the user has edited the source (history)
  troubles  \* crashes, errors and edits so far

attempts == <<fate, base, post>>
lock == <<dir, mine, read, tries>>
local == <<pc, task>>
history == <<wrote, late, line>>
bounds == <<edited, troubles>>
vars == <<source, attempts, journal, lock, local, history, bounds>>

NoJournal == [status |-> "none", applied |-> {}]

\* Attempts, journals and the lock directory stay well formed.
TypeOK ==
  /\ source \in Tree /\ line \in Tree
  /\ fate \in [Attempts -> {"new", "cloning", "described", "integrated", "abandoned", "failed"}]
  /\ base \in [Attempts -> Tree] /\ post \in [Attempts -> Tree]
  /\ journal \in [Attempts -> [status : {"none", "integrating", "completed"},
                               applied : SUBSET Files]]
  /\ dir \in Tokens \cup {"absent", "empty"}
  /\ pc \in [Processes -> Acquiring \cup Integrating \cup {"idle", "rmdir"}]
  /\ task \in [Processes -> Attempts \cup {NoAttempt}]
  /\ mine \in [Processes -> Tokens \cup {NoToken}]
  /\ read \in [Processes -> Tokens \cup {NoToken}]
  /\ tries \in [Processes -> 0 .. Tries - 1]
  /\ wrote \in [Attempts -> SUBSET Files]
  /\ late \subseteq Files
  /\ edited \in BOOLEAN /\ troubles \in 0 .. MaxTroubles

Init ==
  /\ source = Original /\ line = Original
  /\ fate = [a \in Attempts |-> "new"]
  /\ base = [a \in Attempts |-> Original] /\ post = [a \in Attempts |-> Original]
  /\ journal = [a \in Attempts |-> NoJournal]
  /\ dir = "absent"
  /\ pc = [p \in Processes |-> "idle"] /\ task = [p \in Processes |-> NoAttempt]
  /\ mine = [p \in Processes |-> NoToken] /\ read = [p \in Processes |-> NoToken]
  /\ tries = [p \in Processes |-> 0]
  /\ wrote = [a \in Attempts |-> {}] /\ late = {}
  /\ edited = FALSE /\ troubles = 0

-----------------------------------------------------------------------------
(* prepareWorkspaceAttemptSync and buildWorkspaceIntegrationDescriptorSync. *)

\* Mutant: deletions are not changes.
ChangesWithoutDeletions(a) == {f \in Files : post[a][f] \notin {base[a][f], Absent}}

\* changedWorkspacePaths
Changes(a) == {f \in Files : base[a][f] # post[a][f]}

SnapshotSource(a) ==
  /\ fate[a] = "new" /\ fate' = [fate EXCEPT ![a] = "cloning"]
  /\ base' = [base EXCEPT ![a] = source]
  /\ UNCHANGED <<source, post, journal, lock, local, history, bounds>>

\* The source is as it was before the clone, and the executor leaves a tree; or the
\* source has changed and the attempt is given up.
Describe(a) ==
  /\ fate[a] = "cloning"
  /\ IF source = base[a]
       THEN /\ fate' = [fate EXCEPT ![a] = "described"]
            /\ \E t \in Outcomes : post' = [post EXCEPT ![a] = t]
       ELSE fate' = [fate EXCEPT ![a] = "new"] /\ UNCHANGED post
  /\ UNCHANGED <<source, base, journal, lock, local, history, bounds>>

-----------------------------------------------------------------------------
(* The commit lock. *)

Trouble == troubles < MaxTroubles /\ troubles' = troubles + 1

Go(p, to) == pc' = [pc EXCEPT ![p] = to] /\ UNCHANGED task

\* The call returns or throws.
Leave(p) ==
  /\ pc' = [pc EXCEPT ![p] = "idle"] /\ task' = [task EXCEPT ![p] = NoAttempt]
  /\ read' = [read EXCEPT ![p] = NoToken] /\ tries' = [tries EXCEPT ![p] = 0]

InUse == {dir} \cup {mine[p] : p \in Processes} \cup {read[p] : p \in Processes}
Stale(t) == \A p \in Processes : mine[p] # t

LockStep == UNCHANGED <<source, attempts, journal, history, bounds>>

\* A process takes up a described attempt; the lease of the node does not keep a
\* second one from replaying the same descriptor.
Start(p) ==
  /\ pc[p] = "idle" /\ pc' = [pc EXCEPT ![p] = "acquire"]
  /\ \E a \in Attempts : fate[a] = "described" /\ task' = [task EXCEPT ![p] = a]
  /\ LockStep /\ UNCHANGED lock

\* Mutant: one round too many.
RetryOnceMore(p) ==
  IF tries[p] < Tries
    THEN /\ Go(p, "acquire")
         /\ read' = [read EXCEPT ![p] = NoToken] /\ tries' = [tries EXCEPT ![p] = @ + 1]
    ELSE Leave(p)

\* The loop goes round again, or ends in workspace_attempt_commit_lock_busy.
Retry(p) ==
  IF tries[p] + 1 < Tries
    THEN /\ Go(p, "acquire")
         /\ read' = [read EXCEPT ![p] = NoToken] /\ tries' = [tries EXCEPT ![p] = @ + 1]
    ELSE Leave(p)

\* The temporary directory with the owner file is renamed into place.
RenameIntoPlace(p) ==
  /\ pc[p] = "acquire"
  /\ IF dir \in {"absent", "empty"}
       THEN /\ \E t \in Tokens \ InUse :
                 /\ t = CHOOSE u \in Tokens : u \notin InUse
                 /\ dir' = t /\ mine' = [mine EXCEPT ![p] = t]
            /\ tries' = [tries EXCEPT ![p] = 0]
            /\ Go(p, "locked")
       ELSE Go(p, "contend") /\ UNCHANGED <<dir, mine, tries>>
  /\ LockStep /\ UNCHANGED read

\* Mutant: a dead owner is busy, too.
BusyEvenIfStale(p) ==
  /\ pc[p] = "contend"
  /\ IF dir = "absent" THEN Retry(p) ELSE Leave(p)
  /\ LockStep /\ UNCHANGED <<dir, mine>>

\* The contender lists the directory and reads the owner file.  A directory that is
\* empty is unsafe, which is not retryable: the node fails.  The owner is alive and
\* the lock busy, unless it is gone before its file is read; or it is dead.
readWorkspaceCommitLockOwnerSync(p) ==
  /\ pc[p] = "contend"
  /\ \/ dir = "absent" /\ Retry(p) /\ UNCHANGED fate
     \/ /\ dir = "empty" /\ Leave(p)
        /\ fate' = [fate EXCEPT ![task[p]] = IF @ = "described" THEN "failed" ELSE @]
     \/ dir \in Tokens /\ ~ Stale(dir) /\ (Leave(p) \/ Retry(p)) /\ UNCHANGED fate
     \/ /\ dir \in Tokens /\ Stale(dir) /\ Go(p, "evict")
        /\ read' = [read EXCEPT ![p] = dir] /\ UNCHANGED <<fate, tries>>
  /\ UNCHANGED <<source, base, post, journal, dir, mine, history, bounds>>

\* Mutant: the directory is emptied whoever owns it by now.
EvictWhoever(p) ==
  /\ pc[p] = "evict"
  /\ dir' = IF dir \in Tokens THEN "empty" ELSE dir
  /\ Go(p, "rmdir") /\ LockStep /\ UNCHANGED <<mine, read, tries>>

\* The owner file of the dead process is unlinked, by its token.
UnlinkStaleOwner(p) ==
  /\ pc[p] = "evict"
  /\ \/ dir = read[p] /\ dir' = "empty" /\ Go(p, "rmdir") /\ UNCHANGED <<read, tries>>
     \/ dir # read[p] /\ Retry(p) /\ UNCHANGED dir
  /\ LockStep /\ UNCHANGED mine

\* The directory goes, unless somebody has renamed his own over it.  A reaper goes
\* round again, a former owner is done.
RemoveDirectory(p) ==
  /\ pc[p] = "rmdir"
  /\ dir' = IF dir = "empty" THEN "absent" ELSE dir
  /\ IF read[p] # NoToken THEN Retry(p) ELSE Leave(p)
  /\ LockStep /\ UNCHANGED mine

-----------------------------------------------------------------------------
(* integrateWorkspaceAttemptSync, under the lock. *)

Owned(p) == dir = mine[p]

Inside(p, from, to) ==
  pc[p] = from /\ pc' = [pc EXCEPT ![p] = to] /\ UNCHANGED <<task, lock, bounds>>

\* How the campaign engine disposes of an error: a conflict or a stale read set
\* abandons the attempt, one that is not retryable fails the node.
Refuse(p, from, verdict) ==
  /\ Inside(p, from, "release")
  /\ fate' = [fate EXCEPT ![task[p]] = IF @ = "described" THEN verdict ELSE @]
  /\ UNCHANGED <<source, base, post, journal, history>>

\* The directory of the journals cannot be made: the lock is not given back, for
\* the try block has not begun.
LoseLock(p) ==
  /\ pc[p] = "locked" /\ Leave(p)
  /\ Trouble
  /\ UNCHANGED <<source, attempts, journal, dir, mine, history, edited>>

\* validateWorkspaceAttemptSourceReadSet: what the attempt read is unchanged.
ReadSetCurrent(a) == \A f \in Files \ Changes(a) : source[f] = base[a][f]

Mergeable(a, f) == source[f] \in {base[a][f], post[a][f]}

\* The files whose postimage is there already.
Already(a) == {f \in Changes(a) : source[f] = post[a][f]}

\* Mutant: the journal is first written after the first file.
JournalLater(p) ==
  LET a == task[p] IN
  \/ /\ ReadSetCurrent(a) /\ \A f \in Changes(a) : Mergeable(a, f)
     /\ Inside(p, "locked", "apply")
     /\ UNCHANGED <<source, attempts, journal, history>>
  \/ /\ ~ (ReadSetCurrent(a) /\ \A f \in Changes(a) : Mergeable(a, f))
     /\ Refuse(p, "locked", "abandoned")

\* The source is compared with what the attempt read and with the two images of what
\* it changed; the journal is loaded or created, and what is there already is marked
\* in it.  An operation marked before whose postimage is gone is an error.
Validate(p) ==
  LET a == task[p]
      valid == ReadSetCurrent(a) /\ \A f \in Changes(a) : Mergeable(a, f)
  IN
  /\ Owned(p)
  /\ \/ /\ valid /\ journal[a].applied \subseteq Already(a)
        /\ Inside(p, "locked", "apply")
        /\ journal' = [journal EXCEPT ![a] = [status |-> "integrating", applied |-> Already(a)]]
        /\ UNCHANGED <<source, attempts, history>>
     \/ ~ valid /\ Refuse(p, "locked", "abandoned")
     \/ valid /\ ~ journal[a].applied \subseteq Already(a) /\ Refuse(p, "locked", "failed")

Pending(a) == Changes(a) \ journal[a].applied
First(S) == CHOOSE f \in S : \A g \in S : f <= g

\* The next operation: the file is there already, is replaced, or has been changed
\* by somebody else.
ApplyNext(p) ==
  LET a == task[p] f == First(Pending(a)) IN
  /\ Pending(a) # {} /\ Owned(p)
  /\ \/ /\ source[f] = post[a][f] /\ Inside(p, "apply", "record")
        /\ UNCHANGED <<source, attempts, journal, history>>
     \/ /\ source[f] = base[a][f] /\ Inside(p, "apply", "record")
        /\ source' = [source EXCEPT ![f] = post[a][f]]
        /\ wrote' = [wrote EXCEPT ![a] = @ \cup {f}]
        /\ UNCHANGED <<attempts, journal, late, line>>
     \/ ~ Mergeable(a, f) /\ Refuse(p, "apply", "abandoned")

persistWorkspaceIntegrationJournalSync(p) ==
  LET a == task[p] IN
  /\ Inside(p, "record", "apply")
  /\ journal' = [journal EXCEPT ![a].applied = @ \cup {First(Pending(a))}]
  /\ UNCHANGED <<source, attempts, history>>

\* expectedIntegratedWorkspaceAttemptRows
Integrated(a) == [f \in Files |-> IF f \in Changes(a) THEN post[a][f] ELSE base[a][f]]

\* Mutant: no comparison.
FinalTakenOnTrust(p) ==
  /\ Pending(task[p]) = {} /\ Inside(p, "apply", "final")
  /\ UNCHANGED <<source, attempts, journal, history>>

\* All operations are applied: the source is compared with the expected tree.  The
\* error is not retryable, but the engine keeps the result.
CheckFinalManifest(p) ==
  LET a == task[p] IN
  /\ Pending(a) = {}
  /\ \/ /\ source = Integrated(a) /\ Inside(p, "apply", "final")
        /\ UNCHANGED <<source, attempts, journal, history>>
     \/ source # Integrated(a) /\ Refuse(p, "apply", "failed")

\* The journal is completed and the receipt reaches the campaign store
\* (markNodeResultIntegrated).
ReturnReceipt(p) ==
  LET a == task[p] IN
  /\ Inside(p, "final", "release")
  /\ journal' = [journal EXCEPT ![a].status = "completed"]
  /\ fate' = [fate EXCEPT ![a] = IF @ = "described" THEN "integrated" ELSE @]
  /\ line' = IF fate[a] # "described" THEN line
             ELSE [f \in Files |-> IF base[a][f] # post[a][f] THEN post[a][f] ELSE line[f]]
  /\ UNCHANGED <<source, base, post, wrote, late>>

Release(p) ==
  /\ pc[p] = "release"
  /\ mine' = [mine EXCEPT ![p] = NoToken]
  /\ IF Owned(p) THEN dir' = "empty" /\ Go(p, "rmdir") /\ UNCHANGED <<read, tries>>
                 ELSE Leave(p) /\ UNCHANGED dir
  /\ LockStep

\* An I/O error, or an execution that was aborted before: the result is kept and a
\* later process replays it.
Fault(p) ==
  /\ pc[p] \in {"locked", "apply", "record", "final"}
  /\ Trouble
  /\ Go(p, "release")
  /\ UNCHANGED <<source, attempts, journal, lock, history, edited>>

Crash(p) ==
  /\ pc[p] # "idle" \/ mine[p] # NoToken
  /\ Trouble
  /\ Leave(p)
  /\ mine' = [mine EXCEPT ![p] = NoToken]
  /\ UNCHANGED <<source, attempts, journal, dir, history, edited>>

Edit ==
  /\ Trouble /\ edited' = TRUE
  /\ \E f \in Files :
       /\ source' = [source EXCEPT ![f] = UserText]
       /\ late' = IF \E p \in Processes : pc[p] = "final" THEN late \cup {f} ELSE late
  /\ UNCHANGED <<attempts, journal, lock, local, wrote, line>>

Prepare(a) == SnapshotSource(a) \/ Describe(a)

Contend(p) ==
  \/ RenameIntoPlace(p) \/ readWorkspaceCommitLockOwnerSync(p)
  \/ UnlinkStaleOwner(p) \/ RemoveDirectory(p)

integrateWorkspaceAttemptSync(p) ==
  /\ pc[p] \in Integrating
  /\ \/ Validate(p) \/ ApplyNext(p) \/ persistWorkspaceIntegrationJournalSync(p)
     \/ CheckFinalManifest(p) \/ ReturnReceipt(p) \/ Release(p)

Next ==
  \/ \E a \in Attempts : Prepare(a)
  \/ \E p \in Processes : \/ Start(p) \/ Contend(p) \/ integrateWorkspaceAttemptSync(p)
                          \/ LoseLock(p) \/ Fault(p) \/ Crash(p)
  \/ Edit

Spec == Init /\ [][Next]_vars

\* Processes go on and the engine takes up what is not settled; nothing forces
\* faults, crashes or edits.
FairSpec ==
  /\ Spec
  /\ \A p \in Processes : /\ WF_vars(Start(p)) /\ WF_vars(Contend(p))
                          /\ WF_vars(integrateWorkspaceAttemptSync(p))

-----------------------------------------------------------------------------
(* Properties. *)

\* At most one process is between taking the commit lock and giving it back,
\* whatever dies and however many contenders evict the dead owner.
OneIntegrator ==
  \A p, q \in Processes : pc[p] \in Integrating /\ pc[q] \in Integrating => p = q

\* A receipt is given only when the whole source is the tree the descriptor
\* promises, apart from edits made after the comparison.
ReceiptIsExact ==
  [][\A a \in Attempts : fate[a] = "described" /\ fate'[a] = "integrated" =>
       \A f \in Files \ late : source[f] = Integrated(a)[f]]_vars

\* When nothing is half done and the user has changed nothing, the source is the
\* original with the changes of the receipts applied in their order: crashes,
\* replays and rivals lose and repeat nothing.
SourceIsReceipts ==
  ~ edited /\ (\A a \in Attempts : wrote[a] # {} => fate[a] = "integrated") => source = line

\* An attempt that has changed the source has a journal, which misses at most the
\* file in flight; a half integrated tree can be traced to its attempt.
WriteAhead ==
  \A a \in Attempts :
    /\ wrote[a] # {} => journal[a].status # "none"
    /\ Cardinality(wrote[a] \ journal[a].applied) <= 1

\* Somebody else has changed the source.
Rivalled(a) == edited \/ \E b \in Attempts \ {a} : wrote[b] # {}

\* A live process that has lost its way to the release keeps the lock.
LockLost == \E p \in Processes : pc[p] = "idle" /\ mine[p] # NoToken

\* An attempt that is described is integrated in the end; it is abandoned only when
\* somebody else changed the source.  It may fail, and a lock that is never given
\* back holds it up.
Settles ==
  \A a \in Attempts :
    fate[a] = "described" ~>
      \/ fate[a] \in {"integrated", "failed"} \/ LockLost
      \/ fate[a] = "abandoned" /\ Rivalled(a)
=============================================================================
