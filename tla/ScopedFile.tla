------------------------------ MODULE ScopedFile ------------------------------
(***************************************************************************)
(* Crash-safe replacement, creation and removal of one file                *)
(* (the scoped-file-materialization modules): a target lock,             *)
(* a staged temporary, a backup of the preimage in the recovery vault, a   *)
(* PREPARED record, the installation, a COMPLETED record, the clean-up, and *)
(* the recovery that every later process runs under the lock.              *)
(*                                                                         *)
(* A step is one change of the file system.  Names refer to inodes, since  *)
(* renames and links move and share the identities that recovery compares. *)
(* A process that removes the lock of a dead one looks first and unlinks    *)
(* later; meanwhile another may have removed that lock and taken its own.  *)
(* Nothing keeps the late one from unlinking the lock of the living, or the *)
(* temp, which has the same name in every attempt.  The model goes up to    *)
(* that step: the lock is then "lost", two processes may be at work, and no *)
(* further step of a process is described.                                 *)
(***************************************************************************)
EXTENDS Integers, FiniteSets

CONSTANTS
  Processes,    \* processes that run the operation, again after a crash
  Kinds,        \* kinds of operation to consider
  Interrupted,  \* program points at which a process is killed or an I/O fails
  MaxCrashes,   \* bound on the kills
  MaxFaults,    \* bound on the I/O errors
  MaxWrites,    \* bound on the writes of programs outside the repository
  MaxInode      \* bound on the inodes in use at a time

Inodes == 1 .. MaxInode
None == 0
NoIntent == [pre |-> None, backup |-> None, staged |-> None]
Unpublished == -1

Staging == {"locked", "bind", "write"}
BeforeIntent == {"commit", "backup", "copy", "prepare"}
AfterIntent == {"move", "verify", "install", "detach", "check", "complete"}
\* A process between two calls, and one about to remove a lock: "looked" when the
\* lock is still the one it looked at, "late" when somebody else removed that.
Waiting == {"idle", "looked", "late"}
Recovery == {"recover", "undo", "relink", "unlocal", "restore", "refill",
             "unvault", "untemp", "forget"}
Points == Staging \cup BeforeIntent \cup AfterIntent \cup Recovery
            \cup Waiting \cup {"putback", "unprepare", "unback", "abort", "unlock"}

ASSUME KindsAssumption == Kinds \subseteq {"replace", "create", "remove"}
ASSUME BoundsAssumption ==
  /\ Interrupted \subseteq Points \ {"idle"}
  /\ {MaxCrashes, MaxFaults, MaxWrites} \subseteq Nat /\ MaxInode \in Nat \ {0}
  /\ Processes \cap {"free", "stale", "lost"} = {}

VARIABLES
  kind,        \* what the operation does
  entry,       \* directory entries: the inode of target, temp, local and vault
  content,     \* contents of the inodes
  lock,        \* the canonical lock: its holder, "stale" when the holder died,
               \* "lost" when a late process removed what a later holder made
  bound,       \* the inode of the temp in the record of the lock's owner
  intent,      \* the PREPARED record
  completion,  \* the COMPLETED record: the identity of the postimage
  pc,          \* program points
  seen,        \* the identity of the target each process inspected last
  way,         \* why a process recovers: before its work, in a catch, or after it
  crashes, faults, writes

files == <<entry, content>>
records == <<intent, completion>>
locks == <<lock, bound>>
bounds == <<crashes, faults, writes>>
vars == <<kind, files, records, locks, pc, seen, way, bounds>>

Names == {"target", "temp", "local", "vault"}

Linked(i) == Cardinality({n \in Names : entry[n] = i})
Content(n) == IF entry[n] = None THEN "absent" ELSE content[entry[n]]
Pre == IF kind = "create" THEN "absent" ELSE "pre"
Post == IF kind = "remove" THEN "absent" ELSE "post"
Prepared == intent # NoIntent
Completed == completion # Unpublished

InUse == {entry[n] : n \in Names} \cup {seen[p] : p \in Processes}
           \cup {bound, intent.pre, intent.backup, intent.staged, completion}
Fresh == CHOOSE i \in Inodes \ InUse : TRUE

\* Names, records and processes stay well formed, and whoever is at work holds
\* the target lock, up to the step of a late reclaimer that removes it or the temp.
TypeOK ==
  /\ kind \in Kinds
  /\ entry \in [Names -> Inodes \cup {None}]
  /\ content \in [Inodes -> {"pre", "post", "foreign", "partial"}]
  /\ lock \in Processes \cup {"free", "stale", "lost"} /\ bound \in Inodes \cup {None}
  /\ intent \in [pre : Inodes \cup {None}, backup : Inodes \cup {None},
                 staged : Inodes \cup {None}]
  /\ completion \in Inodes \cup {None, Unpublished}
  /\ pc \in [Processes -> Points]
  /\ \A p \in Processes : pc[p] \notin Waiting => lock \in {p, "lost"}
  /\ seen \in [Processes -> Inodes \cup {None}]
  /\ way \in [Processes -> {"ahead", "back", "done"}]
  /\ crashes \in 0 .. MaxCrashes /\ faults \in 0 .. MaxFaults
  /\ writes \in 0 .. MaxWrites

Init ==
  /\ kind \in Kinds
  /\ entry = [n \in Names |-> IF n = "target" /\ kind # "create" THEN 1 ELSE None]
  /\ content = [i \in Inodes |-> "pre"]
  /\ lock = "free" /\ bound = None
  /\ intent = NoIntent /\ completion = Unpublished
  /\ pc = [p \in Processes |-> "idle"]
  /\ seen = [p \in Processes |-> None]
  /\ way = [p \in Processes |-> "ahead"]
  /\ crashes = 0 /\ faults = 0 /\ writes = 0

-----------------------------------------------------------------------------
(* Steps of a process. *)

\* p moves on; after a lock was lost nobody does.
Go(p, to) == lock # "lost" /\ pc' = [pc EXCEPT ![p] = to]

\* An error leads to the catch block of the present point: roll a prepared
\* operation back, drop a backup no record names, or give up.
Throw(p) ==
  /\ Go(p, CASE pc[p] = "prepare" -> "unback"
             [] pc[p] \in AfterIntent -> "recover"
             [] pc[p] \in Recovery /\ way[p] = "done" -> "unlock"
             [] OTHER -> "abort")
  /\ way' = [way EXCEPT ![p] = IF pc[p] \in AfterIntent THEN "back" ELSE @]

\* A step of p from one point to another; it touches neither kind nor bounds.
Step(p, from, to) ==
  pc[p] = from /\ Go(p, to) /\ UNCHANGED <<kind, way, bounds>>

\* What p knew is gone with the call.
Forget(p) == seen' = [seen EXCEPT ![p] = None] /\ way' = [way EXCEPT ![p] = "ahead"]

\* A step that throws and changes nothing else.
Refuse(p, from) ==
  pc[p] = from /\ Throw(p) /\ UNCHANGED <<kind, files, records, locks, seen, bounds>>

Put(n, i) == entry' = [entry EXCEPT ![n] = i]
Remove(n) == Put(n, None) /\ UNCHANGED content
Link(n, m) == Put(m, entry[n]) /\ UNCHANGED content
New(n, c) ==
  Inodes \ InUse # {} /\ Put(n, Fresh) /\ content' = [content EXCEPT ![Fresh] = c]
Create(n) == New(n, "partial")
Fill(n, c) == content' = [content EXCEPT ![entry[n]] = c] /\ UNCHANGED entry

-----------------------------------------------------------------------------
(* The target lock. *)

acquireTargetLock(p) ==
  /\ lock = "free" /\ lock' = p
  /\ pc[p] = "idle" /\ Go(p, "recover")
  /\ UNCHANGED <<kind, files, records, bound, seen, way, bounds>>

\* The record of the lock is read twice; its owner is dead.
LookAtStaleLock(p) ==
  /\ pc[p] = "idle" /\ lock = "stale" /\ Go(p, "looked")
  /\ UNCHANGED <<kind, files, records, locks, seen, way, bounds>>

\* The lock goes; whoever else has looked at it is late now.
UnlinkLock(p) ==
  /\ pc' = [q \in Processes |-> IF q = p THEN "idle"
                                ELSE IF pc[q] = "looked" THEN "late" ELSE pc[q]]
  /\ lock' = "free" /\ bound' = None
  /\ UNCHANGED <<kind, records, seen, way, bounds>>

\* Mutant: the lock goes without a look at its owner.
ReclaimAnyLock(p) ==
  /\ pc[p] = "idle" /\ lock \notin {"free", "lost"} /\ UnlinkLock(p) /\ UNCHANGED files

\* The temp that the dead owner's record names goes first, unless it is installed.
StaleTemp == entry["temp"] # None /\ entry["temp"] = bound /\ Linked(bound) = 1
UnlinkStaleTemp(p) ==
  /\ pc[p] = "looked" /\ lock = "stale" /\ StaleTemp /\ Remove("temp")
  /\ UNCHANGED <<kind, records, locks, pc, seen, way, bounds>>

\* The lock of the dead process goes.
reclaimStaleTargetLock(p) ==
  /\ pc[p] = "looked" /\ lock = "stale" /\ ~ StaleTemp /\ UnlinkLock(p)
  /\ UNCHANGED files

\* unlinkOwnedDescriptorEntry finds no entry or the identity of another; or it had
\* compared the identities before the lock changed hands, and unlinks what stands at
\* the name now, the lock or the temp of a later holder.
ReclaimLate(p) ==
  /\ pc[p] = "late" /\ Go(p, "idle")
  /\ lock' \in {lock} \cup (IF lock = "free" /\ entry["temp"] = None THEN {} ELSE {"lost"})
  /\ UNCHANGED <<kind, files, records, bound, seen, way, bounds>>

releaseTargetLock(p) ==
  /\ pc[p] = "unlock" /\ Go(p, "idle") /\ Forget(p)
  /\ lock' = "free" /\ bound' = None
  /\ UNCHANGED <<kind, files, records, bounds>>

-----------------------------------------------------------------------------
(* recoverPreparedOperationUnderHeldLock *)

RecoveryValid == /\ entry["vault"] # None /\ entry["vault"] = intent.backup
                 /\ Content("vault") = "pre"
LocalValid == /\ entry["local"] # None /\ entry["local"] = intent.pre
              /\ Content("local") = "pre"
TargetOriginal == /\ entry["target"] # None /\ entry["target"] = intent.pre
                  /\ Content("target") = "pre"
TargetOwnedPost == /\ entry["target"] # None /\ entry["target"] = intent.staged
                   /\ Content("target") = "post"

\* The inspections refuse to roll back: a file with two links, no backup left, or
\* a target that is neither of the two images.
LocalShared == entry["local"] # None /\ Linked(entry["local"]) > 1
Irrecoverable ==
  \/ kind # "create" /\ (LocalShared \/ (~ RecoveryValid /\ ~ LocalValid))
  \/ entry["target"] # None /\ ~ TargetOriginal /\ ~ TargetOwnedPost

\* Mutant: the backups go before the preimage is back.
RestoringAfterCleanup == IF kind = "create" THEN "untemp" ELSE "unlocal"

\* How the preimage comes back once the target is out of the way.
Restoring == IF kind = "create" THEN "untemp" ELSE IF LocalValid THEN "relink" ELSE "restore"

\* Mutant: the completion is not looked up.
RecoverWithoutCompletion(p) ==
  \/ /\ ~ Prepared /\ Step(p, "recover", IF way[p] = "back" THEN "abort" ELSE "locked")
     /\ UNCHANGED <<files, records, locks, seen>>
  \/ Prepared /\ Irrecoverable /\ Refuse(p, "recover")
  \/ /\ Prepared /\ ~ Irrecoverable
     /\ Step(p, "recover", IF TargetOriginal THEN "unlocal"
                           ELSE IF TargetOwnedPost THEN "undo" ELSE Restoring)
     /\ UNCHANGED <<files, records, locks, seen>>

RecoverDecides(p) ==
  \/ /\ ~ Prepared /\ Step(p, "recover", IF way[p] = "back" THEN "abort" ELSE "locked")
     /\ UNCHANGED <<files, records, locks, seen>>
  \/ /\ Prepared /\ ~ Completed /\ Irrecoverable /\ Refuse(p, "recover")
  \/ /\ Prepared /\ (Completed \/ ~ Irrecoverable)
     /\ Step(p, "recover", IF Completed \/ TargetOriginal THEN "unlocal"
                           ELSE IF TargetOwnedPost THEN "undo" ELSE Restoring)
     /\ UNCHANGED <<files, records, locks, seen>>

\* The postimage this operation installed is unlinked.
UndoInstall(p) ==
  \/ /\ entry["target"] = None \/ TargetOwnedPost
     /\ Step(p, "undo", Restoring) /\ Remove("target")
     /\ UNCHANGED <<records, locks, seen>>
  \/ entry["target"] # None /\ ~ TargetOwnedPost /\ Refuse(p, "undo")

\* restoreDescriptorRelativeBackup links, then unlinks (UnlinkLocal).
restoreDescriptorRelativeBackup(p) ==
  \/ /\ entry["target"] = None /\ Step(p, "relink", "unlocal") /\ Link("local", "target")
     /\ UNCHANGED <<records, locks, seen>>
  \/ entry["target"] # None /\ Refuse(p, "relink")

\* restoreRecoveryEntry copies the backup into a new file, and refuses when it is
\* no longer the target.
restoreRecoveryEntry(p) ==
  \/ /\ entry["target"] = None /\ Step(p, "restore", "refill") /\ Create("target")
     /\ UNCHANGED <<records, locks, seen>>
  \/ entry["target"] # None /\ Refuse(p, "restore")
RefillTarget(p) ==
  \/ /\ Content("target") = "partial" /\ Step(p, "refill", "unvault")
     /\ Fill("target", "pre") /\ UNCHANGED <<records, locks, seen>>
  \/ Content("target") # "partial" /\ Refuse(p, "refill")

\* cleanupRecordedEntry: the entry goes if it is the recorded one.
Cleanup(p, from, n, inode, to) ==
  \/ /\ entry[n] = inode /\ Step(p, from, to) /\ Remove(n)
     /\ UNCHANGED <<records, locks, seen>>
  \/ /\ entry[n] = None /\ inode # None /\ Step(p, from, to)
     /\ UNCHANGED <<files, records, locks, seen>>
  \/ entry[n] \notin {None, inode} /\ Refuse(p, from)

UnlinkLocal(p) ==
  \/ (Completed \/ LocalValid) /\ Cleanup(p, "unlocal", "local", intent.pre, "unvault")
  \/ /\ ~ Completed /\ ~ LocalValid /\ Step(p, "unlocal", "unvault")
     /\ UNCHANGED <<files, records, locks, seen>>
UnlinkBackup(p) == Cleanup(p, "unvault", "vault", intent.backup, "untemp")
UnlinkTemp(p) == Cleanup(p, "untemp", "temp", intent.staged, "forget")

deletePreparedOperationRecord(p) ==
  /\ Step(p, "forget", CASE way[p] = "ahead" -> "locked"
                         [] way[p] = "back" -> "abort"
                         [] way[p] = "done" -> "unlock")
  /\ intent' = NoIntent
  /\ UNCHANGED <<files, completion, locks, seen>>

-----------------------------------------------------------------------------
(* stageScopedRegularFileCopySync *)

\* inspectScopedRegularFileWithRecoverySync and recoverScopedMaterializationIntentsSync
\* end after the recovery.
InspectRecovered(p) ==
  Step(p, "locked", "unlock") /\ UNCHANGED <<files, records, locks, seen>>

\* The target is the expected preimage, or the operation has completed and the
\* target is still its result.
Stageable == \/ Content("target") = Pre
             \/ Completed /\ entry["target"] = completion

StageTemp(p) ==
  /\ kind # "remove"
  /\ \/ /\ Stageable /\ entry["temp"] = None
        /\ Step(p, "locked", "bind") /\ Create("temp")
        /\ seen' = [seen EXCEPT ![p] = entry["target"]]
        /\ UNCHANGED <<records, locks>>
     \/ (~ Stageable \/ entry["temp"] # None) /\ Refuse(p, "locked")

\* The owner record that names the inode of the temp is durable.
bindTargetLockTemporary(p) ==
  /\ Step(p, "bind", "write") /\ bound' = entry["temp"]
  /\ UNCHANGED <<files, records, lock, seen>>

WriteTemp(p) ==
  Step(p, "write", "commit") /\ Fill("temp", "post") /\ UNCHANGED <<records, locks, seen>>

-----------------------------------------------------------------------------
(* commitStagedScopedFileSync, and removeScopedRegularFileSync from StartRemove on. *)

Unmoved(p) == Content("target") = Pre /\ entry["target"] = seen[p]

CommitStarts(p) ==
  \/ /\ Completed /\ entry["target"] = completion /\ Step(p, "commit", "abort")
     /\ UNCHANGED <<files, records, locks, seen>>
  \/ /\ ~ Completed /\ Unmoved(p)
     /\ Step(p, "commit", IF kind = "create" THEN "prepare" ELSE "backup")
     /\ UNCHANGED <<files, records, locks, seen>>
  \/ /\ IF Completed THEN entry["target"] # completion ELSE ~ Unmoved(p)
     /\ Refuse(p, "commit")

StartRemove(p) ==
  /\ kind = "remove"
  /\ IF Completed \/ Content("target") # "pre"
       THEN Refuse(p, "locked")
       ELSE /\ Step(p, "locked", "backup")
            /\ seen' = [seen EXCEPT ![p] = entry["target"]]
            /\ UNCHANGED <<files, records, locks>>

\* Mutant: an earlier backup always refuses.
BackupStartsOnce(p) ==
  \/ /\ entry["vault"] = None /\ entry["target"] = seen[p]
     /\ Step(p, "backup", "copy") /\ Create("vault")
     /\ UNCHANGED <<records, locks, seen>>
  \/ (entry["vault"] # None \/ entry["target"] # seen[p]) /\ Refuse(p, "backup")

\* moveDescriptorEntryToRecovery: a complete backup is reused, another refuses; a
\* new one is copied from the inode that the process has open.
BackupStarts(p) ==
  \/ /\ entry["vault"] = None /\ entry["target"] = seen[p]
     /\ Step(p, "backup", "copy") /\ Create("vault")
     /\ UNCHANGED <<records, locks, seen>>
  \/ entry["vault"] = None /\ entry["target"] # seen[p] /\ Refuse(p, "backup")
  \/ /\ Content("vault") = "pre" /\ Step(p, "backup", "prepare")
     /\ UNCHANGED <<files, records, locks, seen>>
  \/ Content("vault") \notin {"absent", "pre"} /\ Refuse(p, "backup")

BackupCopies(p) ==
  Step(p, "copy", "prepare") /\ Fill("vault", "pre") /\ UNCHANGED <<records, locks, seen>>

\* The record is published; or the call throws after the record was linked, and
\* the catch block, which holds no record, drops the backup the record names.
createOperationIntent(p) ==
  /\ pc[p] = "prepare"
  /\ intent' = [pre |-> seen[p], backup |-> entry["vault"], staged |-> entry["temp"]]
  /\ \/ /\ Go(p, IF kind = "create" THEN "install" ELSE "move")
        /\ UNCHANGED <<way, faults>>
     \/ "prepare" \in Interrupted /\ faults < MaxFaults /\ faults' = faults + 1 /\ Throw(p)
  /\ UNCHANGED <<kind, files, completion, locks, seen, crashes, writes>>

MoveTarget(p) ==
  \/ /\ entry["target"] # None /\ Step(p, "move", "verify")
     /\ entry' = [entry EXCEPT !["local"] = entry["target"], !["target"] = None]
     /\ UNCHANGED <<content, records, locks, seen>>
  \/ entry["target"] = None /\ Refuse(p, "move")

\* What was moved is what was inspected; if not, it is put back.
VerifyMoved(p) ==
  \/ /\ entry["local"] = seen[p]
     /\ Step(p, "verify", IF kind = "remove" THEN "check" ELSE "install")
     /\ UNCHANGED <<files, records, locks, seen>>
  \/ /\ entry["local"] # seen[p] /\ entry["target"] = None
     /\ Step(p, "verify", "putback") /\ Link("local", "target")
     /\ UNCHANGED <<records, locks, seen>>
  \/ entry["local"] # seen[p] /\ entry["target"] # None /\ Refuse(p, "verify")

PutBack(p) ==
  Step(p, "putback", "unprepare") /\ Remove("local") /\ UNCHANGED <<records, locks, seen>>
Unprepare(p) ==
  /\ Step(p, "unprepare", "unback") /\ intent' = NoIntent
  /\ UNCHANGED <<files, completion, locks, seen>>
DropBackup(p) ==
  Step(p, "unback", "abort") /\ Remove("vault") /\ UNCHANGED <<records, locks, seen>>

installDescriptorRelativeWithoutOverwrite(p) ==
  \/ /\ entry["target"] = None /\ Step(p, "install", "detach") /\ Link("temp", "target")
     /\ UNCHANGED <<records, locks, seen>>
  \/ entry["target"] # None /\ Refuse(p, "install")

DetachTemp(p) ==
  Step(p, "detach", "check") /\ Remove("temp") /\ UNCHANGED <<records, locks, seen>>

CheckPostimage(p) ==
  \/ /\ Content("target") = Post /\ Step(p, "check", "complete")
     /\ seen' = [seen EXCEPT ![p] = entry["target"]]
     /\ UNCHANGED <<files, records, locks>>
  \/ Content("target") # Post /\ Refuse(p, "check")

\* The process cleans up after its completion; or the publication throws after it
\* took effect, and the catch block finds the record.
publishOperationCompletion(p) ==
  /\ pc[p] = "complete" /\ completion' = seen[p]
  /\ \/ /\ Go(p, "unlocal") /\ way' = [way EXCEPT ![p] = "done"]
        /\ UNCHANGED faults
     \/ /\ "complete" \in Interrupted /\ faults < MaxFaults /\ faults' = faults + 1
        /\ Throw(p)
  /\ UNCHANGED <<kind, files, intent, locks, seen, crashes, writes>>

\* abortStagedScopedFileSync and the catch blocks: the bound temp goes.
Abort(p) ==
  /\ Step(p, "abort", "unlock")
  /\ IF entry["temp"] # None /\ entry["temp"] = bound THEN Remove("temp") ELSE UNCHANGED files
  /\ UNCHANGED <<records, locks, seen>>

-----------------------------------------------------------------------------
(* Faults. *)

\* An operation on the file system fails; a copy removes what it began.
Fault(p) ==
  /\ pc[p] \in Interrupted \cap (Staging \cup BeforeIntent \cup AfterIntent \cup Recovery)
  /\ faults < MaxFaults /\ faults' = faults + 1
  /\ Throw(p)
  /\ CASE pc[p] = "copy" -> Remove("vault")
       [] pc[p] = "refill" /\ Content("target") = "partial" -> Remove("target")
       [] OTHER -> UNCHANGED files
  /\ UNCHANGED <<kind, records, locks, seen, crashes, writes>>

Kill(p) ==
  /\ pc[p] \in Interrupted /\ crashes < MaxCrashes /\ crashes' = crashes + 1
  /\ Go(p, "idle")
  /\ lock' = IF lock = p THEN "stale" ELSE lock
  /\ Forget(p)
  /\ UNCHANGED <<kind, files, records, bound, faults, writes>>

\* A program outside the repository replaces, creates or removes the file.
OutsideWrites ==
  /\ writes < MaxWrites /\ writes' = writes + 1
  /\ \/ New("target", "foreign")
     \/ entry["target"] # None /\ Remove("target")
  /\ UNCHANGED <<kind, records, locks, pc, seen, way, crashes, faults>>

RecoveryStep(p) ==
  \/ RecoverDecides(p) \/ UndoInstall(p) \/ restoreDescriptorRelativeBackup(p)
  \/ restoreRecoveryEntry(p) \/ RefillTarget(p) \/ UnlinkLocal(p)
  \/ UnlinkBackup(p) \/ UnlinkTemp(p) \/ deletePreparedOperationRecord(p)

OperationStep(p) ==
  \/ StageTemp(p) \/ bindTargetLockTemporary(p) \/ WriteTemp(p) \/ CommitStarts(p)
  \/ StartRemove(p) \/ BackupStarts(p) \/ BackupCopies(p) \/ createOperationIntent(p)
  \/ MoveTarget(p) \/ VerifyMoved(p) \/ PutBack(p) \/ Unprepare(p) \/ DropBackup(p)
  \/ installDescriptorRelativeWithoutOverwrite(p) \/ DetachTemp(p)
  \/ CheckPostimage(p) \/ publishOperationCompletion(p) \/ Abort(p)

Next ==
  \/ \E p \in Processes :
       \/ acquireTargetLock(p) \/ LookAtStaleLock(p) \/ UnlinkStaleTemp(p)
       \/ reclaimStaleTargetLock(p) \/ ReclaimLate(p) \/ releaseTargetLock(p)
       \/ RecoveryStep(p) \/ OperationStep(p) \/ InspectRecovered(p)
       \/ Fault(p) \/ Kill(p)
  \/ OutsideWrites

Spec == Init /\ [][Next]_vars

\* Processes go on, and a caller that was refused tries again; nothing forces the
\* faults.
FairSpec ==
  /\ Spec
  /\ \A p \in Processes :
       /\ WF_vars(LookAtStaleLock(p)) /\ WF_vars(UnlinkStaleTemp(p))
       /\ WF_vars(reclaimStaleTargetLock(p)) /\ WF_vars(ReclaimLate(p))
       /\ WF_vars(releaseTargetLock(p))
       /\ WF_vars(RecoveryStep(p)) /\ SF_vars(OperationStep(p))
       /\ SF_vars(acquireTargetLock(p))

-----------------------------------------------------------------------------
(* Properties. *)

\* The content callers may rely on: while an operation is prepared and not
\* completed, a target that is missing, half restored or newly installed still
\* stands for the preimage.
Image ==
  IF writes > 0 THEN "foreign"
  ELSE IF Prepared /\ ~ Completed /\ (\/ entry["target"] \in {None, intent.staged}
                                \/ Content("target") = "partial")
    THEN "before"
    ELSE CASE Content("target") = Pre -> "before"
           [] Content("target") = Post -> "after"
           [] OTHER -> Content("target")

Atomic == INSTANCE AtomicFile WITH image <- Image, done <- Completed

\* The protocol turns the preimage into the postimage in one instant, whatever
\* is killed, fails or is retried (commitStagedScopedFileSync, removeScopedRegularFileSync).
ImplementsAtomicFile == Atomic!Spec

\* Until the completion is published the bytes of the preimage exist under a name
\* that recovery consults.
PreimageKept ==
  kind # "create" /\ ~ Completed /\ writes = 0 =>
    \E n \in {"target", "local", "vault"} : Content(n) = "pre"

\* What refuses every retry: a temp that no owner record names, a backup cut
\* short, or a record whose preimage recovery cannot put back.
FailedClosed ==
  \/ ~ Prepared /\ (entry["temp"] \notin {None, bound} \/ Content("vault") = "partial")
  \/ Prepared /\ ~ Completed /\ Irrecoverable

\* A killed operation is finished by the processes that retry it, unless a kill or
\* an error in one of the windows of FailedClosed makes it refuse from then on, a
\* program outside writes the file, or a late reclaimer takes the lock or the temp away.
FinishedOrFailedClosed ==
  <>(Completed \/ writes > 0 \/ lock = "lost") \/ <>[]FailedClosed
=============================================================================
