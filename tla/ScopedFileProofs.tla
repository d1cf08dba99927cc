--------------------------- MODULE ScopedFileProofs ---------------------------
(***************************************************************************)
(* Proofs about ScopedFile: type correctness, the preimage is kept, and    *)
(* the protocol implements AtomicFile.                                     *)
(*                                                                         *)
(* As long as nobody outside writes the file, the directory, the records   *)
(* and the point of the process at work determine each other (Sound).      *)
(* Images, Recorded and Standing say it of what a kill leaves behind, Where *)
(* of the process that holds the lock; the refinement follows, because the *)
(* image is "after" exactly when the completion is published.              *)
(***************************************************************************)
EXTENDS ScopedFile, TLAPS

\* What each name can hold; the two copies that are still being written are two files.
Images ==
  /\ Content("temp") \in {"absent", "partial", "post"}
  /\ Content("vault") \in {"absent", "partial", "pre"}
  /\ Content("local") \in {"absent", "pre"}
  /\ entry["vault"] # None => entry["vault"] # entry["temp"]
  /\ kind = "create" => entry["vault"] = None
  /\ kind = "remove" => entry["temp"] = None

\* A PREPARED record names complete files, and the names still refer to them.
Recorded ==
  /\ ~ Prepared => entry["local"] = None
  /\ Prepared =>
       /\ IF kind = "create" THEN intent.pre = None ELSE content[intent.pre] = "pre"
       /\ IF kind = "remove" THEN intent.staged = None ELSE content[intent.staged] = "post"
       /\ intent.pre = None <=> kind = "create"
       /\ intent.backup = None <=> kind = "create"
       /\ intent.staged = None <=> kind = "remove"
       /\ entry["temp"] \in {None, intent.staged}
       /\ entry["local"] \in {None, intent.pre}
       /\ entry["vault"] \in {None, intent.backup}
       /\ Content("vault") # "partial"

\* What stands at the target, by the records; an unfinished operation keeps the
\* preimage somewhere.
Standing ==
  /\ Completed => Content("target") = Post
  /\ ~ Completed /\ ~ Prepared => Content("target") = Pre
  /\ ~ Completed /\ Prepared =>
       IF kind = "create"
         THEN entry["target"] \in {None, intent.staged}
         ELSE /\ \/ entry["target"] \in {None, intent.staged}
                 \/ Content("target") \in {"pre", "partial"}
              /\ \/ entry["local"] # None \/ entry["vault"] # None
                 \/ Content("target") = "pre"

\* The records at the point where p is.
WhereRecords(p) ==
  /\ pc[p] \in Staging \cup BeforeIntent => ~ Prepared
  /\ pc[p] = "unback" => ~ Prepared \/ kind = "create" \/ Content("target") = "pre"
  /\ pc[p] \in AfterIntent \cup (Recovery \ {"recover"}) => Prepared
  /\ pc[p] \in AfterIntent \cup {"backup", "copy", "prepare", "unback", "undo",
                                 "relink", "restore", "refill"} => ~ Completed
  /\ pc[p] \notin {"putback", "unprepare"}

\* The files at the point of the operation where p is.
WhereOperation(p) ==
  /\ pc[p] \in {"bind", "write"} => Content("temp") = "partial"
  /\ pc[p] = "commit" => Content("temp") = "post"
  /\ pc[p] \in {"backup", "copy", "prepare"} =>
       seen[p] = entry["target"] /\ (kind # "remove" => Content("temp") = "post")
  /\ pc[p] \in {"backup", "copy", "move", "verify"} => kind # "create"
  /\ pc[p] \in {"bind", "write", "commit"} => kind # "remove"
  /\ pc[p] = "copy" => Content("vault") = "partial"
  /\ pc[p] = "prepare" => kind = "create" \/ Content("vault") = "pre"
  /\ pc[p] = "move" => entry["target"] = intent.pre /\ seen[p] = intent.pre
  /\ pc[p] = "verify" => entry["local"] = seen[p]
  /\ pc[p] = "complete" => Content("target") = Post

\* The files at the point of the recovery where p is.
WhereRecovery(p) ==
  /\ pc[p] = "undo" /\ kind # "create" => entry["local"] # None \/ entry["vault"] # None
  /\ pc[p] = "relink" => entry["local"] # None
  /\ pc[p] \in {"restore", "refill"} => entry["vault"] # None
  /\ pc[p] \in {"relink", "restore", "refill"} => kind # "create"
  /\ pc[p] \in {"restore", "refill", "unvault", "untemp", "forget"} => entry["local"] = None
  /\ pc[p] \in {"unlocal", "unvault"} /\ ~ Completed => Content("target") = "pre"
  /\ pc[p] \in {"untemp", "forget"} /\ ~ Completed => Content("target") = Pre

Where(p) == WhereRecords(p) /\ WhereOperation(p) /\ WhereRecovery(p)

Sound == Images /\ Recorded /\ Standing /\ \A p \in Processes : Where(p)

ScopedInv == TypeOK /\ (writes = 0 => Sound)

-----------------------------------------------------------------------------
(* Facts that the steps share. *)

USE DEF Waiting

\* A new file is none of those in use.
LEMMA FreshInode ==
  ASSUME Inodes \ InUse # {}
  PROVE  Fresh \in Inodes /\ Fresh \notin InUse
BY DEF Fresh

\* What is in use: every name, every record and the inode a process looked at.
LEMMA UsedInodes ==
  /\ \A n \in Names : entry[n] \in InUse
  /\ {intent.pre, intent.backup, intent.staged, completion} \subseteq InUse
BY DEF InUse

\* Whoever is at work holds the lock, so everybody else waits, unless it was lost.
LEMMA OthersWait ==
  ASSUME TypeOK, lock # "lost", NEW p \in Processes, pc[p] \notin Waiting,
         NEW q \in Processes, q # p
  PROVE  pc[q] \in Waiting
BY DEF TypeOK

\* Whoever waits, or is about to recover, is at no point of the protocol.
LEMMA WaitingIsNowhere ==
  ASSUME NEW p \in Processes, pc[p] \in Waiting \cup {"recover"}
  PROVE  Where(p)
BY DEF Where, WhereRecords, WhereOperation, WhereRecovery, Staging, BeforeIntent,
   AfterIntent, Recovery

\* A step of the process at work leaves the others where they are.
LEMMA OnlyOneMoves ==
  ASSUME TypeOK, NEW p \in Processes, pc[p] \notin Waiting, NEW to, Go(p, to), Where(p)'
  PROVE  (\A q \in Processes : Where(q))'
<1>1. ASSUME NEW q \in Processes, q # p PROVE Where(q)'
  <2>1. pc'[q] \in Waiting
    BY <1>1, OthersWait DEF Go, TypeOK
  <2>2. QED
    BY <2>1 DEF Where, WhereRecords, WhereOperation, WhereRecovery, Staging,
       BeforeIntent, AfterIntent, Recovery
<1>2. QED
  BY <1>1

\* The directory and the records are well formed, whatever is at work.
Data ==
  /\ kind \in {"replace", "create", "remove"}
  /\ entry \in [Names -> Inodes \cup {None}]
  /\ content \in [Inodes -> {"pre", "post", "foreign", "partial"}]
  /\ intent \in [pre : Inodes \cup {None}, backup : Inodes \cup {None},
                 staged : Inodes \cup {None}]
  /\ completion \in Inodes \cup {None, Unpublished}
  /\ seen \in [Processes -> Inodes \cup {None}]
  /\ pc \in [Processes -> Points]

LEMMA DataOf == TypeOK => Data
BY KindsAssumption DEF TypeOK, Data

\* A step that throws leads to a point where only what a kill leaves is needed.
LEMMA Thrown ==
  ASSUME TypeOK, Sound, NEW p \in Processes, pc[p] \notin Waiting, Throw(p),
         UNCHANGED <<intent, completion>>
  PROVE  (\A q \in Processes : Where(q))'
<1>1. /\ WhereRecords(p)'
      /\ pc'[p] \in {"recover", "abort", "unback", "unlock"}
  BY DEF TypeOK, Sound, Where, WhereRecords, Throw, Go, Prepared, Completed, Staging,
     BeforeIntent, AfterIntent, Recovery
<1>2. Where(p)'
  BY <1>1 DEF Where, WhereOperation, WhereRecovery
<1>3. QED
  BY <1>2, OnlyOneMoves DEF Throw

\* A refusal keeps everything in order.
LEMMA RefuseKeeps ==
  ASSUME TypeOK, Sound, NEW p \in Processes, NEW from, from \notin Waiting,
         Refuse(p, from)
  PROVE  Sound'
<1>1. UNCHANGED <<kind, entry, content, intent, completion>>
  BY DEF Refuse, files, records
<1>2. (Images /\ Recorded /\ Standing)'
  BY <1>1 DEF Sound, Images, Recorded, Standing, Content, Pre, Post, Prepared, Completed
<1>3. (\A q \in Processes : Where(q))'
  BY <1>1, Thrown DEF Refuse
<1>4. QED
  BY <1>2, <1>3 DEF Sound

-----------------------------------------------------------------------------
(* The recovery keeps the files and records in order. *)

LEMMA RecoverStep ==
  ASSUME TypeOK, Sound, NEW p \in Processes, RecoverDecides(p)
  PROVE  Sound'
<1> USE DataOf DEF Data
<1> DEFINE Way == IF Completed \/ TargetOriginal THEN "unlocal"
                  ELSE IF TargetOwnedPost THEN "undo" ELSE Restoring
<1>1. CASE Refuse(p, "recover")
  BY <1>1, RefuseKeeps
<1>2. ASSUME NEW to, Step(p, "recover", to), UNCHANGED <<files, records, seen>>,
             \/ ~ Prepared /\ to \in {"abort", "locked"}
             \/ Prepared /\ (Completed \/ ~ Irrecoverable) /\ to = Way
      PROVE  Sound'
  <2>0. /\ Images /\ Recorded /\ Standing /\ pc[p] = "recover"
        /\ UNCHANGED <<kind, entry, content, intent, completion, seen>>
        /\ pc'[p] = to
    BY <1>2 DEF Sound, Step, Go, files, records
  <2>1. (Images /\ Recorded /\ Standing)'
    BY <2>0 DEF Images, Recorded, Standing, Content, Pre, Post, Prepared, Completed
  <2>2. CASE ~ Prepared
    <3>1. WhereRecords(p)' /\ WhereOperation(p)' /\ WhereRecovery(p)'
      BY <1>2, <2>0, <2>2 DEF WhereRecords, WhereOperation, WhereRecovery, Prepared,
         AfterIntent, Recovery
    <3>2. QED
      BY <1>2, <2>0, <2>1, <3>1, OnlyOneMoves DEF Step, Sound, Where
  <2>3. CASE Prepared
    <3>0. to \in {"unlocal", "undo", "untemp", "relink", "restore"}
      BY <1>2, <2>3 DEF Restoring
    <3>1. WhereRecords(p)'
      BY <1>2, <2>0, <2>3, <3>0 DEF WhereRecords, Prepared, Completed, Staging,
         BeforeIntent, AfterIntent
    <3>2. WhereOperation(p)'
      BY <2>0, <3>0 DEF WhereOperation
    <3>3. WhereRecovery(p)'
      BY <1>2, <2>0, <2>3, <3>0 DEF WhereRecovery, Recorded, Standing, Content, Pre,
         Completed, Restoring, TargetOriginal, TargetOwnedPost, Irrecoverable,
         LocalValid
    <3>4. QED
      BY <1>2, <2>0, <2>1, <3>1, <3>2, <3>3, OnlyOneMoves DEF Step, Sound, Where
  <2>4. QED
    BY <2>2, <2>3
<1>3. QED
  BY <1>1, <1>2 DEF RecoverDecides

LEMMA UndoStep ==
  ASSUME TypeOK, Sound, NEW p \in Processes, UndoInstall(p)
  PROVE  Sound'
<1> USE DataOf DEF Data
<1>1. CASE Refuse(p, "undo")
  BY <1>1, RefuseKeeps
<1>2. CASE Step(p, "undo", Restoring) /\ Remove("target") /\ UNCHANGED <<records, locks, seen>>
  <2>0. Where(p) /\ pc[p] = "undo" /\ pc' = [pc EXCEPT ![p] = Restoring]
    BY <1>2 DEF Sound, Step, Go
  <2>1. /\ entry' = [entry EXCEPT !["target"] = None]
        /\ UNCHANGED <<kind, content, intent, completion, seen>>
    BY <1>2 DEF Step, Remove, Put, records
  <2>2. Images'
    BY <2>1 DEF Sound, Images, Content, Names
  <2>3. Recorded'
    BY <2>1 DEF Sound, Recorded, Content, Prepared, Names
  <2>4. Standing'
    BY <2>0, <2>1 DEF Sound, Standing, Where, WhereRecords, WhereRecovery, Content,
       Prepared, Completed, Recovery
  <2>5. Where(p)'
    BY <2>0, <2>1 DEF Sound, Where, WhereRecords, WhereOperation, WhereRecovery,
       Recorded, Content, Pre, Prepared, Completed, Restoring, LocalValid, Staging,
       BeforeIntent, Recovery, Names
  <2>6. QED
    BY <1>2, <2>2, <2>3, <2>4, <2>5, OnlyOneMoves DEF Step, Sound
<1>3. QED
  BY <1>1, <1>2 DEF UndoInstall

\* The preimage is linked back beside its backup.
LEMMA RelinkStep ==
  ASSUME TypeOK, Sound, NEW p \in Processes, restoreDescriptorRelativeBackup(p)
  PROVE  Sound'
<1> USE DataOf DEF Data
<1>1. CASE Refuse(p, "relink")
  BY <1>1, RefuseKeeps
<1>2. CASE /\ Step(p, "relink", "unlocal") /\ Link("local", "target")
          /\ UNCHANGED <<records, locks, seen>>
  <2>0. Where(p) /\ pc[p] = "relink" /\ Go(p, "unlocal") /\ pc'[p] = "unlocal"
    BY <1>2 DEF Sound, Step, Go
  <2>1. /\ entry' = [entry EXCEPT !["target"] = entry["local"]]
        /\ UNCHANGED <<kind, content, intent, completion, seen>>
    BY <1>2 DEF Step, Link, Put, records
  <2>2. Images'
    BY <2>1 DEF Sound, Images, Content, Names
  <2>3. Recorded'
    BY <2>1 DEF Sound, Images, Recorded, Content, Prepared
  <2>4. Standing'
    BY <1>2, <2>0, <2>1 DEF Sound, Recorded, Standing, Where, WhereRecords,
       WhereRecovery, Content, Prepared, Completed, Staging
  <2>5. Where(p)'
    BY <1>2, <2>0, <2>1 DEF Sound, Recorded, Where, WhereRecords, WhereOperation,
       WhereRecovery, Content, Prepared, Completed, Names, Staging, BeforeIntent
  <2>6. QED
    BY <2>0, <2>2, <2>3, <2>4, <2>5, OnlyOneMoves DEF Sound
<1>3. QED
  BY <1>1, <1>2 DEF restoreDescriptorRelativeBackup

\* The target is created anew, to be filled from the vault.
LEMMA RestoreStep ==
  ASSUME TypeOK, Sound, NEW p \in Processes, restoreRecoveryEntry(p)
  PROVE  Sound'
<1> USE DataOf DEF Data
<1>1. CASE Refuse(p, "restore")
  BY <1>1, RefuseKeeps
<1>2. CASE /\ Step(p, "restore", "refill") /\ Create("target")
          /\ UNCHANGED <<records, locks, seen>>
  <2>0. Where(p) /\ pc[p] = "restore" /\ Go(p, "refill") /\ pc'[p] = "refill"
    BY <1>2 DEF Sound, Step, Go
  <2>1. /\ Fresh \in Inodes /\ \A n \in Names : entry[n] # Fresh
        /\ Fresh \notin {intent.pre, intent.backup, intent.staged}
        /\ entry' = [entry EXCEPT !["target"] = Fresh]
        /\ content' = [content EXCEPT ![Fresh] = "partial"]
        /\ UNCHANGED <<kind, intent, completion, seen>>
    BY <1>2, FreshInode, UsedInodes DEF Step, Create, New, Put, records
  <2>2. Images'
    BY <1>2, <2>0, <2>1 DEF Sound, Images, Recorded, Content, Staging
  <2>3. Recorded'
    BY <1>2, <2>0, <2>1 DEF Sound, Recorded, Content, Prepared, Staging
  <2>4. Standing'
    BY <1>2, <2>0, <2>1 DEF Sound, Standing, Where, WhereRecords, WhereRecovery,
       Content, Prepared, Completed, Recovery
  <2>5. Where(p)'
    BY <1>2, <2>0, <2>1 DEF Where, WhereRecords, WhereOperation, WhereRecovery,
       Prepared, Completed, Staging, BeforeIntent, Recovery
  <2>6. QED
    BY <2>0, <2>2, <2>3, <2>4, <2>5, OnlyOneMoves DEF Sound
<1>3. QED
  BY <1>1, <1>2 DEF restoreRecoveryEntry

\* The restored target is complete.
LEMMA RefillStep ==
  ASSUME TypeOK, Sound, NEW p \in Processes, RefillTarget(p)
  PROVE  Sound'
<1> USE DataOf DEF Data
<1>1. CASE Refuse(p, "refill")
  BY <1>1, RefuseKeeps
<1>2. CASE /\ Content("target") = "partial" /\ Step(p, "refill", "unvault")
          /\ Fill("target", "pre") /\ UNCHANGED <<records, locks, seen>>
  <2>0. Where(p) /\ pc[p] = "refill" /\ Go(p, "unvault") /\ pc'[p] = "unvault"
    BY <1>2 DEF Sound, Step, Go
  <2>1. /\ content' = [content EXCEPT ![entry["target"]] = "pre"]
        /\ UNCHANGED <<kind, entry, intent, completion, seen>>
    BY <1>2 DEF Step, Fill, records
  <2>2. Images'
    BY <1>2, <2>0, <2>1 DEF Sound, Images, Recorded, Standing, Where, WhereRecords,
       Content, Pre, Staging
  <2>3. Recorded'
    BY <1>2, <2>0, <2>1 DEF Sound, Recorded, Standing, Where, WhereRecords,
       WhereRecovery, Content, Pre, Staging
  <2>4. Standing'
    BY <1>2, <2>0, <2>1 DEF Sound, Standing, Where, WhereRecords, Content, Pre,
       Prepared, Completed, Staging
  <2>5. Where(p)'
    BY <1>2, <2>0, <2>1 DEF Sound, Standing, Where, WhereRecords, WhereOperation,
       WhereRecovery, Content, Pre, Prepared, Completed, Names, Staging, BeforeIntent
  <2>6. QED
    BY <2>0, <2>2, <2>3, <2>4, <2>5, OnlyOneMoves DEF Sound
<1>3. QED
  BY <1>1, <1>2 DEF RefillTarget

\* The local backup goes: the target is the preimage again, or the operation is completed.
LEMMA UnlinkLocalStep ==
  ASSUME TypeOK, Sound, NEW p \in Processes, UnlinkLocal(p)
  PROVE  Sound'
<1> USE DataOf DEF Data
<1>1. CASE Refuse(p, "unlocal")
  BY <1>1, RefuseKeeps
<1>2. CASE /\ entry["local"] = intent.pre /\ Step(p, "unlocal", "unvault")
          /\ Remove("local") /\ UNCHANGED <<records, seen>>
  <2>0. Where(p) /\ pc[p] = "unlocal" /\ Go(p, "unvault") /\ pc'[p] = "unvault"
    BY <1>2 DEF Sound, Step, Go
  <2>1. /\ entry' = [entry EXCEPT !["local"] = None]
        /\ UNCHANGED <<kind, content, intent, completion, seen>>
    BY <1>2 DEF Step, Remove, Put, records
  <2>2. Images'
    BY <2>1 DEF Sound, Images, Content, Names
  <2>3. Recorded'
    BY <2>1 DEF Sound, Images, Recorded, Content, Prepared
  <2>4. Standing'
    BY <1>2, <2>0, <2>1 DEF Sound, Recorded, Standing, Where, WhereRecovery, Content,
       Pre, Post, Completed, Staging
  <2>5. Where(p)'
    BY <1>2, <2>0, <2>1 DEF Where, WhereRecords, WhereOperation, WhereRecovery, Content,
       Prepared, Completed, Names, Staging, BeforeIntent, AfterIntent, Recovery
  <2>6. QED
    BY <2>0, <2>2, <2>3, <2>4, <2>5, OnlyOneMoves DEF Sound
<1>3. CASE /\ (entry["local"] = None \/ (~ Completed /\ ~ LocalValid))
          /\ Step(p, "unlocal", "unvault") /\ UNCHANGED <<files, records, seen>>
  <2>0. Where(p) /\ pc[p] = "unlocal" /\ Go(p, "unvault") /\ pc'[p] = "unvault"
    BY <1>3 DEF Sound, Step, Go
  <2>1. UNCHANGED <<kind, entry, content, intent, completion, seen>>
    BY <1>3 DEF Step, files, records
  <2>2. Images'
    BY <2>1 DEF Sound, Images, Content, Names
  <2>3. Recorded'
    BY <2>1 DEF Sound, Images, Recorded, Content, Prepared
  <2>4. Standing'
    BY <1>3, <2>0, <2>1 DEF Sound, Recorded, Standing, Where, WhereRecovery, Content,
       Pre, Post, Completed, BeforeIntent
  <2>5. Where(p)'
    BY <1>3, <2>0, <2>1 DEF Sound, Recorded, Where, WhereRecords, WhereOperation,
       WhereRecovery, Content, Prepared, Completed, Staging, BeforeIntent, AfterIntent,
       Recovery, LocalValid
  <2>6. QED
    BY <2>0, <2>2, <2>3, <2>4, <2>5, OnlyOneMoves DEF Sound
<1>4. QED
  BY <1>1, <1>2, <1>3 DEF UnlinkLocal, Cleanup

\* The backup in the vault goes likewise.
LEMMA UnlinkBackupStep ==
  ASSUME TypeOK, Sound, NEW p \in Processes, UnlinkBackup(p)
  PROVE  Sound'
<1> USE DataOf DEF Data
<1>1. CASE Refuse(p, "unvault")
  BY <1>1, RefuseKeeps
<1>2. CASE /\ entry["vault"] = intent.backup /\ Step(p, "unvault", "untemp")
          /\ Remove("vault") /\ UNCHANGED <<records, seen>>
  <2>0. Where(p) /\ pc[p] = "unvault" /\ Go(p, "untemp") /\ pc'[p] = "untemp"
    BY <1>2 DEF Sound, Step, Go
  <2>1. /\ entry' = [entry EXCEPT !["vault"] = None]
        /\ UNCHANGED <<kind, content, intent, completion, seen>>
    BY <1>2 DEF Step, Remove, Put, records
  <2>2. Images'
    BY <2>1 DEF Sound, Images, Content, Names
  <2>3. Recorded'
    BY <2>1 DEF Sound, Images, Recorded, Content, Prepared
  <2>4. Standing'
    BY <1>2, <2>0, <2>1 DEF Sound, Recorded, Standing, Where, WhereRecovery, Content,
       Pre, Post, Completed, Staging
  <2>5. Where(p)'
    BY <1>2, <2>0, <2>1 DEF Sound, Recorded, Standing, Where, WhereRecords,
       WhereOperation, WhereRecovery, Content, Pre, Prepared, Completed, Staging,
       BeforeIntent, AfterIntent, Recovery
  <2>6. QED
    BY <2>0, <2>2, <2>3, <2>4, <2>5, OnlyOneMoves DEF Sound
<1>3. CASE /\ entry["vault"] = None
          /\ Step(p, "unvault", "untemp") /\ UNCHANGED <<files, records, seen>>
  <2>0. Where(p) /\ pc[p] = "unvault" /\ Go(p, "untemp") /\ pc'[p] = "untemp"
    BY <1>3 DEF Sound, Step, Go
  <2>1. UNCHANGED <<kind, entry, content, intent, completion, seen>>
    BY <1>3 DEF Step, files, records
  <2>2. Images'
    BY <2>1 DEF Sound, Images, Content, Names
  <2>3. Recorded'
    BY <2>1 DEF Sound, Images, Recorded, Content, Prepared
  <2>4. Standing'
    BY <1>3, <2>0, <2>1 DEF Sound, Recorded, Standing, Where, WhereRecovery, Content,
       Pre, Post, Completed, Staging
  <2>5. Where(p)'
    BY <1>3, <2>0, <2>1 DEF Sound, Recorded, Standing, Where, WhereRecords,
       WhereOperation, WhereRecovery, Content, Pre, Prepared, Completed, Staging,
       BeforeIntent, AfterIntent, Recovery
  <2>6. QED
    BY <2>0, <2>2, <2>3, <2>4, <2>5, OnlyOneMoves DEF Sound
<1>4. QED
  BY <1>1, <1>2, <1>3 DEF UnlinkBackup, Cleanup

\* The staged file goes.
LEMMA UnlinkTempStep ==
  ASSUME TypeOK, Sound, NEW p \in Processes, UnlinkTemp(p)
  PROVE  Sound'
<1> USE DataOf DEF Data
<1>1. CASE Refuse(p, "untemp")
  BY <1>1, RefuseKeeps
<1>2. CASE /\ entry["temp"] = intent.staged /\ Step(p, "untemp", "forget")
          /\ Remove("temp") /\ UNCHANGED <<records, seen>>
  <2>0. Where(p) /\ pc[p] = "untemp" /\ Go(p, "forget") /\ pc'[p] = "forget"
    BY <1>2 DEF Sound, Step, Go
  <2>1. /\ entry' = [entry EXCEPT !["temp"] = None]
        /\ UNCHANGED <<kind, content, intent, completion, seen>>
    BY <1>2 DEF Step, Remove, Put, records
  <2>2. Images'
    BY <2>1 DEF Sound, Images, Content, Names
  <2>3. Recorded'
    BY <2>1 DEF Sound, Images, Recorded, Content, Prepared
  <2>4. Standing'
    BY <1>2, <2>0, <2>1 DEF Sound, Standing, Content, Pre, Post, Prepared, Completed,
       Staging
  <2>5. Where(p)'
    BY <1>2, <2>0, <2>1 DEF Where, WhereRecords, WhereOperation, WhereRecovery, Content,
       Pre, Prepared, Completed, Staging, BeforeIntent, AfterIntent, Recovery
  <2>6. QED
    BY <2>0, <2>2, <2>3, <2>4, <2>5, OnlyOneMoves DEF Sound
<1>3. CASE /\ entry["temp"] = None
          /\ Step(p, "untemp", "forget") /\ UNCHANGED <<files, records, seen>>
  <2>0. Where(p) /\ pc[p] = "untemp" /\ Go(p, "forget") /\ pc'[p] = "forget"
    BY <1>3 DEF Sound, Step, Go
  <2>1. UNCHANGED <<kind, entry, content, intent, completion, seen>>
    BY <1>3 DEF Step, files, records
  <2>2. Images'
    BY <2>1 DEF Sound, Images, Content, Names
  <2>3. Recorded'
    BY <2>1 DEF Sound, Images, Recorded, Content, Prepared
  <2>4. Standing'
    BY <1>3, <2>0, <2>1 DEF Sound, Standing, Content, Pre, Post, Prepared, Completed,
       Staging
  <2>5. Where(p)'
    BY <1>3, <2>0, <2>1 DEF Where, WhereRecords, WhereOperation, WhereRecovery, Content,
       Pre, Prepared, Completed, Staging, BeforeIntent, AfterIntent, Recovery
  <2>6. QED
    BY <2>0, <2>2, <2>3, <2>4, <2>5, OnlyOneMoves DEF Sound
<1>4. QED
  BY <1>1, <1>2, <1>3 DEF UnlinkTemp, Cleanup

\* The record goes when the target is the preimage or the completed postimage.
LEMMA ForgetStep ==
  ASSUME TypeOK, Sound, NEW p \in Processes, deletePreparedOperationRecord(p)
  PROVE  Sound'
<1> USE DataOf DEF Data
<1>0. PICK to \in {"locked", "abort", "unlock"} : Step(p, "forget", to)
  BY DEF deletePreparedOperationRecord, TypeOK
<1>1. Where(p) /\ pc[p] = "forget" /\ Go(p, to) /\ pc'[p] = to
  BY <1>0 DEF Sound, Step, Go
<1>2. intent' = NoIntent /\ UNCHANGED <<kind, entry, content, completion, seen>>
  BY <1>0 DEF deletePreparedOperationRecord, Step, files
<1>3. Images'
  BY <1>2 DEF Sound, Images, Content
<1>4. (Recorded /\ Standing)'
  BY <1>1, <1>2 DEF Sound, Recorded, Standing, Where, WhereRecovery, Content, Pre, Post,
     Prepared, Completed
<1>5. Where(p)'
  BY <1>1, <1>2 DEF Where, WhereRecords, WhereOperation, WhereRecovery, Prepared,
     AfterIntent, Recovery
<1>6. QED
  BY <1>1, <1>3, <1>4, <1>5, OnlyOneMoves DEF Sound

-----------------------------------------------------------------------------
(* The operation keeps the files and records in order. *)

\* An inspection ends after the recovery.
LEMMA InspectStep ==
  ASSUME TypeOK, Sound, NEW p \in Processes, InspectRecovered(p)
  PROVE  Sound'
<1> USE DataOf DEF Data
<1>1. CASE /\ Step(p, "locked", "unlock") /\ UNCHANGED <<files, records, seen>>
  <2>0. Where(p) /\ pc[p] = "locked" /\ Go(p, "unlock") /\ pc'[p] = "unlock"
    BY <1>1 DEF Sound, Step, Go
  <2>1. UNCHANGED <<kind, entry, content, intent, completion, seen>>
    BY <1>1 DEF Step, files, records
  <2>2. Images'
    BY <2>1 DEF Sound, Images, Content, Names
  <2>3. Recorded'
    BY <2>1 DEF Sound, Images, Recorded, Content, Prepared
  <2>4. Standing'
    BY <1>1, <2>0, <2>1 DEF Sound, Standing, Content, Pre, Post, Prepared, Completed,
       Staging
  <2>5. Where(p)'
    BY <1>1, <2>0, <2>1 DEF Where, WhereRecords, WhereOperation, WhereRecovery,
       Prepared, Staging, AfterIntent, Recovery
  <2>6. QED
    BY <2>0, <2>2, <2>3, <2>4, <2>5, OnlyOneMoves DEF Sound
<1>2. QED
  BY <1>1 DEF InspectRecovered

\* The staged file is new.
LEMMA StageStep ==
  ASSUME TypeOK, Sound, NEW p \in Processes, StageTemp(p)
  PROVE  Sound'
<1> USE DataOf DEF Data
<1>1. CASE Refuse(p, "locked")
  BY <1>1, RefuseKeeps
<1>2. CASE /\ kind # "remove" /\ Stageable /\ Step(p, "locked", "bind")
          /\ Create("temp") /\ UNCHANGED records
  <2>0. Where(p) /\ pc[p] = "locked" /\ Go(p, "bind") /\ pc'[p] = "bind"
    BY <1>2 DEF Sound, Step, Go
  <2>1. /\ Fresh \in Inodes /\ \A n \in Names : entry[n] # Fresh
        /\ Fresh \notin {intent.pre, intent.backup, intent.staged}
        /\ entry' = [entry EXCEPT !["temp"] = Fresh]
        /\ content' = [content EXCEPT ![Fresh] = "partial"]
        /\ UNCHANGED <<kind, intent, completion>>
    BY <1>2, FreshInode, UsedInodes DEF Step, Create, New, Put, records
  <2>2. Images'
    BY <1>2, <2>0, <2>1 DEF Sound, Images, Content, Names, Staging
  <2>3. Recorded'
    BY <1>2, <2>0, <2>1 DEF Sound, Recorded, Where, WhereRecords, Prepared, Staging
  <2>4. Standing'
    BY <1>2, <2>0, <2>1 DEF Sound, Standing, Where, WhereRecords, Content, Pre, Post,
       Completed, Names, Staging
  <2>5. Where(p)'
    BY <1>2, <2>0, <2>1 DEF Sound, Recorded, Where, WhereRecords, WhereOperation,
       WhereRecovery, Content, Prepared, Names, Staging, AfterIntent, Recovery
  <2>6. QED
    BY <2>0, <2>2, <2>3, <2>4, <2>5, OnlyOneMoves DEF Sound
<1>3. QED
  BY <1>1, <1>2 DEF StageTemp

\* The owner record names the staged file.
LEMMA BindStep ==
  ASSUME TypeOK, Sound, NEW p \in Processes, bindTargetLockTemporary(p)
  PROVE  Sound'
<1> USE DataOf DEF Data
<1>1. CASE /\ Step(p, "bind", "write") /\ UNCHANGED <<files, records, seen>>
  <2>0. Where(p) /\ pc[p] = "bind" /\ Go(p, "write") /\ pc'[p] = "write"
    BY <1>1 DEF Sound, Step, Go
  <2>1. UNCHANGED <<kind, entry, content, intent, completion, seen>>
    BY <1>1 DEF Step, files, records
  <2>2. Images'
    BY <2>1 DEF Sound, Images, Content, Names
  <2>3. Recorded'
    BY <2>1 DEF Sound, Images, Recorded, Content, Prepared
  <2>4. Standing'
    BY <1>1, <2>0, <2>1 DEF Sound, Standing, Content, Pre, Post, Prepared, Completed,
       Staging
  <2>5. Where(p)'
    BY <1>1, <2>0, <2>1 DEF Sound, Recorded, Where, WhereRecords, WhereOperation,
       WhereRecovery, Content, Prepared, AfterIntent, Recovery
  <2>6. QED
    BY <2>0, <2>2, <2>3, <2>4, <2>5, OnlyOneMoves DEF Sound
<1>2. QED
  BY <1>1 DEF bindTargetLockTemporary

\* The staged file is complete; no other name refers to it.
LEMMA WriteStep ==
  ASSUME TypeOK, Sound, NEW p \in Processes, WriteTemp(p)
  PROVE  Sound'
<1> USE DataOf DEF Data
<1>1. CASE /\ Step(p, "write", "commit") /\ Fill("temp", "post") /\ UNCHANGED <<records, locks, seen>>
  <2>0. Where(p) /\ pc[p] = "write" /\ Go(p, "commit") /\ pc'[p] = "commit"
    BY <1>1 DEF Sound, Step, Go
  <2>1. /\ content' = [content EXCEPT ![entry["temp"]] = "post"]
        /\ UNCHANGED <<kind, entry, intent, completion, seen>>
    BY <1>1 DEF Step, Fill, records
  <2>2. Images'
    BY <1>1, <2>0, <2>1 DEF Sound, Images, Content, Staging
  <2>3. Recorded'
    BY <1>1, <2>0, <2>1 DEF Sound, Recorded, Where, WhereRecords, Prepared, Staging
  <2>4. Standing'
    BY <1>1, <2>0, <2>1 DEF Sound, Images, Recorded, Standing, Content, Pre, Post,
       Prepared, Completed, Staging
  <2>5. Where(p)'
    BY <1>1, <2>0, <2>1 DEF Sound, Recorded, Where, WhereRecords, WhereOperation,
       WhereRecovery, Content, Prepared, Names, AfterIntent, Recovery
  <2>6. QED
    BY <2>0, <2>2, <2>3, <2>4, <2>5, OnlyOneMoves DEF Sound
<1>2. QED
  BY <1>1 DEF WriteTemp

\* An operation commits what it inspected, and only once.
LEMMA CommitStep ==
  ASSUME TypeOK, Sound, NEW p \in Processes, CommitStarts(p)
  PROVE  Sound'
<1> USE DataOf DEF Data
<1>1. CASE Refuse(p, "commit")
  BY <1>1, RefuseKeeps
<1>2. CASE Step(p, "commit", "abort") /\ UNCHANGED <<files, records, seen>>
  <2>0. Where(p) /\ pc[p] = "commit" /\ Go(p, "abort") /\ pc'[p] = "abort"
    BY <1>2 DEF Sound, Step, Go
  <2>1. UNCHANGED <<kind, entry, content, intent, completion, seen>>
    BY <1>2 DEF Step, files, records
  <2>2. Images'
    BY <2>1 DEF Sound, Images, Content, Names
  <2>3. Recorded'
    BY <2>1 DEF Sound, Images, Recorded, Content, Prepared
  <2>4. Standing'
    BY <1>2, <2>0, <2>1 DEF Sound, Standing, Content, Pre, Post, Prepared, Completed,
       Staging
  <2>5. Where(p)'
    BY <1>2, <2>0, <2>1 DEF Where, WhereRecords, WhereOperation, WhereRecovery,
       Prepared, BeforeIntent, AfterIntent, Recovery
  <2>6. QED
    BY <2>0, <2>2, <2>3, <2>4, <2>5, OnlyOneMoves DEF Sound
<1>3. CASE /\ ~ Completed /\ Unmoved(p) /\ UNCHANGED <<files, records, seen>>
          /\ Step(p, "commit", IF kind = "create" THEN "prepare" ELSE "backup")
  <2>0. Where(p) /\ pc[p] = "commit" /\ Go(p, (IF kind = "create" THEN "prepare" ELSE "backup")) /\ pc'[p] = (IF kind = "create" THEN "prepare" ELSE "backup")
    BY <1>3 DEF Sound, Step, Go
  <2>1. UNCHANGED <<kind, entry, content, intent, completion, seen>>
    BY <1>3 DEF Step, files, records
  <2>2. Images'
    BY <2>1 DEF Sound, Images, Content, Names
  <2>3. Recorded'
    BY <2>1 DEF Sound, Images, Recorded, Content, Prepared
  <2>4. Standing'
    BY <1>3, <2>0, <2>1 DEF Sound, Standing, Content, Pre, Prepared, Completed,
       BeforeIntent
  <2>5. Where(p)'
    BY <1>3, <2>0, <2>1 DEF Where, WhereRecords, WhereOperation, WhereRecovery, Content,
       Prepared, Completed, BeforeIntent, AfterIntent, Recovery, Unmoved
  <2>6. QED
    BY <2>0, <2>2, <2>3, <2>4, <2>5, OnlyOneMoves DEF Sound
<1>4. QED
  BY <1>1, <1>2, <1>3 DEF CommitStarts

\* A removal starts from the preimage.
LEMMA StartRemoveStep ==
  ASSUME TypeOK, Sound, NEW p \in Processes, StartRemove(p)
  PROVE  Sound'
<1> USE DataOf DEF Data
<1>1. CASE Refuse(p, "locked")
  BY <1>1, RefuseKeeps
<1>2. CASE /\ kind = "remove" /\ ~ Completed /\ Content("target") = "pre"
          /\ Step(p, "locked", "backup") /\ seen' = [seen EXCEPT ![p] = entry["target"]]
          /\ UNCHANGED <<files, records>>
  <2>0. Where(p) /\ pc[p] = "locked" /\ Go(p, "backup") /\ pc'[p] = "backup"
    BY <1>2 DEF Sound, Step, Go
  <2>1. /\ seen' = [seen EXCEPT ![p] = entry["target"]]
        /\ UNCHANGED <<kind, entry, content, intent, completion>>
    BY <1>2 DEF Step, files, records
  <2>2. Images'
    BY <2>1 DEF Sound, Images, Content, Names
  <2>3. Recorded'
    BY <2>1 DEF Sound, Images, Recorded, Content, Prepared
  <2>4. Standing'
    BY <1>2, <2>0, <2>1 DEF Standing, Content, Pre, Completed, Staging
  <2>5. Where(p)'
    BY <1>2, <2>0, <2>1 DEF Where, WhereRecords, WhereOperation, WhereRecovery,
       Prepared, Completed, Staging, AfterIntent, Recovery
  <2>6. QED
    BY <2>0, <2>2, <2>3, <2>4, <2>5, OnlyOneMoves DEF Sound
<1>3. QED
  BY <1>1, <1>2 DEF StartRemove

\* A backup is begun, or a complete one is taken over.
LEMMA BackupStep ==
  ASSUME TypeOK, Sound, NEW p \in Processes, BackupStarts(p)
  PROVE  Sound'
<1> USE DataOf DEF Data
<1>1. CASE Refuse(p, "backup")
  BY <1>1, RefuseKeeps
<1>2. CASE /\ Step(p, "backup", "copy") /\ Create("vault")
          /\ UNCHANGED <<records, locks, seen>>
  <2>0. Where(p) /\ pc[p] = "backup" /\ Go(p, "copy") /\ pc'[p] = "copy"
    BY <1>2 DEF Sound, Step, Go
  <2>1. /\ Fresh \in Inodes /\ \A n \in Names : entry[n] # Fresh
        /\ Fresh \notin {intent.pre, intent.backup, intent.staged}
        /\ entry' = [entry EXCEPT !["vault"] = Fresh]
        /\ content' = [content EXCEPT ![Fresh] = "partial"]
        /\ UNCHANGED <<kind, intent, completion, seen>>
    BY <1>2, FreshInode, UsedInodes DEF Step, Create, New, Put, records
  <2>2. Images'
    BY <1>2, <2>0, <2>1 DEF Sound, Images, Where, WhereOperation, Content, Names,
       Staging
  <2>3. Recorded'
    BY <1>2, <2>0, <2>1 DEF Sound, Recorded, Where, WhereRecords, Prepared, BeforeIntent
  <2>4. Standing'
    BY <1>2, <2>0, <2>1 DEF Sound, Standing, Where, WhereRecords, Content, Pre,
       Prepared, Completed, Names, Staging
  <2>5. Where(p)'
    BY <1>2, <2>0, <2>1 DEF Sound, Recorded, Where, WhereRecords, WhereOperation,
       WhereRecovery, Content, Prepared, Completed, Names, BeforeIntent, AfterIntent,
       Recovery
  <2>6. QED
    BY <2>0, <2>2, <2>3, <2>4, <2>5, OnlyOneMoves DEF Sound
<1>3. CASE /\ Content("vault") = "pre" /\ Step(p, "backup", "prepare")
          /\ UNCHANGED <<files, records, seen>>
  <2>0. Where(p) /\ pc[p] = "backup" /\ Go(p, "prepare") /\ pc'[p] = "prepare"
    BY <1>3 DEF Sound, Step, Go
  <2>1. UNCHANGED <<kind, entry, content, intent, completion, seen>>
    BY <1>3 DEF Step, files, records
  <2>2. Images'
    BY <2>1 DEF Sound, Images, Content, Names
  <2>3. Recorded'
    BY <2>1 DEF Sound, Images, Recorded, Content, Prepared
  <2>4. Standing'
    BY <1>3, <2>0, <2>1 DEF Sound, Standing, Where, WhereRecords, Content, Pre,
       Prepared, Completed, Staging
  <2>5. Where(p)'
    BY <1>3, <2>0, <2>1 DEF Where, WhereRecords, WhereOperation, WhereRecovery, Content,
       Prepared, Completed, BeforeIntent, AfterIntent, Recovery
  <2>6. QED
    BY <2>0, <2>2, <2>3, <2>4, <2>5, OnlyOneMoves DEF Sound
<1>4. QED
  BY <1>1, <1>2, <1>3 DEF BackupStarts

\* The backup is complete.
LEMMA CopyStep ==
  ASSUME TypeOK, Sound, NEW p \in Processes, BackupCopies(p)
  PROVE  Sound'
<1> USE DataOf DEF Data
<1>1. CASE Step(p, "copy", "prepare") /\ Fill("vault", "pre") /\ UNCHANGED <<records, locks, seen>>
  <2>0. Where(p) /\ pc[p] = "copy" /\ Go(p, "prepare") /\ pc'[p] = "prepare"
    BY <1>1 DEF Sound, Step, Go
  <2>1. /\ content' = [content EXCEPT ![entry["vault"]] = "pre"]
        /\ UNCHANGED <<kind, entry, intent, completion, seen>>
    BY <1>1 DEF Step, Fill, records
  <2>2. Images'
    BY <1>1, <2>0, <2>1 DEF Sound, Images, Content, Staging
  <2>3. Recorded'
    BY <1>1, <2>0, <2>1 DEF Sound, Recorded, Where, WhereOperation, Prepared, Staging
  <2>4. Standing'
    BY <1>1, <2>0, <2>1 DEF Sound, Recorded, Standing, Where, WhereRecords,
       WhereOperation, Content, Pre, Completed, Staging
  <2>5. Where(p)'
    BY <1>1, <2>0, <2>1 DEF Sound, Recorded, Where, WhereRecords, WhereOperation,
       WhereRecovery, Content, Prepared, Completed, Names, AfterIntent, Recovery
  <2>6. QED
    BY <2>0, <2>2, <2>3, <2>4, <2>5, OnlyOneMoves DEF Sound
<1>2. QED
  BY <1>1 DEF BackupCopies

\* The record names complete files, also when the call that published it throws.
LEMMA PrepareStep ==
  ASSUME TypeOK, Sound, NEW p \in Processes, createOperationIntent(p)
  PROVE  Sound'
<1> USE DataOf DEF Data
<1>0. PICK to \in {"install", "move", "unback"} :
        /\ Go(p, to)
        /\ to # "unback" => to = IF kind = "create" THEN "install" ELSE "move"
  BY DEF createOperationIntent, Throw, Go, AfterIntent, Recovery
<1>1. Where(p) /\ pc[p] = "prepare" /\ pc'[p] = to
  BY <1>0 DEF Sound, createOperationIntent, Go
<1>2. /\ intent' = [pre |-> seen[p], backup |-> entry["vault"], staged |-> entry["temp"]]
      /\ UNCHANGED <<kind, entry, content, completion, seen>>
  BY DEF createOperationIntent, files
<1>3. Images'
  BY <1>2 DEF Sound, Images, Content, Names
<1>4. Recorded'
  BY <1>1, <1>2 DEF Sound, Images, Recorded, Standing, Where, WhereRecords,
     WhereOperation, Content, Pre, BeforeIntent
<1>5. Standing'
  BY <1>1, <1>2 DEF Sound, Standing, Where, WhereRecords, WhereOperation, Content, Pre,
     Completed, BeforeIntent
<1>6. Where(p)'
  BY <1>0, <1>1, <1>2 DEF Sound, Standing, Where, WhereRecords, WhereOperation,
     WhereRecovery, Content, Pre, Prepared, Completed, Staging, BeforeIntent, AfterIntent,
     Recovery, NoIntent
<1>7. QED
  BY <1>0, <1>1, <1>3, <1>4, <1>5, <1>6, OnlyOneMoves DEF Sound

\* The preimage is moved aside.
LEMMA MoveStep ==
  ASSUME TypeOK, Sound, NEW p \in Processes, MoveTarget(p)
  PROVE  Sound'
<1> USE DataOf DEF Data
<1>1. CASE Refuse(p, "move")
  BY <1>1, RefuseKeeps
<1>2. CASE /\ Step(p, "move", "verify")
          /\ entry' = [entry EXCEPT !["local"] = entry["target"], !["target"] = None]
          /\ UNCHANGED <<content, records, seen>>
  <2>0. Where(p) /\ pc[p] = "move" /\ Go(p, "verify") /\ pc'[p] = "verify"
    BY <1>2 DEF Sound, Step, Go
  <2>1. /\ entry' = [entry EXCEPT !["local"] = entry["target"], !["target"] = None]
        /\ UNCHANGED <<kind, content, intent, completion, seen>>
    BY <1>2 DEF Step, records
  <2>2. Images'
    BY <1>2, <2>0, <2>1 DEF Sound, Images, Recorded, Where, WhereRecords,
       WhereOperation, Content, Names, AfterIntent
  <2>3. Recorded'
    BY <1>2, <2>0, <2>1 DEF Sound, Recorded, Where, WhereRecords, WhereOperation,
       Content, Prepared, Names, AfterIntent
  <2>4. Standing'
    BY <1>2, <2>0, <2>1 DEF Sound, Recorded, Standing, Where, WhereRecords,
       WhereOperation, Prepared, Completed, Names, AfterIntent
  <2>5. Where(p)'
    BY <1>2, <2>0, <2>1 DEF Where, WhereRecords, WhereOperation, WhereRecovery,
       Prepared, Completed, Names, Staging, BeforeIntent, AfterIntent
  <2>6. QED
    BY <2>0, <2>2, <2>3, <2>4, <2>5, OnlyOneMoves DEF Sound
<1>3. QED
  BY <1>1, <1>2 DEF MoveTarget

\* What was moved is what was inspected.
LEMMA VerifyStep ==
  ASSUME TypeOK, Sound, NEW p \in Processes, VerifyMoved(p)
  PROVE  Sound'
<1> USE DataOf DEF Data
<1>1. CASE Refuse(p, "verify")
  BY <1>1, RefuseKeeps
<1>2. CASE /\ Step(p, "verify", IF kind = "remove" THEN "check" ELSE "install")
          /\ UNCHANGED <<files, records, seen>>
  <2>0. Where(p) /\ pc[p] = "verify" /\ Go(p, (IF kind = "remove" THEN "check" ELSE "install")) /\ pc'[p] = (IF kind = "remove" THEN "check" ELSE "install")
    BY <1>2 DEF Sound, Step, Go
  <2>1. UNCHANGED <<kind, entry, content, intent, completion, seen>>
    BY <1>2 DEF Step, files, records
  <2>2. Images'
    BY <2>1 DEF Sound, Images, Content, Names
  <2>3. Recorded'
    BY <2>1 DEF Sound, Images, Recorded, Content, Prepared
  <2>4. Standing'
    BY <1>2, <2>0, <2>1 DEF Sound, Standing, Content, Pre, Post, Prepared, Completed,
       Staging
  <2>5. Where(p)'
    BY <1>2, <2>0, <2>1 DEF Where, WhereRecords, WhereOperation, WhereRecovery,
       Prepared, Completed, Staging, BeforeIntent, AfterIntent
  <2>6. QED
    BY <2>0, <2>2, <2>3, <2>4, <2>5, OnlyOneMoves DEF Sound
<1>3. CASE pc[p] = "verify" /\ entry["local"] # seen[p]
  BY <1>3 DEF Sound, Where, WhereOperation
<1>4. QED
  BY <1>1, <1>2, <1>3 DEF VerifyMoved, Step

\* The backup goes: no record names it, or its target is the preimage.
LEMMA DropBackupStep ==
  ASSUME TypeOK, Sound, NEW p \in Processes, DropBackup(p)
  PROVE  Sound'
<1> USE DataOf DEF Data
<1>1. CASE Step(p, "unback", "abort") /\ Remove("vault") /\ UNCHANGED <<records, seen>>
  <2>0. Where(p) /\ pc[p] = "unback" /\ Go(p, "abort") /\ pc'[p] = "abort"
    BY <1>1 DEF Sound, Step, Go
  <2>1. /\ entry' = [entry EXCEPT !["vault"] = None]
        /\ UNCHANGED <<kind, content, intent, completion, seen>>
    BY <1>1 DEF Step, Remove, Put, records
  <2>2. Images'
    BY <2>1 DEF Sound, Images, Content, Names
  <2>3. Recorded'
    BY <2>1 DEF Sound, Images, Recorded, Content, Prepared
  <2>4. Standing'
    BY <1>1, <2>0, <2>1 DEF Sound, Standing, Where, WhereRecords, Content, Pre,
       Prepared, Completed, Staging
  <2>5. Where(p)'
    BY <1>1, <2>0, <2>1 DEF Where, WhereRecords, WhereOperation, WhereRecovery,
       Prepared, Staging, BeforeIntent, AfterIntent, Recovery
  <2>6. QED
    BY <2>0, <2>2, <2>3, <2>4, <2>5, OnlyOneMoves DEF Sound
<1>2. QED
  BY <1>1 DEF DropBackup

\* The staged file is linked to the free target.
LEMMA InstallStep ==
  ASSUME TypeOK, Sound, NEW p \in Processes, installDescriptorRelativeWithoutOverwrite(p)
  PROVE  Sound'
<1> USE DataOf DEF Data
<1>1. CASE Refuse(p, "install")
  BY <1>1, RefuseKeeps
<1>2. CASE /\ entry["target"] = None /\ Step(p, "install", "detach")
          /\ Link("temp", "target") /\ UNCHANGED <<records, seen>>
  <2>0. Where(p) /\ pc[p] = "install" /\ Go(p, "detach") /\ pc'[p] = "detach"
    BY <1>2 DEF Sound, Step, Go
  <2>1. /\ entry' = [entry EXCEPT !["target"] = entry["temp"]]
        /\ UNCHANGED <<kind, content, intent, completion, seen>>
    BY <1>2 DEF Step, Link, Put, records
  <2>2. Images'
    BY <2>1 DEF Sound, Images, Content, Names
  <2>3. Recorded'
    BY <2>1 DEF Sound, Images, Recorded, Content, Prepared
  <2>4. Standing'
    BY <1>2, <2>0, <2>1 DEF Sound, Recorded, Standing, Where, WhereRecords, Content,
       Prepared, Completed, AfterIntent
  <2>5. Where(p)'
    BY <1>2, <2>0, <2>1 DEF Where, WhereRecords, WhereOperation, WhereRecovery,
       Prepared, Completed, Staging, BeforeIntent, AfterIntent
  <2>6. QED
    BY <2>0, <2>2, <2>3, <2>4, <2>5, OnlyOneMoves DEF Sound
<1>3. QED
  BY <1>1, <1>2 DEF installDescriptorRelativeWithoutOverwrite

\* The staged name goes.
LEMMA DetachStep ==
  ASSUME TypeOK, Sound, NEW p \in Processes, DetachTemp(p)
  PROVE  Sound'
<1> USE DataOf DEF Data
<1>1. CASE Step(p, "detach", "check") /\ Remove("temp") /\ UNCHANGED <<records, seen>>
  <2>0. Where(p) /\ pc[p] = "detach" /\ Go(p, "check") /\ pc'[p] = "check"
    BY <1>1 DEF Sound, Step, Go
  <2>1. /\ entry' = [entry EXCEPT !["temp"] = None]
        /\ UNCHANGED <<kind, content, intent, completion, seen>>
    BY <1>1 DEF Step, Remove, Put, records
  <2>2. Images'
    BY <2>1 DEF Sound, Images, Content, Names
  <2>3. Recorded'
    BY <2>1 DEF Sound, Images, Recorded, Content, Prepared
  <2>4. Standing'
    BY <1>1, <2>0, <2>1 DEF Sound, Standing, Content, Pre, Post, Prepared, Completed,
       Staging
  <2>5. Where(p)'
    BY <1>1, <2>0, <2>1 DEF Where, WhereRecords, WhereOperation, WhereRecovery,
       Prepared, Completed, Staging, BeforeIntent, AfterIntent
  <2>6. QED
    BY <2>0, <2>2, <2>3, <2>4, <2>5, OnlyOneMoves DEF Sound
<1>2. QED
  BY <1>1 DEF DetachTemp

\* The postimage is in place before it is announced.
LEMMA CheckStep ==
  ASSUME TypeOK, Sound, NEW p \in Processes, CheckPostimage(p)
  PROVE  Sound'
<1> USE DataOf DEF Data
<1>1. CASE Refuse(p, "check")
  BY <1>1, RefuseKeeps
<1>2. CASE /\ Content("target") = Post /\ Step(p, "check", "complete")
          /\ UNCHANGED <<files, records>>
  <2>0. Where(p) /\ pc[p] = "check" /\ Go(p, "complete") /\ pc'[p] = "complete"
    BY <1>2 DEF Sound, Step, Go
  <2>1. UNCHANGED <<kind, entry, content, intent, completion>>
    BY <1>2 DEF Step, files, records
  <2>2. Images'
    BY <2>1 DEF Sound, Images, Content, Names
  <2>3. Recorded'
    BY <2>1 DEF Sound, Images, Recorded, Content, Prepared
  <2>4. Standing'
    BY <1>2, <2>0, <2>1 DEF Sound, Standing, Content, Pre, Post, Prepared, Completed,
       Staging
  <2>5. Where(p)'
    BY <1>2, <2>0, <2>1 DEF Where, WhereRecords, WhereOperation, WhereRecovery, Content,
       Post, Prepared, Completed, Staging, BeforeIntent, AfterIntent
  <2>6. QED
    BY <2>0, <2>2, <2>3, <2>4, <2>5, OnlyOneMoves DEF Sound
<1>3. QED
  BY <1>1, <1>2 DEF CheckPostimage

\* Without writes from outside nothing has to be put back.
LEMMA NothingPutBack ==
  ASSUME Sound, NEW p \in Processes
  PROVE  ~ PutBack(p) /\ ~ Unprepare(p)
BY DEF Sound, Where, WhereRecords, PutBack, Unprepare, Step

\* The completion is published over the postimage, also when the call then fails.
LEMMA PublishStep ==
  ASSUME TypeOK, Sound, NEW p \in Processes, publishOperationCompletion(p)
  PROVE  Sound'
<1> USE DataOf DEF Data
<1>0. PICK to \in {"unlocal", "recover"} : Go(p, to)
  BY DEF publishOperationCompletion, Throw, Go, AfterIntent, Recovery
<1>1. Where(p) /\ pc[p] = "complete" /\ pc'[p] = to
  BY <1>0 DEF Sound, publishOperationCompletion, Go
<1>2. /\ completion' = seen[p] /\ Completed'
      /\ UNCHANGED <<kind, entry, content, intent, seen>>
  BY DEF publishOperationCompletion, files, Completed, Unpublished, Inodes, None
<1>3. Images'
  BY <1>2 DEF Sound, Images, Content
<1>4. (Recorded /\ Standing)'
  BY <1>1, <1>2 DEF Sound, Recorded, Standing, Where, WhereOperation, Content, Post,
     Prepared
<1>5. Where(p)'
  BY <1>1, <1>2 DEF Where, WhereRecords, WhereOperation, WhereRecovery, Prepared,
     Staging, BeforeIntent, AfterIntent
<1>6. QED
  BY <1>0, <1>1, <1>3, <1>4, <1>5, OnlyOneMoves DEF Sound

\* A staged file may go at any time.
LEMMA TempMayGo ==
  ASSUME Data, Images, Recorded, Standing,
         entry' \in {entry, [entry EXCEPT !["temp"] = None]},
         UNCHANGED <<kind, content, intent, completion>>
  PROVE  (Images /\ Recorded /\ Standing)'
<1> USE DEF Data
<1>1. Images'
  BY DEF Images, Content, Names
<1>2. Recorded'
  BY DEF Images, Recorded, Content, Prepared, Names
<1>3. Standing'
  BY DEF Standing, Content, Pre, Post, Prepared, Completed, Names
<1>4. QED
  BY <1>1, <1>2, <1>3

\* Giving up removes the staged file.
LEMMA AbortStep ==
  ASSUME TypeOK, Sound, NEW p \in Processes, Abort(p)
  PROVE  Sound'
<1> USE DataOf
<1>1. /\ entry' \in {entry, [entry EXCEPT !["temp"] = None]}
      /\ UNCHANGED <<kind, content, intent, completion>>
  BY DEF Abort, Step, Remove, Put, files, records
<1>2. pc[p] = "abort" /\ Go(p, "unlock") /\ pc'[p] = "unlock"
  BY DEF Abort, Step, Go, Data
<1>3. Where(p)'
  BY <1>2 DEF Where, WhereRecords, WhereOperation, WhereRecovery, Staging, BeforeIntent,
     AfterIntent, Recovery
<1>4. QED
  BY <1>1, <1>2, <1>3, TempMayGo, OnlyOneMoves DEF Sound

\* A failing call removes what it was copying, and leads to a catch block.
LEMMA FaultStep ==
  ASSUME TypeOK, Sound, NEW p \in Processes, Fault(p)
  PROVE  Sound'
<1> USE DataOf DEF Data
<1>0. /\ pc[p] \notin Waiting /\ Where(p)
      /\ Throw(p) /\ UNCHANGED <<kind, intent, completion, seen>>
  BY DEF Fault, records, Sound, Staging, BeforeIntent, AfterIntent, Recovery
<1>1. CASE UNCHANGED files
  BY <1>0, <1>1, Thrown DEF Sound, Images, Recorded, Standing, Content, Pre, Post,
     Prepared, Completed, files
<1>2. CASE pc[p] = "copy" /\ Remove("vault")
  <2>1. entry' = [entry EXCEPT !["vault"] = None] /\ content' = content
    BY <1>2 DEF Remove, Put
  <2>2. (Images /\ Recorded /\ Standing)'
    BY <1>0, <1>2, <2>1 DEF Sound, Images, Recorded, Standing, Where, WhereRecords,
       Content, Pre, Prepared, Completed, BeforeIntent
  <2>3. QED
    BY <1>0, <2>2, Thrown DEF Sound
<1>3. CASE pc[p] = "refill" /\ Content("target") = "partial" /\ Remove("target")
  <2>1. entry' = [entry EXCEPT !["target"] = None] /\ content' = content
    BY <1>3 DEF Remove, Put
  <2>2. (Images /\ Recorded /\ Standing)'
    BY <1>0, <1>3, <2>1 DEF Sound, Images, Recorded, Standing, Where, WhereRecords,
       Content, Pre, Prepared, Completed
  <2>3. QED
    BY <1>0, <2>2, Thrown DEF Sound
<1>4. QED
  BY <1>1, <1>2, <1>3 DEF Fault

\* Who takes the lock, removes that of a dead process or is killed leaves the files
\* and the records, and starts over; the others stay where they are.
LEMMA LockStep ==
  ASSUME TypeOK, Sound, NEW p \in Processes,
         \/ acquireTargetLock(p) \/ LookAtStaleLock(p) \/ reclaimStaleTargetLock(p)
         \/ ReclaimLate(p) \/ releaseTargetLock(p) \/ Kill(p)
  PROVE  Sound'
<1> USE DataOf DEF Data
<1>1. UNCHANGED <<kind, entry, content, intent, completion>>
  BY DEF acquireTargetLock, LookAtStaleLock, reclaimStaleTargetLock, UnlinkLock,
     ReclaimLate, releaseTargetLock, Kill, files, records
<1>2. \A q \in Processes :
        \/ pc'[q] \in Waiting \cup {"recover"}
        \/ pc'[q] = pc[q] /\ seen'[q] = seen[q]
  BY DEF acquireTargetLock, LookAtStaleLock, reclaimStaleTargetLock, UnlinkLock,
     ReclaimLate, releaseTargetLock, Kill, Go, Forget
<1>3. ASSUME NEW q \in Processes PROVE Where(q)'
  <2>1. CASE pc'[q] \in Waiting \cup {"recover"}
    BY <2>1 DEF Where, WhereRecords, WhereOperation, WhereRecovery, Staging,
       BeforeIntent, AfterIntent, Recovery
  <2>2. CASE pc'[q] = pc[q] /\ seen'[q] = seen[q]
    BY <1>1, <2>2 DEF Sound, Where, WhereRecords, WhereOperation, WhereRecovery, Content,
       Pre, Post, Prepared, Completed
  <2>3. QED
    BY <1>2, <2>1, <2>2
<1>4. (Images /\ Recorded /\ Standing)'
  BY <1>1 DEF Sound, Images, Recorded, Standing, Content, Pre, Post, Prepared, Completed
<1>5. QED
  BY <1>3, <1>4 DEF Sound

\* The temp of a dead process goes while nobody is at work.
LEMMA StaleTempStep ==
  ASSUME TypeOK, Sound, NEW p \in Processes, UnlinkStaleTemp(p)
  PROVE  Sound'
<1> USE DataOf
<1>1. /\ entry' \in {entry, [entry EXCEPT !["temp"] = None]}
      /\ UNCHANGED <<kind, content, intent, completion, pc>>
  BY DEF UnlinkStaleTemp, Remove, Put, records
<1>2. \A q \in Processes : pc'[q] \in Waiting
  BY <1>1, BoundsAssumption DEF UnlinkStaleTemp, TypeOK
<1>3. (\A q \in Processes : Where(q))'
  BY <1>2 DEF Where, WhereRecords, WhereOperation, WhereRecovery, Staging, BeforeIntent,
     AfterIntent, Recovery
<1>4. QED
  BY <1>1, <1>3, TempMayGo DEF Sound

-----------------------------------------------------------------------------
(* The types. *)

\* A point the code leads to is a point.
LEMMA ThrowType ==
  ASSUME TypeOK, NEW p \in Processes, Throw(p), pc[p] \notin Waiting
  PROVE  /\ pc' \in [Processes -> Points]
         /\ \A q \in Processes : pc'[q] \notin Waiting => pc[q] \notin Waiting
         /\ way' \in [Processes -> {"ahead", "back", "done"}]
BY DEF TypeOK, Throw, Go, Points, Recovery

LEMMA StepType ==
  ASSUME TypeOK, NEW p \in Processes, NEW from, NEW to \in Points, Step(p, from, to),
         from \notin Waiting
  PROVE  /\ pc' \in [Processes -> Points]
         /\ \A q \in Processes : pc'[q] \notin Waiting => pc[q] \notin Waiting
         /\ UNCHANGED <<kind, way, crashes, faults, writes>>
BY DEF TypeOK, Step, Go, bounds

\* What the steps do to the directory.
LEMMA FilesType ==
  ASSUME TypeOK, NEW n \in Names, NEW m \in Names, NEW c \in {"pre", "post", "foreign", "partial"},
         \/ UNCHANGED files \/ Remove(n) \/ Link(m, n) \/ New(n, c) \/ Fill(n, c)
  PROVE  /\ entry' \in [Names -> Inodes \cup {None}]
         /\ content' \in [Inodes -> {"pre", "post", "foreign", "partial"}]
<1>1. CASE UNCHANGED files \/ Remove(n) \/ Link(m, n) \/ Fill(n, c)
  BY <1>1 DEF TypeOK, files, Remove, Link, Fill, Put
<1>2. CASE New(n, c)
  BY <1>2, FreshInode DEF TypeOK, New, Put
<1>3. QED
  BY <1>1, <1>2

\* A step of the process at work keeps the types when it keeps those of what it writes.
Written ==
  /\ entry' \in [Names -> Inodes \cup {None}]
  /\ content' \in [Inodes -> {"pre", "post", "foreign", "partial"}]
  /\ bound' \in Inodes \cup {None}
  /\ intent' \in [pre : Inodes \cup {None}, backup : Inodes \cup {None},
                  staged : Inodes \cup {None}]
  /\ completion' \in Inodes \cup {None, Unpublished}
  /\ seen' \in [Processes -> Inodes \cup {None}]

LEMMA StepKeepsTypes ==
  ASSUME TypeOK, NEW p \in Processes, NEW from, NEW to \in Points, Step(p, from, to),
         from \notin Waiting, Written, lock' = lock
  PROVE  TypeOK'
BY StepType DEF TypeOK, Written

LEMMA RefuseKeepsTypes ==
  ASSUME TypeOK, NEW p \in Processes, NEW from, Refuse(p, from), from \notin Waiting
  PROVE  TypeOK'
BY ThrowType DEF TypeOK, Refuse, files, records, locks, bounds

\* A step that changes one name or one file, and no record.
LEMMA FileStepTypes ==
  ASSUME TypeOK, NEW p \in Processes, NEW from, from \notin Waiting, NEW to \in Points,
         Step(p, from, to), UNCHANGED <<intent, completion, lock, bound, seen>>,
         NEW n \in Names, NEW m \in Names,
         NEW c \in {"pre", "post", "foreign", "partial"},
         \/ UNCHANGED files \/ Remove(n) \/ Link(m, n) \/ New(n, c) \/ Fill(n, c)
  PROVE  TypeOK'
<1>1. Written
  BY FilesType DEF TypeOK, Written
<1>2. QED
  BY <1>1, StepKeepsTypes

\* The steps of the recovery keep the types.
LEMMA RecoveryTypes ==
  ASSUME TypeOK, NEW p \in Processes, RecoveryStep(p)
  PROVE  TypeOK'
<1> USE DEF Written, records, locks
<1>1. Restoring \in Points /\ Names # {} /\ {"target", "temp", "local", "vault"} \subseteq Names
  BY DEF Restoring, Points, Recovery, Names
<1>2. Recovery \cup {"abort", "locked", "unlock"} \subseteq Points /\ Waiting \cap Recovery = {}
  BY DEF Points, Recovery, Staging
<1>3. CASE RecoverDecides(p)
  <2>1. ASSUME NEW to \in Points, Step(p, "recover", to), UNCHANGED <<files, records, locks, seen>>
        PROVE  TypeOK'
    BY FileStepTypes, <1>1, <2>1
  <2>2. QED
    BY RefuseKeepsTypes, <1>1, <1>2, <1>3, <2>1 DEF RecoverDecides, Recovery
<1>4. CASE UndoInstall(p) \/ restoreDescriptorRelativeBackup(p)
  BY RefuseKeepsTypes, FileStepTypes, <1>1, <1>2, <1>4 DEF UndoInstall, restoreDescriptorRelativeBackup, Recovery
<1>5. CASE restoreRecoveryEntry(p) \/ RefillTarget(p)
  BY RefuseKeepsTypes, FileStepTypes, <1>1, <1>2, <1>5 DEF restoreRecoveryEntry, RefillTarget, Create, Recovery
<1>6. ASSUME NEW from \in Recovery, NEW n \in Names, NEW inode, NEW to \in Points,
             Cleanup(p, from, n, inode, to)
      PROVE  TypeOK'
  BY RefuseKeepsTypes, FileStepTypes, <1>2, <1>6 DEF Cleanup
<1>7. CASE UnlinkLocal(p) \/ UnlinkBackup(p) \/ UnlinkTemp(p)
  <2>1. CASE Step(p, "unlocal", "unvault") /\ UNCHANGED <<files, records, locks, seen>>
    BY FileStepTypes, <1>1, <1>2, <2>1 DEF Recovery
  <2>2. QED
    BY <1>1, <1>2, <1>6, <1>7, <2>1 DEF UnlinkLocal, UnlinkBackup, UnlinkTemp, Recovery
<1>8. CASE deletePreparedOperationRecord(p)
  <2>1. PICK to \in {"locked", "abort", "unlock"} : Step(p, "forget", to)
    BY <1>8 DEF deletePreparedOperationRecord, TypeOK
  <2>2. Written /\ lock' = lock
    BY <1>8 DEF deletePreparedOperationRecord, TypeOK, files, NoIntent, None
  <2>3. QED
    BY <1>2, <2>1, <2>2, StepKeepsTypes
<1>9. QED
  BY <1>3, <1>4, <1>5, <1>7, <1>8 DEF RecoveryStep

\* The steps of the operation keep the types.
LEMMA OperationTypes ==
  ASSUME TypeOK, NEW p \in Processes, OperationStep(p) \/ InspectRecovered(p)
  PROVE  TypeOK'
<1> USE DEF Written, records, locks
<1>1. {"target", "temp", "local", "vault"} \subseteq Names
  BY DEF Names
<1>2. /\ Staging \cup BeforeIntent \cup AfterIntent \subseteq Points
      /\ {"putback", "unprepare", "unback", "abort", "unlock", "recover", "unlocal"} \subseteq Points
  BY DEF Points, Recovery
<1> USE <1>1, <1>2 DEF Staging, BeforeIntent, AfterIntent
<1>3. CASE InspectRecovered(p) \/ WriteTemp(p) \/ BackupCopies(p)
  BY FileStepTypes, <1>3 DEF InspectRecovered, WriteTemp, BackupCopies
<1>4. CASE StageTemp(p)
  <2>1. CASE Refuse(p, "locked")
    BY <2>1, RefuseKeepsTypes
  <2>2. CASE /\ Step(p, "locked", "bind") /\ Create("temp")
             /\ seen' = [seen EXCEPT ![p] = entry["target"]] /\ UNCHANGED <<records, locks>>
    <3>1. Written
      BY <2>2, FilesType DEF TypeOK, Create
    <3>2. QED
      BY <2>2, <3>1, StepKeepsTypes
  <2>3. QED
    BY <1>4, <2>1, <2>2 DEF StageTemp
<1>5. CASE bindTargetLockTemporary(p) \/ Unprepare(p)
  <2>1. Written /\ lock' = lock
    BY <1>5 DEF bindTargetLockTemporary, Unprepare, TypeOK, files, NoIntent
  <2>2. PICK from \in Points \ Waiting, to \in Points : Step(p, from, to)
    BY <1>5 DEF bindTargetLockTemporary, Unprepare
  <2>3. QED
    BY <2>1, <2>2, StepKeepsTypes
<1>6. CASE CommitStarts(p) \/ VerifyMoved(p)
  BY RefuseKeepsTypes, FileStepTypes, <1>6 DEF CommitStarts, VerifyMoved
<1>7. CASE StartRemove(p) \/ CheckPostimage(p)
  <2>1. CASE Refuse(p, "locked") \/ Refuse(p, "check")
    BY <2>1, RefuseKeepsTypes
  <2>2. CASE /\ Step(p, "locked", "backup") \/ Step(p, "check", "complete")
             /\ seen' = [seen EXCEPT ![p] = entry["target"]]
             /\ UNCHANGED <<files, records, locks>>
    BY <2>2, StepKeepsTypes DEF TypeOK, files
  <2>3. QED
    BY <1>7, <2>1, <2>2 DEF StartRemove, CheckPostimage
<1>8. CASE BackupStarts(p) \/ installDescriptorRelativeWithoutOverwrite(p)
  BY RefuseKeepsTypes, FileStepTypes, <1>8
     DEF BackupStarts, installDescriptorRelativeWithoutOverwrite, Create
<1>9. CASE MoveTarget(p)
  <2>1. CASE Refuse(p, "move")
    BY <2>1, RefuseKeepsTypes
  <2>2. CASE /\ Step(p, "move", "verify")
             /\ entry' = [entry EXCEPT !["local"] = entry["target"], !["target"] = None]
             /\ UNCHANGED <<content, records, locks, seen>>
    BY <2>2, StepKeepsTypes DEF TypeOK
  <2>3. QED
    BY <1>9, <2>1, <2>2 DEF MoveTarget
<1>10. CASE PutBack(p) \/ DropBackup(p) \/ DetachTemp(p)
  BY FileStepTypes, <1>10 DEF PutBack, DropBackup, DetachTemp
<1>11. CASE Abort(p)
  BY FileStepTypes, <1>11 DEF Abort
<1>12. CASE publishOperationCompletion(p)
  <2>1. /\ Written /\ lock' = lock /\ kind' = kind /\ pc[p] = "complete"
        /\ UNCHANGED <<crashes, writes>>
    BY <1>12 DEF publishOperationCompletion, TypeOK, files
  <2>2. faults' \in 0 .. MaxFaults
    BY <1>12, BoundsAssumption DEF publishOperationCompletion, TypeOK
  <2>3. CASE Throw(p)
    BY <2>1, <2>2, <2>3, ThrowType DEF TypeOK
  <2>4. CASE Go(p, "unlocal") /\ way' = [way EXCEPT ![p] = "done"]
    BY <2>1, <2>2, <2>4 DEF TypeOK, Go
  <2>5. QED
    BY <1>12, <2>3, <2>4 DEF publishOperationCompletion
<1>13. CASE createOperationIntent(p)
  <2>1. /\ Written /\ lock' = lock /\ kind' = kind /\ pc[p] = "prepare"
        /\ UNCHANGED <<crashes, writes>>
    BY <1>13 DEF createOperationIntent, TypeOK, files
  <2>2. faults' \in 0 .. MaxFaults
    BY <1>13, BoundsAssumption DEF createOperationIntent, TypeOK
  <2>3. CASE Throw(p)
    BY <2>1, <2>2, <2>3, ThrowType DEF TypeOK
  <2>4. CASE Go(p, IF kind = "create" THEN "install" ELSE "move") /\ way' = way
    BY <2>1, <2>2, <2>4 DEF TypeOK, Go
  <2>5. QED
    BY <1>13, <2>3, <2>4 DEF createOperationIntent
<1>14. QED
  BY <1>3, <1>4, <1>5, <1>6, <1>7, <1>8, <1>9, <1>10, <1>11, <1>12, <1>13
     DEF OperationStep

\* Programs outside keep the types.
LEMMA OutsideTypes == TypeOK /\ OutsideWrites => TypeOK'
<1> SUFFICES ASSUME TypeOK, OutsideWrites PROVE TypeOK'
  OBVIOUS
<1>1. "target" \in Names
  BY DEF Names
<1>2. /\ entry' \in [Names -> Inodes \cup {None}]
      /\ content' \in [Inodes -> {"pre", "post", "foreign", "partial"}]
  BY <1>1, FilesType DEF OutsideWrites
<1>3. QED
  BY <1>2, BoundsAssumption DEF OutsideWrites, TypeOK, records, locks

\* The steps of the lock keep the types: it is taken when nobody is at work, and
\* removed from a dead process, or lost.
LEMMA LockTypes ==
  ASSUME TypeOK, NEW p \in Processes,
         \/ acquireTargetLock(p) \/ LookAtStaleLock(p) \/ UnlinkStaleTemp(p)
         \/ reclaimStaleTargetLock(p) \/ ReclaimLate(p) \/ releaseTargetLock(p)
  PROVE  TypeOK'
<1> USE BoundsAssumption DEF records, locks, files, bounds
<1>0. "temp" \in Names /\ Waiting \cup {"recover"} \subseteq Points
  BY DEF Names, Points, Recovery
<1>1. CASE acquireTargetLock(p)
  BY <1>0, <1>1 DEF acquireTargetLock, TypeOK, Go
<1>2. CASE LookAtStaleLock(p)
  BY <1>0, <1>2 DEF LookAtStaleLock, TypeOK, Go
<1>3. CASE UnlinkStaleTemp(p)
  <2>1. /\ entry' \in [Names -> Inodes \cup {None}]
        /\ content' \in [Inodes -> {"pre", "post", "foreign", "partial"}]
    BY <1>0, <1>3, FilesType DEF UnlinkStaleTemp
  <2>2. QED
    BY <1>3, <2>1 DEF UnlinkStaleTemp, TypeOK
<1>4. CASE reclaimStaleTargetLock(p)
  BY <1>0, <1>4 DEF reclaimStaleTargetLock, UnlinkLock, TypeOK
<1>5. CASE ReclaimLate(p)
  BY <1>0, <1>5 DEF ReclaimLate, TypeOK, Go
<1>6. CASE releaseTargetLock(p)
  BY <1>0, <1>6 DEF releaseTargetLock, Forget, TypeOK, Go
<1>7. QED
  BY <1>1, <1>2, <1>3, <1>4, <1>5, <1>6

\* Faults and kills keep the types.
LEMMA FaultTypes ==
  ASSUME TypeOK, NEW p \in Processes, Fault(p) \/ Kill(p)
  PROVE  TypeOK'
<1> USE BoundsAssumption DEF records, locks
<1>0. {"target", "temp", "local", "vault"} \subseteq Names /\ "idle" \in Points
  BY DEF Names, Points
<1>1. CASE Fault(p)
  <2>1. /\ entry' \in [Names -> Inodes \cup {None}]
        /\ content' \in [Inodes -> {"pre", "post", "foreign", "partial"}]
    BY <1>0, <1>1, FilesType DEF Fault
  <2>2. pc[p] \notin Waiting /\ faults' \in 0 .. MaxFaults
    BY <1>1 DEF Fault, TypeOK, Staging, BeforeIntent, AfterIntent, Recovery
  <2>3. QED
    BY <1>1, <2>1, <2>2, ThrowType DEF Fault, TypeOK
<1>2. CASE Kill(p)
  BY <1>0, <1>2 DEF Kill, Forget, TypeOK, Go, files
<1>3. QED
  BY <1>1, <1>2

-----------------------------------------------------------------------------
(* The theorems. *)

\* No step of a process counts as a write from outside.
LEMMA OnlyOutsideWrites ==
  ASSUME NEW p \in Processes,
         \/ acquireTargetLock(p) \/ LookAtStaleLock(p) \/ UnlinkStaleTemp(p)
         \/ reclaimStaleTargetLock(p) \/ ReclaimLate(p) \/ releaseTargetLock(p)
         \/ RecoveryStep(p) \/ OperationStep(p) \/ InspectRecovered(p)
         \/ Fault(p) \/ Kill(p)
  PROVE  writes' = writes
<1>1. ASSUME NEW from, NEW to, Step(p, from, to) PROVE writes' = writes
  BY <1>1 DEF Step, bounds
<1>2. ASSUME NEW from, Refuse(p, from) PROVE writes' = writes
  BY <1>2 DEF Refuse, bounds
<1>3. CASE RecoveryStep(p)
  BY <1>1, <1>2, <1>3 DEF RecoveryStep, RecoverDecides, UndoInstall,
     restoreDescriptorRelativeBackup, restoreRecoveryEntry, RefillTarget, UnlinkLocal,
     UnlinkBackup, UnlinkTemp, Cleanup, deletePreparedOperationRecord
<1>4. CASE OperationStep(p) \/ InspectRecovered(p)
  BY <1>1, <1>2, <1>4 DEF InspectRecovered, OperationStep, StageTemp,
     bindTargetLockTemporary, WriteTemp, CommitStarts, StartRemove, BackupStarts,
     BackupCopies, createOperationIntent, MoveTarget, VerifyMoved, PutBack, Unprepare,
     DropBackup, installDescriptorRelativeWithoutOverwrite, DetachTemp, CheckPostimage,
     publishOperationCompletion, Abort
<1>5. QED
  BY <1>1, <1>3, <1>4 DEF acquireTargetLock, LookAtStaleLock, UnlinkStaleTemp,
     reclaimStaleTargetLock, UnlinkLock, ReclaimLate, releaseTargetLock, Fault, Kill,
     bounds

\* Every step keeps the types; unless it writes from outside, it keeps the files in
\* order.
LEMMA ScopedStep == ScopedInv /\ [Next]_vars => ScopedInv'
<1> SUFFICES ASSUME ScopedInv, [Next]_vars PROVE ScopedInv'
  OBVIOUS
<1>0. TypeOK
  BY DEF ScopedInv
<1>1. CASE UNCHANGED vars
  BY <1>1 DEF vars, files, records, locks, bounds, ScopedInv, TypeOK, Sound, Images,
     Recorded, Standing, Where, WhereRecords, WhereOperation, WhereRecovery, Content,
     Pre, Post, Prepared, Completed
<1>2. ASSUME NEW p \in Processes,
             \/ acquireTargetLock(p) \/ LookAtStaleLock(p) \/ UnlinkStaleTemp(p)
             \/ reclaimStaleTargetLock(p) \/ ReclaimLate(p) \/ releaseTargetLock(p)
             \/ RecoveryStep(p) \/ OperationStep(p) \/ InspectRecovered(p)
             \/ Fault(p) \/ Kill(p)
      PROVE  ScopedInv'
  <2>1. TypeOK'
    BY <1>0, <1>2, RecoveryTypes, OperationTypes, LockTypes, FaultTypes
  <2>2. ASSUME writes = 0, Sound PROVE Sound'
    <3>1. CASE RecoveryStep(p)
      BY <1>0, <2>2, <3>1, RecoverStep, UndoStep, RelinkStep, RestoreStep, RefillStep,
         UnlinkLocalStep, UnlinkBackupStep, UnlinkTempStep, ForgetStep DEF RecoveryStep
    <3>2. CASE OperationStep(p)
      BY <1>0, <2>2, <3>2, StageStep, BindStep, WriteStep, CommitStep, StartRemoveStep,
         BackupStep, CopyStep, PrepareStep, MoveStep, VerifyStep, NothingPutBack,
         DropBackupStep, InstallStep, DetachStep, CheckStep, PublishStep, AbortStep
         DEF OperationStep
    <3>3. QED
      BY <1>0, <1>2, <2>2, <3>1, <3>2, InspectStep, FaultStep, LockStep,
         StaleTempStep
  <2>3. writes' = writes
    BY <1>2, OnlyOutsideWrites
  <2>4. QED
    BY <2>1, <2>2, <2>3 DEF ScopedInv
<1>3. CASE OutsideWrites
  <2>1. writes' # 0
    BY <1>0, <1>3 DEF OutsideWrites, TypeOK
  <2>2. TypeOK'
    BY <1>0, <1>3, OutsideTypes
  <2>3. QED
    BY <2>1, <2>2 DEF ScopedInv
<1>4. QED
  BY <1>1, <1>2, <1>3 DEF Next

LEMMA ScopedInit == Init => ScopedInv
<1> SUFFICES ASSUME Init PROVE ScopedInv
  OBVIOUS
<1>1. TypeOK
  BY BoundsAssumption DEF Init, TypeOK, Inodes, NoIntent, Points
<1>2. Sound
  BY KindsAssumption, BoundsAssumption DEF Init, Sound, Images, Recorded, Standing,
     Where, WhereRecords, WhereOperation, WhereRecovery, Content, Pre, Prepared,
     Completed, Names, Inodes, None, AfterIntent, Recovery
<1>3. QED
  BY <1>1, <1>2 DEF ScopedInv

LEMMA ScopedHolds == Spec => []ScopedInv
BY ScopedInit, ScopedStep, PTL DEF Spec

\* Names, records and processes stay well formed, for any number of processes, kills,
\* errors and outside writes; and at most one process is at work, also while others
\* look at and remove the locks of dead ones, until a late one removes a lock that
\* is not the one it looked at (TypeOK).
THEOREM ScopedTypeCorrect == Spec => []TypeOK
BY ScopedHolds, PTL DEF ScopedInv

\* Until its completion is published an operation, its rollback and the rollback of
\* a killed rollback keep the bytes of the preimage under a name that recovery
\* consults (PreimageKept).
THEOREM PreimageAlwaysKept == Spec => []PreimageKept
<1>1. ScopedInv => PreimageKept
  BY DataOf DEF ScopedInv, Data, Sound, Images, Recorded, Standing, PreimageKept,
     Content, Pre
<1>2. QED
  BY <1>1, ScopedHolds, PTL

\* The image says whether the completion is published.
Told ==
  Image = IF writes > 0 THEN "foreign" ELSE IF Completed THEN "after" ELSE "before"

LEMMA ImageTells == ScopedInv => Told
BY DataOf DEF Told, ScopedInv, TypeOK, Sound, Standing, Image, Pre, Post

\* A completion is never taken back.
LEMMA CompletedStays == ScopedInv /\ [Next]_vars => (Completed => Completed')
<1> SUFFICES ASSUME TypeOK, Next, Completed PROVE Completed'
  BY DEF ScopedInv, vars, records, Completed
<1>1. \/ completion' = completion
      \/ \E p \in Processes : publishOperationCompletion(p)
  BY DEF Next, RecoveryStep, OperationStep, acquireTargetLock, LookAtStaleLock,
     UnlinkStaleTemp, reclaimStaleTargetLock, UnlinkLock, ReclaimLate,
     releaseTargetLock, RecoverDecides, UndoInstall, restoreDescriptorRelativeBackup,
     restoreRecoveryEntry, RefillTarget, UnlinkLocal, UnlinkBackup, UnlinkTemp, Cleanup,
     deletePreparedOperationRecord, InspectRecovered, StageTemp,
     bindTargetLockTemporary, WriteTemp, CommitStarts, StartRemove, BackupStarts,
     BackupCopies, createOperationIntent, MoveTarget, VerifyMoved, PutBack, Unprepare,
     DropBackup, installDescriptorRelativeWithoutOverwrite, DetachTemp, CheckPostimage,
     Abort, Fault, Kill, OutsideWrites, Refuse, records
<1>2. QED
  BY <1>1 DEF publishOperationCompletion, TypeOK, Completed, Unpublished, Inodes, None

\* A write from outside is never taken back either.
LEMMA WritesStay == ScopedInv /\ [Next]_vars => (writes > 0 => writes' > 0)
<1> SUFFICES ASSUME writes \in Nat, [Next]_vars, writes > 0 PROVE writes' > 0
  BY DEF ScopedInv, TypeOK
<1>1. writes' \in {writes, writes + 1}
  BY OnlyOutsideWrites DEF Next, OutsideWrites, vars, bounds
<1>2. QED
  BY <1>1

\* The protocol turns the preimage into the postimage in one instant, whatever is
\* killed, fails, is rolled back or retried, at any of its points (ImplementsAtomicFile).
THEOREM ProtocolIsAtomic == Spec => ImplementsAtomicFile
<1>1. Init => Atomic!Init
  <2> SUFFICES ASSUME Init PROVE Atomic!Init
    OBVIOUS
  <2>1. ScopedInv /\ writes = 0 /\ ~ Completed
    BY ScopedInit DEF Init, Completed
  <2>2. QED
    BY <2>1, ImageTells DEF Told, Atomic!Init
<1>2. ScopedInv /\ Told /\ Told' /\ [Next]_vars => [Atomic!Next]_<<Image, Completed>>
  <2> SUFFICES ASSUME ScopedInv, Told, Told', [Next]_vars
               PROVE  Atomic!Next \/ UNCHANGED <<Image, Completed>>
    OBVIOUS
  <2>1. Completed \in BOOLEAN /\ Completed' \in BOOLEAN
    BY DEF Completed
  <2>2. CASE writes' > 0
    BY <2>1, <2>2 DEF Told, Atomic!Next, Atomic!OutsideWrites
  <2>3. CASE ~ (writes' > 0)
    <3>1. ~ (writes > 0)
      BY <2>3, WritesStay
    <3>2. QED
      BY <2>1, <2>3, <3>1, CompletedStays DEF Told, Atomic!Next, Atomic!Commit
  <2>4. QED
    BY <2>2, <2>3
<1>3. QED
  BY <1>1, <1>2, ImageTells, ScopedHolds, PTL DEF Spec, ImplementsAtomicFile, Atomic!Spec
=============================================================================
