------------------------------- MODULE Backup -------------------------------
(* Encrypted backups of the database and of the stored sources, and their   *)
(* restore into an isolated target (infra/backup), over Retention.          *)
(*                                                                          *)
(* A backup stops the API, the workers and the scheduler, or trusts that    *)
(* they are stopped ("none", the default of the command), dumps the         *)
(* database, archives the files, and replaces the artifact at its output    *)
(* path.  Any step may fail and the process may be killed at any point.     *)
(* What the cipher guarantees is not modelled: a damaged part is detected.   *)
(* "focus" separates the behaviours in which retention goes on for long      *)
(* from those with backups, in which nothing is confirmed or held.           *)
EXTENDS Retention

CONSTANTS
    MaxBackups,    \* bound: runs of the backup
    BackupTime,    \* bound: the clock beside backups
    MaxFaults      \* bound: kills, damages of an artifact and rotations of the key

ASSUME BackupAssumption == {MaxBackups, BackupTime, MaxFaults} \subseteq Nat

VARIABLES
    focus,
    stopped,   \* the write paths are stopped
    job,       \* the backup command
    artifact,  \* the file at the output path
    ring,      \* key versions: the active one and those a reader is given
    restore,   \* the restore command, and how the last one ended
    target,    \* the isolated database and storage directory
    faults

backupVars == <<stopped, job, artifact, ring, restore, target, faults>>
allVars == <<retentionVars, focus, backupVars>>

NoArtifact == [run |-> 0]
NoJob == [phase |-> "idle", run |-> 0, compose |-> FALSE, quiet |-> FALSE,
          keys |-> {}, unlinked |-> {}, files |-> {}]
EmptyTarget == [db |-> "empty", keys |-> {}, disk |-> {}]
NoRestore == [phase |-> "idle", why |-> "none", of |-> NoArtifact]
Ended == {"idle", "ok", "bad"}

BackupInit ==
    /\ RetentionInit /\ focus \in {"keeping", "backup"}
    /\ stopped = FALSE /\ job = NoJob /\ artifact = NoArtifact
    /\ ring = [active |-> 1, kept |-> {1}]
    /\ restore = NoRestore /\ target = EmptyTarget /\ faults = 0

\* storageKey of every row of import_batches, with what it names.
StorageKeys == {[batch |-> b, key |-> key[b]] : b \in Existing}
-----------------------------------------------------------------------------
(* The backup (backup.py).                                                  *)

\* run_backup creates its directories and quiesces.  A failed quiesce ends the run at
\* once: nothing is started again, and some services may be down.
StartBackup(compose, quiesced) ==
    /\ job.phase \in Ended /\ job.run < MaxBackups
    /\ compose => cleaner = Idle
    /\ stopped' \in IF ~compose THEN {stopped} ELSE IF quiesced THEN {TRUE} ELSE {stopped, TRUE}
    /\ job' = [NoJob EXCEPT !.run = job.run + 1, !.compose = compose, !.quiet = stopped',
                            !.phase = IF compose /\ ~quiesced THEN "bad" ELSE "probing"]
    /\ UNCHANGED <<artifact, ring, restore, target, faults>>

\* A failing step leaves nothing the rest of the run uses.
Failing == [NoJob EXCEPT !.run = job.run, !.compose = job.compose, !.phase = "failed"]

\* The probes and pg_dump, which reads one snapshot; a failing dump leaves its file.
Dump(ok) ==
    /\ job.phase = "probing"
    /\ job' = IF ~ok THEN Failing
              ELSE [job EXCEPT !.phase = "dumped", !.keys = StorageKeys,
                               !.unlinked = {b \in Existing : key[b] = "source" /\ b \notin stored}]
    /\ UNCHANGED <<stopped, artifact, ring, restore, target, faults>>

\* archive_files: what is on the disk now.
Archive(ok) ==
    /\ job.phase = "dumped"
    /\ job' = IF ok THEN [job EXCEPT !.phase = "archived", !.files = stored] ELSE Failing
    /\ UNCHANGED <<stopped, artifact, ring, restore, target, faults>>

\* The manifest, the wrapped key, the encrypted parts, and the rename over the artifact.
WriteArtifact(ok) ==
    /\ job.phase = "archived"
    /\ job' = IF ok THEN [Failing EXCEPT !.phase = "written"] ELSE Failing
    /\ artifact' = IF ok THEN [run |-> job.run, kek |-> ring.active, damage |-> "none", quiet |-> job.quiet,
                               keys |-> job.keys, unlinked |-> job.unlinked, files |-> job.files]
                   ELSE artifact
    /\ UNCHANGED <<stopped, ring, restore, target, faults>>

\* cmd_backup: the warning about a failed restart is an error of the command.
ExitsZero(warned) == job.phase = "written" /\ ~warned

\* The finally clause: the plaintext goes, as well as an output this run did not write,
\* and the services are started again.
FinishBackup(restarted) ==
    LET warned == job.compose /\ ~restarted IN
    /\ job.phase \in {"written", "failed"}
    /\ artifact' = IF job.phase = "written" THEN artifact ELSE NoArtifact
    /\ stopped' = IF job.compose /\ restarted THEN FALSE ELSE stopped
    /\ job' = [NoJob EXCEPT !.run = job.run, !.compose = job.compose, !.phase = IF ExitsZero(warned) THEN "ok" ELSE "bad"]
    /\ UNCHANGED <<ring, restore, target, faults>>

Fault == faults < MaxFaults /\ faults' = faults + 1

KillBackup ==
    /\ job.phase \in {"probing", "dumped", "archived", "written", "failed"} /\ Fault
    /\ job' = [NoJob EXCEPT !.run = job.run]
    /\ UNCHANGED <<stopped, artifact, ring, restore, target>>

\* The host script, or an operator, stops and starts the services.
Operate ==
    /\ job.phase \in Ended /\ (stopped \/ cleaner = Idle)
    /\ stopped' = ~stopped /\ job' = [NoJob EXCEPT !.run = job.run]
    /\ UNCHANGED <<artifact, ring, restore, target, faults>>

\* A new active key version; the old one is retained for reading, or not.
Rotate(kept) ==
    /\ Fault /\ kept \subseteq ring.kept
    /\ ring' = [active |-> ring.active + 1, kept |-> kept \cup {ring.active + 1}]
    /\ UNCHANGED <<stopped, job, artifact, restore, target>>

Damage(part) ==
    /\ artifact.run # 0 /\ artifact.damage = "none" /\ Fault
    /\ artifact' = [artifact EXCEPT !.damage = part]
    /\ UNCHANGED <<stopped, job, ring, restore, target>>
-----------------------------------------------------------------------------
(* The restore (restore.py).                                                *)

\* Header, key lookup and unwrapping.
KeyFound(a) == a.damage # "header" /\ a.kek \in ring.kept

\* decrypt_artifact, the manifest and the hashes of its parts.
Whole(a) == a.damage = "none"

Fails(why) == restore' = [restore EXCEPT !.phase = "failed", !.why = why]

\* Steps 1 to 5: nothing outside the temporary directory is touched.
OpenArtifact ==
    /\ restore.phase = "idle" /\ artifact.run # 0
    /\ restore' = [phase |-> IF KeyFound(artifact) /\ Whole(artifact) THEN "open" ELSE "failed", of |-> artifact,
                   why |-> IF KeyFound(artifact) THEN IF Whole(artifact) THEN "none" ELSE "damage" ELSE "key"]
    /\ UNCHANGED <<stopped, job, artifact, ring, target, faults>>

\* Steps 6 and 7: both halves of the target must be empty; pg_restore stops at an error
\* and leaves what it did.
RestoreDatabase(ok) ==
    /\ restore.phase = "open"
    /\ IF target # EmptyTarget THEN Fails("target") /\ UNCHANGED target
       ELSE /\ target' = [target EXCEPT !.db = IF ok THEN "whole" ELSE "partial", !.keys = IF ok THEN restore.of.keys ELSE {}]
            /\ IF ok THEN restore' = [restore EXCEPT !.phase = "verify"] ELSE Fails("pg_restore")
    /\ UNCHANGED <<stopped, job, artifact, ring, faults>>

\* Steps 8 and 9: the audit chain and the schema version, then the files.
ExtractFiles(ok) ==
    /\ restore.phase = "verify"
    /\ IF ok THEN target' = [target EXCEPT !.disk = restore.of.files] /\ restore' = [restore EXCEPT !.phase = "extracted"]
       ELSE Fails("audit") /\ UNCHANGED target
    /\ UNCHANGED <<stopped, job, artifact, ring, faults>>

\* The batches whose storage key names a source; a tombstone names a file that never is.
Sources(keys) == {k.batch : k \in {x \in keys : x.key = "source"}}
Tombstones(keys) == {k.batch : k \in {x \in keys : x.key # "source"}}

\* mutant: a missing file is reported and the restore goes on
Missing_Never(t) == {}

Missing(t) == (Sources(t.keys) \ t.disk) \cup Tombstones(t.keys)

\* reconcile_files: files nothing references go, before a missing one is an error.
Reconcile ==
    /\ restore.phase = "extracted"
    /\ target' = [target EXCEPT !.disk = @ \cap Sources(target.keys)]
    /\ IF Missing(target) = {} THEN restore' = [restore EXCEPT !.phase = "restored"] ELSE Fails("missing")
    /\ UNCHANGED <<stopped, job, artifact, ring, faults>>

\* The plaintext goes.
FinishRestore ==
    /\ restore.phase \in {"failed", "restored"}
    /\ restore' = NoRestore
    /\ UNCHANGED <<stopped, job, artifact, ring, target, faults>>

DropTarget ==
    /\ restore.phase = "idle" /\ target' = EmptyTarget
    /\ UNCHANGED <<stopped, job, artifact, ring, restore, faults>>

BackupNext ==
    \/ \E compose, quiesced \in BOOLEAN : StartBackup(compose, quiesced)
    \/ \E ok \in BOOLEAN : Dump(ok) \/ Archive(ok) \/ WriteArtifact(ok)
    \/ \E restarted \in BOOLEAN : FinishBackup(restarted)
    \/ KillBackup \/ Operate
    \/ \E kept \in SUBSET ring.kept : Rotate(kept)
    \/ \E part \in {"header", "parts"} : Damage(part)

RestoreNext ==
    \/ OpenArtifact \/ Reconcile
    \/ \E ok \in BOOLEAN : RestoreDatabase(ok) \/ ExtractFiles(ok)
    \/ FinishRestore \/ DropTarget

\* DEFAULT_QUIESCE_SERVICES: neither requests nor tasks are served.
Runs == ~stopped

\* A preview that keeps its lease.
Preview(b) ==
    /\ Claim(b) \/ \E n \in Tries : ~Locked(b) /\ Store(b, n)
    /\ UNCHANGED <<now, keeping>>

\* What goes on beside a backup: uploads, previews and the cleanup of the day.
Beside ==
    /\ Runs
    /\ \/ \E f \in Files, ok \in BOOLEAN : Kept(f, ok)
       \/ \E b \in Batches : Preview(b) \/ Delete(b, now) \/ Recover(b)
       \/ CommitTombstone \/ Sweep \/ MarkComplete
       \/ \E rest \in {{"dir", "marker"}, {"dir"}} : CrashCleaner(rest)
       \/ now < BackupTime /\ Tick

\* A restore shares no state with the rest but the artifact it has read, so that the
\* others need not go on before its target is dropped.
Alone == restore.phase = "idle" /\ target = EmptyTarget

AllNext ==
    \/ focus = "keeping" /\ RetentionNext /\ UNCHANGED <<focus, backupVars>>
    \/ focus = "backup" /\ Alone /\ Beside /\ UNCHANGED <<focus, backupVars>>
    \/ focus = "backup" /\ Alone /\ BackupNext /\ UNCHANGED <<retentionVars, focus>>
    \/ focus = "backup" /\ RestoreNext /\ UNCHANGED <<retentionVars, focus>>

BackupSpec == BackupInit /\ [][AllNext]_allVars
FairBackupSpec == BackupSpec /\ (focus = "keeping" => RetentionFairness)
-----------------------------------------------------------------------------
BackupTypeOK ==
    /\ RetentionTypeOK
    /\ stopped \in BOOLEAN
    /\ artifact.run \in 0..MaxBackups /\ job.run \in 0..MaxBackups
    /\ faults \in 0..MaxFaults
    /\ target.disk \subseteq Batches

\* A restore that succeeds gives back one capture: the database it dumped, each source
\* it names, and no other file, whatever failed, was damaged or was killed before.
RestoredWhole ==
    restore.phase = "restored" =>
        /\ target.db = "whole" /\ target.keys = restore.of.keys
        /\ target.disk = Sources(restore.of.keys) /\ Tombstones(restore.of.keys) = {}

\* When the services were stopped for the capture, a restore misses no file but those
\* the cleanup had deleted, or was deleting, before: nothing vanishes between the dump
\* and the archive.
OnlyDeletedAreMissing ==
    restore.why = "missing" /\ restore.of.quiet =>
        Missing(target) \subseteq Tombstones(restore.of.keys) \cup restore.of.unlinked

\* The command succeeds only when the services it stopped run again.
SuccessRunsAgain == job.phase = "ok" /\ job.compose => ~stopped

\* What the two commands report is true: of the services, of what is missing, and of what
\* was restored.
ReportsHold == BackupTypeOK /\ RestoredWhole /\ OnlyDeletedAreMissing /\ SuccessRunsAgain

\* ADR 0031, 2.4: "no cleanup runs in the window, so that a file the snapshot refers to
\* is necessarily still on the disk ... the archive contains what the snapshot needs,
\* never a file less".
ArchiveHoldsReferences ==
    artifact.run # 0 /\ artifact.quiet =>
        {k.batch : k \in {x \in artifact.keys : x.key = "source"}} \cup Tombstones(artifact.keys)
            \subseteq artifact.files \cup artifact.unlinked

\* Previews end and due sources go, where no backup stops the services.
KeepingSettles == (focus = "keeping" => PreviewEnds) /\ (focus = "keeping" => DueSourceGoes)
=============================================================================
