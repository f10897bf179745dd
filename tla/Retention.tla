----------------------------- MODULE Retention -----------------------------
(* How long the source file of an import is kept (retention/service.py,     *)
(* retention/cleanup.py), over the batches of ImportBatch.                  *)
(*                                                                          *)
(* The cleanup deletes a file in three commits: it unlinks it and leaves a  *)
(* marker, commits a tombstone as storage key, removes the marker with its  *)
(* directory, and commits that the deletion is complete.  It may die after  *)
(* any of these, and its task carries the time it was planned for, so a     *)
(* retry works with an old one.  Administrators place and release holds.    *)
EXTENDS ImportBatch

CONSTANTS
    MaxTime,       \* bound: the clock
    SourceKeep,    \* how long a source is kept
    RollbackKeep,  \* how long a confirmed batch can be rolled back
    MaxHolds,      \* bound: holds placed on a batch
    MaxCrashes     \* bound: deaths of the cleanup

ASSUME RetentionAssumption ==
    {MaxTime, SourceKeep, RollbackKeep, MaxHolds, MaxCrashes} \subseteq Nat

VARIABLES
    now,
    key,        \* storageKey: the source, the tombstone or the completed deletion
    litter,     \* the batch's directory and the marker in it
    expires,    \* sourceExpiresAt
    protected,  \* rollbackProtectedUntil, 0 for none
    hold,       \* the newest retention hold of a batch
    holds,      \* how many were placed on it
    cleaner,    \* the cleanup task at work
    answered,   \* history: batches whose upload was answered
    crashes     \* deaths of the cleanup so far

keeping == <<key, litter, expires, protected, hold, holds, cleaner, answered, crashes>>
retentionVars == <<vars, now, keeping>>

NoHold == [status |-> "none", until |-> 0]
Idle == [phase |-> "idle", batch |-> 0, asOf |-> 0]

RetentionInit ==
    /\ Init
    /\ now = 0
    /\ key = [b \in Batches |-> "none"]
    /\ litter = [b \in Batches |-> {}]
    /\ expires = [b \in Batches |-> 0] /\ protected = [b \in Batches |-> 0]
    /\ hold = [b \in Batches |-> NoHold] /\ holds = [b \in Batches |-> 0]
    /\ cleaner = Idle /\ answered = {} /\ crashes = 0

\* The transaction of the cleanup that holds the batch's row.
Locked(b) == cleaner.phase = "unlinked" /\ cleaner.batch = b
-----------------------------------------------------------------------------
(* The import's steps, with what they write for retention.                  *)

Kept(f, ok) ==
    LET b == Cardinality(Existing) + 1 IN
    /\ Upload(f, ok)
    /\ \A c \in Of(f) : ~Locked(c)
    /\ key' = [key EXCEPT ![b] = "source"]
    /\ litter' = [litter EXCEPT ![b] = IF ok THEN {"dir"} ELSE {}]
    /\ expires' = [expires EXCEPT ![b] = now + SourceKeep]
    /\ answered' = IF ok THEN answered \union {b} ELSE answered
    /\ UNCHANGED <<now, protected, hold, holds, cleaner, crashes>>

Protect(b, ok) ==
    /\ Confirm(b, ok) /\ ~Locked(b)
    /\ protected' = IF MayConfirm(b, ok)
                    THEN [protected EXCEPT ![b] = now + RollbackKeep] ELSE protected
    /\ UNCHANGED <<now, key, litter, expires, hold, holds, cleaner, answered, crashes>>

Unprotect(b) ==
    /\ Rollback(b)
    /\ protected' = IF Gone(b) \/ Collides(b) THEN protected ELSE [protected EXCEPT ![b] = 0]
    /\ UNCHANGED <<now, key, litter, expires, hold, holds, cleaner, answered, crashes>>

ImportStep(b) ==
    /\ \/ Claim(b)
       \/ \E dies \in BOOLEAN : LoseLease(b, dies)
       \/ \E n \in Tries : ~Locked(b) /\ (Fail(b, n) \/ Store(b, n))
       \/ ConfirmRead(b)
       \/ ~Locked(b) /\ RollbackCheck(b)
    /\ UNCHANGED <<now, keeping>>
-----------------------------------------------------------------------------
(* Holds.                                                                   *)

Due(b, t) == hold[b].status = "ACTIVE" /\ hold[b].until # 0 /\ t >= hold[b].until
Held(b, t) == hold[b].status = "ACTIVE" /\ ~Due(b, t)
Free(b) == b \in Existing /\ ~Locked(b) /\ ~batch[b].undoing

\* A second hold on the resource is the same one or is refused.
CreateHold(b, until) ==
    /\ Free(b) /\ ~Held(b, now)
    /\ until = 0 \/ until > now
    /\ holds[b] < MaxHolds
    /\ hold' = [hold EXCEPT ![b] = [status |-> "ACTIVE", until |-> until]]
    /\ holds' = [holds EXCEPT ![b] = @ + 1]
    /\ UNCHANGED <<vars, now, key, litter, expires, protected, cleaner, answered, crashes>>

\* A hold that is due becomes EXPIRED, which is committed, and the request fails.
ReleaseHold(b) ==
    /\ Free(b) /\ hold[b].status = "ACTIVE"
    /\ hold' = [hold EXCEPT ![b].status = IF Due(b, now) THEN "EXPIRED" ELSE "RELEASED"]
    /\ UNCHANGED <<vars, now, key, litter, expires, protected, holds, cleaner, answered, crashes>>
-----------------------------------------------------------------------------
(* The cleanup.                                                             *)

Decision_DueFirst(b, t) ==
    IF t < expires[b] THEN "RETENTION_NOT_DUE"
    ELSE IF task[b].status \in Live THEN "ACTIVE_OPERATION"
    ELSE "ELIGIBLE"
\* The order of the decisions of RetentionProtectionService.import_batch.
Decision(b, t) ==
    IF Held(b, t) THEN "ACTIVE_AUDIT_HOLD"
    ELSE IF protected[b] # 0 /\ t < protected[b] THEN "ROLLBACK_WINDOW"
    ELSE IF task[b].status \in Live THEN "ACTIVE_OPERATION"
    ELSE IF t < expires[b] THEN "RETENTION_NOT_DUE"
    ELSE "ELIGIBLE"

Candidate(b, t) == key[b] = "deleted" \/ (key[b] = "source" /\ expires[b] <= t)

Delete_Unmarked(b, t) ==
    /\ cleaner = Idle /\ t <= now
    /\ Free(b) /\ key[b] = "source" /\ Candidate(b, t)
    /\ Decision(b, t) = "ELIGIBLE" /\ b \in stored
    /\ stored' = stored \ {b}
    /\ cleaner' = [phase |-> "unlinked", batch |-> b, asOf |-> t]
    /\ UNCHANGED <<batch, rows, task, attempt, order, confirming, project, risk, disturbed,
                   now, key, litter, expires, protected, hold, holds, answered, crashes>>
Delete_Once(b, t) ==
    /\ cleaner = Idle /\ t <= now
    /\ Free(b) /\ key[b] = "source" /\ Candidate(b, t)
    /\ Decision(b, t) = "ELIGIBLE" /\ b \in stored
    /\ stored' = stored \ {b}
    /\ litter' = [litter EXCEPT ![b] = {"dir", "marker"}]
    /\ cleaner' = [phase |-> "unlinked", batch |-> b, asOf |-> t]
    /\ UNCHANGED <<batch, rows, task, attempt, order, confirming, project, risk, disturbed,
                   now, key, expires, protected, hold, holds, answered, crashes>>

\* A cleanup task works on one of its candidates; the decision, the marker and
\* the unlink are inside the transaction that holds the row.  With neither a file
\* nor a marker the deletion fails and leaves everything as it was.
Delete(b, t) ==
    /\ cleaner = Idle /\ t <= now
    /\ Free(b) /\ key[b] = "source" /\ Candidate(b, t)
    /\ Decision(b, t) = "ELIGIBLE"
    /\ b \in stored \/ "marker" \in litter[b]
    /\ stored' = stored \ {b}
    /\ litter' = [litter EXCEPT ![b] = {"dir", "marker"}]
    /\ cleaner' = [phase |-> "unlinked", batch |-> b, asOf |-> t]
    /\ UNCHANGED <<batch, rows, task, attempt, order, confirming, project, risk, disturbed,
                   now, key, expires, protected, hold, holds, answered, crashes>>

\* A candidate that is protected is skipped; a hold that is due expires with it.
Skip(b, t) ==
    /\ cleaner = Idle /\ t <= now
    /\ Free(b) /\ Candidate(b, t) /\ key[b] = "source" /\ Due(b, t)
    /\ Decision(b, t) # "ELIGIBLE"
    /\ hold' = [hold EXCEPT ![b].status = "EXPIRED"]
    /\ UNCHANGED <<vars, now, key, litter, expires, protected, holds, cleaner, answered, crashes>>

CommitTombstone ==
    LET b == cleaner.batch IN
    /\ cleaner.phase = "unlinked"
    /\ key' = [key EXCEPT ![b] = "deleted"]
    /\ hold' = IF Due(b, cleaner.asOf) THEN [hold EXCEPT ![b].status = "EXPIRED"] ELSE hold
    /\ cleaner' = [cleaner EXCEPT !.phase = "tombstoned"]
    /\ UNCHANGED <<vars, now, litter, expires, protected, holds, answered, crashes>>

Sweep ==
    /\ cleaner.phase = "tombstoned"
    /\ litter' = [litter EXCEPT ![cleaner.batch] = {}]
    /\ cleaner' = [cleaner EXCEPT !.phase = "swept"]
    /\ UNCHANGED <<vars, now, key, expires, protected, hold, holds, answered, crashes>>

MarkComplete ==
    /\ cleaner.phase = "swept"
    /\ ~batch[cleaner.batch].undoing
    /\ key' = IF key[cleaner.batch] = "deleted"
              THEN [key EXCEPT ![cleaner.batch] = "complete"] ELSE key
    /\ cleaner' = Idle
    /\ UNCHANGED <<vars, now, litter, expires, protected, hold, holds, answered, crashes>>

\* finish_pending, in the transaction that completes the key.
Recover(b) ==
    /\ cleaner = Idle /\ Free(b) /\ key[b] = "deleted"
    /\ litter' = [litter EXCEPT ![b] = {}]
    /\ key' = [key EXCEPT ![b] = "complete"]
    /\ UNCHANGED <<vars, now, expires, protected, hold, holds, cleaner, answered, crashes>>

\* The worker dies: an open transaction is undone, the disk stays as it is.
\* rest is what a removal in progress leaves.
CrashCleaner(rest) ==
    /\ cleaner # Idle /\ crashes < MaxCrashes
    /\ crashes' = crashes + 1
    /\ cleaner' = Idle
    /\ litter' = IF cleaner.phase = "tombstoned"
                 THEN [litter EXCEPT ![cleaner.batch] = rest] ELSE litter
    /\ UNCHANGED <<vars, now, key, expires, protected, hold, holds, answered>>

Tick == now < MaxTime /\ now' = now + 1 /\ UNCHANGED <<vars, keeping>>

Cleanup == \/ \E b \in Batches, t \in 0 .. MaxTime : Delete(b, t) \/ Skip(b, t)
           \/ CommitTombstone \/ Sweep \/ MarkComplete
           \/ \E b \in Batches : Recover(b)

RetentionNext ==
    \/ \E f \in Files, ok \in BOOLEAN : Kept(f, ok)
    \/ \E b \in Batches :
         \/ \E ok \in BOOLEAN : Protect(b, ok)
         \/ Unprotect(b)
         \/ ImportStep(b)
         \/ \E until \in 0 .. MaxTime : CreateHold(b, until)
         \/ ReleaseHold(b)
    \/ Cleanup
    \/ \E rest \in {{"dir", "marker"}, {"dir"}} : CrashCleaner(rest)
    \/ Tick

RetentionSpec == RetentionInit /\ [][RetentionNext]_retentionVars

\* The clock goes on, requests and workers end, and the cleanup is planned again
\* and again with the time of the day.
RetentionFairness ==
    /\ WF_retentionVars(Tick)
    /\ WF_retentionVars(CommitTombstone \/ Sweep \/ MarkComplete)
    /\ \A b \in Batches :
         /\ WF_retentionVars(Unprotect(b))
         /\ WF_retentionVars(Claim(b) /\ UNCHANGED <<now, keeping>>)
         /\ \A n \in Tries : WF_retentionVars(~Locked(b) /\ (Fail(b, n) \/ Store(b, n))
                                              /\ UNCHANGED <<now, keeping>>)
         /\ SF_retentionVars(Recover(b))
         /\ SF_retentionVars(Delete(b, now))
FairRetentionSpec == RetentionSpec /\ RetentionFairness
-----------------------------------------------------------------------------
\* Every variable holds what its column, or the disk, can hold.
RetentionTypeOK ==
    /\ TypeOK
    /\ now \in 0 .. MaxTime
    /\ key \in [Batches -> {"none", "source", "deleted", "complete"}]
    /\ litter \in [Batches -> SUBSET {"dir", "marker"}]
    /\ hold \in [Batches -> [status : {"none", "ACTIVE", "RELEASED", "EXPIRED"},
                             until : 0 .. MaxTime]]
    /\ cleaner \in [phase : {"idle", "unlinked", "tombstoned", "swept"},
                    batch : 0 .. MaxBatch, asOf : 0 .. MaxTime]
    /\ answered \subseteq Existing

\* A preview that may still be tried finds the file its upload was answered for,
\* whatever the cleanup, its retries and its crashes have done meanwhile.
PreviewHasSource ==
    \A b \in answered : task[b].status \in Live => b \in stored

\* A storage key tells the truth about the disk: a tombstone has no source, a
\* completed deletion leaves nothing, and a key that names a source has one unless
\* a cleanup has left its marker there, which the next one needs.
KeyTellsTheTruth ==
    \A b \in answered :
       /\ key[b] \in {"deleted", "complete"} => b \notin stored
       /\ key[b] = "complete" => litter[b] = {}
       /\ key[b] = "source" => b \in stored \/ "marker" \in litter[b]

\* The disk holds what the rows promise: to a preview, and by their keys.
SourcesHold == PreviewHasSource /\ KeyTellsTheTruth

\* A source is not unlinked while it is held or may be needed by a rollback, by the
\* clock of the moment, though the cleanup decides by the time it was planned for.
ProtectedIsKept ==
    [][\A b \in stored \ stored' :
          /\ ~Held(b, now) /\ now >= protected[b] /\ now >= expires[b]]_retentionVars

\* A source that is due goes, whatever crashes: unless it is protected in the end.
DueSourceGoes ==
    \A b \in Batches :
       b \in answered ~> \/ key[b] = "complete"
                         \/ now = MaxTime /\ Decision(b, now) # "ELIGIBLE"
=============================================================================
