---------------------------- MODULE ImportBatch ----------------------------
(* The import of project workbooks: an upload becomes a batch, a background *)
(* task previews it, an administrator confirms it and may roll it back      *)
(* (imports/service.py, worker.py, commit_service.py).                      *)
(*                                                                          *)
(* A workbook is its hash; what it says is the constant RowsOf.  The value  *)
(* of a project is the batch that last wrote it, so a restored value can be *)
(* told from a lost one.  A statement that locks a row the session already  *)
(* holds returns the attributes the session read before the lock (nothing   *)
(* in the code asks for populate_existing): confirm therefore decides on    *)
(* the status it read first, and is two steps here.                         *)
EXTENDS Integers, Sequences, FiniteSets

CONSTANTS
    Files,        \* workbooks, by the hash of their content
    Projects,     \* what a row can name
    RowsOf,       \* the main sheet of a file: a sequence of [project, risky, grade]
    MaxBatch,     \* bound: uploads that create a batch
    MaxTries,     \* attempts of a preview task (registry: max_attempts)
    MaxConfirms   \* bound: confirmations under way at a time

ASSUME RowsAssumption ==
    RowsOf \in [Files -> Seq([project : Projects, risky : BOOLEAN,
                              grade : {"READY", "WARNING", "ERROR"}])]
ASSUME BoundsAssumption ==
    /\ MaxBatch \in Nat \ {0} /\ MaxTries \in Nat \ {0} /\ MaxConfirms \in Nat

VARIABLES
    batch,       \* import_batches
    rows,        \* project_import_rows of a batch
    task,        \* the IMPORT_PREVIEW task of a batch
    attempt,     \* the worker processes that handle it, dead and late ones included
    stored,      \* the batches whose source.xlsx is on the disk
    order,       \* <<b, c>>: both were confirmed, b not after c (confirmedAt)
    confirming,  \* requests that have read PREVIEWED and wait for the locks
    project,     \* projects
    risk,        \* the collection risk of a project
    disturbed    \* history: projects that met one of the recorded races

vars == <<batch, rows, task, attempt, stored, order, confirming, project, risk, disturbed>>

Batches == 1 .. MaxBatch
Tries == 1 .. MaxTries
NoBatch == [file |-> "none", status |-> "none", undoing |-> FALSE]
NoProject == [by |-> -1, version |-> 0]
NoRisk == 0
Live == {"RETRY", "RUNNING"}

Existing == {b \in Batches : batch[b].status # "none"}
Of(f) == {b \in Existing : batch[b].file = f}
Newest(S) == CHOOSE b \in S : \A c \in S : c <= b
Named(f) == {RowsOf[f][i].project : i \in DOMAIN RowsOf[f]}
Twice(f) == {p \in Projects :
               Cardinality({i \in DOMAIN RowsOf[f] : RowsOf[f][i].project = p}) > 1}
Graded(f, grade) == \E i \in DOMAIN RowsOf[f] : RowsOf[f][i].grade = grade

Init ==
    /\ batch = [b \in Batches |-> NoBatch]
    /\ rows = [b \in Batches |-> <<>>]
    /\ task = [b \in Batches |-> [status |-> "none", tries |-> 0]]
    /\ attempt = [b \in Batches |-> [n \in Tries |-> "none"]]
    /\ stored = {}
    /\ order = {}
    /\ confirming = [b \in Batches |-> 0]
    /\ project \in [Projects -> {NoProject, [by |-> 0, version |-> 1]}]
    /\ risk = [p \in Projects |-> NoRisk]
    /\ disturbed = {}
-----------------------------------------------------------------------------
(* Upload.  The newest batch of the same content decides; the file is       *)
(* written inside the transaction and removed when the commit is not known  *)
(* to have succeeded.                                                       *)

\* The batch that create_preview returns, or refuses because of, if there is one.
Standing(f) ==
    Of(f) # {} /\ batch[Newest(Of(f))].status \in {"PROCESSING", "PREVIEWED", "IMPORTED"}

\* No rollback holds a batch of f: the searches by hash lock every one of them.
Unlocked(f) == \A b \in Of(f) : ~batch[b].undoing

Upload(f, answered) ==
    LET b == Cardinality(Existing) + 1 IN
    /\ b \in Batches
    /\ Unlocked(f) /\ ~Standing(f)
    /\ batch' = [batch EXCEPT ![b].file = f, ![b].status = "PROCESSING"]
    /\ task' = [task EXCEPT ![b].status = "RETRY"]
    /\ stored' = IF answered THEN stored \union {b} ELSE stored
    /\ UNCHANGED <<rows, attempt, order, confirming, project, risk, disturbed>>
-----------------------------------------------------------------------------
(* The preview task.  A worker whose lease expired goes on to its end.      *)

Claim(b) ==
    /\ task[b].status = "RETRY"
    /\ task' = [task EXCEPT ![b] = [status |-> "RUNNING", tries |-> @.tries + 1]]
    /\ attempt' = [attempt EXCEPT ![b][task[b].tries + 1] = "handling"]
    /\ UNCHANGED <<batch, rows, stored, order, confirming, project, risk, disturbed>>

\* Where a task goes when its attempt failed or was lost.
AfterFailure(b) == IF task[b].tries < MaxTries THEN "RETRY" ELSE "FAILED"

LoseLease(b, dies) ==
    /\ task[b].status = "RUNNING"
    /\ task' = [task EXCEPT ![b].status = AfterFailure(b)]
    /\ attempt' = IF dies THEN [attempt EXCEPT ![b][task[b].tries] = "dead"] ELSE attempt
    /\ UNCHANGED <<batch, rows, stored, order, confirming, project, risk, disturbed>>

\* finish_task of attempt n, which counts only while n holds the lease.
Finished(b, n, status) ==
    task' = IF task[b] = [status |-> "RUNNING", tries |-> n]
            THEN [task EXCEPT ![b].status = status] ELSE task

\* Reading or parsing raised: the batch is FAILED whatever it was.
Fail(b, n) ==
    /\ attempt[b][n] = "handling" /\ ~batch[b].undoing
    /\ batch' = [batch EXCEPT ![b].status = "FAILED"]
    /\ attempt' = [attempt EXCEPT ![b][n] = "done"]
    /\ Finished(b, n, AfterFailure(b))
    /\ disturbed' = IF batch[b].status = "IMPORTED"
                    THEN disturbed \union Named(batch[b].file) ELSE disturbed
    /\ UNCHANGED <<rows, stored, order, confirming, project, risk>>

FreshRow(r) == [project |-> r.project, risky |-> r.risky, status |-> r.grade,
                before |-> NoProject, riskBefore |-> NoRisk]

\* What was read replaces the rows.  A stored file never changes, so when it was
\* read does not matter.
Store(b, n) ==
    /\ attempt[b][n] = "handling" /\ b \in stored /\ ~batch[b].undoing
    /\ rows' = [rows EXCEPT ![b] = [i \in DOMAIN RowsOf[batch[b].file] |->
                                      FreshRow(RowsOf[batch[b].file][i])]]
    /\ batch' = [batch EXCEPT ![b].status = "PREVIEWED"]
    /\ attempt' = [attempt EXCEPT ![b][n] = "done"]
    /\ Finished(b, n, "SUCCEEDED")
    /\ disturbed' = IF batch[b].status = "IMPORTED"
                    THEN disturbed \union Named(batch[b].file) ELSE disturbed
    /\ UNCHANGED <<stored, order, confirming, project, risk>>
-----------------------------------------------------------------------------
(* Confirm.                                                                 *)

UnderWay == {c \in Batches \X (1 .. MaxConfirms) : c[2] <= confirming[c[1]]}

ConfirmRead(b) ==
    /\ batch[b].status = "PREVIEWED"
    /\ Cardinality(UnderWay) < MaxConfirms
    /\ confirming' = [confirming EXCEPT ![b] = @ + 1]
    /\ UNCHANGED <<batch, rows, task, attempt, stored, order, project, risk, disturbed>>

MayConfirm_Alone(b, acknowledged) ==
    /\ ~Graded(batch[b].file, "ERROR")
    /\ acknowledged \/ ~Graded(batch[b].file, "WARNING")
MayConfirm(b, acknowledged) ==
    /\ \A c \in Of(batch[b].file) \ {b} : batch[c].status # "IMPORTED"
    /\ ~Graded(batch[b].file, "ERROR")
    /\ acknowledged \/ ~Graded(batch[b].file, "WARNING")

ImportRow_SnapshotLate(s, b, i) ==
    LET r == s.rows[i]  p == r.project IN
    IF r.status \notin {"READY", "WARNING"} THEN s
    ELSE [project |-> [s.project EXCEPT ![p] = [by |-> b, version |-> @.version + 1]],
          risk |-> IF r.risky /\ s.risk[p] = NoRisk
                   THEN [s.risk EXCEPT ![p] = b] ELSE s.risk,
          rows |-> [s.rows EXCEPT ![i].status = "IMPORTED", ![i].before = s.project[p],
                       ![i].riskBefore = IF r.risky /\ s.risk[p] = NoRisk THEN b ELSE s.risk[p]]]

\* One row: s holds the projects, risks and rows so far.  A risk that is there
\* already is kept as it is.
ImportRow(s, b, i) ==
    LET r == s.rows[i]  p == r.project  old == s.project[p] IN
    IF r.status \notin {"READY", "WARNING"} THEN s
    ELSE [project |-> [s.project EXCEPT ![p] = [by |-> b, version |-> old.version + 1]],
          risk |-> IF r.risky /\ s.risk[p] = NoRisk
                   THEN [s.risk EXCEPT ![p] = b] ELSE s.risk,
          rows |-> [s.rows EXCEPT ![i].status = "IMPORTED", ![i].before = old,
                                  ![i].riskBefore = s.risk[p]]]

\* The rows in the order of their numbers.
Imported(b) ==
    LET n == Len(rows[b])
        after[i \in 0 .. n] ==
            IF i = 0 THEN [project |-> project, risk |-> risk, rows |-> rows[b]]
            ELSE ImportRow(after[i - 1], b, i)
    IN  after[n]

Overtaken(b) == {p \in Named(batch[b].file) :
                   \E c \in Existing : batch[c].undoing /\ p \in Named(batch[c].file)}

Confirm(b, acknowledged) ==
    /\ confirming[b] > 0 /\ Unlocked(batch[b].file)
    /\ confirming' = [confirming EXCEPT ![b] = @ - 1]
    /\ IF MayConfirm(b, acknowledged)
       THEN /\ rows' = [rows EXCEPT ![b] = Imported(b).rows]
            /\ project' = Imported(b).project
            /\ risk' = Imported(b).risk
            /\ batch' = [batch EXCEPT ![b].status = "IMPORTED"]
            /\ order' = {o \in order : o[1] # b} \union
                        {<<c, b>> : c \in {b} \union {o[1] : o \in order}}
            /\ disturbed' = disturbed \union Twice(batch[b].file) \union Overtaken(b) \union
                            IF batch[b].status = "PREVIEWED" THEN {} ELSE Named(batch[b].file)
       ELSE UNCHANGED <<rows, project, risk, batch, order, disturbed>>
    /\ UNCHANGED <<task, attempt, stored>>
-----------------------------------------------------------------------------
(* Rollback: the search for later imports holds the batch's row only; then  *)
(* the snapshots are written back.                                          *)

\* confirmedAt of b is before that of c.
After(b, c) == b # c /\ <<b, c>> \in order

\* Batches that later imported a project b imported.
Later(b) == {c \in Existing \ {b} :
               /\ batch[c].status = "IMPORTED" /\ After(b, c)
               /\ \E i \in DOMAIN rows[b], j \in DOMAIN rows[c] :
                     /\ rows[b][i].status = "IMPORTED" /\ rows[c][j].status = "IMPORTED"
                     /\ rows[c][j].project = rows[b][i].project}

RollbackCheck(b) ==
    /\ batch[b].status = "IMPORTED" /\ ~batch[b].undoing
    /\ Later(b) = {}
    /\ batch' = [batch EXCEPT ![b].undoing = TRUE]
    /\ UNCHANGED <<rows, task, attempt, stored, order, confirming, project, risk, disturbed>>

\* One row put back.  A project created by the row goes, and its risk with it.
RestoreRow(s, i) ==
    LET r == s.rows[i]  p == r.project IN
    IF r.status # "IMPORTED" THEN s
    ELSE [project |-> IF s.project[p] = NoProject THEN s.project
                      ELSE [s.project EXCEPT ![p] = r.before],
          risk |-> IF s.project[p] # NoProject /\ r.before = NoProject
                   THEN [s.risk EXCEPT ![p] = NoRisk]
                   ELSE IF r.risky /\ s.risk[p] # NoRisk
                   THEN [s.risk EXCEPT ![p] = r.riskBefore] ELSE s.risk,
          rows |-> [s.rows EXCEPT ![i].status = "ROLLED_BACK"]]

Restored(b) ==
    LET n == Len(rows[b])
        after[i \in 0 .. n] ==
            IF i = 0 THEN [project |-> project, risk |-> risk, rows |-> rows[b]]
            ELSE RestoreRow(after[i - 1], i)
    IN  after[n]

\* A project that an update would be undone on has gone: the request is refused.
Gone(b) == \E i \in DOMAIN rows[b] :
             /\ rows[b][i].status = "IMPORTED" /\ rows[b][i].before # NoProject
             /\ project[rows[b][i].project] = NoProject

\* The file names a project twice, the first row created it, and a risk that is
\* put back flushes its deletion before the second row looks for it.
Collides(b) == \E i, k, j \in DOMAIN rows[b] :
    /\ i < k /\ k <= j /\ rows[b][i].project = rows[b][j].project
    /\ rows[b][i].status = "IMPORTED" /\ rows[b][i].before = NoProject
    /\ rows[b][j].status = "IMPORTED"
    /\ rows[b][k].risky /\ rows[b][k].riskBefore # NoRisk /\ risk[rows[b][k].project] # NoRisk

Rollback(b) ==
    /\ batch[b].undoing
    /\ IF Gone(b) \/ Collides(b)
       THEN /\ batch' = [batch EXCEPT ![b].undoing = FALSE]
            /\ UNCHANGED <<rows, project, risk>>
       ELSE /\ batch' = [batch EXCEPT ![b].undoing = FALSE, ![b].status = "ROLLED_BACK"]
            /\ rows' = [rows EXCEPT ![b] = Restored(b).rows]
            /\ project' = Restored(b).project
            /\ risk' = Restored(b).risk
    /\ UNCHANGED <<task, attempt, stored, order, confirming, disturbed>>
-----------------------------------------------------------------------------
Next ==
    \/ \E f \in Files, answered \in BOOLEAN : Upload(f, answered)
    \/ \E b \in Batches :
         \/ Claim(b)
         \/ \E dies \in BOOLEAN : LoseLease(b, dies)
         \/ \E n \in Tries : Fail(b, n) \/ Store(b, n)
         \/ ConfirmRead(b)
         \/ \E acknowledged \in BOOLEAN : Confirm(b, acknowledged)
         \/ RollbackCheck(b)
         \/ Rollback(b)

Spec == Init /\ [][Next]_vars

\* Workers go on while they live, tasks are dispatched, and a request ends.
FairSpec ==
    /\ Spec
    /\ \A b \in Batches :
         /\ WF_vars(Claim(b)) /\ WF_vars(Rollback(b))
         /\ \A n \in Tries : WF_vars(Fail(b, n) \/ Store(b, n))
-----------------------------------------------------------------------------
\* Every variable holds what its table can hold.
TypeOK ==
    /\ batch \in [Batches -> [file : Files \union {"none"}, undoing : BOOLEAN,
                              status : {"none", "PROCESSING", "PREVIEWED", "FAILED",
                                        "IMPORTED", "ROLLED_BACK"}]]
    /\ \A b \in Batches : \A i \in DOMAIN rows[b] :
         rows[b][i].status \in {"READY", "WARNING", "ERROR", "IMPORTED", "ROLLED_BACK"}
    /\ task \in [Batches -> [status : {"none", "RETRY", "RUNNING", "SUCCEEDED", "FAILED"},
                             tries : 0 .. MaxTries]]
    /\ attempt \in [Batches -> [Tries -> {"none", "handling", "done", "dead"}]]
    /\ stored \subseteq Existing
    /\ order \subseteq Batches \X Batches
    /\ \A b, c \in Batches : {<<b, c>>, <<c, b>>} \subseteq order => b = c
    /\ confirming \in [Batches -> 0 .. MaxConfirms]
    /\ disturbed \subseteq Projects

\* One workbook is imported at most once at a time, whatever uploads,
\* confirmations, rollbacks and late preview attempts of it overlap.
OneImportPerFile ==
    \A f \in Files : Cardinality({b \in Of(f) : batch[b].status = "IMPORTED"}) <= 1

\* The imported batches that wrote p, and the one confirmed last.
Writers(p) == {b \in Existing : batch[b].status = "IMPORTED" /\ p \in Named(batch[b].file)}
LastWriter(p) == CHOOSE b \in Writers(p) :
                   \A c \in Writers(p) \ {b} : After(c, b)

\* Confirming and rolling back, in any order the code admits, leave a project with
\* what the last import still standing says of it, and with its first value when
\* none stands; its version counts them.  The races recorded in disturbed excepted.
ProjectsAreExplained ==
    \A p \in Projects \ disturbed :
       /\ project[p].by = IF Writers(p) = {} THEN project[p].version - 1
                          ELSE LastWriter(p)
       /\ project[p].version - Cardinality(Writers(p)) \in {0, 1}

\* A project has a collection risk exactly while a standing import flags it:
\* no rollback orphans one or takes one away that an earlier import made.
RiskFollowsImports ==
    \A p \in Projects \ disturbed :
       (risk[p] # NoRisk) <=> \E b \in Writers(p) : \E i \in DOMAIN RowsOf[batch[b].file] :
                                  /\ RowsOf[batch[b].file][i].project = p
                                  /\ RowsOf[batch[b].file][i].risky

\* The last import of its projects can be rolled back: a request that passed the
\* search is not refused because a project has gone.
RollbackSucceeds ==
    \A b \in Existing : batch[b].undoing /\ Named(batch[b].file) \cap disturbed = {}
                         => ~Gone(b) /\ ~Collides(b)

\* Each project and its collection risk are what the imports that stand say of them, and
\* the newest of them can be taken back.
ImportsExplainProjects == ProjectsAreExplained /\ RiskFollowsImports /\ RollbackSucceeds

\* A preview ends: the batch leaves PROCESSING unless every attempt lost its worker.
PreviewEnds ==
    \A b \in Batches :
       batch[b].status = "PROCESSING" ~>
         \/ batch[b].status # "PROCESSING"
         \/ task[b].status = "FAILED" /\ \A n \in Tries : attempt[b][n] = "dead"
=============================================================================
