---------------------------- MODULE WeeklyReport ----------------------------
(* The weekly report of one project and one week                            *)
(* (weekly_reports/service.py) over the risks that mails of that week led   *)
(* to, and the operations on those risks (RiskLifecycle).                   *)
(*                                                                          *)
(* A change marks the materialisation stale and enqueues the task that      *)
(* builds its next revision, under the lock of the aggregate's row when     *)
(* there is one; a rebuild takes the same lock, reads the sources and       *)
(* replaces the items.  A task is keyed by the revision it builds, and a    *)
(* task that exists is never enqueued again.  A report older than its       *)
(* freshness deadline is answered with 503.                                 *)
EXTENDS RiskLifecycle

CONSTANTS
    MaxRevision,  \* bound: revisions of the aggregate
    MaxTries      \* attempts of a rebuild task (registry: max_attempts)

ASSUME WeeklyAssumption ==
    MaxRevision \in Nat \ {0} /\ MaxTries \in Nat \ {0}

VARIABLES
    db,          \* the tables of risks and todos, as committed
    change,      \* a change of a risk that began before there was a report
    aggregate,   \* the row of weekly_report_aggregates with its items
    expired,     \* its freshness deadline has passed
    since,       \* what happened to the sources since the last rebuild read them
    task,        \* the WEEKLY_REPORT_REBUILD tasks, by the revision they build
    rebuild      \* the rebuild that is in its transaction

weeklyVars == <<db, change, aggregate, expired, since, task, rebuild>>

Revisions == 1 .. MaxRevision
NoAggregate == [revision |-> 0, stale |-> FALSE, items |-> {}]
NoChange == [to |-> EmptyTables, open |-> FALSE]
Nothing == [newer |-> FALSE, silent |-> FALSE, blind |-> FALSE]
NoRebuild == [revision |-> 0, items |-> {}, since |-> Nothing]
Built == aggregate.revision > 0

\* The rows of the report: one for each risk and each todo of it.
Authority(tables) ==
    LET Known == {r \in Risks : tables.risk[r].status # "none"}
        Row(r, n) == [risk |-> r, todo |-> n, level |-> tables.risk[r].level, status |-> tables.risk[r].status,
                      todoStatus |-> tables.todo[r][n].status]
    IN  UNION {{Row(r, n) : n \in TodosOf(tables, r)} : r \in Known}

\* What a query answers: 503 when nothing was built or the deadline has passed; a
\* stale report is shown, and says so.
Answer == IF Built /\ ~expired
          THEN [code |-> 200, stale |-> aggregate.stale, items |-> aggregate.items]
          ELSE [code |-> 503, stale |-> TRUE, items |-> {}]

\* weekly_report_items is unique by mail, candidate and risk.
Fits(items) == \A i, j \in items : i.risk = j.risk => i = j

Init ==
    /\ db = EmptyTables /\ change = NoChange
    /\ aggregate = NoAggregate /\ expired = FALSE /\ since = Nothing
    /\ task = [v \in Revisions |-> [status |-> "none", tries |-> 0]]
    /\ rebuild = NoRebuild
-----------------------------------------------------------------------------
(* A change of a risk or todo, in a transaction.                            *)

\* Nobody holds the aggregate's row; without a row there is nothing to hold.
Unlocked == Built => rebuild = NoRebuild

\* The mutant keys the task by the revision that is there.
Target_Own == IF Built THEN aggregate.revision ELSE 1
Target == aggregate.revision + 1

\* The mutant keys the task by the week alone.
Enqueued_PerWeek(v) == IF \A w \in Revisions : task[w].status = "none"
                       THEN [task EXCEPT ![v].status = "QUEUED"] ELSE task
Enqueued(v) == IF task[v].status = "none" THEN [task EXCEPT ![v].status = "QUEUED"] ELSE task

\* The tables after an operation that invalidates the week.
Changed(r) ==
    {Create(db, r, "LOW") : x \in {y \in {r} : db.risk[y].status = "none"}} \union
    {Resolve(db, r) : x \in {y \in {r} : MayResolve(db, y)}} \union
    {Reopen(db, r) : x \in {y \in {r} : MayReopen(db, y)}} \union
    {Update(db, r, n, status) : n \in TodosOf(db, r), status \in Statuses} \union
    {db : n \in {m \in Todos : MayProcess(db, r, m)}}

\* The row of the aggregate is held until the change commits, so it is one step.
Change(r) ==
    /\ Built /\ Unlocked /\ ~change.open
    /\ Target <= MaxRevision
    /\ db' \in Changed(r)
    /\ aggregate' = [aggregate EXCEPT !.stale = TRUE]
    /\ task' = Enqueued(Target)
    /\ since' = [since EXCEPT !.newer = TRUE]
    /\ UNCHANGED <<change, expired, rebuild>>

\* Before the first rebuild there is no row to hold: the transaction may commit when
\* that rebuild has read the sources, or even committed.
EarlyChange(r) ==
    /\ ~Built /\ ~change.open
    /\ \E to \in Changed(r) : change' = [to |-> to, open |-> TRUE]
    /\ UNCHANGED <<db, aggregate, expired, since, task, rebuild>>

CommitEarly ==
    /\ change.open
    /\ db' = change.to
    /\ change' = NoChange
    /\ task' = Enqueued(1)
    /\ since' = [since EXCEPT !.newer = TRUE, !.blind = @ \/ Built \/ rebuild # NoRebuild]
    /\ UNCHANGED <<aggregate, expired, rebuild>>

\* The assistant edits a risk or adds a todo: the week is not invalidated.
Silent(r) ==
    /\ ~change.open
    /\ \E to \in {Edit(db, r, level) : level \in {l \in Levels : MayEdit(db, r)}} \union
                 {Add(db, r) : x \in {y \in {r} : MayAdd(db, y)}} : to # db /\ db' = to
    /\ since' = [since EXCEPT !.newer = TRUE, !.silent = TRUE]
    /\ UNCHANGED <<change, aggregate, expired, task, rebuild>>
-----------------------------------------------------------------------------
(* Rebuilding.                                                              *)

\* (Bound: a change that began before the first rebuild ends before the second.)
Begin(v) ==
    /\ Built => ~change.open
    /\ task[v].status = "QUEUED" /\ rebuild = NoRebuild
    /\ task' = [task EXCEPT ![v] = [status |-> "RUNNING", tries |-> @.tries + 1]]
    /\ rebuild' = [revision |-> v, items |-> Authority(db), since |-> since]
    /\ since' = Nothing
    /\ UNCHANGED <<db, change, aggregate, expired>>

\* A rebuild that is undone has not read the sources.
Undone == [k \in DOMAIN since |-> since[k] \/ rebuild.since[k]]

AfterFailure(v) == IF task[v].tries < MaxTries THEN "QUEUED" ELSE "FAILED"

\* An earlier task's revision has been overtaken: there is nothing to do.
Overtaken(v) == aggregate.revision >= v /\ ~aggregate.stale

NextRevision(v) == IF aggregate.revision >= v THEN aggregate.revision + 1 ELSE v

\* The rebuild commits; its worker may die, or have lost its lease, before the task
\* is finished.
Commit ==
    LET v == rebuild.revision IN
    /\ rebuild # NoRebuild
    /\ rebuild' = NoRebuild
    /\ \E status \in {"SUCCEEDED", AfterFailure(v)} : task' = [task EXCEPT ![v].status = status]
    /\ IF Overtaken(v)
       THEN /\ since' = Undone
            /\ UNCHANGED <<aggregate, expired>>
       ELSE /\ Fits(rebuild.items) /\ NextRevision(v) <= MaxRevision
            /\ aggregate' = [revision |-> NextRevision(v), stale |-> FALSE,
                             items |-> rebuild.items]
            /\ expired' = FALSE
            /\ UNCHANGED since
    /\ UNCHANGED <<db, change>>

\* The transaction is undone: the items do not fit, or the worker or the database
\* fails.
Fail ==
    LET v == rebuild.revision IN
    /\ rebuild # NoRebuild
    /\ rebuild' = NoRebuild
    /\ task' = [task EXCEPT ![v].status = AfterFailure(v)]
    /\ since' = Undone
    /\ UNCHANGED <<db, change, aggregate, expired>>

\* Fifteen minutes pass.
Age ==
    /\ Built /\ ~expired
    /\ expired' = TRUE
    /\ UNCHANGED <<db, change, aggregate, since, task, rebuild>>

\* Which reports reconcile invalidates.
Sources(items) == {<<i.risk, i.todo>> : i \in items}
Outdated == \/ ~Built /\ Authority(db) # {}
            \/ Built /\ \/ Sources(aggregate.items) # Sources(Authority(db))
                        \/ aggregate.stale \/ expired \/ since.newer

Reconcile ==
    /\ Outdated /\ Unlocked
    /\ Target <= MaxRevision
    /\ aggregate' = IF Built THEN [aggregate EXCEPT !.stale = TRUE] ELSE aggregate
    /\ task' = Enqueued(Target)
    /\ UNCHANGED <<db, change, expired, since, rebuild>>

Next ==
    \/ \E r \in Risks : Change(r) \/ EarlyChange(r) \/ Silent(r)
    \/ CommitEarly
    \/ \E v \in Revisions : Begin(v)
    \/ Commit \/ Fail \/ Age \/ Reconcile

Spec == Init /\ [][Next]_weeklyVars

\* Tasks are dispatched and transactions end.  Nothing in the program calls
\* reconcile, so that step may never come.
FairSpec == /\ Spec
            /\ \A v \in Revisions : SF_weeklyVars(Begin(v))
            /\ WF_weeklyVars(Commit \/ Fail) /\ WF_weeklyVars(CommitEarly)
-----------------------------------------------------------------------------
\* Every variable holds what its table can hold.
TypeOK ==
    /\ \A r \in Risks : db.risk[r].status \in {"none", "ACTIVE", "RESOLVED"}
    /\ \A r \in Risks, n \in Todos : db.todo[r][n].status \in Statuses \union {"none"}
    /\ aggregate.revision \in 0 .. MaxRevision
    /\ task \in [Revisions -> [status : {"none", "QUEUED", "RUNNING", "SUCCEEDED", "FAILED"},
                               tries : 0 .. MaxTries]]

\* The timeline tells the present: whatever created, resolved, reopened or updated a
\* risk and its todos, the last event of each says how it stands, and a todo carries
\* the mark of completion exactly while it is completed.
TimelineTells ==
    \A r \in Risks :
       /\ db.risk[r].told = db.risk[r].status
       /\ \A n \in Todos : /\ db.todo[r][n].told = db.todo[r][n].status
                           /\ db.todo[r][n].done <=> db.todo[r][n].status = "COMPLETED"

\* An answer that does not call itself stale shows the risks and todos as they are,
\* though changes and rebuilds overlap; except for changes that do not invalidate it
\* and for one that found no report to mark.
FreshIsCurrent ==
    Answer.code = 200 /\ ~Answer.stale /\ ~Undone.silent /\ ~Undone.blind => Answer.items = Authority(db)

\* A stale report has a task that will rebuild it, or one whose attempts are used up.
StaleHasTask == Built /\ aggregate.stale => \E v \in Revisions :
                   /\ task[v].status \in {"QUEUED", "RUNNING", "FAILED"}
                   /\ v > aggregate.revision

\* What is answered, and what the tables say of it, is true: of the present by the
\* timeline, of the report by its freshness, of its future by its task.
AnswersHold == TypeOK /\ TimelineTells /\ FreshIsCurrent /\ StaleHasTask

\* Only a rebuild advances the revision of a report, by replacing its items.
RevisionAdvances ==
    [][aggregate'.revision # aggregate.revision =>
         /\ aggregate'.revision > aggregate.revision
         /\ ~aggregate'.stale /\ ~expired']_weeklyVars

\* A report that is stale is built again, unless the attempts of a task are used up
\* (the task of a revision is never enqueued a second time).
StaleIsRebuilt ==
    Built /\ aggregate.stale ~> \/ ~aggregate.stale
                               \/ \E v \in Revisions : task[v].status = "FAILED"
                               \/ aggregate.revision = MaxRevision
=============================================================================
