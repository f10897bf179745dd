-------------------------- MODULE WeeklyReportProofs --------------------------
(***************************************************************************)
(* That the answers of the weekly report hold, for any number of risks,     *)
(* todos, revisions and attempts: the timeline says how risks and todos     *)
(* stand, an answer that does not call itself stale shows them as they are, *)
(* and a stale report has its task.                                         *)
(*                                                                         *)
(* The first is a fact of the operations on the tables, one lemma each, and *)
(* holds of a transaction that is still open too.  For the second a report  *)
(* that no change has reached since it was read is the present one, and a   *)
(* change that comes while a rebuild has read the sources is one of the     *)
(* exceptions (FreshInv).  For the third no task of a revision to come has  *)
(* succeeded yet, so that to enqueue it is to have it run (TaskInv).        *)
(***************************************************************************)
EXTENDS WeeklyReport, WellFoundedInduction, TLAPS

USE TodosAssumption, WeeklyAssumption

RiskStatus == {"none", "ACTIVE", "RESOLVED"}
TodoStatus == Statuses \union {"none"}
RiskRow == [status : RiskStatus, level : Levels, told : RiskStatus]
TodoRow == [status : TodoStatus, done : BOOLEAN, told : TodoStatus]
Tables == [risk : [Risks -> RiskRow], todo : [Risks -> [Todos -> TodoRow]]]

\* What the timeline and the mark of completion tell of a row is so.
RiskTells(row) == row.told = row.status
TodoTells(row) == row.told = row.status /\ (row.done <=> row.status = "COMPLETED")
Tells(t) == \A r \in Risks : RiskTells(t.risk[r]) /\ \A n \in Todos : TodoTells(t.todo[r][n])

Kept(t) == t \in Tables /\ Tells(t)
-----------------------------------------------------------------------------
(* The operations keep the tables.                                          *)

\* One risk and its todos are written.
LEMMA RiskWritten ==
  ASSUME NEW t, Kept(t), NEW u, NEW r \in Risks,
         NEW row \in RiskRow, RiskTells(row),
         NEW todos \in [Todos -> TodoRow], \A n \in Todos : TodoTells(todos[n]),
         u = [risk |-> [t.risk EXCEPT ![r] = row], todo |-> [t.todo EXCEPT ![r] = todos]]
  PROVE  Kept(u)
<1>1. t.risk \in [Risks -> RiskRow] /\ t.todo \in [Risks -> [Todos -> TodoRow]]
  BY DEF Kept, Tables
<1>2. u.risk \in [Risks -> RiskRow] /\ u.todo \in [Risks -> [Todos -> TodoRow]]
  BY <1>1
<1>3. u \in Tables
  BY <1>2 DEF Tables
<1>4. \A q \in Risks : u.risk[q] = IF q = r THEN row ELSE t.risk[q]
  BY <1>1
<1>5. \A q \in Risks : u.todo[q] = IF q = r THEN todos ELSE t.todo[q]
  BY <1>1
<1>6. Tells(u)
  BY <1>4, <1>5 DEF Tells, Kept
<1>7. QED
  BY <1>3, <1>6 DEF Kept

\* What an operation writes, as the rows and tables it leaves.
LEMMA StatusWritten ==
  ASSUME NEW todo \in TodoRow, NEW status, NEW done \in BOOLEAN, NEW new,
         new = [todo EXCEPT !.status = status, !.done = done]
  PROVE  new = [status |-> status, done |-> done, told |-> todo.told]
BY DEF TodoRow

LEMMA ToldWritten ==
  ASSUME NEW status, NEW done, NEW old, NEW told, NEW row, NEW new,
         row = [status |-> status, done |-> done, told |-> old], new = [row EXCEPT !.told = told]
  PROVE  new = [status |-> status, done |-> done, told |-> told]
OBVIOUS

LEMMA LevelWritten ==
  ASSUME NEW t \in Tables, NEW r \in Risks, NEW level, NEW u, u = [t EXCEPT !.risk[r].level = level]
  PROVE  u = [risk |-> [t.risk EXCEPT ![r] = [status |-> t.risk[r].status, level |-> level, told |-> t.risk[r].told]],
              todo |-> [t.todo EXCEPT ![r] = t.todo[r]]]
<1>1. t.risk[r] \in RiskRow /\ t.risk \in [Risks -> RiskRow] /\ t.todo \in [Risks -> [Todos -> TodoRow]]
  BY DEF Tables
<1>2. ASSUME NEW row, row = [t.risk[r] EXCEPT !.level = level]
      PROVE  row = [status |-> t.risk[r].status, level |-> level, told |-> t.risk[r].told]
  BY <1>1, <1>2 DEF RiskRow
<1>3. u = [risk |-> [t.risk EXCEPT ![r] = [t.risk[r] EXCEPT !.level = level]], todo |-> t.todo]
  BY DEF Tables
<1>4. t.todo = [t.todo EXCEPT ![r] = t.todo[r]]
  BY <1>1
<1>5. QED
  BY <1>2, <1>3, <1>4

\* A risk moves to another status, with all its todos.
Moved(t, r, status, todos) == [t EXCEPT !.risk[r].status = status, !.risk[r].told = status, !.todo[r] = todos]

LEMMA MovedWritten ==
  ASSUME NEW t \in Tables, NEW r \in Risks, NEW status, NEW todos, NEW u, u = Moved(t, r, status, todos)
  PROVE  u = [risk |-> [t.risk EXCEPT ![r] = [status |-> status, level |-> t.risk[r].level, told |-> status]],
              todo |-> [t.todo EXCEPT ![r] = todos]]
<1>1. t.risk[r] \in RiskRow
  BY DEF Tables
<1>2. ASSUME NEW row, row = [t.risk[r] EXCEPT !.status = status, !.told = status]
      PROVE  row = [status |-> status, level |-> t.risk[r].level, told |-> status]
  BY <1>1, <1>2 DEF RiskRow
<1>3. u = [risk |-> [t.risk EXCEPT ![r] = [t.risk[r] EXCEPT !.status = status, !.told = status]],
           todo |-> [t.todo EXCEPT ![r] = todos]]
  BY DEF Tables, Moved
<1>4. QED
  BY <1>2, <1>3

LEMMA CreatedWritten ==
  ASSUME NEW t \in Tables, NEW r \in Risks, NEW row, NEW todo, NEW u, u = [t EXCEPT !.risk[r] = row, !.todo[r][1] = todo]
  PROVE  u = [risk |-> [t.risk EXCEPT ![r] = row], todo |-> [t.todo EXCEPT ![r] = [t.todo[r] EXCEPT ![1] = todo]]]
BY DEF Tables

LEMMA OneWritten ==
  ASSUME NEW t \in Tables, NEW r \in Risks, NEW n \in Todos, NEW todo, NEW u, u = [t EXCEPT !.todo[r][n] = todo]
  PROVE  u = [risk |-> [t.risk EXCEPT ![r] = t.risk[r]], todo |-> [t.todo EXCEPT ![r] = [t.todo[r] EXCEPT ![n] = todo]]]
<1>1. u = [risk |-> t.risk, todo |-> [t.todo EXCEPT ![r] = [t.todo[r] EXCEPT ![n] = todo]]]
  BY DEF Tables
<1>2. t.risk = [t.risk EXCEPT ![r] = t.risk[r]]
  BY DEF Tables
<1>3. QED
  BY <1>1, <1>2

LEMMA FreshTodo == Fresh \in TodoRow /\ TodoTells(Fresh)
  BY DEF Fresh, TodoRow, TodoStatus, Statuses, TodoTells

LEMMA StatusSet ==
  ASSUME NEW todo \in TodoRow, TodoTells(todo), NEW status \in Statuses
  PROVE  SetStatus(todo, status) \in TodoRow /\ TodoTells(SetStatus(todo, status))
<1> DEFINE done == (status = "COMPLETED")
           new == [todo EXCEPT !.status = status, !.done = done]
           told == Told(todo, new)
<1>1. done \in BOOLEAN /\ status \in TodoStatus
  BY DEF TodoStatus
<1>2. SetStatus(todo, status) = [new EXCEPT !.told = told]
  BY DEF SetStatus
<1> HIDE DEF done
<1>3. new = [status |-> status, done |-> done, told |-> todo.told]
  BY <1>1, StatusWritten
<1>4. told = status
  BY <1>3 DEF Told, TodoTells
<1> HIDE DEF new, told
<1>5. SetStatus(todo, status) = [status |-> status, done |-> done, told |-> status]
  BY <1>2, <1>3, <1>4, ToldWritten
<1>6. SetStatus(todo, status) \in TodoRow
  BY <1>1, <1>5 DEF TodoRow
<1>7. done <=> status = "COMPLETED"
  BY DEF done
<1>8. QED
  BY <1>5, <1>6, <1>7 DEF TodoTells

LEMMA RowsAre ==
  ASSUME NEW t, Kept(t), NEW r \in Risks
  PROVE  /\ t.risk[r] \in RiskRow /\ RiskTells(t.risk[r])
         /\ t.todo[r] \in [Todos -> TodoRow] /\ \A n \in Todos : TodoTells(t.todo[r][n])
         /\ t \in Tables
         /\ t.risk \in [Risks -> RiskRow] /\ t.todo \in [Risks -> [Todos -> TodoRow]]
BY DEF Kept, Tables, Tells

LEMMA CreateKeeps ==
  ASSUME NEW t, Kept(t), NEW r \in Risks, NEW level \in Levels
  PROVE  Kept(Create(t, r, level))
<1> DEFINE row == [status |-> "ACTIVE", level |-> level, told |-> "ACTIVE"]
           todos == [t.todo[r] EXCEPT ![1] = Fresh]
<1>1. CASE t.risk[r].status # "none"
  BY <1>1 DEF Create
<1>2. CASE t.risk[r].status = "none"
  <2>1. row \in RiskRow /\ RiskTells(row)
    BY DEF RiskRow, RiskStatus, RiskTells
  <2>2. todos \in [Todos -> TodoRow] /\ \A n \in Todos : TodoTells(todos[n])
    BY RowsAre, FreshTodo
  <2>3. Create(t, r, level) = [risk |-> [t.risk EXCEPT ![r] = row], todo |-> [t.todo EXCEPT ![r] = todos]]
    BY <1>2, RowsAre, CreatedWritten DEF Create
  <2> HIDE DEF row, todos
  <2>4. QED
    BY <2>1, <2>2, <2>3, RiskWritten
<1>3. QED
  BY <1>1, <1>2

LEMMA EditKeeps ==
  ASSUME NEW t, Kept(t), NEW r \in Risks, NEW level \in Levels
  PROVE  Kept(Edit(t, r, level))
<1> DEFINE row == [status |-> t.risk[r].status, level |-> level, told |-> t.risk[r].told]
<1>1. row \in RiskRow /\ RiskTells(row)
  BY RowsAre DEF RiskRow, RiskTells
<1>3. Edit(t, r, level) = [risk |-> [t.risk EXCEPT ![r] = row], todo |-> [t.todo EXCEPT ![r] = t.todo[r]]]
  BY RowsAre, LevelWritten DEF Edit
<1> HIDE DEF row
<1>4. QED
  BY <1>1, <1>3, RowsAre, RiskWritten

\* The operations as writes of a risk and of its todos as a whole.
LEMMA ResolveIs ==
  ASSUME NEW t, NEW r, NEW u, u = Resolve(t, r), NEW todos,
         todos = [n \in Todos |-> IF n \in TodosOf(t, r) THEN SetStatus(t.todo[r][n], "COMPLETED") ELSE t.todo[r][n]]
  PROVE  u = Moved(t, r, "RESOLVED", todos)
BY DEF Resolve, Moved

LEMMA ResolveWrites ==
  ASSUME NEW t \in Tables, NEW r \in Risks, NEW u, u = Resolve(t, r), NEW todos,
         todos = [n \in Todos |-> IF n \in TodosOf(t, r) THEN SetStatus(t.todo[r][n], "COMPLETED") ELSE t.todo[r][n]]
  PROVE  u = [risk |-> [t.risk EXCEPT ![r] = [status |-> "RESOLVED", level |-> t.risk[r].level, told |-> "RESOLVED"]],
              todo |-> [t.todo EXCEPT ![r] = todos]]
<1>1. u = Moved(t, r, "RESOLVED", todos)
  BY ResolveIs
<1>2. QED
  BY <1>1, MovedWritten

LEMMA ReopenIs ==
  ASSUME NEW t, NEW r, NEW u, u = Reopen(t, r), NEW todos,
         todos = IF TodosOf(t, r) = {} THEN [t.todo[r] EXCEPT ![1] = Fresh]
                 ELSE [n \in Todos |-> IF n \in TodosOf(t, r) THEN SetStatus(t.todo[r][n], "PENDING") ELSE t.todo[r][n]]
  PROVE  u = Moved(t, r, "ACTIVE", todos)
BY DEF Reopen, Moved

LEMMA ReopenWrites ==
  ASSUME NEW t \in Tables, NEW r \in Risks, NEW u, u = Reopen(t, r), NEW todos,
         todos = IF TodosOf(t, r) = {} THEN [t.todo[r] EXCEPT ![1] = Fresh]
                 ELSE [n \in Todos |-> IF n \in TodosOf(t, r) THEN SetStatus(t.todo[r][n], "PENDING") ELSE t.todo[r][n]]
  PROVE  u = [risk |-> [t.risk EXCEPT ![r] = [status |-> "ACTIVE", level |-> t.risk[r].level, told |-> "ACTIVE"]],
              todo |-> [t.todo EXCEPT ![r] = todos]]
<1>1. u = Moved(t, r, "ACTIVE", todos)
  BY ReopenIs
<1>2. QED
  BY <1>1, MovedWritten

LEMMA ResolveKeeps ==
  ASSUME NEW t, Kept(t), NEW r \in Risks
  PROVE  Kept(Resolve(t, r))
<1> DEFINE row == [status |-> "RESOLVED", level |-> t.risk[r].level, told |-> "RESOLVED"]
           todos == [n \in Todos |-> IF n \in TodosOf(t, r) THEN SetStatus(t.todo[r][n], "COMPLETED") ELSE t.todo[r][n]]
<1>1. row \in RiskRow /\ RiskTells(row)
  BY RowsAre DEF RiskRow, RiskStatus, RiskTells
<1>2. \A n \in Todos : todos[n] \in TodoRow /\ TodoTells(todos[n])
  BY RowsAre, StatusSet DEF Statuses
<1>4. Resolve(t, r) = [risk |-> [t.risk EXCEPT ![r] = row], todo |-> [t.todo EXCEPT ![r] = todos]]
  BY RowsAre, ResolveWrites
<1>5. todos \in [Todos -> TodoRow]
  BY <1>2
<1> HIDE DEF row, todos
<1>6. QED
  BY <1>1, <1>2, <1>4, <1>5, RiskWritten

LEMMA ReopenKeeps ==
  ASSUME NEW t, Kept(t), NEW r \in Risks
  PROVE  Kept(Reopen(t, r))
<1> DEFINE row == [status |-> "ACTIVE", level |-> t.risk[r].level, told |-> "ACTIVE"]
           todos == IF TodosOf(t, r) = {} THEN [t.todo[r] EXCEPT ![1] = Fresh]
                    ELSE [n \in Todos |-> IF n \in TodosOf(t, r) THEN SetStatus(t.todo[r][n], "PENDING") ELSE t.todo[r][n]]
<1>1. row \in RiskRow /\ RiskTells(row)
  BY RowsAre DEF RiskRow, RiskStatus, RiskTells
<1>2. \A n \in Todos : todos[n] \in TodoRow /\ TodoTells(todos[n])
  BY RowsAre, StatusSet, FreshTodo DEF Statuses
<1>3. todos \in [Todos -> TodoRow]
  BY <1>2, RowsAre, FreshTodo
<1>5. Reopen(t, r) = [risk |-> [t.risk EXCEPT ![r] = row], todo |-> [t.todo EXCEPT ![r] = todos]]
  BY RowsAre, ReopenWrites
<1> HIDE DEF row, todos
<1>6. QED
  BY <1>1, <1>2, <1>3, <1>5, RiskWritten

LEMMA TodoWritten ==
  ASSUME NEW t, Kept(t), NEW r \in Risks, NEW n \in Todos, NEW todo \in TodoRow, TodoTells(todo)
  PROVE  Kept([t EXCEPT !.todo[r][n] = todo])
<1> DEFINE todos == [t.todo[r] EXCEPT ![n] = todo]
<1>1. todos \in [Todos -> TodoRow] /\ \A m \in Todos : TodoTells(todos[m])
  BY RowsAre
<1>2. [t EXCEPT !.todo[r][n] = todo] = [risk |-> [t.risk EXCEPT ![r] = t.risk[r]], todo |-> [t.todo EXCEPT ![r] = todos]]
  BY RowsAre, OneWritten
<1> HIDE DEF todos
<1>3. QED
  BY <1>1, <1>2, RowsAre, RiskWritten

LEMMA UpdateKeeps ==
  ASSUME NEW t, Kept(t), NEW r \in Risks, NEW n \in Todos, NEW status \in Statuses
  PROVE  Kept(Update(t, r, n, status))
<1>1. Update(t, r, n, status) = [t EXCEPT !.todo[r][n] = SetStatus(t.todo[r][n], status)]
  BY DEF Update
<1>2. QED
  BY <1>1, RowsAre, StatusSet, TodoWritten

NatLess == {pair \in Nat \X Nat : pair[1] < pair[2]}

LEMMA LeastNat ==
  ASSUME NEW S, S \subseteq Nat, S # {}
  PROVE  \E x \in S : \A y \in S : x <= y
<1>1. IsWellFoundedOn(NatLess, Nat)
  BY NatLessThanWellFounded, Zenon DEF NatLess, OpToRel
<1>2. PICK x \in S : \A y \in S : ~ (<<y, x>> \in NatLess)
  BY <1>1, WFMin
<1>3. ASSUME NEW y \in S, y < x PROVE FALSE
  <2>1. <<y, x>> \in Nat \X Nat /\ <<y, x>>[1] = y /\ <<y, x>>[2] = x
    OBVIOUS
  <2>2. <<y, x>> \in NatLess
    BY <2>1, <1>3 DEF NatLess
  <2>3. QED
    BY <2>2, <1>2
<1>4. \A y \in S : x <= y
  BY <1>3
<1>5. QED
  BY <1>4

\* There is a first todo that is not there yet.
LEMMA AddKeeps ==
  ASSUME NEW t, Kept(t), NEW r \in Risks, MayAdd(t, r)
  PROVE  Kept(Add(t, r))
<1> DEFINE Missing == Todos \ TodosOf(t, r)
           n == CHOOSE n \in Missing : \A m \in Missing : n <= m
<1>1. Add(t, r) = [t EXCEPT !.todo[r][n] = Fresh]
  BY DEF Add
<1>2. Missing # {} /\ Missing \subseteq Nat
  BY DEF MayAdd, TodosOf, Todos
<1>3. \E x \in Missing : \A m \in Missing : x <= m
  <2> HIDE DEF Missing
  <2>1. QED
    BY <1>2, LeastNat
<1>4. n \in Todos
  BY <1>3
<1> HIDE DEF n
<1>5. QED
  BY <1>1, <1>4, FreshTodo, TodoWritten

\* Whatever an operation that invalidates the week leaves, and what the assistant edits.
LEMMA ChangedKeeps ==
  ASSUME NEW r \in Risks, Kept(db), NEW u \in Changed(r)
  PROVE  Kept(u)
<1>1. "LOW" \in Levels
  BY DEF Levels
<1>2. TodosOf(db, r) \subseteq Todos
  BY DEF TodosOf
<1>3. CASE u \in {Create(db, r, "LOW") : x \in {y \in {r} : db.risk[y].status = "none"}}
  BY <1>1, <1>3, CreateKeeps
<1>4. CASE u \in {Resolve(db, r) : x \in {y \in {r} : MayResolve(db, y)}}
  BY <1>4, ResolveKeeps
<1>5. CASE u \in {Reopen(db, r) : x \in {y \in {r} : MayReopen(db, y)}}
  BY <1>5, ReopenKeeps
<1>6. CASE u \in {Update(db, r, n, status) : n \in TodosOf(db, r), status \in Statuses}
  BY <1>2, <1>6, UpdateKeeps
<1>7. CASE u \in {db : n \in {m \in Todos : MayProcess(db, r, m)}}
  BY <1>7
<1>8. QED
  BY <1>3, <1>4, <1>5, <1>6, <1>7 DEF Changed

LEMMA SilentKeeps ==
  ASSUME NEW r \in Risks, Kept(db), Silent(r)
  PROVE  Kept(db')
<1>1. PICK to \in {Edit(db, r, level) : level \in {l \in Levels : MayEdit(db, r)}} \union
                  {Add(db, r) : x \in {y \in {r} : MayAdd(db, y)}} : db' = to
  BY DEF Silent
<1>2. CASE to \in {Edit(db, r, level) : level \in {l \in Levels : MayEdit(db, r)}}
  BY <1>1, <1>2, EditKeeps
<1>3. CASE to \in {Add(db, r) : x \in {y \in {r} : MayAdd(db, y)}}
  BY <1>1, <1>3, AddKeeps
<1>4. QED
  BY <1>1, <1>2, <1>3

\* What the tables say, and what they will say when the open change commits.
TablesInv == Kept(db) /\ Kept(change.to)

LEMMA TablesInit == Init => TablesInv
<1>1. EmptyTables \in Tables
  BY DEF EmptyTables, Tables, RiskRow, TodoRow, RiskStatus, TodoStatus, Statuses, Levels, NoRisk, NoTodo
<1>2. Tells(EmptyTables)
  BY DEF EmptyTables, Tells, RiskTells, TodoTells, NoRisk, NoTodo
<1>3. QED
  BY <1>1, <1>2 DEF Init, NoChange, TablesInv, Kept

LEMMA TablesStep ==
  ASSUME TablesInv, [Next]_weeklyVars
  PROVE  TablesInv'
<1>1. Kept(EmptyTables)
  <2>1. EmptyTables \in Tables
    BY DEF EmptyTables, Tables, RiskRow, TodoRow, RiskStatus, TodoStatus, Statuses, Levels, NoRisk, NoTodo
  <2>2. Tells(EmptyTables)
    BY DEF EmptyTables, Tells, RiskTells, TodoTells, NoRisk, NoTodo
  <2>3. QED
    BY <2>1, <2>2 DEF Kept
<1>2. Kept(db) /\ Kept(change.to)
  BY DEF TablesInv
<1>3. Kept(db') /\ Kept(change'.to) => TablesInv'
  BY DEF TablesInv, Kept, Tells
<1>4. ASSUME NEW r \in Risks, Change(r) PROVE Kept(db') /\ Kept(change'.to)
  BY <1>2, <1>4, ChangedKeeps DEF Change
<1>5. ASSUME NEW r \in Risks, EarlyChange(r) PROVE Kept(db') /\ Kept(change'.to)
  <2>1. PICK to \in Changed(r) : change' = [to |-> to, open |-> TRUE]
    BY <1>5 DEF EarlyChange
  <2>2. QED
    BY <1>2, <1>5, <2>1, ChangedKeeps DEF EarlyChange
<1>6. ASSUME NEW r \in Risks, Silent(r) PROVE Kept(db') /\ Kept(change'.to)
  <2>1. change' = change
    BY <1>6 DEF Silent
  <2>2. QED
    BY <1>2, <1>6, <2>1, SilentKeeps
<1>7. CASE CommitEarly
  BY <1>1, <1>2, <1>3, <1>7 DEF CommitEarly, NoChange
<1>8. ASSUME UNCHANGED <<db, change>> PROVE Kept(db') /\ Kept(change'.to)
  BY <1>2, <1>8
<1>9. CASE (\E v \in Revisions : Begin(v)) \/ Commit \/ Fail \/ Age \/ Reconcile \/ UNCHANGED weeklyVars
  <2>1. UNCHANGED <<db, change>>
    BY <1>9 DEF Begin, Commit, Fail, Age, Reconcile, weeklyVars
  <2>2. QED
    BY <2>1, <1>3, <1>8
<1>10. QED
  BY <1>3, <1>4, <1>5, <1>6, <1>7, <1>9 DEF Next
-----------------------------------------------------------------------------
(* The tasks of the revisions.                                              *)

TaskStatus == {"none", "QUEUED", "RUNNING", "SUCCEEDED", "FAILED"}
TaskRow == [status : TaskStatus, tries : 0 .. MaxTries]
Flags == [newer : BOOLEAN, silent : BOOLEAN, blind : BOOLEAN]
Items == SUBSET UNION {Authority(t) : t \in Tables}

WeeklyTypes ==
    /\ aggregate \in [revision : 0 .. MaxRevision, stale : BOOLEAN, items : Items]
    /\ expired \in BOOLEAN
    /\ since \in Flags
    /\ task \in [Revisions -> TaskRow]
    /\ rebuild \in [revision : 0 .. MaxRevision, items : Items, since : Flags]
    /\ rebuild = NoRebuild \/ rebuild.revision \in Revisions

\* A task that waits has attempts left; none of a revision to come has succeeded.
TasksWait == \A v \in Revisions : task[v].status \in {"none", "QUEUED"} => task[v].tries < MaxTries
TasksAhead == \A v \in Revisions : task[v].status = "SUCCEEDED" => v <= aggregate.revision

TaskInv == WeeklyTypes /\ TasksWait /\ TasksAhead /\ StaleHasTask

LEMMA TaskInit == Init => TaskInv
<1> SUFFICES ASSUME Init PROVE TaskInv
  OBVIOUS
<1>1. {} \in Items /\ 0 \in 0 .. MaxRevision /\ Nothing \in Flags
  BY DEF Items, Nothing, Flags
<1>2. NoAggregate \in [revision : 0 .. MaxRevision, stale : BOOLEAN, items : Items]
  BY <1>1 DEF NoAggregate
<1>3. NoRebuild \in [revision : 0 .. MaxRevision, items : Items, since : Flags]
  BY <1>1 DEF NoRebuild
<1>4. [status |-> "none", tries |-> 0] \in TaskRow
  BY DEF TaskRow, TaskStatus
<1>5. WeeklyTypes
  BY <1>1, <1>2, <1>3, <1>4 DEF Init, WeeklyTypes
<1>6. QED
  BY <1>5 DEF Init, TaskInv, TasksWait, TasksAhead, StaleHasTask, Built, NoAggregate

\* A revision to come is enqueued: its task waits, runs, or is used up.
LEMMA EnqueueStep ==
  ASSUME TaskInv, NEW v \in Revisions, task' = Enqueued(v)
  PROVE  /\ task' \in [Revisions -> TaskRow]
         /\ TasksWait'
         /\ \A w \in Revisions : task'[w].status = "SUCCEEDED" => task[w].status = "SUCCEEDED"
         /\ \A w \in Revisions : task[w].status \in {"QUEUED", "RUNNING", "FAILED"} =>
                                    task'[w].status = task[w].status
         /\ v > aggregate.revision => task'[v].status \in {"QUEUED", "RUNNING", "FAILED"}
<1>1. /\ task \in [Revisions -> TaskRow] /\ TasksWait /\ TasksAhead /\ v \in Int /\ aggregate.revision \in Int
  BY DEF TaskInv, WeeklyTypes, Revisions
<1>2. CASE task[v].status = "none"
  <2>1. task' = [task EXCEPT ![v].status = "QUEUED"]
    BY <1>2 DEF Enqueued
  <2>2. task[v].tries \in 0 .. MaxTries /\ task[v].tries < MaxTries
    BY <1>1, <1>2 DEF TasksWait, TaskRow
  <2>3. task'[v] = [status |-> "QUEUED", tries |-> task[v].tries]
    BY <1>1, <2>1 DEF TaskRow
  <2>4. \A w \in Revisions \ {v} : task'[w] = task[w]
    BY <1>1, <2>1
  <2>5. task'[v] \in TaskRow
    BY <2>2, <2>3 DEF TaskRow, TaskStatus
  <2>6. task' \in [Revisions -> TaskRow]
    BY <1>1, <2>1, <2>5
  <2>7. TasksWait'
    BY <1>1, <2>2, <2>3, <2>4 DEF TasksWait
  <2>8. QED
    BY <1>2, <2>3, <2>4, <2>6, <2>7
<1>3. CASE task[v].status # "none"
  <2>1. task' = task
    BY <1>3 DEF Enqueued
  <2>2. task[v].status \in TaskStatus
    BY <1>1 DEF TaskRow
  <2>3. v > aggregate.revision => task[v].status # "SUCCEEDED"
    BY <1>1 DEF TasksAhead
  <2>4. QED
    BY <1>1, <1>3, <2>1, <2>2, <2>3 DEF TasksWait, TaskStatus
<1>4. QED
  BY <1>2, <1>3

\* What the rows of the report are is a matter of the tables.
LEMMA AuthorityIsItems == ASSUME NEW t, Kept(t) PROVE Authority(t) \in Items
  BY DEF Kept, Items

\* A revision is enqueued; the aggregate is left, or marked when the revision is one to come.
LEMMA MarkStep ==
  ASSUME TaskInv, NEW v \in Revisions, task' = Enqueued(v),
         \/ aggregate' = [aggregate EXCEPT !.stale = TRUE] /\ v > aggregate.revision
         \/ aggregate' = aggregate,
         since' \in Flags, UNCHANGED <<expired, rebuild>>
  PROVE  TaskInv'
<1>1. /\ aggregate \in [revision : 0 .. MaxRevision, stale : BOOLEAN, items : Items]
      /\ TasksAhead /\ WeeklyTypes /\ StaleHasTask
  BY DEF TaskInv, WeeklyTypes
<1>2. /\ aggregate' \in [revision : 0 .. MaxRevision, stale : BOOLEAN, items : Items]
      /\ aggregate'.revision = aggregate.revision
  BY <1>1
<1>3. WeeklyTypes'
  BY <1>1, <1>2, EnqueueStep DEF WeeklyTypes
<1>4. TasksAhead'
  BY <1>1, <1>2, EnqueueStep DEF TasksAhead
<1>5. StaleHasTask'
  <2>1. CASE v > aggregate.revision
    BY <1>2, <2>1, EnqueueStep DEF StaleHasTask
  <2>2. CASE aggregate' = aggregate
    BY <1>1, <2>2, EnqueueStep DEF StaleHasTask, Built
  <2>3. QED
    BY <2>1, <2>2
<1>6. QED
  BY <1>3, <1>4, <1>5, EnqueueStep DEF TaskInv

\* A step that leaves tasks and revisions as they are.
LEMMA TaskQuiet ==
  ASSUME TaskInv, UNCHANGED <<aggregate, task, rebuild>>, expired' \in BOOLEAN, since' \in Flags
  PROVE  TaskInv'
BY DEF TaskInv, WeeklyTypes, TasksWait, TasksAhead, StaleHasTask, Built

LEMMA FlagsWritten ==
  ASSUME NEW s \in Flags, NEW n \in BOOLEAN, NEW i \in BOOLEAN, NEW b \in BOOLEAN
  PROVE  /\ [s EXCEPT !.newer = n] \in Flags
         /\ [s EXCEPT !.newer = n, !.silent = i] \in Flags
         /\ [s EXCEPT !.newer = n, !.blind = b] \in Flags
BY DEF Flags

LEMMA FlagsJoin ==
  ASSUME NEW s \in Flags, NEW read \in Flags, NEW u, u = [k \in DOMAIN s |-> s[k] \/ read[k]]
  PROVE  /\ u \in Flags
         /\ u.newer <=> s.newer \/ read.newer
         /\ u.silent <=> s.silent \/ read.silent
         /\ u.blind <=> s.blind \/ read.blind
<1>1. DOMAIN s = {"newer", "silent", "blind"}
  BY DEF Flags
<1>2. QED
  BY <1>1 DEF Flags

\* A rebuild that is undone gives back what it has read before.
LEMMA UndoneIs ==
  ASSUME TaskInv
  PROVE  /\ Undone \in Flags
         /\ Undone.newer <=> since.newer \/ rebuild.since.newer
         /\ Undone.silent <=> since.silent \/ rebuild.since.silent
         /\ Undone.blind <=> since.blind \/ rebuild.since.blind
<1>1. since \in Flags /\ rebuild.since \in Flags
  BY DEF TaskInv, WeeklyTypes
<1>2. QED
  BY <1>1, FlagsJoin DEF Undone

LEMMA UndoneWillBe ==
  ASSUME TaskInv'
  PROVE  /\ Undone' \in Flags
         /\ Undone'.newer <=> since'.newer \/ rebuild'.since.newer
         /\ Undone'.silent <=> since'.silent \/ rebuild'.since.silent
         /\ Undone'.blind <=> since'.blind \/ rebuild'.since.blind
<1>1. since' \in Flags /\ rebuild'.since \in Flags
  BY DEF TaskInv, WeeklyTypes
<1>2. QED
  BY <1>1, FlagsJoin DEF Undone

\* One task changes: it runs once more, or it ends.
LEMMA TaskWritten ==
  ASSUME TaskInv, NEW v \in Revisions, NEW status \in TaskStatus, NEW tries \in 0 .. MaxTries,
         task' = [task EXCEPT ![v] = [status |-> status, tries |-> tries]],
         status \in {"none", "QUEUED"} => tries < MaxTries
  PROVE  /\ task' \in [Revisions -> TaskRow] /\ TasksWait'
         /\ task'[v].status = status
         /\ \A w \in Revisions \ {v} : task'[w] = task[w]
<1>1. task \in [Revisions -> TaskRow] /\ TasksWait
  BY DEF TaskInv, WeeklyTypes
<1>2. [status |-> status, tries |-> tries] \in TaskRow
  BY DEF TaskRow
<1>3. /\ task' \in [Revisions -> TaskRow] /\ task'[v] = [status |-> status, tries |-> tries]
      /\ \A w \in Revisions \ {v} : task'[w] = task[w]
  BY <1>1, <1>2
<1>4. QED
  BY <1>1, <1>3 DEF TasksWait

LEMMA BeginStep ==
  ASSUME TablesInv, TaskInv, NEW v \in Revisions, Begin(v)
  PROVE  TaskInv'
<1>1. /\ task \in [Revisions -> TaskRow] /\ TasksWait /\ TasksAhead /\ StaleHasTask /\ WeeklyTypes
      /\ task[v].tries \in Nat /\ task[v].tries <= MaxTries
  BY DEF TaskInv, WeeklyTypes, TaskRow
<1>2. task[v].tries < MaxTries /\ task[v].status = "QUEUED"
  BY <1>1 DEF Begin, TasksWait
<1>3. /\ task' = [task EXCEPT ![v] = [status |-> "RUNNING", tries |-> task[v].tries + 1]]
      /\ task[v].tries + 1 \in 0 .. MaxTries /\ "RUNNING" \in TaskStatus
  BY <1>1, <1>2 DEF Begin, TaskStatus
<1>4. /\ task' \in [Revisions -> TaskRow] /\ TasksWait' /\ task'[v].status = "RUNNING"
      /\ \A w \in Revisions \ {v} : task'[w] = task[w]
  BY <1>3, TaskWritten
<1>5. rebuild' \in [revision : 0 .. MaxRevision, items : Items, since : Flags] /\ rebuild'.revision \in Revisions
  BY <1>1, AuthorityIsItems DEF Begin, WeeklyTypes, Revisions, TablesInv
<1>6. since' \in Flags
  BY DEF Begin, Nothing, Flags
<1>7. UNCHANGED <<aggregate, expired>>
  BY DEF Begin
<1>8. WeeklyTypes'
  BY <1>1, <1>4, <1>5, <1>6, <1>7 DEF WeeklyTypes
<1>9. TasksAhead' /\ StaleHasTask'
  BY <1>1, <1>4, <1>7 DEF TasksAhead, StaleHasTask, Built
<1>10. QED
  BY <1>4, <1>8, <1>9 DEF TaskInv

\* The task of the rebuild ends, or waits for another attempt.
LEMMA RebuildEnds ==
  ASSUME TaskInv, NEW v \in Revisions, NEW status \in {"SUCCEEDED", AfterFailure(v)},
         task' = [task EXCEPT ![v].status = status]
  PROVE  /\ task' \in [Revisions -> TaskRow] /\ TasksWait'
         /\ task'[v].status = status /\ status \in {"SUCCEEDED", "QUEUED", "FAILED"}
         /\ \A w \in Revisions \ {v} : task'[w] = task[w]
<1>1. task \in [Revisions -> TaskRow] /\ task[v].tries \in 0 .. MaxTries
  BY DEF TaskInv, WeeklyTypes, TaskRow
<1>2. status \in {"SUCCEEDED", "QUEUED", "FAILED"} /\ (status = "QUEUED" => task[v].tries < MaxTries)
  BY DEF AfterFailure
<1>3. ASSUME NEW row, row = [task[v] EXCEPT !.status = status]
      PROVE  row = [status |-> status, tries |-> task[v].tries]
  BY <1>1, <1>3 DEF TaskRow
<1>4. task' = [task EXCEPT ![v] = [task[v] EXCEPT !.status = status]]
  OBVIOUS
<1>5. task' = [task EXCEPT ![v] = [status |-> status, tries |-> task[v].tries]]
  BY <1>3, <1>4
<1>6. status \in TaskStatus
  BY <1>2 DEF TaskStatus
<1>7. QED
  BY <1>1, <1>2, <1>5, <1>6, TaskWritten

LEMMA NothingIsFlags == Nothing \in Flags /\ NoRebuild.since = Nothing
  BY DEF Nothing, Flags, NoRebuild

LEMMA FailStep ==
  ASSUME TaskInv, Fail
  PROVE  TaskInv'
<1> DEFINE v == rebuild.revision
<1>1. v \in Revisions /\ WeeklyTypes /\ TasksAhead /\ StaleHasTask
  BY DEF TaskInv, WeeklyTypes, Fail
<1>2. task' = [task EXCEPT ![v].status = AfterFailure(v)]
  BY DEF Fail
<1>3. AfterFailure(v) \in {"QUEUED", "FAILED"}
  BY DEF AfterFailure
<1>4. since' \in Flags /\ UNCHANGED <<aggregate, expired>> /\ rebuild' = NoRebuild
  BY UndoneIs DEF Fail
<1>5. NoRebuild \in [revision : 0 .. MaxRevision, items : Items, since : Flags]
  BY NothingIsFlags DEF NoRebuild, Items
<1> HIDE DEF v
<1>6. /\ task' \in [Revisions -> TaskRow] /\ TasksWait' /\ task'[v].status \in {"QUEUED", "FAILED"}
      /\ \A w \in Revisions \ {v} : task'[w] = task[w]
  BY <1>1, <1>2, <1>3, RebuildEnds
<1>7. WeeklyTypes'
  BY <1>1, <1>4, <1>5, <1>6 DEF WeeklyTypes
<1>8. TasksAhead' /\ StaleHasTask'
  BY <1>1, <1>4, <1>6 DEF TasksAhead, StaleHasTask, Built
<1>9. QED
  BY <1>6, <1>7, <1>8 DEF TaskInv

LEMMA CommitStep ==
  ASSUME TaskInv, Commit
  PROVE  TaskInv'
<1> DEFINE v == rebuild.revision
<1>1. /\ v \in Revisions /\ WeeklyTypes /\ TasksAhead /\ StaleHasTask
      /\ aggregate \in [revision : 0 .. MaxRevision, stale : BOOLEAN, items : Items]
      /\ rebuild.items \in Items /\ since \in Flags /\ expired \in BOOLEAN
  BY DEF TaskInv, WeeklyTypes, Commit
<1>2. PICK status \in {"SUCCEEDED", AfterFailure(v)} : task' = [task EXCEPT ![v].status = status]
  BY DEF Commit
<1>3. rebuild' = NoRebuild /\ NoRebuild \in [revision : 0 .. MaxRevision, items : Items, since : Flags]
  BY NothingIsFlags DEF Commit, NoRebuild, Items
<1>4. CASE Overtaken(v)
  <2>1. UNCHANGED <<aggregate, expired>> /\ since' \in Flags
    BY <1>4, UndoneIs DEF Commit
  <2>2. aggregate.revision >= v /\ ~aggregate.stale
    BY <1>4 DEF Overtaken
  <2> HIDE DEF v
  <2>3. /\ task' \in [Revisions -> TaskRow] /\ TasksWait'
        /\ \A w \in Revisions \ {v} : task'[w] = task[w]
    BY <1>1, <1>2, RebuildEnds
  <2>4. WeeklyTypes' /\ TasksAhead' /\ StaleHasTask'
    BY <1>1, <1>3, <2>1, <2>2, <2>3 DEF WeeklyTypes, TasksAhead, StaleHasTask
  <2>5. QED
    BY <2>3, <2>4 DEF TaskInv
<1>5. CASE ~Overtaken(v)
  <2>1. /\ aggregate' = [revision |-> NextRevision(v), stale |-> FALSE, items |-> rebuild.items]
        /\ NextRevision(v) <= MaxRevision /\ expired' = FALSE /\ since' = since
    BY <1>5 DEF Commit
  <2> HIDE DEF v
  <2>2. /\ NextRevision(v) \in 0 .. MaxRevision /\ NextRevision(v) >= v
        /\ NextRevision(v) >= aggregate.revision
    BY <1>1, <2>1 DEF NextRevision, Revisions
  <2>3. /\ task' \in [Revisions -> TaskRow] /\ TasksWait'
        /\ \A w \in Revisions \ {v} : task'[w] = task[w]
    BY <1>1, <1>2, RebuildEnds
  <2>4. aggregate' \in [revision : 0 .. MaxRevision, stale : BOOLEAN, items : Items]
    BY <1>1, <2>1, <2>2
  <2>5. WeeklyTypes'
    BY <1>1, <1>3, <2>1, <2>3, <2>4 DEF WeeklyTypes
  <2>6. TasksAhead'
    BY <1>1, <2>1, <2>2, <2>3 DEF TasksAhead, Revisions
  <2>7. StaleHasTask'
    BY <2>1 DEF StaleHasTask
  <2>8. QED
    BY <2>3, <2>5, <2>6, <2>7 DEF TaskInv
<1>6. QED
  BY <1>4, <1>5

LEMMA TaskStep ==
  ASSUME TablesInv, TaskInv, [Next]_weeklyVars
  PROVE  TaskInv'
<1>1. since \in Flags /\ expired \in BOOLEAN /\ aggregate.revision \in 0 .. MaxRevision /\ since.blind \in BOOLEAN
  BY DEF TaskInv, WeeklyTypes, Flags
<1>2. ASSUME Target <= MaxRevision PROVE Target \in Revisions /\ Target > aggregate.revision
  BY <1>1, <1>2 DEF Target, Revisions
<1>3. ASSUME NEW r \in Risks, Change(r) PROVE TaskInv'
  <2>1. since' \in Flags
    BY <1>1, <1>3, FlagsWritten DEF Change
  <2>2. /\ Target <= MaxRevision /\ task' = Enqueued(Target) /\ UNCHANGED <<expired, rebuild>>
        /\ aggregate' = [aggregate EXCEPT !.stale = TRUE]
    BY <1>3 DEF Change
  <2>3. QED
    BY <1>2, <2>1, <2>2, MarkStep
<1>4. ASSUME NEW r \in Risks, EarlyChange(r) \/ Silent(r) PROVE TaskInv'
  <2>1. since' \in Flags
    BY <1>1, <1>4, FlagsWritten DEF EarlyChange, Silent
  <2>2. UNCHANGED <<aggregate, task, rebuild, expired>>
    BY <1>4 DEF EarlyChange, Silent
  <2>3. QED
    BY <1>1, <2>1, <2>2, TaskQuiet
<1>5. CASE CommitEarly
  <2> DEFINE blind == since.blind \/ Built \/ rebuild # NoRebuild
  <2>1. blind \in BOOLEAN
    OBVIOUS
  <2>2. since' = [since EXCEPT !.newer = TRUE, !.blind = blind]
    BY <1>5 DEF CommitEarly
  <2> HIDE DEF blind
  <2>3. since' \in Flags
    BY <1>1, <2>1, <2>2, FlagsWritten
  <2>4. 1 \in Revisions
    BY DEF Revisions
  <2>5. QED
    BY <1>5, <2>3, <2>4, MarkStep DEF CommitEarly
<1>6. CASE Age
  BY <1>1, <1>6, TaskQuiet DEF Age
<1>7. CASE Reconcile
  BY <1>1, <1>2, <1>7, MarkStep DEF Reconcile
<1>8. CASE UNCHANGED weeklyVars
  BY <1>1, <1>8, TaskQuiet DEF weeklyVars
<1>9. QED
  BY <1>3, <1>4, <1>5, <1>6, <1>7, <1>8, BeginStep, CommitStep, FailStep DEF Next
-----------------------------------------------------------------------------
(* The report and the tables.                                               *)

\* A report that no change has reached is the present one, and one that a change has
\* reached says so, but for the exceptions.
ReportKnows ==
    Built => /\ ~Undone.newer => aggregate.items = Authority(db)
             /\ Undone.newer /\ ~Undone.silent /\ ~Undone.blind => aggregate.stale

\* So it is with what an open rebuild has read: a change that came since is an exception.
ReadKnows ==
    rebuild # NoRebuild => /\ ~since.newer => rebuild.items = Authority(db)
                           /\ since.newer => since.silent \/ since.blind

FreshInv == ReportKnows /\ ReadKnows

LEMMA FreshStart == Init => FreshInv
  BY DEF Init, FreshInv, ReportKnows, ReadKnows, Built, NoAggregate

\* A change of the tables: when a rebuild has read them, or a report is there that is not
\* marked, it is one of the exceptions.
LEMMA NewerStep ==
  ASSUME TaskInv, FreshInv, TaskInv', UNCHANGED rebuild,
         UNCHANGED <<aggregate.revision, aggregate.items>>,
         aggregate.stale => aggregate'.stale,
         since'.newer, since.silent => since'.silent, since.blind => since'.blind,
         Built => aggregate'.stale \/ since'.silent \/ since'.blind,
         rebuild # NoRebuild => since'.silent \/ since'.blind
  PROVE  FreshInv'
<1>1. Undone'.newer /\ (since'.silent => Undone'.silent) /\ (since'.blind => Undone'.blind)
  BY UndoneWillBe
<1>2. QED
  BY <1>1 DEF FreshInv, ReportKnows, ReadKnows, Built

\* The tables and what is known of them stay; the report may be marked.
LEMMA SameStep ==
  ASSUME FreshInv, UNCHANGED <<db, since, rebuild, aggregate.revision, aggregate.items>>,
         aggregate.stale => aggregate'.stale
  PROVE  FreshInv'
<1>1. Undone' = Undone
  BY DEF Undone
<1>2. Authority(db)' = Authority(db)
  BY DEF Authority, TodosOf
<1>3. QED
  BY <1>1, <1>2 DEF FreshInv, ReportKnows, ReadKnows, Built

LEMMA FlagsOf ==
  ASSUME NEW s \in Flags, NEW n \in BOOLEAN, NEW b \in BOOLEAN
  PROVE  /\ LET t == [s EXCEPT !.newer = n] IN t.newer = n /\ t.silent = s.silent /\ t.blind = s.blind
         /\ LET t == [s EXCEPT !.newer = n, !.silent = b] IN t.newer = n /\ t.silent = b /\ t.blind = s.blind
         /\ LET t == [s EXCEPT !.newer = n, !.blind = b] IN t.newer = n /\ t.silent = s.silent /\ t.blind = b
BY DEF Flags

LEMMA FreshStep ==
  ASSUME TablesInv, TaskInv, FreshInv, [Next]_weeklyVars
  PROVE  FreshInv'
<1>1. TaskInv'
  BY TaskStep
<1>2. /\ since \in Flags /\ since.blind \in BOOLEAN
      /\ aggregate \in [revision : 0 .. MaxRevision, stale : BOOLEAN, items : Items]
      /\ rebuild = NoRebuild \/ rebuild.revision \in Revisions
  BY DEF TaskInv, WeeklyTypes, Flags
<1>3. ASSUME NEW r \in Risks, Change(r) PROVE FreshInv'
  <2>1. /\ since' = [since EXCEPT !.newer = TRUE] /\ aggregate' = [aggregate EXCEPT !.stale = TRUE]
        /\ rebuild = NoRebuild /\ rebuild' = rebuild
    BY <1>3 DEF Change, Unlocked
  <2>2. since'.newer = TRUE /\ since'.silent = since.silent /\ since'.blind = since.blind
    BY <1>2, <2>1, FlagsOf
  <2>3. aggregate'.stale /\ aggregate'.revision = aggregate.revision /\ aggregate'.items = aggregate.items
    BY <1>2, <2>1
  <2>4. QED
    BY <1>1, <2>1, <2>2, <2>3, NewerStep
<1>4. ASSUME NEW r \in Risks, EarlyChange(r) PROVE FreshInv'
  BY <1>4, SameStep DEF EarlyChange
<1>5. CASE CommitEarly
  <2> DEFINE blind == since.blind \/ Built \/ rebuild # NoRebuild
  <2>1. since' = [since EXCEPT !.newer = TRUE, !.blind = blind] /\ UNCHANGED <<aggregate, rebuild>>
    BY <1>5 DEF CommitEarly
  <2>2. blind \in BOOLEAN /\ (since.blind => blind) /\ (Built \/ rebuild # NoRebuild => blind)
    OBVIOUS
  <2> HIDE DEF blind
  <2>3. since'.newer = TRUE /\ since'.silent = since.silent /\ since'.blind = blind
    BY <1>2, <2>1, <2>2, FlagsOf
  <2>4. QED
    BY <1>1, <2>1, <2>2, <2>3, NewerStep
<1>6. ASSUME NEW r \in Risks, Silent(r) PROVE FreshInv'
  <2>1. since' = [since EXCEPT !.newer = TRUE, !.silent = TRUE] /\ UNCHANGED <<aggregate, rebuild>>
    BY <1>6 DEF Silent
  <2>2. since'.newer = TRUE /\ since'.silent = TRUE /\ since'.blind = since.blind
    BY <1>2, <2>1, FlagsOf
  <2>3. QED
    BY <1>1, <2>1, <2>2, NewerStep
<1>7. ASSUME NEW v \in Revisions, Begin(v) PROVE FreshInv'
  <2>1. /\ rebuild = NoRebuild /\ rebuild'.since = since /\ rebuild'.items = Authority(db)
        /\ since' = Nothing /\ UNCHANGED <<db, aggregate>>
    BY <1>7 DEF Begin
  <2>2. ~since'.newer /\ ~since'.silent /\ ~since'.blind /\ ~rebuild.since.newer /\ ~rebuild.since.silent /\ ~rebuild.since.blind
    BY <2>1 DEF Nothing, NoRebuild
  <2>3. (Undone'.newer <=> Undone.newer) /\ (Undone'.silent <=> Undone.silent) /\ (Undone'.blind <=> Undone.blind)
    BY <1>1, <2>1, <2>2, UndoneIs, UndoneWillBe
  <2>4. Authority(db)' = Authority(db)
    BY <2>1 DEF Authority, TodosOf
  <2>5. QED
    BY <2>1, <2>2, <2>3, <2>4 DEF FreshInv, ReportKnows, ReadKnows, Built
<1>8. ASSUME Commit \/ Fail, since' = Undone, UNCHANGED <<db, aggregate>> PROVE FreshInv'
  <2>1. rebuild' = NoRebuild
    BY <1>8 DEF Commit, Fail
  <2>2. ~rebuild'.since.newer /\ ~rebuild'.since.silent /\ ~rebuild'.since.blind
    BY <2>1 DEF NoRebuild, Nothing
  <2>3. (Undone'.newer <=> Undone.newer) /\ (Undone'.silent <=> Undone.silent) /\ (Undone'.blind <=> Undone.blind)
    BY <1>1, <1>8, <2>2, UndoneWillBe
  <2>4. Authority(db)' = Authority(db)
    BY <1>8 DEF Authority, TodosOf
  <2>5. QED
    BY <1>8, <2>1, <2>3, <2>4 DEF FreshInv, ReportKnows, ReadKnows, Built
<1>9. ASSUME Commit, ~Overtaken(rebuild.revision) PROVE FreshInv'
  <2>1. /\ rebuild # NoRebuild /\ rebuild' = NoRebuild /\ since' = since /\ db' = db
        /\ aggregate'.items = rebuild.items
    BY <1>9 DEF Commit
  <2>2. ~rebuild'.since.newer /\ ~rebuild'.since.silent /\ ~rebuild'.since.blind
    BY <2>1 DEF NoRebuild, Nothing
  <2>3. (Undone'.newer <=> since.newer) /\ (Undone'.silent <=> since.silent) /\ (Undone'.blind <=> since.blind)
    BY <1>1, <2>1, <2>2, UndoneWillBe
  <2>4. Authority(db)' = Authority(db)
    BY <2>1 DEF Authority, TodosOf
  <2>5. QED
    BY <2>1, <2>3, <2>4 DEF FreshInv, ReportKnows, ReadKnows
<1>10. CASE Commit
  BY <1>8, <1>9, <1>10 DEF Commit
<1>11. CASE Fail
  BY <1>8, <1>11 DEF Fail
<1>12. CASE Age
  BY <1>12, SameStep DEF Age
<1>13. CASE Reconcile
  <2>1. UNCHANGED <<db, since, rebuild>>
    BY <1>13 DEF Reconcile
  <2>2. UNCHANGED <<aggregate.revision, aggregate.items>> /\ (aggregate.stale => aggregate'.stale)
    BY <1>2, <1>13 DEF Reconcile
  <2>3. QED
    BY <2>1, <2>2, SameStep
<1>14. CASE UNCHANGED weeklyVars
  BY <1>14, SameStep DEF weeklyVars
<1>15. QED
  BY <1>3, <1>4, <1>5, <1>6, <1>7, <1>10, <1>11, <1>12, <1>13, <1>14 DEF Next
-----------------------------------------------------------------------------
WeeklyInv == TablesInv /\ TaskInv /\ FreshInv

LEMMA WeeklyInvHolds == WeeklyInv => AnswersHold
<1> SUFFICES ASSUME WeeklyInv PROVE AnswersHold
  OBVIOUS
<1>1. TypeOK
  <2>1. \A r \in Risks : db.risk[r] \in RiskRow /\ \A n \in Todos : db.todo[r][n] \in TodoRow
    BY DEF WeeklyInv, TablesInv, Kept, Tables
  <2>2. \A r \in Risks : db.risk[r].status \in {"none", "ACTIVE", "RESOLVED"}
    BY <2>1 DEF RiskRow, RiskStatus
  <2>3. \A r \in Risks, n \in Todos : db.todo[r][n].status \in Statuses \union {"none"}
    BY <2>1 DEF TodoRow, TodoStatus
  <2>4. aggregate.revision \in 0 .. MaxRevision /\ task \in [Revisions -> TaskRow]
    BY DEF WeeklyInv, TaskInv, WeeklyTypes
  <2>5. QED
    BY <2>2, <2>3, <2>4 DEF TypeOK, TaskRow, TaskStatus
<1>2. TimelineTells
  BY DEF WeeklyInv, TablesInv, Kept, Tells, RiskTells, TodoTells, TimelineTells
<1>3. FreshIsCurrent
  BY DEF WeeklyInv, FreshInv, ReportKnows, FreshIsCurrent, Answer
<1>4. StaleHasTask
  BY DEF WeeklyInv, TaskInv
<1>5. QED
  BY <1>1, <1>2, <1>3, <1>4 DEF AnswersHold

\* The answers hold: the timeline tells how each risk and todo stands, an answer of the weekly
\* report that does not call itself stale shows them as they are (but for the changes that do
\* not invalidate it and one that found no report to mark), and a stale report has its task.
THEOREM WeeklyAnswersHold == Spec => []AnswersHold
<1>1. Init => WeeklyInv
  BY TablesInit, TaskInit, FreshStart DEF WeeklyInv
<1>2. WeeklyInv /\ [Next]_weeklyVars => WeeklyInv'
  BY TablesStep, TaskStep, FreshStep DEF WeeklyInv
<1>3. QED
  BY <1>1, <1>2, WeeklyInvHolds, PTL DEF Spec

\* A step that replaces the items of the report.
Replaces == aggregate'.revision # aggregate.revision =>
              /\ aggregate'.revision > aggregate.revision
              /\ ~aggregate'.stale /\ ~expired'

LEMMA ReplaceStep ==
  ASSUME TaskInv, [Next]_weeklyVars
  PROVE  [Replaces]_weeklyVars
<1>1. /\ aggregate \in [revision : 0 .. MaxRevision, stale : BOOLEAN, items : Items]
      /\ rebuild # NoRebuild => rebuild.revision \in Revisions
  BY DEF TaskInv, WeeklyTypes
<1>2. CASE Commit
  <2>1. CASE Overtaken(rebuild.revision)
    BY <1>2, <2>1 DEF Commit, Replaces
  <2>2. CASE ~Overtaken(rebuild.revision)
    <3>1. /\ aggregate' = [revision |-> NextRevision(rebuild.revision), stale |-> FALSE, items |-> rebuild.items]
          /\ expired' = FALSE
      BY <1>2, <2>2 DEF Commit
    <3>2. NextRevision(rebuild.revision) >= aggregate.revision
      BY <1>1, <1>2 DEF Commit, NextRevision, Revisions
    <3>3. NextRevision(rebuild.revision) \in Int
      BY <1>1, <1>2 DEF Commit, NextRevision, Revisions
    <3>4. QED
      BY <1>1, <3>1, <3>2, <3>3 DEF Replaces
  <2>3. QED
    BY <2>1, <2>2
<1>3. ASSUME aggregate' = [aggregate EXCEPT !.stale = TRUE] \/ aggregate' = aggregate PROVE Replaces
  BY <1>1, <1>3 DEF Replaces
<1>4. CASE (\E r \in Risks : Change(r) \/ EarlyChange(r) \/ Silent(r)) \/ CommitEarly \/ (\E v \in Revisions : Begin(v))
           \/ Fail \/ Age \/ Reconcile
  <2>1. aggregate' = [aggregate EXCEPT !.stale = TRUE] \/ aggregate' = aggregate
    BY <1>4 DEF Change, EarlyChange, Silent, CommitEarly, Begin, Fail, Age, Reconcile
  <2>2. QED
    BY <1>3, <2>1
<1>5. QED
  BY <1>2, <1>4 DEF Next

\* Only a rebuild advances the revision of a report, by replacing its items with fresh ones.
THEOREM RevisionsAdvance == Spec => RevisionAdvances
<1>1. Init => WeeklyInv
  BY TablesInit, TaskInit, FreshStart DEF WeeklyInv
<1>2. WeeklyInv /\ [Next]_weeklyVars => WeeklyInv' /\ [Replaces]_weeklyVars
  BY TablesStep, TaskStep, FreshStep, ReplaceStep DEF WeeklyInv
<1>3. Spec => [][Replaces]_weeklyVars
  BY <1>1, <1>2, PTL DEF Spec
<1>4. QED
  BY <1>3 DEF RevisionAdvances, Replaces
==============================================================================
