--------------------------- MODULE RiskLifecycle ---------------------------
(* Confirmed risks and the action items that follow them                    *)
(* (risks/service.py, todos/service.py, timeline/policy.py).  Every         *)
(* operation holds the row lock of what it decides on to the end of its     *)
(* transaction, so it is one function from the tables to the tables; the    *)
(* module that uses these functions says when a transaction takes effect.   *)
(*                                                                          *)
(* The tables are one record: risks by their fingerprint, the action items  *)
(* of a risk (the default one and those the assistant adds), and the        *)
(* timeline, of which the model keeps what its last event tells about each. *)
EXTENDS Integers, FiniteSets

CONSTANTS
    Risks,     \* dedupe fingerprints
    MaxTodos   \* bound: action items of a risk

ASSUME TodosAssumption == MaxTodos \in Nat \ {0}

Todos == 1 .. MaxTodos          \* the first is the default one
Levels == {"HIGH", "LOW"}
Statuses == {"PENDING", "IN_PROGRESS", "COMPLETED"}
NoRisk == [status |-> "none", level |-> "LOW", told |-> "none"]
NoTodo == [status |-> "none", done |-> FALSE, told |-> "none"]
EmptyTables == [risk |-> [r \in Risks |-> NoRisk],
                todo |-> [r \in Risks |-> [n \in Todos |-> NoTodo]]]

TodosOf(db, r) == {n \in Todos : db.todo[r][n].status # "none"}
Fresh == [status |-> "PENDING", done |-> FALSE, told |-> "PENDING"]

Told(old, new) == IF old.status # new.status THEN new.status ELSE old.told
SetStatus(todo, status) ==
    LET new == [todo EXCEPT !.status = status, !.done = (status = "COMPLETED")]
    IN  [new EXCEPT !.told = Told(todo, new)]

\* create_in_session: a fingerprint that exists, or that a rival inserts first, is
\* returned as it is; the winner gets its default todo and two events.
Create(db, r, level) ==
    IF db.risk[r].status # "none" THEN db
    ELSE [db EXCEPT !.risk[r] = [status |-> "ACTIVE", level |-> level, told |-> "ACTIVE"],
                    !.todo[r][1] = Fresh]

\* update_agent_in_session, of which only the level can be told apart here.
MayEdit(db, r) == db.risk[r].status # "none"
Edit(db, r, level) == [db EXCEPT !.risk[r].level = level]

\* resolve_in_session completes what is not completed.
MayResolve(db, r) == db.risk[r].status = "ACTIVE"
Resolve(db, r) ==
    [db EXCEPT !.risk[r].status = "RESOLVED", !.risk[r].told = "RESOLVED",
               !.todo[r] = [n \in Todos |-> IF n \in TodosOf(db, r)
                                            THEN SetStatus(@[n], "COMPLETED") ELSE @[n]]]

\* reopen puts every todo back to PENDING, or makes the default one when there is
\* none (an imported risk that a roll back has restored).
MayReopen(db, r) == db.risk[r].status = "RESOLVED"
Reopen(db, r) ==
    [db EXCEPT !.risk[r].status = "ACTIVE", !.risk[r].told = "ACTIVE",
               !.todo[r] = IF TodosOf(db, r) = {} THEN [@ EXCEPT ![1] = Fresh]
                           ELSE [n \in Todos |-> IF n \in TodosOf(db, r)
                                                 THEN SetStatus(@[n], "PENDING") ELSE @[n]]]

\* update_in_session takes any status and does not look at the risk's.
MayUpdate(db, r, n) == n \in TodosOf(db, r)
Update(db, r, n, status) == [db EXCEPT !.todo[r][n] = SetStatus(@, status)]

\* process_in_session writes a note, a date or an assignee, and an event.
MayProcess(db, r, n) == n \in TodosOf(db, r) /\ db.risk[r].status = "ACTIVE"

\* create_for_risk_in_session adds a todo, and neither an event nor an invalidation.
MayAdd(db, r) == db.risk[r].status = "ACTIVE" /\ TodosOf(db, r) # Todos
Add(db, r) ==
    LET n == CHOOSE n \in Todos \ TodosOf(db, r) :
               \A m \in Todos \ TodosOf(db, r) : n <= m
    IN  [db EXCEPT !.todo[r][n] = Fresh]
=============================================================================
