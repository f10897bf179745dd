---------------------------- MODULE EventStream ----------------------------
(***************************************************************************)
(* One conversation as its event stream shows it: the log of AgentEvents,   *)
(* the messages, the latest turn with its task, and the connection that     *)
(* polls the log for a reader.                                              *)
(*                                                                         *)
(* AgentTurn has the attempts and the outcomes of a turn; to a reader the   *)
(* outcomes are alike (the turn has "ended"), and an attempt that lost its  *)
(* lease is like none.  Event n of the log has sequence n and the id n.     *)
(***************************************************************************)
EXTENDS Integers, Sequences

CONSTANTS MaxTurns,     \* bound: user messages sent
          MaxAsks,      \* bound: project selections asked for
          MaxHeartbeats \* bound: heartbeat events of a conversation

ASSUME EventStreamAssumption ==
    MaxTurns \in Nat \ {0} /\ MaxAsks \in Nat /\ MaxHeartbeats \in Nat

VARIABLES
    turn,        \* [no, status]: the latest AgentExecution; all final statuses are "ended"
    task,        \* [active, cancel]: its DurableTask and AgentExecutionConfig
    fenced,      \* the worker's last transaction has read the cancel flag, not committed
    messages,    \* AgentMessage rows in order
    log,         \* AgentEvent rows in order
    conn         \* the one connection of the reader

worker == <<turn, task, fenced>>
serverVars == <<worker, messages, log>>

EventType == {"HEARTBEAT", "DELTA", "COMPLETED", "ERROR", "REQUIRED", "RESOLVED"}
CloseType == {"COMPLETED", "ERROR", "REQUIRED"}
NoCursor == -1  \* the request carries neither cursor: the stream starts at the tail
Closed == [phase |-> "none", cursor |-> 0, at |-> 0, sent |-> 0]

\* An answer's text is that of the turn it answers.  The text of the marker that pairs
\* a question the user gave up (_pair_interrupted_question) is never streamed.
Text(e) == <<e>>
Marker == <<0>>
Message(role, text) == [role |-> role, text |-> text]
Event(type, of) == [type |-> type, of |-> of]

Asks == Len(SelectSeq(log, LAMBDA ev : ev.type = "REQUIRED"))

ServerTypeOK ==
    /\ turn \in [no : 0..MaxTurns, status : {"none", "RUNNING", "WAITING", "ended"}]
    /\ task \in [active : BOOLEAN, cancel : BOOLEAN]
    /\ fenced \in BOOLEAN
    /\ messages \in Seq([role : {"USER", "ASSISTANT"}, text : Seq(0..MaxTurns)])
    /\ log \in Seq([type : EventType, of : 0..MaxTurns + MaxAsks])
    /\ conn \in [phase : {"none", "request", "poll", "check", "closed"}, cursor : Nat \cup {NoCursor},
                 at : 0..Len(log), sent : 0..Len(log)]
    /\ conn.at <= conn.sent
    /\ fenced => task.active

ServerInit ==
    /\ turn = [no |-> 0, status |-> "none"]
    /\ task = [active |-> FALSE, cancel |-> FALSE]
    /\ fenced = FALSE
    /\ messages = <<>>
    /\ log = <<>>
    /\ conn = Closed

-----------------------------------------------------------------------------
(* The worker that holds the lease of the turn's task.                     *)

Working == task.active /\ turn.status = "RUNNING"

Settle(status) == turn' = [turn EXCEPT !.status = status] /\ fenced' = FALSE

Heartbeat ==
    /\ Working /\ ~fenced
    /\ Len(SelectSeq(log, LAMBDA ev : ev.type = "HEARTBEAT")) < MaxHeartbeats
    /\ log' = Append(log, Event("HEARTBEAT", turn.no))
    /\ UNCHANGED <<worker, messages>>

\* _complete and _wait_for_project_selection read the flag, and commit later.
Fence ==
    /\ Working /\ ~fenced /\ ~task.cancel
    /\ fenced' = TRUE
    /\ UNCHANGED <<turn, task, messages, log>>

Answer ==
    /\ fenced
    /\ Settle("ended")
    /\ messages' = Append(messages, Message("ASSISTANT", Text(turn.no)))
    /\ log' = log \o <<Event("DELTA", turn.no), Event("COMPLETED", turn.no)>>
    /\ UNCHANGED task

AskUser ==
    /\ fenced /\ Asks < MaxAsks
    /\ Settle("WAITING")
    /\ log' = Append(log, Event("REQUIRED", Asks + 1))
    /\ UNCHANGED <<task, messages>>

\* _error; or finalize_task_failure, in the transaction that fails the task.
Fail ==
    /\ Working
    /\ Settle("ended")
    /\ log' = Append(log, Event("ERROR", turn.no))
    /\ UNCHANGED task \/ task' = [task EXCEPT !.active = FALSE]
    /\ UNCHANGED messages

\* No event is written for a cancelled turn.
ObserveCancel ==
    /\ Working /\ ~fenced /\ task.cancel
    /\ Settle("ended")
    /\ UNCHANGED <<task, messages, log>>

\* finish_task, a transaction after the one that settled the turn.
FinishTask ==
    /\ task.active /\ turn.status # "RUNNING"
    /\ task' = [task EXCEPT !.active = FALSE]
    /\ UNCHANGED <<turn, fenced, messages, log>>

\* The last lease expires: reconcile fails the task and leaves the turn RUNNING.
LoseLastLease ==
    /\ Working
    /\ task' = [task EXCEPT !.active = FALSE]
    /\ fenced' = FALSE
    /\ UNCHANGED <<turn, messages, log>>

Ends == Answer \/ AskUser \/ Fail \/ ObserveCancel \/ FinishTask \/ LoseLastLease
Worker == (Heartbeat \/ Fence \/ Ends) /\ UNCHANGED conn

-----------------------------------------------------------------------------
(* What a request of the reader does in the database.                      *)

\* A turn is live to _create and to _runtime.
Live == turn.status = "WAITING" \/ Working

NewTask == task' = [active |-> TRUE, cancel |-> FALSE]

\* resumeAfterEventSequence, read in the transaction that creates the task.
Baseline == Len(log')

CreateTurn ==
    /\ ~Live /\ turn.no < MaxTurns
    /\ turn' = [no |-> turn.no + 1, status |-> "RUNNING"]
    /\ NewTask
    /\ fenced' = FALSE
    /\ messages' = Append(messages, Message("USER", Text(turn.no + 1)))
    /\ UNCHANGED log

Resolved == log' = Append(log, Event("RESOLVED", Asks))

SelectProject ==
    /\ turn.status = "WAITING"
    /\ Settle("RUNNING")
    /\ NewTask /\ Resolved
    /\ UNCHANGED messages

DeclineSelection ==
    /\ turn.status = "WAITING"
    /\ Settle("ended")
    /\ Resolved
    /\ messages' = Append(messages, Message("ASSISTANT", Marker))
    /\ UNCHANGED task

RequestCancellation ==
    /\ task' = [task EXCEPT !.cancel = @ \/ task.active]
    /\ UNCHANGED <<turn, fenced, messages, log>>

-----------------------------------------------------------------------------
(* open_event_stream and the polling loop of _stream.                      *)

Request(cursor) == [Closed EXCEPT !.phase = "request", !.cursor = cursor]

Open ==
    /\ conn.phase = "request"
    /\ LET start == IF conn.cursor = NoCursor THEN Len(log) ELSE conn.cursor
       IN  conn' = [conn EXCEPT !.phase = "poll", !.at = start, !.sent = start]

\* terminal_seen is overwritten by every row: the last one decides.
ClosesAfter(rows) == rows[Len(rows)].type \in CloseType

Poll ==
    /\ conn.phase = "poll"
    /\ LET rows == SubSeq(log, conn.sent + 1, Len(log))
       IN  conn' = IF rows = <<>> THEN [conn EXCEPT !.phase = "check"]
                   ELSE [conn EXCEPT !.sent = Len(log),
                                     !.phase = IF ClosesAfter(rows) THEN "closed" ELSE "poll"]

\* mutant: the stream stays open whatever the task's status
StaysOpen_Always == TRUE

StaysOpen == task.active

\* No rows were found: the task's status decides, read in a later statement.
CheckTask ==
    /\ conn.phase = "check"
    /\ conn' = [conn EXCEPT !.phase = IF StaysOpen THEN "poll" ELSE "closed"]

Stream == (Open \/ Poll \/ CheckTask) /\ UNCHANGED serverVars
=============================================================================
