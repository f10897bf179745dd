------------------------------ MODULE AgentTurn ------------------------------
(***************************************************************************)
(* The life of the agent's turns in one conversation: the execution row,    *)
(* the durable task that carries it, the questions (interactions) it asks,  *)
(* the cancel flag and the terminal event of each task, under attempts that *)
(* crash, lose their lease or go on after losing it.                        *)
(*                                                                         *)
(* DurableTasks models how a task comes to be claimed; here a task is       *)
(* claimed, its lease lost, and put back, with no dispatch in between, and  *)
(* attempt number a stands for the lease token it was given.  What the      *)
(* model and the tools answer is the choice between the ways the core ends. *)
(***************************************************************************)
EXTENDS Naturals, FiniteSets

CONSTANTS MaxTurns,     \* bound: user messages sent
          MaxTasks,     \* bound: durable tasks created (one per send, one per resume)
          MaxAsks,      \* bound: interactions created
          MaxAttempts   \* max_attempts of AGENT_EXECUTION

ASSUME AgentTurnAssumption ==
    /\ MaxTurns \in Nat \ {0} /\ MaxTasks \in Nat \ {0}
    /\ MaxAsks \in Nat /\ MaxAttempts \in Nat \ {0}

VARIABLES
    taskStatus,   \* taskStatus[t]: DurableTask.status
    attempt,      \* attempt[t]: attemptCount
    taskTurn,     \* taskTurn[t]: the turn the task carries, 0 before it exists
    cancel,       \* cancel[t]: AgentExecutionConfig.cancellationRequestedAt is set
    ended,        \* ended[t]: the task's COMPLETED or ERROR event
    turnStatus,   \* turnStatus[e]: AgentExecution.status
    turnTask,     \* turnTask[e]: AgentExecution.taskId
    resume,       \* resume[e]: which key resumeContext carries
    asks,         \* asks[i]: AgentInteraction rows (with the draft of a write)
    pc,           \* pc[t][a]: where attempt a of task t is
    full,         \* the conversation has used up its events
    deleted       \* AgentConversation.deletedAt is set

taskVars == <<taskStatus, attempt, taskTurn>>
turnVars == <<turnStatus, turnTask, resume>>
vars == <<taskVars, cancel, ended, turnVars, asks, pc, full, deleted>>

Turn == 1..MaxTurns
Task == 1..MaxTasks
Attempt == 1..MaxAttempts
Ask == 1..MaxAsks
ActiveStatus == {"QUEUED", "RUNNING", "RETRY_WAIT"}
NoAsk == [turn |-> 0, kind |-> "none", status |-> "none"]
Verdict == {"success", "cancelled", "fail", "retry", "provider", "rejected"}
Place == {"none", "load", "core", "selectNow", "proposed", "error", "mark", "done"} \cup Verdict

TypeOK ==
    /\ taskStatus \in [Task -> ActiveStatus \cup {"none", "SUCCEEDED", "FAILED", "CANCELLED"}]
    /\ attempt \in [Task -> 0..MaxAttempts]
    /\ taskTurn \in [Task -> 0..MaxTurns]
    /\ cancel \in [Task -> BOOLEAN]
    /\ ended \in [Task -> {"none", "COMPLETED", "ERROR"}]
    /\ turnStatus \in [Turn -> {"none", "RUNNING", "WAITING", "COMPLETED", "FAILED", "CANCELLED"}]
    /\ turnTask \in [Turn -> 0..MaxTasks]
    /\ resume \in [Turn -> {"none", "selectedProject", "selectionCandidates"}]
    /\ asks \in [Ask -> [turn : 0..MaxTurns, kind : {"none", "PROJECT_SELECTION", "WRITE_CONFIRMATION"},
                         status : {"none", "OPEN", "RESOLVED", "CANCELLED", "EXPIRED"}]]
    /\ pc \in [Task -> [Attempt -> Place]]
    /\ full \in BOOLEAN /\ deleted \in BOOLEAN
    /\ \A t \in Task : taskStatus[t] = "RUNNING" => attempt[t] > 0

Init ==
    /\ taskStatus = [t \in Task |-> "none"]
    /\ attempt = [t \in Task |-> 0]
    /\ taskTurn = [t \in Task |-> 0]
    /\ cancel = [t \in Task |-> FALSE]
    /\ ended = [t \in Task |-> "none"]
    /\ turnStatus = [e \in Turn |-> "none"]
    /\ turnTask = [e \in Turn |-> 0]
    /\ resume = [e \in Turn |-> "none"]
    /\ asks = [i \in Ask |-> NoAsk]
    /\ pc = [t \in Task |-> [a \in Attempt |-> "none"]]
    /\ full = FALSE
    /\ deleted = FALSE

-----------------------------------------------------------------------------
(* What the statements of the handlers share.                              *)

\* The fence: RUNNING tasks alone carry a token, attempt a's while it is the latest.
Holds(t, a) == taskStatus[t] = "RUNNING" /\ attempt[t] = a

\* The execution row is found by its taskId.
OwnTurn(t) == turnTask[taskTurn[t]] = t

\* A task created by respond names its execution in the payload.
Resumed(t) == \E u \in 1..t - 1 : taskTurn[u] = taskTurn[t]

At(t, a, place) == pc[t][a] = place
Go(t, a, place) == pc' = [pc EXCEPT ![t][a] = place]

\* append_event raises when the task already has its terminal event.
MayAppend(t) == ended[t] = "none"

Live(e) ==
    \/ turnStatus[e] = "WAITING"
    \/ turnStatus[e] = "RUNNING" /\ taskStatus[turnTask[e]] \in ActiveStatus

OpenAsks == {i \in Ask : asks[i].status = "OPEN"}
FreshTask == {t \in Task : taskStatus[t] = "none" /\ \A u \in 1..t - 1 : taskStatus[u] # "none"}
FreshAsk == {i \in Ask : asks[i] = NoAsk /\ \A j \in 1..i - 1 : asks[j] # NoAsk}
FreshTurn == {e \in Turn : turnStatus[e] = "none" /\ \A d \in 1..e - 1 : turnStatus[d] # "none"}

\* A task is inserted and dispatched for turn e.
Enqueue(t, e) ==
    /\ taskStatus' = [taskStatus EXCEPT ![t] = "QUEUED"]
    /\ taskTurn' = [taskTurn EXCEPT ![t] = e]
    /\ turnTask' = [turnTask EXCEPT ![e] = t]
    /\ UNCHANGED attempt

-----------------------------------------------------------------------------
(* The user's requests.                                                    *)

Send(e, t) ==
    /\ ~deleted
    /\ e \in FreshTurn /\ t \in FreshTask
    /\ \A d \in Turn : ~Live(d)
    /\ Enqueue(t, e)
    /\ turnStatus' = [turnStatus EXCEPT ![e] = "RUNNING"]
    /\ UNCHANGED <<cancel, ended, resume, asks, pc, full, deleted>>

\* request_cancellation flags the configuration of every active task.
Cancel ==
    /\ ~deleted
    /\ \E t \in Task : taskStatus[t] \in ActiveStatus /\ ~cancel[t]
    /\ cancel' = [t \in Task |-> cancel[t] \/ taskStatus[t] \in ActiveStatus]
    /\ UNCHANGED <<taskVars, ended, turnVars, asks, pc, full, deleted>>

\* Both branches of respond: the question is open and its turn waits for it.
Answerable(i, kind) ==
    /\ asks[i].status = "OPEN" /\ asks[i].kind = kind
    /\ turnStatus[asks[i].turn] = "WAITING"
    /\ MayAppend(turnTask[asks[i].turn])

Close(i, status) == asks' = [asks EXCEPT ![i].status = status]

\* SELECT, or MANUAL_INPUT that found one project or several.
Select(i, t) ==
    /\ Answerable(i, "PROJECT_SELECTION")
    /\ t \in FreshTask
    /\ Close(i, "RESOLVED")
    /\ Enqueue(t, asks[i].turn)
    /\ turnStatus' = [turnStatus EXCEPT ![asks[i].turn] = "RUNNING"]
    /\ \E key \in {"selectedProject", "selectionCandidates"} :
          resume' = [resume EXCEPT ![asks[i].turn] = key]
    /\ UNCHANGED <<cancel, ended, pc, full, deleted>>

Decline(i) ==
    /\ \E kind \in {"PROJECT_SELECTION", "WRITE_CONFIRMATION"} : Answerable(i, kind)
    /\ Close(i, "CANCELLED")
    /\ turnStatus' = [turnStatus EXCEPT ![asks[i].turn] = "CANCELLED"]
    /\ UNCHANGED <<taskVars, cancel, ended, turnTask, resume, pc, full, deleted>>

Confirm(i) ==
    /\ Answerable(i, "WRITE_CONFIRMATION")
    /\ Close(i, "RESOLVED")
    /\ turnStatus' = [turnStatus EXCEPT ![asks[i].turn] = "COMPLETED"]
    /\ UNCHANGED <<taskVars, cancel, ended, turnTask, resume, pc, full, deleted>>

\* mutant: the status of the waiting turn is left as it was
AfterExpiry_Dangling(e) == turnStatus[e]

AfterExpiry(e) == IF turnStatus[e] = "WAITING" THEN "CANCELLED" ELSE turnStatus[e]

\* The user answers too late (_expire_open_interaction, a transaction of its own).
Expire(i) ==
    /\ asks[i].status = "OPEN"
    /\ MayAppend(turnTask[asks[i].turn])
    /\ Close(i, "EXPIRED")
    /\ turnStatus' = [turnStatus EXCEPT ![asks[i].turn] = AfterExpiry(asks[i].turn)]
    /\ UNCHANGED <<taskVars, cancel, ended, turnTask, resume, pc, full, deleted>>

Delete ==
    /\ ~deleted /\ taskTurn[1] # 0
    /\ \A e \in Turn : ~Live(e)
    /\ OpenAsks = {}
    /\ deleted' = TRUE
    /\ UNCHANGED <<taskVars, cancel, ended, turnVars, asks, pc, full>>

User ==
    \/ \E e \in Turn, t \in Task : Send(e, t)
    \/ Cancel
    \/ \E i \in Ask, t \in Task : Select(i, t)
    \/ \E i \in Ask : Decline(i) \/ Confirm(i) \/ Expire(i)
    \/ Delete

-----------------------------------------------------------------------------
(* The durable task around the handler.                                    *)

Claim(t) ==
    /\ taskStatus[t] = "QUEUED"
    /\ taskStatus' = [taskStatus EXCEPT ![t] = "RUNNING"]
    /\ attempt' = [attempt EXCEPT ![t] = @ + 1]
    /\ Go(t, attempt[t] + 1, "load")
    /\ UNCHANGED <<taskTurn, cancel, ended, turnVars, asks, full, deleted>>

\* reconcile finds the lease expired; the attempt that lost it may still be alive.
Recover(t) ==
    /\ taskStatus[t] = "RUNNING"
    /\ taskStatus' = [taskStatus EXCEPT
          ![t] = IF attempt[t] < MaxAttempts THEN "QUEUED" ELSE "FAILED"]
    /\ UNCHANGED <<attempt, taskTurn, cancel, ended, turnVars, asks, pc, full, deleted>>

\* reconcile finds the retry due.
Requeue(t) ==
    /\ taskStatus[t] = "RETRY_WAIT"
    /\ taskStatus' = [taskStatus EXCEPT ![t] = "QUEUED"]
    /\ UNCHANGED <<attempt, taskTurn, cancel, ended, turnVars, asks, pc, full, deleted>>

Crash(t, a) ==
    /\ pc[t][a] \notin {"none", "done"}
    /\ Go(t, a, "done")
    /\ UNCHANGED <<taskVars, cancel, ended, turnVars, asks, full, deleted>>

\* finish_task's status for a verdict of the handler.
Settled(t, verdict) ==
    CASE verdict = "success" -> "SUCCEEDED"
      [] verdict = "cancelled" -> "CANCELLED"
      [] verdict \in {"retry", "provider"} /\ attempt[t] < MaxAttempts -> "RETRY_WAIT"
      [] OTHER -> "FAILED"

\* finalize_task_failure runs in the transaction that fails the task.
Finalized(t) ==
    IF OwnTurn(t) /\ turnStatus[taskTurn[t]] \notin {"COMPLETED", "CANCELLED"}
    THEN [turnStatus EXCEPT ![taskTurn[t]] = "FAILED"]
    ELSE turnStatus

Finish(t, a) ==
    /\ pc[t][a] \in Verdict
    /\ Go(t, a, "done")
    /\ IF ~Holds(t, a)
       THEN UNCHANGED <<taskStatus, turnStatus, ended>>
       ELSE LET status == Settled(t, pc[t][a])
                final == status = "FAILED" /\ pc[t][a] \in {"provider", "rejected"}
            IN  /\ taskStatus' = [taskStatus EXCEPT ![t] = status]
                /\ turnStatus' = IF final THEN Finalized(t) ELSE turnStatus
                /\ ended' = IF final /\ OwnTurn(t) /\ ended[t] = "none"
                            THEN [ended EXCEPT ![t] = "ERROR"] ELSE ended
    /\ UNCHANGED <<attempt, taskTurn, cancel, turnTask, resume, asks, full, deleted>>

-----------------------------------------------------------------------------
(* The steps of the handler, one transaction each.                         *)

Load(t, a) ==
    /\ At(t, a, "load")
    /\ LET e == taskTurn[t]
       IN  \/ cancel[t] /\ Go(t, a, "mark")
           \/ /\ ~cancel[t]
              /\ ~Holds(t, a) \/ ~(OwnTurn(t) \/ Resumed(t)) \/ turnStatus[e] # "RUNNING"
              /\ Go(t, a, "fail")
           \/ /\ ~cancel[t] /\ Holds(t, a)
              /\ OwnTurn(t) \/ Resumed(t)
              /\ turnStatus[e] = "RUNNING"
              /\ Go(t, a, IF resume[e] = "selectionCandidates" THEN "selectNow" ELSE "core")
    /\ UNCHANGED <<taskVars, cancel, ended, turnVars, asks, full, deleted>>

\* No provider answered: the attempt ends with a retryable or a final failure.  The
\* other ends of the core (an answer, several projects, an error) change nothing
\* before the transaction they lead to, so those start at "core".
ProviderFails(t, a) ==
    /\ At(t, a, "core")
    /\ \E verdict \in {"provider", "rejected"} : Go(t, a, verdict)
    /\ UNCHANGED <<taskVars, cancel, ended, turnVars, asks, full, deleted>>

\* The heartbeat of _run_with_heartbeat, when it stops the core.
HeartbeatStops(t, a) ==
    /\ At(t, a, "core")
    /\ \/ cancel[t] /\ Go(t, a, "mark")
       \/ ~cancel[t] /\ ~Holds(t, a) /\ Go(t, a, "fail")
       \/ ~cancel[t] /\ Holds(t, a) /\ (full \/ ~MayAppend(t)) /\ Go(t, a, "error")
    /\ UNCHANGED <<taskVars, cancel, ended, turnVars, asks, full, deleted>>

\* The heartbeats' events use up the conversation's capacity.
FillEvents ==
    /\ ~full
    /\ \E t \in Task, a \in Attempt : At(t, a, "core") /\ Holds(t, a)
    /\ full' = TRUE
    /\ UNCHANGED <<taskVars, cancel, ended, turnVars, asks, pc, deleted>>

\* A question of the given kind is opened for turn e.
Open(e, kind) ==
    \E i \in FreshAsk : asks' = [asks EXCEPT ![i] = [turn |-> e, kind |-> kind, status |-> "OPEN"]]

\* propose, inside the core: no lease and no cancel flag are looked at.
Propose(t, a) ==
    /\ At(t, a, "core")
    /\ \/ /\ MayAppend(turnTask[taskTurn[t]])
          /\ Open(taskTurn[t], "WRITE_CONFIRMATION")
          /\ turnStatus' = [turnStatus EXCEPT ![taskTurn[t]] = "WAITING"]
          /\ Go(t, a, "proposed")
       \/ /\ ~MayAppend(turnTask[taskTurn[t]])
          /\ Go(t, a, "error") /\ UNCHANGED <<asks, turnStatus>>
    /\ UNCHANGED <<taskVars, cancel, ended, turnTask, resume, full, deleted>>

\* _abort_write_confirmation_if_cancelled: one open question of the turn is closed.
Abort(t, a) ==
    /\ At(t, a, "proposed")
    /\ IF ~cancel[t] \/ ~OwnTurn(t)
       THEN Go(t, a, "success") /\ UNCHANGED <<turnStatus, asks>>
       ELSE /\ Go(t, a, "cancelled")
            /\ turnStatus' = [turnStatus EXCEPT
                  ![taskTurn[t]] = IF @ = "COMPLETED" THEN @ ELSE "CANCELLED"]
            /\ LET open == {i \in OpenAsks : asks[i].turn = taskTurn[t]}
               IN  IF open = {} THEN UNCHANGED asks ELSE \E i \in open : Close(i, "CANCELLED")
    /\ UNCHANGED <<taskVars, cancel, ended, turnTask, resume, full, deleted>>

\* mutant: the completion does not lock the task and compare its token
CompleteFence_None(t, a) == TRUE

\* _assert_fence, as _complete uses it.
CompleteFence(t, a) == Holds(t, a)

\* mutant: the execution is not touched when the answer is written
CompletedTurn_Forgotten(e) == turnStatus

CompletedTurn(e) == [turnStatus EXCEPT ![e] = "COMPLETED"]

Complete(t, a) ==
    /\ At(t, a, "core")
    /\ LET ok == CompleteFence(t, a) /\ ~cancel[t] /\ ~full /\ MayAppend(t)
       IN  /\ Go(t, a, CASE ~CompleteFence(t, a) -> "fail"
                         [] CompleteFence(t, a) /\ cancel[t] -> "mark"
                         [] ok -> "success"
                         [] OTHER -> "error")
           /\ ended' = IF ok THEN [ended EXCEPT ![t] = "COMPLETED"] ELSE ended
           /\ turnStatus' = IF ok /\ OwnTurn(t) THEN CompletedTurn(taskTurn[t]) ELSE turnStatus
    /\ UNCHANGED <<taskVars, cancel, turnTask, resume, asks, full, deleted>>

ParkedTurn(e) == [turnStatus EXCEPT ![e] = "WAITING"]

\* _wait_for_project_selection: the execution's taskId is its only fence.
Wait(t, a) ==
    /\ pc[t][a] \in {"core", "selectNow"}
    /\ OwnTurn(t) /\ ~cancel[t] /\ ~full /\ MayAppend(t)
    /\ Open(taskTurn[t], "PROJECT_SELECTION")
    /\ turnStatus' = ParkedTurn(taskTurn[t])
    /\ Go(t, a, "success")
    /\ UNCHANGED <<taskVars, cancel, ended, turnTask, resume, full, deleted>>

\* Its exceptions.  From the handler of ProjectSelectionRequired they escape to the
\* dispatcher; from the try block (selectNow) the sibling handlers come first.
WaitFails(t, a) ==
    /\ pc[t][a] \in {"core", "selectNow"}
    /\ LET escape(place) == IF At(t, a, "core") THEN place ELSE "error"
       IN  \/ ~OwnTurn(t) /\ Go(t, a, "fail")
           \/ OwnTurn(t) /\ ~cancel[t] /\ full /\ Go(t, a, escape("fail"))
           \/ OwnTurn(t) /\ ~cancel[t] /\ ~full /\ ~MayAppend(t) /\ Go(t, a, escape("retry"))
    /\ UNCHANGED <<taskVars, cancel, ended, turnVars, asks, full, deleted>>

\* Its cancel fence.
WaitCancelled(t, a) ==
    /\ pc[t][a] \in {"core", "selectNow"}
    /\ OwnTurn(t) /\ cancel[t]
    /\ turnStatus' = [turnStatus EXCEPT ![taskTurn[t]] = IF @ = "COMPLETED" THEN @ ELSE "CANCELLED"]
    /\ Go(t, a, IF At(t, a, "core") THEN "cancelled" ELSE "mark")
    /\ UNCHANGED <<taskVars, cancel, ended, turnTask, resume, asks, full, deleted>>

\* _error: fenced, then FAILED and the ERROR event in one transaction.
WriteError(t, a) ==
    /\ pc[t][a] \in {"core", "error"}
    /\ IF Holds(t, a) /\ ~MayAppend(t)
       THEN Go(t, a, "retry") /\ UNCHANGED <<turnStatus, ended>>
       ELSE /\ Go(t, a, "fail")
            /\ turnStatus' = IF Holds(t, a) /\ OwnTurn(t)
                             THEN [turnStatus EXCEPT ![taskTurn[t]] = "FAILED"] ELSE turnStatus
            /\ ended' = IF Holds(t, a) THEN [ended EXCEPT ![t] = "ERROR"] ELSE ended
    /\ UNCHANGED <<taskVars, cancel, turnTask, resume, asks, full, deleted>>

\* _mark_execution_terminal: whatever the execution's status was.
Mark(t, a) ==
    /\ At(t, a, "mark")
    /\ Go(t, a, "cancelled")
    /\ turnStatus' = IF OwnTurn(t) \/ Resumed(t)
                     THEN [turnStatus EXCEPT ![taskTurn[t]] = "CANCELLED"] ELSE turnStatus
    /\ UNCHANGED <<taskVars, cancel, ended, turnTask, resume, asks, full, deleted>>

Handler(t, a) ==
    \/ Load(t, a) \/ ProviderFails(t, a) \/ HeartbeatStops(t, a) \/ Abort(t, a) \/ Complete(t, a)
    \/ Propose(t, a) \/ Wait(t, a) \/ WaitFails(t, a) \/ WaitCancelled(t, a)
    \/ WriteError(t, a) \/ Mark(t, a)

Next ==
    \/ User
    \/ \E t \in Task : Claim(t) \/ Recover(t) \/ Requeue(t)
    \/ \E t \in Task, a \in Attempt : Handler(t, a) \/ Finish(t, a) \/ Crash(t, a)
    \/ FillEvents

Spec == Init /\ [][Next]_vars

-----------------------------------------------------------------------------
\* A turn that waits for the user has an open question the user can answer or let
\* expire: no path (expiry, abandoned proposal, duplicate question) leaves a
\* conversation that refuses new messages and offers nothing to respond to.
WaitingHasOpenAsk ==
    \A e \in Turn : turnStatus[e] = "WAITING" => \E i \in OpenAsks : asks[i].turn = e

\* The stream and the execution agree: once a task's terminal event is there its turn
\* neither runs nor waits, and once the event is COMPLETED the turn did not fail.
StreamAgreesWithTurn ==
    \A e \in Turn :
        turnTask[e] # 0 /\ ended[turnTask[e]] # "none" =>
          turnStatus[e] \in {"COMPLETED", "CANCELLED"}
                \cup (IF ended[turnTask[e]] = "ERROR" THEN {"FAILED"} ELSE {})

\* A task that succeeded has moved its turn on: no page refresh finds a running turn
\* that nobody works on after a success.
SuccessSettlesTurn ==
    \A e \in Turn :
        turnStatus[e] = "RUNNING" => taskStatus[turnTask[e]] # "SUCCEEDED"

\* Once its answer is written, the newest attempt of the turn's task does not run the
\* model: neither a crash before finish_task nor a lost lease pays for a second answer.
AnsweredTaskIsNotRerun ==
    \A t \in Task, a \in Attempt :
        ended[t] = "COMPLETED" /\ OwnTurn(t) /\ a = attempt[t] => pc[t][a] # "core"
=============================================================================
