---------------------------- MODULE TaskLifecycle ----------------------------
(***************************************************************************)
(* What the reliability module promises of one durable task, as ADR 0018   *)
(* states it and the DurableTaskStatus type and its check constraints      *)
(* encode it: six states, the legal transitions between them, a bounded    *)
(* number of attempts, and terminal states that are never left.  Nothing   *)
(* is said of leases, generations, outbox rows or messages: DurableTasks   *)
(* is shown to implement this with all of them hidden.                     *)
(***************************************************************************)
EXTENDS Naturals

CONSTANTS Task,         \* the (kind, idempotencyKey) pairs that may be enqueued
          MaxAttempts   \* TaskDefinition.max_attempts, a positive number

VARIABLES status,       \* status[t]: "ABSENT" until the row is inserted
          attempt       \* attempt[t]: durable_tasks.attemptCount

vars == <<status, attempt>>

Final == {"SUCCEEDED", "FAILED", "CANCELLED"}

Status == {"ABSENT", "QUEUED", "RUNNING", "RETRY_WAIT"} \cup Final

Init == /\ status = [t \in Task |-> "ABSENT"]
        /\ attempt = [t \in Task |-> 0]

\* The legal moves of ADR 0018, plus the insertion of the row and the one-step
\* failure of a claimed task whose kind has no handler.
Legal == {<<"ABSENT", "QUEUED">>,
          <<"QUEUED", "RUNNING">>, <<"QUEUED", "FAILED">>,
          <<"RUNNING", "SUCCEEDED">>, <<"RUNNING", "RETRY_WAIT">>,
          <<"RUNNING", "FAILED">>, <<"RUNNING", "CANCELLED">>,
          <<"RETRY_WAIT", "QUEUED">>}

\* A move out of QUEUED is a claim: it takes one attempt of a bounded budget.
Step(t, old, new, before, after) ==
    \/ new = old /\ after = before
    \/ /\ <<old, new>> \in Legal
       /\ after = IF old = "QUEUED" THEN before + 1 ELSE before
       /\ after <= MaxAttempts
       /\ new \in {"QUEUED", "RETRY_WAIT"} => after < MaxAttempts

Next == /\ status' \in [Task -> Status]
        /\ attempt' \in [Task -> Nat]
        /\ \A t \in Task : Step(t, status[t], status'[t], attempt[t], attempt'[t])

Spec == Init /\ [][Next]_vars
=============================================================================
