----------------------------- MODULE DurableTasks -----------------------------
(***************************************************************************)
(* The reliability module: durable_tasks and task_outbox rows in           *)
(* PostgreSQL, the Redis broker that carries <<task, generation>>          *)
(* messages, Celery workers that claim, run and finish attempts under a    *)
(* fenced lease, the outbox publisher and the reconciler.                  *)
(*                                                                         *)
(* Every action is one PostgreSQL transaction or one broker operation; a   *)
(* process may stop between any two of them.  Time is abstract: a lease is *)
(* live or expired, a retry is due or not.                                 *)
(***************************************************************************)
EXTENDS Naturals

CONSTANTS Task,         \* the (kind, idempotencyKey) pairs that may be enqueued
          Worker,       \* Celery pool processes: one message at a time each
          Publisher,    \* processes running outbox drain ticks
          NoTask,       \* the task of an idle worker
          Handled,      \* tasks whose kind has a registered handler
          MaxAttempts,  \* TaskDefinition.max_attempts
          BrokerMayLose \* whether Redis may lose its queue

ASSUME ConstantsAssumption ==
    /\ MaxAttempts \in Nat \ {0}
    /\ NoTask \notin Task
    /\ Handled \subseteq Task
    /\ BrokerMayLose \in BOOLEAN

VARIABLES
    status,     \* status[t]: DurableTask.status, or "ABSENT"
    attempt,    \* attempt[t]: DurableTask.attemptCount
    gen,        \* gen[t]: DurableTask.dispatchGeneration
    token,      \* token[t]: DurableTask.leaseToken, 0 for NULL
    expired,    \* expired[t]: leaseExpiresAt <= now, for a RUNNING task
    due,        \* due[t]: nextRetryAt <= now, for a RETRY_WAIT task
    minted,     \* minted[t]: number of lease tokens drawn for t (uuid4 never repeats)
    outbox,     \* the <<task, generation>> rows of task_outbox
    published,  \* the rows whose publishedAt is committed
    broker,     \* the messages Redis still holds, delivered or not
    worker,     \* worker[w]: what the worker process holds in memory
    batch,      \* batch[p]: rows read by the publisher's open transaction
    sent        \* sent[p]: rows of batch[p] handed to the broker

rowVars   == <<status, attempt, gen, token, expired, due, minted>>
drainVars == <<batch, sent>>
vars == <<status, attempt, gen, token, expired, due, minted,
          outbox, published, broker, worker, batch, sent>>

-----------------------------------------------------------------------------
Final  == {"SUCCEEDED", "FAILED", "CANCELLED"}
Status == {"ABSENT", "QUEUED", "RUNNING", "RETRY_WAIT"} \cup Final

\* What a handler may end with: normally, by DurableTaskCancelled, by an
\* exception that asks for a retry, by a DurableTaskFailure that does not.
Outcome == {"success", "cancelled", "retryable", "permanent"}

Row  == Task \X Nat
Idle == [phase |-> "idle", task |-> NoTask, gen |-> 0, token |-> 0, verdict |-> "ABSENT"]

WorkerState == [phase : {"idle", "running", "deciding"}, task : Task \cup {NoTask},
                gen : Nat, token : Nat, verdict : Status]

TypeOK ==
    /\ status  \in [Task -> Status]
    /\ attempt \in [Task -> 0..MaxAttempts]
    /\ gen     \in [Task -> Nat]
    /\ token   \in [Task -> Nat]
    /\ expired \in [Task -> BOOLEAN]
    /\ due     \in [Task -> BOOLEAN]
    /\ minted  \in [Task -> Nat]
    /\ outbox \subseteq Row
    /\ published \subseteq outbox
    /\ broker \subseteq outbox
    /\ worker \in [Worker -> WorkerState]
    /\ batch \in [Publisher -> SUBSET outbox]
    /\ sent \in [Publisher -> SUBSET outbox]

Init ==
    /\ status  = [t \in Task |-> "ABSENT"]
    /\ attempt = [t \in Task |-> 0]
    /\ gen     = [t \in Task |-> 0]
    /\ token   = [t \in Task |-> 0]
    /\ expired = [t \in Task |-> FALSE]
    /\ due     = [t \in Task |-> FALSE]
    /\ minted  = [t \in Task |-> 0]
    /\ outbox = {} /\ published = {} /\ broker = {}
    /\ worker = [w \in Worker |-> Idle]
    /\ batch = [p \in Publisher |-> {}]
    /\ sent = [p \in Publisher |-> {}]

-----------------------------------------------------------------------------
(* Callers of the module: domain services inside their own transaction.    *)

\* create_task: insert the row, or return the one the unique
\* (kind, idempotencyKey) index already holds.
CreateTask(t) ==
    /\ status[t] = "ABSENT"
    /\ status' = [status EXCEPT ![t] = "QUEUED"]
    /\ UNCHANGED <<attempt, gen, token, expired, due, minted,
                   outbox, published, broker, worker, batch, sent>>

NeedsFirstDispatch(t) == gen[t] = 0

\* enqueue_task: the task and its first outbox row commit together.
EnqueueTask(t) ==
    /\ NeedsFirstDispatch(t)
    /\ status' = [status EXCEPT ![t] = IF @ = "ABSENT" THEN "QUEUED" ELSE @]
    /\ gen' = [gen EXCEPT ![t] = 1]
    /\ outbox' = outbox \cup {<<t, 1>>}
    /\ UNCHANGED <<attempt, token, expired, due, minted,
                   published, broker, worker, batch, sent>>

-----------------------------------------------------------------------------
(* publish_outbox inside the scheduler's transaction: read the unpublished  *)
(* rows without locking them, send each, and only then commit publishedAt.  *)

DrainBegin(p) ==
    /\ batch[p] = {}
    /\ outbox \ published # {}
    /\ batch' = [batch EXCEPT ![p] = outbox \ published]
    /\ UNCHANGED <<rowVars, outbox, published, broker, worker, sent>>

DrainSend(p, m) ==
    /\ m \in batch[p] \ sent[p]
    /\ broker' = broker \cup {m}
    /\ sent' = [sent EXCEPT ![p] = @ \cup {m}]
    /\ UNCHANGED <<rowVars, outbox, published, worker, batch>>

\* mutant: publishedAt is committed before the broker has accepted the rows
AllAccepted_NotAwaited(p) == TRUE

\* Whether the drain transaction may mark its rows published.
AllAccepted(p) == sent[p] = batch[p]

DrainCommit(p) ==
    /\ batch[p] # {}
    /\ AllAccepted(p)
    /\ published' = published \cup batch[p]
    /\ batch' = [batch EXCEPT ![p] = {}]
    /\ sent' = [sent EXCEPT ![p] = {}]
    /\ UNCHANGED <<rowVars, outbox, broker, worker>>

\* send_task raised, or the process died: the transaction rolls back and every
\* row of the batch, those already sent included, stays unpublished.
DrainAbort(p) ==
    /\ batch[p] # {}
    /\ batch' = [batch EXCEPT ![p] = {}]
    /\ sent' = [sent EXCEPT ![p] = {}]
    /\ UNCHANGED <<rowVars, outbox, published, broker, worker>>

-----------------------------------------------------------------------------
(* The broker.  A message stays until a worker acknowledges it (acks_late), *)
(* so it may be delivered again meanwhile; a message published twice leaves *)
(* its second copy behind an acknowledgement.                              *)

Acknowledge(m) == broker' \in {broker, broker \ {m}}

LoseBroker ==
    /\ BrokerMayLose
    /\ broker # {}
    /\ broker' = {}
    /\ UNCHANGED <<rowVars, outbox, published, worker, drainVars>>

-----------------------------------------------------------------------------
(* execute_message in a worker process.                                    *)

\* claim_task draws a random lease token: never one drawn before.
FreshToken(t) == minted[t] + 1

\* mutants: claim without the status predicate, claim without the generation
Claimable_AnyStatus(t, g) == gen[t] = g

\* The WHERE clause of claim_task.
Claimable(t, g) == status[t] = "QUEUED" /\ gen[t] = g

ClaimTask(w, t, g) ==
    /\ worker[w].phase = "idle"
    /\ <<t, g>> \in broker
    /\ Claimable(t, g)
    /\ t \in Handled
    /\ status' = [status EXCEPT ![t] = "RUNNING"]
    /\ attempt' = [attempt EXCEPT ![t] = @ + 1]
    /\ minted' = [minted EXCEPT ![t] = @ + 1]
    /\ token' = [token EXCEPT ![t] = FreshToken(t)]
    /\ expired' = [expired EXCEPT ![t] = FALSE]
    /\ worker' = [worker EXCEPT ![w] =
                    [phase |-> "running", task |-> t, gen |-> g,
                     token |-> FreshToken(t), verdict |-> "ABSENT"]]
    /\ UNCHANGED <<gen, due, outbox, published, broker, drainVars>>

\* No handler is registered for the kind: claim and fail in one transaction.
ClaimUnhandled(w, t, g) ==
    /\ worker[w].phase = "idle"
    /\ <<t, g>> \in broker
    /\ Claimable(t, g)
    /\ t \notin Handled
    /\ status' = [status EXCEPT ![t] = "FAILED"]
    /\ attempt' = [attempt EXCEPT ![t] = @ + 1]
    /\ minted' = [minted EXCEPT ![t] = @ + 1]
    /\ Acknowledge(<<t, g>>)
    /\ UNCHANGED <<gen, token, expired, due, outbox, published, worker, drainVars>>

\* The claim touched no row: a duplicate or an outdated generation.
DiscardMessage(w, t, g) ==
    /\ worker[w].phase = "idle"
    /\ <<t, g>> \in broker
    /\ ~Claimable(t, g)
    /\ broker' = broker \ {<<t, g>>}
    /\ UNCHANGED <<rowVars, outbox, published, worker, drainVars>>

\* mutant: the update forgets the lease token
HoldsLease_NoToken(t, k) == status[t] = "RUNNING"

\* The fencing predicate of heartbeat and finish_task.
HoldsLease(t, k) == status[t] = "RUNNING" /\ token[t] = k

Heartbeat(w) ==
    /\ worker[w].phase = "running"
    /\ HoldsLease(worker[w].task, worker[w].token)
    /\ expired' = [expired EXCEPT ![worker[w].task] = FALSE]
    /\ UNCHANGED <<status, attempt, gen, token, due, minted,
                   outbox, published, broker, worker, drainVars>>

\* mutant: a retryable failure is retried whatever the budget
Verdict_NoBudget(t, o) ==
    CASE o = "success"   -> "SUCCEEDED"
      [] o = "cancelled" -> "CANCELLED"
      [] o = "retryable" -> "RETRY_WAIT"
      [] o = "permanent" -> "FAILED"

\* The status finish_task will write, from the row it has just selected.
Verdict(t, o) ==
    CASE o = "success"   -> "SUCCEEDED"
      [] o = "cancelled" -> "CANCELLED"
      [] o = "retryable" -> IF attempt[t] < MaxAttempts THEN "RETRY_WAIT" ELSE "FAILED"
      [] o = "permanent" -> "FAILED"

\* finish_task up to its UPDATE: the handler ended with o, the row was selected
\* without a lock and still carries this attempt's token.
FinishSelect(w, o) ==
    /\ worker[w].phase = "running"
    /\ HoldsLease(worker[w].task, worker[w].token)
    /\ worker' = [worker EXCEPT ![w].phase = "deciding",
                                ![w].verdict = Verdict(worker[w].task, o)]
    /\ UNCHANGED <<rowVars, outbox, published, broker, drainVars>>

\* The conditional UPDATE of finish_task and the commit.
FinishUpdate(w) ==
    LET t == worker[w].task IN
    /\ worker[w].phase = "deciding"
    /\ HoldsLease(t, worker[w].token)
    /\ status' = [status EXCEPT ![t] = worker[w].verdict]
    /\ token' = [token EXCEPT ![t] = 0]
    /\ expired' = [expired EXCEPT ![t] = FALSE]
    /\ worker' = [worker EXCEPT ![w] = Idle]
    /\ Acknowledge(<<t, worker[w].gen>>)
    /\ UNCHANGED <<attempt, gen, due, minted, outbox, published, drainVars>>

\* finish_task raised TaskConflict at its SELECT or at its UPDATE.
FinishConflict(w) ==
    /\ worker[w].phase # "idle"
    /\ ~HoldsLease(worker[w].task, worker[w].token)
    /\ worker' = [worker EXCEPT ![w] = Idle]
    /\ Acknowledge(<<worker[w].task, worker[w].gen>>)
    /\ UNCHANGED <<rowVars, outbox, published, drainVars>>

\* The process dies, or Celery's time limit kills it; its message is unacknowledged.
WorkerCrash(w) ==
    /\ worker[w].phase # "idle"
    /\ worker' = [worker EXCEPT ![w] = Idle]
    /\ UNCHANGED <<rowVars, outbox, published, broker, drainVars>>

-----------------------------------------------------------------------------
(* Time and reconcile.                                                     *)

LeaseExpires(t) ==
    /\ status[t] = "RUNNING" /\ ~expired[t]
    /\ expired' = [expired EXCEPT ![t] = TRUE]
    /\ UNCHANGED <<status, attempt, gen, token, due, minted,
                   outbox, published, broker, worker, drainVars>>

RetryFallsDue(t) ==
    /\ status[t] = "RETRY_WAIT" /\ ~due[t]
    /\ due' = [due EXCEPT ![t] = TRUE]
    /\ UNCHANGED <<status, attempt, gen, token, expired, minted,
                   outbox, published, broker, worker, drainVars>>

\* mutant: reconcile overlooks expired leases
Recoverable_NoExpiry(t) ==
    \/ status[t] = "RETRY_WAIT" /\ due[t]
    \/ status[t] = "QUEUED" /\ gen[t] = 0

\* The WHERE clause of reconcile's query.
Recoverable(t) ==
    \/ status[t] = "RETRY_WAIT" /\ due[t]
    \/ status[t] = "RUNNING" /\ expired[t]
    \/ status[t] = "QUEUED" /\ gen[t] = 0

\* Rows reconcile dispatches: lost ones at generation 0, and due retries.
Redispatched(S) == {t \in S : status[t] # "RUNNING"}

\* mutant: off by one in the attempt budget
Retriable_OffByOne(t) == attempt[t] <= MaxAttempts

\* Expired attempts that may be retried.
Retriable(t) == attempt[t] < MaxAttempts

RecoveredStatus(t) ==
    IF status[t] # "RUNNING" THEN "QUEUED"
    ELSE IF Retriable(t) THEN "RETRY_WAIT" ELSE "FAILED"

\* One pass over any rows it could lock (SKIP LOCKED, no ORDER BY, a limit).
Reconcile(S) ==
    /\ S # {}
    /\ \A t \in S : Recoverable(t)
    /\ status' = [t \in Task |-> IF t \in S THEN RecoveredStatus(t) ELSE status[t]]
    /\ gen' = [t \in Task |-> IF t \in Redispatched(S) THEN gen[t] + 1 ELSE gen[t]]
    /\ outbox' = outbox \cup {<<t, gen[t] + 1>> : t \in Redispatched(S)}
    /\ token' = [t \in Task |-> IF t \in S THEN 0 ELSE token[t]]
    /\ expired' = [t \in Task |-> IF t \in S THEN FALSE ELSE expired[t]]
    /\ due' = [t \in Task |-> IF t \in S THEN status[t] = "RUNNING" /\ Retriable(t) ELSE due[t]]
    /\ UNCHANGED <<attempt, minted, published, broker, worker, drainVars>>

-----------------------------------------------------------------------------
Next ==
    \/ \E t \in Task : CreateTask(t) \/ EnqueueTask(t) \/ LeaseExpires(t) \/ RetryFallsDue(t)
    \/ \E p \in Publisher :
          \/ DrainBegin(p) \/ DrainCommit(p) \/ DrainAbort(p)
          \/ \E m \in outbox : DrainSend(p, m)
    \/ LoseBroker
    \/ \E w \in Worker :
          \/ \E m \in broker : \/ ClaimTask(w, m[1], m[2])
                               \/ ClaimUnhandled(w, m[1], m[2])
                               \/ DiscardMessage(w, m[1], m[2])
          \/ Heartbeat(w) \/ FinishUpdate(w) \/ FinishConflict(w) \/ WorkerCrash(w)
          \/ \E o \in Outcome : FinishSelect(w, o)
    \/ \E S \in SUBSET Task : Reconcile(S)

Spec == Init /\ [][Next]_vars

-----------------------------------------------------------------------------
(* Safety.                                                                 *)

\* The check constraints of durable_tasks and the unique index of task_outbox
\* never reject a statement of this module: the attempt budget is spent exactly
\* when no further claim can come, and each generation has its one outbox row.
SchemaNeverRejects ==
    \A t \in Task :
        /\ status[t] \in {"QUEUED", "RETRY_WAIT"} => attempt[t] < MaxAttempts
        /\ status[t] = "RUNNING" <=> token[t] # 0
        /\ {m[2] : m \in {r \in outbox : r[1] = t}} = 1..gen[t]

\* A dispatch generation starts at most one attempt, however often its message
\* is duplicated, redelivered or published again.
OneAttemptPerGeneration ==
    \A t \in Task :
        attempt[t] = IF status[t] = "QUEUED" /\ gen[t] > 0 THEN gen[t] - 1 ELSE gen[t]

\* Two worker processes never both hold the live lease of a task, although two
\* may be running its handler at once.
LeaseExclusive ==
    \A v, w \in Worker :
        /\ worker[v].phase # "idle" /\ worker[w].phase # "idle"
        /\ worker[v].task = worker[w].task /\ worker[v].token = worker[w].token
        => v = w

\* The attempt that holds the lease was started by the message of the current
\* generation and is the last one counted.
LeaseIsLatestDispatch ==
    \A w \in Worker :
        LET t == worker[w].task IN
        worker[w].phase # "idle" /\ status[t] = "RUNNING" /\ token[t] = worker[w].token
        => worker[w].gen = gen[t] /\ attempt[t] = gen[t]

\* Without a broker loss, a dispatched QUEUED task always has its message on the
\* way: its row is still to be published or its message is still in the queue.
NoDispatchLost ==
    ~BrokerMayLose =>
        \A t \in Task :
            status[t] = "QUEUED" /\ gen[t] > 0 => <<t, gen[t]>> \in (outbox \ published) \cup broker

\* fencing: a RUNNING task is completed only by the process whose token it
\* carries; everything else that ends an attempt is the reconciler, and only
\* once the lease has expired.
OnlyHolderCompletes ==
    [][\A t \in Task :
          status[t] = "RUNNING" /\ status'[t] # "RUNNING" =>
             \/ \E w \in Worker : /\ worker[w].phase = "deciding"
                                  /\ worker[w].task = t /\ worker[w].token = token[t]
                                  /\ worker'[w].phase = "idle"
                                  /\ status'[t] = worker[w].verdict
             \/ expired[t] /\ status'[t] \in {"RETRY_WAIT", "FAILED"}]_vars

\* The task rows, with everything else hidden, move as ADR 0018 says they may.
Lifecycle == INSTANCE TaskLifecycle WITH status <- status, attempt <- attempt
RefinesLifecycle == Lifecycle!Spec
=============================================================================
