----------------------------- MODULE DrivenTasks -----------------------------
(***************************************************************************)
(* The scheduler driving the durable tasks.  DurableTasks lets a drain or a *)
(* reconcile pass happen at any time; here they happen only inside a tick   *)
(* of a scheduler process, which may be stopped, lose its lock or die half  *)
(* way through.                                                            *)
(***************************************************************************)
EXTENDS Scheduler

CONSTANTS Task, Worker, NoTask, Handled, MaxAttempts, BrokerMayLose  \* of DurableTasks

ASSUME DrivenAssumption ==
    /\ MaxAttempts \in Nat \ {0} /\ BrokerMayLose \in BOOLEAN
    /\ NoTask \notin Task /\ Handled \subseteq Task

VARIABLES status, attempt, gen, token, expired, retryDue, minted,
          outbox, published, broker, worker, batch, sent

T == INSTANCE DurableTasks WITH Publisher <- Proc, due <- retryDue

taskVars == <<status, attempt, gen, token, expired, retryDue, minted,
              outbox, published, broker, worker, batch, sent>>
allVars == <<vars, taskVars>>

DrivenInit == Init /\ T!Init

-----------------------------------------------------------------------------
Runs(p, a) == NextAction(p, a) /\ a \in due[p]
Succeeds(p, a) == RunAction(p, a) /\ due' # due
Fails(p, a) == RunAction(p, a) /\ due' = due

\* dispatch_pending reads the unpublished rows and hands them over one by one ...
DrainGoesOn(p) ==
    /\ Runs(p, "outbox_drain")
    /\ T!DrainBegin(p) \/ \E m \in batch[p] : T!DrainSend(p, m)
    /\ UNCHANGED vars

\* ... and commits; or raises, and the loop takes the next action.
DrainSucceeds(p) ==
    /\ Succeeds(p, "outbox_drain")
    /\ T!DrainCommit(p) \/ (outbox = published /\ batch[p] = {} /\ UNCHANGED taskVars)

\* mutant: the transaction is committed whatever the drain raised
Undone_Committed(p) ==
    /\ published' = published \cup batch[p]
    /\ batch' = [batch EXCEPT ![p] = {}] /\ sent' = [sent EXCEPT ![p] = {}]
    /\ UNCHANGED <<status, attempt, gen, token, expired, retryDue, minted, outbox, broker, worker>>

\* The transaction of a drain that raised, or whose process died, is rolled back.
Undone(p) == T!DrainAbort(p) \/ (batch[p] = {} /\ UNCHANGED taskVars)

DrainFails(p) == Fails(p, "outbox_drain") /\ Undone(p)

\* A pass takes what it can lock, be it nothing.
ReconcileSucceeds(p, S) ==
    /\ Succeeds(p, "reconcile")
    /\ T!Reconcile(S) \/ (S = {} /\ UNCHANGED taskVars)

ReconcileFails(p) == Fails(p, "reconcile") /\ UNCHANGED taskVars

\* What the loop does apart from running an action.
LoopAlone(p) ==
    /\ Loop(p) /\ ~\E a \in Action : Runs(p, a)
    /\ UNCHANGED taskVars

Drives(p) ==
    \/ LoopAlone(p) \/ DrainGoesOn(p) \/ DrainSucceeds(p) \/ DrainFails(p)
    \/ \E S \in SUBSET Task : ReconcileSucceeds(p, S)
    \/ ReconcileFails(p)

Disturbs(p) ==
    \/ (Signal(p) \/ LoseSession(p) \/ TickAges(p)) /\ UNCHANGED taskVars
    \/ \E a \in Action : FallsDue(p, a) /\ UNCHANGED taskVars
    \/ Crash(p) /\ Undone(p)

Serves(w) ==
    \/ \E m \in broker : T!ClaimTask(w, m[1], m[2]) \/ T!ClaimUnhandled(w, m[1], m[2]) \/ T!DiscardMessage(w, m[1], m[2])
    \/ T!Heartbeat(w) \/ T!FinishUpdate(w) \/ T!FinishConflict(w) \/ T!WorkerCrash(w)
    \/ \E o \in T!Outcome : T!FinishSelect(w, o)

TaskStep ==
    /\ \/ \E t \in Task : T!CreateTask(t) \/ T!EnqueueTask(t) \/ T!LeaseExpires(t) \/ T!RetryFallsDue(t)
       \/ T!LoseBroker
       \/ \E w \in Worker : Serves(w)
    /\ UNCHANGED vars

DrivenNext ==
    \/ \E p \in Proc : Drives(p) \/ Disturbs(p)
    \/ ReapSession /\ UNCHANGED taskVars
    \/ TaskStep

DrivenSpec == DrivenInit /\ [][DrivenNext]_allVars

-----------------------------------------------------------------------------
(* Fairness: that of the scheduler's loop, by which alone drains and passes  *)
(* happen; clocks move; a Celery queue serves each message it keeps holding *)
(* while workers come free again and again; a worker that is not killed     *)
(* ends its handler (the 900 s time limit).  Outages end, after which an    *)
(* action raises no more and a pass locks what it finds.  Nothing obliges a *)
(* caller to enqueue, a worker to crash or to heartbeat.                    *)

LoopDoes(A) == A /\ UNCHANGED taskVars
TaskDoes(A) == A /\ UNCHANGED vars

LoopFairness ==
    /\ \A p \in Proc : WF_allVars(Drives(p))
                       /\ SF_allVars(LoopDoes(Acquire(p))) /\ SF_allVars(LoopDoes(BeginTick(p)))
    /\ \A p \in Proc, a \in Action : SF_allVars(LoopDoes(FallsDue(p, a)))
    /\ WF_allVars(LoopDoes(ReapSession))

TaskFairness ==
    /\ \A t \in Task : WF_allVars(TaskDoes(T!LeaseExpires(t))) /\ WF_allVars(TaskDoes(T!RetryFallsDue(t)))
    /\ \A w \in Worker : /\ WF_allVars(TaskDoes(\E o \in T!Outcome : T!FinishSelect(w, o)))
                         /\ WF_allVars(TaskDoes(T!FinishUpdate(w))) /\ WF_allVars(TaskDoes(T!FinishConflict(w)))
    /\ \A t \in Task : SF_allVars(TaskDoes(\E w \in Worker, g \in 1..MaxAttempts :
                                               T!ClaimTask(w, t, g) \/ T!ClaimUnhandled(w, t, g)))

Recoverable == {t \in Task : T!Recoverable(t)}
OutagesEnd ==
    <>[][\A p \in Proc : /\ ~Signal(p) /\ ~LoseSession(p) /\ (Crash(p) => phase[p] \notin Active)
                         /\ ~DrainFails(p) /\ ~ReconcileFails(p)
                         /\ \A S \in SUBSET Task : ReconcileSucceeds(p, S) => S = Recoverable]_allVars

DrivenFairSpec == DrivenSpec /\ LoopFairness /\ TaskFairness /\ OutagesEnd

-----------------------------------------------------------------------------
\* What the scheduler does to the tasks is what DurableTasks says a publisher and
\* a reconciler may do, however its ticks are cut short.
DrivesTasks == T!Spec

\* A task that was enqueued ends, although each drain and each pass needs a live
\* scheduler: restarts, lost locks and failed actions only delay it.
EveryTaskEnds == \A t \in Task : status[t] # "ABSENT" ~> status[t] \in T!Final

\* A dispatch the broker accepted is on its way, however the drain's tick ended.
NoDispatchLost == T!NoDispatchLost
=============================================================================
