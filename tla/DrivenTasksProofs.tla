-------------------------- MODULE DrivenTasksProofs --------------------------
(***************************************************************************)
(* The scheduler, and the durable tasks it drives.                          *)
(*                                                                         *)
(* Alone: only the holder of the advisory lock begins a tick, for any       *)
(* number of scheduler processes and any list of driven functions.  The     *)
(* argument is LockFollowsSession: a process in its loop whose lock         *)
(* connection still works holds the lock.  It is inductive once the ranges  *)
(* of the variables it speaks of are known, because the lock is granted     *)
(* only when it is free, and is freed only by the session that holds it or  *)
(* by the end of that session.                                              *)
(*                                                                         *)
(* Together: what the loop of Scheduler does to the tasks are steps of      *)
(* DurableTasks, for any number of scheduler processes, tasks and workers,  *)
(* so that what is proved of DurableTasks with its drains and passes at any *)
(* time holds of those the loop makes.                                      *)
(***************************************************************************)
EXTENDS DrivenTasks, TLAPS

-----------------------------------------------------------------------------
(* The scheduler alone.                                                     *)

LockInv == /\ phase \in [Proc -> Phase]
           /\ connected \in [Proc -> BOOLEAN]
           /\ LockFollowsSession

USE SchedulerAssumption

LEMMA InitLockInv == Init => LockInv
  BY DEF Init, LockInv, Phase, Active, LockFollowsSession

\* A step that moves neither the lock nor a connection, and brings no process from
\* outside its loop into it.
LEMMA QuietStep ==
  ASSUME LockInv, NEW p \in Proc, NEW place \in Phase,
         phase' = [phase EXCEPT ![p] = place],
         place \in Active \cup {"stopping"} => phase[p] \in Active \cup {"stopping"},
         UNCHANGED <<holder, connected>>
  PROVE  LockInv'
BY DEF LockInv, LockFollowsSession

\* Starting, and giving up while starting: the process is outside its loop.
LEMMA StartingStep ==
  ASSUME LockInv, NEW p \in Proc, Start(p) \/ Rejected(p)
  PROVE  LockInv'
BY DEF LockInv, LockFollowsSession, Start, Rejected, Phase, Active

\* pg_try_advisory_lock: nobody else is in its loop with a live connection.
LEMMA AcquireStep ==
  ASSUME LockInv, NEW p \in Proc, Acquire(p)
  PROVE  LockInv'
<1>1. phase' \in [Proc -> Phase] /\ connected' \in [Proc -> BOOLEAN]
  BY DEF LockInv, Acquire, Phase
<1>2. LockFollowsSession'
  <2> SUFFICES ASSUME NEW q \in Proc, phase'[q] \in Active \cup {"stopping"}, connected'[q]
               PROVE  holder' = q
    BY DEF LockFollowsSession
  <2>1. CASE q = p
    BY <2>1 DEF Acquire
  <2>2. CASE q # p
    BY <2>2 DEF LockInv, LockFollowsSession, Acquire, LockFree
  <2>3. QED
    BY <2>1, <2>2
<1>3. QED
  BY <1>1, <1>2 DEF LockInv

\* The steps of the loop between taking the lock and letting it go.
LEMMA LockLoopStep ==
  ASSUME LockInv, NEW p \in Proc,
         \/ BeginTick(p) \/ LeaveLoop(p) \/ EndTick(p)
         \/ \E a \in Action : RunAction(p, a) \/ SkipAction(p, a)
  PROVE  LockInv'
<1>1. CASE BeginTick(p)
  BY <1>1, QuietStep DEF BeginTick, Phase, Active
<1>2. CASE LeaveLoop(p)
  BY <1>2, QuietStep DEF LeaveLoop, Phase, Active
<1>3. CASE EndTick(p)
  BY <1>3, QuietStep DEF EndTick, Phase, Active
<1>4. CASE \E a \in Action : RunAction(p, a) \/ SkipAction(p, a)
  BY <1>4 DEF RunAction, SkipAction, LockInv, LockFollowsSession
<1>5. QED
  BY <1>1, <1>2, <1>3, <1>4

\* The process or its session ends, by itself, by the database or by force: the lock
\* changes hands only if it was this session's.
LEMMA SessionEndsStep ==
  ASSUME LockInv, NEW p \in Proc, Exit(p) \/ LoseSession(p) \/ Crash(p)
  PROVE  LockInv'
<1>1. phase' \in [Proc -> Phase] /\ connected' \in [Proc -> BOOLEAN]
  BY DEF LockInv, Exit, LoseSession, Crash, Phase
<1>2. ASSUME NEW q \in Proc, phase'[q] \in Active \cup {"stopping"}, connected'[q]
      PROVE  q # p /\ phase[q] \in Active \cup {"stopping"} /\ connected[q]
  BY <1>2 DEF LockInv, Exit, LoseSession, Crash, Phase
<1>3. holder # p => holder' = holder
  BY DEF Exit, Released, LoseSession, Crash
<1>4. LockFollowsSession'
  BY <1>2, <1>3 DEF LockInv, LockFollowsSession
<1>5. QED
  BY <1>1, <1>4 DEF LockInv

LEMMA NextLockInv == ASSUME LockInv, [Next]_vars PROVE LockInv'
<1>1. CASE UNCHANGED vars
  BY <1>1 DEF vars, LockInv, LockFollowsSession
<1>2. ASSUME NEW p \in Proc, Loop(p) PROVE LockInv'
  BY <1>2, StartingStep, AcquireStep, LockLoopStep, SessionEndsStep DEF Loop
<1>3. ASSUME NEW p \in Proc, LoseSession(p) \/ Crash(p) PROVE LockInv'
  BY <1>3, SessionEndsStep
<1>4. ASSUME NEW p \in Proc, Signal(p) \/ TickAges(p) \/ \E a \in Action : FallsDue(p, a)
      PROVE  LockInv'
  BY <1>4 DEF Signal, TickAges, FallsDue, LockInv, LockFollowsSession
<1>5. CASE ReapSession
  BY <1>5 DEF ReapSession, LockInv, LockFollowsSession
<1>6. QED
  BY <1>1, <1>2, <1>3, <1>4, <1>5 DEF Next

LEMMA LockInductive == Spec => []LockInv
<1>1. LockInv /\ [Next]_vars => LockInv'
  BY NextLockInv
<1>2. QED
  BY InitLockInv, <1>1, PTL DEF Spec

-----------------------------------------------------------------------------
\* A process in its loop whose lock connection works holds the advisory lock:
\* nobody else's exit, crash or start takes it away (release_advisory_lock).
THEOREM LockIsKept == Spec => []LockFollowsSession
<1>1. LockInv => LockFollowsSession
  BY DEF LockInv
<1>2. QED
  BY LockInductive, <1>1, PTL

\* Of two processes in their loops at once, one has lost its session
\* (acquire_advisory_lock): overlapping restarts make no two live schedulers.
THEOREM NoTwoSchedulers == Spec => []OverlapNeedsLostSession
<1>1. LockInv => OverlapNeedsLostSession
  BY DEF LockInv, LockFollowsSession, OverlapNeedsLostSession
<1>2. QED
  BY LockInductive, <1>1, PTL

\* Every tick begins with the lock in the hands of the process that begins it
\* (lock_ping in tick).
THEOREM TicksNeedTheLock == Spec => TicksBegunByHolder
<1>1. ASSUME LockInv, [Next]_vars, NEW p \in Proc, phase[p] = "sleeping", phase'[p] = "tick"
      PROVE  holder = p
  <2>1. BeginTick(p)
    BY <1>1 DEF LockInv, vars, Next, Loop, Start, Acquire, Rejected, BeginTick, LeaveLoop, EndTick,
                Exit, RunAction, SkipAction, Signal, LoseSession, Crash, ReapSession, FallsDue,
                TickAges, NextAction
  <2>2. QED
    BY <1>1, <2>1 DEF LockInv, LockFollowsSession, BeginTick, PingAnswers, Active
<1>2. LockInv /\ [Next]_vars =>
        [\A p \in Proc : phase[p] = "sleeping" /\ phase'[p] = "tick" => holder = p]_vars
  BY <1>1
<1>3. QED
  BY LockInductive, <1>2, PTL DEF Spec, TicksBegunByHolder

-----------------------------------------------------------------------------
(* The scheduler and the tasks.                                             *)

\* The theorems about DurableTasks, of the variables the scheduler drives.
DP == INSTANCE DurableTasksProofs WITH Publisher <- Proc, due <- retryDue

\* A drain reads rows, and rows are never deleted.
BatchesAreRows == batch \in [Proc -> SUBSET outbox]

-----------------------------------------------------------------------------
(* The refinement, step by step.                                           *)

LEMMA BatchStep == ASSUME BatchesAreRows, [T!Next]_(T!vars) PROVE BatchesAreRows'
<1> USE DEF BatchesAreRows
<1>1. CASE UNCHANGED T!vars
  BY <1>1 DEF T!vars
<1>2. ASSUME NEW t \in Task, T!CreateTask(t) \/ T!EnqueueTask(t) \/ T!LeaseExpires(t) \/ T!RetryFallsDue(t)
      PROVE  BatchesAreRows'
  BY <1>2 DEF T!CreateTask, T!EnqueueTask, T!LeaseExpires, T!RetryFallsDue, T!drainVars
<1>3. ASSUME NEW p \in Proc, T!DrainBegin(p) \/ T!DrainCommit(p) \/ T!DrainAbort(p) \/ \E m \in outbox : T!DrainSend(p, m)
      PROVE  BatchesAreRows'
  BY <1>3 DEF T!DrainBegin, T!DrainCommit, T!DrainAbort, T!DrainSend
<1>4. CASE T!LoseBroker
  BY <1>4 DEF T!LoseBroker, T!drainVars
<1>5. ASSUME NEW w \in Worker, Serves(w) PROVE BatchesAreRows'
  BY <1>5 DEF Serves, T!ClaimTask, T!ClaimUnhandled, T!DiscardMessage, T!Heartbeat, T!FinishUpdate,
              T!FinishConflict, T!WorkerCrash, T!FinishSelect, T!drainVars
<1>6. ASSUME NEW S \in SUBSET Task, T!Reconcile(S) PROVE BatchesAreRows'
  BY <1>6 DEF T!Reconcile, T!drainVars
<1>7. QED
  BY <1>1, <1>2, <1>3, <1>4, <1>5, <1>6 DEF T!Next, Serves

LEMMA DrivesStep ==
  ASSUME BatchesAreRows, NEW p \in Proc, Drives(p)
  PROVE  [T!Next]_(T!vars)
<1>1. CASE LoopAlone(p)
  BY <1>1 DEF LoopAlone, taskVars, T!vars
<1>2. CASE DrainGoesOn(p)
  <2>1. CASE T!DrainBegin(p)
    BY <2>1 DEF T!Next
  <2>2. ASSUME NEW m \in batch[p], T!DrainSend(p, m) PROVE T!Next
    BY <2>2 DEF T!Next, BatchesAreRows
  <2>3. QED
    BY <1>2, <2>1, <2>2 DEF DrainGoesOn
<1>3. CASE DrainSucceeds(p)
  BY <1>3 DEF DrainSucceeds, T!Next, taskVars, T!vars
<1>4. CASE DrainFails(p)
  BY <1>4 DEF DrainFails, Undone, T!Next, taskVars, T!vars
<1>5. ASSUME NEW S \in SUBSET Task, ReconcileSucceeds(p, S) PROVE [T!Next]_(T!vars)
  BY <1>5 DEF ReconcileSucceeds, T!Next, taskVars, T!vars
<1>6. CASE ReconcileFails(p)
  BY <1>6 DEF ReconcileFails, taskVars, T!vars
<1>7. QED
  BY <1>1, <1>2, <1>3, <1>4, <1>5, <1>6 DEF Drives

LEMMA DrivenStep ==
  ASSUME BatchesAreRows, [DrivenNext]_allVars
  PROVE  [T!Next]_(T!vars)
<1>1. CASE UNCHANGED allVars
  BY <1>1 DEF allVars, taskVars, T!vars
<1>2. ASSUME NEW p \in Proc, Disturbs(p) PROVE [T!Next]_(T!vars)
  BY <1>2 DEF Disturbs, Undone, T!Next, taskVars, T!vars
<1>3. CASE ReapSession /\ UNCHANGED taskVars
  BY <1>3 DEF taskVars, T!vars
<1>4. CASE TaskStep
  <2>1. ASSUME NEW t \in Task, T!CreateTask(t) \/ T!EnqueueTask(t) \/ T!LeaseExpires(t) \/ T!RetryFallsDue(t)
        PROVE  T!Next
    BY <2>1 DEF T!Next
  <2>2. ASSUME NEW w \in Worker, Serves(w) PROVE T!Next
    BY <2>2 DEF Serves, T!Next
  <2>3. QED
    BY <1>4, <2>1, <2>2 DEF TaskStep, T!Next
<1>5. QED
  BY <1>1, <1>2, <1>3, <1>4, DrivesStep DEF DrivenNext

\* The loop of the scheduler, with its ticks cut short anywhere, does to the tasks
\* what DurableTasks allows a publisher and a reconciler (make_drain_outbox,
\* make_reconcile, tick).
THEOREM SchedulerDrives == DrivenSpec => DrivesTasks
<1>1. DrivenInit => T!Init /\ BatchesAreRows
  BY DEF DrivenInit, T!Init, BatchesAreRows
<1>2. BatchesAreRows /\ [DrivenNext]_allVars => BatchesAreRows' /\ [T!Next]_(T!vars)
  BY DrivenStep, BatchStep
<1>3. QED
  BY <1>1, <1>2, PTL DEF DrivenSpec, DrivesTasks, T!Spec

-----------------------------------------------------------------------------
(* The other half: the tasks change nothing of the loop.                   *)

\* Only driven actions fall due.
DueActions == due \in [Proc -> SUBSET Action]

LEMMA LoopStep == ASSUME DueActions, [DrivenNext]_allVars PROVE [Next]_vars
<1>1. ASSUME NEW p \in Proc, NEW a, RunAction(p, a) PROVE Next
  <2>1. a \in Action
    BY <1>1 DEF DueActions, RunAction
  <2>2. Loop(p)
    BY <1>1, <2>1 DEF Loop
  <2>3. QED
    BY <2>2 DEF Next
<1>2. ASSUME NEW p \in Proc, Drives(p) PROVE [Next]_vars
  BY <1>1, <1>2 DEF Drives, LoopAlone, DrainGoesOn, DrainSucceeds, DrainFails, ReconcileSucceeds,
                    ReconcileFails, Succeeds, Fails, Next
<1>3. ASSUME NEW p \in Proc, Disturbs(p) PROVE [Next]_vars
  BY <1>3 DEF Disturbs, Next
<1>4. QED
  BY <1>2, <1>3 DEF DrivenNext, TaskStep, allVars, vars, Next

LEMMA DueStep == ASSUME DueActions, [Next]_vars PROVE DueActions'
<1> USE DEF DueActions
<1>1. ASSUME NEW p \in Proc, Loop(p) PROVE DueActions'
  BY <1>1 DEF Loop, Start, Acquire, Rejected, BeginTick, LeaveLoop, EndTick, Exit, RunAction, SkipAction
<1>2. ASSUME NEW p \in Proc, NEW a \in Action, FallsDue(p, a) PROVE DueActions'
  BY <1>2 DEF FallsDue
<1>3. QED
  BY <1>1, <1>2 DEF Next, vars, Signal, LoseSession, Crash, TickAges, ReapSession

\* Driving the tasks is no other loop than the one Scheduler describes, so that what
\* is proved of its lock holds here (run, tick).
THEOREM LoopIsScheduler == DrivenSpec => Spec
<1>1. DrivenInit => Init /\ DueActions
  BY DEF DrivenInit, Init, DueActions
<1>2. DueActions /\ [DrivenNext]_allVars => DueActions' /\ [Next]_vars
  BY LoopStep, DueStep
<1>3. QED
  BY <1>1, <1>2, PTL DEF DrivenSpec, Spec

-----------------------------------------------------------------------------
\* A dispatch the broker accepted survives every way a tick can end: with a broker
\* that keeps its queue, a waiting task has a row still to publish or a message
\* still to deliver (publish_outbox under the scheduler's transaction).
THEOREM DispatchSurvivesTicks == DrivenSpec => []NoDispatchLost
<1>1. DP!Spec => []DP!NoDispatchLost
  BY DP!DispatchSurvives, DrivenAssumption, PTL DEF DP!ConstantsAssumption
<1>2. DP!Init <=> T!Init
  BY DEF DP!Init, T!Init, DP!Idle, T!Idle
<1>3. [T!Next]_(T!vars) <=> [DP!Next]_(DP!vars)
  BY DEF T!CreateTask, DP!CreateTask, T!EnqueueTask, DP!EnqueueTask, T!NeedsFirstDispatch,
         DP!NeedsFirstDispatch, T!LeaseExpires, DP!LeaseExpires, T!RetryFallsDue, DP!RetryFallsDue,
         T!DrainBegin, DP!DrainBegin, T!DrainSend, DP!DrainSend, T!AllAccepted, DP!AllAccepted,
         T!DrainCommit, DP!DrainCommit, T!DrainAbort, DP!DrainAbort, T!LoseBroker, DP!LoseBroker,
         T!Acknowledge, DP!Acknowledge, T!FreshToken, DP!FreshToken, T!Claimable, DP!Claimable,
         T!ClaimTask, DP!ClaimTask, T!ClaimUnhandled, DP!ClaimUnhandled, T!DiscardMessage,
         DP!DiscardMessage, T!HoldsLease, DP!HoldsLease, T!Heartbeat, DP!Heartbeat, T!Verdict,
         DP!Verdict, T!FinishSelect, DP!FinishSelect, T!FinishUpdate, DP!FinishUpdate,
         T!FinishConflict, DP!FinishConflict, T!WorkerCrash, DP!WorkerCrash, T!Recoverable,
         DP!Recoverable, T!Redispatched, DP!Redispatched, T!Retriable, DP!Retriable,
         T!RecoveredStatus, DP!RecoveredStatus, T!Reconcile, DP!Reconcile, T!Outcome, DP!Outcome,
         T!Idle, DP!Idle, T!rowVars, DP!rowVars, T!drainVars, DP!drainVars, T!vars, DP!vars, T!Next,
         DP!Next
<1>4. DP!NoDispatchLost <=> NoDispatchLost
  BY DEF DP!NoDispatchLost, NoDispatchLost, T!NoDispatchLost
<1>5. QED
  BY <1>1, <1>2, <1>3, <1>4, SchedulerDrives, PTL DEF DrivesTasks, T!Spec, DP!Spec
=============================================================================
