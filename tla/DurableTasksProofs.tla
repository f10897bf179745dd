-------------------------- MODULE DurableTasksProofs --------------------------
(***************************************************************************)
(* Proofs about DurableTasks, for any sets of tasks, workers and           *)
(* publishers and any attempt budget.                                      *)
(*                                                                         *)
(* The safety invariants are not inductive by themselves.  IInv adds what  *)
(* ties a worker's memory to the rows: every token in use was drawn, no    *)
(* later than the last one (so a fresh one is new), a worker's generation  *)
(* has been counted as an attempt, and the verdict it is about to write    *)
(* respects the budget while it still holds the lease.                     *)
(***************************************************************************)
EXTENDS DurableTasks, TLAPS

\* Tokens stored in rows or held by workers were drawn, and the attempt a worker
\* runs has been counted.
TokensDrawn ==
    /\ \A t \in Task : token[t] <= minted[t]
    /\ \A w \in Worker : worker[w].phase # "idle" =>
          /\ worker[w].task \in Task
          /\ worker[w].token \in 1..minted[worker[w].task]
          /\ worker[w].gen \in 1..attempt[worker[w].task]

\* A verdict waiting to be written is one finish_task may write.
VerdictSound ==
    \A w \in Worker : worker[w].phase = "deciding" =>
        /\ worker[w].verdict \in Final \cup {"RETRY_WAIT"}
        /\ /\ worker[w].verdict = "RETRY_WAIT"
           /\ HoldsLease(worker[w].task, worker[w].token)
           => attempt[worker[w].task] < MaxAttempts

\* The rows' part of SchemaNeverRejects; a row not yet dispatched was never claimed.
RowsSound ==
    \A t \in Task : /\ status[t] \in {"QUEUED", "RETRY_WAIT"} => attempt[t] < MaxAttempts
                    /\ status[t] = "RUNNING" <=> token[t] # 0
                    /\ status[t] = "ABSENT" => gen[t] = 0
                    /\ gen[t] = 0 => status[t] \in {"ABSENT", "QUEUED"}

\* Its outbox part: the generations of t that have a row.
OutboxSound == \A t \in Task, g \in Nat : <<t, g>> \in outbox <=> g \in 1..gen[t]

IInv == /\ TypeOK /\ RowsSound /\ OutboxSound /\ OneAttemptPerGeneration
        /\ TokensDrawn /\ LeaseExclusive /\ LeaseIsLatestDispatch /\ VerdictSound

USE ConstantsAssumption

-----------------------------------------------------------------------------
LEMMA InitIInv == Init => IInv
  BY DEF Init, IInv, TypeOK, RowsSound, OutboxSound, OneAttemptPerGeneration, TokensDrawn,
         LeaseExclusive, LeaseIsLatestDispatch, VerdictSound, Status, Final, Row, Idle,
         WorkerState

\* Only rows change, and only of one task, and the workers do not.
LEMMA CreateTaskStep ==
  ASSUME IInv, NEW t \in Task, CreateTask(t)
  PROVE  IInv'
<1> USE DEF IInv, CreateTask
<1>1. TypeOK'
  BY DEF TypeOK, Status
<1>2. RowsSound' /\ OutboxSound' /\ OneAttemptPerGeneration'
  BY DEF TypeOK, RowsSound, OutboxSound, OneAttemptPerGeneration
<1>3. TokensDrawn' /\ LeaseExclusive'
  BY DEF TypeOK, TokensDrawn, LeaseExclusive
<1>4. LeaseIsLatestDispatch' /\ VerdictSound'
  BY DEF TypeOK, RowsSound, LeaseIsLatestDispatch, VerdictSound, HoldsLease, Status, TokensDrawn
<1>5. QED
  BY <1>1, <1>2, <1>3, <1>4

LEMMA EnqueueTaskStep ==
  ASSUME IInv, NEW t \in Task, EnqueueTask(t)
  PROVE  IInv'
<1> USE DEF IInv, EnqueueTask, NeedsFirstDispatch
<1>1. TypeOK'
  BY DEF TypeOK, Status, Row
<1>2. RowsSound' /\ OutboxSound' /\ OneAttemptPerGeneration'
  BY DEF TypeOK, RowsSound, OutboxSound, OneAttemptPerGeneration
<1>3. TokensDrawn' /\ LeaseExclusive'
  BY DEF TypeOK, TokensDrawn, LeaseExclusive
<1>4. LeaseIsLatestDispatch' /\ VerdictSound'
  BY DEF TypeOK, RowsSound, LeaseIsLatestDispatch, VerdictSound, HoldsLease, Status, TokensDrawn,
         OneAttemptPerGeneration
<1>5. QED
  BY <1>1, <1>2, <1>3, <1>4

\* Nothing a drain or the broker does touches rows or workers.
LEMMA DeliveryStep ==
  ASSUME IInv, UNCHANGED <<rowVars, outbox, worker>>, TypeOK'
  PROVE  IInv'
BY DEF IInv, rowVars, RowsSound, OutboxSound, OneAttemptPerGeneration, TokensDrawn,
       LeaseExclusive, LeaseIsLatestDispatch, VerdictSound, HoldsLease

LEMMA DrainStep ==
  ASSUME IInv, NEW p \in Publisher,
         \/ DrainBegin(p) \/ DrainCommit(p) \/ DrainAbort(p)
         \/ \E m \in outbox : DrainSend(p, m)
  PROVE  IInv'
<1>1. TypeOK'
  BY DEF IInv, TypeOK, DrainBegin, DrainCommit, DrainAbort, DrainSend, rowVars, drainVars
<1>2. UNCHANGED <<rowVars, outbox, worker>>
  BY DEF DrainBegin, DrainCommit, DrainAbort, DrainSend, rowVars
<1>3. QED
  BY <1>1, <1>2, DeliveryStep

LEMMA LoseBrokerStep == ASSUME IInv, LoseBroker PROVE IInv'
<1>1. TypeOK'
  BY DEF IInv, TypeOK, LoseBroker, rowVars, drainVars
<1>2. QED
  BY <1>1, DeliveryStep DEF LoseBroker

LEMMA DiscardStep ==
  ASSUME IInv, NEW w \in Worker, NEW t, NEW g, DiscardMessage(w, t, g)
  PROVE  IInv'
<1>1. TypeOK'
  BY DEF IInv, TypeOK, DiscardMessage, rowVars, drainVars
<1>2. QED
  BY <1>1, DeliveryStep DEF DiscardMessage

-----------------------------------------------------------------------------
\* A claim draws a token no worker holds, so it takes the lease from all of them.
LEMMA ClaimStep ==
  ASSUME IInv, NEW w \in Worker, NEW t \in Task, NEW g \in Nat,
         <<t, g>> \in broker, ClaimTask(w, t, g)
  PROVE  IInv'
<1> USE DEF IInv, ClaimTask, Claimable, FreshToken
<1>1. TypeOK'
  <2>1. status' \in [Task -> Status] /\ attempt' \in [Task -> 0..MaxAttempts]
    BY DEF TypeOK, Status, RowsSound
  <2>2. minted' \in [Task -> Nat] /\ token' \in [Task -> Nat] /\ expired' \in [Task -> BOOLEAN]
    BY DEF TypeOK
  <2>3. worker' \in [Worker -> WorkerState]
    BY <2>2 DEF TypeOK, WorkerState, Status
  <2>4. QED
    BY <2>1, <2>2, <2>3 DEF TypeOK, drainVars
<1>2. RowsSound' /\ OutboxSound' /\ OneAttemptPerGeneration'
  BY DEF TypeOK, RowsSound, OutboxSound, OneAttemptPerGeneration, drainVars
<1>3. /\ g > 0 /\ attempt'[t] = g /\ gen'[t] = g /\ minted'[t] = minted[t] + 1
      /\ token'[t] = minted[t] + 1
      /\ worker'[w].phase = "running" /\ worker'[w].task = t
      /\ worker'[w].gen = g /\ worker'[w].token = minted[t] + 1
  BY DEF TypeOK, OneAttemptPerGeneration, OutboxSound
<1>4. \A u \in Task : u # t => /\ status'[u] = status[u] /\ token'[u] = token[u]
                               /\ attempt'[u] = attempt[u] /\ minted'[u] = minted[u]
                               /\ gen'[u] = gen[u]
  BY DEF TypeOK
<1>5. \A v \in Worker : v # w => worker'[v] = worker[v]
  BY DEF TypeOK
<1>6. attempt'[t] = attempt[t] + 1
  BY DEF TypeOK
<1>7. \A v \in Worker : worker[v].gen \in Nat /\ worker[v].token \in Nat
  BY DEF TypeOK, WorkerState
<1>8. TokensDrawn'
  <2>1. \A u \in Task : token'[u] <= minted'[u]
    BY <1>3, <1>4 DEF TypeOK, TokensDrawn
  <2>2. ASSUME NEW v \in Worker, worker'[v].phase # "idle"
        PROVE  /\ worker'[v].task \in Task
               /\ worker'[v].token \in 1..minted'[worker'[v].task]
               /\ worker'[v].gen \in 1..attempt'[worker'[v].task]
    <3>1. CASE v = w
      BY <3>1, <1>3 DEF TypeOK
    <3>2. CASE v # w
      <4>1. /\ worker[v].task \in Task
            /\ worker[v].token \in 1..minted[worker[v].task]
            /\ worker[v].gen \in 1..attempt[worker[v].task]
        BY <2>2, <3>2, <1>5 DEF TokensDrawn
      <4>2. CASE worker[v].task = t
        BY <4>1, <4>2, <3>2, <1>3, <1>5, <1>6, <1>7 DEF TypeOK
      <4>3. CASE worker[v].task # t
        BY <4>1, <4>3, <3>2, <1>4, <1>5
      <4>4. QED BY <4>2, <4>3
    <3>3. QED BY <3>1, <3>2
  <2>3. QED BY <2>1, <2>2 DEF TokensDrawn
<1>9. ASSUME NEW v \in Worker, v # w, worker[v].phase # "idle", worker[v].task = t
      PROVE  worker[v].token <= minted[t]
  BY <1>9 DEF TokensDrawn, TypeOK
<1>10. LeaseExclusive'
  BY <1>3, <1>5, <1>7, <1>9 DEF LeaseExclusive, TypeOK
<1>11. LeaseIsLatestDispatch'
  <2> SUFFICES ASSUME NEW v \in Worker, worker'[v].phase # "idle",
                      status'[worker'[v].task] = "RUNNING",
                      token'[worker'[v].task] = worker'[v].token
               PROVE  /\ worker'[v].gen = gen'[worker'[v].task]
                      /\ attempt'[worker'[v].task] = gen'[worker'[v].task]
    BY DEF LeaseIsLatestDispatch
  <2>1. CASE v = w
    BY <2>1, <1>3
  <2>2. CASE v # w
    <3>1. worker[v].phase # "idle" /\ worker[v].task \in Task
      BY <2>2, <1>5 DEF TokensDrawn
    <3>2. worker[v].task # t
      BY <3>1, <2>2, <1>3, <1>5, <1>7, <1>9 DEF TypeOK
    <3>3. QED
      BY <3>1, <3>2, <2>2, <1>4, <1>5 DEF LeaseIsLatestDispatch
  <2>3. QED BY <2>1, <2>2
<1>12. VerdictSound'
  BY DEF TypeOK, RowsSound, VerdictSound, TokensDrawn, LeaseExclusive, HoldsLease,
         WorkerState
<1>13. QED
  BY <1>1, <1>2, <1>8, <1>10, <1>11, <1>12

LEMMA ClaimUnhandledStep ==
  ASSUME IInv, NEW w \in Worker, NEW t \in Task, NEW g \in Nat,
         ClaimUnhandled(w, t, g)
  PROVE  IInv'
<1> USE DEF IInv, ClaimUnhandled, Claimable, Acknowledge
<1>1. TypeOK'
  BY DEF TypeOK, Status, Final, Row, WorkerState, Idle, RowsSound, rowVars, drainVars
<1>2. RowsSound' /\ OutboxSound' /\ OneAttemptPerGeneration'
  BY DEF TypeOK, RowsSound, OutboxSound, OneAttemptPerGeneration, rowVars, drainVars
<1>3. TokensDrawn' /\ LeaseExclusive'
  BY DEF TypeOK, TokensDrawn, LeaseExclusive, Idle, WorkerState, rowVars, drainVars
<1>4. LeaseIsLatestDispatch'
  BY DEF TypeOK, RowsSound, LeaseIsLatestDispatch, TokensDrawn, OneAttemptPerGeneration, Idle,
         WorkerState, LeaseExclusive, rowVars, drainVars
<1>5. VerdictSound'
  BY DEF TypeOK, RowsSound, VerdictSound, TokensDrawn, LeaseExclusive, HoldsLease, Idle,
         WorkerState, rowVars, drainVars
<1>6. QED
  BY <1>1, <1>2, <1>3, <1>4, <1>5

LEMMA HeartbeatStep ==
  ASSUME IInv, NEW w \in Worker, Heartbeat(w)
  PROVE  IInv'
<1> USE DEF IInv, Heartbeat, HoldsLease
<1>1. TypeOK'
  BY DEF TypeOK, Status, Final, Row, WorkerState, Idle, RowsSound, rowVars, drainVars
<1>2. RowsSound' /\ OutboxSound' /\ OneAttemptPerGeneration'
  BY DEF TypeOK, RowsSound, OutboxSound, OneAttemptPerGeneration, rowVars, drainVars
<1>3. TokensDrawn' /\ LeaseExclusive'
  BY DEF TypeOK, TokensDrawn, LeaseExclusive, Idle, WorkerState, rowVars, drainVars
<1>4. LeaseIsLatestDispatch'
  BY DEF TypeOK, RowsSound, LeaseIsLatestDispatch, TokensDrawn, OneAttemptPerGeneration, Idle,
         WorkerState, LeaseExclusive, rowVars, drainVars
<1>5. VerdictSound'
  BY DEF TypeOK, RowsSound, VerdictSound, TokensDrawn, LeaseExclusive, HoldsLease, Idle,
         WorkerState, rowVars, drainVars
<1>6. QED
  BY <1>1, <1>2, <1>3, <1>4, <1>5

\* finish_task writes a final status or a retry, and a retry only within budget.
LEMMA VerdictRange ==
  ASSUME NEW t \in Task, NEW o \in Outcome
  PROVE  /\ Verdict(t, o) \in Final \cup {"RETRY_WAIT"}
         /\ Verdict(t, o) = "RETRY_WAIT" => attempt[t] < MaxAttempts
BY DEF Verdict, Outcome, Final

LEMMA FinishSelectStep ==
  ASSUME IInv, NEW w \in Worker, NEW o \in Outcome, FinishSelect(w, o)
  PROVE  IInv'
<1> USE DEF IInv, FinishSelect, HoldsLease
<1>0. worker[w].task \in Task
  BY DEF TokensDrawn
<1>1. TypeOK'
  <2>1. Verdict(worker[w].task, o) \in Status
    BY <1>0, VerdictRange DEF Status
  <2>2. [worker[w] EXCEPT !.phase = "deciding", !.verdict = Verdict(worker[w].task, o)]
           \in WorkerState
    BY <2>1 DEF TypeOK, WorkerState
  <2>3. worker' = [worker EXCEPT ![w] = [worker[w] EXCEPT !.phase = "deciding",
                                             !.verdict = Verdict(worker[w].task, o)]]
    BY DEF TypeOK
  <2>4. worker' \in [Worker -> WorkerState]
    BY <2>2, <2>3 DEF TypeOK
  <2>5. QED
    BY <2>4 DEF TypeOK, rowVars, drainVars
<1>2. RowsSound' /\ OutboxSound' /\ OneAttemptPerGeneration'
  BY DEF TypeOK, RowsSound, OutboxSound, OneAttemptPerGeneration, rowVars, drainVars
<1>3. TokensDrawn' /\ LeaseExclusive'
  BY DEF TypeOK, TokensDrawn, LeaseExclusive, Idle, WorkerState, rowVars, drainVars
<1>4. LeaseIsLatestDispatch'
  BY DEF TypeOK, RowsSound, LeaseIsLatestDispatch, TokensDrawn, OneAttemptPerGeneration, Idle,
         WorkerState, LeaseExclusive, rowVars, drainVars
<1>5. VerdictSound'
  BY <1>0, VerdictRange DEF TypeOK, RowsSound, VerdictSound, TokensDrawn, LeaseExclusive, HoldsLease, Idle,
         WorkerState, rowVars, drainVars
<1>6. QED
  BY <1>1, <1>2, <1>3, <1>4, <1>5

LEMMA FinishUpdateStep ==
  ASSUME IInv, NEW w \in Worker, FinishUpdate(w)
  PROVE  IInv'
<1> USE DEF IInv, FinishUpdate, HoldsLease, Acknowledge
<1>1. TypeOK'
  BY DEF TypeOK, Status, Final, Row, WorkerState, Idle, RowsSound, rowVars, drainVars
<1>2. RowsSound' /\ OutboxSound' /\ OneAttemptPerGeneration'
  BY DEF TypeOK, RowsSound, OutboxSound, OneAttemptPerGeneration, rowVars, drainVars, Final, VerdictSound
<1>3. TokensDrawn' /\ LeaseExclusive'
  BY DEF TypeOK, TokensDrawn, LeaseExclusive, Idle, WorkerState, rowVars, drainVars, Final, VerdictSound
<1>4. LeaseIsLatestDispatch'
  BY DEF TypeOK, RowsSound, LeaseIsLatestDispatch, TokensDrawn, OneAttemptPerGeneration, Idle,
         WorkerState, LeaseExclusive, rowVars, drainVars, Final, VerdictSound
<1>5. VerdictSound'
  BY DEF TypeOK, RowsSound, VerdictSound, TokensDrawn, LeaseExclusive, HoldsLease, Idle,
         WorkerState, rowVars, drainVars, Final
<1>6. QED
  BY <1>1, <1>2, <1>3, <1>4, <1>5

LEMMA WorkerStopsStep ==
  ASSUME IInv, NEW w \in Worker, FinishConflict(w) \/ WorkerCrash(w)
  PROVE  IInv'
<1> USE DEF IInv, FinishConflict, WorkerCrash, Acknowledge
<1>1. TypeOK'
  BY DEF TypeOK, Status, WorkerState, Idle, rowVars, drainVars
<1>2. UNCHANGED <<rowVars, outbox>>
  OBVIOUS
<1>3. \A v \in Worker : worker'[v] = worker[v] \/ worker'[v].phase = "idle"
  BY DEF TypeOK, Idle
<1>4. RowsSound' /\ OutboxSound' /\ OneAttemptPerGeneration'
  BY <1>2 DEF RowsSound, OutboxSound, OneAttemptPerGeneration, rowVars
<1>5. TokensDrawn' /\ LeaseExclusive'
  BY <1>2, <1>3 DEF TokensDrawn, LeaseExclusive, rowVars
<1>6. LeaseIsLatestDispatch' /\ VerdictSound'
  BY <1>2, <1>3 DEF LeaseIsLatestDispatch, VerdictSound, HoldsLease, rowVars
<1>7. QED
  BY <1>1, <1>4, <1>5, <1>6

LEMMA ClockStep ==
  ASSUME IInv, NEW t \in Task, LeaseExpires(t) \/ RetryFallsDue(t)
  PROVE  IInv'
<1> USE DEF IInv, LeaseExpires, RetryFallsDue
<1>1. TypeOK'
  BY DEF TypeOK, Status, Final, Row, WorkerState, Idle, RowsSound, rowVars, drainVars
<1>2. RowsSound' /\ OutboxSound' /\ OneAttemptPerGeneration'
  BY DEF TypeOK, RowsSound, OutboxSound, OneAttemptPerGeneration, rowVars, drainVars
<1>3. TokensDrawn' /\ LeaseExclusive'
  BY DEF TypeOK, TokensDrawn, LeaseExclusive, Idle, WorkerState, rowVars, drainVars
<1>4. LeaseIsLatestDispatch'
  BY DEF TypeOK, RowsSound, LeaseIsLatestDispatch, TokensDrawn, OneAttemptPerGeneration, Idle,
         WorkerState, LeaseExclusive, rowVars, drainVars
<1>5. VerdictSound'
  BY DEF TypeOK, RowsSound, VerdictSound, TokensDrawn, LeaseExclusive, HoldsLease, Idle,
         WorkerState, rowVars, drainVars
<1>6. QED
  BY <1>1, <1>2, <1>3, <1>4, <1>5

LEMMA ReconcileStep ==
  ASSUME IInv, NEW S \in SUBSET Task, Reconcile(S)
  PROVE  IInv'
<1> USE DEF IInv, Reconcile, Recoverable, Redispatched, RecoveredStatus, Retriable
<1>1. TypeOK'
  <2>1. status' \in [Task -> Status]
    BY DEF TypeOK, Status, Final
  <2>2. gen' \in [Task -> Nat] /\ token' \in [Task -> Nat]
    BY DEF TypeOK
  <2>3. expired' \in [Task -> BOOLEAN] /\ due' \in [Task -> BOOLEAN]
    BY DEF TypeOK
  <2>4. outbox \subseteq outbox' /\ outbox' \subseteq Row
    BY DEF TypeOK, Row
  <2>5. QED
    BY <2>1, <2>2, <2>3, <2>4 DEF TypeOK, drainVars
<1>2. RowsSound' /\ OutboxSound' /\ OneAttemptPerGeneration'
  BY DEF TypeOK, RowsSound, OutboxSound, OneAttemptPerGeneration, rowVars, drainVars
<1>3. TokensDrawn' /\ LeaseExclusive'
  BY DEF TypeOK, TokensDrawn, LeaseExclusive, Idle, WorkerState, rowVars, drainVars
<1>4. LeaseIsLatestDispatch'
  BY DEF TypeOK, RowsSound, LeaseIsLatestDispatch, TokensDrawn, OneAttemptPerGeneration, Idle,
         WorkerState, LeaseExclusive, rowVars, drainVars
<1>5. VerdictSound'
  BY DEF TypeOK, RowsSound, VerdictSound, TokensDrawn, LeaseExclusive, HoldsLease, Idle,
         WorkerState, rowVars, drainVars
<1>6. QED
  BY <1>1, <1>2, <1>3, <1>4, <1>5

-----------------------------------------------------------------------------
\* A message in the broker names a task and a generation.
LEMMA BrokerRows ==
  ASSUME TypeOK, NEW m \in broker
  PROVE  m[1] \in Task /\ m[2] \in Nat /\ m = <<m[1], m[2]>>
BY DEF TypeOK, Row

LEMMA NextIInv == ASSUME IInv, [Next]_vars PROVE IInv'
<1>1. CASE UNCHANGED vars
  BY <1>1 DEF vars, IInv, TypeOK, RowsSound, OutboxSound, OneAttemptPerGeneration, TokensDrawn,
              LeaseExclusive, LeaseIsLatestDispatch, VerdictSound, HoldsLease
<1>2. ASSUME NEW t \in Task,
             CreateTask(t) \/ EnqueueTask(t) \/ LeaseExpires(t) \/ RetryFallsDue(t)
      PROVE  IInv'
  BY <1>2, CreateTaskStep, EnqueueTaskStep, ClockStep
<1>3. ASSUME NEW p \in Publisher,
             \/ DrainBegin(p) \/ DrainCommit(p) \/ DrainAbort(p)
             \/ \E m \in outbox : DrainSend(p, m)
      PROVE  IInv'
  BY <1>3, DrainStep
<1>4. ASSUME LoseBroker PROVE IInv'
  BY <1>4, LoseBrokerStep
<1>5. ASSUME NEW w \in Worker, NEW m \in broker,
             \/ ClaimTask(w, m[1], m[2]) \/ ClaimUnhandled(w, m[1], m[2])
             \/ DiscardMessage(w, m[1], m[2])
      PROVE  IInv'
  <2>1. m[1] \in Task /\ m[2] \in Nat /\ <<m[1], m[2]>> \in broker
    BY BrokerRows DEF IInv
  <2>2. QED
    BY <1>5, <2>1, ClaimStep, ClaimUnhandledStep, DiscardStep
<1>6. ASSUME NEW w \in Worker,
             Heartbeat(w) \/ FinishUpdate(w) \/ FinishConflict(w) \/ WorkerCrash(w)
      PROVE  IInv'
  BY <1>6, HeartbeatStep, FinishUpdateStep, WorkerStopsStep
<1>7. ASSUME NEW w \in Worker, NEW o \in Outcome, FinishSelect(w, o) PROVE IInv'
  BY <1>7, FinishSelectStep
<1>8. ASSUME NEW S \in SUBSET Task, Reconcile(S) PROVE IInv'
  BY <1>8, ReconcileStep
<1>9. QED
  BY <1>1, <1>2, <1>3, <1>4, <1>5, <1>6, <1>7, <1>8 DEF Next

LEMMA Inductive == Spec => []IInv
<1>1. IInv /\ [Next]_vars => IInv'
  BY NextIInv
<1>2. QED
  BY InitIInv, <1>1, PTL DEF Spec

\* The rows, the broker and the memory of every process keep their types, and
\* attemptCount stays within maxAttempts, in every reachable state.
THEOREM TypeCorrect == Spec => []TypeOK
<1>1. IInv => TypeOK
  BY DEF IInv
<1>2. QED
  BY Inductive, <1>1, PTL

\* The check constraints of durable_tasks and the unique index of task_outbox
\* reject no statement of the module (claim_task, finish_task, reconcile).
THEOREM SchemaRespected == Spec => []SchemaNeverRejects
<1>1. IInv => SchemaNeverRejects
  <2> SUFFICES ASSUME IInv, NEW t \in Task
               PROVE  {m[2] : m \in {r \in outbox : r[1] = t}} = 1..gen[t]
    BY DEF IInv, RowsSound, SchemaNeverRejects
  <2>1. outbox \subseteq Row /\ gen[t] \in Nat
    BY DEF IInv, TypeOK
  <2>2. \A g \in 1..gen[t] : <<t, g>> \in outbox
    BY <2>1 DEF IInv, OutboxSound
  <2>3. \A m \in outbox : m[1] = t => m[2] \in 1..gen[t]
    <3> TAKE m \in outbox
    <3>1. m = <<m[1], m[2]>> /\ m[2] \in Nat
      BY <2>1 DEF Row
    <3>2. QED
      BY <3>1 DEF IInv, OutboxSound
  <2>4. {m[2] : m \in {r \in outbox : r[1] = t}} \subseteq 1..gen[t]
    BY <2>3
  <2>5. ASSUME NEW g \in 1..gen[t]
        PROVE  g \in {m[2] : m \in {r \in outbox : r[1] = t}}
    <3>1. <<t, g>> \in outbox /\ <<t, g>>[1] = t /\ <<t, g>>[2] = g
      BY <2>2
    <3>2. QED BY <3>1
  <2>6. QED
    BY <2>4, <2>5
<1>2. QED
  BY Inductive, <1>1, PTL

\* Duplicated, redelivered and republished messages start no second attempt of
\* their generation (claim_task).
THEOREM OneAttemptPerDispatch == Spec => []OneAttemptPerGeneration
<1>1. IInv => OneAttemptPerGeneration
  BY DEF IInv
<1>2. QED
  BY Inductive, <1>1, PTL

\* No two processes ever hold the same lease of a task (claim_task).
THEOREM LeaseIsExclusive == Spec => []LeaseExclusive
<1>1. IInv => LeaseExclusive
  BY DEF IInv
<1>2. QED
  BY Inductive, <1>1, PTL

\* The live lease belongs to the attempt started by the newest generation.
THEOREM LeaseIsCurrent == Spec => []LeaseIsLatestDispatch
<1>1. IInv => LeaseIsLatestDispatch
  BY DEF IInv
<1>2. QED
  BY Inductive, <1>1, PTL

-----------------------------------------------------------------------------
(* Delivery.  NoDispatchLost needs to know what a drain has already sent.   *)

\* A row an open drain has sent, for a dispatch not yet claimed, is in the broker.
SentIsHeld ==
    \A p \in Publisher : \A m \in sent[p] :
        status[m[1]] = "QUEUED" /\ gen[m[1]] = m[2] => m \in broker

OnItsWay ==
    \A t \in Task :
        status[t] = "QUEUED" /\ gen[t] > 0 => <<t, gen[t]>> \in (outbox \ published) \cup broker

DInv == SentIsHeld /\ OnItsWay

\* An acknowledged message is not that of a dispatch waiting to be claimed.
LEMMA AcknowledgeStep ==
  ASSUME IInv, IInv', DInv, NEW t \in Task, NEW g \in Nat,
         broker' \in {broker, broker \ {<<t, g>>}},
         ~(status'[t] = "QUEUED" /\ gen[t] = g),
         \A u \in Task : status'[u] = "QUEUED" => status[u] = "QUEUED",
         UNCHANGED <<gen, outbox, published, sent>>
  PROVE  DInv'
BY DEF DInv, SentIsHeld, OnItsWay, IInv, TypeOK, Row

LEMMA DrainDInv ==
  ASSUME IInv, DInv, NEW p \in Publisher,
         \/ DrainBegin(p) \/ DrainCommit(p) \/ DrainAbort(p)
         \/ \E m \in outbox : DrainSend(p, m)
  PROVE  DInv'
<1>1. CASE DrainBegin(p)
  BY <1>1 DEF DInv, SentIsHeld, OnItsWay, DrainBegin, rowVars
<1>2. CASE DrainCommit(p)
  BY <1>2 DEF DInv, SentIsHeld, OnItsWay, DrainCommit, AllAccepted, rowVars, IInv, TypeOK
<1>3. CASE DrainAbort(p)
  BY <1>3 DEF DInv, SentIsHeld, OnItsWay, DrainAbort, rowVars, IInv, TypeOK
<1>4. CASE \E m \in outbox : DrainSend(p, m)
  BY <1>4 DEF DInv, SentIsHeld, OnItsWay, DrainSend, rowVars, IInv, TypeOK
<1>5. QED
  BY <1>1, <1>2, <1>3, <1>4

\* A dispatch that is created now has a row nobody has read or published.
LEMMA DispatchDInv ==
  ASSUME IInv, IInv', DInv,
         \/ \E t \in Task : CreateTask(t) \/ EnqueueTask(t)
         \/ \E S \in SUBSET Task : Reconcile(S)
  PROVE  DInv'
<1>1. UNCHANGED <<published, broker, sent>> /\ outbox \subseteq outbox'
  BY DEF CreateTask, EnqueueTask, Reconcile, drainVars
<1>2. ASSUME NEW t \in Task, status'[t] = "QUEUED", ~(status[t] = "QUEUED" /\ gen'[t] = gen[t])
      PROVE  gen'[t] > gen[t] \/ gen'[t] = 0
  <2>1. ASSUME NEW u \in Task, CreateTask(u) PROVE gen'[t] = 0
    BY <1>2, <2>1 DEF CreateTask, IInv, TypeOK, RowsSound
  <2>2. ASSUME NEW u \in Task, EnqueueTask(u) PROVE gen'[t] > gen[t]
    BY <1>2, <2>2 DEF EnqueueTask, NeedsFirstDispatch, IInv, TypeOK
  <2>3. ASSUME NEW S \in SUBSET Task, Reconcile(S) PROVE gen'[t] > gen[t]
    <3>1. t \in S
      BY <1>2, <2>3 DEF Reconcile, Redispatched
    <3>2. status[t] # "RUNNING"
      BY <1>2, <2>3, <3>1 DEF Reconcile, RecoveredStatus, Retriable
    <3>3. gen'[t] = gen[t] + 1
      BY <2>3, <3>1, <3>2 DEF Reconcile, Redispatched
    <3>4. QED
      BY <3>3 DEF IInv, TypeOK
  <2>4. QED
    BY <2>1, <2>2, <2>3
<1>3. \A t \in Task : gen[t] \in Nat /\ gen'[t] \in Nat
  BY DEF IInv, TypeOK
<1>4. SentIsHeld'
  <2> SUFFICES ASSUME NEW p \in Publisher, NEW m \in sent[p],
                      status'[m[1]] = "QUEUED", gen'[m[1]] = m[2]
               PROVE  m \in broker
    BY <1>1 DEF SentIsHeld
  <2>1. m \in outbox /\ m[1] \in Task /\ m[2] \in Nat /\ m = <<m[1], m[2]>>
    BY DEF IInv, TypeOK, Row
  <2>2. m[2] \in 1..gen[m[1]]
    BY <2>1 DEF IInv, OutboxSound
  <2>3. QED
    BY <1>2, <1>3, <2>1, <2>2 DEF DInv, SentIsHeld
<1>5. OnItsWay'
  <2> SUFFICES ASSUME NEW t \in Task, status'[t] = "QUEUED", gen'[t] > 0
               PROVE  <<t, gen'[t]>> \in (outbox' \ published) \cup broker
    BY <1>1 DEF OnItsWay
  <2>1. CASE status[t] = "QUEUED" /\ gen'[t] = gen[t]
    BY <2>1, <1>1 DEF DInv, OnItsWay
  <2>2. CASE ~(status[t] = "QUEUED" /\ gen'[t] = gen[t])
    <3>1. gen'[t] > gen[t]
      BY <1>2, <2>2, <1>3
    <3>2. <<t, gen'[t]>> \notin outbox
      BY <3>1, <1>3 DEF IInv, OutboxSound
    <3>3. <<t, gen'[t]>> \in outbox'
      BY <1>3 DEF IInv, OutboxSound
    <3>4. QED
      BY <3>2, <3>3 DEF IInv, TypeOK
  <2>3. QED BY <2>1, <2>2
<1>6. QED
  BY <1>4, <1>5 DEF DInv

LEMMA WorkerDInv ==
  ASSUME IInv, IInv', DInv, NEW w \in Worker,
         \/ \E m \in broker : \/ ClaimTask(w, m[1], m[2])
                              \/ ClaimUnhandled(w, m[1], m[2])
                              \/ DiscardMessage(w, m[1], m[2])
         \/ FinishUpdate(w) \/ FinishConflict(w)
  PROVE  DInv'
<1>1. ASSUME NEW m \in broker,
             \/ ClaimTask(w, m[1], m[2]) \/ ClaimUnhandled(w, m[1], m[2])
             \/ DiscardMessage(w, m[1], m[2])
      PROVE  DInv'
  <2>1. m[1] \in Task /\ m[2] \in Nat
    BY BrokerRows DEF IInv
  <2>2. broker' \in {broker, broker \ {<<m[1], m[2]>>}}
    BY <1>1 DEF ClaimTask, ClaimUnhandled, DiscardMessage, Acknowledge
  <2>3. ~(status'[m[1]] = "QUEUED" /\ gen[m[1]] = m[2])
    BY <1>1, <2>1 DEF ClaimTask, ClaimUnhandled, DiscardMessage, Claimable, IInv, TypeOK, rowVars
  <2>4. \A u \in Task : status'[u] = "QUEUED" => status[u] = "QUEUED"
    BY <1>1, <2>1 DEF ClaimTask, ClaimUnhandled, DiscardMessage, IInv, TypeOK, rowVars
  <2>5. UNCHANGED <<gen, outbox, published, sent>>
    BY <1>1 DEF ClaimTask, ClaimUnhandled, DiscardMessage, rowVars, drainVars
  <2>6. QED
    BY <2>1, <2>2, <2>3, <2>4, <2>5, AcknowledgeStep
<1>2. ASSUME FinishUpdate(w) \/ FinishConflict(w)
      PROVE  DInv'
  <2> DEFINE t == worker[w].task
  <2>1. worker[w].phase # "idle" /\ t \in Task /\ worker[w].gen \in Nat
    BY <1>2 DEF FinishUpdate, FinishConflict, IInv, TokensDrawn, TypeOK, WorkerState
  <2>2. broker' \in {broker, broker \ {<<t, worker[w].gen>>}}
    BY <1>2 DEF FinishUpdate, FinishConflict, Acknowledge
  <2>3. \A u \in Task : status'[u] = "QUEUED" => status[u] = "QUEUED"
    <3>1. CASE FinishConflict(w)
      BY <3>1 DEF FinishConflict, rowVars
    <3>2. CASE FinishUpdate(w)
      <4>1. worker[w].verdict # "QUEUED"
        BY <3>2 DEF FinishUpdate, IInv, VerdictSound, Final
      <4>2. QED
        BY <2>1, <3>2, <4>1 DEF FinishUpdate, IInv, TypeOK
    <3>3. QED
      BY <1>2, <3>1, <3>2
  <2>4. ~(status'[t] = "QUEUED" /\ gen[t] = worker[w].gen)
    BY <2>1, <2>3 DEF IInv, TokensDrawn, OneAttemptPerGeneration, TypeOK
  <2>5. UNCHANGED <<gen, outbox, published, sent>>
    BY <1>2 DEF FinishUpdate, FinishConflict, rowVars, drainVars
  <2> HIDE DEF t
  <2>6. QED
    BY <2>1, <2>2, <2>3, <2>4, <2>5, AcknowledgeStep
<1>3. QED
  BY <1>1, <1>2

LEMMA NextDInv ==
  ASSUME IInv, IInv', DInv, ~BrokerMayLose, [Next]_vars
  PROVE  DInv'
<1>1. CASE UNCHANGED vars
  BY <1>1 DEF vars, DInv, SentIsHeld, OnItsWay
<1>2. ASSUME NEW t \in Task, LeaseExpires(t) \/ RetryFallsDue(t) PROVE DInv'
  BY <1>2 DEF LeaseExpires, RetryFallsDue, DInv, SentIsHeld, OnItsWay, drainVars
<1>3. ASSUME NEW w \in Worker, Heartbeat(w) \/ WorkerCrash(w) PROVE DInv'
  BY <1>3 DEF Heartbeat, WorkerCrash, DInv, SentIsHeld, OnItsWay, rowVars, drainVars
<1>4. ASSUME NEW w \in Worker, NEW o \in Outcome, FinishSelect(w, o) PROVE DInv'
  BY <1>4 DEF FinishSelect, DInv, SentIsHeld, OnItsWay, rowVars, drainVars
<1>5. ~LoseBroker
  BY DEF LoseBroker
<1>6. QED
  BY <1>1, <1>2, <1>3, <1>4, <1>5, DrainDInv, DispatchDInv, WorkerDInv DEF Next

\* publish_outbox, claim_task and the acknowledgements lose no dispatch: while
\* the broker keeps what it accepted, a waiting task has a row still to publish
\* or a message still to be delivered.
THEOREM DispatchSurvives == Spec => []NoDispatchLost
<1>1. CASE BrokerMayLose
  BY <1>1, PTL DEF NoDispatchLost
<1>2. CASE ~BrokerMayLose
  <2>1. Init => DInv
    BY DEF Init, DInv, SentIsHeld, OnItsWay
  <2>2. IInv /\ IInv' /\ DInv /\ [Next]_vars => DInv'
    BY <1>2, NextDInv
  <2>3. DInv => NoDispatchLost
    BY DEF DInv, OnItsWay, NoDispatchLost
  <2>4. QED
    BY <2>1, <2>2, <2>3, Inductive, PTL DEF Spec
<1>3. QED
  BY <1>1, <1>2

-----------------------------------------------------------------------------
(* How one task's row may move in a step.  Both the fencing property and    *)
(* the refinement read off this list.                                      *)

\* The holder's verdict is written, or the expired lease is taken away.
Completed(t) ==
    \/ \E w \in Worker : /\ worker[w].phase = "deciding"
                         /\ worker[w].task = t /\ worker[w].token = token[t]
                         /\ worker'[w].phase = "idle"
                         /\ status'[t] = worker[w].verdict
                         /\ worker[w].verdict \in Final \cup {"RETRY_WAIT"}
                         /\ worker[w].verdict = "RETRY_WAIT" => attempt[t] < MaxAttempts
    \/ expired[t] /\ \/ status'[t] = "FAILED"
                     \/ status'[t] = "RETRY_WAIT" /\ attempt[t] < MaxAttempts

Move(t) ==
    \/ status'[t] = status[t] /\ attempt'[t] = attempt[t]
    \/ /\ status[t] = "ABSENT" /\ status'[t] = "QUEUED" /\ attempt'[t] = attempt[t]
    \/ /\ status[t] = "QUEUED" /\ status'[t] \in {"RUNNING", "FAILED"}
       /\ attempt'[t] = attempt[t] + 1
    \/ /\ status[t] = "RUNNING" /\ attempt'[t] = attempt[t] /\ Completed(t)
    \/ /\ status[t] = "RETRY_WAIT" /\ status'[t] = "QUEUED" /\ attempt'[t] = attempt[t]

LEMMA StepMoves ==
  ASSUME IInv, [Next]_vars, NEW t \in Task
  PROVE  Move(t)
<1>1. CASE UNCHANGED <<status, attempt>>
  BY <1>1 DEF Move
<1>2. ASSUME NEW u \in Task, CreateTask(u) \/ EnqueueTask(u) PROVE Move(t)
  BY <1>2 DEF CreateTask, EnqueueTask, Move, IInv, TypeOK
<1>3. ASSUME NEW w \in Worker, NEW m \in broker,
             ClaimTask(w, m[1], m[2]) \/ ClaimUnhandled(w, m[1], m[2])
      PROVE  Move(t)
  <2>1. m[1] \in Task
    BY BrokerRows DEF IInv
  <2>2. QED
    BY <1>3, <2>1 DEF ClaimTask, ClaimUnhandled, Claimable, Move, IInv, TypeOK
<1>4. ASSUME NEW w \in Worker, FinishUpdate(w) PROVE Move(t)
  <2>1. CASE worker[w].task = t
    <3>1. /\ status[t] = "RUNNING" /\ token[t] = worker[w].token
          /\ worker[w].phase = "deciding" /\ UNCHANGED attempt
          /\ status'[t] = worker[w].verdict /\ worker'[w].phase = "idle"
      BY <1>4, <2>1 DEF FinishUpdate, HoldsLease, Idle, IInv, TypeOK
    <3>2. /\ worker[w].verdict \in Final \cup {"RETRY_WAIT"}
          /\ worker[w].verdict = "RETRY_WAIT" => attempt[t] < MaxAttempts
      BY <2>1, <3>1 DEF IInv, VerdictSound, HoldsLease
    <3>3. QED
      BY <2>1, <3>1, <3>2 DEF Move, Completed
  <2>2. CASE worker[w].task # t
    BY <1>4, <2>2 DEF FinishUpdate, Move, IInv, TypeOK
  <2>3. QED
    BY <2>1, <2>2
<1>5. ASSUME NEW S \in SUBSET Task, Reconcile(S) PROVE Move(t)
  BY <1>5 DEF Reconcile, Recoverable, RecoveredStatus, Retriable, Move, Completed, IInv, TypeOK
<1>6. QED
  BY <1>1, <1>2, <1>3, <1>4, <1>5
     DEF Next, vars, rowVars, LeaseExpires, RetryFallsDue, DrainBegin, DrainSend, DrainCommit,
         DrainAbort, LoseBroker, DiscardMessage, Heartbeat, FinishSelect, FinishConflict,
         WorkerCrash

\* Fencing (finish_task, reconcile): whatever a stale worker does, the status of
\* a RUNNING task changes only by its lease holder, or after the lease expired.
THEOREM Fencing == Spec => OnlyHolderCompletes
<1> DEFINE Fenced ==
      \A t \in Task :
          status[t] = "RUNNING" /\ status'[t] # "RUNNING" =>
             \/ \E w \in Worker : /\ worker[w].phase = "deciding"
                                  /\ worker[w].task = t /\ worker[w].token = token[t]
                                  /\ worker'[w].phase = "idle"
                                  /\ status'[t] = worker[w].verdict
             \/ expired[t] /\ status'[t] \in {"RETRY_WAIT", "FAILED"}
<1>1. ASSUME IInv, [Next]_vars PROVE Fenced
  <2> SUFFICES ASSUME NEW t \in Task, status[t] = "RUNNING", status'[t] # "RUNNING"
               PROVE  Completed(t)
    BY DEF Completed
  <2>1. Move(t)
    BY <1>1, StepMoves
  <2>2. QED
    BY <2>1 DEF Move
<1>2. Spec => [][Fenced]_vars
  BY Inductive, <1>1, PTL DEF Spec
<1>3. QED
  BY <1>2 DEF OnlyHolderCompletes

\* The task rows implement the abstract life cycle of ADR 0018, with leases,
\* generations, outbox, broker and workers hidden.
THEOREM Refinement == Spec => RefinesLifecycle
<1>1. Init => Lifecycle!Init
  BY DEF Init, Lifecycle!Init
<1>2. ASSUME IInv, IInv', [Next]_vars PROVE Lifecycle!Next \/ UNCHANGED Lifecycle!vars
  <2>1. status' \in [Task -> Lifecycle!Status] /\ attempt' \in [Task -> Nat]
    BY <1>2 DEF IInv, TypeOK, Status, Final, Lifecycle!Status, Lifecycle!Final
  <2>2. ASSUME NEW t \in Task
        PROVE  Lifecycle!Step(t, status[t], status'[t], attempt[t], attempt'[t])
    <3>1. Move(t)
      BY <1>2, StepMoves
    <3>2. /\ attempt[t] \in 0..MaxAttempts /\ attempt'[t] \in 0..MaxAttempts
          /\ status[t] \in {"QUEUED", "RETRY_WAIT"} => attempt[t] < MaxAttempts
          /\ status'[t] \in {"QUEUED", "RETRY_WAIT"} => attempt'[t] < MaxAttempts
      BY <1>2 DEF IInv, TypeOK, RowsSound
    <3>3. status[t] = "RUNNING" /\ status'[t] # status[t] =>
             status'[t] \in Final \cup {"RETRY_WAIT"} /\ attempt'[t] = attempt[t]
      BY <3>1 DEF Move, Completed, Final
    <3>4. QED
      BY <3>1, <3>2, <3>3 DEF Move, Lifecycle!Step, Lifecycle!Legal, Final
  <2>3. QED
    BY <2>1, <2>2 DEF Lifecycle!Next
<1>3. QED
  BY <1>1, <1>2, Inductive, PTL DEF Spec, RefinesLifecycle, Lifecycle!Spec

=============================================================================
