------------------------------ MODULE Scheduler ------------------------------
(***************************************************************************)
(* The scheduler process: one advisory lock in PostgreSQL, a tick loop that *)
(* pings the lock connection and then runs the due actions, each isolated   *)
(* from the failures of the others, and the liveness probe Compose polls.   *)
(*                                                                         *)
(* The lock belongs to a database session.  A session can end without its   *)
(* process noticing before the next ping, and a dead process can leave its  *)
(* session behind until the server reaps it.                                *)
(***************************************************************************)
EXTENDS Naturals, Sequences

CONSTANTS Proc,     \* scheduler processes Compose may start (overlapping restarts)
          NoProc,   \* the lock is free
          Orphan,   \* the lock is held by a session whose process is gone
          Actions   \* the driven functions, in the order tick runs them

ASSUME SchedulerAssumption ==
    /\ Proc # {} /\ NoProc \notin Proc /\ Orphan \notin Proc /\ NoProc # Orphan

VARIABLES
    phase,      \* phase[p]: where the process is
    holder,     \* whose session holds the advisory lock
    connected,  \* connected[p]: p's lock connection still reaches its session
    stop,       \* stop[p]: SIGTERM or SIGINT received
    due,        \* due[p]: actions whose interval has elapsed since their last success
    pending,    \* pending[p]: actions the running tick has still to consider
    flag,       \* flag[p]: LivenessState._lock_held
    recent      \* recent[p]: the last recorded tick is inside the liveness window

vars == <<phase, holder, connected, stop, due, pending, flag, recent>>

Action == {Actions[i] : i \in DOMAIN Actions}
Phase == {"down", "starting", "sleeping", "tick", "stopping"}
Active == {"sleeping", "tick"}

TypeOK ==
    /\ phase \in [Proc -> Phase]
    /\ holder \in Proc \cup {NoProc, Orphan}
    /\ connected \in [Proc -> BOOLEAN]
    /\ stop \in [Proc -> BOOLEAN]
    /\ due \in [Proc -> SUBSET Action]
    /\ \A p \in Proc : \E i \in 1..Len(Actions) + 1 :
          pending[p] = SubSeq(Actions, i, Len(Actions))
    /\ flag \in [Proc -> BOOLEAN]
    /\ recent \in [Proc -> BOOLEAN]

Init ==
    /\ phase = [p \in Proc |-> "down"]
    /\ holder = NoProc
    /\ connected = [p \in Proc |-> FALSE]
    /\ stop = [p \in Proc |-> FALSE]
    /\ due = [p \in Proc |-> {}]
    /\ pending = [p \in Proc |-> <<>>]
    /\ flag = [p \in Proc |-> FALSE]
    /\ recent = [p \in Proc |-> FALSE]

-----------------------------------------------------------------------------
\* async_main up to scheduler.run: every action is due (last_run is -inf).
Start(p) ==
    /\ phase[p] = "down"
    /\ phase' = [phase EXCEPT ![p] = "starting"]
    /\ connected' = [connected EXCEPT ![p] = TRUE]
    /\ stop' = [stop EXCEPT ![p] = FALSE]
    /\ due' = [due EXCEPT ![p] = Action]
    /\ UNCHANGED <<holder, pending, flag, recent>>

\* mutant: pg_try_advisory_lock taken as acquired whoever holds it
LockFree_Ignored == TRUE

\* pg_try_advisory_lock.
LockFree == holder = NoProc

Acquire(p) ==
    /\ phase[p] = "starting" /\ connected[p]
    /\ LockFree
    /\ holder' = p
    /\ flag' = [flag EXCEPT ![p] = TRUE]
    /\ phase' = [phase EXCEPT ![p] = IF stop[p] THEN "stopping" ELSE "sleeping"]
    /\ UNCHANGED <<connected, stop, due, pending, recent>>

\* The lock is held, or the database stayed unreachable: the process exits 1.
Rejected(p) ==
    /\ phase[p] = "starting"
    /\ ~connected[p] \/ ~LockFree
    /\ phase' = [phase EXCEPT ![p] = "down"]
    /\ connected' = [connected EXCEPT ![p] = FALSE]
    /\ UNCHANGED <<holder, stop, due, pending, flag, recent>>

\* mutant: the tick starts without asking the lock connection
PingAnswers_Assumed(p) == TRUE

\* lock_ping.
PingAnswers(p) == connected[p]

\* tick: ping, then take the clock once for all actions.
BeginTick(p) ==
    /\ phase[p] = "sleeping" /\ ~stop[p]
    /\ PingAnswers(p)
    /\ phase' = [phase EXCEPT ![p] = "tick"]
    /\ pending' = [pending EXCEPT ![p] = Actions]
    /\ UNCHANGED <<holder, connected, stop, due, flag, recent>>

\* tick returned False, or the loop saw the stop event: run leaves its loop.
LeaveLoop(p) ==
    /\ phase[p] = "sleeping"
    /\ stop[p] \/ ~PingAnswers(p)
    /\ phase' = [phase EXCEPT ![p] = "stopping"]
    /\ UNCHANGED <<holder, connected, stop, due, pending, flag, recent>>

\* mutant: the first exception ends the pass over the actions
AfterFailure_Break(p) == <<>>

\* What is left of the pass when an action has raised.
AfterFailure(p) == Tail(pending[p])

NextAction(p, a) == phase[p] = "tick" /\ pending[p] # <<>> /\ Head(pending[p]) = a

RunAction(p, a) ==
    /\ NextAction(p, a) /\ a \in due[p]
    /\ \/ /\ due' = [due EXCEPT ![p] = @ \ {a}]
          /\ pending' = [pending EXCEPT ![p] = Tail(@)]
       \/ /\ pending' = [pending EXCEPT ![p] = AfterFailure(p)]
          /\ UNCHANGED due
    /\ UNCHANGED <<phase, holder, connected, stop, flag, recent>>

SkipAction(p, a) ==
    /\ NextAction(p, a) /\ a \notin due[p]
    /\ pending' = [pending EXCEPT ![p] = Tail(@)]
    /\ UNCHANGED <<phase, holder, connected, stop, due, flag, recent>>

\* record_tick, whatever the actions did; then the loop looks at the stop event.
EndTick(p) ==
    /\ phase[p] = "tick" /\ pending[p] = <<>>
    /\ recent' = [recent EXCEPT ![p] = TRUE]
    /\ phase' = [phase EXCEPT ![p] = IF stop[p] THEN "stopping" ELSE "sleeping"]
    /\ UNCHANGED <<holder, connected, stop, due, pending, flag>>

\* pg_advisory_unlock acts on the session's own lock; a dead session has none.
Released(p) == IF holder = p THEN NoProc ELSE holder

\* run's finally: clear the flag, release, close the connection, exit.
Exit(p) ==
    /\ phase[p] = "stopping"
    /\ flag' = [flag EXCEPT ![p] = FALSE]
    /\ recent' = [recent EXCEPT ![p] = FALSE]
    /\ holder' = Released(p)
    /\ connected' = [connected EXCEPT ![p] = FALSE]
    /\ phase' = [phase EXCEPT ![p] = "down"]
    /\ UNCHANGED <<stop, due, pending>>

-----------------------------------------------------------------------------
(* The environment.                                                        *)

Signal(p) ==
    /\ phase[p] # "down" /\ ~stop[p]
    /\ stop' = [stop EXCEPT ![p] = TRUE]
    /\ UNCHANGED <<phase, holder, connected, due, pending, flag, recent>>

\* The database ends the session; the process learns of it at its next ping.
LoseSession(p) ==
    /\ connected[p]
    /\ connected' = [connected EXCEPT ![p] = FALSE]
    /\ holder' = IF holder = p THEN NoProc ELSE holder
    /\ UNCHANGED <<phase, stop, due, pending, flag, recent>>

\* The process dies; its session goes with it, or lingers until it is reaped.
Crash(p) ==
    /\ phase[p] # "down"
    /\ phase' = [phase EXCEPT ![p] = "down"]
    /\ connected' = [connected EXCEPT ![p] = FALSE]
    /\ pending' = [pending EXCEPT ![p] = <<>>]
    /\ flag' = [flag EXCEPT ![p] = FALSE]
    /\ recent' = [recent EXCEPT ![p] = FALSE]
    /\ holder' \in IF holder = p THEN {NoProc, Orphan} ELSE {holder}
    /\ UNCHANGED <<stop, due>>

ReapSession ==
    /\ holder = Orphan
    /\ holder' = NoProc
    /\ UNCHANGED <<phase, connected, stop, due, pending, flag, recent>>

\* The interval of an action elapses between two ticks.
FallsDue(p, a) ==
    /\ phase[p] = "sleeping" /\ a \notin due[p]
    /\ due' = [due EXCEPT ![p] = @ \cup {a}]
    /\ UNCHANGED <<phase, holder, connected, stop, pending, flag, recent>>

\* The last tick leaves the liveness window.
TickAges(p) ==
    /\ recent[p]
    /\ recent' = [recent EXCEPT ![p] = FALSE]
    /\ UNCHANGED <<phase, holder, connected, stop, due, pending, flag>>

\* LivenessState.healthy, what the probe answers 200 for.
Healthy(p) == flag[p] /\ recent[p]

-----------------------------------------------------------------------------
Loop(p) ==
    \/ Start(p) \/ Acquire(p) \/ Rejected(p) \/ BeginTick(p) \/ LeaveLoop(p)
    \/ EndTick(p) \/ Exit(p)
    \/ \E a \in Action : RunAction(p, a) \/ SkipAction(p, a)

Next ==
    \/ \E p \in Proc : \/ Loop(p) \/ Signal(p) \/ LoseSession(p) \/ Crash(p) \/ TickAges(p)
                       \/ \E a \in Action : FallsDue(p, a)
    \/ ReapSession

Spec == Init /\ [][Next]_vars

\* A running process keeps going and Compose restarts one that exited; a starting
\* process tries again and again; the server reaps dead sessions; intervals
\* elapse.  Signals, lost sessions and crashes in the loop come to an end; the steps
\* that leave "starting" and "stopping" are also crashes there, and go on.
FairSpec ==
    /\ Spec
    /\ \A p \in Proc : WF_vars(Loop(p)) /\ SF_vars(Acquire(p)) /\ SF_vars(BeginTick(p))
    /\ \A p \in Proc, a \in Action : SF_vars(FallsDue(p, a))
    /\ WF_vars(ReapSession)
    /\ <>[][\A p \in Proc : ~Signal(p) /\ ~LoseSession(p) /\ (Crash(p) => phase[p] \notin Active)]_vars

-----------------------------------------------------------------------------
\* Two processes are in their tick loops at once only while one of them has lost
\* its session and has not pinged yet: a restart overlap never makes two
\* schedulers with a live lock connection.
OverlapNeedsLostSession ==
    \A p, q \in Proc :
        p # q /\ phase[p] \in Active /\ phase[q] \in Active => ~connected[p] \/ ~connected[q]

\* A process whose lock connection works holds the lock while it ticks, sleeps or
\* shuts down: nobody else's exit or start takes it away.
LockFollowsSession ==
    \A p \in Proc : phase[p] \in Active \cup {"stopping"} /\ connected[p] => holder = p

\* A tick is only ever begun by the process that holds the lock, so a process that
\* lost it finishes at most the tick it was in.
TicksBegunByHolder ==
    [][\A p \in Proc : phase[p] = "sleeping" /\ phase'[p] = "tick" => holder = p]_vars

\* Failure isolation (tick): each driven action is attempted again and again, even
\* when the ones before it in the tick fail for ever.
EachActionKeepsRunning ==
    \A a \in Action : []<><<\E p \in Proc : RunAction(p, a)>>_vars

\* ADR 0030 section 7 wants a healthy probe to mean the lock is held.  The flag of a
\* process that lost its session says so a while longer, but not for ever: the
\* process takes the lock again, or the probe turns unhealthy.
ProbeNoticesLoss ==
    \A p \in Proc : (Healthy(p) /\ holder # p) ~> (~Healthy(p) \/ holder = p)
=============================================================================
