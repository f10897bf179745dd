------------------------------- MODULE MCAgent -------------------------------
(***************************************************************************)
(* TLC instances of Agent.  The parts of a turn are looked at one by one:    *)
(* "focus" names the part whose steps a behaviour shows, with those steps of *)
(* another part that reach it.                                              *)
(***************************************************************************)
EXTENDS Agent, TLC

CONSTANTS b1, b2, k1, q1, q2

VARIABLE focus

\* Bound: one of the tasks, the first or the one that resumes it, is tried a second time.
OneRetried == Cardinality({t \in Task : attempt'[t] > 1}) <= 1

MCInit == AgentInit /\ focus \in {"turn", "memory", "loop", "writes"}

MCNext ==
    \/ focus = "turn" /\ TurnStep /\ OneRetried /\ UNCHANGED focus
    \/ focus = "memory" /\ Core!MemoryStep /\ UNCHANGED <<vars, focus>>
    \/ focus = "loop" /\ (Core!LoopStep \/ Core!WorldStep \/ Core!BesideStep) /\ UNCHANGED <<vars, focus>>
    \/ focus = "writes" /\ (Core!WritesStep \/ Core!BesideStep \/ Core!AbortStep) /\ UNCHANGED <<vars, focus>>

MCSpec == MCInit /\ [][MCNext]_<<vars, coreVars, focus>>

-----------------------------------------------------------------------------
MCTokenOp == k1 :> "create"
\* A result, and a smaller one, which is that of an ambiguous search.
MCResult == {[size |-> 2, found |-> 0], [size |-> 1, found |-> 2]}

\* A long conversation with a large and an unanswered turn.
LOCAL T(size) == [size |-> size, answered |-> TRUE]
MCConversation == <<T(3), T(2), T(3), [size |-> 4, answered |-> FALSE], T(4), T(9), T(2)>>

\* Chains of models: a roomy one, a chain whose second model is smaller, one too small.
LOCAL Model(window, output) == [window |-> window, output |-> output]
MCCandidates == {{Model(24, 4)}, {Model(24, 4), Model(20, 5)}, {Model(3, 1)}}
=============================================================================
