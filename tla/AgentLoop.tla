------------------------------ MODULE AgentLoop ------------------------------
(***************************************************************************)
(* The loop of one turn: ask the model, run the tools it calls side by      *)
(* side, give it the results, until it answers or a limit is met.  An       *)
(* attempt may lose its lease and go on beside the one that took over; a    *)
(* call that raises ends the loop while the other calls of the response     *)
(* still run (asyncio.gather cancels nothing).                              *)
(***************************************************************************)
EXTENDS AgentWrites, FiniteSetsExt, SequencesExt

CONSTANTS Worker,       \* attempts of the turn's task
          MaxRounds, MaxCalls, MaxParallel, Threshold, \* AgentLoopLimits
          Reserve,      \* tool_result_reserve
          Result,       \* results of reading tools: [size |-> tokens, found |-> projects a search found]
          Tools         \* the tools the model calls

VARIABLES
    loop,     \* loop[w]: the local state of an attempt
    holder,   \* the attempt that holds the lease, 0 for none
    cancel    \* cancellationRequestedAt is set

loopVars == <<loop, holder, cancel>>

Fresh == [pc |-> "idle", identity |-> {}, asked |-> {}, chosen |-> FALSE, rounds |-> 0, made |-> 0,
          repeated |-> [t \in Tools |-> 0], total |-> 0, held |-> 0, calls |-> <<>>]
NewCall(tool) == [tool |-> tool, state |-> "new", size |-> 0, found |-> 0]

LoopInit == loop = [w \in Worker |-> Fresh] /\ holder = 0 /\ cancel = FALSE

\* A tool named after a write proposes it; the others only read.
Proposal(tool) == tool \in Operation
NeedsOf(tool) == IF Proposal(tool) THEN "report" ELSE "view"

-----------------------------------------------------------------------------
(* The attempt and its lease.                                               *)

\* _load, under the lease: the identity is read once, the selection if there was one.
BeginAttempt(w, chosen) ==
    /\ holder = 0 /\ loop[w].pc = "idle" /\ turn = "RUNNING" /\ ~cancel
    /\ holder' = w
    /\ loop' = [loop EXCEPT ![w].pc = "asking", ![w].identity = rights, ![w].chosen = chosen]
    /\ UNCHANGED <<writesVars, cancel>>

LoseTurn == holder # 0 /\ holder' = 0 /\ UNCHANGED <<writesVars, loop, cancel>>

CancelTurn == ~cancel /\ turn = "RUNNING" /\ cancel' = TRUE /\ UNCHANGED <<writesVars, loop, holder>>

\* The heartbeat of _run_with_heartbeat finds the flag set or the lease gone; the calls
\* under way are cancelled with the loop.
HeartbeatFinds(w) ==
    /\ loop[w].pc \in {"asking", "calling"} /\ (cancel \/ holder # w)
    /\ loop' = [loop EXCEPT ![w].pc = "stopped", ![w].calls = <<>>]
    /\ turn' = IF cancel /\ turn \notin {"COMPLETED", "CANCELLED"} THEN "CANCELLED" ELSE turn
    /\ UNCHANGED <<worldVars, mayAppend, drafts, tokens, request, written, holder, cancel>>

-----------------------------------------------------------------------------
(* Asking the model.                                                        *)

Occurs(tool, response) == Cardinality({i \in DOMAIN response : response[i] = tool})

\* The checks of a response before any of its calls runs.
Admits(r, response) ==
    /\ Len(response) <= MaxParallel
    /\ r.made + Len(response) <= MaxCalls
    /\ r.chosen => Occurs("search", response) = 0
    /\ \A t \in Tools : r.repeated[t] + Occurs(t, response) <= Threshold

Response == UNION {[1..n -> Tools] : n \in 1..MaxParallel + 1}

\* The model answers with text, or no provider answers.
ModelEnds(w) ==
    /\ loop[w].pc = "asking" /\ loop[w].rounds < MaxRounds
    /\ \E pc \in {"answer", "retry"} : loop' = [loop EXCEPT ![w].pc = pc]
    /\ UNCHANGED <<writesVars, holder, cancel>>

\* The model calls tools.  They start together, unless a limit is met.
ModelCalls(w, response) ==
    LET r == loop[w] IN
    /\ r.pc = "asking" /\ r.rounds < MaxRounds
    /\ loop' = [loop EXCEPT ![w] = IF ~Admits(r, response) THEN [r EXCEPT !.pc = "error"]
                                   ELSE [r EXCEPT !.pc = "calling", !.rounds = @ + 1, !.asked = rights,
                                                  !.made = @ + Len(response),
                                                  !.repeated = [t \in Tools |-> @[t] + Occurs(t, response)],
                                                  !.calls = [i \in DOMAIN response |-> NewCall(response[i])]]]
    /\ UNCHANGED <<writesVars, holder, cancel>>

\* AGENT_MAX_MODEL_ROUNDS
RoundsSpent(w) ==
    /\ loop[w].pc = "asking" /\ loop[w].rounds = MaxRounds
    /\ loop' = [loop EXCEPT ![w].pc = "error"]
    /\ UNCHANGED <<writesVars, holder, cancel>>

-----------------------------------------------------------------------------
(* Running the calls.                                                       *)

\* _invoke_current: the application composes the core without an identity loader, so
\* that every call uses the identity the attempt began with.
IdentityOf(w) == loop[w].identity

\* The first call to raise ends the loop with its error; later ones change nothing.
Raise(r, i, state) ==
    [r EXCEPT !.calls[i].state = state,
              !.pc = IF r.pc # "calling" THEN r.pc ELSE IF state = "raised" THEN "error" ELSE "proposed"]

\* invoke of a reading tool: the permission, the arguments, the query over the scope as
\* it is now, and the adapter of its result.
InvokeRead(w, i, result) ==
    LET r == loop[w]
        permitted == NeedsOf(r.calls[i].tool) \in IdentityOf(w)
        found == IF r.calls[i].tool = "search" /\ inScope THEN result.found ELSE 0 IN
    /\ i \in DOMAIN r.calls /\ r.calls[i].state = "new" /\ ~Proposal(r.calls[i].tool)
    /\ loop' \in {[loop EXCEPT ![w] = x] :
                    x \in {Raise(r, i, "raised")}
                          \cup IF permitted THEN {[r EXCEPT !.calls[i] = [@ EXCEPT !.state = "ok", !.size = result.size, !.found = found]]}
                               ELSE {}}
    /\ UNCHANGED <<writesVars, holder, cancel>>

\* invoke of a proposal, up to the end of _prevalidate.
InvokeProposal(w, i) ==
    LET r == loop[w]
        tool == r.calls[i].tool
        admitted == NeedsOf(tool) \in IdentityOf(w) /\ MayPropose(tool, IdentityOf(w)) /\ Valid(tool) IN
    /\ i \in DOMAIN r.calls /\ r.calls[i].state = "new" /\ Proposal(tool)
    /\ loop' = [loop EXCEPT ![w] = IF admitted THEN [r EXCEPT !.calls[i].state = "valid"] ELSE Raise(r, i, "raised")]
    /\ UNCHANGED <<writesVars, holder, cancel>>

\* The transaction of propose, and MutationConfirmationRequired.
ProposeCall(w, i) ==
    LET r == loop[w] IN
    /\ i \in DOMAIN r.calls /\ r.calls[i].state = "valid"
    /\ IF mayAppend THEN Proposed(r.calls[i].tool) /\ loop' = [loop EXCEPT ![w] = Raise(r, i, "proposed")]
                    ELSE loop' = [loop EXCEPT ![w] = Raise(r, i, "raised")] /\ UNCHANGED writesVars
    /\ UNCHANGED <<holder, cancel>>

\* A search that found several projects asks the user, whatever else was called.
Ambiguous(r) == \E i \in DOMAIN r.calls : r.calls[i].tool = "search" /\ r.calls[i].found > 1

\* mutant: each result is compared with the reserve, their sum is not
Total_Each(r) == Max({r.calls[i].size : i \in DOMAIN r.calls})

\* The running sum of all results of the turn.
Total(r) == r.total + FoldSeq(LAMBDA call, sum : call.size + sum, 0, r.calls)

Sum(calls) == FoldSeq(LAMBDA call, sum : call.size + sum, 0, calls)

\* gather returns: a selection, a limit, or the results as messages of the next round.
Collect(w) ==
    LET r == loop[w] IN
    /\ r.pc = "calling" /\ \A i \in DOMAIN r.calls : r.calls[i].state = "ok"
    /\ loop' = [loop EXCEPT ![w] = IF Ambiguous(r) THEN [r EXCEPT !.pc = "select"]
                                   ELSE IF Total(r) > Reserve THEN [r EXCEPT !.pc = "error"]
                                   ELSE [r EXCEPT !.pc = "asking", !.total = Total(r), !.held = @ + Sum(r.calls)]]
    /\ UNCHANGED <<writesVars, holder, cancel>>

-----------------------------------------------------------------------------
(* Ends of the attempt.                                                     *)

\* Calls that still run outlive the loop; nothing else of it does.
Rest(r) ==
    IF \E i \in DOMAIN r.calls : r.calls[i].state \in {"new", "valid"}
    THEN [Fresh EXCEPT !.pc = "done", !.identity = r.identity, !.asked = r.asked, !.calls = r.calls]
    ELSE [Fresh EXCEPT !.pc = "done"]

Leave(w) == loop' = [loop EXCEPT ![w] = Rest(loop[w])] /\ holder' = IF holder = w THEN 0 ELSE holder

\* _complete, fenced by the lease; a cancel that came meanwhile wins.
Complete(w) ==
    /\ loop[w].pc = "answer" /\ Leave(w)
    /\ IF holder = w /\ mayAppend /\ ~cancel THEN turn' = "COMPLETED" /\ mayAppend' = FALSE
       ELSE turn' = (IF cancel /\ turn \notin {"COMPLETED", "CANCELLED"} THEN "CANCELLED" ELSE turn) /\ UNCHANGED mayAppend
    /\ UNCHANGED <<worldVars, drafts, tokens, request, written, cancel>>

\* _error, fenced by the lease; the questions of the turn stay open.
FailTurn(w) ==
    /\ loop[w].pc = "error" /\ Leave(w)
    /\ IF holder = w /\ mayAppend THEN turn' = "FAILED" /\ mayAppend' = FALSE ELSE UNCHANGED <<turn, mayAppend>>
    /\ UNCHANGED <<worldVars, drafts, tokens, request, written, cancel>>

\* _wait_for_project_selection, fenced; no provider (the task is retried); a stop.
LeaveTurn(w) ==
    /\ loop[w].pc \in {"select", "retry", "stopped"} /\ Leave(w)
    /\ turn' = IF loop[w].pc = "select" /\ holder = w /\ ~cancel THEN "WAITING" ELSE turn
    /\ UNCHANGED <<worldVars, mayAppend, drafts, tokens, request, written, cancel>>

\* MutationConfirmationRequired ends the attempt; a proposal that met a cancel is closed.
AbortProposal(w) ==
    /\ loop[w].pc = "proposed" /\ Leave(w)
    /\ IF cancel THEN CloseProposal ELSE UNCHANGED writesVars
    /\ UNCHANGED cancel

LoopNext ==
    \/ \E w \in Worker, chosen \in BOOLEAN : BeginAttempt(w, chosen)
    \/ LoseTurn \/ CancelTurn
    \/ \E w \in Worker : HeartbeatFinds(w) \/ ModelEnds(w) \/ RoundsSpent(w) \/ Collect(w)
                         \/ Complete(w) \/ FailTurn(w) \/ LeaveTurn(w) \/ AbortProposal(w)
    \/ \E w \in Worker, response \in Response : ModelCalls(w, response)
    \/ \E w \in Worker, i \in 1..MaxParallel :
          \/ \E result \in Result : InvokeRead(w, i, result)
          \/ InvokeProposal(w, i) \/ ProposeCall(w, i)

-----------------------------------------------------------------------------
LoopTypeOK ==
    /\ holder \in Worker \cup {0} /\ cancel \in BOOLEAN
    /\ \A w \in Worker : loop[w].rounds \in 0..MaxRounds /\ loop[w].made \in 0..MaxCalls

\* The results the model is sent with the next request fit the reserve kept free for
\* them when the memory was sized, over all rounds of the turn.
ReserveHoldsResults == \A w \in Worker : loop[w].held <= Reserve

\* No attempt goes on with a search that named several projects.
AmbiguousIsAsked ==
    \A w \in Worker : loop[w].pc \in {"asking", "answer"} =>
        ~\E i \in DOMAIN loop[w].calls : loop[w].calls[i].tool = "search" /\ loop[w].calls[i].found > 1
=============================================================================
