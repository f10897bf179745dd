----------------------------- MODULE AgentMemory -----------------------------
(***************************************************************************)
(* The memory of one conversation: the summary that replaces older turns,   *)
(* the window of recent turns, and the budget, in tokens, both must fit.    *)
(* Several attempts may build their context at once, each from what it      *)
(* read before it asked the provider for a summary; an attempt that lost    *)
(* its lease goes on with the user message it was given.                    *)
(*                                                                         *)
(* A turn is a user message and, when it was answered, its reply; sizes are *)
(* multiples of the 1024 tokens below which no reserve goes.                *)
(***************************************************************************)
EXTENDS Integers, Sequences, FiniteSets, FiniteSetsExt, Functions

CONSTANTS Builder,      \* attempts that build a context
          Conversation, \* the turns, in order: [size |-> tokens, answered |-> BOOLEAN]
          Candidates,   \* candidate chains: sets of [window |-> tokens, output |-> tokens]
          Fixed,        \* tokens of the instruction, the tools and the message itself
          Text,         \* sizes of the provider's summaries; 0 is an empty one
          MaxPasses,    \* max_compression_passes
          MaxBuilds     \* bound: contexts built

VARIABLES
    ended,    \* turns that have ended
    summary,  \* contextSummary, ...ThroughSequence and ...Version
    active,   \* activeProjectId
    visible,  \* projects the user may see
    reader,   \* what each attempt knows
    builds    \* contexts built so far

memoryVars == <<ended, summary, active, visible, reader, builds>>

Project == {"none", "p", "q"}
Turn == 1..Len(Conversation)
MinRecent == 2
NoSummary == [size |-> 0, through |-> 0, version |-> 0]
Idle == [pc |-> "idle", upto |-> 0, hard |-> 0, fixed |-> 0, seen |-> NoSummary, project |-> "none",
         passes |-> 0, why |-> "none", recent |-> {}]

MemoryInit ==
    /\ ended = 0 /\ summary = NoSummary /\ active = "none" /\ visible = Project \ {"none"}
    /\ reader = [b \in Builder |-> Idle] /\ builds = 0

-----------------------------------------------------------------------------
(* Budgets.                                                                 *)

\* effective_candidate_capabilities: the smallest window and output of the chain.
Effective(chain) == [window |-> Min({c.window : c \in chain}), output |-> Min({c.output : c \in chain})]

\* ContextBudget.from_capabilities, max(1, window - output)
HardOf(chain) == LET c == Effective(chain) IN Max({1, c.window - c.output})
ToolReserve(hard) == Max({1, hard \div 4})
SafetyReserve(hard) == Max({1, hard \div 20})
Reserves(hard) == ToolReserve(hard) + SafetyReserve(hard)

\* ConversationContextPolicy.from_budget
HistoryBudget(hard) == hard - Reserves(hard)
Trigger(hard) == Max({1, (HistoryBudget(hard) * 85) \div 100})
Half(hard) == Max({1, HistoryBudget(hard) \div 2})

\* What the constructors of both policies refuse.
ValidPolicy(hard) == HistoryBudget(hard) > 0 /\ Half(hard) < Trigger(hard)

\* history_budget_for; build takes the policy's budget when nothing is left of it.
Left(hard, fixed) == Max({0, hard - (fixed + Reserves(hard))})
EffectiveBudget(hard, fixed) == IF Left(hard, fixed) > 0 THEN Left(hard, fixed) ELSE HistoryBudget(hard)

TriggerOf(r) == Min({Trigger(r.hard), EffectiveBudget(r.hard, r.fixed)})

-----------------------------------------------------------------------------
(* What build computes from the rows it read.                               *)

SizeOf(turns) == FoldFunctionOnSet(LAMBDA a, b : a + b, 0, [i \in Turn |-> Conversation[i].size], turns)

\* _completed_turns: the answered turns after the summary and before the message.
Eligible(r) == {i \in r.seen.through + 1..r.upto : Conversation[i].answered}

\* The newest k of a set of turns.
Newest(turns, k) == {i \in turns : Cardinality({j \in turns : j >= i}) <= k}
Oldest(turns, k) == {i \in turns : Cardinality({j \in turns : j <= i}) <= k}

\* _result: turns are taken from the newest on; the first two always, a further one
\* while it fits.
Selected(r) ==
    LET all == Eligible(r)
        budget == EffectiveBudget(r.hard, r.fixed)
        fits(k) == \A j \in MinRecent + 1..k : r.seen.size + SizeOf(Newest(all, j)) <= budget
    IN  Newest(all, Max({k \in 0..Cardinality(all) : fits(k)}))

\* _bounded_prefix of the turns older than the protected ones.
Batch(r) ==
    LET old == Eligible(r) \ Newest(Eligible(r), MinRecent)
    IN  Oldest(old, Max({k \in 0..Cardinality(old) : SizeOf(Oldest(old, k)) <= Half(r.hard)}))

\* _bounded_text
Cut(size, hard) == Min({size, Half(hard)})

\* core.run refuses a degraded context, and a request beyond the hard budget.
Refuses(r) == Eligible(r) # Selected(r)

TooLarge(r) == r.fixed + r.seen.size + SizeOf(Selected(r)) > r.hard

\* The context is returned to core.run.
Returned(r, why) ==
    [r EXCEPT !.why = why, !.recent = Selected(r),
              !.pc = IF Refuses(r) THEN "refused" ELSE IF TooLarge(r) THEN "large" ELSE "running"]

-----------------------------------------------------------------------------
(* The steps of an attempt.                                                 *)

Update(b, r) == reader' = [reader EXCEPT ![b] = r]

\* The statement of _load: the conversation, and its messages before the current one.
Loaded(r) == [r EXCEPT !.pc = "loaded", !.seen = summary, !.project = active]

\* _invoke_core: the candidates, the budget and the fixed overhead are frozen.
BeginBuild(b, chain, fixed) ==
    /\ reader[b].pc = "idle" /\ builds < MaxBuilds
    /\ builds' = builds + 1
    /\ LET r == [Idle EXCEPT !.upto = ended, !.hard = HardOf(chain), !.fixed = fixed]
       IN  Update(b, IF ValidPolicy(HardOf(chain)) THEN Loaded(r) ELSE [r EXCEPT !.pc = "failed"])
    /\ UNCHANGED <<ended, summary, active, visible>>

Reload(b) ==
    /\ reader[b].pc = "reload"
    /\ Update(b, Loaded(reader[b]))
    /\ UNCHANGED <<ended, summary, active, visible, builds>>

\* _active_project: a project out of scope is dropped in a transaction of its own.
CheckActive(b) ==
    /\ reader[b].pc = "loaded"
    /\ LET known == reader[b].project \in visible \cup {"none"}
       IN  Update(b, [reader[b] EXCEPT !.pc = IF known THEN "checked" ELSE "hidden"])
    /\ UNCHANGED <<ended, summary, active, visible, builds>>

DropActive(b) ==
    /\ reader[b].pc = "hidden"
    /\ active' = IF active = reader[b].project THEN "none" ELSE active
    /\ Update(b, [reader[b] EXCEPT !.pc = "checked", !.project = "none"])
    /\ UNCHANGED <<ended, summary, visible, builds>>

\* The head of the loop: all fits, nothing can be compressed, no pass is left, or a
\* summary is asked for.
Weigh(b) ==
    /\ reader[b].pc = "checked"
    /\ LET r == reader[b]
       IN  Update(b, IF r.seen.size + SizeOf(Eligible(r)) <= TriggerOf(r) THEN Returned(r, "fits")
                     ELSE IF Batch(r) = {} THEN Returned(r, "nothing to compress")
                     ELSE IF r.passes >= MaxPasses THEN Returned(r, "passes")
                     ELSE [r EXCEPT !.pc = "summing", !.passes = @ + 1])
    /\ UNCHANGED <<ended, summary, active, visible, builds>>

\* The provider failed, called a tool, or answered nothing.
NoSummaryComes(b) ==
    /\ reader[b].pc = "summing"
    /\ Update(b, Returned(reader[b], "provider"))
    /\ UNCHANGED <<ended, summary, active, visible, builds>>

\* The comparison of _compare_and_set_summary.
Unchanged(r) == summary.version = r.seen.version /\ summary.through = r.seen.through

\* _compare_and_set_summary, and back to the head of the loop either way.
Summarize(b, size) ==
    /\ reader[b].pc = "summing" /\ size > 0
    /\ LET r == reader[b]
       IN  /\ summary' = IF Unchanged(r) /\ Max(Batch(r)) > r.seen.through
                         THEN [size |-> Cut(size, r.hard), through |-> Max(Batch(r)), version |-> summary.version + 1]
                         ELSE summary
           /\ Update(b, [r EXCEPT !.pc = "reload"])
    /\ UNCHANGED <<ended, active, visible, builds>>

\* The turn ends: answered, with the project it resolved, or not.  A stale attempt of an
\* earlier turn is stopped by its fence.
EndTurn(b) ==
    /\ reader[b].pc \in {"running", "refused", "large", "failed"}
    /\ IF reader[b].upto = ended /\ ended < Len(Conversation)
          /\ (Conversation[ended + 1].answered => reader[b].pc = "running")
       THEN /\ ended' = ended + 1
            /\ active' \in IF Conversation[ended + 1].answered THEN {active} \cup visible ELSE {active}
       ELSE UNCHANGED <<ended, active>>
    /\ Update(b, Idle)
    /\ UNCHANGED <<summary, visible, builds>>

\* An administrator takes a project away, or gives it back.
Rescope ==
    /\ visible' \in {Project \ {"none"}, {"q"}} \ {visible}
    /\ UNCHANGED <<ended, summary, active, reader, builds>>

MemoryNext ==
    \/ \E b \in Builder, chain \in Candidates, fixed \in Fixed : BeginBuild(b, chain, fixed)
    \/ \E b \in Builder : Reload(b) \/ CheckActive(b) \/ DropActive(b) \/ Weigh(b) \/ NoSummaryComes(b) \/ EndTurn(b)
    \/ \E b \in Builder, size \in Text : Summarize(b, size)
    \/ Rescope

-----------------------------------------------------------------------------
MemoryTypeOK ==
    /\ ended \in 0..Len(Conversation)
    /\ summary \in [size : Nat, through : 0..Len(Conversation), version : Nat]
    /\ active \in Project /\ visible \subseteq Project
    /\ \A b \in Builder : reader[b].upto <= ended /\ reader[b].recent \subseteq Turn
    /\ builds \in 0..MaxBuilds

\* The provider is never asked on an incomplete memory: each answered turn before the
\* message is in the recent window or under the summary (AgentConversationContext).
AnswersRememberAll ==
    \A b \in Builder : reader[b].pc \in {"running", "large"} =>
        \A i \in 1..reader[b].upto :
            Conversation[i].answered => i <= reader[b].seen.through \/ i \in reader[b].recent

\* A turn is refused for its memory only when the provider gave no summary, the passes
\* ran out, or a turn alone exceeds the summarizer's input: compression is tried
\* before any turn would have to be dropped.
NoNeedlessRefusal ==
    \A b \in Builder : reader[b].pc = "refused" =>
        \/ reader[b].why \in {"provider", "passes"}
        \/ \E i \in Eligible(reader[b]) : Conversation[i].size > Half(reader[b].hard)

\* A summary written over a newer one would lose the turns only the newer one covers,
\* or make the row claim fewer turns than it holds.
MemoryOnlyGrows ==
    [][summary'.through >= summary.through /\ summary'.version >= summary.version
       /\ (summary' # summary => summary'.version > summary.version /\ summary'.through > summary.through)]_memoryVars
=============================================================================
