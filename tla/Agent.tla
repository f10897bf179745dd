------------------------------- MODULE Agent --------------------------------
(***************************************************************************)
(* A conversation's turn and what its attempts do with the model between    *)
(* two changes of the turn's rows: build the memory, run the tools, propose *)
(* and redeem writes.                                                       *)
(***************************************************************************)
EXTENDS AgentTurn, Sequences

CONSTANTS Builder, Conversation, Candidates, Fixed, Text, MaxPasses, MaxBuilds, \* of AgentMemory
          Draft, Token, TokenOp, Request, MaxRegrants,                          \* of AgentWrites
          Worker, MaxRounds, MaxCalls, MaxParallel, Threshold, Reserve, Result, Tools \* of AgentLoop

ASSUME AgentAssumption ==
    /\ Conversation \in Seq([size : Nat, answered : BOOLEAN])
    /\ TokenOp \in [Token -> {"create", "resolve"}]

VARIABLES memoryEnded, summary, active, visible, reader, builds,
          rights, inScope, category, regrants, turn, mayAppend, drafts, tokens, request, written,
          loop, holder, loopCancel

Core == INSTANCE AgentCore WITH ended <- memoryEnded, cancel <- loopCancel

coreVars == <<memoryEnded, summary, active, visible, reader, builds,
              rights, inScope, category, regrants, turn, mayAppend, drafts, tokens, request, written,
              loop, holder, loopCancel>>

AgentInit == Init /\ Core!Init

\* A transaction that changes the rows of the turn, or a step of an attempt between two.
TurnStep == Next /\ UNCHANGED coreVars
CoreStep == Core!Next /\ UNCHANGED vars

AgentNext == TurnStep \/ CoreStep

AgentSpec == AgentInit /\ [][AgentNext]_<<vars, coreVars>>

-----------------------------------------------------------------------------
\* What the provider is asked with is complete and fits (AgentCore).
PromptsAreComplete == Core!PromptsAreComplete

\* Every domain write has the answer that asked for it (AgentWrites).
AnswersHaveTheirWrites == Core!AnswersHaveTheirWrites

\* No step takes back what another attempt or answer has done (AgentCore).
NothingIsTakenBack == Core!NothingIsTakenBack
=============================================================================
