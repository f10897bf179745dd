------------------------------ MODULE AgentCore ------------------------------
(***************************************************************************)
(* Memory, loop and writes of one conversation.  The memory is built before *)
(* the loop begins and shares no row with it but the active project; the    *)
(* writes go on after the loop has ended.  Attempts whose loop is not       *)
(* followed propose and end beside it.                                      *)
(***************************************************************************)
EXTENDS AgentMemory, AgentLoop

vars == <<memoryVars, writesVars, loopVars>>

Init == MemoryInit /\ WritesInit /\ LoopInit

\* A proposal of an attempt, or its end, as the writes see them.
ProposeBeside(op) == Valid(op) /\ Proposed(op)
EndBeside ==
    /\ holder = 0 /\ mayAppend /\ mayAppend' = FALSE /\ turn' \in {"COMPLETED", "FAILED"}
    /\ UNCHANGED <<worldVars, drafts, tokens, request, written>>

\* It was cancelled while it proposed.
AbortBeside == (\E d \in Draft : drafts[d].status # "none") /\ CloseProposal

Beside == (\E op \in Operation : ProposeBeside(op)) \/ EndBeside

MemoryStep == MemoryNext /\ UNCHANGED <<writesVars, loopVars>>
LoopStep == LoopNext /\ UNCHANGED memoryVars
WritesStep == WritesNext /\ UNCHANGED <<memoryVars, loopVars>>
\* What administrators change while the loop runs.
WorldStep == Regrant /\ UNCHANGED <<memoryVars, loopVars>>
BesideStep == Beside /\ UNCHANGED <<memoryVars, loopVars>>
AbortStep == AbortBeside /\ UNCHANGED <<memoryVars, loopVars>>

Next == MemoryStep \/ LoopStep \/ WritesStep \/ BesideStep \/ AbortStep

Spec == Init /\ [][Next]_vars

TypeOK == MemoryTypeOK /\ WritesTypeOK /\ LoopTypeOK

\* What the provider is asked with is complete and fits: every turn the answer rests on is
\* remembered, nothing is refused that could be compressed, results fit their reserve and
\* an ambiguous search is asked about first.
PromptsAreComplete ==
    TypeOK /\ AnswersRememberAll /\ NoNeedlessRefusal /\ ReserveHoldsResults /\ AmbiguousIsAsked

\* No step takes back what another attempt or answer has done: not the memory, not the
\* turn a write was confirmed in.
NothingIsTakenBack == MemoryOnlyGrows /\ AnswerEndsTurn
=============================================================================
