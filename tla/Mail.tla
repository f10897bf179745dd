-------------------------------- MODULE Mail --------------------------------
(***************************************************************************)
(* A mailbox and one of its mails: the synchronisation that hands mails     *)
(* over, and the stages one of them goes through afterwards.  Of the stages *)
(* the synchronisation sees what Downstream lets them choose; of it they    *)
(* see the handoff they start from.                                        *)
(***************************************************************************)
EXTENDS MailSync, MailContent

CONSTANTS Source, Outputs, Answers, Filter, DefaultKeywords,
          StageAttempts, MaxCands, MaxRetries, StageFaults   \* of MailStages

\* What a provider lists in the output of a review.
Item == [complete : BOOLEAN, option : Int, category : Int, level : STRING, fields : BOOLEAN, confidence : Int]

ASSUME MailAssumption ==
    /\ Project \subseteq Nat /\ Visible \subseteq Project /\ IsFiniteSet(Project)
    /\ MaxCandidates \in Nat \ {0}
    /\ {MaxAttachments, MaxAttachmentSize, MaxTotalSize, MaxAttachmentChars, MaxDelivered} \subseteq Nat
    /\ StageAttempts \in Nat \ {0}
    /\ {MaxCands, MaxRetries, StageFaults} \subseteq Nat
    /\ \A answer \in Answers : answer.confidence \in Int
    /\ \A raw \in Outputs : raw.risks \in Seq(Item)

\* What the workers make of each mail: its parts, whether the provider is asked about its
\* project, and which project is found with each answer.
Parsed == [m \in DOMAIN Source |-> ParseMail(Source[m].parts)]
MustAsk == [m \in DOMAIN Source |-> NeedsProvider(Source[m].mentions)]
Found == [m \in DOMAIN Source |-> [answer \in Answers |-> Resolve(Source[m].mentions, answer).project]]

VARIABLES mail, stage, message, cand, setting, stageTask, stageWorker, told, count

Stages == INSTANCE MailStages WITH MaxAttempts <- StageAttempts, MaxFaults <- StageFaults,
                                   handoff <- stage, task <- stageTask, worker <- stageWorker

stagesVars == <<mail, stage, message, cand, setting, stageTask, stageWorker, told, count>>

MailInit == Init /\ Stages!Init

SyncStep == Next /\ UNCHANGED stagesVars
StagesStep == Stages!Next /\ UNCHANGED vars

MailNext == SyncStep \/ StagesStep

MailSpec == MailInit /\ [][MailNext]_<<vars, stagesVars>>

-----------------------------------------------------------------------------
\* What the stages leave behind of a mail is consistent (MailStages).
StagesHold == Stages!StagesHold

\* The weekly report hears of each change of what it counts (MailStages).
WeeklyHears == Stages!WeeklyHears

\* An undisturbed message that was matched is completed or failed (MailStages).
MessageSettles == Stages!MessageSettles
=============================================================================
