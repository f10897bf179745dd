----------------------------- MODULE AgentWrites -----------------------------
(***************************************************************************)
(* What the agent may write, and how the user's answer writes it: drafts    *)
(* opened by a proposal and confirmed through their interaction, and the    *)
(* older confirmation tokens, redeemed once.  Meanwhile an administrator    *)
(* changes rights, project scope and categories, and the user's browser     *)
(* sends the same answer twice.                                             *)
(*                                                                         *)
(* A transaction that waits on a row another one holds is two steps here:   *)
(* its checks, made while it holds its rows, and its commit.                *)
(***************************************************************************)
EXTENDS Naturals, Sequences, FiniteSets

CONSTANTS Draft,        \* drafts, in the order they are opened
          Token,        \* confirmation tokens left in the table
          TokenOp,      \* what each of them does
          Request,      \* requests of the user under way at once
          MaxRegrants   \* bound: changes of rights, scope or the category

VARIABLES
    rights,    \* the user's permissions
    inScope,   \* the project is in the user's scope
    category,  \* the category: [active, version]; the version stands for its contents
    regrants,  \* changes made so far
    turn,      \* AgentExecution.status
    mayAppend, \* the task has no terminal event yet
    drafts,    \* MutationDraft with its AgentInteraction
    tokens,    \* AgentConfirmationToken
    request,   \* the user's requests
    written    \* ghost: the domain writes, in the order they were committed

worldVars == <<rights, inScope, category, regrants>>
writesVars == <<worldVars, turn, mayAppend, drafts, tokens, request, written>>

Permission == {"view", "report", "resolve"}
Operation == {"create", "resolve"}
NoDraft == [status |-> "none", op |-> "none", late |-> FALSE]
NoRequest == [pc |-> "idle", draft |-> 0, token |-> 0, action |-> "none", seen |-> 0]

WritesInit ==
    /\ rights = Permission /\ inScope = TRUE /\ category = [active |-> TRUE, version |-> 1] /\ regrants = 0
    /\ turn = "RUNNING" /\ mayAppend = TRUE
    /\ drafts = [d \in Draft |-> NoDraft]
    /\ tokens = [k \in Token |-> [op |-> TokenOp[k], used |-> FALSE, binding |-> 1, scope |-> <<Permission, TRUE>>]]
    /\ request = [q \in Request |-> NoRequest]
    /\ written = <<>>

-----------------------------------------------------------------------------
(* The world around the agent.                                              *)

\* The row locks held between two steps of a request.
DraftLocked(d) == \E q \in Request : request[q].draft = d /\ request[q].pc = "checked"
TokenLocked(k) == \E q \in Request : request[q].token = k /\ request[q].pc \in {"redeeming", "bound"}

CategoryLocked == \E q \in Request : request[q].pc = "bound"

Regrant ==
    /\ regrants < MaxRegrants /\ regrants' = regrants + 1
    /\ \/ rights' \in {Permission, {"view"}, {"view", "report"}} \ {rights} /\ UNCHANGED <<inScope, category>>
       \/ inScope' = ~inScope /\ UNCHANGED <<rights, category>>
       \/ /\ ~CategoryLocked
          /\ \E active \in BOOLEAN : category' = [active |-> active, version |-> category.version + 1]
          /\ UNCHANGED <<rights, inScope>>
    /\ UNCHANGED <<turn, mayAppend, drafts, tokens, request, written>>

\* The hours of a draft run out.
RunsOut ==
    /\ \E d \in Draft : drafts[d].status = "OPEN" /\ ~drafts[d].late /\ drafts' = [drafts EXCEPT ![d].late = TRUE]
    /\ UNCHANGED <<worldVars, turn, mayAppend, tokens, request, written>>

-----------------------------------------------------------------------------
(* Proposals.                                                               *)

\* The permission check of propose, against the rights the attempt holds.
MayPropose(op, held) == "report" \in held \/ (op # "create" /\ "resolve" \in held)

\* _prevalidate_session: the project is in scope, and a new risk's category is in use.
Valid(op) == inScope /\ (op = "create" => category.active)

FreshDraft == {d \in Draft : drafts[d] = NoDraft /\ \A e \in 1..d - 1 : drafts[e] # NoDraft}

\* The transaction of propose: interaction, draft, the turn waits.  No lease is looked at,
\* nor the turn's status; append_event alone refuses after a terminal event.
Proposed(op) ==
    /\ mayAppend
    /\ \E d \in FreshDraft : drafts' = [drafts EXCEPT ![d] = [NoDraft EXCEPT !.status = "OPEN", !.op = op]]
    /\ turn' = "WAITING"
    /\ UNCHANGED <<worldVars, mayAppend, tokens, request, written>>

\* _abort_write_confirmation_if_cancelled locks the turn, then its open questions, of which
\* it closes one.  An answer that is being written holds its question and waits for the
\* turn: PostgreSQL ends one of the two.
CloseProposal ==
    LET open == {d \in Draft : drafts[d].status = "OPEN"}
        answering == {q \in Request : request[q].pc = "checked" /\ request[q].draft \in open} IN
    /\ \/ answering # {} /\ UNCHANGED <<turn, drafts, request>>
       \/ /\ turn' = IF turn = "COMPLETED" THEN turn ELSE "CANCELLED"
          /\ IF open = {} THEN UNCHANGED drafts ELSE \E d \in open : drafts' = [drafts EXCEPT ![d].status = "CANCELLED"]
          /\ request' = [q \in Request |-> IF q \in answering THEN NoRequest ELSE request[q]]
    /\ UNCHANGED <<worldVars, mayAppend, tokens, written>>

-----------------------------------------------------------------------------
(* Answering a draft.                                                       *)

Go(q, pc) == request' = [request EXCEPT ![q].pc = pc]
Done(q) == request' = [request EXCEPT ![q] = NoRequest]

\* AgentInteractionService.respond reads the type of the interaction.
Answer(q, d, action) ==
    /\ request[q] = NoRequest /\ drafts[d].status # "none"
    /\ request' = [request EXCEPT ![q] = [NoRequest EXCEPT !.pc = "expiry", !.draft = d, !.action = action]]
    /\ UNCHANGED <<worldVars, turn, mayAppend, drafts, tokens, written>>

\* _expire_open_interaction, in a transaction that commits before 410 is raised.
ExpireDraft(q) ==
    LET d == request[q].draft IN
    /\ request[q].pc = "expiry" /\ ~DraftLocked(d)
    /\ IF drafts[d].status = "OPEN" /\ drafts[d].late
       THEN IF mayAppend
            THEN /\ drafts' = [drafts EXCEPT ![d].status = "EXPIRED"]
                 /\ turn' = IF turn = "WAITING" THEN "CANCELLED" ELSE turn
                 /\ Done(q)
            ELSE Done(q) /\ UNCHANGED <<drafts, turn>>
       ELSE Go(q, "answer") /\ UNCHANGED <<drafts, turn>>
    /\ UNCHANGED <<worldVars, mayAppend, tokens, written>>

\* mutant: the draft is read without its row lock
MayLock_Any(d) == TRUE

\* SELECT ... FOR UPDATE of the interaction and the draft
MayLock(d) == ~DraftLocked(d)

\* _respond_in_session up to the end of _prevalidate: the rows are locked and open.
CheckDraft(q) ==
    LET d == request[q].draft IN
    /\ request[q].pc = "answer" /\ MayLock(d)
    /\ IF drafts[d].status = "OPEN" /\ ~drafts[d].late /\ (request[q].action = "CONFIRM" => Valid(drafts[d].op))
       THEN Go(q, "checked") ELSE Done(q)
    /\ UNCHANGED <<worldVars, turn, mayAppend, drafts, tokens, written>>

Resolved == \E n \in DOMAIN written : written[n].op = "resolve"

\* create_in_session returns the risk its fingerprint already names.
Written(by, op) ==
    IF op = "create" /\ \E n \in DOMAIN written : written[n].by = by THEN written
    ELSE Append(written, [by |-> by, op |-> op, version |-> category.version])

\* mutant: the execution's status is set whatever it was
Waits_Any == TRUE

\* respond's check of the execution, in the transaction that commits the draft
Waits == turn = "WAITING"

\* The rest of the transaction: the domain write of _commit, the draft, the turn, the
\* event.  A write the domain refuses, or a turn that does not wait, undoes it all.
CommitDraft(q) ==
    LET d == request[q].draft
        op == drafts[d].op IN
    /\ request[q].pc = "checked"
    /\ IF ~Waits \/ ~mayAppend \/ (request[q].action = "CONFIRM" /\ op = "resolve" /\ (Resolved \/ ~inScope))
       THEN UNCHANGED <<drafts, turn, written>>
       ELSE IF request[q].action = "CANCEL"
       THEN /\ drafts' = [drafts EXCEPT ![d].status = "CANCELLED"] /\ turn' = "CANCELLED" /\ UNCHANGED written
       ELSE /\ drafts' = [drafts EXCEPT ![d].status = "CONFIRMED"] /\ turn' = "COMPLETED"
            /\ written' = Written(<<"draft", d>>, op)
    /\ Done(q)
    /\ UNCHANGED <<worldVars, mayAppend, tokens>>

-----------------------------------------------------------------------------
(* Redeeming a token.                                                       *)

NeededFor(op) == IF op = "create" THEN "report" ELSE "resolve"

\* A used token answers with its stored result.
Replays(k) == tokens[k].used

\* confirm up to _execute, for a token that has not run out: the token's row is locked at once or the request refused, then
\* owner, content, the digest of the current rights and scope, the permission.
TakeToken(q, k) ==
    /\ request[q] = NoRequest
    /\ ~TokenLocked(k) /\ ~Replays(k)
    /\ tokens[k].scope = <<rights, inScope>> /\ NeededFor(tokens[k].op) \in rights /\ inScope
    /\ request' = [request EXCEPT ![q] = [NoRequest EXCEPT !.pc = "redeeming", !.token = k]]
    /\ UNCHANGED <<worldVars, turn, mayAppend, drafts, tokens, written>>

\* _category: in use, unchanged since the token was issued, and locked until the commit.
BindCategory(q) ==
    /\ request[q].pc = "redeeming"
    /\ IF tokens[request[q].token].op = "create" => category = [active |-> TRUE, version |-> tokens[request[q].token].binding]
       THEN Go(q, "bound") ELSE Done(q)
    /\ UNCHANGED <<worldVars, turn, mayAppend, drafts, tokens, written>>

\* The domain write and the use of the token, in one commit.  The fingerprint of a created
\* risk is unique; a resolved risk is not resolved again.
Redeem(q) ==
    LET k == request[q].token IN
    /\ request[q].pc = "bound"
    /\ IF tokens[k].op = "resolve" /\ (Resolved \/ ~inScope) THEN UNCHANGED <<tokens, written>>
       ELSE /\ tokens' = [tokens EXCEPT ![k].used = TRUE]
            /\ written' = Written(<<"token", k>>, tokens[k].op)
    /\ Done(q)
    /\ UNCHANGED <<worldVars, turn, mayAppend, drafts>>

WritesNext ==
    \/ Regrant \/ RunsOut
    \/ \E q \in Request, d \in Draft, action \in {"CONFIRM", "CANCEL"} : Answer(q, d, action)
    \/ \E q \in Request : ExpireDraft(q) \/ CheckDraft(q) \/ CommitDraft(q) \/ BindCategory(q) \/ Redeem(q)
    \/ \E q \in Request, k \in Token : TakeToken(q, k)

-----------------------------------------------------------------------------
WritesTypeOK ==
    /\ rights \subseteq Permission /\ regrants \in 0..MaxRegrants
    /\ turn \in {"RUNNING", "WAITING", "COMPLETED", "FAILED", "CANCELLED"}
    /\ \A d \in Draft : drafts[d].status \in {"none", "OPEN", "CONFIRMED", "CANCELLED", "EXPIRED"}
    /\ \A q \in Request : request[q].pc \in {"idle", "expiry", "answer", "checked", "redeeming", "bound"}

\* Writes and answers go together: a confirmed draft or used token has exactly one write,
\* and no other draft or token has one, whichever answers were sent twice or crossed.
EachAnswerHasItsWrite ==
    LET by(who) == {n \in DOMAIN written : written[n].by = who}
    IN  /\ \A d \in Draft : Cardinality(by(<<"draft", d>>)) = IF drafts[d].status = "CONFIRMED" THEN 1 ELSE 0
        /\ \A k \in Token : Cardinality(by(<<"token", k>>)) = IF tokens[k].used THEN 1 ELSE 0

\* A redeemed report lands in the category, with the contents, its token was issued for.
TokenCategoryHolds ==
    \A n \in DOMAIN written : written[n].by[1] = "token" /\ written[n].op = "create" =>
        written[n].version = tokens[written[n].by[2]].binding

\* A draft is written only while its turn waits for the user, and ends it in the same
\* commit: of the answers to one question at most one takes effect.
AnswerEndsTurn ==
    [][\A d \in Draft : drafts[d].status = "OPEN" /\ drafts'[d].status = "CONFIRMED"
          => turn = "WAITING" /\ turn' = "COMPLETED"]_writesVars

\* Every domain write has the answer that asked for it, in the category it named.
AnswersHaveTheirWrites == EachAnswerHasItsWrite /\ TokenCategoryHolds
=============================================================================
