----------------------------- MODULE MailStages -----------------------------
(***************************************************************************)
(* One mail from its handoff to confirmed risks: the parse task, the AI     *)
(* review task it chains to, the retry of a failed message, the owner's     *)
(* handling of the candidates, and what the weekly report hears of it.      *)
(*                                                                         *)
(* Every worker works outside a transaction and then writes in one, so an   *)
(* attempt whose lease was lost may still write.  Durable tasks are reduced *)
(* to their attempts, as in MailSync.                                       *)
(***************************************************************************)
EXTENDS MailContent

CONSTANTS Source,       \* the mails the folder may hold, by name
          Parsed, MustAsk, Found,   \* what MailContent computes of them (Mail)
          Outputs,      \* what the provider may answer to a review
          Answers,      \* what it may answer to a project resolution
          Filter, DefaultKeywords,  \* the mailbox's candidate filter
          MaxAttempts,  \* max_attempts of both task kinds
          MaxCands,     \* bound: published candidates
          MaxRetries,   \* bound: retries
          MaxFaults     \* bound: crashes and leases lost alive, together

VARIABLES
    mail,     \* what the IMAP server returns for the UID
    handoff,  \* MailSourceHandoff.parseStatus and aiReviewStatus
    message,  \* the MailMessage row, its resolution and its project matches
    cand,     \* the MailRiskCandidate rows in the order of publication
    setting,  \* the mailbox's aiExtractionEnabled and the category's isActive
    task,     \* task[k]: the original parse, the retry's parse, the AI review
    worker,   \* worker[k][a]: where attempt a of task k is
    told,     \* the projects whose weekly report the last step invalidated
    count     \* retries, crashes, leases lost by a live worker

vars == <<mail, handoff, message, cand, setting, task, worker, told, count>>

Mail == DOMAIN Source

Kind == {"parse", "retry", "ai"}
Attempt == 1..MaxAttempts
Cand == 1..MaxCands
Failing == {"RETRYABLE_FAILURE", "PERMANENT_FAILURE"}
Stage == {"PENDING", "SUCCEEDED"} \cup Failing

NoMessage == [status |-> "none", resolution |-> "PENDING", project |-> 0, matches |-> {}]
NoCand == [status |-> "none", project |-> 0]
NoTask == [status |-> "none", attempt |-> 0]
Idle == [at |-> "none", options |-> {}, projects |-> <<>>]

TypeOK ==
    /\ mail \in Mail
    /\ handoff \in [parse : Stage, ai : Stage]
    /\ message.status \in {"none", "ANALYZING", "COMPLETED", "FAILED"}
    /\ message.resolution \in {"PENDING", "AUTO_MATCH", "WAITING_CONFIRMATION"}
    /\ message.project \in Visible \cup {0} /\ message.matches \subseteq Visible
    /\ cand \in [Cand -> [status : {"none", "PENDING", "CONFIRMED", "IGNORED"}, project : Project \cup {0}]]
    /\ setting \in [ai : BOOLEAN, category : BOOLEAN]
    /\ task \in [Kind -> [status : {"none", "QUEUED", "RUNNING", "SUCCEEDED", "FAILED"}, attempt : 0..MaxAttempts]]
    /\ \A k \in Kind, a \in Attempt :
          /\ worker[k][a].at \in {"none", "fetch", "store", "terminal", "retryable", "review",
                                  "publish", "disabled", "success", "retry"}
          /\ worker[k][a].options \subseteq Visible
    /\ told \subseteq Project
    /\ count \in [retries : 0..MaxRetries, crashes : 0..MaxFaults, losses : 0..MaxFaults]

\* MailboxSyncService handed the mail over, with its parse task.
Init ==
    /\ mail \in {m \in Mail : IsCandidate(Filter, DefaultKeywords, Source[m].envelope)}
    /\ handoff = [parse |-> "PENDING", ai |-> "PENDING"]
    /\ message = NoMessage
    /\ cand = [c \in Cand |-> NoCand]
    /\ setting = [ai |-> TRUE, category |-> TRUE]
    /\ task = [k \in Kind |-> IF k = "parse" THEN [NoTask EXCEPT !.status = "QUEUED"] ELSE NoTask]
    /\ worker = [k \in Kind |-> [a \in Attempt |-> Idle]]
    /\ told = {}
    /\ count = [retries |-> 0, crashes |-> 0, losses |-> 0]

Goes(k, a, place) == worker' = [worker EXCEPT ![k][a] = [Idle EXCEPT !.at = place]]

-----------------------------------------------------------------------------
(* The durable tasks, reduced to their attempts.                           *)

\* create_task: an idempotency key that was ever used returns its task as it is.
Enqueued(t) == IF t = NoTask THEN [t EXCEPT !.status = "QUEUED"] ELSE t

AnotherAttempt(t) == [t EXCEPT !.status = IF t.attempt < MaxAttempts THEN "QUEUED" ELSE "FAILED"]

Claim(k) ==
    /\ task[k].status = "QUEUED"
    /\ task' = [task EXCEPT ![k] = [status |-> "RUNNING", attempt |-> @.attempt + 1]]
    /\ Goes(k, task[k].attempt + 1, "fetch")
    /\ told' = {}
    /\ UNCHANGED <<mail, handoff, message, cand, setting, count>>

Alive(k) == \E a \in Attempt : worker[k][a] # Idle

LoseLease(k) ==
    /\ task[k].status = "RUNNING"
    /\ Alive(k) => count.losses + count.crashes < MaxFaults
    /\ task' = [task EXCEPT ![k] = AnotherAttempt(@)]
    /\ count' = [count EXCEPT !.losses = IF Alive(k) THEN @ + 1 ELSE @]
    /\ told' = {}
    /\ UNCHANGED <<mail, handoff, message, cand, setting, worker>>

Crash(k, a) ==
    /\ count.losses + count.crashes < MaxFaults
    /\ worker[k][a] # Idle
    /\ worker' = [worker EXCEPT ![k][a] = Idle]
    /\ count' = [count EXCEPT !.crashes = @ + 1]
    /\ told' = {}
    /\ UNCHANGED <<mail, handoff, message, cand, setting, task>>

\* finish_task, fenced by the lease of the attempt.
Finish(k, a) ==
    /\ worker[k][a].at \in {"success", "retry"}
    /\ task' = IF task[k] # [status |-> "RUNNING", attempt |-> a] THEN task
               ELSE IF worker[k][a].at = "success" THEN [task EXCEPT ![k].status = "SUCCEEDED"]
               ELSE [task EXCEPT ![k] = AnotherAttempt(@)]
    /\ worker' = [worker EXCEPT ![k][a] = Idle]
    /\ told' = {}
    /\ UNCHANGED <<mail, handoff, message, cand, setting, count>>

-----------------------------------------------------------------------------
(* MailParseWorker: the original task and a retry's run the same handler.   *)

\* _exhausted asks the handoff's original task, whichever task this is.
ParseExhausted == task["parse"].attempt >= MaxAttempts

\* Fetch and parse, in no transaction; a failure is final, or worth another attempt.
ParseFetch(k, a) ==
    /\ k # "ai" /\ worker[k][a].at = "fetch"
    /\ \E failure \in {"none", "final", "other"} :
          Goes(k, a, CASE failure = "none" -> "store"
                       [] failure = "final" \/ ParseExhausted -> "terminal"
                       [] OTHER -> "retryable")
    /\ told' = {}
    /\ UNCHANGED <<mail, handoff, message, cand, setting, task, count>>

\* _terminal and _retryable: the stage, and the message if there is one.
ParseStaged(k, a) ==
    /\ k # "ai" /\ worker[k][a].at \in {"terminal", "retryable"}
    /\ LET final == worker[k][a].at = "terminal"
       IN  /\ handoff' = [handoff EXCEPT !.parse = IF final THEN "PERMANENT_FAILURE" ELSE "RETRYABLE_FAILURE"]
           /\ message' = IF message = NoMessage THEN message
                         ELSE [message EXCEPT !.status = IF final THEN "FAILED" ELSE "ANALYZING"]
           /\ Goes(k, a, IF final THEN "success" ELSE "retry")
    /\ told' = {}
    /\ UNCHANGED <<mail, cand, setting, task, count>>

\* mutant: the reports of the projects matched before are left as they are
Affected_Found(old, found) == found

\* affected_projects: those matched before and the one matched now.
Affected(old, found) == old \cup found

\* The transaction of handle; what the provider refuses raises out of it, unstaged.
ParseStore(k, a, answer) ==
    /\ k # "ai" /\ worker[k][a].at = "store"
    /\ IF MustAsk[mail] /\ ~ValidAnswer(answer)
       THEN /\ Goes(k, a, "retry")
            /\ told' = {}
            /\ UNCHANGED <<handoff, message, task>>
       ELSE LET found == Found[mail][answer]
                matches == {found} \ {0}
            IN  /\ handoff' = [handoff EXCEPT !.parse = "SUCCEEDED"]
                /\ message' = [status |-> "ANALYZING", project |-> found, matches |-> matches,
                               resolution |-> IF found # 0 THEN "AUTO_MATCH" ELSE "WAITING_CONFIRMATION"]
                /\ told' = Affected(message.matches, matches)
                /\ task' = IF found # 0 THEN [task EXCEPT !["ai"] = Enqueued(@)] ELSE task
                /\ Goes(k, a, "success")
    /\ UNCHANGED <<mail, cand, setting, count>>

-----------------------------------------------------------------------------
(* MailRiskExtractionWorker.                                               *)

\* mutant: the last attempt still counts on another one
AIExhausted_OffByOne == task["ai"].attempt > MaxAttempts

AIExhausted == task["ai"].attempt >= MaxAttempts

\* A failure worth another attempt is final when there is none.
AfterFailure(retryable) == IF retryable /\ ~AIExhausted THEN "retryable" ELSE "terminal"

Reviewed(h) == h.ai = "SUCCEEDED"

\* handle up to the provider call: fetch, parse and the first session of _extract.
AIRead(a) ==
    /\ worker["ai"][a].at = "fetch"
    /\ \E failure \in {"none", "final", "other"} :
          IF failure # "none" THEN Goes("ai", a, AfterFailure(failure = "other"))
          ELSE CASE Reviewed(handoff) -> Goes("ai", a, "success")
                 [] ~setting.ai -> Goes("ai", a, "disabled")
                 [] message.resolution = "WAITING_CONFIRMATION" -> Goes("ai", a, "success")
                 [] message.matches = {} \/ ~setting.category -> Goes("ai", a, "terminal")
                 [] PayloadChars(Parsed[mail]) = 0 -> Goes("ai", a, "terminal")
                 [] OTHER -> worker' = [worker EXCEPT !["ai"][a] =
                       [Idle EXCEPT !.at = "review", !.options = message.matches \cap {message.project}]]
    /\ told' = {}
    /\ UNCHANGED <<mail, handoff, message, cand, setting, task, count>>

\* _project_options: the projects in the order of their ids.
Option(options, i) == CHOOSE p \in options : Cardinality({q \in options \ {p} : q < p}) = i - 1

\* The provider is asked outside any transaction and its output checked.
AIReview(a) ==
    /\ worker["ai"][a].at = "review"
    /\ \/ \E retryable \in BOOLEAN : Goes("ai", a, AfterFailure(retryable))
       \/ \E raw \in Outputs :
             LET options == {i \in 1..Cardinality(worker["ai"][a].options) : TRUE}
             IN  IF OutputStage(raw, options, {1}) # "OK" THEN Goes("ai", a, "terminal")
                 ELSE worker' = [worker EXCEPT !["ai"][a].at = "publish",
                         !["ai"][a].projects = [i \in DOMAIN raw.risks |->
                             Option(worker["ai"][a].options, raw.risks[i].option)]]
    /\ told' = {}
    /\ UNCHANGED <<mail, handoff, message, cand, setting, task, count>>

Free == {c \in Cand : cand[c] = NoCand}

\* The message follows the AI stage, whatever either was before.
WithAIStage(status) ==
    /\ handoff' = [handoff EXCEPT !.ai = status]
    /\ message' = [message EXCEPT !.status = CASE status = "SUCCEEDED" -> "COMPLETED"
                                               [] status = "PERMANENT_FAILURE" -> "FAILED"
                                               [] OTHER -> "ANALYZING"]

\* The second transaction of _extract: all candidates and the stage, or none.
AIPublish(a) ==
    /\ worker["ai"][a].at = "publish"
    /\ LET projects == worker["ai"][a].projects
           first == Cardinality(Cand \ Free)
       IN  CASE Reviewed(handoff) -> Goes("ai", a, "success") /\ UNCHANGED <<handoff, message, cand>>
             [] ~Reviewed(handoff) /\ projects # <<>> /\ ~setting.category ->
                   Goes("ai", a, AfterFailure(TRUE)) /\ UNCHANGED <<handoff, message, cand>>
             [] OTHER ->
                   /\ Cardinality(Free) >= Len(projects)
                   /\ cand' = [c \in Cand |-> IF c - first \in DOMAIN projects
                                   THEN [status |-> "PENDING", project |-> projects[c - first]] ELSE cand[c]]
                   /\ WithAIStage("SUCCEEDED")
                   /\ Goes("ai", a, "success")
    /\ told' = {}
    /\ UNCHANGED <<mail, setting, task, count>>

\* _stage: not fenced, and not conditional on the stage it replaces.
AIStaged(a) ==
    /\ worker["ai"][a].at \in {"terminal", "retryable", "disabled"}
    /\ WithAIStage(CASE worker["ai"][a].at = "terminal" -> "PERMANENT_FAILURE"
                     [] worker["ai"][a].at = "retryable" -> "RETRYABLE_FAILURE"
                     [] OTHER -> "SUCCEEDED")
    /\ Goes("ai", a, IF worker["ai"][a].at = "retryable" THEN "retry" ELSE "success")
    /\ told' = {}
    /\ UNCHANGED <<mail, cand, setting, task, count>>

-----------------------------------------------------------------------------
(* The owner: a retry, the candidates and the settings they depend on.     *)

\* retry: always a parse; its own batch stays QUEUED and refuses another retry.
Retry ==
    /\ count.retries < MaxRetries
    /\ task["retry"] = NoTask
    /\ message # NoMessage
    /\ message.status = "FAILED" \/ handoff.parse \in Failing \/ handoff.ai \in Failing
    /\ task' = [task EXCEPT !["retry"] = Enqueued(@)]
    /\ handoff' = [handoff EXCEPT !.parse = "PENDING"]
    /\ message' = [message EXCEPT !.status = "ANALYZING"]
    /\ count' = [count EXCEPT !.retries = @ + 1]
    /\ told' = {}
    /\ UNCHANGED <<mail, cand, setting, worker>>

\* confirm and confirm_response: the candidate's own fingerprint makes one risk of it.
Confirm(c) ==
    /\ cand[c].status = "PENDING" /\ setting.category
    /\ cand' = [cand EXCEPT ![c].status = "CONFIRMED"]
    /\ told' = {cand[c].project}
    /\ UNCHANGED <<mail, handoff, message, setting, task, worker, count>>

\* mutant: a candidate's new project is not among the matches of its mail
MatchedToo_Not(matches, p) == matches

MatchedToo(matches, p) == matches \cup {p}

\* invalidate_candidate with the old project.
Moved(old, new) == {old, new}

Update(c, p) ==
    /\ cand[c].status = "PENDING" /\ setting.category
    /\ cand' = [cand EXCEPT ![c].project = p]
    /\ message' = [message EXCEPT !.matches = MatchedToo(@, p)]
    /\ told' = Moved(cand[c].project, p)
    /\ UNCHANGED <<mail, handoff, setting, task, worker, count>>

Ignore(c) ==
    /\ cand[c].status = "PENDING"
    /\ cand' = [cand EXCEPT ![c].status = "IGNORED"]
    /\ told' = {}
    /\ UNCHANGED <<mail, handoff, message, setting, task, worker, count>>

\* The mailbox's AI switch and the category are turned off (bound: not on again).
TurnOff ==
    /\ \E s \in {"ai", "category"} : setting[s] /\ setting' = [setting EXCEPT ![s] = FALSE]
    /\ told' = {}
    /\ UNCHANGED <<mail, handoff, message, cand, task, worker, count>>

-----------------------------------------------------------------------------
Work(k) ==
    \/ Claim(k)
    \/ \E a \in Attempt :
          \/ Finish(k, a) \/ ParseFetch(k, a) \/ ParseStaged(k, a)
          \/ \E answer \in Answers : ParseStore(k, a, answer)
          \/ k = "ai" /\ (AIRead(a) \/ AIReview(a) \/ AIPublish(a) \/ AIStaged(a))

Next ==
    \/ \E k \in Kind : Work(k) \/ LoseLease(k) \/ \E a \in Attempt : Crash(k, a)
    \/ Retry \/ TurnOff
    \/ \E c \in Cand : Confirm(c) \/ Ignore(c) \/ \E p \in Visible : Update(c, p)

Spec == Init /\ [][Next]_vars

\* Workers go on, and the lease of a dead one is reconciled.
Fairness == \A k \in Kind : WF_vars(Work(k)) /\ WF_vars(LoseLease(k) /\ ~Alive(k))

-----------------------------------------------------------------------------
\* The mail the weekly report of a project counts: _authority_rows.
Facts(p) == {c \in Cand : /\ message.status = "COMPLETED" /\ cand[c].status = "CONFIRMED"
                          /\ cand[c].project = p /\ p \in message.matches}

\* Nobody lost a lease while working, crashed or retried.
Undisturbed == count = [retries |-> 0, crashes |-> 0, losses |-> 0]

\* A message is shown as completed only while its review counts as succeeded,
\* whichever of the parse, review and retry attempts wrote last.
CompletedIsReviewed == message.status = "COMPLETED" => handoff.ai = "SUCCEEDED"

\* As long as no worker dies or loses its lease alive, a review publishes once, however
\* often it or the message is tried again.  A worker that dies between its publication and
\* the end of its task is followed by one that may write a failure over the stage, and
\* with a third attempt the review is published again (README).
PublishedOnce ==
    count.losses + count.crashes = 0 => \E raw \in Outputs : Cardinality(Cand \ Free) \in {0, Len(raw.risks)}

\* Without a second parse a candidate's project is one the message is matched to,
\* else the weekly report would leave its confirmed risk out.
CandidateIsMatched ==
    Undisturbed => \A c \in Cand \ Free : cand[c].project \in message.matches

\* What the owner does to a candidate, and a new parse that replaces the matches,
\* invalidates the report of every project whose facts it changes.  A stage that
\* fails, a review that ends and a retry invalidate nothing (README).
WeeklyHears ==
    [][(\/ message'.status = message.status
        \/ \E k \in Kind, a \in Attempt : worker[k][a].at = "store" /\ worker'[k][a].at = "success") =>
          \A p \in Project : Facts(p)' # Facts(p) => p \in told']_vars

\* A mail that mentions several of the owner's projects is matched by the provider
\* or not at all: what an answer "no match" leaves matched is its only mention.  So it
\* is while all the projects hit are candidates; the window is cut by id (README).
MatchIsCertain ==
    message.resolution = "AUTO_MATCH" =>
        LET hits == {p \in Visible : Source[mail].mentions[p] # {}}
            mentioned == {p \in hits : Source[mail].mentions[p] \ {"token"} # {}}
        IN  Cardinality(hits) <= MaxCandidates /\ Cardinality(mentioned) # 1 => MustAsk[mail]

\* What the helpers were given of one mail is within the limits of ADR 0024, and
\* every attachment has one row, in the order of the parts.
AttachmentsWithinLimits ==
    message # NoMessage =>
        LET Given(row) == row.read /\ row.code # "TOO_LARGE"
            given == SelectSeq(Parsed[mail].rows, Given)
        IN  /\ Len(given) <= MaxAttachments
            /\ FoldLeft(LAMBDA sum, row : sum + row.part.size, 0, given) <= MaxTotalSize
            /\ Len(Parsed[mail].rows) = Len(SelectSeq(Source[mail].parts, LAMBDA part : part.kind = "attachment"))

\* An undisturbed message that was matched to a project is completed or failed.
MessageSettles ==
    []Undisturbed =>
        (message.resolution = "AUTO_MATCH" ~> message.status \in {"COMPLETED", "FAILED"})

\* What the stages leave behind: a completed mail was reviewed, its review published
\* once and for the projects the mail was matched to with certainty.
StagesHold ==
    TypeOK /\ CompletedIsReviewed /\ PublishedOnce /\ CandidateIsMatched /\ MatchIsCertain /\ AttachmentsWithinLimits
=============================================================================
