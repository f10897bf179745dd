------------------------------ MODULE MailSync ------------------------------
(***************************************************************************)
(* Synchronising one mailbox: the batches, the MAILBOX_SYNC tasks that run  *)
(* them, the UID cursor, the source handoffs, and the retry of one message, *)
(* against an IMAP folder that receives mail and may be rebuilt.            *)
(*                                                                         *)
(* A sync is three steps of a worker (claim the batch, search the folder    *)
(* with no transaction open, store) that a crash may separate; the durable  *)
(* task is reduced to its attempts (DurableTasks has the rest).  What the   *)
(* parse and AI workers make of a handoff is the environment's choice.      *)
(***************************************************************************)
EXTENDS Naturals, FiniteSets, FiniteSetsExt

CONSTANTS Requester,        \* who asks for syncs: owners' requests and the scheduler
          Weekly,           \* the UIDs the candidate filter accepts
          MaxUid,           \* bound: mails per UIDVALIDITY
          MaxValidity,      \* bound: how many UIDVALIDITY values the folder takes
          MaxBatches,       \* bound: batches of this mailbox
          MaxAttempts,      \* max_attempts of MAILBOX_SYNC
          Window,           \* MAX_BATCH_UIDS
          MaxFaults         \* bound: message retries and worker crashes, together

ASSUME MailSyncAssumption ==
    /\ Weekly \subseteq 1..MaxUid /\ MaxUid \in Nat \ {0}
    /\ MaxValidity \in Nat \ {0} /\ MaxBatches \in Nat \ {0}
    /\ MaxAttempts \in Nat \ {0} /\ Window \in Nat \ {0}
    /\ MaxFaults \in Nat
    /\ Requester \cap {"none", "RETRY"} = {}

VARIABLES
    folder,      \* the IMAP folder: its UIDVALIDITY, its mails and the last UID it gave
    config,      \* MailboxConfig.uidValidity (0: none) and uidCursor (0: none)
    batch,       \* batch[b]: the MailSyncBatch rows, in the order of createdAt
    task,        \* task[b]: status and attemptCount of batch b's MAILBOX_SYNC task
    handoff,     \* handoff[v][u]: the MailSourceHandoff rows and their messages
    asking,      \* asking[r]: r has found no active batch and is about to insert one
    worker,      \* worker[b][a]: where attempt a of task b is, with its snapshot
    retries, crashes

vars == <<folder, config, batch, task, handoff, asking, worker, retries, crashes>>

Uid == 1..MaxUid
Validity == 1..MaxValidity
Batch == 1..MaxBatches
Attempt == 1..MaxAttempts
Unfinished == {"QUEUED", "RUNNING"}
Settled == {"SUCCEEDED", "PERMANENT_FAILURE"}
Failing == {"RETRYABLE_FAILURE", "PERMANENT_FAILURE"}

NoBatch == [trigger |-> "none", status |-> "none", endUid |-> 0]
NoTask == [status |-> "none", attempt |-> 0]
NoHandoff == [batch |-> 0, stage |-> "none", message |-> FALSE]
Idle == [at |-> "none", batch |-> 0, cursor |-> 0, validity |-> 0, uids |-> {}]

TypeOK ==
    /\ folder \in [validity : Validity, mails : SUBSET Uid, last : 0..MaxUid]
    /\ config \in [validity : 0..MaxValidity, cursor : 0..MaxUid]
    /\ batch \in [Batch -> [trigger : {"none", "RETRY"} \cup Requester,
                            status : Unfinished \cup {"none", "SUCCESS", "PARTIAL", "FAILURE"},
                            endUid : 0..MaxUid]]
    /\ task \in [Batch -> [status : {"none", "QUEUED", "RUNNING", "SUCCEEDED", "FAILED"},
                           attempt : 0..MaxAttempts]]
    /\ handoff \in [Validity -> [Uid -> [batch : 0..MaxBatches, message : BOOLEAN,
                       stage : Settled \cup Failing \cup {"none", "PENDING", "ANALYZING"}]]]
    /\ asking \in [Requester -> BOOLEAN]
    /\ worker \in [Batch -> [Attempt ->
          [at : {"none", "pick", "start", "search", "store", "fail", "success", "retry"},
           batch : 0..MaxBatches, cursor : 0..MaxUid, validity : 0..MaxValidity, uids : SUBSET Uid]]]
    /\ {retries, crashes} \subseteq 0..MaxFaults
    /\ \A b \in Batch : task[b].status = "RUNNING" => task[b].attempt > 0

Init ==
    /\ folder = [validity |-> 1, mails |-> {}, last |-> 0]
    /\ config = [validity |-> 0, cursor |-> 0]
    /\ batch = [b \in Batch |-> NoBatch]
    /\ task = [b \in Batch |-> NoTask]
    /\ handoff = [v \in Validity |-> [u \in Uid |-> NoHandoff]]
    /\ asking = [r \in Requester |-> FALSE]
    /\ worker = [b \in Batch |-> [a \in Attempt |-> Idle]]
    /\ retries = 0
    /\ crashes = 0

-----------------------------------------------------------------------------
(* The folder.                                                             *)

Arrive ==
    /\ folder.last < MaxUid
    /\ folder' = [folder EXCEPT !.last = @ + 1, !.mails = @ \cup {folder.last + 1}]
    /\ UNCHANGED <<config, batch, task, handoff, asking, worker, retries, crashes>>

Expunge(u) ==
    /\ u \in folder.mails
    /\ folder' = [folder EXCEPT !.mails = @ \ {u}]
    /\ UNCHANGED <<config, batch, task, handoff, asking, worker, retries, crashes>>

\* The server rebuilds the folder, or the owner names another one: UIDs start anew.
Rebuild ==
    /\ folder.validity < MaxValidity
    /\ folder' = [validity |-> folder.validity + 1, mails |-> {}, last |-> 0]
    /\ UNCHANGED <<config, batch, task, handoff, asking, worker, retries, crashes>>

\* UID SEARCH cursor+1:*, where a range beyond the last mail denotes the last one.
Search(cursor) ==
    LET beyond == {u \in folder.mails : u > cursor}
    IN  IF beyond = {} /\ folder.mails # {} THEN {Max(folder.mails)} ELSE beyond

\* mutant: the window keeps the newest mails
FirstOf_Newest(uids) == {u \in uids : Cardinality({v \in uids : v > u}) < Window}

\* snapshot.envelopes[:MAX_BATCH_UIDS], in the order of the UIDs.
FirstOf(uids) == {u \in uids : Cardinality({v \in uids : v < u}) < Window}

-----------------------------------------------------------------------------
(* Batches and their tasks are created.                                    *)

Active == {b \in Batch : batch[b].status \in Unfinished}
FreshBatch == {b \in Batch : batch[b] = NoBatch /\ \A c \in 1..b - 1 : batch[c] # NoBatch}

\* enqueue_sync and schedule_enabled_syncs look for an active batch without a lock ...
Ask(r) ==
    /\ ~asking[r]
    /\ Active = {}
    /\ asking' = [asking EXCEPT ![r] = TRUE]
    /\ UNCHANGED <<folder, config, batch, task, handoff, worker, retries, crashes>>

\* ... and insert batch and task later in the same transaction.
Insert(r, b) ==
    /\ asking[r]
    /\ b \in FreshBatch
    /\ asking' = [asking EXCEPT ![r] = FALSE]
    /\ batch' = [batch EXCEPT ![b] = [trigger |-> r, status |-> "QUEUED", endUid |-> 0]]
    /\ task' = [task EXCEPT ![b] = [status |-> "QUEUED", attempt |-> 0]]
    /\ UNCHANGED <<folder, config, handoff, worker, retries, crashes>>

\* MailSyncResultsService.retry: the new batch's task parses, it does not sync.
RetryMessage(v, u, b) ==
    /\ retries + crashes < MaxFaults
    /\ handoff[v][u].message /\ handoff[v][u].stage \in Failing
    /\ Active = {}
    /\ b \in FreshBatch
    /\ handoff' = [handoff EXCEPT ![v][u].stage = "PENDING"]
    /\ batch' = [batch EXCEPT ![b] = [trigger |-> "RETRY", status |-> "QUEUED", endUid |-> u]]
    /\ retries' = retries + 1
    /\ UNCHANGED <<folder, config, task, asking, worker, crashes>>

\* Parse and AI workers: a parse succeeds or fails, then the review does.
Downstream(v, u) ==
    /\ handoff[v][u].stage \in {"PENDING", "ANALYZING", "RETRYABLE_FAILURE"}
    /\ \E stage \in {"ANALYZING"} \cup Settled \cup Failing :
          /\ stage = "SUCCEEDED" => handoff[v][u].message /\ handoff[v][u].stage # "PENDING"
          /\ stage # handoff[v][u].stage
          /\ handoff' = [handoff EXCEPT ![v][u].stage = stage,
                                        ![v][u].message = @ \/ stage = "ANALYZING"]
    /\ UNCHANGED <<folder, config, batch, task, asking, worker, retries, crashes>>

-----------------------------------------------------------------------------
(* The durable task of a batch, reduced to its attempts.                   *)

Claim(b) ==
    /\ task[b].status = "QUEUED"
    /\ task' = [task EXCEPT ![b] = [status |-> "RUNNING", attempt |-> @.attempt + 1]]
    /\ worker' = [worker EXCEPT ![b][task[b].attempt + 1] = [Idle EXCEPT !.at = "pick"]]
    /\ UNCHANGED <<folder, config, batch, handoff, asking, retries, crashes>>

\* Another attempt when one is left, FAILED when not.
AnotherAttempt(t) ==
    [t EXCEPT !.status = IF t.attempt < MaxAttempts THEN "QUEUED" ELSE "FAILED"]

\* reconcile: the lease expired, whether its worker is dead or only slow.
LoseLease(b) ==
    /\ task[b].status = "RUNNING"
    /\ task' = [task EXCEPT ![b] = AnotherAttempt(@)]
    /\ UNCHANGED <<folder, config, batch, handoff, asking, worker, retries, crashes>>

Crash(b, a) ==
    /\ retries + crashes < MaxFaults
    /\ worker[b][a] # Idle
    /\ worker' = [worker EXCEPT ![b][a] = Idle]
    /\ crashes' = crashes + 1
    /\ UNCHANGED <<folder, config, batch, task, handoff, asking, retries>>

\* finish_task: fenced by the lease of the attempt.
Finish(b, a) ==
    /\ worker[b][a].at \in {"success", "retry"}
    /\ worker' = [worker EXCEPT ![b][a] = Idle]
    /\ task' = IF task[b] # [status |-> "RUNNING", attempt |-> a] THEN task
               ELSE IF worker[b][a].at = "success"
                    THEN [task EXCEPT ![b].status = "SUCCEEDED"]
                    ELSE [task EXCEPT ![b] = AnotherAttempt(@)]
    /\ UNCHANGED <<folder, config, batch, handoff, asking, retries, crashes>>

-----------------------------------------------------------------------------
(* MailboxSyncService.                                                     *)

Goes(b, a, place) == worker' = [worker EXCEPT ![b][a] = [Idle EXCEPT !.at = place]]

\* run_for_config: the oldest queued batch of the mailbox, whichever task this is.
Pick(b, a) ==
    /\ worker[b][a].at = "pick"
    /\ LET queued == {c \in Batch : batch[c].status = "QUEUED"}
       IN  IF queued = {} THEN Goes(b, a, "success")
           ELSE worker' = [worker EXCEPT ![b][a] =
                              [Idle EXCEPT !.at = "start", !.batch = Min(queued)]]
    /\ UNCHANGED <<folder, config, batch, task, handoff, asking, retries, crashes>>

\* mutant: the batch is started whatever the other batches do
MayStart_Alone(c) == batch[c].status = "QUEUED"

\* The conditions under which run's first transaction goes on.
MayStart(c) == batch[c].status = "QUEUED" /\ Active = {c}

\* run, first transaction: the batch becomes RUNNING and the config row is read.
Start(b, a) ==
    /\ worker[b][a].at = "start"
    /\ LET c == worker[b][a].batch
       IN  IF MayStart(c)
           THEN /\ batch' = [batch EXCEPT ![c].status = "RUNNING"]
                /\ worker' = [worker EXCEPT ![b][a].at = "search", ![b][a].cursor = config.cursor]
           ELSE Goes(b, a, "success") /\ UNCHANGED batch
    /\ UNCHANGED <<folder, config, task, handoff, asking, retries, crashes>>

\* _discover: outside any transaction, with the cursor read before.
Discover(b, a) ==
    /\ worker[b][a].at = "search"
    /\ worker' = [worker EXCEPT ![b][a].at = "store",
                                ![b][a].validity = folder.validity,
                                ![b][a].uids = FirstOf(Search(worker[b][a].cursor))]
    /\ UNCHANGED <<folder, config, batch, task, handoff, asking, retries, crashes>>

\* The search, or the second transaction, raises.
DiscoverFails(b, a) ==
    /\ worker[b][a].at \in {"search", "store"}
    /\ worker' = [worker EXCEPT ![b][a].at = "fail"]
    /\ UNCHANGED <<folder, config, batch, task, handoff, asking, retries, crashes>>

\* mutant: the exception leaves the batch as it is
Failed_Kept(row) == row

\* _fail_batch
Failed(row) == [row EXCEPT !.status = "FAILURE"]

Fail(b, a) ==
    /\ worker[b][a].at = "fail"
    /\ batch' = [batch EXCEPT ![worker[b][a].batch] = Failed(@)]
    /\ Goes(b, a, "retry")
    /\ UNCHANGED <<folder, config, task, handoff, asking, retries, crashes>>

\* mutant: the cursor is dropped and the old UIDVALIDITY kept
ResetTo_Kept(validity) == [config EXCEPT !.cursor = 0]

\* A new UIDVALIDITY starts without a cursor.
ResetTo(validity) == [validity |-> validity, cursor |-> 0]

\* The folder was rebuilt since the last sync: the batch fails, the cursor is dropped.
StoreReset(b, a) ==
    /\ worker[b][a].at = "store"
    /\ config.validity # 0 /\ config.validity # worker[b][a].validity
    /\ config' = ResetTo(worker[b][a].validity)
    /\ batch' = [batch EXCEPT ![worker[b][a].batch] = Failed(@)]
    /\ Goes(b, a, "success")
    /\ UNCHANGED <<folder, task, handoff, asking, retries, crashes>>

\* _handoff: candidates that have no row yet, whichever batch that would be in.
NewHandoffs(v, uids) == {u \in uids \cap Weekly : handoff[v][u] = NoHandoff}

\* config.uidCursor = max(config.uidCursor or 0, highest_scanned)
Advanced(cursor, end) == IF cursor < end THEN end ELSE cursor

\* _refresh_batch, whose rows are the handoffs just created, so all pending: a
\* batch advances the cursor, and is a SUCCESS, when there are none.
Exhausted(new) == new = {}

\* run, second transaction.
Store(b, a) ==
    /\ worker[b][a].at = "store"
    /\ config.validity \in {0, worker[b][a].validity}
    /\ LET c == worker[b][a].batch
           v == worker[b][a].validity
           uids == worker[b][a].uids
           new == NewHandoffs(v, uids)
           end == IF uids = {} THEN batch[c].endUid ELSE Max(uids)
           done == Exhausted(new)
       IN  /\ handoff' = [handoff EXCEPT ![v] = [u \in Uid |-> IF u \in new
                             THEN [batch |-> c, stage |-> "PENDING", message |-> FALSE] ELSE @[u]]]
           /\ batch' = [batch EXCEPT ![c].endUid = end,
                                     ![c].status = IF done THEN "SUCCESS" ELSE "PARTIAL"]
           /\ config' = [validity |-> v,
                         cursor |-> IF done /\ end # 0 THEN Advanced(config.cursor, end) ELSE config.cursor]
    /\ Goes(b, a, "success")
    /\ UNCHANGED <<folder, task, asking, retries, crashes>>

-----------------------------------------------------------------------------
Work(b) ==
    \/ Claim(b)
    \/ \E a \in Attempt : \/ Finish(b, a) \/ Pick(b, a) \/ Start(b, a) \/ Discover(b, a)
                          \/ Fail(b, a) \/ StoreReset(b, a) \/ Store(b, a)

Next ==
    \/ Arrive \/ Rebuild \/ \E u \in Uid : Expunge(u)
    \/ \E r \in Requester : Ask(r) \/ \E b \in Batch : Insert(r, b)
    \/ \E v \in Validity, u \in Uid : Downstream(v, u) \/ \E b \in Batch : RetryMessage(v, u, b)
    \/ \E b \in Batch : Work(b) \/ LoseLease(b) \/ \E a \in Attempt : Crash(b, a) \/ DiscoverFails(b, a)

Spec == Init /\ [][Next]_vars

\* Workers go on, expired leases are reconciled, an open request is completed.
FairSpec ==
    /\ Spec
    /\ \A b \in Batch : WF_vars(Work(b)) /\ WF_vars(LoseLease(b) /\ \A a \in Attempt : worker[b][a] = Idle)
    /\ \A r \in Requester : WF_vars(\E b \in Batch : Insert(r, b))

-----------------------------------------------------------------------------
\* Of a mailbox's batches at most one is being run, whoever asked for them and
\* whichever task's worker picked them up.
OneRunning == Cardinality({b \in Batch : batch[b].status = "RUNNING"}) <= 1

\* A sync has run the batch a message retry left behind: that batch carries the
\* UID of the old message as its end, which an empty search does not overwrite.
RetryRan == \E b \in Batch : batch[b].trigger = "RETRY" /\ batch[b].status # "QUEUED"

\* No weekly report falls behind the cursor: what lies there in the folder the
\* cursor counts in has been handed over, as long as no sync ran a retry's batch.
NoMailSkipped ==
    ~RetryRan /\ config.validity = folder.validity =>
        \A u \in folder.mails \cap Weekly :
            u <= config.cursor => handoff[folder.validity][u] # NoHandoff

\* The cursor never goes back except with the UIDVALIDITY it counts in.
CursorOnlyReset ==
    [][config'.cursor < config.cursor => config'.validity # config.validity]_vars

\* Nobody asks for two batches at once, retries a message or loses a worker.
Undisturbed == Cardinality(Active) <= 1 /\ retries = 0 /\ crashes = 0

\* A batch that is queued or running ends, in an undisturbed mailbox.
BatchEnds ==
    []Undisturbed =>
        \A b \in Batch : batch[b].status \in Unfinished ~> batch[b].status \notin Unfinished
=============================================================================
