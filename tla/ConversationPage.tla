-------------------------- MODULE ConversationPage --------------------------
(***************************************************************************)
(* The page that shows one conversation (useAgentConversation.ts) over the  *)
(* event stream of EventStream: one asynchronous function at a time holds   *)
(* `sending`, a cancel runs beside it, and frames are applied as they come. *)
(***************************************************************************)
EXTENDS EventStream, FiniteSets

CONSTANTS Mishap,       \* what may go wrong, each kind once: "drop", "error", "cancel", "reload"
          MaxMishaps,   \* bound: kinds of mishap in one behaviour
          Reconnects    \* the length of reconnectDelays

ASSUME PageAssumption ==
    /\ Mishap \subseteq {"drop", "error", "cancel", "reload"}
    /\ MaxMishaps \in Nat /\ Reconnects \in Nat

VARIABLES
    page,        \* the reactive state: what the user sees, and the last event applied
    flow,        \* the function that holds `sending`: where it waits, its cursor, its tries
    stop,        \* cancel(): where it waits
    seen,        \* history.messages of the history request under way
    met          \* the mishaps that happened

clientVars == <<page, flow, stop, seen, met>>
vars == <<serverVars, conn, clientVars>>

Status == {"idle", "loading", "streaming", "cancelling", "completed", "error", "disconnected"}
NewPage == [status |-> "idle", known |-> FALSE, url |-> FALSE, shown |-> <<>>, text |-> <<>>,
            ask |-> 0, open |-> FALSE, last |-> 0]
Idle == [at |-> "idle", cursor |-> 0, try |-> 0]

TypeOK ==
    /\ ServerTypeOK
    /\ page \in [status : Status, known : BOOLEAN, url : BOOLEAN,
                 shown : Seq([role : {"USER", "ASSISTANT"}, text : Seq(0..MaxTurns)]),
                 text : Seq(0..MaxTurns), ask : 0..MaxAsks, open : BOOLEAN, last : 0..Len(log)]
    /\ flow \in [at : {"idle", "send", "sent", "respond", "responded", "declined", "connect", "read", "delay",
                       "messages", "runtime", "tail"},
                 cursor : Nat \cup {NoCursor}, try : 0..Reconnects]
    /\ stop \in {"idle", "post", "posted", "messages", "runtime"}
    /\ met \subseteq Mishap /\ Cardinality(met) <= MaxMishaps
    /\ conn.phase # "none" <=> flow.at = "read"

Init ==
    /\ ServerInit
    /\ page = NewPage
    /\ flow = Idle
    /\ stop = "idle"
    /\ seen = <<>>
    /\ met = {}

May(kind) ==
    /\ kind \in Mishap \ met
    /\ Cardinality(met) < MaxMishaps
    /\ met' = met \cup {kind}

At(place) == flow.at = place
Go(place) == flow' = [flow EXCEPT !.at = place]
Show(status) == page' = [page EXCEPT !.status = status]

\* connectStream(url, cursor): its loop begins
ConnectFrom(cursor) == flow' = [at |-> "connect", cursor |-> cursor, try |-> 0]

\* streamingText and progress are reset.
Cleared(p) == [p EXCEPT !.text = <<>>]

-----------------------------------------------------------------------------
(* applyFrame, the reducer.                                                *)

StreamingOr(p) == IF p.status \in {"completed", "error", "cancelling"} THEN p.status ELSE "streaming"

Reduced(p, n) ==
    LET ev == log[n]
        q == [p EXCEPT !.last = n, !.status = StreamingOr(p)]
    IN  CASE ev.type = "DELTA" -> [q EXCEPT !.text = @ \o Text(ev.of)]
          [] ev.type = "REQUIRED" -> [q EXCEPT !.ask = ev.of, !.open = TRUE, !.status = "completed"]
          [] ev.type = "RESOLVED" -> [q EXCEPT !.open = @ /\ p.ask # ev.of]
          [] ev.type = "COMPLETED" -> [Cleared(q) EXCEPT !.status = "completed",
                                          !.shown = Append(@, Message("ASSISTANT", p.text))]
          [] ev.type = "ERROR" -> [Cleared(q) EXCEPT !.status = "error"]
          [] OTHER -> [p EXCEPT !.last = n]

ApplyFrame ==
    /\ conn.at < conn.sent
    /\ conn' = [conn EXCEPT !.at = @ + 1]
    /\ page' = IF conn.at + 1 = page.last THEN page ELSE Reduced(page, conn.at + 1)
    /\ UNCHANGED <<serverVars, flow, stop, seen, met>>

-----------------------------------------------------------------------------
(* connectStream and connectStreamOnce.                                    *)

Connect ==
    /\ At("connect")
    /\ IF page.status = "streaming"
       THEN conn' = Request(flow.cursor) /\ Go("read")
       ELSE flow' = Idle /\ UNCHANGED conn
    /\ UNCHANGED <<serverVars, page, stop, seen, met>>

\* mutant: the last try fails and the status stays what it was
GivenUp_Streaming == "streaming"

\* markDisconnected, reached with status "streaming" only
GivenUp == "disconnected"

\* connectStreamOnce returned: the stream ended, or broke.
StreamOver ==
    /\ conn' = Closed
    /\ \/ page.status # "streaming" /\ flow' = Idle /\ UNCHANGED page
       \/ page.status = "streaming" /\ flow.try < Reconnects /\ Go("delay") /\ UNCHANGED page
       \/ page.status = "streaming" /\ flow.try = Reconnects /\ flow' = Idle /\ Show(GivenUp)
    /\ UNCHANGED <<serverVars, stop, seen>>

EndOfStream ==
    /\ conn.phase = "closed" /\ conn.at = conn.sent
    /\ StreamOver
    /\ UNCHANGED met

ConnectionDrops ==
    /\ conn.phase # "none"
    /\ May("drop")
    /\ StreamOver

\* mutant: a reconnect starts again where the first connection did
ResumeCursor_Baseline == flow.cursor

\* eventIdCursor(state.lastEventId); the id and the sequence name the same event
ResumeCursor == IF page.last = 0 THEN NoCursor ELSE page.last

DelayIsOver ==
    /\ At("delay")
    /\ flow' = [at |-> "connect", cursor |-> ResumeCursor, try |-> flow.try + 1]
    /\ UNCHANGED <<serverVars, conn, page, stop, seen, met>>

\* The GET is answered with an error (consumeStreamError).
StreamRefused ==
    /\ conn.phase = "request"
    /\ May("error")
    /\ conn' = Closed /\ flow' = Idle /\ Show("error")
    /\ UNCHANGED <<serverVars, stop, seen>>

-----------------------------------------------------------------------------
(* send, respondInteraction, reconnect.                                    *)

\* The view offers a message to be sent; with no id the conversation is created.
Send ==
    /\ At("idle") /\ page.status \notin {"cancelling", "streaming", "disconnected"}
    /\ (page.known \/ turn.no = 0) /\ turn.no < MaxTurns
    /\ page' = [Cleared(page) EXCEPT !.status = "loading"]
    /\ Go("send")
    /\ UNCHANGED <<serverVars, conn, stop, seen, met>>

Deliver(step, reply) ==
    /\ step
    /\ flow' = [Idle EXCEPT !.at = reply, !.cursor = Baseline]
    /\ UNCHANGED <<conn, page, stop, seen, met>>

\* The reply is an error, or is lost, or the request was (applyRequestError).
Refused ==
    /\ flow' = Idle /\ Show("error")
    /\ UNCHANGED <<serverVars, conn, stop, seen>>

ServeSend ==
    /\ At("send")
    /\ \/ Deliver(CreateTurn, "sent")
       \/ Live /\ Refused /\ UNCHANGED met

SendReply ==
    /\ At("sent")
    /\ page' = [page EXCEPT !.known = TRUE, !.url = TRUE, !.status = "streaming",
                            !.shown = Append(@, Message("USER", Text(turn.no)))]
    /\ ConnectFrom(flow.cursor)
    /\ UNCHANGED <<serverVars, conn, stop, seen, met>>

Respond ==
    /\ At("idle") /\ page.open
    /\ Go("respond")
    /\ UNCHANGED <<serverVars, conn, page, stop, seen, met>>

ServeRespond ==
    /\ At("respond")
    /\ \/ Deliver(SelectProject, "responded")
       \/ Deliver(DeclineSelection, "declined")
       \/ turn.status # "WAITING" /\ Refused /\ UNCHANGED met

RespondReply ==
    /\ flow.at \in {"responded", "declined"}
    /\ IF At("responded")
       THEN /\ page' = [page EXCEPT !.open = FALSE, !.url = TRUE, !.status = "streaming"]
            /\ ConnectFrom(flow.cursor)
       ELSE page' = [page EXCEPT !.open = FALSE] /\ flow' = Idle
    /\ UNCHANGED <<serverVars, conn, stop, seen, met>>

RequestFails ==
    /\ flow.at \in {"send", "sent", "respond", "responded", "declined"}
    /\ May("error")
    /\ Refused

Reconnect ==
    /\ At("idle") /\ page.status = "disconnected" /\ page.url
    /\ Show("streaming")
    /\ ConnectFrom(ResumeCursor)
    /\ UNCHANGED <<serverVars, conn, stop, seen, met>>

-----------------------------------------------------------------------------
(* GET history: the messages, the turn with its task, and the tail are read *)
(* by separate statements at READ COMMITTED.                               *)

ReadMessages(who) ==
    /\ who = "messages"
    /\ seen' = messages
    /\ UNCHANGED <<serverVars, conn, page, met>>

\* cancel(): the request, its reply, then history until no turn is live.
Cancel ==
    /\ stop = "idle" /\ page.known /\ page.status \in {"streaming", "disconnected"}
    /\ May("cancel")
    /\ Show("cancelling")
    /\ stop' = "post"
    /\ UNCHANGED <<serverVars, conn, flow, seen>>

ServeCancel ==
    /\ stop = "post"
    /\ RequestCancellation
    /\ stop' = "posted"
    /\ UNCHANGED <<conn, page, flow, seen, met>>

CancelFails ==
    /\ stop \in {"post", "posted"}
    /\ May("error")
    /\ Show("error") /\ stop' = "idle"
    /\ UNCHANGED <<serverVars, conn, flow, seen>>

Aborted == Closed

\* abortStream: a stream that is being read ends its function; a delay goes on.
CancelReply ==
    /\ stop = "posted"
    /\ conn' = Aborted
    /\ flow' = IF At("read") THEN Idle ELSE flow
    /\ page' = [Cleared(page) EXCEPT !.url = FALSE]
    /\ stop' = "messages"
    /\ UNCHANGED <<serverVars, seen, met>>

PollMessages == ReadMessages(stop) /\ stop' = "runtime" /\ UNCHANGED flow

\* reconcileTerminal, from waitForRuntimeInactive or drainCancellation
PollRuntime ==
    /\ stop = "runtime"
    /\ IF Live THEN stop' = "messages" /\ UNCHANGED page
       ELSE stop' = "idle" /\ page' = [Cleared(page) EXCEPT !.shown = seen, !.status = "completed"]
    /\ seen' = <<>>
    /\ UNCHANGED <<serverVars, conn, flow, met>>

\* A new page restores the conversation whose id is stored; requests under way are lost.
Reload ==
    /\ May("reload")
    /\ page' = [NewPage EXCEPT !.known = page.known]
    /\ flow' = IF page.known THEN [Idle EXCEPT !.at = "messages"] ELSE Idle
    /\ stop' = "idle" /\ seen' = <<>> /\ conn' = Closed
    /\ UNCHANGED serverVars

RestoreMessages == ReadMessages(flow.at) /\ Go("runtime") /\ UNCHANGED stop

\* applyHistory: no turn is live, or it waits for the user.
RestoreRuntime ==
    /\ At("runtime")
    /\ IF Working THEN Go("tail") /\ UNCHANGED <<page, seen>>
       ELSE /\ flow' = Idle /\ seen' = <<>>
            /\ page' = [Cleared(page) EXCEPT !.shown = seen, !.status = "completed",
                  !.ask = IF Live THEN Asks ELSE @, !.open = Live]
    /\ UNCHANGED <<serverVars, conn, stop, met>>

\* The turn was live when it was read: its stream is opened from the tail read now.
RestoreTail ==
    /\ At("tail")
    /\ seen' = <<>>
    /\ LET restored == [Cleared(page) EXCEPT !.shown = seen]
       IN  IF task.cancel
           THEN /\ page' = [restored EXCEPT !.status = "cancelling"]
                /\ stop' = "messages" /\ flow' = Idle
           ELSE /\ page' = [restored EXCEPT !.status = "streaming", !.url = TRUE]
                /\ ConnectFrom(Len(log)) /\ UNCHANGED stop
    /\ UNCHANGED <<serverVars, conn, met>>

-----------------------------------------------------------------------------
Sending ==
    \/ ServeSend \/ SendReply \/ ServeRespond \/ RespondReply
    \/ ApplyFrame \/ Connect \/ EndOfStream \/ DelayIsOver
    \/ RestoreMessages \/ RestoreRuntime \/ RestoreTail
Stopping == ServeCancel \/ CancelReply \/ PollMessages \/ PollRuntime
User == Send \/ Respond \/ Reconnect \/ Cancel \/ Reload
Failure == ConnectionDrops \/ StreamRefused \/ RequestFails \/ CancelFails

Next ==
    \/ Sending \/ Stopping \/ User \/ Failure
    \/ (Worker \/ Stream) /\ UNCHANGED clientVars

\* Every task ends (DurableTasks), the server answers and the browser runs its callbacks.
Spec ==
    /\ Init /\ [][Next]_vars
    /\ WF_vars(Sending) /\ WF_vars(Stopping)
    /\ WF_vars(Stream /\ UNCHANGED clientVars)
    /\ WF_vars((Fence \/ Ends) /\ UNCHANGED <<conn, clientVars>>)

-----------------------------------------------------------------------------
\* What the server would show, without the markers of questions the user gave up.
Stored == SelectSeq(messages, LAMBDA m : m.text # Marker)
AtRest == flow = Idle /\ stop = "idle"

\* As long as connections drop but no request fails and the user neither stops a turn nor
\* reloads, a page that calls the conversation completed shows every message once, in
\* order: reconnects neither skip nor repeat an answer.
CompletedPageIsTrue ==
    met \subseteq {"drop"} /\ AtRest /\ page.status = "completed" /\ ~page.open
      => page.shown = Stored

\* Whatever goes wrong, an answer on the page is that of one turn, or (replayed) none.
OneTextPerAnswer ==
    \A i \in DOMAIN page.shown : Len(page.shown[i].text) <= 1

\* The page never locks its input with nobody left to unlock it.
LockedPageIsWatched ==
    page.status \in {"loading", "streaming", "cancelling"} => ~AtRest

\* A message that was sent gets its function back: the input is not locked for ever by
\* a stream that no longer carries anything.
SendingEnds == ~At("idle") ~> At("idle")

\* What a page shows is what the server stores: no answer twice, none out of order, none
\* mixed with another turn's.
ShownAnswersAreTrue == TypeOK /\ CompletedPageIsTrue /\ OneTextPerAnswer
=============================================================================
