----------------------- MODULE ConversationPageProofs -----------------------
(***************************************************************************)
(* The page of ConversationPage is never left locked, for every number of   *)
(* turns, questions, events, reconnects and mishaps.                       *)
(*                                                                         *)
(* The invariant says who unlocks the page: the request for "loading", the  *)
(* stream's function or a cancel for "streaming", a cancel for              *)
(* "cancelling".  A frame can turn any status into "streaming"; that        *)
(* is harmless because frames only arrive while the function reads, which   *)
(* ties the connection to `flow`.                                          *)
(***************************************************************************)
EXTENDS ConversationPage, TLAPS

\* The records have their fields, whatever the values.
Shape ==
    /\ DOMAIN page = DOMAIN NewPage
    /\ DOMAIN flow = DOMAIN Idle
    /\ DOMAIN conn = DOMAIN Closed

\* A connection is open exactly while the function reads it.
Wired ==
    /\ conn.phase # "none" <=> flow.at = "read"
    /\ conn.phase = "none" => conn = Closed

\* Who unlocks the page.
Watched ==
    /\ page.status = "loading" => flow.at \in {"send", "sent"}
    /\ page.status = "cancelling" => stop # "idle"
    /\ page.status = "streaming" => flow.at \in {"connect", "read", "delay"} \/ stop # "idle"

IInv == Shape /\ Wired /\ Watched

\* The unlockers are at work, so a locked page is not at rest.
LEMMA WatchedIsEnough == IInv => LockedPageIsWatched
BY DEF IInv, Shape, Watched, LockedPageIsWatched, AtRest, Idle

LEMMA InitWatched == Init => IInv
BY DEF Init, ServerInit, IInv, Shape, Wired, Watched, NewPage, Idle, Closed

\* A frame leaves the status alone or makes it "streaming" or one that is not locked, and
\* no field is added.
LEMMA FrameUnlocks ==
    ASSUME IInv, NEW n
    PROVE  /\ DOMAIN Reduced(page, n) = DOMAIN page
           /\ Reduced(page, n).status \in {"streaming", "completed", "error", page.status}
<1>1. \A p, v : DOMAIN p = DOMAIN NewPage =>
          /\ DOMAIN Cleared(p) = DOMAIN p /\ Cleared(p).status = p.status
  BY DEF Cleared, NewPage
<1> QED
  BY <1>1 DEF IInv, Shape, NewPage, Reduced, StreamingOr, Message

\* The steps of the function that holds `sending`.
LEMMA SendingStep == ASSUME IInv, Sending PROVE IInv'
<1> USE DEF IInv, Shape, Wired, Watched, NewPage, Idle, Closed
<1>1. CASE ServeSend
  <2>1. CASE Deliver(CreateTurn, "sent")
    BY <1>1, <2>1 DEF ServeSend, Deliver, At
  <2>2. CASE Refused
    BY <1>1, <2>2 DEF ServeSend, Refused, At, Show
  <2> QED
    BY <1>1, <2>1, <2>2 DEF ServeSend
<1>2. CASE SendReply
  BY <1>2 DEF SendReply, At, ConnectFrom
<1>3. CASE ServeRespond
  <2>1. CASE Deliver(SelectProject, "responded") \/ Deliver(DeclineSelection, "declined")
    BY <1>3, <2>1 DEF ServeRespond, Deliver, At
  <2>2. CASE Refused
    BY <1>3, <2>2 DEF ServeRespond, Refused, At, Show
  <2> QED
    BY <1>3, <2>1, <2>2 DEF ServeRespond
<1>4. CASE RespondReply
  <2>1. CASE At("responded")
    <3>1. /\ page' = [page EXCEPT !.open = FALSE, !.url = TRUE, !.status = "streaming"]
          /\ ConnectFrom(flow.cursor)
          /\ UNCHANGED <<conn, stop>>
      BY <1>4, <2>1 DEF RespondReply
    <3>2. DOMAIN page' = DOMAIN page /\ page'.status = "streaming"
      BY <3>1
    <3> QED
      BY <2>1, <3>1, <3>2 DEF ConnectFrom, At
  <2>2. CASE ~At("responded")
    <3>1. /\ page' = [page EXCEPT !.open = FALSE]
          /\ flow' = Idle /\ flow.at = "declined"
          /\ UNCHANGED <<conn, stop>>
      BY <1>4, <2>2 DEF RespondReply, At
    <3>2. DOMAIN page' = DOMAIN page /\ page'.status = page.status
      BY <3>1
    <3> QED
      BY <3>1, <3>2
  <2> QED
    BY <2>1, <2>2
<1>5. CASE ApplyFrame
  <2>1. conn.phase # "none" /\ flow.at = "read"
    BY <1>5 DEF ApplyFrame
  <2>2. page' = page \/ page' = Reduced(page, conn.at + 1)
    BY <1>5 DEF ApplyFrame
  <2>3. /\ DOMAIN conn' = DOMAIN conn /\ conn'.phase = conn.phase
        /\ flow' = flow /\ stop' = stop
    BY <1>5 DEF ApplyFrame
  <2> QED
    BY <2>1, <2>2, <2>3, FrameUnlocks
<1>6. CASE Connect
  <2>1. CASE page.status = "streaming"
    BY <1>6, <2>1 DEF Connect, At, Go, Request
  <2>2. CASE page.status # "streaming"
    BY <1>6, <2>2 DEF Connect, At
  <2> QED
    BY <2>1, <2>2
<1>7. CASE EndOfStream
  BY <1>7 DEF EndOfStream, StreamOver, GivenUp, Go, Show
<1>8. CASE DelayIsOver
  BY <1>8 DEF DelayIsOver, At
<1>9. CASE RestoreMessages
  BY <1>9 DEF RestoreMessages, ReadMessages, Go
<1>10. CASE RestoreRuntime
  <2>1. CASE Working
    BY <1>10, <2>1 DEF RestoreRuntime, At, Go
  <2>2. CASE ~Working
    <3>1. DOMAIN page' = DOMAIN page /\ page'.status = "completed"
      BY <1>10, <2>2 DEF RestoreRuntime, Cleared
    <3> QED
      BY <1>10, <2>2, <3>1 DEF RestoreRuntime, At
  <2> QED
    BY <2>1, <2>2
<1>11. CASE RestoreTail
  <2>1. CASE task.cancel
    <3>1. DOMAIN page' = DOMAIN page /\ page'.status = "cancelling"
      BY <1>11, <2>1 DEF RestoreTail, Cleared
    <3> QED
      BY <1>11, <2>1, <3>1 DEF RestoreTail, At
  <2>2. CASE ~task.cancel
    <3>1. DOMAIN page' = DOMAIN page /\ page'.status = "streaming"
      BY <1>11, <2>2 DEF RestoreTail, Cleared
    <3> QED
      BY <1>11, <2>2, <3>1 DEF RestoreTail, At, ConnectFrom
  <2> QED
    BY <2>1, <2>2
<1> QED
  BY <1>1, <1>2, <1>3, <1>4, <1>5, <1>6, <1>7, <1>8, <1>9, <1>10, <1>11 DEF Sending

\* The steps of a cancel: it leaves a status only after unlocking the page.
LEMMA StoppingStep == ASSUME IInv, Stopping PROVE IInv'
<1> USE DEF IInv, Shape, Wired, Watched, NewPage, Idle, Closed
<1>1. CASE ServeCancel
  BY <1>1 DEF ServeCancel
<1>2. CASE CancelReply
  BY <1>2 DEF CancelReply, Aborted, Cleared, At
<1>3. CASE PollMessages
  BY <1>3 DEF PollMessages, ReadMessages
<1>4. CASE PollRuntime
  BY <1>4 DEF PollRuntime, Cleared
<1> QED
  BY <1>1, <1>2, <1>3, <1>4 DEF Stopping

\* What the user does.
LEMMA UserStep == ASSUME IInv, User PROVE IInv'
<1> USE DEF IInv, Shape, Wired, Watched, NewPage, Idle, Closed
<1>1. CASE Send
  BY <1>1 DEF Send, Cleared, At, Go
<1>2. CASE Respond
  BY <1>2 DEF Respond, At, Go
<1>3. CASE Reconnect
  BY <1>3 DEF Reconnect, At, Show, ConnectFrom
<1>4. CASE Cancel
  BY <1>4 DEF Cancel, Show
<1>5. CASE Reload
  BY <1>5 DEF Reload
<1> QED
  BY <1>1, <1>2, <1>3, <1>4, <1>5 DEF User

\* What goes wrong.
LEMMA FailureStep == ASSUME IInv, Failure PROVE IInv'
<1> USE DEF IInv, Shape, Wired, Watched, NewPage, Idle, Closed
<1>1. CASE ConnectionDrops
  BY <1>1 DEF ConnectionDrops, StreamOver, GivenUp, Go, Show
<1>2. CASE StreamRefused
  BY <1>2 DEF StreamRefused, Show
<1>3. CASE RequestFails
  BY <1>3 DEF RequestFails, Refused, Show
<1>4. CASE CancelFails
  BY <1>4 DEF CancelFails, Show
<1> QED
  BY <1>1, <1>2, <1>3, <1>4 DEF Failure

\* The server's steps leave the page alone; the stream neither opens nor drops the
\* connection of a page.
LEMMA ServerStep == ASSUME IInv, (Worker \/ Stream) /\ UNCHANGED clientVars PROVE IInv'
<1> USE DEF IInv, Shape, Wired, Watched, clientVars
<1>1. CASE Worker
  BY <1>1 DEF Worker
<1>2. CASE Stream
  <2>1. conn.phase # "none" /\ conn'.phase # "none" /\ DOMAIN conn' = DOMAIN conn
    BY <1>2 DEF Stream, Open, Poll, CheckTask, Closed
  <2> QED
    BY <1>2, <2>1
<1> QED
  BY <1>1, <1>2

LEMMA StepWatched == IInv /\ [Next]_vars => IInv'
<1> SUFFICES ASSUME IInv, [Next]_vars PROVE IInv'
  OBVIOUS
<1>1. CASE UNCHANGED vars
  BY <1>1 DEF vars, clientVars, IInv, Shape, Wired, Watched
<1> QED
  BY <1>1, SendingStep, StoppingStep, UserStep, FailureStep, ServerStep DEF Next

\* The page never locks its input with nobody left to unlock it, however requests, frames,
\* failures, a cancel and a reload interleave (useAgentConversation.ts, agent-sse.ts).
THEOREM PageIsNeverStuck == Spec => []LockedPageIsWatched
<1>1. Spec => []IInv
  BY InitWatched, StepWatched, PTL DEF Spec
<1> QED
  BY <1>1, WatchedIsEnough, PTL
=============================================================================
