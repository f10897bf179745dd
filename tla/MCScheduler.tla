----------------------------- MODULE MCScheduler -----------------------------
(***************************************************************************)
(* TLC instances of Scheduler.                                             *)
(***************************************************************************)
EXTENDS Scheduler

\* Two driven functions are enough for one to follow a failing one; tick treats the
\* third (mailbox_sync) as it treats these.
TwoActions == <<"outbox_drain", "reconcile">>
=============================================================================
