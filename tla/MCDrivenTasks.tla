---------------------------- MODULE MCDrivenTasks ----------------------------
(***************************************************************************)
(* TLC instances of DrivenTasks.                                           *)
(***************************************************************************)
EXTENDS DrivenTasks

\* The two actions that reach the tasks; mailbox_sync only enqueues one.
TwoActions == <<"outbox_drain", "reconcile">>
=============================================================================
