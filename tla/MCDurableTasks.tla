---------------------------- MODULE MCDurableTasks ----------------------------
(***************************************************************************)
(* TLC instances of DurableTasks.                                          *)
(***************************************************************************)
EXTENDS DurableTasks, TLC

\* Worker processes and publishers are interchangeable (safety runs only).
ProcessSymmetry == Permutations(Worker) \cup Permutations(Publisher)
=============================================================================
