---------------------------- MODULE MCBackup ----------------------------
(* One workbook with one flagged row, uploaded up to twice.                 *)
EXTENDS Backup, TLC

CONSTANTS fA, p1

MCRowsOf == fA :> <<[project |-> p1, risky |-> TRUE, grade |-> "READY"]>>
=============================================================================
