--------------------------- MODULE MCWeeklyReport ---------------------------
EXTENDS WeeklyReport
CONSTANTS r1, r2
=============================================================================
