----------------------------- MODULE MCNextRun -----------------------------
(* NextRun with a clock of half hours over three weeks.                     *)
EXTENDS NextRun

MCBackupHours == {0, 1, 4, 27, 44, 47}   \* 00:00 00:30 02:00 13:30 22:00 23:30
MCDelays      == {0, 1, 49, 400}         \* on time, half an hour, days
=============================================================================
