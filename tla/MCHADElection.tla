--------------------------- MODULE MCHADElection ---------------------------
(***************************************************************************)
(* A pool of N central managers for TLC.                                   *)
(***************************************************************************)
EXTENDS HADElection

\* Four and a half intervals of two periods.
MCStabilise == 9 * (SendTicks + 1)

\* A split lasts until its parts have settled: for a repair before that there
\* are too many states.
SettledRepair == calm = Stabilise /\ Repair

SettledSpec == Init /\ [][Daemons \/ Failures \/ SettledRepair]_vars
=============================================================================
