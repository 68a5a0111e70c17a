--------------------------- MODULE MCTimerManager ---------------------------
(***************************************************************************)
(* Three timers, each asked for at once, every second, or never.           *)
(***************************************************************************)
EXTENDS TimerManager

MCRequests == {<<0, 0>>, <<1, 1>>, <<Never, 0>>}
=============================================================================
