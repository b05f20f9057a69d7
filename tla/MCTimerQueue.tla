---------------------------- MODULE MCTimerQueue ----------------------------
(* Two timers, so that one can expire, or cancel the other, while the other  *)
(* is handled; a clock that leaves room for a repeating timer's second run.  *)
EXTENDS TimerQueue
CONSTANTS t1, t2
MCTimer == {t1, t2}
MCIntervals == {1, 2}
=============================================================================
