---------------------------- MODULE MCTimerQueue ----------------------------
(* A small instance of TimerQueue for TLC.                                  *)
EXTENDS TimerQueue
=============================================================================
