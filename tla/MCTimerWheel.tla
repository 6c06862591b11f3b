---------------------------- MODULE MCTimerWheel ----------------------------
(* A small instance of TimerWheel for TLC.                                  *)
EXTENDS TimerWheel
=============================================================================
