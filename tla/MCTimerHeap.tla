---------------------------- MODULE MCTimerHeap ----------------------------
(***************************************************************************)
(* Instances of TimerHeap for TLC.                                         *)
(***************************************************************************)
EXTENDS TimerHeap

CONSTANTS f1, f2
=============================================================================
