---------------------------- MODULE MCThreadPool ----------------------------
(***************************************************************************)
(* An instance of ThreadPool for TLC.                                      *)
(***************************************************************************)
EXTENDS ThreadPool, TLC

CONSTANTS w1, w2, c1, c2, t1, t2, t3
=============================================================================
