----------------------------- MODULE MCAsyncLog -----------------------------
(***************************************************************************)
(* Instances of AsyncLog for TLC.                                          *)
(***************************************************************************)
EXTENDS AsyncLog

CONSTANTS w1, w2
=============================================================================
