--------------------------- MODULE MCReactorTimers ---------------------------
(***************************************************************************)
(* Instances of ReactorTimers for TLC.                                     *)
(***************************************************************************)
EXTENDS ReactorTimers, TLC

CONSTANTS f1, f2
MCSymmetry == Permutations({f1, f2})
=============================================================================
