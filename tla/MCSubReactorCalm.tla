-------------------------- MODULE MCSubReactorCalm --------------------------
(***************************************************************************)
(* The instances of MCSubReactor with the history of SubReactorCalm.       *)
(***************************************************************************)
EXTENDS MCSubReactor, SubReactorCalm
=============================================================================
