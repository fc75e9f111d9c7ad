------------------------------ MODULE MCServer ------------------------------
(***************************************************************************)
(* An instance of Server for TLC.                                          *)
(***************************************************************************)
EXTENDS Server

\* The acceptor, or one of the reactors, may have no epoll.
MCFragile == {Main, 0}
=============================================================================
