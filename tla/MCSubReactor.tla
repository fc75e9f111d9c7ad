---------------------------- MODULE MCSubReactor ----------------------------
(***************************************************************************)
(* Instances of SubReactor for TLC.                                        *)
(***************************************************************************)
EXTENDS SubReactor, TLC

CONSTANTS f1, f2, c1, c2, w1, w2, none

\* One file answer, one error answer that closes or does not.
MCFileThenForbidden == <<"FileRequest", "ForbiddenRequest">>
MCFileThenNotFound == <<"FileRequest", "NoResource">>
MCOneFile == <<"FileRequest">>

\* Clients that wait for each answer, and one that sends two requests ahead.
MCWaiting == [c \in Conns |-> 1]
MCOneAhead == [c \in Conns |-> IF c = c1 THEN 2 ELSE 1]

MCWorkerSymmetry == Permutations({w1, w2})
=============================================================================
