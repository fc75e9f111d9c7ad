--------------------------- MODULE SubReactorCalm ---------------------------
(***************************************************************************)
(* SubReactor with one history variable: whether EPOLLONESHOT has kept its *)
(* promise so far.  loop(), deal_read and deal_write are written for a     *)
(* descriptor that reports nothing from the submission of its task until   *)
(* handle_msg arms it again (sub_reactor.cpp:223-225, 274, 311).  modfd    *)
(* breaks that (http_conn.cpp:89).  This module says what the rest of the  *)
(* reactor makes of it: up to the first event that reaches a slot with     *)
(* work under way everything is as it should be, whatever the clients do.  *)
(***************************************************************************)
EXTENDS SubReactor

VARIABLE calm \* history: Silent has been true in every state so far

\* No event is at hand about a slot whose request is with the workers.
Silent == \A fd \in Slots : InFlight(fd) => ~Reported(fd)

calmVars == <<vars, calm>>
CalmInit == Init /\ calm = TRUE
CalmNext == Next /\ calm' = (calm /\ Silent')
CalmSpec == CalmInit /\ [][CalmNext]_calmVars
-----------------------------------------------------------------------------
\* Work under way is about the connection in its slot, one piece per slot:
\* neither timeouts, nor closing and reuse of descriptors, nor stale events of
\* a batch, nor failed tasks bring it to a wrong one (sub_reactor.cpp:202,
\* 208, 254, 306).
CalmWork == calm => WorkPinsConnection

\* Every client gets the answers to its own requests, in order, pipelined ones
\* included, also when it leaves early or refuses to read.
CalmAnswers == calm => AnswersMatch

\* No static file leaks, also when a client resets in the middle of it.
CalmFiles == calm => FilesConserved

\* No step changes a slot under its worker.
CalmSlots == [][calm' => SlotsApart]_calmVars
=============================================================================
