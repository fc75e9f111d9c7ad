------------------------------- MODULE LogFile -------------------------------
(***************************************************************************)
(* What AsyncLog promises to the threads that log: the lines it accepts    *)
(* are written in the order in which they were accepted, each of them      *)
(* once, and closing the log writes what is left.  With LossAllowed,       *)
(* closing may leave out one block of lines, which the comments of         *)
(* async_log.h exclude and the code does.                                  *)
(***************************************************************************)
EXTENDS Naturals, Sequences

CONSTANTS Lines, LossAllowed

VARIABLES
    accepted, \* the lines accepted so far, in order
    written,  \* the lines written so far, in order
    open,     \* lines are accepted
    closed    \* everything has been written that will be

vars == <<accepted, written, open, closed>>

Init == accepted = <<>> /\ written = <<>> /\ open = FALSE /\ closed = FALSE

Open == ~closed /\ open' = TRUE /\ UNCHANGED <<accepted, written, closed>>

Accept(l) ==
    /\ open
    /\ accepted' = Append(accepted, l)
    /\ UNCHANGED <<written, open, closed>>

Write(n) ==
    /\ ~closed
    /\ n \in Len(written) .. Len(accepted)
    /\ written' = SubSeq(accepted, 1, n)
    /\ UNCHANGED <<accepted, open, closed>>

Shut == open' = FALSE /\ UNCHANGED <<accepted, written, closed>>

Close(n) ==
    /\ ~open /\ ~closed
    /\ n \in Len(written) .. Len(accepted)
    /\ LossAllowed \/ n = Len(written)
    /\ written' = written \o SubSeq(accepted, n + 1, Len(accepted))
    /\ closed' = TRUE
    /\ UNCHANGED <<accepted, open>>

Next == \/ Open \/ Shut
        \/ \E l \in Lines : Accept(l)
        \/ \E n \in 0 .. Len(accepted) : Write(n) \/ Close(n)

Spec == Init /\ [][Next]_vars
=============================================================================
