------------------------------ MODULE TaskQueue ------------------------------
(***************************************************************************)
(* What ThreadPool promises to the SubReactors that submit to it: tasks    *)
(* are started in the order they were accepted, each of them once, and the *)
(* pool is shut down only when every accepted task has run.                *)
(***************************************************************************)
EXTENDS Naturals, Sequences

CONSTANT Tasks

VARIABLES
    accepted, \* the tasks accepted so far, in order
    started,  \* how many of them have been started
    done,     \* the tasks that have run
    closed    \* shutdown has returned

vars == <<accepted, started, done, closed>>

Started == { accepted[i] : i \in 1 .. started }

Init == accepted = <<>> /\ started = 0 /\ done = {} /\ closed = FALSE

Accept(t) ==
    /\ ~closed
    /\ accepted' = Append(accepted, t)
    /\ UNCHANGED <<started, done, closed>>

Start ==
    /\ started < Len(accepted)
    /\ started' = started + 1
    /\ UNCHANGED <<accepted, done, closed>>

Finish(t) ==
    /\ t \in Started \ done
    /\ done' = done \cup {t}
    /\ UNCHANGED <<accepted, started, closed>>

Close ==
    /\ started = Len(accepted) /\ Started \subseteq done
    /\ closed' = TRUE
    /\ UNCHANGED <<accepted, started, done>>

Next == \/ \E t \in Tasks : Accept(t) \/ Finish(t)
        \/ Start \/ Close

Spec == Init /\ [][Next]_vars
=============================================================================
