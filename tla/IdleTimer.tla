------------------------------ MODULE IdleTimer ------------------------------
(***************************************************************************)
(* What the idle timers promise to the rest of a SubReactor: a descriptor  *)
(* has at most one deadline, renewing it moves the deadline, cancelling it *)
(* removes it, and a check reports every descriptor whose deadline has     *)
(* passed and none that has no deadline.  It may report a descriptor early *)
(* (EarlyAllowed), which the comments of timer_heap.h exclude and the code *)
(* does.                                                                   *)
(***************************************************************************)
EXTENDS Integers

CONSTANTS Fds, Timeout, EarlyAllowed, Never

VARIABLES
    now,
    deadline,
    report    \* {S} just after a check that reported S, otherwise {}

vars == <<now, deadline, report>>

HasDeadline == { fd \in Fds : deadline[fd] # Never }
Due == { fd \in HasDeadline : deadline[fd] <= now }

Init == now = 0 /\ deadline = [fd \in Fds |-> Never] /\ report = {}

\* Register or renew.
Start(fd) ==
    /\ deadline' = [deadline EXCEPT ![fd] = now + Timeout]
    /\ now' = now /\ report' = {}

Cancel(fd) ==
    /\ deadline' = [deadline EXCEPT ![fd] = Never]
    /\ now' = now /\ report' = {}

Check(S) ==
    /\ Due \subseteq S /\ S \subseteq HasDeadline
    /\ EarlyAllowed \/ S = Due
    /\ deadline' = [fd \in Fds |-> IF fd \in S THEN Never ELSE deadline[fd]]
    /\ now' = now /\ report' = {S}

Pass == now' = now + 1 /\ deadline' = deadline /\ report' = {}

Next == \/ \E fd \in Fds : Start(fd) \/ Cancel(fd)
        \/ \E S \in SUBSET Fds : Check(S)
        \/ Pass

Spec == Init /\ [][Next]_vars
=============================================================================
