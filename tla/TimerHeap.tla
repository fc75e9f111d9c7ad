------------------------------ MODULE TimerHeap ------------------------------
(***************************************************************************)
(* TimerHeap (timer_heap.h, timer_heap.cpp): the idle timers of one        *)
(* SubReactor, with lazy deletion.  m_seqs[fd] holds the version of the    *)
(* timer that is valid for fd, 0 for none; a heap node with another        *)
(* version is skipped when it is popped.                                   *)
(*                                                                         *)
(* m_heap is a set of nodes: equal nodes are popped by the same tick, and  *)
(* only the first of them can still match.  due is history: the deadline   *)
(* the last add or refresh asked for; report is history too: {S} just      *)
(* after a tick that called cb for the descriptors of S.                   *)
(***************************************************************************)
EXTENDS Integers

CONSTANTS
    Fds,      \* 0 .. max_fd - 1
    Timeout,  \* timeout_sec
    MaxTime,  \* bound on the clock, for TLC
    MaxSeq,   \* bound on the versions, for TLC
    Never     \* no deadline

ASSUME TimerAssumption == /\ Timeout \in Nat
                          /\ Never \notin Int
                          /\ MaxTime \in Nat /\ MaxSeq \in Nat

VARIABLES
    now,   \* now_monotonic(), in seconds
    heap,  \* m_heap
    seqs,  \* m_seqs
    due,   \* the deadline asked for, while seqs[fd] # 0
    report \* what the last tick has reported

timerVars == <<heap, seqs, due>>
vars == <<now, timerVars, report>>

Live == { fd \in Fds : seqs[fd] # 0 }

\* next_expire() = e: -1 stands for an empty heap.  The bug keeps the default
\* order of priority_queue, which puts the latest node on top.
LatestExpire(e) ==
    \/ heap = {} /\ e = -1
    \/ \E n \in heap : e = n.expire /\ \A m \in heap : n.expire >= m.expire
NextExpire(e) ==
    \/ heap = {} /\ e = -1
    \/ \E n \in heap : e = n.expire /\ \A m \in heap : n.expire <= m.expire

\* add(fd, timeout_sec, now_sec).  The bug pushes the node with the version
\* before the increment.
AddStale(fd) ==
    /\ seqs' = [seqs EXCEPT ![fd] = @ + 1]
    /\ heap' = heap \cup {[expire |-> now + Timeout, fd |-> fd, seq |-> seqs[fd]]}
    /\ due' = [due EXCEPT ![fd] = now + Timeout]
Add(fd) ==
    /\ seqs' = [seqs EXCEPT ![fd] = @ + 1]
    /\ heap' = heap \cup {[expire |-> now + Timeout, fd |-> fd, seq |-> seqs[fd] + 1]}
    /\ due' = [due EXCEPT ![fd] = now + Timeout]

\* refresh(fd, timeout_sec, now_sec)
Refresh(fd) == Add(fd)

\* invalidate(fd) for every fd of S.
InvalidateAll(S) ==
    /\ seqs' = [fd \in Fds |-> IF fd \in S THEN 0 ELSE seqs[fd]]
    /\ due' = [fd \in Fds |-> IF fd \in S THEN Never ELSE due[fd]]
    /\ heap' = heap

\* The nodes tick(now_sec) pops, and the descriptors it calls cb for; cb is
\* close_connection, which invalidates the descriptor once more.  The bug
\* treats the deadline as exclusive.
ExpiredStrictly == { n \in heap : n.expire < now }
Expired == { n \in heap : n.expire <= now }
Fired == { n.fd : n \in { m \in Expired : seqs[m.fd] = m.seq } }

Tick ==
    /\ heap' = heap \ Expired
    /\ seqs' = [fd \in Fds |-> IF fd \in Fired THEN 0 ELSE seqs[fd]]
    /\ due' = [fd \in Fds |-> IF fd \in Fired THEN Never ELSE due[fd]]

Init ==
    /\ now = 0
    /\ heap = {}
    /\ seqs = [fd \in Fds |-> 0]
    /\ due = [fd \in Fds |-> Never]
    /\ report = {}

Quietly == now' = now /\ report' = {}

Pass == now < MaxTime /\ now' = now + 1 /\ report' = {} /\ UNCHANGED timerVars

AddCall(fd) == seqs[fd] < MaxSeq /\ Add(fd) /\ Quietly
RefreshCall(fd) == seqs[fd] < MaxSeq /\ Refresh(fd) /\ Quietly
InvalidateCall(fd) == InvalidateAll({fd}) /\ Quietly
TickCall == Tick /\ now' = now /\ report' = {Fired}

\* Any caller, in any order.
Next == \/ \E fd \in Fds : AddCall(fd) \/ RefreshCall(fd) \/ InvalidateCall(fd)
        \/ TickCall
        \/ Pass

Spec == Init /\ [][Next]_vars
-----------------------------------------------------------------------------
Node == [expire : Nat, fd : Fds, seq : Nat]

\* Every variable has its type.
TypeOK ==
    /\ now \in Nat
    /\ heap \subseteq Node
    /\ seqs \in [Fds -> Nat]
    /\ due \in [Fds -> Nat \cup {Never}]
    /\ report \subseteq SUBSET Fds

\* Lazy deletion loses no timer: a descriptor with a valid version has a
\* deadline, and the node that carries both is in the heap; version 0 is
\* never in the heap, so that an invalidated descriptor cannot fire.
NodeInHeap ==
    /\ \A fd \in Fds :
          IF seqs[fd] = 0 THEN due[fd] = Never
          ELSE /\ due[fd] \in Nat
               /\ [expire |-> due[fd], fd |-> fd, seq |-> seqs[fd]] \in heap
    /\ \A n \in heap : n.seq # 0

\* next_expire() is never later than a deadline that counts (comment at
\* timer_heap.h:48): the timerfd armed with it cannot miss one.
NextExpireNotLate ==
    \A fd \in Live : \A e \in {-1} \cup { n.expire : n \in heap } :
        NextExpire(e) => e # -1 /\ e <= due[fd]

Idle == INSTANCE IdleTimer WITH deadline <- due, EarlyAllowed <- TRUE
Exact == INSTANCE IdleTimer WITH deadline <- due, EarlyAllowed <- FALSE

\* The heap implements the idle timers, as long as being early is allowed.
ImplementsIdleTimer == Idle!Spec

\* refresh and invalidate silence every older node of the descriptor
\* (timer_heap.h:12-13, 29-30): a tick reports exactly what is due.
OnlyDueFires == Exact!Spec
=============================================================================
