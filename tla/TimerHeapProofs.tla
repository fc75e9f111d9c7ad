--------------------------- MODULE TimerHeapProofs ---------------------------
(***************************************************************************)
(* Proofs about TimerHeap, for every set of descriptors and every timeout: *)
(* its invariants, and that it implements IdleTimer.                       *)
(***************************************************************************)
EXTENDS TimerHeap, TLAPS

IInv == TypeOK /\ NodeInHeap

LEMMA InitInv == Init => IInv
BY TimerAssumption DEF Init, IInv, TypeOK, NodeInHeap, Node

\* add and refresh: the new node is the one the descriptor now counts on.
LEMMA AddInv == ASSUME IInv, NEW fd \in Fds, Add(fd), Quietly
                PROVE  IInv'
<1>1. TypeOK'
    BY TimerAssumption DEF IInv, TypeOK, Add, Node, Quietly
<1>2. NodeInHeap'
    <2>1. ASSUME NEW g \in Fds
          PROVE  IF seqs'[g] = 0 THEN due'[g] = Never
                 ELSE /\ due'[g] \in Nat
                      /\ [expire |-> due'[g], fd |-> g, seq |-> seqs'[g]] \in heap'
        <3>1. CASE g = fd
            BY <3>1, TimerAssumption DEF IInv, TypeOK, Add
        <3>2. CASE g # fd
            BY <3>2 DEF IInv, TypeOK, NodeInHeap, Add
        <3>. QED BY <3>1, <3>2
    <2>2. \A n \in heap' : n.seq # 0
        BY DEF IInv, TypeOK, NodeInHeap, Add, Node
    <2>. QED BY <2>1, <2>2 DEF NodeInHeap
<1>. QED BY <1>1, <1>2 DEF IInv

LEMMA InvalidateInv == ASSUME IInv, NEW S, InvalidateAll(S), Quietly
                       PROVE  IInv'
<1>1. TypeOK'
    BY DEF IInv, TypeOK, InvalidateAll, Quietly
<1>2. NodeInHeap'
    BY DEF IInv, TypeOK, NodeInHeap, InvalidateAll
<1>. QED BY <1>1, <1>2 DEF IInv

\* A descriptor whose own node expires is among those tick reports.
LEMMA DueFires == ASSUME IInv, NEW fd \in Fds, seqs[fd] # 0, due[fd] <= now
                  PROVE  fd \in Fired
<1> DEFINE n == [expire |-> due[fd], fd |-> fd, seq |-> seqs[fd]]
<1>1. n \in heap
    BY DEF IInv, NodeInHeap
<1>2. n \in Expired
    BY <1>1 DEF Expired
<1>3. seqs[n.fd] = n.seq /\ n.fd = fd
    OBVIOUS
<1>. QED BY <1>2, <1>3 DEF Fired

\* tick reports valid descriptors only.
LEMMA FiredLive == IInv => Fired \subseteq Live
BY DEF IInv, TypeOK, NodeInHeap, Fired, Expired, Live, Node

\* tick: a node that stays counted on is later than now, so it is not popped.
LEMMA TickInv == ASSUME IInv, TickCall
                 PROVE  IInv'
<1>1. TypeOK'
    <2>1. Fired \subseteq Fds
        BY FiredLive DEF Live
    <2>. QED BY <2>1 DEF IInv, TypeOK, TickCall, Tick
<1>2. NodeInHeap'
    <2>1. ASSUME NEW g \in Fds
          PROVE  IF seqs'[g] = 0 THEN due'[g] = Never
                 ELSE /\ due'[g] \in Nat
                      /\ [expire |-> due'[g], fd |-> g, seq |-> seqs'[g]] \in heap'
        <3>1. CASE g \in Fired
            BY <3>1 DEF TickCall, Tick
        <3>2. CASE g \notin Fired /\ seqs[g] = 0
            BY <3>2 DEF IInv, NodeInHeap, TickCall, Tick
        <3>3. CASE g \notin Fired /\ seqs[g] # 0
            <4> DEFINE n == [expire |-> due[g], fd |-> g, seq |-> seqs[g]]
            <4>1. n \in heap /\ due[g] \in Nat
                BY <3>3 DEF IInv, NodeInHeap
            <4>2. ~(due[g] <= now)
                BY <3>3, DueFires
            <4>3. n \notin Expired
                BY <4>2 DEF Expired
            <4>4. seqs'[g] = seqs[g] /\ due'[g] = due[g] /\ n \in heap'
                BY <3>3, <4>1, <4>3 DEF TickCall, Tick
            <4>. QED BY <3>3, <4>1, <4>4
        <3>. QED BY <3>1, <3>2, <3>3
    <2>2. \A n \in heap' : n.seq # 0
        BY DEF IInv, NodeInHeap, TickCall, Tick
    <2>. QED BY <2>1, <2>2 DEF NodeInHeap
<1>. QED BY <1>1, <1>2 DEF IInv

LEMMA NextInv == IInv /\ [Next]_vars => IInv'
<1> SUFFICES ASSUME IInv, [Next]_vars PROVE IInv'
    OBVIOUS
<1>1. ASSUME NEW fd \in Fds, AddCall(fd) PROVE IInv'
    BY <1>1, AddInv DEF AddCall
<1>2. ASSUME NEW fd \in Fds, RefreshCall(fd) PROVE IInv'
    BY <1>2, AddInv DEF RefreshCall, Refresh
<1>3. ASSUME NEW fd \in Fds, InvalidateCall(fd) PROVE IInv'
    BY <1>3, InvalidateInv DEF InvalidateCall
<1>4. CASE TickCall
    BY <1>4, TickInv
<1>5. CASE Pass
    BY <1>5 DEF Pass, timerVars, IInv, TypeOK, NodeInHeap
<1>6. CASE UNCHANGED vars
    BY <1>6 DEF vars, timerVars, IInv, TypeOK, NodeInHeap
<1>. QED BY <1>1, <1>2, <1>3, <1>4, <1>5, <1>6 DEF Next

\* The heap never loses the node of a valid timer, and never holds one that
\* could make an invalidated descriptor fire (TimerHeap::add, invalidate, tick).
THEOREM Safe == Spec => [](TypeOK /\ NodeInHeap)
<1>1. IInv => TypeOK /\ NodeInHeap
    BY DEF IInv
<1>. QED BY InitInv, NextInv, <1>1, PTL DEF Spec

\* The timerfd is never armed later than a deadline that counts
\* (TimerHeap::next_expire).
THEOREM NeverLate == Spec => []NextExpireNotLate
<1>1. IInv => NextExpireNotLate
    <2> SUFFICES ASSUME IInv, NEW fd \in Live,
                        NEW e \in {-1} \cup { n.expire : n \in heap }, NextExpire(e)
                 PROVE  e # -1 /\ e <= due[fd]
        BY DEF NextExpireNotLate
    <2> DEFINE own == [expire |-> due[fd], fd |-> fd, seq |-> seqs[fd]]
    <2>1. own \in heap
        BY DEF IInv, NodeInHeap, Live
    <2>2. PICK n \in heap : e = n.expire /\ \A m \in heap : n.expire <= m.expire
        BY <2>1 DEF NextExpire
    <2>3. e <= due[fd] /\ e \in Nat
        BY <2>1, <2>2 DEF IInv, TypeOK, Node
    <2>. QED BY <2>3
<1>. QED BY InitInv, NextInv, <1>1, PTL DEF Spec

\* Lazy deletion implements the abstract timers: a tick reports every
\* descriptor whose deadline has passed and none without a deadline.
THEOREM Refinement == Spec => ImplementsIdleTimer
<1>1. Init => Idle!Init
    BY DEF Init, Idle!Init
<1>2. IInv /\ [Next]_vars => [Idle!Next]_(Idle!vars)
    <2> SUFFICES ASSUME IInv, [Next]_vars PROVE [Idle!Next]_(Idle!vars)
        OBVIOUS
    <2>1. ASSUME NEW fd \in Fds, AddCall(fd) \/ RefreshCall(fd)
          PROVE  Idle!Start(fd)
        BY <2>1 DEF AddCall, RefreshCall, Refresh, Add, Quietly, Idle!Start
    <2>2. ASSUME NEW fd \in Fds, InvalidateCall(fd)
          PROVE  Idle!Cancel(fd)
        <3>1. due' = [due EXCEPT ![fd] = Never]
            BY <2>2 DEF InvalidateCall, InvalidateAll, IInv, TypeOK
        <3>. QED BY <2>2, <3>1 DEF InvalidateCall, Quietly, Idle!Cancel
    <2>3. CASE TickCall
        <3>1. Idle!Due \subseteq Fired
            BY DueFires, TimerAssumption
               DEF Idle!Due, Idle!HasDeadline, IInv, NodeInHeap
        <3>2. Fired \subseteq Idle!HasDeadline
            <4>1. \A fd \in Live : due[fd] \in Nat
                BY DEF Live, IInv, NodeInHeap
            <4>2. \A d \in Nat : d # Never
                BY TimerAssumption
            <4>. QED BY <4>1, <4>2, FiredLive DEF Live, Idle!HasDeadline
        <3>3. Idle!Check(Fired)
            BY <2>3, <3>1, <3>2 DEF TickCall, Tick, Idle!Check
        <3>4. Fired \in SUBSET Fds
            BY FiredLive DEF Live
        <3>. QED BY <3>3, <3>4 DEF Idle!Next
    <2>4. CASE Pass
        BY <2>4 DEF Pass, timerVars, Idle!Next, Idle!Pass
    <2>5. CASE UNCHANGED vars
        BY <2>5 DEF vars, timerVars, Idle!vars
    <2>. QED BY <2>1, <2>2, <2>3, <2>4, <2>5 DEF Next, Idle!Next
<1>. QED BY <1>1, <1>2, InitInv, NextInv, PTL
         DEF Spec, ImplementsIdleTimer, Idle!Spec
=============================================================================
