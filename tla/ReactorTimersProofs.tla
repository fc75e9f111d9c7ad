------------------------- MODULE ReactorTimersProofs -------------------------
(***************************************************************************)
(* Proofs about ReactorTimers, for every set of descriptors, every timeout *)
(* and every resolution of the clock.                                      *)
(***************************************************************************)
EXTENDS ReactorTimers, TLAPS

Node == [expire : Nat, fd : Fds, seq : Nat]

\* The node of a valid timer is in the heap.
OwnNode ==
    /\ \A fd \in Fds :
          seqs[fd] # 0 =>
             /\ due[fd] \in Nat
             /\ [expire |-> due[fd], fd |-> fd, seq |-> seqs[fd]] \in heap
    /\ \A n \in heap : n.seq # 0

IInv == TypeOK /\ OwnNode /\ TimerFdArmed

-----------------------------------------------------------------------------
(* Operators *)

\* now_monotonic() drops the fraction of the second.
LEMMA NowType == ASSUME TypeOK PROVE Now \in Nat /\ Now * TPS <= clock /\ clock < (Now + 1) * TPS
  <1>1. clock \in Nat /\ TPS \in Nat \ {0}
    BY ReactorTimersAssumption DEF TypeOK
  <1>2. \A c \in Nat, t \in Nat \ {0} : /\ c \div t \in Nat /\ (c \div t) * t <= c
                                        /\ c < ((c \div t) + 1) * t
    OBVIOUS
  <1> QED
    BY <1>1, <1>2 DEF Now

\* arm_timerfd() disarms the timerfd for an empty heap, and otherwise lets it
\* expire when the first node does, or in a second.
LEMMA Armed ==
  ASSUME TypeOK, heap' \subseteq Node, ArmTimerFd, UNCHANGED clock
  PROVE  \/ heap' = {} /\ tfd' = Never
         \/ \E e \in Nat : /\ \A n \in heap' : e <= n.expire
                           /\ \E n \in heap' : e = n.expire
                           /\ tfd' = clock + TPS * (IF e <= Now THEN 1 ELSE e - Now)
  <1>1. PICK e \in {-1} \cup { n.expire : n \in heap' } :
          /\ Timers!NextExpire(e)'
          /\ tfd' = IF e < 0 THEN Never
                    ELSE clock + TPS * (IF e <= Now THEN 1 ELSE e - Now)
    BY DEF ArmTimerFd
  <1>2. \/ heap' = {} /\ e = -1
        \/ \E n \in heap' : e = n.expire /\ \A m \in heap' : n.expire <= m.expire
    BY <1>1 DEF Timers!NextExpire
  <1>3. CASE heap' = {} /\ e = -1
    BY <1>1, <1>3
  <1>4. CASE \E n \in heap' : e = n.expire /\ \A m \in heap' : n.expire <= m.expire
    <2>1. e \in Nat /\ ~(e < 0)
      BY <1>4 DEF Node
    <2> QED
      BY <1>1, <1>4, <2>1
  <1> QED
    BY <1>2, <1>3, <1>4

\* The instant arm_timerfd() asks for is one.
LEMMA ArmType ==
  ASSUME TypeOK, heap' \subseteq Node, ArmTimerFd, UNCHANGED clock
  PROVE  tfd' \in Nat \cup {Never} /\ (heap' # {} => tfd' # Never)
  <1>1. CASE heap' = {} /\ tfd' = Never
    BY <1>1
  <1>2. ASSUME NEW e \in Nat,
               tfd' = clock + TPS * (IF e <= Now THEN 1 ELSE e - Now)
        PROVE  tfd' \in Nat
    <2>1. clock \in Nat /\ TPS \in Nat /\ Now \in Nat
      BY NowType, ReactorTimersAssumption DEF TypeOK
    <2>2. (IF e <= Now THEN 1 ELSE e - Now) \in Nat
      BY <2>1
    <2>3. \A k \in Nat : clock + TPS * k \in Nat
      BY <2>1
    <2> QED
      BY <1>2, <2>2, <2>3
  <1>3. Never \notin Nat
    BY ReactorTimersAssumption
  <1> QED
    BY <1>1, <1>2, <1>3, Armed

\* TimerHeap::add and refresh: the new node is the descriptor's own.
LEMMA AddOwn == ASSUME TypeOK, OwnNode, NEW fd \in Fds, Timers!Add(fd)
  PROVE  /\ OwnNode' /\ heap' \subseteq Node /\ heap' # {}
         /\ seqs' \in [Fds -> Nat] /\ due' \in [Fds -> Nat \cup {Never}]
         /\ seqs' = [seqs EXCEPT ![fd] = seqs[fd] + 1]
         /\ due' = [due EXCEPT ![fd] = Now + Timeout]
         /\ heap' = heap \cup {[expire |-> Now + Timeout, fd |-> fd, seq |-> seqs[fd] + 1]}
  <1>1. Now + Timeout \in Nat /\ seqs[fd] + 1 \in Nat /\ seqs[fd] + 1 # 0
    BY NowType, ReactorTimersAssumption DEF TypeOK
  <1>2. /\ seqs' = [seqs EXCEPT ![fd] = seqs[fd] + 1]
        /\ due' = [due EXCEPT ![fd] = Now + Timeout]
        /\ heap' = heap \cup {[expire |-> Now + Timeout, fd |-> fd, seq |-> seqs[fd] + 1]}
    BY DEF Timers!Add
  <1>3. /\ heap' \subseteq Node /\ seqs' \in [Fds -> Nat] /\ due' \in [Fds -> Nat \cup {Never}]
    BY <1>1, <1>2 DEF TypeOK, Node
  <1>4. ASSUME NEW g \in Fds, seqs'[g] # 0
        PROVE  /\ due'[g] \in Nat
               /\ [expire |-> due'[g], fd |-> g, seq |-> seqs'[g]] \in heap'
    <2>1. CASE g = fd
      BY <1>1, <1>2, <2>1 DEF TypeOK
    <2>2. CASE g # fd
      BY <1>2, <1>4, <2>2 DEF TypeOK, OwnNode
    <2> QED
      BY <2>1, <2>2
  <1>5. \A n \in heap' : n.seq # 0
    BY <1>1, <1>2 DEF OwnNode
  <1> QED
    BY <1>2, <1>3, <1>4, <1>5 DEF OwnNode

\* A timer that is renewed and invalidated in one handler leaves its node.
LEMMA RefreshAndInvalidateOwn ==
  ASSUME TypeOK, OwnNode, NEW fd \in Fds, RefreshAndInvalidate(fd)
  PROVE  /\ OwnNode' /\ heap' \subseteq Node /\ heap' # {}
         /\ seqs' \in [Fds -> Nat] /\ due' \in [Fds -> Nat \cup {Never}]
         /\ seqs' = [seqs EXCEPT ![fd] = 0]
         /\ due' = [due EXCEPT ![fd] = Never]
         /\ heap' = heap \cup {[expire |-> Now + Timeout, fd |-> fd, seq |-> seqs[fd] + 1]}
  <1>1. Now + Timeout \in Nat /\ seqs[fd] + 1 \in Nat /\ seqs[fd] + 1 # 0
    BY NowType, ReactorTimersAssumption DEF TypeOK
  <1>2. /\ seqs' = [seqs EXCEPT ![fd] = 0]
        /\ due' = [due EXCEPT ![fd] = Never]
        /\ heap' = heap \cup {[expire |-> Now + Timeout, fd |-> fd, seq |-> seqs[fd] + 1]}
    BY DEF RefreshAndInvalidate
  <1>3. /\ heap' \subseteq Node /\ seqs' \in [Fds -> Nat] /\ due' \in [Fds -> Nat \cup {Never}]
    BY <1>1, <1>2 DEF TypeOK, Node
  <1>4. ASSUME NEW g \in Fds, seqs'[g] # 0
        PROVE  /\ due'[g] \in Nat
               /\ [expire |-> due'[g], fd |-> g, seq |-> seqs'[g]] \in heap'
    <2>1. g # fd
      BY <1>2, <1>4 DEF TypeOK
    <2> QED
      BY <1>2, <1>4, <2>1 DEF TypeOK, OwnNode
  <1>5. \A n \in heap' : n.seq # 0
    BY <1>1, <1>2 DEF OwnNode
  <1> QED
    BY <1>2, <1>3, <1>4, <1>5 DEF OwnNode

\* What a handler does to the timers: it renews the timer of a descriptor,
\* perhaps to invalidate it at once, and arms the timerfd,
Renews(fd) == (Timers!Add(fd) \/ RefreshAndInvalidate(fd)) /\ Arm

\* or closes the connection without arming it,
Drops(fd) == Timers!InvalidateAll({fd}) /\ UNCHANGED <<clock, tfd, quiet>>

\* or leaves the timers alone.
Spares == UNCHANGED <<clock, heap, seqs, due, tfd, quiet>>

Handler(fd) == AddNewConn(fd) \/ BusDone(fd) \/ DealRead(fd) \/ DealWrite(fd) \/ DealHup(fd)

WatchOK == /\ batch \subseteq {TimerEvent} \cup (Fds \X {"IN", "OUT", "HUP"})
           /\ reg \in [Fds -> Masks] /\ work \in [Fds -> Nat]

LEMMA HandlerEffect == ASSUME TypeOK, NEW fd \in Fds, Handler(fd)
  PROVE  (Renews(fd) \/ Drops(fd) \/ Spares) /\ WatchOK'
  <1>1. WatchOK
    BY DEF TypeOK, WatchOK
  <1>2. CASE AddNewConn(fd)
    <2>1. reg' = [reg EXCEPT ![fd] = "first"] /\ UNCHANGED <<work, batch>> /\ Renews(fd)
      BY <1>2 DEF AddNewConn, ModFd, Renews
    <2> QED
      BY <1>1, <2>1 DEF WatchOK, Masks
  <1>3. CASE BusDone(fd)
    <2>1. /\ work[fd] > 0 /\ work' = [work EXCEPT ![fd] = work[fd] - 1]
          /\ UNCHANGED batch /\ (Renews(fd) \/ Drops(fd) \/ Spares)
          /\ \E mask \in {reg[fd], "OUT", "none"} : reg' = [reg EXCEPT ![fd] = mask]
      BY <1>1, <1>3 DEF BusDone, Close, Renews, Drops, Spares, WatchOK
    <2>2. work[fd] - 1 \in Nat
      BY <1>1, <2>1 DEF WatchOK
    <2> QED
      BY <1>1, <2>1, <2>2 DEF WatchOK, Masks
  <1>4. CASE DealRead(fd) \/ DealWrite(fd) \/ DealHup(fd)
    <2>1. /\ batch' \subseteq batch /\ (Renews(fd) \/ Drops(fd) \/ Spares)
          /\ \E mask \in {reg[fd], "IN", "OUT", "none"} : reg' = [reg EXCEPT ![fd] = mask]
          /\ work' = work \/ work' = [work EXCEPT ![fd] = work[fd] + 1]
      BY <1>1, <1>4 DEF DealRead, DealWrite, DealHup, Handle, Submit, Close, ModFd,
                        Timers!Refresh, Renews, Drops, Spares, WatchOK
    <2>2. work[fd] + 1 \in Nat
      BY <1>1 DEF WatchOK
    <2> QED
      BY <1>1, <2>1, <2>2 DEF WatchOK, Masks
  <1> QED
    BY <1>2, <1>3, <1>4 DEF Handler

\* A renewal keeps the invariant,
LEMMA RenewalKeeps == ASSUME IInv, NEW fd \in Fds, Renews(fd), WatchOK' PROVE IInv'
  <1>1. TypeOK /\ OwnNode
    BY DEF IInv
  <1>2. /\ OwnNode' /\ heap' \subseteq Node /\ heap' # {}
        /\ seqs' \in [Fds -> Nat] /\ due' \in [Fds -> Nat \cup {Never}]
    BY <1>1, AddOwn, RefreshAndInvalidateOwn DEF Renews
  <1>3. ArmTimerFd /\ UNCHANGED clock /\ quiet' = 0
    BY DEF Renews, Arm
  <1>4. tfd' \in Nat \cup {Never} /\ tfd' # Never
    BY <1>1, <1>2, <1>3, ArmType
  <1>5. TypeOK'
    <2>1. quiet' \in 0 .. TPS + 1
      BY <1>3, ReactorTimersAssumption
    <2> QED
      BY <1>1, <1>2, <1>3, <1>4, <2>1 DEF TypeOK, WatchOK, Node
  <1> QED
    BY <1>2, <1>4, <1>5 DEF IInv, TimerFdArmed

\* and so does a connection that takes its timer with it.
LEMMA DropKeeps == ASSUME IInv, NEW fd \in Fds, Drops(fd), WatchOK' PROVE IInv'
  <1>1. TypeOK /\ OwnNode /\ TimerFdArmed
    BY DEF IInv
  <1>2. /\ seqs' = [g \in Fds |-> IF g = fd THEN 0 ELSE seqs[g]]
        /\ due' = [g \in Fds |-> IF g = fd THEN Never ELSE due[g]]
        /\ UNCHANGED <<clock, heap, tfd, quiet>>
    BY DEF Drops, Timers!InvalidateAll
  <1>3. TypeOK'
    BY <1>1, <1>2 DEF TypeOK, WatchOK
  <1>4. OwnNode'
    BY <1>1, <1>2 DEF OwnNode
  <1>5. TimerFdArmed'
    BY <1>1, <1>2 DEF TimerFdArmed
  <1> QED
    BY <1>3, <1>4, <1>5 DEF IInv

\* Nothing changes for the timers.
LEMMA SparesKeeps == ASSUME IInv, Spares, WatchOK' PROVE IInv'
  BY DEF IInv, TypeOK, OwnNode, TimerFdArmed, Spares, WatchOK

LEMMA HandlerKeeps == ASSUME IInv, NEW fd \in Fds, Handler(fd) PROVE IInv'
  BY HandlerEffect, RenewalKeeps, DropKeeps, SparesKeeps DEF IInv

\* epoll_wait() reports events of the descriptors and the timerfd.
LEMMA WaitKeeps == ASSUME IInv, EpollWait PROVE IInv' /\ Spares
  <1>1. Spares /\ work' = work
    BY DEF EpollWait, Spares
  <1>2. PICK S \in SUBSET UNION { Events(fd) : fd \in Fds }, t \in BOOLEAN :
           /\ batch' = S \cup (IF t THEN {TimerEvent} ELSE {})
           /\ reg' = [fd \in Fds |->
                         IF reg[fd] = "first" /\ S \cap Events(fd) # {} THEN "off"
                         ELSE reg[fd]]
    BY DEF EpollWait
  <1>3. \A fd \in Fds : Events(fd) \subseteq Fds \X {"IN", "OUT", "HUP"}
    BY DEF Events, Event
  <1>4. batch' \subseteq {TimerEvent} \cup (Fds \X {"IN", "OUT", "HUP"})
    BY <1>2, <1>3
  <1>5. reg' \in [Fds -> Masks]
    BY <1>2 DEF IInv, TypeOK, Masks
  <1>6. WatchOK'
    BY <1>1, <1>4, <1>5 DEF WatchOK, IInv, TypeOK
  <1> QED
    BY <1>1, <1>6, SparesKeeps

\* A tick pops what has expired; the timers that stay valid keep their nodes,
\* which expire later.
LEMMA TickOwn == ASSUME TypeOK, OwnNode, Timers!Tick
  PROVE  /\ OwnNode' /\ heap' \subseteq heap
         /\ \A n \in heap' : n.expire > Now
         /\ seqs' = [fd \in Fds |-> IF fd \in Timers!Fired THEN 0 ELSE seqs[fd]]
         /\ due' = [fd \in Fds |-> IF fd \in Timers!Fired THEN Never ELSE due[fd]]
         /\ \A fd \in Fds : seqs'[fd] # 0 => due'[fd] > Now
  <1>1. /\ heap' = { n \in heap : ~(n.expire <= Now) }
        /\ seqs' = [fd \in Fds |-> IF fd \in Timers!Fired THEN 0 ELSE seqs[fd]]
        /\ due' = [fd \in Fds |-> IF fd \in Timers!Fired THEN Never ELSE due[fd]]
    BY DEF Timers!Tick, Timers!Expired
  <1>2. \A n \in heap' : n.expire > Now
    BY <1>1, NowType DEF TypeOK
  <1>3. ASSUME NEW fd \in Fds, seqs'[fd] # 0
        PROVE  /\ due'[fd] \in Nat /\ due'[fd] > Now
               /\ [expire |-> due'[fd], fd |-> fd, seq |-> seqs'[fd]] \in heap'
    <2>1. seqs'[fd] = seqs[fd] /\ due'[fd] = due[fd] /\ fd \notin Timers!Fired
      BY <1>1, <1>3
    <2> DEFINE n == [expire |-> due[fd], fd |-> fd, seq |-> seqs[fd]]
    <2>2. n \in heap /\ due[fd] \in Nat
      BY <1>3, <2>1 DEF OwnNode
    <2>3. ~(due[fd] <= Now)
      <3>1. n.expire = due[fd] /\ n.fd = fd /\ n.seq = seqs[fd]
        OBVIOUS
      <3>2. ASSUME due[fd] <= Now PROVE fd \in Timers!Fired
        BY <2>2, <3>1, <3>2 DEF Timers!Fired, Timers!Expired
      <3> QED
        BY <2>1, <3>2
    <2>4. n \in heap'
      BY <1>1, <2>2, <2>3
    <2> QED
      BY <2>1, <2>2, <2>3, <2>4, NowType
  <1> QED
    BY <1>1, <1>2, <1>3 DEF OwnNode

\* handle_timeout() closes what has expired and arms the timerfd for the rest.
LEMMA TimeoutKeeps == ASSUME IInv, HandleTimeout PROVE IInv'
  <1>1. TypeOK /\ OwnNode
    BY DEF IInv
  <1>2. /\ Timers!Tick /\ ArmTimerFd /\ UNCHANGED <<clock, work, quiet>>
        /\ batch' \subseteq batch
        /\ reg' = [fd \in Fds |-> IF fd \in Timers!Fired THEN "none" ELSE reg[fd]]
    BY DEF HandleTimeout, TickAndClose, Handle
  <1>3. /\ OwnNode' /\ heap' \subseteq heap
        /\ seqs' = [fd \in Fds |-> IF fd \in Timers!Fired THEN 0 ELSE seqs[fd]]
        /\ due' = [fd \in Fds |-> IF fd \in Timers!Fired THEN Never ELSE due[fd]]
    BY <1>1, <1>2, TickOwn
  <1>4. heap' \subseteq Node
    BY <1>1, <1>3 DEF TypeOK, Node
  <1>5. tfd' \in Nat \cup {Never} /\ (heap' # {} => tfd' # Never)
    BY <1>1, <1>2, <1>4, ArmType
  <1>6. TypeOK'
    <2>1. heap' \subseteq [expire : Nat, fd : Fds, seq : Nat] /\ clock' \in Nat
             /\ quiet' \in 0 .. TPS + 1
      BY <1>1, <1>2, <1>3 DEF TypeOK
    <2>2. seqs' \in [Fds -> Nat] /\ due' \in [Fds -> Nat \cup {Never}]
      BY <1>1, <1>3 DEF TypeOK
    <2>3. reg' \in [Fds -> Masks] /\ work' \in [Fds -> Nat]
      BY <1>1, <1>2 DEF TypeOK, Masks
    <2>4. batch' \subseteq {TimerEvent} \cup (Fds \X {"IN", "OUT", "HUP"})
      BY <1>1, <1>2 DEF TypeOK
    <2> QED
      BY <1>5, <2>1, <2>2, <2>3, <2>4 DEF TypeOK
  <1>7. TimerFdArmed'
    BY <1>3, <1>5 DEF OwnNode, TimerFdArmed
  <1> QED
    BY <1>3, <1>6, <1>7 DEF IInv

\* Time passes.
LEMMA PassKeeps == ASSUME IInv, Pass PROVE IInv'
  <1>1. TypeOK /\ OwnNode /\ TimerFdArmed
    BY DEF IInv
  <1>2. /\ UNCHANGED <<heap, seqs, due, tfd, batch, reg, work>>
        /\ clock' = clock + 1
        /\ quiet' = IF quiet <= TPS THEN quiet + 1 ELSE quiet
    BY DEF Pass
  <1>3. clock' \in Nat /\ quiet' \in 0 .. TPS + 1
    BY <1>1, <1>2, ReactorTimersAssumption DEF TypeOK
  <1>4. TypeOK'
    BY <1>1, <1>2, <1>3 DEF TypeOK
  <1> QED
    BY <1>1, <1>2, <1>4 DEF IInv, OwnNode, TimerFdArmed

LEMMA InitInv == Init => IInv
  <1> SUFFICES ASSUME Init PROVE IInv
    OBVIOUS
  <1>1. TypeOK
    <2>1. clock \in Nat /\ quiet \in 0 .. TPS + 1
      BY ReactorTimersAssumption DEF Init
    <2>2. /\ heap \subseteq [expire : Nat, fd : Fds, seq : Nat]
          /\ batch \subseteq {TimerEvent} \cup (Fds \X {"IN", "OUT", "HUP"})
      BY DEF Init
    <2>3. /\ seqs \in [Fds -> Nat] /\ due \in [Fds -> Nat \cup {Never}]
          /\ tfd \in Nat \cup {Never}
      BY DEF Init
    <2>4. reg \in [Fds -> Masks] /\ work \in [Fds -> Nat]
      BY DEF Init, Masks
    <2> QED
      BY <2>1, <2>2, <2>3, <2>4 DEF TypeOK
  <1>2. OwnNode
    BY DEF Init, OwnNode
  <1>3. TimerFdArmed
    BY DEF Init, TimerFdArmed
  <1> QED
    BY <1>1, <1>2, <1>3 DEF IInv

\* No step breaks the invariant.
LEMMA Step == IInv /\ [Next]_vars => IInv'
  <1> SUFFICES ASSUME IInv, [Next]_vars PROVE IInv'
    OBVIOUS
  <1>1. ASSUME NEW fd \in Fds, Handler(fd) PROVE IInv'
    BY <1>1, HandlerKeeps
  <1>2. CASE UNCHANGED vars
    BY <1>2 DEF vars, IInv, TypeOK, OwnNode, TimerFdArmed
  <1> QED
    BY <1>1, <1>2, WaitKeeps, TimeoutKeeps, PassKeeps DEF Next, Handler, EndOfTime

\* No valid timer is left with a disarmed timerfd (sub_reactor.cpp:107-133).
THEOREM NeverDisarmed == Spec => []TimerFdArmed
  <1>1. IInv => TimerFdArmed
    BY DEF IInv
  <1> QED
    BY InitInv, Step, <1>1, PTL DEF Spec

\* Every variable of the timers keeps its type, whatever the handlers' order
\* (sub_reactor.cpp, timer_heap.cpp).
THEOREM TypeCorrect == Spec => []TypeOK
  <1>1. IInv => TypeOK
    BY DEF IInv
  <1> QED
    BY InitInv, Step, <1>1, PTL DEF Spec
-----------------------------------------------------------------------------
(* The deadlines *)

\* The timerfd expires within the second of a deadline, or within a second of
\* the last event that armed it.
Timely(fd) == \/ tfd < (due[fd] + 1) * TPS
              \/ tfd <= clock + (TPS - quiet)

DInv == /\ IInv
        /\ tfd # Never => clock <= tfd
        /\ \A fd \in Fds : seqs[fd] # 0 => Timely(fd)

\* Arithmetic: a node expires at e, at instant c of second n; e <= d.
LEMMA LaterNode ==
  ASSUME NEW t \in Nat \ {0}, NEW c \in Nat, NEW n \in Nat, NEW e \in Nat, NEW d \in Nat,
         c < (n + 1) * t, e > n, e <= d
  PROVE  c + t * (e - n) < (d + 1) * t /\ c < c + t * (e - n)
  <1>1. t * (e - n) = e * t - n * t /\ (n + 1) * t = n * t + t /\ (d + 1) * t = d * t + t
    OBVIOUS
  <1>2. e * t <= d * t
    OBVIOUS
  <1>3. t * (e - n) >= t
    <2>1. e - n \in Nat /\ e - n >= 1
      OBVIOUS
    <2>2. \A k \in Nat : k >= 1 => t * k >= t
      OBVIOUS
    <2> QED
      BY <2>1, <2>2
  <1>4. /\ t * (e - n) \in Int /\ n * t \in Int /\ e * t \in Int /\ d * t \in Int
    OBVIOUS
  <1> QED
    BY <1>1, <1>2, <1>3, <1>4

\* arm_timerfd() leaves the timerfd before every deadline to come, and within a
\* second if one has passed.
LEMMA ArmedTimely ==
  ASSUME TypeOK, OwnNode', heap' \subseteq Node, ArmTimerFd, UNCHANGED clock
  PROVE  /\ tfd' # Never => clock < tfd'
         /\ \A g \in Fds : seqs'[g] # 0 => \/ tfd' < (due'[g] + 1) * TPS
                                           \/ tfd' = clock + TPS /\ \E n \in heap' : n.expire <= Now
  <1>1. clock \in Nat /\ TPS \in Nat \ {0} /\ Now \in Nat /\ clock < (Now + 1) * TPS
    BY NowType, ReactorTimersAssumption DEF TypeOK
  <1>2. CASE heap' = {} /\ tfd' = Never
    BY <1>2 DEF OwnNode
  <1>3. ASSUME NEW e \in Nat, \A n \in heap' : e <= n.expire, \E n \in heap' : e = n.expire,
               tfd' = clock + TPS * (IF e <= Now THEN 1 ELSE e - Now)
        PROVE  /\ clock < tfd'
               /\ \A g \in Fds : seqs'[g] # 0 =>
                     \/ tfd' < (due'[g] + 1) * TPS
                     \/ tfd' = clock + TPS /\ \E n \in heap' : n.expire <= Now
    <2>1. ASSUME NEW g \in Fds, seqs'[g] # 0 PROVE due'[g] \in Nat /\ e <= due'[g]
      <3> DEFINE n == [expire |-> due'[g], fd |-> g, seq |-> seqs'[g]]
      <3>1. n \in heap' /\ n.expire = due'[g] /\ due'[g] \in Nat
        BY <2>1 DEF OwnNode
      <3> QED
        BY <1>3, <3>1
    <2>2. CASE e > Now
      <3>1. tfd' = clock + TPS * (e - Now)
        BY <1>1, <1>3, <2>2
      <3>2. \A d \in Nat : e <= d => /\ clock + TPS * (e - Now) < (d + 1) * TPS
                                     /\ clock < clock + TPS * (e - Now)
        BY <1>1, <2>2, LaterNode
      <3>3. e <= e
        OBVIOUS
      <3> QED
        BY <2>1, <3>1, <3>2, <3>3
    <2>3. CASE e <= Now
      <3>1. tfd' = clock + TPS
        BY <1>1, <1>3, <2>3
      <3>2. \E n \in heap' : n.expire <= Now
        BY <1>3, <2>3
      <3>3. clock < clock + TPS
        BY <1>1
      <3> QED
        BY <3>1, <3>2, <3>3
    <2> QED
      BY <1>1, <2>2, <2>3
  <1> QED
    BY <1>2, <1>3, Armed

\* A handler that arms the timerfd starts a quiet second.
LEMMA RenewalTimely == ASSUME DInv, NEW fd \in Fds, Renews(fd), IInv' PROVE DInv'
  <1>1. /\ TypeOK /\ OwnNode' /\ heap' \subseteq Node /\ ArmTimerFd
        /\ UNCHANGED clock /\ quiet' = 0
    BY DEF DInv, IInv, TypeOK, Renews, Arm, Node
  <1>2. /\ clock \in Nat /\ TPS \in Nat /\ tfd' \in Nat \cup {Never}
    BY <1>1, ReactorTimersAssumption DEF IInv, TypeOK
  <1>3. tfd' # Never => clock' <= tfd'
    BY <1>1, <1>2, ArmedTimely
  <1>4. clock + TPS <= clock' + (TPS - quiet')
    BY <1>1, <1>2
  <1>5. \A g \in Fds : seqs'[g] # 0 => Timely(g)'
    BY <1>1, <1>4, ArmedTimely DEF Timely
  <1> QED
    BY <1>3, <1>5 DEF DInv

\* close_connection() leaves the timerfd armed, perhaps for nobody.
LEMMA DropTimely == ASSUME DInv, NEW fd \in Fds, Drops(fd), IInv' PROVE DInv'
  <1>1. /\ \A g \in Fds : seqs'[g] # 0 => seqs[g] # 0 /\ due'[g] = due[g]
        /\ UNCHANGED <<clock, tfd, quiet>>
    BY DEF Drops, Timers!InvalidateAll
  <1> QED
    BY <1>1 DEF DInv, Timely

LEMMA SparesTimely == ASSUME DInv, Spares, IInv' PROVE DInv'
  BY DEF DInv, Timely, Spares

\* handle_timeout() is left with deadlines to come.
LEMMA TimeoutTimely == ASSUME DInv, HandleTimeout PROVE DInv'
  <1>1. IInv /\ IInv' /\ TypeOK /\ OwnNode /\ OwnNode'
    BY TimeoutKeeps DEF DInv, IInv
  <1>2. Timers!Tick /\ ArmTimerFd /\ UNCHANGED <<clock, quiet>>
    BY DEF HandleTimeout, TickAndClose
  <1>3. heap' \subseteq Node /\ \A n \in heap' : n.expire > Now
    BY <1>1, <1>2, TickOwn DEF TypeOK, Node
  <1>4. ~\E n \in heap' : n.expire <= Now
    BY <1>1, <1>3, NowType DEF Node
  <1>5. /\ tfd' # Never => clock < tfd'
        /\ \A g \in Fds : seqs'[g] # 0 => tfd' < (due'[g] + 1) * TPS
    BY <1>1, <1>2, <1>3, <1>4, ArmedTimely
  <1>6. clock \in Nat /\ tfd' \in Nat \cup {Never}
    BY <1>1 DEF IInv, TypeOK
  <1>7. tfd' # Never => clock' <= tfd'
    BY <1>2, <1>5, <1>6
  <1> QED
    BY <1>1, <1>5, <1>7 DEF DInv, Timely

\* Time passes up to the instant of the timerfd, and no further.
LEMMA PassTimely == ASSUME DInv, Pass PROVE DInv'
  <1>1. IInv' /\ TypeOK /\ TimerFdArmed
    BY PassKeeps DEF DInv, IInv
  <1>2. /\ clock' = clock + 1 /\ UNCHANGED <<seqs, due, tfd>>
        /\ tfd = Never \/ ~(tfd <= clock)
        /\ quiet' = IF quiet <= TPS THEN quiet + 1 ELSE quiet
    BY DEF Pass, TimerExpired
  <1>3. /\ clock \in Nat /\ TPS \in Nat /\ quiet \in 0 .. TPS + 1 /\ tfd \in Nat \cup {Never}
    BY <1>1, ReactorTimersAssumption DEF TypeOK
  <1>4. tfd' # Never => clock' <= tfd'
    BY <1>2, <1>3
  <1>5. ASSUME NEW g \in Fds, seqs'[g] # 0 PROVE Timely(g)'
    <2>1. Timely(g) /\ tfd \in Nat /\ ~(tfd <= clock)
      BY <1>1, <1>2, <1>3, <1>5 DEF DInv, TimerFdArmed
    <2>2. CASE tfd < (due[g] + 1) * TPS
      BY <1>2, <2>2 DEF Timely
    <2>3. CASE tfd <= clock + (TPS - quiet)
      <3>1. quiet < TPS
        BY <1>3, <2>1, <2>3
      <3>2. tfd <= clock' + (TPS - quiet')
        BY <1>2, <1>3, <2>3, <3>1
      <3> QED
        BY <1>2, <3>2 DEF Timely
    <2> QED
      BY <2>1, <2>2, <2>3 DEF Timely
  <1> QED
    BY <1>1, <1>4, <1>5 DEF DInv

LEMMA InitTimely == Init => DInv
  <1> SUFFICES ASSUME Init PROVE DInv
    OBVIOUS
  <1>1. tfd = Never /\ \A fd \in Fds : seqs[fd] = 0
    BY DEF Init
  <1> QED
    BY <1>1, InitInv DEF DInv

LEMMA StepTimely == DInv /\ [Next]_vars => DInv'
  <1> SUFFICES ASSUME DInv, [Next]_vars PROVE DInv'
    OBVIOUS
  <1>1. IInv /\ IInv' /\ TypeOK
    BY Step DEF DInv, IInv
  <1>2. ASSUME NEW fd \in Fds, Handler(fd) PROVE DInv'
    BY <1>1, <1>2, HandlerEffect, RenewalTimely, DropTimely, SparesTimely
  <1>3. CASE EpollWait
    BY <1>1, <1>3, WaitKeeps, SparesTimely
  <1>4. CASE UNCHANGED vars
    BY <1>1, <1>4, SparesTimely DEF vars, Spares
  <1> QED
    BY <1>2, <1>3, <1>4, TimeoutTimely, PassTimely DEF Next, Handler, EndOfTime

\* Whatever the handlers do and in whichever order, a connection without
\* traffic is closed within the second of its deadline, unless events and
\* messages of others, each within a second of the one before, have put that
\* off (sub_reactor.cpp:107-133).
THEOREM InTime == Spec => []OverdueOnlyWhileBusy
  <1>1. DInv => OverdueOnlyWhileBusy
    <2> SUFFICES ASSUME DInv, NEW fd \in Fds, seqs[fd] # 0
                 PROVE  clock < (due[fd] + 1) * TPS \/ quiet <= TPS
      BY DEF OverdueOnlyWhileBusy
    <2>1. /\ Timely(fd) /\ tfd \in Nat /\ clock <= tfd /\ due[fd] \in Nat
          /\ clock \in Nat /\ TPS \in Nat /\ quiet \in 0 .. TPS + 1
      BY ReactorTimersAssumption DEF DInv, IInv, TypeOK, OwnNode, TimerFdArmed
    <2>2. (due[fd] + 1) * TPS \in Nat
      BY <2>1
    <2>3. CASE tfd < (due[fd] + 1) * TPS
      BY <2>1, <2>2, <2>3
    <2>4. CASE tfd <= clock + (TPS - quiet)
      BY <2>1, <2>4
    <2> QED
      BY <2>1, <2>3, <2>4 DEF Timely
  <1> QED
    BY InitTimely, StepTimely, <1>1, PTL DEF Spec
=============================================================================
