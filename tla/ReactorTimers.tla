---------------------------- MODULE ReactorTimers ----------------------------
(***************************************************************************)
(* The idle timers as a SubReactor drives them: TimerHeap, the timerfd     *)
(* that wakes the I/O thread, the events epoll_wait reports and the calls  *)
(* each handler makes, in the order it makes them.  What a connection      *)
(* reads, parses and sends is left to chance.  Time advances in fractions  *)
(* of a second, because now_monotonic() drops the fraction and the timerfd *)
(* keeps it; it stands still while the I/O thread has events at hand.      *)
(***************************************************************************)
EXTENDS Integers, FiniteSets

CONSTANTS
    Fds,      \* descriptors
    Timeout,  \* TIMEOUT_SEC
    TPS,      \* instants of the model in a second
    MaxClock, \* bound on the clock, for TLC
    MaxNodes, \* bound on the nodes at which events and messages come, for TLC
    MaxWork,  \* bound on the tasks of a slot, for TLC
    Never     \* no deadline; also a disarmed timerfd

ASSUME ReactorTimersAssumption == /\ Timeout \in Nat /\ TPS \in Nat \ {0}
                                  /\ MaxClock \in Nat /\ MaxNodes \in Nat
                                  /\ MaxWork \in Nat
                                  /\ Never \notin Int

VARIABLES
    clock, \* CLOCK_MONOTONIC, in instants
    heap,  \* m_timers.m_heap
    seqs,  \* m_timers.m_seqs
    due,   \* history: the deadline of the last add or refresh
    tfd,   \* the instant at which the timerfd expires
    batch, \* what epoll_wait has reported and loop() has not handled
    reg,   \* what epoll watches each descriptor for; "none" while it is closed
    work,  \* the tasks of each slot whose completion has not been handled
    quiet  \* history: instants since an event or a message armed the timerfd

vars == <<clock, heap, seqs, due, tfd, batch, reg, work, quiet>>

Now == clock \div TPS

\* The operations of the heap; what ticks have reported is not recorded here.
Timers == INSTANCE TimerHeap WITH now <- Now, report <- {},
                                  MaxTime <- MaxClock, MaxSeq <- MaxNodes

RoomForNodes == Cardinality(heap) < MaxNodes

\* addfd(fd, one_shot) registers "first": EPOLLIN, once.  "off" is that
\* registration when it has been used up.  modfd(fd, ev) has no EPOLLONESHOT.
Masks == {"none", "first", "off", "IN", "OUT"}

TimerEvent == <<"timerfd", "IN">>
Event(fd, flag) == <<fd, flag>>
Events(fd) ==
    CASE ~RoomForNodes               -> {}
      [] reg[fd] \in {"first", "IN"} -> {Event(fd, "IN"), Event(fd, "HUP")}
      [] reg[fd] = "OUT"             -> {Event(fd, "OUT"), Event(fd, "HUP")}
      [] OTHER                       -> {}

TimerExpired == tfd # Never /\ tfd <= clock

\* epoll_wait returns: the expired timerfd may be too late for this batch.
EpollWait ==
    /\ batch = {}
    /\ \E S \in SUBSET UNION { Events(fd) : fd \in Fds }, t \in BOOLEAN :
           /\ S # {} \/ t
           /\ t => TimerExpired
           /\ batch' = S \cup (IF t THEN {TimerEvent} ELSE {})
           /\ reg' = [fd \in Fds |->
                         IF reg[fd] = "first" /\ S \cap Events(fd) # {} THEN "off"
                         ELSE reg[fd]]
    /\ UNCHANGED <<clock, heap, seqs, due, tfd, work, quiet>>

Handle(e) == e \in batch /\ batch' = batch \ {e}

\* arm_timerfd(), called when the heap has its new contents: whole seconds
\* from now, at least one.  The bug starts a whole timeout from now.
ArmForTimeout ==
    tfd' = IF heap' = {} THEN Never ELSE clock + TPS * Timeout
ArmTimerFd ==
    \E e \in {-1} \cup { n.expire : n \in heap' } :
        /\ Timers!NextExpire(e)'
        /\ tfd' = IF e < 0 THEN Never
                  ELSE clock + TPS * (IF e <= Now THEN 1 ELSE e - Now)

\* Every handler of an event or a message that refreshes or adds a timer.
Arm == ArmTimerFd /\ quiet' = 0 /\ UNCHANGED clock

ModFd(fd, mask) == reg' = [reg EXCEPT ![fd] = mask] /\ UNCHANGED work

\* close_connection(fd), which may find the slot closed.
Close(fd) ==
    /\ Timers!InvalidateAll({fd})
    /\ reg' = [reg EXCEPT ![fd] = "none"]
    /\ UNCHANGED <<clock, tfd, quiet>>

\* add or refresh, then invalidate in the same handler: the node stays.
RefreshAndInvalidate(fd) ==
    /\ heap' = heap \cup {[expire |-> Now + Timeout, fd |-> fd, seq |-> seqs[fd] + 1]}
    /\ seqs' = [seqs EXCEPT ![fd] = 0]
    /\ due' = [due EXCEPT ![fd] = Never]

\* Submit what has been parsed: the registration stays as it is.
Submit(fd) ==
    /\ work[fd] < MaxWork /\ work' = [work EXCEPT ![fd] = @ + 1]
    /\ RefreshAndInvalidate(fd)
    /\ UNCHANGED reg
    /\ Arm

\* add_new_conn, for a message that has come with the eventfd: a descriptor
\* that was closed a moment ago may be back.
AddNewConn(fd) ==
    /\ RoomForNodes
    /\ reg[fd] = "none" /\ ModFd(fd, "first")
    /\ Timers!Add(fd) /\ Arm
    /\ UNCHANGED batch

\* deal_read for any EPOLLIN: read_once fails, as on a closed slot, or the
\* request is incomplete, or a task is submitted.
DealRead(fd) ==
    /\ Handle(Event(fd, "IN"))
    /\ \/ Close(fd) /\ UNCHANGED work
       \/ reg[fd] # "none" /\ Timers!Refresh(fd) /\ ModFd(fd, "IN") /\ Arm
       \/ reg[fd] # "none" /\ Submit(fd)

\* deal_write, if the slot is open: close, more to send, wait for the next
\* request, or go on with a pipelined one.
DealWrite(fd) ==
    /\ Handle(Event(fd, "OUT"))
    /\ \/ reg[fd] = "none" /\ UNCHANGED <<clock, heap, seqs, due, tfd, reg, work, quiet>>
       \/ /\ reg[fd] # "none" /\ RefreshAndInvalidate(fd) /\ ModFd(fd, "none") /\ Arm
       \/ /\ reg[fd] # "none" /\ Timers!Refresh(fd) /\ Arm
          /\ \E mask \in {"IN", "OUT"} : ModFd(fd, mask)
       \/ reg[fd] # "none" /\ Submit(fd)

\* EPOLLHUP | EPOLLERR, after what else the event says of the descriptor.
DealHup(fd) ==
    /\ Handle(Event(fd, "HUP"))
    /\ batch \cap {Event(fd, "IN"), Event(fd, "OUT")} = {}
    /\ IF reg[fd] = "none" THEN UNCHANGED <<clock, heap, seqs, due, tfd, reg, quiet>>
       ELSE Close(fd)
    /\ UNCHANGED work

\* handle_msg, BusDone: whichever connection has the descriptor now.
BusDone(fd) ==
    /\ RoomForNodes
    /\ work[fd] > 0 /\ work' = [work EXCEPT ![fd] = @ - 1]
    /\ \/ /\ reg[fd] = "none"
          /\ UNCHANGED <<clock, heap, seqs, due, tfd, reg, quiet>>
       \/ /\ reg[fd] # "none" /\ reg' = [reg EXCEPT ![fd] = "OUT"]
          /\ Timers!Add(fd) /\ Arm
       \/ reg[fd] # "none" /\ Close(fd)
    /\ UNCHANGED batch

\* handle_timeout().  The bug does not arm the timerfd again.
TickAndClose ==
    /\ Handle(TimerEvent)
    /\ Timers!Tick
    /\ reg' = [fd \in Fds |-> IF fd \in Timers!Fired THEN "none" ELSE reg[fd]]
    /\ UNCHANGED <<clock, work, quiet>>
TimeoutUnarmed == TickAndClose /\ tfd' = Never
HandleTimeout == TickAndClose /\ ArmTimerFd

\* Time passes while the I/O thread sleeps.
Pass ==
    /\ clock < MaxClock
    /\ batch = {} /\ ~TimerExpired
    /\ clock' = clock + 1
    /\ quiet' = IF quiet <= TPS THEN quiet + 1 ELSE quiet
    /\ UNCHANGED <<heap, seqs, due, tfd, batch, reg, work>>

\* The end of the time a run looks at.
EndOfTime == clock = MaxClock /\ UNCHANGED vars

Init ==
    /\ clock = 0
    /\ heap = {}
    /\ seqs = [fd \in Fds |-> 0] /\ due = [fd \in Fds |-> Never]
    /\ tfd = Never
    /\ batch = {}
    /\ reg = [fd \in Fds |-> "none"] /\ work = [fd \in Fds |-> 0]
    /\ quiet = TPS + 1

Next ==
    \/ EpollWait
    \/ \E fd \in Fds : \/ AddNewConn(fd) \/ BusDone(fd)
                       \/ DealRead(fd) \/ DealWrite(fd) \/ DealHup(fd)
    \/ HandleTimeout
    \/ Pass \/ EndOfTime

Spec == Init /\ [][Next]_vars
-----------------------------------------------------------------------------
\* Every variable has its type.
TypeOK ==
    /\ clock \in Nat /\ quiet \in 0 .. TPS + 1
    /\ heap \subseteq [expire : Nat, fd : Fds, seq : Nat]
    /\ seqs \in [Fds -> Nat]
    /\ due \in [Fds -> Nat \cup {Never}]
    /\ tfd \in Nat \cup {Never}
    /\ batch \subseteq {TimerEvent} \cup (Fds \X {"IN", "OUT", "HUP"})
    /\ reg \in [Fds -> Masks] /\ work \in [Fds -> Nat]

\* While a timer is valid the timerfd is armed (add_new_conn, deal_read,
\* deal_write, handle_msg and handle_timeout all end in arm_timerfd).
TimerFdArmed == (\E fd \in Fds : seqs[fd] # 0) => tfd # Never

\* A timer is overdue by a second only if events or messages have been less
\* than a second apart ever since: nothing but the "at least a second from
\* now" of arm_timerfd puts off an expired timer (sub_reactor.cpp:117).
OverdueOnlyWhileBusy ==
    \A fd \in Fds : seqs[fd] # 0 => \/ clock < (due[fd] + 1) * TPS
                                    \/ quiet <= TPS

\* A connection without traffic is closed within two seconds of its deadline
\* (sub_reactor.cpp:180: closed after 15 seconds without data).
ClosedInTime ==
    \A fd \in Fds : seqs[fd] # 0 => clock <= (due[fd] + 2) * TPS
=============================================================================
