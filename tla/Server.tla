------------------------------- MODULE Server -------------------------------
(***************************************************************************)
(* Server (server.h, server.cpp): the acceptor with its edge-triggered     *)
(* listen descriptor, the round robin over the SubReactors, and the order  *)
(* in which start(), stop() and the destructors end the reactors' threads, *)
(* the pool and the sockets.                                               *)
(*                                                                         *)
(* A SubReactor is what the others see of it: mailbox, eventfd, the        *)
(* connections in its table, the tasks it submits.  What it does with one  *)
(* connection is the subject of SubReactor.  The pool is the queue that    *)
(* ThreadPool is shown to implement.                                       *)
(***************************************************************************)
EXTENDS Naturals, Sequences, FiniteSets

CONSTANTS
    NumSubs, \* m_num_subs
    Wrap,    \* 2 ^ 32, where m_rr_index starts again at 0
    Clients, \* how many clients connect, for TLC
    MaxWork, \* bound on the requests that wait somewhere, for TLC
    Workers, \* the threads of m_pool
    Main,    \* the MainReactor
    Fragile, \* reactors whose epoll_create may fail, one of them
    None     \* nothing

Subs == 0 .. NumSubs - 1
Conns == 1 .. Clients \* in the order they connect
Message == [type : {"NewConn", "BusDone"}, conn : Conns]
Task == [sub : Subs, conn : Conns]

ASSUME ServerAssumption == /\ NumSubs \in Nat \ {0} /\ Wrap \in Nat \ {0}
                           /\ Clients \in Nat /\ MaxWork \in Nat /\ Workers # {}
                           /\ Main \notin Nat /\ Fragile \subseteq Subs \cup {Main}
                           /\ None \notin Nat /\ None \notin Task

VARIABLES
    pc,      \* where the thread of start() and ~Server() stands
    turn,    \* the reactor it dispatches to, stops or destroys
    held,    \* the connection it dispatches
    stop,    \* Server::m_stop
    rr,      \* m_rr_index
    came,    \* how many clients have connected
    backlog, \* the connections accept() will return
    edge,    \* the listen descriptor has an event to report
    failed,  \* history: accept() failed, and nobody has connected since
    home,    \* history: the reactor each connection was dispatched to
    open,    \* the accepted sockets that are open
    broken,  \* who has no epoll, epoll_create having failed
    loop,    \* where the thread of each reactor stands
    halt,    \* its m_stop
    bell,    \* its eventfd would wake epoll_wait
    box,     \* its m_msgs
    batch,   \* the messages it has taken from there
    table,   \* the connections in its m_users
    pool,    \* ThreadPool: "up", "stopping", or "gone"
    tasks,   \* its m_tasks
    work     \* what each worker does

control == <<pc, turn, held>>
acceptor == <<rr, came, backlog, edge, failed, home, broken>>
sockets == <<open, table>>
threads == <<loop, halt>>
mail == <<bell, box, batch>>
poolVars == <<pool, tasks, work>>
vars == <<control, stop, acceptor, sockets, threads, mail, poolVars>>

Idle == [at |-> "idle", task |-> None]

\* Server::Server().
Init ==
    /\ pc = "start" /\ turn = 0 /\ held = None /\ stop = FALSE
    /\ rr = 0 /\ came = 0 /\ backlog = <<>> /\ edge = FALSE /\ failed = FALSE
    /\ home = [x \in Conns |-> None] /\ open = {}
    /\ broken \in { b \in SUBSET Fragile : Cardinality(b) <= 1 }
    /\ loop = [i \in Subs |-> "none"] /\ halt = [i \in Subs |-> FALSE]
    /\ bell = [i \in Subs |-> FALSE]
    /\ box = [i \in Subs |-> <<>>] /\ batch = [i \in Subs |-> <<>>]
    /\ table = [i \in Subs |-> {}]
    /\ pool = "up" /\ tasks = <<>> /\ work = [w \in Workers |-> Idle]
-----------------------------------------------------------------------------
(* The clients and whoever calls stop() *)

\* The next client connects, once init_socket() has succeeded.
Listening == \E i \in Subs : loop[i] # "none"
Connect ==
    /\ pc # "done" /\ Listening
    /\ came < Clients /\ came' = came + 1
    /\ backlog' = Append(backlog, came')
    /\ edge' = (Main \notin broken) /\ failed' = FALSE
    /\ UNCHANGED <<control, stop, rr, home, broken, sockets, threads, mail, poolVars>>

\* stop(): nobody is woken.
Stop ==
    /\ pc # "done" /\ ~stop /\ stop' = TRUE
    /\ UNCHANGED <<control, acceptor, sockets, threads, mail, poolVars>>
-----------------------------------------------------------------------------
(* start() *)

\* init_socket() fails, or the threads of the reactors are started.
Start ==
    /\ pc = "start"
    /\ \/ pc' = "destroy" /\ loop' = loop
       \/ pc' = "head" /\ loop' = [i \in Subs |-> "head"]
    /\ UNCHANGED <<turn, held, stop, acceptor, sockets, halt, mail, poolVars>>

\* The while loop; what follows it stops the reactors one by one.  The bug
\* leaves them to the destructors.
LeaveReactors == pc' = IF stop THEN "destroy" ELSE "wait"
LoopOrStop == pc' = IF stop THEN "raise" ELSE "wait"

MainHead ==
    /\ pc = "head" /\ LoopOrStop /\ turn' = 0
    /\ UNCHANGED <<held, stop, acceptor, sockets, threads, mail, poolVars>>

\* epoll_wait() reports the edge, or fails.
MainWait ==
    /\ pc = "wait"
    /\ \/ edge /\ pc' = "accept"
       \/ Main \in broken /\ pc' = "raise"
    /\ edge' = FALSE /\ turn' = 0
    /\ UNCHANGED <<held, stop, rr, came, backlog, failed, home, broken, sockets,
                   threads, mail, poolVars>>

\* deal_new_conn(): accept() finds nothing, fails, or takes a connection, which
\* is closed at once if its descriptor is MAX_FD or more.  The bug advances
\* m_rr_index for those.
AcceptNone == backlog = <<>> /\ pc' = "head" /\ UNCHANGED <<acceptor, open>>
AcceptFails ==
    /\ pc' = "head" /\ failed' = TRUE
    /\ UNCHANGED <<rr, came, backlog, edge, home, open>>
Advance == rr' = (rr + 1) % Wrap
RefuseAndAdvance ==
    /\ backlog # <<>> /\ backlog' = Tail(backlog)
    /\ Advance
    /\ UNCHANGED <<pc, came, edge, failed, home, open>>
Refuse ==
    /\ backlog # <<>> /\ backlog' = Tail(backlog)
    /\ UNCHANGED <<pc, rr, came, edge, failed, home, open>>
Take ==
    /\ backlog # <<>> /\ backlog' = Tail(backlog)
    /\ Advance
    /\ home' = [home EXCEPT ![Head(backlog)] = rr % NumSubs]
    /\ open' = open \cup {Head(backlog)}
    /\ held' = Head(backlog) /\ turn' = rr % NumSubs /\ pc' = "push"
    /\ UNCHANGED <<came, edge, failed>>

Accept ==
    /\ pc = "accept"
    /\ \/ (AcceptNone \/ AcceptFails \/ Refuse) /\ UNCHANGED <<turn, held>>
       \/ Take
    /\ UNCHANGED <<stop, broken, table, threads, mail, poolVars>>

\* dispatch_new_conn(), and notify_bus_done() below: the message is pushed,
\* then the eventfd is written.
Push(i, m) == box' = [box EXCEPT ![i] = Append(@, m)] /\ UNCHANGED <<bell, batch>>
Ring(i) == bell' = [bell EXCEPT ![i] = TRUE] /\ UNCHANGED <<box, batch>>

\* The loop goes on until EAGAIN.  The bug is content with one connection.
AcceptOnce == "head"
AcceptOn == "accept"

Dispatch ==
    /\ \/ pc = "push" /\ pc' = "ring"
          /\ Push(turn, [type |-> "NewConn", conn |-> held]) /\ held' = held
       \/ pc = "ring" /\ pc' = AcceptOn /\ Ring(turn) /\ held' = None
    /\ UNCHANGED <<turn, stop, acceptor, sockets, threads, poolVars>>
-----------------------------------------------------------------------------
(* SubReactor::stop() and the destructors, which take the reactors in order *)

Destroying == pool = "gone"
Gone(i) == Destroying /\ (i < turn \/ pc = "done")

\* The first call raises m_stop and wakes the thread, every call joins it.
Raise ==
    /\ pc = "raise"
    /\ halt' = [halt EXCEPT ![turn] = TRUE]
    /\ pc' = IF halt[turn] THEN "join" ELSE "poke"
    /\ UNCHANGED <<turn, held, stop, acceptor, sockets, loop, mail, poolVars>>

\* The bug forgets the wakeup.
PokeNobody == UNCHANGED mail
Wakeup == Ring(turn)

Poke ==
    /\ pc = "poke" /\ pc' = "join"
    /\ Wakeup
    /\ UNCHANGED <<turn, held, stop, acceptor, sockets, threads, poolVars>>

\* ~http_conn() closes the socket of every connection in the table; what is
\* left in the mailbox is forgotten.  The bug forgets the table as well.
ForgetTable == UNCHANGED <<sockets>>
FreeTable ==
    /\ open' = open \ table[turn]
    /\ table' = [table EXCEPT ![turn] = {}]

Join ==
    /\ pc = "join" /\ loop[turn] \in {"none", "out"}
    /\ IF Destroying THEN FreeTable ELSE UNCHANGED <<sockets>>
    /\ IF turn + 1 < NumSubs THEN turn' = turn + 1 /\ pc' = "raise"
       ELSE turn' = 0 /\ pc' = IF Destroying THEN "done" ELSE "destroy"
    /\ UNCHANGED <<held, stop, acceptor, threads, mail, poolVars>>

\* ~Server(): the pool first, whose workers finish what is queued, then the
\* reactors.
Destroy ==
    /\ \/ /\ pc = "destroy" /\ pc' = "drain"
          /\ stop' = TRUE /\ pool' = "stopping"
       \/ /\ pc = "drain" /\ pc' = "raise"
          /\ \A w \in Workers : work[w].at = "exited"
          /\ stop' = stop /\ pool' = "gone"
    /\ turn' = 0
    /\ UNCHANGED <<held, acceptor, sockets, threads, mail, tasks, work>>

MainStep == \/ Start \/ MainHead \/ MainWait \/ Accept \/ Dispatch
            \/ Raise \/ Poke \/ Join \/ Destroy
-----------------------------------------------------------------------------
(* The thread of a reactor *)

SubHead(i) ==
    /\ loop[i] = "head"
    /\ loop' = [loop EXCEPT ![i] = IF halt[i] THEN "out" ELSE "wait"]
    /\ UNCHANGED <<control, stop, acceptor, sockets, halt, mail, poolVars>>

\* epoll_wait() fails.
SubFails(i) ==
    /\ loop[i] = "wait" /\ i \in broken
    /\ loop' = [loop EXCEPT ![i] = "out"]
    /\ UNCHANGED <<control, stop, acceptor, sockets, halt, mail, poolVars>>

\* drain_eventfd() and swap_msgs().  The bug takes one message per wakeup.
TakeOne(i) ==
    \/ /\ box[i] # <<>>
       /\ batch' = [batch EXCEPT ![i] = <<Head(box[i])>>]
       /\ box' = [box EXCEPT ![i] = Tail(@)]
    \/ box[i] = <<>> /\ UNCHANGED <<box, batch>>
TakeAll(i) ==
    /\ batch' = [batch EXCEPT ![i] = box[i]]
    /\ box' = [box EXCEPT ![i] = <<>>]

TakeMail(i) ==
    /\ loop[i] = "wait" /\ i \notin broken /\ bell[i]
    /\ loop' = [loop EXCEPT ![i] = "mail"]
    /\ bell' = [bell EXCEPT ![i] = FALSE]
    /\ TakeAll(i)
    /\ UNCHANGED <<control, stop, acceptor, sockets, halt, poolVars>>

\* close_connection().
CloseConnection(i, x) ==
    /\ table' = [table EXCEPT ![i] = @ \ {x}]
    /\ open' = open \ {x}

\* Whom a completion for x is about: it names a descriptor, which another
\* connection may have by now.
Answered(i, x) == IF x \in table[i] THEN {x} ELSE { y \in table[i] : y > x }

\* handle_msg(): a new connection enters the table; an answered one stays
\* or, its response having failed, is closed.
HandleMail(i) ==
    /\ loop[i] = "mail"
    /\ IF batch[i] = <<>>
       THEN loop' = [loop EXCEPT ![i] = "head"] /\ UNCHANGED <<sockets, batch>>
       ELSE LET x == Head(batch[i]).conn IN
            /\ loop' = loop /\ batch' = [batch EXCEPT ![i] = Tail(@)]
            /\ IF Head(batch[i]).type = "NewConn"
               THEN table' = [table EXCEPT ![i] = @ \cup {x}] /\ open' = open
               ELSE \/ UNCHANGED <<sockets>>
                    \/ \E y \in Answered(i, x) : CloseConnection(i, y)
    /\ UNCHANGED <<control, stop, acceptor, halt, bell, box, poolVars>>

\* The messages on their way to a reactor.
Letters(i) == { box[i][k] : k \in DOMAIN box[i] }
                  \cup { batch[i][k] : k \in DOMAIN batch[i] }

\* Another event of a connection, whatever became of its earlier requests: a
\* request is submitted, unless the pool is stopping; or the connection ends.
ClientEvent(i) ==
    /\ loop[i] = "wait" /\ i \notin broken
    /\ loop' = [loop EXCEPT ![i] = "head"]
    /\ \E x \in table[i] :
         \/ /\ Len(tasks) + Len(box[i]) < MaxWork
            /\ tasks' = IF pool = "up" THEN Append(tasks, [sub |-> i, conn |-> x])
                       ELSE tasks
            /\ UNCHANGED <<sockets>>
         \/ CloseConnection(i, x) /\ UNCHANGED tasks
    /\ UNCHANGED <<control, stop, acceptor, halt, mail, pool, work>>

SubStep(i) == SubHead(i) \/ SubFails(i) \/ TakeMail(i) \/ HandleMail(i) \/ ClientEvent(i)
-----------------------------------------------------------------------------
(* The workers *)

Does(w, at, t) == work' = [work EXCEPT ![w] = [at |-> at, task |-> t]]

\* worker_loop() returns only when m_stop is set and the queue is empty.
\* The bug leaves the queue.
QuitOnStop == pool # "up"
MayQuit == pool # "up" /\ tasks = <<>>

WorkStep(w) ==
    /\ LET t == work[w].task IN
       \/ /\ work[w].at = "idle" /\ tasks # <<>>
          /\ tasks' = Tail(tasks) /\ Does(w, "push", Head(tasks)) /\ UNCHANGED mail
       \/ /\ work[w].at = "idle" /\ MayQuit
          /\ Does(w, "exited", None) /\ UNCHANGED <<mail, tasks>>
       \/ /\ work[w].at = "push" /\ Push(t.sub, [type |-> "BusDone", conn |-> t.conn])
          /\ Does(w, "ring", t) /\ UNCHANGED tasks
       \/ /\ work[w].at = "ring" /\ Ring(t.sub)
          /\ Does(w, "idle", None) /\ UNCHANGED tasks
    /\ UNCHANGED <<control, stop, acceptor, sockets, threads, pool>>
-----------------------------------------------------------------------------
Next ==
    \/ MainStep
    \/ \E i \in Subs : SubStep(i)
    \/ \E w \in Workers : WorkStep(w)
    \/ Connect
    \/ Stop

Spec == Init /\ [][Next]_vars

\* The threads run, and epoll_wait passes over no descriptor that stays ready,
\* the eventfd among them.  Nothing is assumed about the clients and stop().
FairSpec == /\ Spec
            /\ WF_vars(MainStep)
            /\ \A i \in Subs : WF_vars(SubStep(i)) /\ SF_vars(TakeMail(i))
            /\ \A w \in Workers : WF_vars(WorkStep(w))
-----------------------------------------------------------------------------
(* Properties *)

Position == {"start", "head", "wait", "accept", "push", "ring", "raise", "poke",
             "join", "destroy", "drain", "done"}

TypeMain ==
    /\ pc \in Position /\ turn \in Subs /\ held \in Conns \cup {None}
    /\ stop \in BOOLEAN /\ rr \in 0 .. Wrap - 1
    /\ came \in 0 .. Clients /\ backlog \in Seq(Conns)
    /\ edge \in BOOLEAN /\ failed \in BOOLEAN
    /\ home \in [Conns -> Subs \cup {None}] /\ open \subseteq Conns
    /\ broken \subseteq Subs \cup {Main}
    /\ held # None <=> pc \in {"push", "ring"}

TypeSubs ==
    /\ loop \in [Subs -> {"none", "head", "wait", "mail", "out"}]
    /\ halt \in [Subs -> BOOLEAN] /\ bell \in [Subs -> BOOLEAN]
    /\ box \in [Subs -> Seq(Message)] /\ batch \in [Subs -> Seq(Message)]
    /\ table \in [Subs -> SUBSET Conns]
    /\ \A i \in Subs : batch[i] # <<>> => loop[i] = "mail"

TypePool ==
    /\ pool \in {"up", "stopping", "gone"} /\ tasks \in Seq(Task)
    /\ work \in [Workers -> [at : {"idle", "push", "ring", "exited"},
                            task : Task \cup {None}]]
    /\ \A w \in Workers : work[w].task # None <=> work[w].at \in {"push", "ring"}
    /\ pool = "gone" => tasks = <<>> /\ \A w \in Workers : work[w].at = "exited"

\* Every variable has its type, and what each thread holds fits where it stands.
TypeOK == TypeMain /\ TypeSubs /\ TypePool

\* The lifetimes nest: while a reactor's thread runs, the pool it submits to
\* accepts tasks, so that no request is dropped (thread_pool.cpp:41-44), and
\* while a task is queued or runs, the reactor it refers to is there
\* (server.h:44-46), however start() ends.
LifetimesNest ==
    /\ \A i \in Subs : loop[i] \notin {"none", "out"} => pool = "up"
    /\ \A k \in DOMAIN tasks : ~Gone(tasks[k].sub)
    /\ \A w \in Workers : work[w].task # None => ~Gone(work[w].task.sub)

Unread(i) == { x \in Conns : [type |-> "NewConn", conn |-> x] \in Letters(i) }

HasSocket(i) == Unread(i) \cup table[i]

\* A socket that is open is in the hands of the acceptor, or in the mailbox or
\* the table of the reactor it was dispatched to and of no other; when the
\* server is gone, only sockets are left open whose message was never read
\* (sub_reactor.cpp:327).
SocketsInOnePlace ==
    /\ \A x \in open : held = x \/ \E i \in Subs : home[x] = i /\ x \in HasSocket(i)
    /\ \A i, j \in Subs : i # j => HasSocket(i) \cap HasSocket(j) = {}
    /\ pc = "done" => open \subseteq UNION { Unread(i) : i \in Subs }

\* Round robin: the reactors before the one whose turn it is have got one
\* connection more than the others, whatever is refused in between (as long as
\* NumSubs divides 2 ^ 32).
Share(i) == Cardinality({ x \in Conns : home[x] = i })
Balanced ==
    LET next == rr % NumSubs IN
    Wrap % NumSubs = 0 =>
        \A i, j \in Subs : i <= j =>
            Share(i) = Share(j) + IF i < next /\ next <= j THEN 1 ELSE 0

\* While the acceptor sleeps, the listen queue is empty or an event is due,
\* unless accept() has failed: under edge triggering what it leaves behind
\* waits for the next connection (server.cpp:85-96).
NobodyForgottenInBacklog ==
    pc = "wait" /\ backlog # <<>> => edge \/ failed \/ Main \in broken

\* The accept loop goes on until EAGAIN (server.cpp:88): the same without the
\* exception.  Not true of the code, when accept() fails.
AcceptsUntilEmpty == pc = "wait" /\ backlog # <<>> => edge \/ Main \in broken

\* Nothing sent to a reactor stays on the way: it empties its mailbox and
\* handles what it took, however many senders share a wakeup and whatever its
\* connections do, unless it has no epoll or the server stops.
Delivered ==
    \A i \in Subs : /\ []<>(box[i] = <<>> \/ i \in broken \/ stop)
                    /\ []<>(batch[i] = <<>>)

\* Once stop() is called, start() returns, every thread is joined and the
\* server is destroyed, except if the acceptor sleeps and nobody connects
\* (server.h:27).
StopCompletes == []<>(stop => pc = "done" \/ (pc = "wait" /\ ~edge))
=============================================================================
