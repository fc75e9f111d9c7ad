----------------------------- MODULE SubReactor -----------------------------
(***************************************************************************)
(* One SubReactor: its I/O thread, the mailbox other threads fill, the     *)
(* epoll instance it waits on, the connection table m_users and the timer  *)
(* versions m_seqs, together with what surrounds it: the acceptor that     *)
(* dispatches sockets to it, the workers of the thread pool, the kernel's  *)
(* descriptor table and the clients.                                       *)
(*                                                                         *)
(* A request is two pieces of the byte stream: piece 2k-1 is the request   *)
(* line of request k, piece 2k its headers and the empty line.  m_read_idx *)
(* and m_start_line are stream positions counted in pieces.                *)
(*                                                                         *)
(* The code never says which connection a message or a task is about, only *)
(* which descriptor.  The field conn of tasks and messages and the         *)
(* variable own are history: no guard of the program reads them.           *)
(***************************************************************************)
EXTENDS Naturals, Sequences

CONSTANTS
    Fds,        \* descriptor numbers the kernel gives to accepted sockets
    Slots,      \* the descriptors below MAX_FD, which index m_users
    Conns,      \* accepted sockets over the whole run, each used once
    Workers,    \* threads of the pool
    Answer,     \* Answer[k]: the HttpCode the k-th request of a client deserves
    KeepAlive,  \* the requests whose header leaves m_linger true
    Chunks,     \* partial writes a response may need, at most
    MaxAhead,   \* requests each client may have outstanding
    Fragmented, \* clients whose requests may arrive in two pieces
    Leave,      \* how a client may leave: by "fin" (shutdown of its side), "rst"
    NoConn      \* not a connection

Codes == {"BadRequest", "NoResource", "ForbiddenRequest",
          "FileRequest", "WelcomePage"}
Reqs == DOMAIN Answer

ASSUME SlotsAssumption == Slots \subseteq Fds
ASSUME SourcesAssumption == Slots \cap {"none", "eventfd", "timerfd"} = {}
ASSUME ConnsAssumption == NoConn \notin Conns
ASSUME AnswerAssumption == Answer \in Seq(Codes)
ASSUME BoundsAssumption == /\ KeepAlive \subseteq Reqs
                           /\ Chunks \in Nat \ {0}
                           /\ MaxAhead \in [Conns -> Nat \ {0}]
                           /\ Fragmented \subseteq Conns
                           /\ Leave \subseteq {"fin", "rst"}

VARIABLES
    users,  \* m_users: the http_conn of every slot
    timer,  \* m_seqs[fd] # 0: a live timer node exists for fd
    ep,     \* the epoll registration of every slot
    msgs,   \* m_msgs
    q,      \* the local queue loop() swaps m_msgs into
    efd,    \* the eventfd counter is positive
    io,     \* where loop() stands
    batch,  \* m_events: what epoll_wait returned and is not handled yet
    cur,    \* flags of the client event being handled
    stop,   \* m_stop
    tasks,  \* the thread pool's queue
    wk,     \* what each worker is doing
    main,   \* the thread that dispatches and stops, between push and wakeup
    own,    \* the kernel's descriptor table: the connection behind a number
    files,  \* static files the process holds open
    cli     \* the clients and the kernel buffers of their sockets

vars == <<users, timer, ep, msgs, q, efd, io, batch, cur, stop, tasks, wk,
          main, own, files, cli>>

slotVars == <<users, timer, ep, own, files>>
mailVars == <<msgs, efd, main>>
loopVars == <<q, io, batch, cur>>
poolVars == <<tasks, wk>>
-----------------------------------------------------------------------------
(* http_conn *)

NoResponse == [code |-> "NoRequest", req |-> 0]
NoFile == <<>>

\* init_state(): the fields of a slot nobody uses.
InitState == [open |-> FALSE, rd |-> 0, p |-> 0, chk |-> "LINE",
              code |-> "NoRequest", url |-> 0, linger |-> FALSE,
              file |-> NoFile, resp |-> NoResponse, off |-> 0]

\* init(sockfd, addr)
InitConn == [InitState EXCEPT !.open = TRUE]

PieceReq(n) == (n + 1) \div 2
IsLine(n) == n % 2 = 1

\* do_request(): locate the resource m_url names, opening a static file.
DoRequest(fd, u) ==
    [ret |-> Answer[u.url],
     u |-> IF Answer[u.url] = "FileRequest"
           THEN [u EXCEPT !.file = <<own[fd], u.url>>] ELSE u]

\* One turn of process_read(): the next piece meets m_check_state.
ParsePiece(fd, u0) ==
    LET n == u0.p + 1
        u == [u0 EXCEPT !.p = n]
        malformed == \/ (u.chk = "LINE") # IsLine(n)
                     \/ IsLine(n) /\ Answer[PieceReq(n)] = "BadRequest"
    IN  IF malformed THEN [ret |-> "BadRequest", u |-> u]
        ELSE IF u.chk = "LINE"
        THEN [ret |-> "NoRequest",
              u |-> [u EXCEPT !.chk = "HEADER", !.url = PieceReq(n),
                              !.linger = PieceReq(n) \in KeepAlive]]
        ELSE DoRequest(fd, u)

\* process_read(): at most two turns end a request or exhaust the buffer.
ProcessRead(fd, u) ==
    IF u.p >= u.rd THEN [ret |-> "NoRequest", u |-> u]
    ELSE LET r == ParsePiece(fd, u)
         IN  IF r.ret # "NoRequest" \/ r.u.p >= r.u.rd THEN r
             ELSE ParsePiece(fd, r.u)

\* process_write(): the fields a worker assigns; FALSE (closing) for a code
\* that is not an answer.
ProcessWrite(u, code) ==
    [u EXCEPT !.resp = IF code = "NoRequest" THEN NoResponse
                       ELSE [code |-> code, req |-> u.url],
              !.off = 0,
              !.linger = u.linger /\ code \notin {"BadRequest", "ForbiddenRequest"}]

\* reset_for_next(): unread pieces stay, everything parsed goes.  The two
\* variants forget m_check_state and the start of the unread part.
ResetKeepingState(u) == [InitConn EXCEPT !.rd = u.rd, !.p = u.p, !.chk = u.chk]
ResetFromStart(u) == [InitConn EXCEPT !.rd = u.rd]
ResetForNext(u) == [InitConn EXCEPT !.rd = u.rd, !.p = u.p]
-----------------------------------------------------------------------------
(* epoll *)

NotRegistered == [mask |-> "none", oneshot |-> FALSE, edge |-> FALSE]

\* addfd(fd, one_shot) and modfd(fd, ev): both report what is ready already.
AddFd == [mask |-> "IN", oneshot |-> TRUE, edge |-> TRUE]
ModFd(mask) == [mask |-> mask, oneshot |-> FALSE, edge |-> TRUE]

Unread(fd) == cli[own[fd]].sent > users[fd].rd

\* What the socket behind fd is ready for, as far as its mask asks.
\* "HUP" stands for EPOLLHUP | EPOLLERR; EPOLLRDHUP alone is the empty set.
Flags(fd) ==
    LET c == cli[own[fd]] IN
    { f \in {"IN", "OUT", "HUP"} :
        \/ f = "IN"  /\ ep[fd].mask = "IN" /\ (Unread(fd) \/ c.peer # "up")
        \/ f = "OUT" /\ ep[fd].mask = "OUT" /\ (~c.full \/ c.peer = "rst")
        \/ f = "HUP" /\ c.peer = "rst" }

Listening(fd) == ep[fd].mask \in {"IN", "OUT"}

\* Slots epoll_wait reports: an edge has come and something is still ready.
Ready == { fd \in Slots : /\ Listening(fd)
                          /\ ep[fd].edge
                          /\ Flags(fd) # {} \/ cli[own[fd]].peer # "up" }

ClientEvents == { [src |-> fd, ev |-> Flags(fd)] : fd \in Ready }

\* The kernel queues the item of fd when something its mask asks for happens.
Notify(fd, masks) ==
    ep' = [ep EXCEPT ![fd].edge = @ \/ ep[fd].mask \in masks]
-----------------------------------------------------------------------------
(* Steps shared by the handlers of the I/O thread *)

NoEvent == [src |-> "none", ev |-> {}]
EventFd == [src |-> "eventfd", ev |-> {"IN"}]
TimerFd == [src |-> "timerfd", ev |-> {"IN"}]

Live == { fd \in Slots : timer[fd] }

\* TimerHeap::invalidate(fd) for every fd of S, and a bug that forgets it.
InvalidateNone(S) == timer' = timer
Invalidate(S) == timer' = [fd \in Slots |-> timer[fd] /\ fd \notin S]

\* close_connection(fd) for every fd of S: removefd, close_conn, invalidate.
CloseConnections(S) ==
    /\ ep' = [fd \in Slots |-> IF fd \in S THEN NotRegistered ELSE ep[fd]]
    /\ own' = [fd \in Fds |-> IF fd \in S /\ users[fd].open
                              THEN NoConn ELSE own[fd]]
    /\ files' = files \ { users[fd].file : fd \in S }
    /\ users' = [fd \in Slots |-> IF fd \in S THEN InitState ELSE users[fd]]
    /\ Invalidate(S)

\* What a handler that keeps the connection leaves in slot fd.
Keep(fd, u, t, e) ==
    /\ users' = [users EXCEPT ![fd] = u]
    /\ timer' = [timer EXCEPT ![fd] = t]
    /\ ep' = [ep EXCEPT ![fd] = e]
    /\ own' = own

\* The static file a slot lets go of when u replaces its contents.
ReleaseNone(fd, u) == {}
Released(fd, u) == {users[fd].file} \ {u.file}

\* r == 0: register EPOLLIN again.  The bug relies on the old registration.
AwaitUnarmed(fd, u) == Keep(fd, u, TRUE, ep[fd]) /\ tasks' = tasks
AwaitInput(fd, u) == Keep(fd, u, TRUE, ModFd("IN")) /\ tasks' = tasks

\* r == 1: invalidate the timer, then m_pool.submit.  The bug leaves it live.
SubmitTimed(fd, u) ==
    /\ Keep(fd, u, TRUE, ep[fd])
    /\ tasks' = Append(tasks, [fd |-> fd, conn |-> own[fd]])
SubmitTask(fd, u) ==
    /\ Keep(fd, u, FALSE, ep[fd])
    /\ tasks' = Append(tasks, [fd |-> fd, conn |-> own[fd]])

\* prepare_io_read(), and what deal_read and deal_write do with its result.
SubmitOrWait(fd, u) ==
    LET r == ProcessRead(fd, u) IN
    /\ files' = (files \ Released(fd, u))
                \cup (IF r.ret = "FileRequest" THEN {r.u.file} ELSE {})
    /\ IF r.ret = "NoRequest" THEN AwaitInput(fd, r.u)
       ELSE SubmitTask(fd, [r.u EXCEPT !.code = r.ret])

\* bus_result == 1 in handle_msg: modfd(EPOLLOUT), then the timer is added
\* again.  The bugs forget the one or the other.
ArmTimerOnly(fd) == Keep(fd, users[fd], TRUE, ep[fd])
ArmOutputOnly(fd) == Keep(fd, users[fd], timer[fd], ModFd("OUT"))
ArmResponse(fd) == Keep(fd, users[fd], TRUE, ModFd("OUT"))
-----------------------------------------------------------------------------
(* The I/O thread *)

AtEvents == io = "events" /\ cur = NoEvent

\* The head of the loop: while (!m_stop.load()).
LoopHead ==
    /\ AtEvents /\ batch = {}
    /\ io' = IF stop THEN "exited" ELSE "wait"
    /\ UNCHANGED <<slotVars, mailVars, poolVars, q, batch, cur, stop, cli>>

\* epoll_wait: everything ready, and the timer if it has expired.
EpollWait ==
    /\ io = "wait"
    /\ \E expired \in {{}} \cup (IF Live # {} THEN {{TimerFd}} ELSE {}) :
          batch' = ClientEvents \cup (IF efd THEN {EventFd} ELSE {}) \cup expired
    /\ batch' # {}
    /\ ep' = [fd \in Slots |->
                 IF fd \notin Ready THEN ep[fd]
                 ELSE [ep[fd] EXCEPT !.edge = FALSE,
                                     !.mask = IF ep[fd].oneshot THEN "off" ELSE @]]
    /\ io' = "events"
    /\ UNCHANGED <<users, timer, own, files, mailVars, poolVars, q, cur, stop, cli>>

\* eventfd: drain_eventfd(), before the mailbox is looked at.
DrainEventFd ==
    /\ AtEvents /\ EventFd \in batch
    /\ batch' = batch \ {EventFd}
    /\ efd' = FALSE
    /\ io' = "swap"
    /\ UNCHANGED <<slotVars, msgs, main, poolVars, q, cur, stop, cli>>

AfterQueue(s) == IF s = <<>> THEN "events" ELSE "msgs"

\* swap_msgs(q)
SwapMsgs ==
    /\ io = "swap"
    /\ q' = msgs
    /\ msgs' = <<>>
    /\ io' = AfterQueue(msgs)
    /\ UNCHANGED <<slotVars, efd, main, poolVars, batch, cur, stop, cli>>

NextMsg(type) ==
    /\ io = "msgs"
    /\ q # <<>> /\ Head(q).type = type
    /\ q' = Tail(q)
    /\ io' = AfterQueue(Tail(q))
    /\ UNCHANGED <<mailVars, poolVars, batch, cur, stop, cli>>

\* add_new_conn closes a descriptor too large for the table; the bug only
\* logs it.
LeaveConn(fd) == UNCHANGED slotVars
RejectConn(fd) == own' = [own EXCEPT ![fd] = NoConn]
                  /\ UNCHANGED <<users, timer, ep, files>>

\* handle_msg, NewConn: add_new_conn.
HandleNewConn ==
    /\ NextMsg("NewConn")
    /\ LET fd == Head(q).fd IN
       IF fd \in Slots
       THEN /\ Keep(fd, InitConn, TRUE, AddFd)
            /\ UNCHANGED files
       ELSE RejectConn(fd)

\* handle_msg, BusDone: the descriptor is all that is compared.
HandleBusDone ==
    /\ NextMsg("BusDone")
    /\ LET fd == Head(q).fd IN
       IF ~users[fd].open THEN UNCHANGED slotVars
       ELSE IF Head(q).result = 1
       THEN ArmResponse(fd) /\ UNCHANGED files
       ELSE CloseConnections({fd})

\* timerfd: handle_timeout().  Which of the live timers are due is the
\* business of TimerHeap; here any of them may be.
HandleTimeout ==
    /\ AtEvents /\ TimerFd \in batch
    /\ batch' = batch \ {TimerFd}
    /\ \E S \in SUBSET Live : CloseConnections(S)
    /\ UNCHANGED <<mailVars, poolVars, q, io, cur, stop, cli>>

\* A client descriptor: its flags are tested one after the other.
TakeClientEvent ==
    /\ AtEvents
    /\ \E e \in batch \ {EventFd, TimerFd} :
          /\ batch' = batch \ {e}
          /\ cur' = IF e.ev = {} THEN NoEvent ELSE e
    /\ UNCHANGED <<slotVars, mailVars, poolVars, q, io, stop, cli>>

Handled(f) ==
    /\ cur' = IF cur.ev = {f} THEN NoEvent ELSE [cur EXCEPT !.ev = @ \ {f}]
    /\ UNCHANGED <<mailVars, wk, q, io, batch, stop>>

\* read_once() returns false: nothing read before the end of the stream, or
\* an error, EBADF on a slot without a socket included.
ReadFails(fd) ==
    \/ ~users[fd].open
    \/ cli[own[fd]].peer = "rst"
    \/ cli[own[fd]].peer = "fin" /\ ~Unread(fd)

\* EPOLLIN: deal_read(fd), whoever owns the slot by now.
DealRead ==
    /\ "IN" \in cur.ev
    /\ Handled("IN")
    /\ UNCHANGED cli
    /\ LET fd == cur.src IN
       IF ReadFails(fd)
       THEN CloseConnections({fd}) /\ UNCHANGED tasks
       ELSE SubmitOrWait(fd, [users[fd] EXCEPT !.rd = cli[own[fd]].sent])

\* write() has something to send: a response, or a file do_request() has opened
\* for a worker that has not put the head before it yet.
HasOutput(u) == u.resp # NoResponse \/ u.file # NoFile

\* write() returns 0
WriteFails(fd) == HasOutput(users[fd]) /\ cli[own[fd]].peer = "rst"

\* write() returns 2: n more chunks fit, then the send buffer is full.
WriteBlocks(fd, n) ==
    /\ HasOutput(users[fd])
    /\ cli[own[fd]].full => n = 0
    /\ users[fd].off + n < Chunks
    /\ ~cli[own[fd]].full => n > 0

\* write() returns 1
WriteCompletes(fd) == HasOutput(users[fd]) => ~cli[own[fd]].full

\* r == 1 in deal_write: the next request, or the end of the connection.
AfterResponse(fd) ==
    IF users[fd].linger
    THEN SubmitOrWait(fd, ResetForNext(users[fd]))
    ELSE CloseConnections({fd}) /\ UNCHANGED tasks

\* EPOLLOUT: deal_write(fd), if the slot is in use.
DealWrite ==
    /\ "IN" \notin cur.ev /\ "OUT" \in cur.ev
    /\ Handled("OUT")
    /\ LET fd == cur.src
           c  == own[fd]
       IN
       \/ /\ ~users[fd].open
          /\ UNCHANGED <<slotVars, tasks, cli>>
       \/ /\ users[fd].open /\ WriteFails(fd)
          /\ CloseConnections({fd})
          /\ UNCHANGED <<tasks, cli>>
       \/ /\ users[fd].open /\ ~WriteFails(fd)
          /\ \E n \in 0..Chunks :
                /\ WriteBlocks(fd, n)
                /\ Keep(fd, [users[fd] EXCEPT !.off = @ + n], TRUE, ModFd("OUT"))
                /\ cli' = [cli EXCEPT ![c].full = TRUE]
          /\ UNCHANGED <<files, tasks>>
       \/ /\ users[fd].open /\ ~WriteFails(fd)
          /\ WriteCompletes(fd)
          /\ AfterResponse(fd)
          /\ cli' = IF ~HasOutput(users[fd]) THEN cli
                    ELSE [cli EXCEPT ![c].got = Append(@, users[fd].resp)]

\* EPOLLHUP | EPOLLERR: close what the handlers before have left open.
DealHup ==
    /\ cur.ev = {"HUP"}
    /\ Handled("HUP")
    /\ IF users[cur.src].open THEN CloseConnections({cur.src})
                              ELSE UNCHANGED slotVars
    /\ UNCHANGED <<tasks, cli>>

IoThread ==
    \/ LoopHead \/ EpollWait
    \/ DrainEventFd \/ SwapMsgs \/ HandleNewConn \/ HandleBusDone
    \/ HandleTimeout
    \/ TakeClientEvent \/ DealRead \/ DealWrite \/ DealHup
-----------------------------------------------------------------------------
(* The workers: the task deal_read and deal_write submit *)

Idle == [pc |-> "idle"]

\* The task starts: c.get_fd() == fd, and m_parsed_code is read.
TaskStart(w) ==
    /\ wk[w].pc = "idle"
    /\ tasks # <<>>
    /\ tasks' = Tail(tasks)
    /\ LET t == Head(tasks) IN
       wk' = [wk EXCEPT ![w] =
                 IF users[t.fd].open
                 THEN [pc |-> "run", fd |-> t.fd, conn |-> t.conn,
                       code |-> users[t.fd].code]
                 ELSE [pc |-> "push", fd |-> t.fd, conn |-> t.conn, result |-> 2]]
    /\ UNCHANGED <<slotVars, mailVars, loopVars, stop, cli>>

PushNext(w, r) ==
    wk' = [wk EXCEPT ![w] = [pc |-> "push", fd |-> wk[w].fd,
                             conn |-> wk[w].conn, result |-> r]]

\* run_business_and_prepare_write() returns.
TaskFinish(w) ==
    /\ wk[w].pc = "run"
    /\ users' = [users EXCEPT ![wk[w].fd] = ProcessWrite(@, wk[w].code)]
    /\ PushNext(w, IF wk[w].code = "NoRequest" THEN 2 ELSE 1)
    /\ UNCHANGED <<timer, ep, own, files, mailVars, loopVars, tasks, stop, cli>>

\* The business code throws: the task catches it and keeps result = 2.
TaskThrow(w) ==
    /\ wk[w].pc = "run"
    /\ PushNext(w, 2)
    /\ UNCHANGED <<slotVars, mailVars, loopVars, tasks, stop, cli>>

\* notify_bus_done: push under m_msg_mtx ...
NotifyPush(w) ==
    /\ wk[w].pc = "push"
    /\ msgs' = Append(msgs, [type |-> "BusDone", fd |-> wk[w].fd,
                             conn |-> wk[w].conn, result |-> wk[w].result])
    /\ wk' = [wk EXCEPT ![w] = [pc |-> "wake"]]
    /\ UNCHANGED <<slotVars, efd, main, loopVars, tasks, stop, cli>>

\* ... then wakeup(), which the bug leaves out.
NotifySilently(w) ==
    /\ wk[w].pc = "wake"
    /\ wk' = [wk EXCEPT ![w] = Idle]
    /\ UNCHANGED <<slotVars, mailVars, loopVars, tasks, stop, cli>>
NotifyWake(w) ==
    /\ wk[w].pc = "wake"
    /\ efd' = TRUE
    /\ wk' = [wk EXCEPT ![w] = Idle]
    /\ UNCHANGED <<slotVars, msgs, main, loopVars, tasks, stop, cli>>

Worker(w) == TaskStart(w) \/ TaskFinish(w) \/ TaskThrow(w)
             \/ NotifyPush(w) \/ NotifyWake(w)
-----------------------------------------------------------------------------
(* The thread that accepts and stops *)

\* accept() returns fd for connection c and dispatch_new_conn pushes it.
Dispatch(c, fd) ==
    /\ main = "idle"
    /\ cli[c].peer = "new"
    /\ own[fd] = NoConn
    /\ own' = [own EXCEPT ![fd] = c]
    /\ cli' = [cli EXCEPT ![c].peer = "up"]
    /\ msgs' = Append(msgs, [type |-> "NewConn", fd |-> fd, conn |-> c])
    /\ main' = "wake"
    /\ UNCHANGED <<users, timer, ep, files, efd, loopVars, poolVars, stop>>

\* stop(): the compare-exchange of m_stop ... The bug joins without a wakeup.
StopSilently ==
    /\ main = "idle"
    /\ ~stop
    /\ stop' = TRUE
    /\ main' = "joining"
    /\ UNCHANGED <<slotVars, msgs, efd, loopVars, poolVars, cli>>
Stop ==
    /\ main = "idle"
    /\ ~stop
    /\ stop' = TRUE
    /\ main' = "wake"
    /\ UNCHANGED <<slotVars, msgs, efd, loopVars, poolVars, cli>>

\* ... and both end in wakeup().  After stop() this thread only joins.
MainWake ==
    /\ main = "wake"
    /\ efd' = TRUE
    /\ main' = IF stop THEN "joining" ELSE "idle"
    /\ UNCHANGED <<slotVars, msgs, loopVars, poolVars, stop, cli>>
-----------------------------------------------------------------------------
(* Clients, through the kernel *)

ClientOf(fd) == cli[own[fd]]
Reachable(fd) == own[fd] # NoConn /\ ClientOf(fd).peer \in {"up", "fin"}

OthersUnchanged ==
    UNCHANGED <<users, timer, own, files, mailVars, loopVars, poolVars, stop>>

\* Bytes arrive: a piece, or a whole request if the client does not fragment.
\* It starts a request when fewer than MaxAhead answers are due.
ClientSend(fd) ==
    /\ Reachable(fd) /\ ClientOf(fd).peer = "up"
    /\ LET n == ClientOf(fd).sent + 1
           k == PieceReq(n)
       IN  /\ k \in Reqs
           /\ IsLine(n) => k <= Len(ClientOf(fd).got) + MaxAhead[own[fd]]
           /\ cli' = [cli EXCEPT ![own[fd]].sent =
                          IF own[fd] \in Fragmented THEN n ELSE 2 * k]
    /\ Notify(fd, {"IN"})
    /\ OthersUnchanged

\* The client empties a send buffer that was full.
ClientRead(fd) ==
    /\ Reachable(fd) /\ ClientOf(fd).full
    /\ cli' = [cli EXCEPT ![own[fd]].full = FALSE]
    /\ Notify(fd, {"OUT"})
    /\ OthersUnchanged

\* The client shuts down its sending side, or resets the connection.
ClientLeave(fd) ==
    /\ Reachable(fd)
    /\ \E how \in Leave \ {ClientOf(fd).peer} :
          cli' = [cli EXCEPT ![own[fd]].peer = how]
    /\ Notify(fd, {"IN", "OUT"})
    /\ OthersUnchanged

Clients == \E fd \in Slots : ClientSend(fd) \/ ClientRead(fd) \/ ClientLeave(fd)
-----------------------------------------------------------------------------
Init ==
    /\ users = [fd \in Slots |-> InitState]
    /\ timer = [fd \in Slots |-> FALSE]
    /\ ep = [fd \in Slots |-> NotRegistered]
    /\ msgs = <<>> /\ q = <<>> /\ tasks = <<>>
    /\ efd = FALSE /\ stop = FALSE
    /\ io = "events" /\ batch = {} /\ cur = NoEvent
    /\ wk = [w \in Workers |-> Idle]
    /\ main = "idle"
    /\ own = [fd \in Fds |-> NoConn]
    /\ files = {}
    /\ cli = [c \in Conns |-> [peer |-> "new", sent |-> 0, full |-> FALSE,
                               got |-> <<>>]]

\* loop() has returned and nobody is left to do anything for this reactor.
Terminated == io = "exited" /\ main = "joining" /\ UNCHANGED vars

Next ==
    \/ IoThread
    \/ \E w \in Workers : Worker(w)
    \/ \E c \in Conns, fd \in Fds : Dispatch(c, fd)
    \/ Stop \/ MainWake
    \/ Clients
    \/ Terminated

Spec == Init /\ [][Next]_vars

\* Threads that can run do run, and a client reads what it is sent.  No
\* fairness on accepting, stopping, sending or leaving.
Fairness ==
    /\ WF_vars(IoThread)
    /\ \A w \in Workers : WF_vars(Worker(w))
    /\ WF_vars(MainWake)
    /\ \A fd \in Slots : WF_vars(ClientRead(fd))

FairSpec == Spec /\ Fairness
-----------------------------------------------------------------------------
(* What the properties speak of *)

Elements(s) == { s[i] : i \in DOMAIN s }
BusDones(s) == { m \in Elements(s) : m.type = "BusDone" }
NewConns(s) == { m \in Elements(s) : m.type = "NewConn" }
Busy == { w \in Workers : wk[w].pc \in {"run", "push"} }

\* Work under way outside the I/O thread: queued or running tasks and
\* completions on their way back.
Work == Elements(tasks) \cup { wk[w] : w \in Busy }
        \cup BusDones(msgs) \cup BusDones(q)
InFlight(fd) == \E x \in Work : x.fd = fd

\* Every piece of that work once, with the place it is at and its descriptor.
Completions(place, s) ==
    { <<place, i, s[i].fd>> : i \in { j \in DOMAIN s : s[j].type = "BusDone" } }
PiecesOfWork ==
    { <<"tasks", i, tasks[i].fd>> : i \in DOMAIN tasks }
    \cup { <<"wk", w, wk[w].fd>> : w \in Busy }
    \cup Completions("msgs", msgs) \cup Completions("q", q)

\* Sockets accepted but not in the table yet.
Arriving(fd) == { m \in NewConns(msgs) \cup NewConns(q) : m.fd = fd }

\* An event about fd that epoll_wait has returned and loop() will come to.
Reported(fd) == \E e \in batch \cup {cur} : e.src = fd

Expected(k) == [code |-> Answer[k],
                req  |-> IF Answer[k] = "BadRequest" THEN 0 ELSE k]
-----------------------------------------------------------------------------
(* Type invariant *)

Pieces == 0 .. 2 * Len(Answer)
Conn == [open : BOOLEAN, rd : Pieces, p : Pieces, chk : {"LINE", "HEADER"},
         code : Codes \cup {"NoRequest"}, url : Reqs \cup {0},
         linger : BOOLEAN, file : {NoFile} \cup (Conns \X Reqs),
         resp : [code : Codes \cup {"NoRequest"}, req : Reqs \cup {0}],
         off : Nat]
Registration == [mask : {"none", "off", "IN", "OUT"},
                 oneshot : BOOLEAN, edge : BOOLEAN]
Task == [fd : Slots, conn : Conns]
Message == [type : {"NewConn"}, fd : Fds, conn : Conns]
           \cup [type : {"BusDone"}, fd : Slots, conn : Conns, result : {1, 2}]
Event == [src : Slots, ev : SUBSET {"IN", "OUT", "HUP"}]
WorkerState ==
    [pc : {"idle", "wake"}]
    \cup [pc : {"run"}, fd : Slots, conn : Conns, code : Codes \cup {"NoRequest"}]
    \cup [pc : {"push"}, fd : Slots, conn : Conns, result : {1, 2}]
Client == [peer : {"new", "up", "fin", "rst"}, sent : Pieces, full : BOOLEAN,
           got : Seq([code : Codes \cup {"NoRequest"}, req : Reqs \cup {0}])]

\* Every variable has its type, and a slot in the HEADER state has the URL its
\* request line named (http_conn.cpp, parse_request_line).
TypeOK ==
    /\ users \in [Slots -> Conn]
    /\ \A fd \in Slots : users[fd].chk = "HEADER" => users[fd].url \in Reqs
    /\ timer \in [Slots -> BOOLEAN]
    /\ ep \in [Slots -> Registration]
    /\ msgs \in Seq(Message) /\ q \in Seq(Message)
    /\ tasks \in Seq(Task)
    /\ wk \in [Workers -> WorkerState]
    /\ efd \in BOOLEAN /\ stop \in BOOLEAN
    /\ io \in {"events", "wait", "swap", "msgs", "exited"}
    /\ main \in {"idle", "wake", "joining"}
    /\ batch \subseteq Event \cup {EventFd, TimerFd}
    /\ cur \in Event \cup {NoEvent}
    /\ own \in [Fds -> Conns \cup {NoConn}]
    /\ files \subseteq Conns \X Reqs
    /\ cli \in [Conns -> Client]
-----------------------------------------------------------------------------
(* Safety, whatever the clients do *)

\* A connection is never forgotten: as long as it is open, either an idle
\* timer is live for its descriptor or a worker's completion is on its way,
\* the only two things that can still close it when the client falls silent.
\* deal_read and deal_write invalidate the timer and count on handle_msg to
\* add it again (sub_reactor.cpp:202, 254, 314).
NoForgottenConnection ==
    \A fd \in Slots : users[fd].open => timer[fd] \/ InFlight(fd)

\* m_users, the epoll set and the timers agree: a slot is in use exactly when
\* its descriptor is registered, and only then can its timer fire
\* (add_new_conn, close_connection).
TablesAgree ==
    \A fd \in Slots : /\ users[fd].open <=> ep[fd].mask # "none"
                      /\ timer[fd] => users[fd].open

\* A socket the acceptor was given is in exactly one place: in one NewConn
\* message, or in the slot of its descriptor, so that none is leaked and no
\* NewConn overwrites a slot in use (dispatch_new_conn, add_new_conn).
SocketHeldOnce ==
    \A fd \in Fds :
        /\ own[fd] # NoConn => (fd \in Slots /\ users[fd].open)
                               # (Arriving(fd) # {})
        /\ own[fd] = NoConn => Arriving(fd) = {} /\ (fd \in Slots => ~users[fd].open)

\* No wakeup is lost: the I/O thread does not sleep on a message or on
\* m_stop unless the eventfd is, or is about to be, signalled.  drain_eventfd
\* must precede swap_msgs for this (sub_reactor.cpp:339-341).
NoLostWakeup ==
    io = "wait" /\ (msgs # <<>> \/ stop) =>
        \/ efd
        \/ main = "wake"
        \/ \E w \in Workers : wk[w].pc = "wake"

\* No slot goes deaf: a descriptor EPOLLONESHOT has disabled is always about
\* to be armed again or closed, by an event at hand or by a completion.
NeverDeaf ==
    \A fd \in Slots : ep[fd].mask = "off" => Reported(fd) \/ InFlight(fd)

\* Edge-triggered epoll strands nothing: whenever an armed descriptor is
\* ready, its edge has not been consumed, its event is still to be handled, or
\* a completion will arm it anew (read_once reads until EAGAIN, and modfd
\* reports what is ready already).
NoStrandedData ==
    \A fd \in Slots : Listening(fd) /\ Flags(fd) # {} =>
        ep[fd].edge \/ Reported(fd) \/ InFlight(fd)
-----------------------------------------------------------------------------
(* What holds as long as no event reaches a slot with work under way, which *)
(* EPOLLONESHOT is there for: see SubReactorCalm                            *)

\* No step changes a slot under the worker that is working on it.
SlotsApart ==
    \A w \in Workers : wk[w].pc = "run" /\ wk'[w].pc = "run" =>
        users'[wk[w].fd] = users[wk[w].fd]

\* Work under way is about the connection that now sits in the slot, and at
\* most one piece of work is under way per slot.
WorkPinsConnection ==
    /\ \A x \in Work : users[x.fd].open /\ own[x.fd] = x.conn
    /\ \A x, y \in PiecesOfWork : x[3] = y[3] => x = y

\* Answers come in the order of the requests, each with the status and the
\* resource of its own request.
AnswersMatch ==
    \A c \in Conns : \A k \in DOMAIN cli[c].got : cli[c].got[k] = Expected(k)

\* Every static file the process holds open belongs to a slot: none leaks
\* when a response ends, is cut short or is followed by another.
FilesConserved ==
    files = { users[fd].file : fd \in Slots } \ {NoFile}

\* What the comments of sub_reactor.cpp promise, and the code keeps only as long
\* as no event reaches a slot with work under way: the I/O thread and the workers
\* never access an http_conn at the same time (223-225),
NoConcurrentAccess == [][SlotsApart]_vars

\* what a task or a completion finds in its slot, if the slot is in use, is the
\* connection it is about (208, 260, 305-306),
GuardsFindOwnConnection ==
    \A x \in Work : users[x.fd].open => own[x.fd] = x.conn

\* and no timeout can close a connection a worker has (201, 253).
NoTimeoutUnderWorker ==
    \A w \in Workers : wk[w].pc = "run" => ~timer[wk[w].fd]

\* A client that shuts down its side after a complete request still waits
\* for the answer: the end of the stream does not close the connection while
\* one is due (comments at sub_reactor.cpp:369-371, http_conn.cpp:119-123).
HalfCloseKeepsAnswer ==
    [][\A fd \in Slots :
         users[fd].open /\ ~users'[fd].open /\ cur.src = fd /\ "IN" \in cur.ev
            /\ ClientOf(fd).peer = "fin"
         => ClientOf(fd).sent < 2 * (Len(ClientOf(fd).got) + 1)]_vars
-----------------------------------------------------------------------------
(* Liveness under FairSpec *)

Answered(c, k) == Len(cli[c].got) >= k
Gone(c) == \A fd \in Fds : own[fd] # c

\* Every request the client has sent is answered, or its connection closed,
\* unless the reactor is stopped.
Served ==
    \A c \in Conns : \A k \in Reqs :
        cli[c].sent >= 2 * k ~> Answered(c, k) \/ Gone(c) \/ stop

\* stop() ends the I/O thread, whatever it is waiting for.
StopsEventually == stop ~> io = "exited"
=============================================================================
