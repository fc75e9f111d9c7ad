-------------------------- MODULE SubReactorProofs --------------------------
(***************************************************************************)
(* Proofs about SubReactor, for every number of descriptors, connections,  *)
(* workers and requests and for every behaviour of the clients.            *)
(***************************************************************************)
EXTENDS SubReactor, TLAPS

(* The parts of the inductive invariant *)

TypeSlots ==
    /\ users \in [Slots -> Conn]
    /\ \A fd \in Slots : users[fd].chk = "HEADER" => users[fd].url \in Reqs
    /\ timer \in [Slots -> BOOLEAN]
    /\ ep \in [Slots -> Registration]
    /\ own \in [Fds -> Conns \cup {NoConn}]
    /\ files \subseteq Conns \X Reqs

TypeRest ==
    /\ msgs \in Seq(Message) /\ q \in Seq(Message)
    /\ tasks \in Seq(Task)
    /\ wk \in [Workers -> WorkerState]
    /\ efd \in BOOLEAN /\ stop \in BOOLEAN
    /\ io \in {"events", "wait", "swap", "msgs", "exited"}
    /\ main \in {"idle", "wake", "joining"}
    /\ batch \subseteq Event \cup {EventFd, TimerFd}
    /\ cur \in Event \cup {NoEvent}
    /\ cli \in [Conns -> Client]

\* A slot in use has a socket behind its descriptor.
OpenOwned == \A fd \in Slots : users[fd].open => own[fd] \in Conns

\* The local queue is empty outside the loop that empties it.
QueueUsed == io # "msgs" => q = <<>>

\* A NewConn message is about the socket that has its descriptor now, and
\* whose slot is free.
Held(m) == m.type = "NewConn" =>
    /\ own[m.fd] = m.conn
    /\ m.fd \in Slots => ~users[m.fd].open
MailHeld == /\ \A i \in DOMAIN q : Held(q[i])
            /\ \A i \in DOMAIN msgs : Held(msgs[i])

SameNew(m, n) == m.type = "NewConn" /\ n.type = "NewConn" /\ m.fd = n.fd
MailDistinct ==
    /\ \A i, j \in DOMAIN q : SameNew(q[i], q[j]) => i = j
    /\ \A i, j \in DOMAIN msgs : SameNew(msgs[i], msgs[j]) => i = j
    /\ \A i \in DOMAIN q, j \in DOMAIN msgs : ~SameNew(q[i], msgs[j])

\* A socket has arrived in its slot or is announced by a message.
SocketSomewhere ==
    \A fd \in Fds : own[fd] # NoConn =>
        \/ fd \in Slots /\ users[fd].open
        \/ \E m \in NewConns(msgs) \cup NewConns(q) : m.fd = fd

IInv == /\ TypeSlots /\ TypeRest
        /\ OpenOwned /\ QueueUsed
        /\ MailHeld /\ MailDistinct /\ SocketSomewhere
        /\ NoForgottenConnection

\* Somebody is about to signal the eventfd, or it is signalled.
Waking == efd \/ main = "wake" \/ \E w \in Workers : wk[w].pc = "wake"
WakeInv == /\ msgs # <<>> /\ io # "swap" => Waking
           /\ stop /\ io = "wait" => Waking
-----------------------------------------------------------------------------
(* Queues *)

LEMMA AppendElements ==
    ASSUME NEW S, NEW s \in Seq(S), NEW e \in S
    PROVE  /\ Append(s, e) \in Seq(S)
           /\ Append(s, e) # <<>>
           /\ DOMAIN Append(s, e) = DOMAIN s \cup {Len(s) + 1}
           /\ \A i \in DOMAIN s : Append(s, e)[i] = s[i] /\ i # Len(s) + 1
           /\ Append(s, e)[Len(s) + 1] = e
           /\ Elements(Append(s, e)) = Elements(s) \cup {e}
<1>1. /\ Append(s, e) \in Seq(S)
      /\ Append(s, e) # <<>>
      /\ DOMAIN Append(s, e) = DOMAIN s \cup {Len(s) + 1}
      /\ \A i \in DOMAIN s : Append(s, e)[i] = s[i] /\ i # Len(s) + 1
      /\ Append(s, e)[Len(s) + 1] = e
    OBVIOUS
<1>2. Elements(Append(s, e)) = Elements(s) \cup {e}
    BY <1>1 DEF Elements
<1>. QED BY <1>1, <1>2

LEMMA TailElements ==
    ASSUME NEW S, NEW s \in Seq(S), s # <<>>
    PROVE  /\ Tail(s) \in Seq(S)
           /\ Head(s) \in S
           /\ Head(s) = s[1] /\ 1 \in DOMAIN s
           /\ \A i \in DOMAIN Tail(s) :
                 i \in Nat \ {0} /\ i + 1 \in DOMAIN s /\ Tail(s)[i] = s[i + 1]
           /\ Elements(s) = {Head(s)} \cup Elements(Tail(s))
<1>1. /\ Tail(s) \in Seq(S)
      /\ Head(s) \in S
      /\ Head(s) = s[1] /\ 1 \in DOMAIN s
      /\ \A i \in DOMAIN Tail(s) :
            i \in Nat \ {0} /\ i + 1 \in DOMAIN s /\ Tail(s)[i] = s[i + 1]
      /\ \A i \in DOMAIN s : i = 1 \/ (i - 1 \in DOMAIN Tail(s) /\ Tail(s)[i - 1] = s[i])
    OBVIOUS
<1>2. ASSUME NEW x \in Elements(s) PROVE x \in {Head(s)} \cup Elements(Tail(s))
    <2>1. PICK i \in DOMAIN s : x = s[i]
        BY DEF Elements
    <2>2. CASE i = 1
        BY <1>1, <2>1, <2>2
    <2>3. CASE i # 1
        BY <1>1, <2>1, <2>3 DEF Elements
    <2>. QED BY <2>2, <2>3
<1>3. {Head(s)} \cup Elements(Tail(s)) \subseteq Elements(s)
    BY <1>1 DEF Elements
<1>4. Elements(s) = {Head(s)} \cup Elements(Tail(s))
    BY <1>2, <1>3
<1>. QED BY <1>1, <1>4

LEMMA EmptyElements == Elements(<<>>) = {}
BY DEF Elements
-----------------------------------------------------------------------------
(* http_conn *)

LEMMA AnswerFacts == /\ Len(Answer) \in Nat
                     /\ Reqs = 1 .. Len(Answer)
                     /\ \A k \in Reqs : Answer[k] \in Codes
BY AnswerAssumption DEF Reqs

LEMMA PieceFacts == ASSUME NEW n \in Pieces, n # 0
                    PROVE  PieceReq(n) \in Reqs
BY AnswerFacts DEF Pieces, PieceReq

LEMMA InitTypes == /\ InitState \in Conn /\ InitConn \in Conn
                   /\ ~InitState.open /\ InitConn.open
                   /\ InitState.chk = "LINE" /\ InitConn.chk = "LINE"
                   /\ InitState.file = NoFile /\ InitState.resp = NoResponse
<1>1. NoResponse \in [code : Codes \cup {"NoRequest"}, req : Reqs \cup {0}]
    BY DEF NoResponse
<1>2. 0 \in Pieces
    BY AnswerFacts DEF Pieces
<1>3. InitState \in Conn
    BY <1>1, <1>2 DEF InitState, Conn
<1>4. InitConn \in Conn /\ InitConn.open /\ InitConn.chk = InitState.chk
    BY <1>3 DEF InitConn, Conn
<1>5. /\ ~InitState.open /\ InitState.chk = "LINE"
      /\ InitState.file = NoFile /\ InitState.resp = NoResponse
    BY DEF InitState
<1>. QED BY <1>3, <1>4, <1>5

\* What the parser and reset_for_next are given and what they return.
ConnOK(u) == u \in Conn /\ (u.chk = "HEADER" => u.url \in Reqs)
ParseOK(u, r) == /\ ConnOK(r.u)
                 /\ r.u.open = u.open
                 /\ r.ret \in Codes \cup {"NoRequest"}
                 /\ r.ret = "FileRequest" => r.u.file \in Conns \X Reqs

LEMMA ParseIntro ==
    ASSUME NEW u, NEW v, ConnOK(v), v.open = u.open,
           NEW x \in Codes \cup {"NoRequest"},
           x = "FileRequest" => v.file \in Conns \X Reqs
    PROVE  ParseOK(u, [ret |-> x, u |-> v])
<1> DEFINE r == [ret |-> x, u |-> v]
<1>1. r.ret = x /\ r.u = v
    OBVIOUS
<1> HIDE DEF r
<1>2. ParseOK(u, r)
    BY <1>1 DEF ParseOK
<1>. QED BY <1>2 DEF r

LEMMA ParsePieceTypes ==
    ASSUME NEW fd, own[fd] \in Conns, NEW u, ConnOK(u), u.p < u.rd
    PROVE  ParseOK(u, ParsePiece(fd, u))
<1> DEFINE n == u.p + 1
           v == [u EXCEPT !.p = n]
<1>1. n \in Pieces /\ n # 0
    BY AnswerFacts DEF ConnOK, Conn, Pieces
<1>2. PieceReq(n) \in Reqs
    BY <1>1, PieceFacts
<1>3. v \in Conn /\ v.chk = u.chk /\ v.url = u.url /\ v.open = u.open
    BY <1>1 DEF ConnOK, Conn
<1>4. ConnOK(v)
    BY <1>3 DEF ConnOK
<1> DEFINE malformed == \/ (v.chk = "LINE") # IsLine(n)
                        \/ IsLine(n) /\ Answer[PieceReq(n)] = "BadRequest"
           line == [v EXCEPT !.chk = "HEADER", !.url = PieceReq(n),
                             !.linger = PieceReq(n) \in KeepAlive]
<1>5. CASE malformed
    <2>1. ParsePiece(fd, u) = [ret |-> "BadRequest", u |-> v]
        BY <1>5 DEF ParsePiece
    <2>2. "BadRequest" \in Codes
        BY DEF Codes
    <2>. QED BY <2>1, <2>2, <1>3, <1>4, ParseIntro
<1>6. CASE ~malformed /\ v.chk = "LINE"
    <2>1. ParsePiece(fd, u) = [ret |-> "NoRequest", u |-> line]
        BY <1>6 DEF ParsePiece
    <2>2. (PieceReq(n) \in KeepAlive) \in BOOLEAN
        OBVIOUS
    <2>3. \A k \in Reqs, b \in BOOLEAN :
             LET x == [v EXCEPT !.chk = "HEADER", !.url = k, !.linger = b]
             IN  x \in Conn /\ x.url = k /\ x.open = v.open
        BY <1>3 DEF Conn
    <2>4. line \in Conn /\ line.url \in Reqs /\ line.open = u.open
        BY <1>2, <1>3, <2>2, <2>3
    <2>5. ConnOK(line)
        BY <2>4 DEF ConnOK
    <2> HIDE DEF line
    <2>. QED BY <2>1, <2>4, <2>5, ParseIntro
<1>7. CASE ~malformed /\ v.chk # "LINE"
    <2>1. ParsePiece(fd, u) = DoRequest(fd, v)
        BY <1>7 DEF ParsePiece
    <2>2. v.url \in Reqs
        BY <1>7, <1>4 DEF ConnOK, Conn
    <2>3. Answer[v.url] \in Codes
        BY <2>2, AnswerFacts
    <2>4. CASE Answer[v.url] = "FileRequest"
        <3> DEFINE x == [v EXCEPT !.file = <<own[fd], v.url>>]
        <3>1. DoRequest(fd, v) = [ret |-> Answer[v.url], u |-> x]
            BY <2>4 DEF DoRequest
        <3>2. <<own[fd], v.url>> \in Conns \X Reqs
            BY <2>2
        <3>3. x \in Conn /\ x.file \in Conns \X Reqs /\ x.chk = v.chk
              /\ x.url = v.url /\ x.open = u.open
            BY <3>2, <1>3 DEF Conn
        <3>4. ConnOK(x)
            BY <3>3, <2>2 DEF ConnOK
        <3> HIDE DEF x
        <3>. QED BY <2>1, <3>1, <3>3, <3>4, <2>3, ParseIntro
    <2>5. CASE Answer[v.url] # "FileRequest"
        <3>1. DoRequest(fd, v) = [ret |-> Answer[v.url], u |-> v]
            BY <2>5 DEF DoRequest
        <3> HIDE DEF v
        <3>2. ParseOK(u, [ret |-> Answer[v.url], u |-> v])
            BY <1>3, <1>4, <2>3, <2>5, ParseIntro
        <3>. QED BY <2>1, <3>1, <3>2
    <2>. QED BY <2>4, <2>5
<1>. QED BY <1>5, <1>6, <1>7

LEMMA ProcessReadTypes ==
    ASSUME NEW fd, own[fd] \in Conns, NEW u, ConnOK(u)
    PROVE  ParseOK(u, ProcessRead(fd, u))
<1> DEFINE r == ParsePiece(fd, u)
<1>1. u.p \in Nat /\ u.rd \in Nat
    BY AnswerFacts DEF ConnOK, Conn, Pieces
<1>2. CASE u.p >= u.rd
    <2>1. ProcessRead(fd, u) = [ret |-> "NoRequest", u |-> u]
        BY <1>2 DEF ProcessRead
    <2>. QED BY <2>1 DEF ParseOK
<1>3. CASE ~(u.p >= u.rd)
    <2>1. ParseOK(u, r)
        BY <1>1, <1>3, ParsePieceTypes
    <2>2. CASE r.ret # "NoRequest" \/ r.u.p >= r.u.rd
        BY <1>3, <2>1, <2>2 DEF ProcessRead
    <2>3. CASE ~(r.ret # "NoRequest" \/ r.u.p >= r.u.rd)
        <3>1. ProcessRead(fd, u) = ParsePiece(fd, r.u)
            BY <1>3, <2>3 DEF ProcessRead
        <3>2. ConnOK(r.u) /\ r.u.open = u.open
            BY <2>1 DEF ParseOK
        <3>3. r.u.p \in Nat /\ r.u.rd \in Nat
            BY <3>2, AnswerFacts DEF ConnOK, Conn, Pieces
        <3>4. ParseOK(r.u, ParsePiece(fd, r.u))
            BY <2>3, <3>2, <3>3, ParsePieceTypes
        <3>. QED BY <3>1, <3>2, <3>4 DEF ParseOK
    <2>. QED BY <2>2, <2>3
<1>. QED BY <1>2, <1>3
-----------------------------------------------------------------------------
(* What the handlers do to the tables *)

\* The handler closes the slots of S and no other, and opens none.
SlotsClosed(S) ==
    /\ \A fd \in Slots : users'[fd].open <=> users[fd].open /\ fd \notin S
    /\ \A fd \in Fds : own'[fd] = IF fd \in S /\ users[fd].open THEN NoConn
                                  ELSE own[fd]

LEMMA RegistrationTypes ==
    /\ NotRegistered \in Registration
    /\ AddFd \in Registration
    /\ ModFd("IN") \in Registration /\ ModFd("OUT") \in Registration
BY DEF NotRegistered, AddFd, ModFd, Registration

LEMMA CloseFacts ==
    ASSUME TypeSlots, NEW S \in SUBSET Slots, CloseConnections(S)
    PROVE  /\ TypeSlots'
           /\ SlotsClosed(S)
           /\ \A fd \in Slots \ S : timer'[fd] = timer[fd]
<1>1. /\ users' = [fd \in Slots |-> IF fd \in S THEN InitState ELSE users[fd]]
      /\ timer' = [fd \in Slots |-> timer[fd] /\ fd \notin S]
      /\ ep' = [fd \in Slots |-> IF fd \in S THEN NotRegistered ELSE ep[fd]]
      /\ own' = [fd \in Fds |-> IF fd \in S /\ users[fd].open
                                THEN NoConn ELSE own[fd]]
      /\ files' \subseteq files
    BY DEF CloseConnections, Invalidate
<1>2. users' \in [Slots -> Conn]
    BY <1>1, InitTypes DEF TypeSlots
<1>3. \A fd \in Slots : users'[fd].chk = "HEADER" => users'[fd].url \in Reqs
    BY <1>1, InitTypes DEF TypeSlots
<1>4. timer' \in [Slots -> BOOLEAN]
    BY <1>1
<1>5. ep' \in [Slots -> Registration]
    BY <1>1, RegistrationTypes DEF TypeSlots
<1>6. own' \in [Fds -> Conns \cup {NoConn}] /\ files' \subseteq Conns \X Reqs
    BY <1>1 DEF TypeSlots
<1>7. SlotsClosed(S)
    BY <1>1, InitTypes DEF SlotsClosed
<1>8. \A fd \in Slots \ S : timer'[fd] = timer[fd]
    BY <1>1 DEF TypeSlots
<1>. QED BY <1>2, <1>3, <1>4, <1>5, <1>6, <1>7, <1>8 DEF TypeSlots

LEMMA KeepFacts ==
    ASSUME TypeSlots, NEW fd \in Slots, NEW u, ConnOK(u), NEW t \in BOOLEAN,
           NEW e \in Registration, Keep(fd, u, t, e), files' \subseteq Conns \X Reqs
    PROVE  /\ TypeSlots'
           /\ users'[fd] = u /\ timer'[fd] = t /\ own' = own
           /\ \A g \in Slots \ {fd} : users'[g] = users[g] /\ timer'[g] = timer[g]
<1>1. /\ users' = [users EXCEPT ![fd] = u]
      /\ timer' = [timer EXCEPT ![fd] = t]
      /\ ep' = [ep EXCEPT ![fd] = e]
      /\ own' = own
    BY DEF Keep
<1>2. users'[fd] = u /\ timer'[fd] = t
    BY <1>1 DEF TypeSlots
<1>3. \A g \in Slots \ {fd} : users'[g] = users[g] /\ timer'[g] = timer[g]
    BY <1>1 DEF TypeSlots
<1>4. users' \in [Slots -> Conn]
    BY <1>1 DEF TypeSlots, ConnOK
<1>5. \A g \in Slots : users'[g].chk = "HEADER" => users'[g].url \in Reqs
    BY <1>2, <1>3 DEF TypeSlots, ConnOK
<1>6. timer' \in [Slots -> BOOLEAN] /\ ep' \in [Slots -> Registration]
    BY <1>1 DEF TypeSlots
<1>. QED BY <1>1, <1>2, <1>3, <1>4, <1>5, <1>6 DEF TypeSlots

\* After prepare_io_read the slot is still in use, and either its timer runs
\* or a task for it is queued.
LEMMA SubmitFacts ==
    ASSUME TypeSlots, tasks \in Seq(Task), NEW fd \in Slots, own[fd] \in Conns,
           users[fd].open, NEW u, ConnOK(u), u.open, SubmitOrWait(fd, u)
    PROVE  /\ TypeSlots'
           /\ SlotsClosed({})
           /\ \A g \in Slots \ {fd} : timer'[g] = timer[g]
           /\ tasks' \in Seq(Task)
           /\ Elements(tasks) \subseteq Elements(tasks')
           /\ timer'[fd] \/ \E x \in Elements(tasks') : x.fd = fd
<1> DEFINE r == ProcessRead(fd, u)
           v == [r.u EXCEPT !.code = r.ret]
           task == [fd |-> fd, conn |-> own[fd]]
<1>1. ParseOK(u, r)
    BY ProcessReadTypes
<1>2. /\ files' = (files \ Released(fd, u))
                  \cup (IF r.ret = "FileRequest" THEN {r.u.file} ELSE {})
      /\ IF r.ret = "NoRequest" THEN AwaitInput(fd, r.u) ELSE SubmitTask(fd, v)
    BY DEF SubmitOrWait
<1> HIDE DEF r
<1>3. files' \subseteq Conns \X Reqs
    BY <1>1, <1>2 DEF ParseOK, TypeSlots
<1>4. task \in Task
    BY DEF Task
<1>5. ConnOK(r.u) /\ r.u.open
    BY <1>1 DEF ParseOK
<1>6. v \in Conn /\ v.chk = r.u.chk /\ v.url = r.u.url /\ v.open
    BY <1>1, <1>5 DEF ParseOK, ConnOK, Conn
<1>7. ConnOK(v)
    BY <1>5, <1>6 DEF ConnOK
<1> HIDE DEF v, task
<1>8. ep[fd] \in Registration
    BY DEF TypeSlots
<1>9. CASE r.ret = "NoRequest"
    <2>1. Keep(fd, r.u, TRUE, ModFd("IN")) /\ tasks' = tasks
        BY <1>2, <1>9 DEF AwaitInput
    <2>2. /\ TypeSlots' /\ users'[fd] = r.u /\ timer'[fd] = TRUE /\ own' = own
          /\ \A g \in Slots \ {fd} : users'[g] = users[g] /\ timer'[g] = timer[g]
        BY <2>1, <1>3, <1>5, KeepFacts, RegistrationTypes
    <2>. QED BY <2>1, <2>2, <1>5 DEF SlotsClosed
<1>10. CASE r.ret # "NoRequest"
    <2>1. Keep(fd, v, FALSE, ep[fd]) /\ tasks' = Append(tasks, task)
        BY <1>2, <1>10 DEF SubmitTask, task
    <2>2. /\ TypeSlots' /\ users'[fd] = v /\ own' = own
          /\ \A g \in Slots \ {fd} : users'[g] = users[g] /\ timer'[g] = timer[g]
        BY <2>1, <1>3, <1>7, <1>8, KeepFacts
    <2>3. tasks' \in Seq(Task) /\ Elements(tasks') = Elements(tasks) \cup {task}
        BY <2>1, <1>4, AppendElements
    <2>4. task.fd = fd
        BY DEF task
    <2>. QED BY <2>2, <2>3, <2>4, <1>6 DEF SlotsClosed
<1>. QED BY <1>9, <1>10
-----------------------------------------------------------------------------
(* What the handlers leave true of sockets and of work under way *)

\* The mailbox holds what it held, less messages that are not NewConn.
MailKept ==
    /\ \A i \in DOMAIN q' : q'[i] \in Elements(q) \cup Elements(msgs)
    /\ \A i \in DOMAIN msgs' : msgs'[i] \in Elements(msgs)
    /\ NewConns(q) \cup NewConns(msgs) \subseteq NewConns(q') \cup NewConns(msgs')

\* Held, in the state after the step.
HeldNext(m) == m.type = "NewConn" =>
    /\ own'[m.fd] = m.conn
    /\ m.fd \in Slots => ~users'[m.fd].open

LEMMA SocketsKept ==
    ASSUME TypeSlots, TypeRest, OpenOwned, MailHeld, SocketSomewhere,
           TypeSlots', NEW S \in SUBSET Slots, SlotsClosed(S), MailKept
    PROVE  OpenOwned' /\ MailHeld' /\ SocketSomewhere'
<1>1. OpenOwned'
    BY SlotsAssumption DEF OpenOwned, SlotsClosed
<1>2. \A m \in Elements(q) \cup Elements(msgs) : Held(m)
    BY DEF MailHeld, Elements
<1>3. \A m \in Elements(q) \cup Elements(msgs) : m \in Message
    BY DEF TypeRest, Elements
<1>4. ASSUME NEW m \in Message, Held(m) PROVE HeldNext(m)
    <2>1. SUFFICES ASSUME m.type = "NewConn"
                   PROVE  /\ own'[m.fd] = m.conn
                          /\ m.fd \in Slots => ~users'[m.fd].open
        BY DEF HeldNext
    <2>2. own[m.fd] = m.conn /\ (m.fd \in Slots => ~users[m.fd].open)
        BY <1>4, <2>1 DEF Held
    <2>3. m.fd \in Fds
        BY <2>1 DEF Message
    <2>4. m.conn # NoConn
        BY <2>1, ConnsAssumption DEF Message
    <2>. QED BY <2>2, <2>3, <2>4 DEF SlotsClosed
<1>5. MailHeld'
    <2>1. \A i \in DOMAIN q' : HeldNext(q'[i])
        BY <1>2, <1>3, <1>4 DEF MailKept
    <2>2. \A i \in DOMAIN msgs' : HeldNext(msgs'[i])
        BY <1>2, <1>3, <1>4 DEF MailKept
    <2>. QED BY <2>1, <2>2 DEF MailHeld, Held, HeldNext
<1>6. SocketSomewhere'
    <2> SUFFICES ASSUME NEW fd \in Fds, own'[fd] # NoConn
                 PROVE  \/ fd \in Slots /\ users'[fd].open
                        \/ \E m \in NewConns(msgs') \cup NewConns(q') : m.fd = fd
        BY DEF SocketSomewhere, NewConns, Elements
    <2>1. own[fd] # NoConn /\ ~(fd \in S /\ users[fd].open)
        BY DEF SlotsClosed
    <2>2. CASE fd \in Slots /\ users[fd].open
        BY <2>1, <2>2 DEF SlotsClosed
    <2>3. CASE \E m \in NewConns(msgs) \cup NewConns(q) : m.fd = fd
        BY <2>3 DEF MailKept
    <2>. QED BY <2>1, <2>2, <2>3 DEF SocketSomewhere
<1>. QED BY <1>1, <1>5, <1>6

\* A handler forgets no connection if whatever vouched for it before still
\* does, or something else does now.
Vouched(fd) == timer[fd] \/ InFlight(fd)

LEMMA NoneForgotten ==
    ASSUME NoForgottenConnection,
           \A fd \in Slots : users'[fd].open =>
               users[fd].open /\ (Vouched(fd) => Vouched(fd)')
    PROVE  NoForgottenConnection'
BY DEF NoForgottenConnection, Vouched

LEMMA MailSame == ASSUME UNCHANGED <<q, msgs>>
                  PROVE  MailKept /\ (MailDistinct => MailDistinct')
BY DEF MailKept, MailDistinct, Elements, NewConns

LEMMA WorkSame == ASSUME UNCHANGED <<tasks, wk, q, msgs>>
                  PROVE  \A fd : InFlight(fd) <=> InFlight(fd)'
BY DEF InFlight, Work, Busy, BusDones, Elements
-----------------------------------------------------------------------------
(* Steps that touch neither the tables nor the messages nor the tasks *)

LEMMA QuietStep ==
    ASSUME IInv, UNCHANGED <<users, timer, own, tasks, wk, q, msgs>>,
           TypeSlots', TypeRest', QueueUsed'
    PROVE  IInv'
<1>1. SlotsClosed({})
    BY DEF SlotsClosed
<1>2. MailKept /\ MailDistinct'
    BY MailSame DEF IInv
<1>3. OpenOwned' /\ MailHeld' /\ SocketSomewhere'
    BY <1>1, <1>2, SocketsKept DEF IInv
<1>4. NoForgottenConnection'
    BY WorkSame, NoneForgotten DEF IInv, Vouched
<1>. QED BY <1>2, <1>3, <1>4 DEF IInv

LEMMA FlagsFacts == \A fd : Flags(fd) \subseteq {"IN", "OUT", "HUP"}
BY DEF Flags

LEMMA LoopHeadInv == IInv /\ LoopHead => IInv'
<1> SUFFICES ASSUME IInv, LoopHead PROVE IInv'
    OBVIOUS
<1>1. UNCHANGED <<users, timer, ep, own, files, tasks, wk, q, msgs>>
    BY DEF LoopHead, slotVars, mailVars, poolVars
<1>2. TypeSlots'
    BY <1>1 DEF IInv, TypeSlots
<1>3. TypeRest'
    BY DEF LoopHead, mailVars, poolVars, IInv, TypeRest
<1>4. QueueUsed'
    BY DEF LoopHead, AtEvents, IInv, QueueUsed
<1>. QED BY <1>1, <1>2, <1>3, <1>4, QuietStep

LEMMA EpollWaitInv == IInv /\ EpollWait => IInv'
<1> SUFFICES ASSUME IInv, EpollWait PROVE IInv'
    OBVIOUS
<1>1. UNCHANGED <<users, timer, own, files, msgs, efd, main, tasks, wk, q, cur,
                  stop, cli>>
    BY DEF EpollWait, mailVars, poolVars
<1>2. ep' \in [Slots -> Registration]
    <2>1. ASSUME NEW fd \in Slots
          PROVE  [ep[fd] EXCEPT !.edge = FALSE,
                     !.mask = IF ep[fd].oneshot THEN "off" ELSE @] \in Registration
        BY DEF IInv, TypeSlots, Registration
    <2>. QED BY <2>1 DEF EpollWait, IInv, TypeSlots
<1>3. TypeSlots'
    BY <1>1, <1>2 DEF IInv, TypeSlots
<1>4. batch' \subseteq Event \cup {EventFd, TimerFd}
    <2>1. ClientEvents \subseteq Event
        BY FlagsFacts DEF ClientEvents, Ready, Event
    <2>2. PICK expired \in {{}} \cup (IF Live # {} THEN {{TimerFd}} ELSE {}) :
             batch' = ClientEvents \cup (IF efd THEN {EventFd} ELSE {}) \cup expired
        BY DEF EpollWait
    <2>3. expired \subseteq {TimerFd}
        OBVIOUS
    <2>. QED BY <2>1, <2>2, <2>3
<1>5. io = "wait" /\ io' = "events"
    BY DEF EpollWait
<1>6. TypeRest'
    BY <1>1, <1>4, <1>5 DEF IInv, TypeRest
<1>7. QueueUsed'
    BY <1>1, <1>5 DEF IInv, QueueUsed
<1>. QED BY <1>1, <1>3, <1>6, <1>7, QuietStep

LEMMA DrainEventFdInv == IInv /\ DrainEventFd => IInv'
<1> SUFFICES ASSUME IInv, DrainEventFd PROVE IInv'
    OBVIOUS
<1>1. UNCHANGED <<users, timer, ep, own, files, tasks, wk, q, msgs>>
    BY DEF DrainEventFd, slotVars, poolVars
<1>2. TypeSlots'
    BY <1>1 DEF IInv, TypeSlots
<1>3. TypeRest'
    BY DEF DrainEventFd, poolVars, IInv, TypeRest
<1>4. QueueUsed'
    BY DEF DrainEventFd, AtEvents, IInv, QueueUsed
<1>. QED BY <1>1, <1>2, <1>3, <1>4, QuietStep

LEMMA TakeClientEventInv == IInv /\ TakeClientEvent => IInv'
<1> SUFFICES ASSUME IInv, TakeClientEvent PROVE IInv'
    OBVIOUS
<1>1. UNCHANGED <<users, timer, ep, own, files, tasks, wk, q, msgs, efd, main,
                  io, stop, cli>>
    BY DEF TakeClientEvent, slotVars, mailVars, poolVars
<1>2. TypeSlots'
    BY <1>1 DEF IInv, TypeSlots
<1>3. batch' \subseteq batch /\ cur' \in Event \cup {NoEvent}
    BY DEF TakeClientEvent, IInv, TypeRest
<1>4. TypeRest'
    BY <1>1, <1>3 DEF IInv, TypeRest
<1>5. QueueUsed'
    BY <1>1 DEF IInv, QueueUsed
<1>. QED BY <1>1, <1>2, <1>4, <1>5, QuietStep

LEMMA StopInv == IInv /\ (Stop \/ MainWake) => IInv'
<1> SUFFICES ASSUME IInv, Stop \/ MainWake PROVE IInv'
    OBVIOUS
<1>1. UNCHANGED <<users, timer, ep, own, files, tasks, wk, q, io, batch, cur,
                  msgs, cli>>
    BY DEF Stop, MainWake, slotVars, loopVars, poolVars
<1>2. TypeSlots'
    BY <1>1 DEF IInv, TypeSlots
<1>3. efd' \in BOOLEAN /\ stop' \in BOOLEAN /\ main' \in {"idle", "wake", "joining"}
    BY DEF Stop, MainWake, IInv, TypeRest
<1>4. TypeRest'
    BY <1>1, <1>3 DEF IInv, TypeRest
<1>5. QueueUsed'
    BY <1>1 DEF IInv, QueueUsed
<1>. QED BY <1>1, <1>2, <1>4, <1>5, QuietStep

LEMMA ClientsInv == IInv /\ Clients => IInv'
<1> SUFFICES ASSUME IInv, NEW fd \in Slots,
                    ClientSend(fd) \/ ClientRead(fd) \/ ClientLeave(fd)
             PROVE  IInv'
    BY DEF Clients
<1>1. UNCHANGED <<users, timer, own, files, msgs, efd, main, q, io, batch, cur,
                  tasks, wk, stop>>
    BY DEF ClientSend, ClientRead, ClientLeave, OthersUnchanged, mailVars,
           loopVars, poolVars
<1>2. ep' \in [Slots -> Registration]
    <2>1. PICK masks : Notify(fd, masks)
        BY DEF ClientSend, ClientRead, ClientLeave
    <2>2. (ep[fd].edge \/ ep[fd].mask \in masks) \in BOOLEAN
        OBVIOUS
    <2>3. \A b \in BOOLEAN : [ep[fd] EXCEPT !.edge = b] \in Registration
        BY DEF IInv, TypeSlots, Registration
    <2>4. ep' = [ep EXCEPT ![fd] = [ep[fd] EXCEPT !.edge = ep[fd].edge \/ ep[fd].mask \in masks]]
        BY <2>1 DEF Notify
    <2>5. [ep[fd] EXCEPT !.edge = ep[fd].edge \/ ep[fd].mask \in masks] \in Registration
        BY <2>2, <2>3
    <2>. QED BY <2>4, <2>5 DEF IInv, TypeSlots
<1>3. TypeSlots'
    BY <1>1, <1>2 DEF IInv, TypeSlots
<1>4. own[fd] \in Conns
    BY SlotsAssumption
       DEF ClientSend, ClientRead, ClientLeave, Reachable, IInv, TypeSlots
<1>5. cli[own[fd]] \in Client /\ cli \in [Conns -> Client]
    BY <1>4 DEF IInv, TypeRest
<1>6. cli' \in [Conns -> Client]
    <2>1. CASE ClientSend(fd)
        <3> DEFINE n == ClientOf(fd).sent + 1
                   m == IF own[fd] \in Fragmented THEN n ELSE 2 * PieceReq(n)
        <3>1. PieceReq(n) \in Reqs /\ cli' = [cli EXCEPT ![own[fd]].sent = m]
            BY <2>1 DEF ClientSend
        <3>2. ClientOf(fd).sent \in Pieces
            BY <1>5 DEF ClientOf, Client
        <3>3. m \in Pieces
            BY <3>1, <3>2, AnswerFacts DEF Pieces, PieceReq
        <3> HIDE DEF m
        <3>. QED BY <3>1, <3>3, <1>4, <1>5 DEF Client
    <2>2. CASE ClientRead(fd)
        BY <2>2, <1>4, <1>5 DEF ClientRead, Client
    <2>3. CASE ClientLeave(fd)
        <3>1. PICK how \in Leave : cli' = [cli EXCEPT ![own[fd]].peer = how]
            BY <2>3 DEF ClientLeave
        <3>2. how \in {"new", "up", "fin", "rst"}
            BY BoundsAssumption
        <3>. QED BY <3>1, <3>2, <1>4, <1>5 DEF Client
    <2>. QED BY <2>1, <2>2, <2>3
<1>7. TypeRest'
    BY <1>1, <1>6 DEF IInv, TypeRest
<1>8. QueueUsed'
    BY <1>1 DEF IInv, QueueUsed
<1>. QED BY <1>1, <1>3, <1>7, <1>8, QuietStep
-----------------------------------------------------------------------------
(* Handlers of events on descriptors *)

\* A handler that closes the slots of S, keeps the others' timers, and leaves
\* the messages alone; it may add tasks.
LEMMA HandlerStep ==
    ASSUME IInv, NEW S \in SUBSET Slots, TypeSlots', TypeRest', QueueUsed',
           SlotsClosed(S), UNCHANGED <<q, msgs, wk>>,
           Elements(tasks) \subseteq Elements(tasks'),
           \A fd \in Slots \ S : timer[fd] => timer'[fd] \/ \E x \in Elements(tasks') : x.fd = fd
    PROVE  IInv'
<1>1. MailKept /\ MailDistinct'
    BY MailSame DEF IInv
<1>2. OpenOwned' /\ MailHeld' /\ SocketSomewhere'
    BY <1>1, SocketsKept DEF IInv
<1>3. Work \subseteq Work' /\ Elements(tasks') \subseteq Work'
    BY DEF Work, Busy, BusDones, Elements
<1>4. \A fd \in Slots : users'[fd].open =>
          users[fd].open /\ (Vouched(fd) => Vouched(fd)')
    BY <1>3 DEF SlotsClosed, Vouched, InFlight
<1>5. NoForgottenConnection'
    BY <1>4, NoneForgotten DEF IInv
<1>. QED BY <1>1, <1>2, <1>5 DEF IInv

LEMMA HandleTimeoutInv == IInv /\ HandleTimeout => IInv'
<1> SUFFICES ASSUME IInv, HandleTimeout PROVE IInv'
    OBVIOUS
<1>1. PICK S \in SUBSET Live : CloseConnections(S)
    BY DEF HandleTimeout
<1>2. S \in SUBSET Slots
    BY DEF Live
<1>3. /\ TypeSlots' /\ SlotsClosed(S)
      /\ \A fd \in Slots \ S : timer'[fd] = timer[fd]
    BY <1>1, <1>2, CloseFacts DEF IInv
<1>4. /\ UNCHANGED <<msgs, efd, main, tasks, wk, q, io, cur, stop, cli>>
      /\ batch' \subseteq batch
    BY DEF HandleTimeout, mailVars, poolVars
<1>5. TypeRest'
    BY <1>4 DEF IInv, TypeRest
<1>6. QueueUsed'
    BY <1>4 DEF IInv, QueueUsed
<1>. QED BY <1>2, <1>3, <1>4, <1>5, <1>6, HandlerStep

\* What every step on the event in hand leaves alone.
LEMMA HandledFacts ==
    ASSUME IInv, NEW f \in {"IN", "OUT", "HUP"}, f \in cur.ev, Handled(f)
    PROVE  /\ cur.src \in Slots
           /\ cur' \in Event \cup {NoEvent}
           /\ UNCHANGED <<msgs, efd, main, wk, q, io, batch, stop>>
<1>1. cur \in Event
    BY DEF IInv, TypeRest, NoEvent
<1>2. cur' \in Event \cup {NoEvent}
    BY <1>1 DEF Handled, Event
<1>. QED BY <1>1, <1>2 DEF Handled, mailVars, Event

LEMMA DealReadInv == IInv /\ DealRead => IInv'
<1> SUFFICES ASSUME IInv, DealRead PROVE IInv'
    OBVIOUS
<1> DEFINE fd == cur.src
           u == [users[fd] EXCEPT !.rd = cli[own[fd]].sent]
<1>1. /\ fd \in Slots
      /\ cur' \in Event \cup {NoEvent}
      /\ UNCHANGED <<msgs, efd, main, wk, q, io, batch, stop, cli>>
    BY HandledFacts DEF DealRead
<1>2. CASE ReadFails(fd)
    <2>1. CloseConnections({fd}) /\ tasks' = tasks
        BY <1>2 DEF DealRead
    <2>2. /\ TypeSlots' /\ SlotsClosed({fd})
          /\ \A g \in Slots \ {fd} : timer'[g] = timer[g]
        BY <1>1, <2>1, CloseFacts DEF IInv
    <2>3. TypeRest'
        BY <1>1, <2>1 DEF IInv, TypeRest
    <2>4. QueueUsed'
        BY <1>1 DEF IInv, QueueUsed
    <2>. QED BY <1>1, <2>1, <2>2, <2>3, <2>4, HandlerStep
<1>3. CASE ~ReadFails(fd)
    <2>1. SubmitOrWait(fd, u)
        BY <1>3 DEF DealRead
    <2>2. users[fd].open /\ own[fd] \in Conns
        BY <1>1, <1>3 DEF ReadFails, IInv, OpenOwned
    <2>3. cli[own[fd]].sent \in Pieces
        BY <2>2 DEF IInv, TypeRest, Client
    <2>4. ConnOK(users[fd])
        BY <1>1 DEF IInv, TypeSlots, ConnOK
    <2>5. ConnOK(u) /\ u.open
        BY <2>2, <2>3, <2>4 DEF ConnOK, Conn
    <2>6. tasks \in Seq(Task)
        BY DEF IInv, TypeRest
    <2> HIDE DEF u
    <2>7. /\ TypeSlots' /\ SlotsClosed({})
          /\ \A g \in Slots \ {fd} : timer'[g] = timer[g]
          /\ tasks' \in Seq(Task)
          /\ Elements(tasks) \subseteq Elements(tasks')
          /\ timer'[fd] \/ \E x \in Elements(tasks') : x.fd = fd
        BY <1>1, <2>1, <2>2, <2>5, <2>6, SubmitFacts DEF IInv
    <2>8. TypeRest'
        BY <1>1, <2>7 DEF IInv, TypeRest
    <2>9. QueueUsed'
        BY <1>1 DEF IInv, QueueUsed
    <2>. QED BY <1>1, <2>7, <2>8, <2>9, HandlerStep
<1>. QED BY <1>2, <1>3

LEMMA AppendGot ==
    ASSUME IInv, NEW c \in Conns,
           NEW r \in [code : Codes \cup {"NoRequest"}, req : Reqs \cup {0}]
    PROVE  [cli EXCEPT ![c].got = Append(@, r)] \in [Conns -> Client]
<1> DEFINE R == [code : Codes \cup {"NoRequest"}, req : Reqs \cup {0}]
<1>1. cli[c] \in Client /\ cli[c].got \in Seq(R)
    BY DEF IInv, TypeRest, Client
<1>2. Append(cli[c].got, r) \in Seq(R)
    BY <1>1, AppendElements
<1>3. \A g \in Seq(R) : [cli[c] EXCEPT !.got = g] \in Client
    BY <1>1 DEF Client
<1>. QED BY <1>2, <1>3 DEF IInv, TypeRest

LEMMA ResetTypes ==
    ASSUME NEW u, ConnOK(u)
    PROVE  ConnOK(ResetForNext(u)) /\ ResetForNext(u).open
<1>1. u.rd \in Pieces /\ u.p \in Pieces
    BY DEF ConnOK, Conn
<1>2. \A a, b \in Pieces : LET x == [InitConn EXCEPT !.rd = a, !.p = b]
                           IN  x \in Conn /\ x.open /\ x.chk = "LINE"
    BY InitTypes DEF Conn
<1>3. /\ ResetForNext(u) \in Conn /\ ResetForNext(u).open
      /\ ResetForNext(u).chk = "LINE"
    BY <1>1, <1>2 DEF ResetForNext
<1>. QED BY <1>3 DEF ConnOK

LEMMA DealWriteInv == IInv /\ DealWrite => IInv'
<1> SUFFICES ASSUME IInv, DealWrite PROVE IInv'
    OBVIOUS
<1> DEFINE fd == cur.src
           c == own[fd]
<1>1. /\ fd \in Slots
      /\ cur' \in Event \cup {NoEvent}
      /\ UNCHANGED <<msgs, efd, main, wk, q, io, batch, stop>>
    BY HandledFacts DEF DealWrite
<1>2. QueueUsed'
    BY <1>1 DEF IInv, QueueUsed
<1>3. tasks \in Seq(Task) /\ cli \in [Conns -> Client] /\ ConnOK(users[fd])
    BY <1>1 DEF IInv, TypeRest, TypeSlots, ConnOK
<1>4. ASSUME tasks' \in Seq(Task), cli' \in [Conns -> Client] PROVE TypeRest'
    BY <1>1, <1>4 DEF IInv, TypeRest
<1>5. CASE UNCHANGED <<slotVars, tasks, cli>>
    <2>1. TypeSlots' /\ SlotsClosed({}) /\ timer' = timer
        BY <1>5 DEF slotVars, IInv, TypeSlots, SlotsClosed
    <2>. QED BY <1>1, <1>2, <1>3, <1>4, <1>5, <2>1, HandlerStep
<1>6. ASSUME CloseConnections({fd}), tasks' = tasks, cli' \in [Conns -> Client]
      PROVE  IInv'
    <2>1. /\ TypeSlots' /\ SlotsClosed({fd})
          /\ \A g \in Slots \ {fd} : timer'[g] = timer[g]
        BY <1>1, <1>6, CloseFacts DEF IInv
    <2>. QED BY <1>1, <1>2, <1>3, <1>4, <1>6, <2>1, HandlerStep
<1>7. ASSUME users[fd].open,
             NEW n \in 0..Chunks, WriteBlocks(fd, n),
             Keep(fd, [users[fd] EXCEPT !.off = @ + n], TRUE, ModFd("OUT")),
             cli' = [cli EXCEPT ![c].full = TRUE],
             UNCHANGED <<files, tasks>>
      PROVE  IInv'
    <2> DEFINE u == [users[fd] EXCEPT !.off = @ + n]
    <2>1. users[fd].off + n \in Nat
        BY <1>3, BoundsAssumption DEF ConnOK, Conn
    <2>2. ConnOK(u) /\ u.open = users[fd].open
        BY <1>3, <2>1 DEF ConnOK, Conn
    <2>3. files' \subseteq Conns \X Reqs
        BY <1>7 DEF IInv, TypeSlots
    <2>4. Keep(fd, u, TRUE, ModFd("OUT"))
        BY <1>7
    <2> HIDE DEF u
    <2>5. /\ TypeSlots' /\ users'[fd] = u /\ timer'[fd] = TRUE /\ own' = own
          /\ \A g \in Slots \ {fd} : users'[g] = users[g] /\ timer'[g] = timer[g]
        BY <1>1, <2>2, <2>3, <2>4, KeepFacts, RegistrationTypes DEF IInv
    <2>6. SlotsClosed({})
        BY <2>2, <2>5 DEF SlotsClosed
    <2>7. cli' \in [Conns -> Client]
        BY <1>3, <1>7 DEF Client
    <2>. QED BY <1>1, <1>2, <1>3, <1>4, <1>7, <2>5, <2>6, <2>7, HandlerStep
<1>8. ASSUME users[fd].open, AfterResponse(fd),
             cli' = IF ~HasOutput(users[fd]) THEN cli
                    ELSE [cli EXCEPT ![c].got = Append(@, users[fd].resp)]
      PROVE  IInv'
    <2>1. c \in Conns
        BY <1>1, <1>8 DEF IInv, OpenOwned
    <2>2. users[fd].resp \in [code : Codes \cup {"NoRequest"}, req : Reqs \cup {0}]
        BY <1>3 DEF ConnOK, Conn
    <2>3. cli' \in [Conns -> Client]
        BY <1>3, <1>8, <2>1, <2>2, AppendGot
    <2>4. CASE ~users[fd].linger
        BY <1>6, <1>8, <2>3, <2>4 DEF AfterResponse
    <2>5. CASE users[fd].linger
        <3> DEFINE u == ResetForNext(users[fd])
        <3>1. SubmitOrWait(fd, u)
            BY <1>8, <2>5 DEF AfterResponse
        <3>2. ConnOK(u) /\ u.open
            BY <1>3, ResetTypes
        <3> HIDE DEF u
        <3>3. /\ TypeSlots' /\ SlotsClosed({})
              /\ \A g \in Slots \ {fd} : timer'[g] = timer[g]
              /\ tasks' \in Seq(Task)
              /\ Elements(tasks) \subseteq Elements(tasks')
              /\ timer'[fd] \/ \E x \in Elements(tasks') : x.fd = fd
            BY <1>1, <1>3, <1>8, <2>1, <3>1, <3>2, SubmitFacts DEF IInv
        <3>. QED BY <1>1, <1>2, <1>4, <2>3, <3>3, HandlerStep
    <2>. QED BY <2>4, <2>5
<1>. QED BY <1>3, <1>5, <1>6, <1>7, <1>8 DEF DealWrite

LEMMA DealHupInv == IInv /\ DealHup => IInv'
<1> SUFFICES ASSUME IInv, DealHup PROVE IInv'
    OBVIOUS
<1> DEFINE fd == cur.src
<1>1. /\ fd \in Slots
      /\ cur' \in Event \cup {NoEvent}
      /\ UNCHANGED <<msgs, efd, main, wk, q, io, batch, stop, tasks, cli>>
    BY HandledFacts DEF DealHup
<1>2. QueueUsed'
    BY <1>1 DEF IInv, QueueUsed
<1>3. TypeRest'
    BY <1>1 DEF IInv, TypeRest
<1>4. CASE users[fd].open
    <2>1. CloseConnections({fd})
        BY <1>4 DEF DealHup
    <2>2. /\ TypeSlots' /\ SlotsClosed({fd})
          /\ \A g \in Slots \ {fd} : timer'[g] = timer[g]
        BY <1>1, <2>1, CloseFacts DEF IInv
    <2>. QED BY <1>1, <1>2, <1>3, <2>2, HandlerStep
<1>5. CASE ~users[fd].open
    <2>1. UNCHANGED slotVars
        BY <1>5 DEF DealHup
    <2>2. TypeSlots' /\ SlotsClosed({}) /\ timer' = timer
        BY <2>1 DEF slotVars, IInv, TypeSlots, SlotsClosed
    <2>. QED BY <1>1, <1>2, <1>3, <2>2, HandlerStep
<1>. QED BY <1>4, <1>5
-----------------------------------------------------------------------------
(* The mailbox *)

LEMMA SwapMsgsInv == IInv /\ SwapMsgs => IInv'
<1> SUFFICES ASSUME IInv, SwapMsgs PROVE IInv'
    OBVIOUS
<1>1. /\ UNCHANGED <<users, timer, ep, own, files, efd, main, tasks, wk, batch,
                     cur, stop, cli>>
      /\ q = <<>> /\ q' = msgs /\ msgs' = <<>> /\ io' = AfterQueue(msgs)
    BY DEF SwapMsgs, slotVars, poolVars, IInv, QueueUsed
<1>2. TypeSlots' /\ SlotsClosed({})
    BY <1>1 DEF IInv, TypeSlots, SlotsClosed
<1>3. TypeRest'
    BY <1>1 DEF IInv, TypeRest, AfterQueue
<1>4. QueueUsed'
    BY <1>1 DEF QueueUsed, AfterQueue
<1>5. /\ Elements(q) = {} /\ Elements(msgs') = {} /\ Elements(q') = Elements(msgs)
      /\ DOMAIN msgs' = {} /\ DOMAIN q' = DOMAIN msgs
    BY <1>1, EmptyElements
<1>6. MailKept
    BY <1>1, <1>5 DEF MailKept, NewConns, Elements
<1>7. MailDistinct'
    BY <1>1, <1>5 DEF IInv, MailDistinct
<1>8. OpenOwned' /\ MailHeld' /\ SocketSomewhere'
    BY <1>2, <1>6, SocketsKept DEF IInv
<1>9. Work' = Work
    BY <1>1, <1>5 DEF Work, Busy, BusDones
<1>10. NoForgottenConnection'
    BY <1>1, <1>9 DEF IInv, NoForgottenConnection, InFlight
<1>. QED BY <1>2, <1>3, <1>4, <1>7, <1>8, <1>10 DEF IInv

\* Taking the head of the local queue.
LEMMA NextMsgFacts ==
    ASSUME IInv, NEW type, NextMsg(type)
    PROVE  /\ Head(q) \in Message /\ Head(q).type = type
           /\ Head(q) \in Elements(q) /\ Held(Head(q))
           /\ Elements(q) = {Head(q)} \cup Elements(q')
           /\ q' \in Seq(Message)
           /\ io' \in {"events", "msgs"} /\ QueueUsed'
           /\ UNCHANGED <<msgs, efd, main, tasks, wk, batch, cur, stop, cli>>
           /\ MailDistinct'
           /\ type = "NewConn" =>
                 \A m \in NewConns(q') \cup NewConns(msgs') : m.fd # Head(q).fd
<1>1. /\ q \in Seq(Message) /\ q # <<>> /\ q' = Tail(q) /\ Head(q).type = type
      /\ io' = AfterQueue(q')
      /\ UNCHANGED <<msgs, efd, main, tasks, wk, batch, cur, stop, cli>>
    BY DEF NextMsg, mailVars, poolVars, IInv, TypeRest
<1>2. /\ q' \in Seq(Message)
      /\ Head(q) \in Message
      /\ Head(q) = q[1] /\ 1 \in DOMAIN q
      /\ \A i \in DOMAIN q' :
            i \in Nat \ {0} /\ i + 1 \in DOMAIN q /\ q'[i] = q[i + 1]
      /\ Elements(q) = {Head(q)} \cup Elements(q')
    BY <1>1, TailElements
<1>3. Held(Head(q))
    BY <1>2 DEF IInv, MailHeld
<1>4. io' \in {"events", "msgs"} /\ QueueUsed'
    BY <1>1 DEF AfterQueue, QueueUsed
<1>5. MailDistinct'
    <2>1. ASSUME NEW i \in DOMAIN q', NEW j \in DOMAIN q', SameNew(q'[i], q'[j])
          PROVE  i = j
        <3>1. i + 1 = j + 1
            BY <1>2, <2>1 DEF IInv, MailDistinct
        <3>. QED BY <1>2, <3>1
    <2>2. ASSUME NEW i \in DOMAIN q', NEW j \in DOMAIN msgs PROVE ~SameNew(q'[i], msgs[j])
        BY <1>2 DEF IInv, MailDistinct
    <2>. QED BY <1>1, <2>1, <2>2 DEF IInv, MailDistinct, SameNew
<1>6. ASSUME type = "NewConn", NEW m \in NewConns(q') \cup NewConns(msgs')
      PROVE  m.fd # Head(q).fd
    <2>1. CASE m \in NewConns(q')
        <3>1. PICK i \in DOMAIN q' : m = q'[i] /\ m.type = "NewConn"
            BY <2>1 DEF NewConns, Elements
        <3>2. i + 1 # 1 /\ i + 1 \in DOMAIN q /\ m = q[i + 1]
            BY <1>2, <3>1
        <3>. QED BY <1>1, <1>2, <1>6, <3>1, <3>2 DEF IInv, MailDistinct, SameNew
    <2>2. CASE m \in NewConns(msgs')
        <3>1. PICK j \in DOMAIN msgs : m = msgs[j] /\ m.type = "NewConn"
            BY <1>1, <2>2 DEF NewConns, Elements
        <3>. QED BY <1>1, <1>2, <1>6, <3>1 DEF IInv, MailDistinct, SameNew
    <2>. QED BY <2>1, <2>2
<1>7. Head(q) \in Elements(q)
    BY <1>2
<1>. QED BY <1>1, <1>2, <1>3, <1>4, <1>5, <1>6, <1>7

LEMMA HandleBusDoneInv == IInv /\ HandleBusDone => IInv'
<1> SUFFICES ASSUME IInv, HandleBusDone PROVE IInv'
    OBVIOUS
<1> DEFINE fd == Head(q).fd
<1>1. NextMsg("BusDone")
    BY DEF HandleBusDone
<1>2. /\ Head(q) \in Message /\ Head(q).type = "BusDone"
      /\ Elements(q) = {Head(q)} \cup Elements(q')
      /\ q' \in Seq(Message)
      /\ io' \in {"events", "msgs"} /\ QueueUsed'
      /\ UNCHANGED <<msgs, efd, main, tasks, wk, batch, cur, stop, cli>>
      /\ MailDistinct'
    BY <1>1, NextMsgFacts
<1>3. fd \in Slots
    BY <1>2 DEF Message
<1>4. TypeRest'
    BY <1>2 DEF IInv, TypeRest
<1>5. MailKept
    BY <1>2 DEF MailKept, NewConns, Elements
<1>6. \A x \in Work : x \in Work' \/ x = Head(q)
    BY <1>2 DEF Work, Busy, BusDones
<1>7. \A g \in Slots \ {fd} : InFlight(g) => InFlight(g)'
    BY <1>6 DEF InFlight
\* The three outcomes differ in what becomes of slot fd only.
<1>8. ASSUME NEW S \in SUBSET Slots, TypeSlots', SlotsClosed(S),
             \A g \in Slots \ {fd} : timer'[g] = timer[g],
             ~users'[fd].open \/ timer'[fd]
      PROVE  IInv'
    <2>1. OpenOwned' /\ MailHeld' /\ SocketSomewhere'
        BY <1>5, <1>8, SocketsKept DEF IInv
    <2>2. \A g \in Slots : users'[g].open =>
              users[g].open /\ (Vouched(g) => Vouched(g)')
        BY <1>7, <1>8 DEF SlotsClosed, Vouched
    <2>3. NoForgottenConnection'
        BY <2>2, NoneForgotten DEF IInv
    <2>. QED BY <1>2, <1>4, <1>8, <2>1, <2>3 DEF IInv
<1>9. CASE ~users[fd].open
    <2>1. UNCHANGED slotVars
        BY <1>9 DEF HandleBusDone
    <2>2. TypeSlots' /\ SlotsClosed({}) /\ timer' = timer /\ ~users'[fd].open
        BY <1>9, <2>1 DEF slotVars, IInv, TypeSlots, SlotsClosed
    <2>. QED BY <1>8, <2>2
<1>10. CASE users[fd].open /\ Head(q).result = 1
    <2>1. Keep(fd, users[fd], TRUE, ModFd("OUT")) /\ files' = files
        BY <1>10 DEF HandleBusDone, ArmResponse
    <2>2. ConnOK(users[fd]) /\ files' \subseteq Conns \X Reqs
        BY <1>3, <2>1 DEF IInv, TypeSlots, ConnOK
    <2>3. /\ TypeSlots' /\ users'[fd] = users[fd] /\ timer'[fd] = TRUE /\ own' = own
          /\ \A g \in Slots \ {fd} : users'[g] = users[g] /\ timer'[g] = timer[g]
        BY <1>3, <2>1, <2>2, KeepFacts, RegistrationTypes DEF IInv
    <2>4. SlotsClosed({})
        BY <2>3 DEF SlotsClosed
    <2>. QED BY <1>8, <2>3, <2>4
<1>11. CASE users[fd].open /\ Head(q).result # 1
    <2>1. CloseConnections({fd})
        BY <1>11 DEF HandleBusDone
    <2>2. /\ TypeSlots' /\ SlotsClosed({fd})
          /\ \A g \in Slots \ {fd} : timer'[g] = timer[g]
        BY <1>3, <2>1, CloseFacts DEF IInv
    <2>3. ~users'[fd].open
        BY <1>3, <2>2 DEF SlotsClosed
    <2>. QED BY <1>3, <1>8, <2>2, <2>3
<1>. QED BY <1>9, <1>10, <1>11

LEMMA HandleNewConnInv == IInv /\ HandleNewConn => IInv'
<1> SUFFICES ASSUME IInv, HandleNewConn PROVE IInv'
    OBVIOUS
<1> DEFINE h == Head(q)
           fd == Head(q).fd
<1>1. NextMsg("NewConn")
    BY DEF HandleNewConn
<1>2. /\ h \in Message /\ h.type = "NewConn" /\ h \in Elements(q) /\ Held(h)
      /\ Elements(q) = {h} \cup Elements(q')
      /\ q' \in Seq(Message)
      /\ io' \in {"events", "msgs"} /\ QueueUsed'
      /\ UNCHANGED <<msgs, efd, main, tasks, wk, batch, cur, stop, cli>>
      /\ MailDistinct'
      /\ \A m \in NewConns(q') \cup NewConns(msgs') : m.fd # fd
    BY <1>1, NextMsgFacts
<1>3. fd \in Fds /\ h.conn \in Conns
    BY <1>2 DEF Message
<1>4. own[fd] = h.conn /\ (fd \in Slots => ~users[fd].open)
    BY <1>2 DEF Held
<1>5. TypeRest'
    BY <1>2 DEF IInv, TypeRest
<1>6. BusDones(q') = BusDones(q)
    BY <1>2 DEF BusDones
<1>7. \A g : InFlight(g) <=> InFlight(g)'
    BY <1>2, <1>6 DEF InFlight, Work, Busy, BusDones, Elements
<1>8. \A m \in Elements(q') \cup Elements(msgs') : m \in Message /\ Held(m)
    <2>1. \A m \in Elements(q) \cup Elements(msgs) : m \in Message /\ Held(m)
        BY DEF IInv, MailHeld, TypeRest, Elements
    <2>2. Elements(q') \subseteq Elements(q) /\ msgs' = msgs
        BY <1>2
    <2>. QED BY <2>1, <2>2
\* Both outcomes leave every other descriptor alone.
<1>9. ASSUME TypeSlots', OpenOwned', NoForgottenConnection',
             \A g \in Fds \ {fd} : own'[g] = own[g],
             \A g \in Slots \ {fd} : users'[g].open = users[g].open,
             own'[fd] = NoConn \/ (fd \in Slots /\ users'[fd].open)
      PROVE  IInv'
    <2>1. ASSUME NEW m \in Elements(q') \cup Elements(msgs') PROVE HeldNext(m)
        <3>1. m \in Message /\ Held(m)
            BY <1>8
        <3>2. CASE m.type = "NewConn"
            <4>1. m.fd \in Fds /\ m.fd # fd
                BY <1>2, <3>1, <3>2 DEF NewConns, Message
            <4>. QED BY <1>9, <3>1, <4>1 DEF Held, HeldNext
        <3>3. CASE m.type # "NewConn"
            BY <3>3 DEF HeldNext
        <3>. QED BY <3>2, <3>3
    <2>2. MailHeld'
        BY <2>1 DEF MailHeld, Held, HeldNext, Elements
    <2>3. SocketSomewhere'
        <3> SUFFICES ASSUME NEW g \in Fds, own'[g] # NoConn
                     PROVE  \/ g \in Slots /\ users'[g].open
                            \/ \E m \in NewConns(msgs') \cup NewConns(q') : m.fd = g
            BY DEF SocketSomewhere, NewConns, Elements
        <3>1. CASE g = fd
            BY <1>9, <3>1
        <3>2. CASE g # fd
            <4>1. own[g] # NoConn
                BY <1>9, <3>2
            <4>2. CASE g \in Slots /\ users[g].open
                BY <1>9, <3>2, <4>2
            <4>3. CASE \E m \in NewConns(msgs) \cup NewConns(q) : m.fd = g
                BY <1>2, <3>2, <4>3 DEF NewConns
            <4>. QED BY <4>1, <4>2, <4>3 DEF IInv, SocketSomewhere
        <3>. QED BY <3>1, <3>2
    <2>. QED BY <1>2, <1>5, <1>9, <2>2, <2>3 DEF IInv
<1>10. CASE fd \in Slots
    <2>1. Keep(fd, InitConn, TRUE, AddFd) /\ files' = files
        BY <1>10 DEF HandleNewConn
    <2>2. ConnOK(InitConn) /\ InitConn.open
        BY InitTypes DEF ConnOK
    <2>3. files' \subseteq Conns \X Reqs
        BY <2>1 DEF IInv, TypeSlots
    <2>4. /\ TypeSlots' /\ users'[fd] = InitConn /\ timer'[fd] = TRUE /\ own' = own
          /\ \A g \in Slots \ {fd} : users'[g] = users[g] /\ timer'[g] = timer[g]
        BY <1>10, <2>1, <2>2, <2>3, KeepFacts, RegistrationTypes DEF IInv
    <2>5. OpenOwned'
        BY <1>3, <1>4, <2>4 DEF IInv, OpenOwned
    <2>6. NoForgottenConnection'
        BY <1>7, <2>4 DEF IInv, NoForgottenConnection
    <2>. QED BY <1>9, <1>10, <2>2, <2>4, <2>5, <2>6
<1>11. CASE fd \notin Slots
    <2>1. own' = [own EXCEPT ![fd] = NoConn] /\ UNCHANGED <<users, timer, ep, files>>
        BY <1>11 DEF HandleNewConn, RejectConn
    <2>2. TypeSlots'
        BY <2>1 DEF IInv, TypeSlots
    <2>3. own'[fd] = NoConn /\ \A g \in Fds \ {fd} : own'[g] = own[g]
        BY <1>3, <2>1 DEF IInv, TypeSlots
    <2>4. OpenOwned'
        BY <1>11, <2>1, <2>3, SlotsAssumption DEF IInv, OpenOwned
    <2>5. NoForgottenConnection'
        BY <1>7, <2>1 DEF IInv, NoForgottenConnection
    <2>. QED BY <1>9, <1>11, <2>1, <2>2, <2>3, <2>4, <2>5
<1>. QED BY <1>10, <1>11

LEMMA DispatchInv == \A c \in Conns, fd \in Fds : IInv /\ Dispatch(c, fd) => IInv'
<1> SUFFICES ASSUME NEW c \in Conns, NEW fd \in Fds, IInv, Dispatch(c, fd)
             PROVE  IInv'
    OBVIOUS
<1> DEFINE m == [type |-> "NewConn", fd |-> fd, conn |-> c]
<1>1. /\ own[fd] = NoConn /\ own' = [own EXCEPT ![fd] = c]
      /\ cli' = [cli EXCEPT ![c].peer = "up"]
      /\ msgs' = Append(msgs, m) /\ main' = "wake"
      /\ UNCHANGED <<users, timer, ep, files, efd, q, io, batch, cur, tasks, wk, stop>>
    BY DEF Dispatch, loopVars, poolVars
<1>2. m \in Message /\ m.type = "NewConn" /\ m.fd = fd /\ m.conn = c
    BY DEF Message
<1> HIDE DEF m
<1>3. msgs \in Seq(Message)
    BY DEF IInv, TypeRest
<1>4. /\ msgs' \in Seq(Message)
      /\ DOMAIN msgs' = DOMAIN msgs \cup {Len(msgs) + 1}
      /\ \A i \in DOMAIN msgs : msgs'[i] = msgs[i] /\ i # Len(msgs) + 1
      /\ msgs'[Len(msgs) + 1] = m
      /\ Elements(msgs') = Elements(msgs) \cup {m}
    BY <1>1, <1>2, <1>3, AppendElements
<1>5. own'[fd] = c /\ \A g \in Fds \ {fd} : own'[g] = own[g]
    BY <1>1 DEF IInv, TypeSlots
<1>6. TypeSlots'
    BY <1>1 DEF IInv, TypeSlots
<1>7. cli' \in [Conns -> Client]
    BY <1>1 DEF IInv, TypeRest, Client
<1>8. TypeRest'
    BY <1>1, <1>4, <1>7 DEF IInv, TypeRest
<1>9. c # NoConn
    BY ConnsAssumption
<1>10. fd \in Slots => ~users[fd].open
    BY <1>1, ConnsAssumption DEF IInv, OpenOwned
<1>11. OpenOwned'
    BY <1>1, <1>5 DEF IInv, OpenOwned
<1>12. \A n \in Elements(q) \cup Elements(msgs) :
          n \in Message /\ Held(n) /\ (n.type = "NewConn" => n.fd # fd)
    <2> SUFFICES ASSUME NEW n \in Elements(q) \cup Elements(msgs)
                 PROVE  n \in Message /\ Held(n) /\ (n.type = "NewConn" => n.fd # fd)
        OBVIOUS
    <2>1. n \in Message /\ Held(n)
        BY DEF IInv, MailHeld, TypeRest, Elements
    <2>2. n.type = "NewConn" => n.conn \in Conns
        BY <2>1 DEF Message
    <2>. QED BY <1>1, <2>1, <2>2, ConnsAssumption DEF Held
<1>13. MailHeld'
    <2>1. ASSUME NEW n \in Elements(q) \cup Elements(msgs) PROVE HeldNext(n)
        <3>1. CASE n.type = "NewConn"
            BY <1>1, <1>5, <1>12, <3>1 DEF Held, HeldNext, Message
        <3>2. CASE n.type # "NewConn"
            BY <3>2 DEF HeldNext
        <3>. QED BY <3>1, <3>2
    <2>2. HeldNext(m)
        BY <1>1, <1>2, <1>5, <1>10 DEF HeldNext
    <2>3. \A i \in DOMAIN q' : HeldNext(q'[i])
        BY <1>1, <2>1 DEF Elements
    <2>4. \A i \in DOMAIN msgs' : HeldNext(msgs'[i])
        BY <1>4, <2>1, <2>2 DEF Elements
    <2>. QED BY <2>3, <2>4 DEF MailHeld, Held, HeldNext
<1>14. MailDistinct'
    <2>1. \A i \in DOMAIN q : ~SameNew(q[i], m)
        BY <1>2, <1>12 DEF SameNew, Elements
    <2>2. \A i \in DOMAIN msgs : ~SameNew(msgs[i], m) /\ ~SameNew(m, msgs[i])
        BY <1>2, <1>12 DEF SameNew, Elements
    <2>3. \A i, j \in DOMAIN msgs' : SameNew(msgs'[i], msgs'[j]) => i = j
        BY <1>4, <2>2 DEF IInv, MailDistinct
    <2>4. \A i \in DOMAIN q, j \in DOMAIN msgs' : ~SameNew(q[i], msgs'[j])
        BY <1>4, <2>1 DEF IInv, MailDistinct
    <2>. QED BY <1>1, <2>3, <2>4 DEF IInv, MailDistinct, SameNew
<1>15. SocketSomewhere'
    <2> SUFFICES ASSUME NEW g \in Fds, own'[g] # NoConn
                 PROVE  \/ g \in Slots /\ users'[g].open
                        \/ \E n \in NewConns(msgs') \cup NewConns(q') : n.fd = g
        BY DEF SocketSomewhere, NewConns, Elements
    <2>1. CASE g = fd
        BY <1>2, <1>4, <2>1 DEF NewConns
    <2>2. CASE g # fd
        BY <1>1, <1>4, <1>5, <2>2 DEF IInv, SocketSomewhere, NewConns
    <2>. QED BY <2>1, <2>2
<1>16. BusDones(msgs') = BusDones(msgs)
    BY <1>2, <1>4 DEF BusDones
<1>17. \A g : InFlight(g) <=> InFlight(g)'
    BY <1>1, <1>16 DEF InFlight, Work, Busy, BusDones, Elements
<1>18. NoForgottenConnection'
    BY <1>1, <1>17 DEF IInv, NoForgottenConnection
<1>19. QueueUsed'
    BY <1>1 DEF IInv, QueueUsed
<1>. QED BY <1>6, <1>8, <1>11, <1>13, <1>14, <1>15, <1>18, <1>19 DEF IInv
-----------------------------------------------------------------------------
(* The workers *)

\* InFlight, in the state after the step.
Onward(fd) == \E x \in Work' : x.fd = fd

\* No slot loses the last work under way for it.
WorkGoesOn == \A g : InFlight(g) => InFlight(g)'

\* A step of a worker loses no connection if the work it takes up or hands on
\* keeps its descriptor.
LEMMA WorkerStep ==
    ASSUME IInv, TypeSlots', TypeRest', SlotsClosed({}), MailKept, MailDistinct',
           UNCHANGED <<timer, q, io>>,
           \A x \in Work : Onward(x.fd)
    PROVE  IInv' /\ WorkGoesOn
<1>1. OpenOwned' /\ MailHeld' /\ SocketSomewhere'
    BY SocketsKept DEF IInv
<1>2. WorkGoesOn
    BY DEF WorkGoesOn, InFlight, Onward
<1>3. NoForgottenConnection'
    BY <1>2, NoneForgotten DEF IInv, SlotsClosed, Vouched, WorkGoesOn
<1>4. QueueUsed'
    BY DEF IInv, QueueUsed
<1>. QED BY <1>1, <1>2, <1>3, <1>4 DEF IInv

\* The work a worker has in hand is the only work its step may disturb.
LEMMA OtherWork ==
    ASSUME NEW w \in Workers, IInv, UNCHANGED <<tasks, q, msgs>>,
           \A v \in Workers \ {w} : wk'[v] = wk[v],
           wk[w].pc \in {"run", "push"} => Onward(wk[w].fd)
    PROVE  \A x \in Work : Onward(x.fd)
<1> SUFFICES ASSUME NEW x \in Work PROVE Onward(x.fd)
    OBVIOUS
<1>1. CASE x \in Elements(tasks) \cup BusDones(msgs) \cup BusDones(q)
    BY <1>1 DEF Onward, Work, BusDones, Elements
<1>2. CASE \E v \in Busy : x = wk[v]
    <2>1. PICK v \in Busy : x = wk[v]
        BY <1>2
    <2>2. CASE v = w
        BY <2>1, <2>2 DEF Busy
    <2>3. CASE v # w
        BY <2>1, <2>3 DEF Busy, Onward, Work
    <2>. QED BY <2>2, <2>3
<1>. QED BY <1>1, <1>2 DEF Work

LEMMA TaskStartInv == \A w \in Workers : IInv /\ TaskStart(w) => IInv' /\ WorkGoesOn
<1> SUFFICES ASSUME NEW w \in Workers, IInv, TaskStart(w) PROVE IInv' /\ WorkGoesOn
    OBVIOUS
<1> DEFINE t == Head(tasks)
           s == wk'[w]
<1>1. /\ UNCHANGED <<users, timer, ep, own, files, msgs, efd, main, q, io, batch,
                     cur, stop, cli>>
      /\ wk[w].pc = "idle" /\ tasks # <<>> /\ tasks' = Tail(tasks)
    BY DEF TaskStart, slotVars, mailVars, loopVars
<1>2. tasks \in Seq(Task) /\ wk \in [Workers -> WorkerState]
    BY DEF IInv, TypeRest
<1>3. t \in Task /\ tasks' \in Seq(Task) /\ Elements(tasks) = {t} \cup Elements(tasks')
    BY <1>1, <1>2, TailElements
<1>4. t.fd \in Slots /\ t.conn \in Conns
    BY <1>3 DEF Task
<1>5. /\ s = IF users[t.fd].open
             THEN [pc |-> "run", fd |-> t.fd, conn |-> t.conn,
                   code |-> users[t.fd].code]
             ELSE [pc |-> "push", fd |-> t.fd, conn |-> t.conn, result |-> 2]
      /\ \A v \in Workers \ {w} : wk'[v] = wk[v]
      /\ wk' = [wk EXCEPT ![w] = s]
    BY <1>2 DEF TaskStart
<1>6. users[t.fd].code \in Codes \cup {"NoRequest"}
    BY <1>4 DEF IInv, TypeSlots, Conn
<1>7. s \in WorkerState /\ s.pc \in {"run", "push"} /\ s.fd = t.fd
    BY <1>4, <1>5, <1>6 DEF WorkerState
<1> HIDE DEF s, t
<1>8. wk' \in [Workers -> WorkerState]
    BY <1>2, <1>5, <1>7
<1>9. TypeSlots' /\ SlotsClosed({})
    BY <1>1 DEF IInv, TypeSlots, SlotsClosed
<1>10. TypeRest'
    BY <1>1, <1>3, <1>8 DEF IInv, TypeRest
<1>11. MailKept /\ MailDistinct'
    BY <1>1, MailSame DEF IInv
<1>12. Onward(t.fd)
    BY <1>7 DEF s, Onward, Work, Busy
<1>13. ASSUME NEW x \in Work PROVE Onward(x.fd)
    <2>1. CASE x \in Elements(tasks)
        BY <1>3, <1>12, <2>1 DEF Onward, Work, Elements
    <2>2. CASE x \in BusDones(msgs) \cup BusDones(q)
        BY <1>1, <2>2 DEF Onward, Work, BusDones, Elements
    <2>3. CASE \E v \in Busy : x = wk[v]
        BY <1>1, <1>5, <2>3 DEF Busy, Onward, Work
    <2>. QED BY <2>1, <2>2, <2>3 DEF Work
<1>. QED BY <1>1, <1>9, <1>10, <1>11, <1>13, WorkerStep

LEMMA PushNextFacts ==
    ASSUME IInv, NEW w \in Workers, NEW r \in {1, 2}, wk[w].pc = "run", PushNext(w, r)
    PROVE  /\ wk' \in [Workers -> WorkerState]
           /\ wk'[w].pc = "push" /\ wk'[w].fd = wk[w].fd
           /\ \A v \in Workers \ {w} : wk'[v] = wk[v]
<1> DEFINE s == [pc |-> "push", fd |-> wk[w].fd, conn |-> wk[w].conn, result |-> r]
<1>1. wk \in [Workers -> WorkerState]
    BY DEF IInv, TypeRest
<1>2. wk[w].fd \in Slots /\ wk[w].conn \in Conns
    BY <1>1 DEF WorkerState
<1>3. s \in WorkerState /\ s.pc = "push" /\ s.fd = wk[w].fd
    BY <1>2 DEF WorkerState
<1>4. wk' = [wk EXCEPT ![w] = s]
    BY DEF PushNext
<1> HIDE DEF s
<1>. QED BY <1>1, <1>3, <1>4

LEMMA TaskThrowInv == \A w \in Workers : IInv /\ TaskThrow(w) => IInv' /\ WorkGoesOn
<1> SUFFICES ASSUME NEW w \in Workers, IInv, TaskThrow(w) PROVE IInv' /\ WorkGoesOn
    OBVIOUS
<1>1. /\ UNCHANGED <<users, timer, ep, own, files, msgs, efd, main, q, io, batch,
                     cur, stop, cli, tasks>>
      /\ wk[w].pc = "run" /\ PushNext(w, 2)
    BY DEF TaskThrow, slotVars, mailVars, loopVars
<1>2. /\ wk' \in [Workers -> WorkerState]
      /\ wk'[w].pc = "push" /\ wk'[w].fd = wk[w].fd
      /\ \A v \in Workers \ {w} : wk'[v] = wk[v]
    BY <1>1, PushNextFacts
<1>3. TypeSlots' /\ SlotsClosed({})
    BY <1>1 DEF IInv, TypeSlots, SlotsClosed
<1>4. TypeRest'
    BY <1>1, <1>2 DEF IInv, TypeRest
<1>5. MailKept /\ MailDistinct'
    BY <1>1, MailSame DEF IInv
<1>6. Onward(wk[w].fd)
    BY <1>2 DEF Onward, Work, Busy
<1>7. \A x \in Work : Onward(x.fd)
    BY <1>1, <1>2, <1>6, OtherWork
<1>. QED BY <1>1, <1>3, <1>4, <1>5, <1>7, WorkerStep

LEMMA WriteTypes ==
    ASSUME NEW u, ConnOK(u), NEW code \in Codes \cup {"NoRequest"}
    PROVE  ConnOK(ProcessWrite(u, code)) /\ ProcessWrite(u, code).open = u.open
<1> DEFINE r == IF code = "NoRequest" THEN NoResponse ELSE [code |-> code, req |-> u.url]
           l == u.linger /\ code \notin {"BadRequest", "ForbiddenRequest"}
<1>1. r \in [code : Codes \cup {"NoRequest"}, req : Reqs \cup {0}]
    BY DEF NoResponse, ConnOK, Conn
<1>2. l \in BOOLEAN
    BY DEF ConnOK, Conn
<1>3. ProcessWrite(u, code) = [u EXCEPT !.resp = r, !.off = 0, !.linger = l]
    BY DEF ProcessWrite
<1> HIDE DEF r, l
<1> DEFINE v == [u EXCEPT !.resp = r, !.off = 0, !.linger = l]
<1>4. v \in Conn /\ v.open = u.open /\ v.chk = u.chk /\ v.url = u.url
    BY <1>1, <1>2 DEF ConnOK, Conn
<1> HIDE DEF v
<1>. QED BY <1>3, <1>4 DEF ConnOK, v

LEMMA TaskFinishInv == \A w \in Workers : IInv /\ TaskFinish(w) => IInv' /\ WorkGoesOn
<1> SUFFICES ASSUME NEW w \in Workers, IInv, TaskFinish(w) PROVE IInv' /\ WorkGoesOn
    OBVIOUS
<1> DEFINE fd == wk[w].fd
           v == ProcessWrite(users[fd], wk[w].code)
<1>1. /\ UNCHANGED <<timer, ep, own, files, msgs, efd, main, q, io, batch,
                     cur, stop, cli, tasks>>
      /\ wk[w].pc = "run" /\ PushNext(w, IF wk[w].code = "NoRequest" THEN 2 ELSE 1)
      /\ users' = [users EXCEPT ![fd] = v]
    BY DEF TaskFinish, mailVars, loopVars
<1>2. fd \in Slots /\ wk[w].code \in Codes \cup {"NoRequest"}
    BY <1>1 DEF IInv, TypeRest, WorkerState
<1>3. ConnOK(users[fd])
    BY <1>2 DEF IInv, TypeSlots, ConnOK
<1>4. ConnOK(v) /\ v.open = users[fd].open
    BY <1>2, <1>3, WriteTypes
<1> HIDE DEF v, fd
<1>5. /\ wk' \in [Workers -> WorkerState]
      /\ wk'[w].pc = "push" /\ wk'[w].fd = wk[w].fd
      /\ \A x \in Workers \ {w} : wk'[x] = wk[x]
    BY <1>1, PushNextFacts
<1>6. /\ users' \in [Slots -> Conn]
      /\ \A g \in Slots : users'[g].chk = "HEADER" => users'[g].url \in Reqs
      /\ \A g \in Slots : users'[g].open <=> users[g].open
    BY <1>1, <1>2, <1>4 DEF IInv, TypeSlots, ConnOK
<1>7. TypeSlots' /\ SlotsClosed({})
    BY <1>1, <1>6 DEF IInv, TypeSlots, SlotsClosed
<1>8. TypeRest'
    BY <1>1, <1>5 DEF IInv, TypeRest
<1>9. MailKept /\ MailDistinct'
    BY <1>1, MailSame DEF IInv
<1>10. Onward(wk[w].fd)
    BY <1>5 DEF Onward, Work, Busy
<1>11. \A x \in Work : Onward(x.fd)
    BY <1>1, <1>5, <1>10, OtherWork
<1>. QED BY <1>1, <1>7, <1>8, <1>9, <1>11, WorkerStep

LEMMA NotifyWakeInv == \A w \in Workers : IInv /\ NotifyWake(w) => IInv' /\ WorkGoesOn
<1> SUFFICES ASSUME NEW w \in Workers, IInv, NotifyWake(w) PROVE IInv' /\ WorkGoesOn
    OBVIOUS
<1>1. /\ UNCHANGED <<users, timer, ep, own, files, msgs, main, q, io, batch,
                     cur, stop, cli, tasks>>
      /\ wk[w].pc = "wake" /\ efd' = TRUE
      /\ wk' = [wk EXCEPT ![w] = Idle]
    BY DEF NotifyWake, slotVars, loopVars
<1>2. Idle \in WorkerState
    BY DEF Idle, WorkerState
<1>3. wk' \in [Workers -> WorkerState] /\ \A v \in Workers \ {w} : wk'[v] = wk[v]
    BY <1>1, <1>2 DEF IInv, TypeRest
<1>4. TypeSlots' /\ SlotsClosed({})
    BY <1>1 DEF IInv, TypeSlots, SlotsClosed
<1>5. TypeRest'
    BY <1>1, <1>3 DEF IInv, TypeRest
<1>6. MailKept /\ MailDistinct'
    BY <1>1, MailSame DEF IInv
<1>7. \A x \in Work : Onward(x.fd)
    BY <1>1, <1>3, OtherWork
<1>. QED BY <1>1, <1>4, <1>5, <1>6, <1>7, WorkerStep

LEMMA NotifyPushInv == \A w \in Workers : IInv /\ NotifyPush(w) => IInv' /\ WorkGoesOn
<1> SUFFICES ASSUME NEW w \in Workers, IInv, NotifyPush(w) PROVE IInv' /\ WorkGoesOn
    OBVIOUS
<1> DEFINE m == [type |-> "BusDone", fd |-> wk[w].fd, conn |-> wk[w].conn,
                 result |-> wk[w].result]
           s == [pc |-> "wake"]
<1>1. /\ UNCHANGED <<users, timer, ep, own, files, efd, main, q, io, batch,
                     cur, stop, cli, tasks>>
      /\ wk[w].pc = "push" /\ msgs' = Append(msgs, m)
      /\ wk' = [wk EXCEPT ![w] = s]
    BY DEF NotifyPush, slotVars, loopVars
<1>2. /\ wk[w].fd \in Slots /\ wk[w].conn \in Conns /\ wk[w].result \in {1, 2}
    BY <1>1 DEF IInv, TypeRest, WorkerState
<1>3. m \in Message /\ m.type = "BusDone" /\ m.fd = wk[w].fd
    BY <1>2 DEF Message
<1>4. s \in WorkerState
    BY DEF WorkerState
<1> HIDE DEF m, s
<1>5. wk' \in [Workers -> WorkerState] /\ \A v \in Workers \ {w} : wk'[v] = wk[v]
    BY <1>1, <1>4 DEF IInv, TypeRest
<1>6. msgs \in Seq(Message)
    BY DEF IInv, TypeRest
<1>7. /\ msgs' \in Seq(Message)
      /\ DOMAIN msgs' = DOMAIN msgs \cup {Len(msgs) + 1}
      /\ \A i \in DOMAIN msgs : msgs'[i] = msgs[i]
      /\ msgs'[Len(msgs) + 1] = m
      /\ Elements(msgs') = Elements(msgs) \cup {m}
    BY <1>1, <1>3, <1>6, AppendElements
<1>8. TypeSlots' /\ SlotsClosed({})
    BY <1>1 DEF IInv, TypeSlots, SlotsClosed
<1>9. TypeRest'
    BY <1>1, <1>5, <1>7 DEF IInv, TypeRest
<1>10. MailHeld'
    <2>1. HeldNext(m)
        BY <1>3 DEF HeldNext
    <2>2. \A n \in Elements(q) \cup Elements(msgs) : HeldNext(n)
        BY <1>1 DEF IInv, MailHeld, Held, HeldNext, Elements
    <2>3. /\ \A i \in DOMAIN q' : HeldNext(q'[i])
          /\ \A i \in DOMAIN msgs' : HeldNext(msgs'[i])
        BY <1>1, <1>7, <2>1, <2>2 DEF Elements
    <2>. QED BY <2>3 DEF MailHeld, Held, HeldNext
<1>11. MailDistinct'
    <2>1. \A i, j \in DOMAIN msgs' : SameNew(msgs'[i], msgs'[j]) => i = j
        BY <1>3, <1>7 DEF IInv, MailDistinct, SameNew
    <2>2. \A i \in DOMAIN q, j \in DOMAIN msgs' : ~SameNew(q[i], msgs'[j])
        BY <1>3, <1>7 DEF IInv, MailDistinct, SameNew
    <2>. QED BY <1>1, <2>1, <2>2 DEF IInv, MailDistinct, SameNew
<1>12. OpenOwned' /\ QueueUsed'
    BY <1>1 DEF IInv, OpenOwned, QueueUsed
<1>13. SocketSomewhere'
    BY <1>1, <1>7 DEF IInv, SocketSomewhere, NewConns, Elements
<1>14. Onward(wk[w].fd)
    BY <1>3, <1>7 DEF Onward, Work, BusDones
<1>15. ASSUME NEW x \in Work PROVE Onward(x.fd)
    <2>1. CASE x \in Elements(tasks) \cup BusDones(q)
        BY <1>1, <2>1 DEF Onward, Work, BusDones, Elements
    <2>2. CASE x \in BusDones(msgs)
        BY <1>7, <2>2 DEF Onward, Work, BusDones
    <2>3. CASE \E y \in Busy : x = wk[y]
        BY <1>5, <1>14, <2>3 DEF Busy, Onward, Work
    <2>. QED BY <2>1, <2>2, <2>3 DEF Work
<1>16. WorkGoesOn
    BY <1>15 DEF WorkGoesOn, InFlight, Onward
<1>17. NoForgottenConnection'
    BY <1>1, <1>16 DEF IInv, NoForgottenConnection, WorkGoesOn
<1>. QED BY <1>8, <1>9, <1>10, <1>11, <1>12, <1>13, <1>16, <1>17 DEF IInv
-----------------------------------------------------------------------------
(* The inductive invariant *)

LEMMA InitInv == Init => IInv
<1> SUFFICES ASSUME Init PROVE IInv
    OBVIOUS
<1>1. TypeSlots
    BY InitTypes, RegistrationTypes DEF Init, TypeSlots
<1>2. Idle \in WorkerState
    BY DEF Idle, WorkerState
<1>3. cli \in [Conns -> Client]
    <2>1. 0 \in Pieces
        BY AnswerFacts DEF Pieces
    <2>2. <<>> \in Seq([code : Codes \cup {"NoRequest"}, req : Reqs \cup {0}])
        OBVIOUS
    <2>. QED BY <2>1, <2>2 DEF Init, Client
<1>4. TypeRest
    <2>1. <<>> \in Seq(Message) /\ <<>> \in Seq(Task)
        OBVIOUS
    <2>2. wk \in [Workers -> WorkerState]
        BY <1>2 DEF Init
    <2>3. /\ msgs = <<>> /\ q = <<>> /\ tasks = <<>> /\ efd = FALSE /\ stop = FALSE
          /\ io = "events" /\ main = "idle" /\ batch = {} /\ cur = NoEvent
        BY DEF Init
    <2>. QED BY <1>3, <2>1, <2>2, <2>3 DEF TypeRest
<1>5. Elements(q) = {} /\ Elements(msgs) = {} /\ DOMAIN q = {} /\ DOMAIN msgs = {}
    BY EmptyElements DEF Init
<1>6. \A fd \in Slots : ~users[fd].open
    BY InitTypes DEF Init
<1>7. OpenOwned /\ NoForgottenConnection
    BY <1>6 DEF OpenOwned, NoForgottenConnection
<1>8. MailHeld /\ MailDistinct
    BY <1>5 DEF MailHeld, MailDistinct
<1>9. QueueUsed /\ SocketSomewhere
    BY DEF Init, QueueUsed, SocketSomewhere
<1>. QED BY <1>1, <1>4, <1>7, <1>8, <1>9 DEF IInv

LEMMA NextInv == IInv /\ [Next]_vars => IInv'
<1> SUFFICES ASSUME IInv, [Next]_vars PROVE IInv'
    OBVIOUS
<1>1. CASE IoThread
    BY <1>1, LoopHeadInv, EpollWaitInv, DrainEventFdInv, SwapMsgsInv,
       HandleNewConnInv, HandleBusDoneInv, HandleTimeoutInv, TakeClientEventInv,
       DealReadInv, DealWriteInv, DealHupInv DEF IoThread
<1>2. CASE \E w \in Workers : Worker(w)
    BY <1>2, TaskStartInv, TaskFinishInv, TaskThrowInv, NotifyPushInv,
       NotifyWakeInv DEF Worker
<1>3. CASE \E c \in Conns, fd \in Fds : Dispatch(c, fd)
    BY <1>3, DispatchInv
<1>4. CASE Stop \/ MainWake
    BY <1>4, StopInv
<1>5. CASE Clients
    BY <1>5, ClientsInv
<1>6. CASE UNCHANGED vars
    <2>1. UNCHANGED <<users, timer, ep, own, files, msgs, efd, main, q, io, batch,
                      cur, stop, cli, tasks, wk>>
        BY <1>6 DEF vars
    <2>2. TypeSlots'
        BY <2>1 DEF IInv, TypeSlots
    <2>3. TypeRest'
        BY <2>1 DEF IInv, TypeRest
    <2>4. QueueUsed'
        BY <2>1 DEF IInv, QueueUsed
    <2>. QED BY <2>1, <2>2, <2>3, <2>4, QuietStep
<1>. QED BY <1>1, <1>2, <1>3, <1>4, <1>5, <1>6 DEF Next, Terminated

THEOREM Inductive == Spec => []IInv
BY InitInv, NextInv, PTL DEF Spec

\* Every variable keeps its type, however many descriptors, connections,
\* workers and requests there are (SubReactor, ThreadPool and http_conn state).
THEOREM TypeCorrect == Spec => []TypeOK
<1>1. IInv => TypeOK
    BY DEF IInv, TypeSlots, TypeRest, TypeOK
<1>. QED BY <1>1, Inductive, PTL

\* No handler of the I/O thread and no worker ever leaves an open connection
\* without a live timer and without work under way (sub_reactor.cpp:202, 254, 314).
THEOREM Remembered == Spec => []NoForgottenConnection
<1>1. IInv => NoForgottenConnection
    BY DEF IInv
<1>. QED BY <1>1, Inductive, PTL

\* A socket handed to dispatch_new_conn is in one NewConn message or in its
\* slot, never in both and never in neither.
THEOREM SocketAccounted == Spec => []SocketHeldOnce
<1>1. ASSUME IInv PROVE SocketHeldOnce
    <2> SUFFICES ASSUME NEW fd \in Fds
                 PROVE  /\ own[fd] # NoConn => (fd \in Slots /\ users[fd].open)
                                               # (Arriving(fd) # {})
                        /\ own[fd] = NoConn => Arriving(fd) = {}
                                               /\ (fd \in Slots => ~users[fd].open)
        BY DEF SocketHeldOnce
    <2>1. ASSUME NEW m \in Arriving(fd)
          PROVE  own[fd] # NoConn /\ (fd \in Slots => ~users[fd].open)
        <3>1. m \in Elements(msgs) \cup Elements(q) /\ m.type = "NewConn" /\ m.fd = fd
            BY DEF Arriving, NewConns
        <3>2. m \in Message /\ Held(m)
            BY <1>1, <3>1 DEF IInv, TypeRest, MailHeld, Elements
        <3>3. m.conn \in Conns
            BY <3>1, <3>2 DEF Message
        <3>. QED BY <3>1, <3>2, <3>3, ConnsAssumption DEF Held
    <2>2. own[fd] = NoConn => (fd \in Slots => ~users[fd].open)
        BY <1>1, ConnsAssumption DEF IInv, OpenOwned
    <2>3. own[fd] # NoConn => (fd \in Slots /\ users[fd].open) \/ Arriving(fd) # {}
        BY <1>1 DEF IInv, SocketSomewhere, Arriving
    <2>4. (fd \in Slots /\ users[fd].open) \in BOOLEAN
        BY <1>1 DEF IInv, TypeSlots, Conn
    <2>. QED BY <2>1, <2>2, <2>3, <2>4
<1>. QED BY <1>1, Inductive, PTL
-----------------------------------------------------------------------------
(* Wakeups *)

\* Most steps signal nothing, push nothing and start no sleep.
LEMMA SilentStep ==
    ASSUME WakeInv, UNCHANGED <<msgs, efd, main, wk, stop>>,
           io' = io \/ (io # "swap" /\ io' # "wait")
    PROVE  WakeInv'
BY DEF WakeInv, Waking

LEMMA IoThreadWake == WakeInv /\ IoThread => WakeInv'
<1> SUFFICES ASSUME WakeInv, IoThread PROVE WakeInv'
    OBVIOUS
<1> USE DEF mailVars, poolVars
<1>1. CASE LoopHead
    BY <1>1 DEF LoopHead, AtEvents, WakeInv, Waking
<1>2. CASE DrainEventFd
    BY <1>2 DEF DrainEventFd, WakeInv
<1>3. CASE SwapMsgs
    BY <1>3 DEF SwapMsgs, AfterQueue, WakeInv
<1>4. CASE EpollWait
    BY <1>4, SilentStep DEF EpollWait
<1>5. CASE HandleNewConn
    BY <1>5, SilentStep DEF HandleNewConn, NextMsg, AfterQueue
<1>6. CASE HandleBusDone
    BY <1>6, SilentStep DEF HandleBusDone, NextMsg, AfterQueue
<1>7. CASE HandleTimeout
    BY <1>7, SilentStep DEF HandleTimeout
<1>8. CASE TakeClientEvent
    BY <1>8, SilentStep DEF TakeClientEvent
<1>9. CASE DealRead
    BY <1>9, SilentStep DEF DealRead, Handled
<1>10. CASE DealWrite
    BY <1>10, SilentStep DEF DealWrite, Handled
<1>11. CASE DealHup
    BY <1>11, SilentStep DEF DealHup, Handled
<1>. QED BY <1>1, <1>2, <1>3, <1>4, <1>5, <1>6, <1>7, <1>8, <1>9, <1>10, <1>11 DEF IoThread

LEMMA WorkerWake == \A w \in Workers : IInv /\ WakeInv /\ Worker(w) => WakeInv'
<1> SUFFICES ASSUME NEW w \in Workers, IInv, WakeInv, Worker(w) PROVE WakeInv'
    OBVIOUS
<1> USE DEF mailVars, loopVars
<1>1. wk \in [Workers -> WorkerState]
    BY DEF IInv, TypeRest
\* Starting or finishing a task is no wakeup that another thread owes.
<1>2. ASSUME UNCHANGED <<msgs, efd, main, io, stop>>, wk[w].pc # "wake",
             NEW s, wk' = [wk EXCEPT ![w] = s]
      PROVE  WakeInv'
    <2>1. \A v \in Workers : wk[v].pc = "wake" => wk'[v].pc = "wake"
        BY <1>1, <1>2
    <2>. QED BY <1>2, <2>1 DEF WakeInv, Waking
<1>3. CASE TaskStart(w)
    BY <1>2, <1>3 DEF TaskStart
<1>4. CASE TaskFinish(w)
    BY <1>2, <1>4 DEF TaskFinish, PushNext
<1>5. CASE TaskThrow(w)
    BY <1>2, <1>5 DEF TaskThrow, PushNext
<1>6. CASE NotifyPush(w)
    <2>1. wk'[w].pc = "wake"
        BY <1>1, <1>6 DEF NotifyPush
    <2>. QED BY <2>1 DEF WakeInv, Waking
<1>7. CASE NotifyWake(w)
    BY <1>7 DEF NotifyWake, WakeInv, Waking
<1>. QED BY <1>3, <1>4, <1>5, <1>6, <1>7 DEF Worker

LEMMA NextWake == IInv /\ WakeInv /\ [Next]_vars => WakeInv'
<1> SUFFICES ASSUME IInv, WakeInv, [Next]_vars PROVE WakeInv'
    OBVIOUS
<1>1. CASE IoThread
    BY <1>1, IoThreadWake
<1>2. CASE \E w \in Workers : Worker(w)
    BY <1>2, WorkerWake
<1>3. CASE \E c \in Conns, fd \in Fds : Dispatch(c, fd)
    BY <1>3 DEF Dispatch, WakeInv, Waking
<1>4. CASE Stop
    BY <1>4 DEF Stop, WakeInv, Waking
<1>5. CASE MainWake
    BY <1>5 DEF MainWake, WakeInv, Waking
<1>6. CASE Clients
    <2>1. UNCHANGED <<msgs, efd, main, wk, stop, io>>
        BY <1>6 DEF Clients, ClientSend, ClientRead, ClientLeave, OthersUnchanged,
                    mailVars, poolVars, loopVars
    <2>. QED BY <2>1, SilentStep
<1>7. CASE UNCHANGED vars
    BY <1>7, SilentStep DEF vars
<1>. QED BY <1>1, <1>2, <1>3, <1>4, <1>5, <1>6, <1>7 DEF Next, Terminated

\* A push to the mailbox and stop() are both followed by wakeup(), and the
\* eventfd is drained only by the thread that empties the mailbox next, so it
\* never sleeps on a message or on m_stop (sub_reactor.cpp:60-81, 335-343).
THEOREM NeverAsleep == Spec => []NoLostWakeup
<1>1. Init => WakeInv
    BY DEF Init, WakeInv
<1>2. WakeInv => NoLostWakeup
    BY DEF WakeInv, Waking, NoLostWakeup
<1>. QED BY <1>1, <1>2, NextWake, Inductive, PTL DEF Spec
-----------------------------------------------------------------------------
(* The epoll registrations: they are never out of step with the table and  *)
(* never wait for an edge that will not come, whatever the clients do.     *)

\* A connection has one descriptor, and is no longer waiting to be accepted.
OwnedOnce ==
    /\ \A fd, g \in Fds : own[fd] = own[g] /\ own[fd] # NoConn => fd = g
    /\ \A fd \in Fds : own[fd] # NoConn => cli[own[fd]].peer # "new"

\* epoll_wait is called with every event it returned before handled.
NothingAtHand == io = "wait" => batch = {} /\ cur = NoEvent

\* The three tables agree on slot fd, and only addfd() asks for EPOLLONESHOT.
Registered(fd) ==
    /\ users[fd].open <=> ep[fd].mask # "none"
    /\ timer[fd] => users[fd].open
    /\ ep[fd].oneshot => ep[fd].mask \in {"IN", "off"}

\* An event about fd with flag f set is at hand.
Coming(fd, f) == \E e \in batch \cup {cur} : e.src = fd /\ f \in e.ev
AnyComing(fd) == \E f \in {"IN", "OUT", "HUP"} : Coming(fd, f)

\* A disabled slot will be read from or is being worked on; an armed one that
\* is ready has its edge or an event with a flag some handler looks at.
Attended(fd) ==
    /\ ep[fd].mask = "off" => InFlight(fd) \/ Coming(fd, "IN")
    /\ Listening(fd) /\ Flags(fd) # {} =>
          ep[fd].edge \/ InFlight(fd) \/ AnyComing(fd)

EInv == /\ OwnedOnce /\ NothingAtHand
        /\ \A fd \in Slots : Registered(fd) /\ Attended(fd)

\* The state every handler leaves its own slot in.
Settled(fd) == \/ ep[fd].mask = "none"
               \/ Listening(fd) /\ ep[fd].edge
               \/ InFlight(fd)

\* The step does not concern slot fd.
Untouched(fd) ==
    /\ ep'[fd] = ep[fd] /\ own'[fd] = own[fd] /\ timer'[fd] = timer[fd]
    /\ users'[fd].open = users[fd].open /\ users'[fd].rd = users[fd].rd
    /\ users[fd].open => /\ cli'[own[fd]].sent = cli[own[fd]].sent
                         /\ cli'[own[fd]].peer = cli[own[fd]].peer
                         /\ cli'[own[fd]].full = cli[own[fd]].full
    /\ InFlight(fd) => InFlight(fd)'
    /\ \A f : Coming(fd, f) => Coming(fd, f)'
-----------------------------------------------------------------------------
(* Slots *)

LEMMA SettledAttended == \A fd \in Slots : Settled(fd) => Attended(fd)
BY DEF Settled, Attended, Listening

LEMMA UntouchedKept ==
    ASSUME NEW fd \in Slots, Registered(fd), Attended(fd), Untouched(fd)
    PROVE  Registered(fd)' /\ Attended(fd)'
<1>1. Registered(fd)'
    BY DEF Registered, Untouched
<1>2. Listening(fd)' <=> Listening(fd)
    BY DEF Listening, Untouched
<1>3. ASSUME users[fd].open PROVE Flags(fd)' = Flags(fd)
    BY <1>3 DEF Untouched, Flags, Unread
<1>4. Listening(fd) => users[fd].open
    BY DEF Registered, Listening
<1>5. AnyComing(fd) => AnyComing(fd)'
    BY DEF Untouched, AnyComing
<1>6. Attended(fd)'
    BY <1>2, <1>3, <1>4, <1>5 DEF Attended, Untouched
<1>. QED BY <1>1, <1>6

\* The step of a handler: some slots are settled, the others left alone.
LEMMA SlotsKept ==
    ASSUME EInv,
           \A fd \in Slots : (Registered(fd)' /\ Settled(fd)') \/ Untouched(fd)
    PROVE  \A fd \in Slots : Registered(fd)' /\ Attended(fd)'
<1> SUFFICES ASSUME NEW fd \in Slots PROVE Registered(fd)' /\ Attended(fd)'
    OBVIOUS
<1>1. CASE Registered(fd)' /\ Settled(fd)'
    BY <1>1 DEF Settled, Attended, Listening
<1>2. CASE Untouched(fd)
    BY <1>2, UntouchedKept DEF EInv
<1>. QED BY <1>1, <1>2

\* Sockets are closed, and clients do not become new.
LEMMA OwnersKept ==
    ASSUME OwnedOnce, \A fd \in Fds : own'[fd] \in {own[fd], NoConn},
           \A fd \in Fds : own[fd] # NoConn =>
               (cli'[own[fd]].peer = "new" => cli[own[fd]].peer = "new")
    PROVE  OwnedOnce'
BY DEF OwnedOnce

\* The registration of a slot in use.
InUse(e) == e.mask \in {"off", "IN", "OUT"} /\ (e.oneshot => e.mask \in {"IN", "off"})
Armed(e) == e.mask \in {"IN", "OUT"} /\ e.edge

LEMMA InUseFacts ==
    /\ InUse(ModFd("IN")) /\ InUse(ModFd("OUT")) /\ InUse(AddFd)
    /\ Armed(ModFd("IN")) /\ Armed(ModFd("OUT")) /\ Armed(AddFd)
BY DEF InUse, Armed, ModFd, AddFd

LEMMA KeepEpoll ==
    ASSUME IInv, EInv, NEW fd \in Slots, NEW u, NEW t, NEW e,
           u.open, InUse(e), Keep(fd, u, t, e)
    PROVE  /\ Registered(fd)' /\ ep'[fd] = e
           /\ \A g \in Slots \ {fd} : /\ ep'[g] = ep[g] /\ timer'[g] = timer[g]
                                      /\ users'[g] = users[g]
           /\ own' = own
<1>1. /\ users' = [users EXCEPT ![fd] = u]
      /\ timer' = [timer EXCEPT ![fd] = t]
      /\ ep' = [ep EXCEPT ![fd] = e]
      /\ own' = own
    BY DEF Keep
<1>2. users'[fd] = u /\ timer'[fd] = t /\ ep'[fd] = e
    BY <1>1 DEF IInv, TypeSlots
<1>3. \A g \in Slots \ {fd} : /\ ep'[g] = ep[g] /\ timer'[g] = timer[g]
                              /\ users'[g] = users[g]
    BY <1>1 DEF IInv, TypeSlots
<1>4. Registered(fd)'
    BY <1>2 DEF Registered, InUse
<1>. QED BY <1>1, <1>2, <1>3, <1>4

LEMMA CloseEpoll ==
    ASSUME IInv, NEW S \in SUBSET Slots, CloseConnections(S)
    PROVE  /\ \A fd \in S : Registered(fd)' /\ Settled(fd)'
           /\ \A g \in Slots \ S : /\ ep'[g] = ep[g] /\ timer'[g] = timer[g]
                                   /\ users'[g] = users[g] /\ own'[g] = own[g]
           /\ \A g \in Fds : own'[g] \in {own[g], NoConn}
<1>1. /\ users' = [fd \in Slots |-> IF fd \in S THEN InitState ELSE users[fd]]
      /\ timer' = [fd \in Slots |-> timer[fd] /\ fd \notin S]
      /\ ep' = [fd \in Slots |-> IF fd \in S THEN NotRegistered ELSE ep[fd]]
      /\ own' = [fd \in Fds |-> IF fd \in S /\ users[fd].open
                                THEN NoConn ELSE own[fd]]
    BY DEF CloseConnections, Invalidate
<1>2. ASSUME NEW fd \in S PROVE Registered(fd)' /\ Settled(fd)'
    <2>1. users'[fd] = InitState /\ ~timer'[fd] /\ ep'[fd] = NotRegistered
        BY <1>1
    <2>2. ~InitState.open /\ NotRegistered.mask = "none" /\ ~NotRegistered.oneshot
        BY InitTypes DEF NotRegistered
    <2>. QED BY <2>1, <2>2 DEF Registered, Settled
<1>3. \A g \in Slots \ S : /\ ep'[g] = ep[g] /\ timer'[g] = timer[g]
                           /\ users'[g] = users[g] /\ own'[g] = own[g]
    BY <1>1, SlotsAssumption DEF IInv, TypeSlots
<1>4. \A g \in Fds : own'[g] \in {own[g], NoConn}
    BY <1>1
<1>. QED BY <1>2, <1>3, <1>4
-----------------------------------------------------------------------------
(* Handlers of events on descriptors *)

LEMMA TasksGoOn ==
    ASSUME UNCHANGED <<q, msgs, wk>>, Elements(tasks) \subseteq Elements(tasks')
    PROVE  WorkGoesOn
<1>1. Work \subseteq Work'
    BY DEF Work, Busy, BusDones, Elements
<1>. QED BY <1>1 DEF WorkGoesOn, InFlight

\* prepare_io_read() and what follows it register EPOLLIN again or submit.
LEMMA SubmitEpoll ==
    ASSUME IInv, EInv, NEW fd \in Slots, own[fd] \in Conns, users[fd].open,
           NEW u, ConnOK(u), u.open, SubmitOrWait(fd, u), UNCHANGED <<q, msgs, wk>>
    PROVE  /\ Registered(fd)' /\ Settled(fd)'
           /\ \A g \in Slots \ {fd} : /\ ep'[g] = ep[g] /\ timer'[g] = timer[g]
                                      /\ users'[g] = users[g]
           /\ own' = own /\ WorkGoesOn
<1> DEFINE r == ProcessRead(fd, u)
           v == [r.u EXCEPT !.code = r.ret]
           task == [fd |-> fd, conn |-> own[fd]]
<1>1. ParseOK(u, r)
    BY ProcessReadTypes
<1>2. IF r.ret = "NoRequest" THEN AwaitInput(fd, r.u) ELSE SubmitTask(fd, v)
    BY DEF SubmitOrWait
<1> HIDE DEF r
<1>3. r.u.open /\ v.open
    BY <1>1 DEF ParseOK, ConnOK, Conn
<1> HIDE DEF v, task
<1>4. InUse(ep[fd])
    BY DEF InUse, IInv, TypeSlots, Registration, EInv, Registered
<1>5. CASE r.ret = "NoRequest"
    <2>1. Keep(fd, r.u, TRUE, ModFd("IN")) /\ tasks' = tasks
        BY <1>2, <1>5 DEF AwaitInput
    <2>2. /\ Registered(fd)' /\ ep'[fd] = ModFd("IN") /\ own' = own
          /\ \A g \in Slots \ {fd} : /\ ep'[g] = ep[g] /\ timer'[g] = timer[g]
                                     /\ users'[g] = users[g]
        BY <1>3, <2>1, KeepEpoll, InUseFacts
    <2>. QED BY <2>1, <2>2, InUseFacts, TasksGoOn DEF Armed, Settled, Listening
<1>6. CASE r.ret # "NoRequest"
    <2>1. Keep(fd, v, FALSE, ep[fd]) /\ tasks' = Append(tasks, task)
        BY <1>2, <1>6 DEF SubmitTask, task
    <2>2. /\ Registered(fd)' /\ own' = own
          /\ \A g \in Slots \ {fd} : /\ ep'[g] = ep[g] /\ timer'[g] = timer[g]
                                     /\ users'[g] = users[g]
        BY <1>3, <1>4, <2>1, KeepEpoll
    <2>3. task \in Task /\ task.fd = fd
        BY DEF task, Task
    <2>4. Elements(tasks') = Elements(tasks) \cup {task}
        BY <2>1, <2>3, AppendElements DEF IInv, TypeRest
    <2>5. InFlight(fd)'
        BY <2>3, <2>4 DEF InFlight, Work, Elements
    <2>. QED BY <2>2, <2>4, <2>5, TasksGoOn DEF Settled
<1>. QED BY <1>5, <1>6

\* A step on the event in hand settles its slot and touches no other.
LEMMA HandlerEpoll ==
    ASSUME IInv, EInv, NEW f \in {"IN", "OUT", "HUP"}, f \in cur.ev, Handled(f),
           NEW fd \in Slots, fd = cur.src, Registered(fd)', Settled(fd)',
           \A g \in Slots \ {fd} : /\ ep'[g] = ep[g] /\ timer'[g] = timer[g]
                                   /\ users'[g] = users[g] /\ own'[g] = own[g],
           \A g \in Fds : own'[g] \in {own[g], NoConn},
           WorkGoesOn,
           \A c \in Conns : /\ cli'[c].peer = cli[c].peer
                            /\ cli'[c].sent = cli[c].sent
                            /\ c = own[fd] \/ cli'[c].full = cli[c].full
    PROVE  EInv'
<1>1. UNCHANGED <<io, batch>>
    BY HandledFacts
<1>2. NothingAtHand'
    BY <1>1 DEF EInv, NothingAtHand, NoEvent
<1>3. OwnedOnce'
    <2>1. \A g \in Fds : own[g] # NoConn => cli'[own[g]].peer = cli[own[g]].peer
        BY DEF IInv, TypeSlots
    <2>. QED BY <2>1, OwnersKept DEF EInv
<1>4. ASSUME NEW g \in Slots \ {fd} PROVE Untouched(g)
    <2>1. users[g].open => own[g] \in Conns /\ own[g] # own[fd]
        BY <1>1, SlotsAssumption, ConnsAssumption DEF IInv, OpenOwned, EInv, OwnedOnce
    <2>2. \A h : Coming(g, h) => Coming(g, h)'
        BY <1>1 DEF Coming
    <2>3. InFlight(g) => InFlight(g)'
        BY DEF WorkGoesOn
    <2>. QED BY <2>1, <2>2, <2>3 DEF Untouched
<1>5. \A g \in Slots : Registered(g)' /\ Attended(g)'
    BY <1>4, SlotsKept
<1>. QED BY <1>2, <1>3, <1>5 DEF EInv

LEMMA DealReadEpoll == IInv /\ EInv /\ DealRead => EInv'
<1> SUFFICES ASSUME IInv, EInv, DealRead PROVE EInv'
    OBVIOUS
<1>0. PICK fd \in Slots : fd = cur.src
    BY HandledFacts DEF DealRead
<1> DEFINE u == [users[fd] EXCEPT !.rd = cli[own[fd]].sent]
<1>1. /\ "IN" \in cur.ev /\ Handled("IN")
      /\ UNCHANGED <<msgs, wk, q, cli>>
    BY HandledFacts DEF DealRead
<1>2. CASE ReadFails(fd)
    <2>1. CloseConnections({fd}) /\ tasks' = tasks
        BY <1>0, <1>2 DEF DealRead
    <2>2. /\ Registered(fd)' /\ Settled(fd)'
          /\ \A g \in Slots \ {fd} : /\ ep'[g] = ep[g] /\ timer'[g] = timer[g]
                                     /\ users'[g] = users[g] /\ own'[g] = own[g]
          /\ \A g \in Fds : own'[g] \in {own[g], NoConn}
        BY <1>1, <2>1, CloseEpoll
    <2>3. WorkGoesOn
        BY <1>1, <2>1, TasksGoOn
    <2>. QED BY <1>0, <1>1, <2>2, <2>3, HandlerEpoll
<1>3. CASE ~ReadFails(fd)
    <2>1. SubmitOrWait(fd, u)
        BY <1>0, <1>3 DEF DealRead
    <2>2. users[fd].open /\ own[fd] \in Conns
        BY <1>1, <1>3 DEF ReadFails, IInv, OpenOwned
    <2>3. cli[own[fd]].sent \in Pieces /\ ConnOK(users[fd])
        BY <1>1, <2>2 DEF IInv, TypeRest, Client, TypeSlots, ConnOK
    <2>4. ConnOK(u) /\ u.open
        BY <2>2, <2>3 DEF ConnOK, Conn
    <2> HIDE DEF u
    <2>5. /\ Registered(fd)' /\ Settled(fd)'
          /\ \A g \in Slots \ {fd} : /\ ep'[g] = ep[g] /\ timer'[g] = timer[g]
                                     /\ users'[g] = users[g]
          /\ own' = own /\ WorkGoesOn
        BY <1>1, <2>1, <2>2, <2>4, SubmitEpoll
    <2>. QED BY <1>0, <1>1, <2>5, HandlerEpoll
<1>. QED BY <1>2, <1>3

LEMMA DealWriteEpoll == IInv /\ EInv /\ DealWrite => EInv'
<1> SUFFICES ASSUME IInv, EInv, DealWrite PROVE EInv'
    OBVIOUS
<1>0. PICK fd \in Slots : fd = cur.src
    BY HandledFacts DEF DealWrite
<1> DEFINE c == own[fd]
<1>1. /\ "OUT" \in cur.ev /\ Handled("OUT")
      /\ UNCHANGED <<msgs, wk, q>>
    BY HandledFacts DEF DealWrite
<1>2. users[fd].open => c \in Conns
    BY <1>0 DEF IInv, OpenOwned
<1>3. cli \in [Conns -> Client] /\ ConnOK(users[fd])
    BY DEF IInv, TypeRest, TypeSlots, ConnOK
\* Only the socket behind fd is written to, and its state stays as it is.
<1> DEFINE Written ==
        \A d \in Conns : /\ cli'[d].peer = cli[d].peer
                         /\ cli'[d].sent = cli[d].sent
                         /\ d = own[fd] \/ cli'[d].full = cli[d].full
<1>4. CASE ~users[fd].open /\ UNCHANGED <<slotVars, tasks, cli>>
    <2>1. UNCHANGED <<users, timer, ep, own, tasks, cli>>
        BY <1>4 DEF slotVars
    <2>2. Registered(fd)' /\ Settled(fd)'
        BY <1>4, <2>1 DEF EInv, Registered, Settled
    <2>3. WorkGoesOn
        BY <1>1, <2>1, TasksGoOn
    <2>. QED BY <1>0, <1>1, <2>1, <2>2, <2>3, HandlerEpoll
<1>5. ASSUME CloseConnections({fd}), tasks' = tasks, Written PROVE EInv'
    <2>1. /\ Registered(fd)' /\ Settled(fd)'
          /\ \A g \in Slots \ {fd} : /\ ep'[g] = ep[g] /\ timer'[g] = timer[g]
                                     /\ users'[g] = users[g] /\ own'[g] = own[g]
          /\ \A g \in Fds : own'[g] \in {own[g], NoConn}
        BY <1>5, CloseEpoll
    <2>2. WorkGoesOn
        BY <1>1, <1>5, TasksGoOn
    <2>. QED BY <1>0, <1>1, <1>5, <2>1, <2>2, HandlerEpoll
<1>6. ASSUME users[fd].open, NEW n \in 0..Chunks,
             Keep(fd, [users[fd] EXCEPT !.off = @ + n], TRUE, ModFd("OUT")),
             cli' = [cli EXCEPT ![c].full = TRUE], tasks' = tasks
      PROVE  EInv'
    <2> DEFINE u == [users[fd] EXCEPT !.off = @ + n]
    <2>1. u.open /\ Keep(fd, u, TRUE, ModFd("OUT"))
        BY <1>3, <1>6 DEF ConnOK, Conn
    <2> HIDE DEF u
    <2>2. /\ Registered(fd)' /\ ep'[fd] = ModFd("OUT") /\ own' = own
          /\ \A g \in Slots \ {fd} : /\ ep'[g] = ep[g] /\ timer'[g] = timer[g]
                                     /\ users'[g] = users[g]
        BY <2>1, KeepEpoll, InUseFacts
    <2>3. Settled(fd)'
        BY <2>2, InUseFacts DEF Armed, Settled, Listening
    <2>4. Written
        BY <1>2, <1>3, <1>6 DEF Client
    <2>5. WorkGoesOn
        BY <1>1, <1>6, TasksGoOn
    <2>. QED BY <1>0, <1>1, <2>2, <2>3, <2>4, <2>5, HandlerEpoll
<1>7. ASSUME users[fd].open, AfterResponse(fd),
             cli' = IF ~HasOutput(users[fd]) THEN cli
                    ELSE [cli EXCEPT ![c].got = Append(@, users[fd].resp)]
      PROVE  EInv'
    <2>1. Written
        BY <1>2, <1>3, <1>7 DEF Client
    <2>2. CASE ~users[fd].linger
        BY <1>5, <1>7, <2>1, <2>2 DEF AfterResponse
    <2>3. CASE users[fd].linger
        <3> DEFINE u == ResetForNext(users[fd])
        <3>1. SubmitOrWait(fd, u)
            BY <1>7, <2>3 DEF AfterResponse
        <3>2. ConnOK(u) /\ u.open
            BY <1>3, ResetTypes
        <3> HIDE DEF u
        <3>3. /\ Registered(fd)' /\ Settled(fd)'
              /\ \A g \in Slots \ {fd} : /\ ep'[g] = ep[g] /\ timer'[g] = timer[g]
                                         /\ users'[g] = users[g]
              /\ own' = own /\ WorkGoesOn
            BY <1>1, <1>2, <1>7, <3>1, <3>2, SubmitEpoll
        <3>. QED BY <1>0, <1>1, <2>1, <3>3, HandlerEpoll
    <2>. QED BY <2>2, <2>3
<1>. QED BY <1>0, <1>4, <1>5, <1>6, <1>7 DEF DealWrite

LEMMA DealHupEpoll == IInv /\ EInv /\ DealHup => EInv'
<1> SUFFICES ASSUME IInv, EInv, DealHup PROVE EInv'
    OBVIOUS
<1>0. PICK fd \in Slots : fd = cur.src
    BY HandledFacts DEF DealHup
<1>1. /\ "HUP" \in cur.ev /\ Handled("HUP")
      /\ UNCHANGED <<msgs, wk, q, tasks, cli>>
    BY HandledFacts DEF DealHup
<1>2. WorkGoesOn
    BY <1>1, TasksGoOn
<1>3. CASE users[fd].open
    <2>1. CloseConnections({fd})
        BY <1>0, <1>3 DEF DealHup
    <2>2. /\ Registered(fd)' /\ Settled(fd)'
          /\ \A g \in Slots \ {fd} : /\ ep'[g] = ep[g] /\ timer'[g] = timer[g]
                                     /\ users'[g] = users[g] /\ own'[g] = own[g]
          /\ \A g \in Fds : own'[g] \in {own[g], NoConn}
        BY <2>1, CloseEpoll
    <2>. QED BY <1>0, <1>1, <1>2, <2>2, HandlerEpoll
<1>4. CASE ~users[fd].open
    <2>1. UNCHANGED <<users, timer, ep, own>>
        BY <1>0, <1>4 DEF DealHup, slotVars
    <2>2. Registered(fd)' /\ Settled(fd)'
        BY <1>4, <2>1 DEF EInv, Registered, Settled
    <2>. QED BY <1>0, <1>1, <1>2, <2>1, <2>2, HandlerEpoll
<1>. QED BY <1>3, <1>4
-----------------------------------------------------------------------------
(* The other steps of the I/O thread *)

\* A step that accepts nothing.
LEMMA TablesStep ==
    ASSUME IInv, EInv, NothingAtHand',
           \A fd \in Slots : (Registered(fd)' /\ Settled(fd)') \/ Untouched(fd),
           \A fd \in Fds : own'[fd] \in {own[fd], NoConn},
           cli' = cli
    PROVE  EInv'
<1>1. OwnedOnce'
    BY OwnersKept DEF EInv
<1>2. \A fd \in Slots : Registered(fd)' /\ Attended(fd)'
    BY SlotsKept
<1>. QED BY <1>1, <1>2 DEF EInv

\* A step that leaves the tables alone and drops no event about a slot.
LEMMA QuietEpoll ==
    ASSUME IInv, EInv, NothingAtHand', UNCHANGED <<users, timer, ep, own, cli>>,
           WorkGoesOn, \A fd \in Slots : \A f : Coming(fd, f) => Coming(fd, f)'
    PROVE  EInv'
<1>1. \A fd \in Slots : Untouched(fd)
    BY DEF Untouched, WorkGoesOn
<1>. QED BY <1>1, TablesStep

LEMMA WorkStays == UNCHANGED <<tasks, wk, q, msgs>> => WorkGoesOn
BY DEF WorkGoesOn, InFlight, Work, Busy, BusDones, Elements

\* The eventfd and the timerfd are no slots.
LEMMA OwnEvents ==
    ASSUME NEW e \in {EventFd, TimerFd}, batch' = batch \ {e}, cur' = cur
    PROVE  \A fd \in Slots : \A f : Coming(fd, f) => Coming(fd, f)'
<1>1. e.src \notin Slots
    BY SourcesAssumption DEF EventFd, TimerFd
<1>. QED BY <1>1 DEF Coming

LEMMA LoopHeadEpoll == IInv /\ EInv /\ LoopHead => EInv'
<1> SUFFICES ASSUME IInv, EInv, LoopHead PROVE EInv'
    OBVIOUS
<1>1. /\ UNCHANGED <<users, timer, ep, own, cli, tasks, wk, q, msgs, batch, cur>>
      /\ batch = {} /\ cur = NoEvent
    BY DEF LoopHead, AtEvents, slotVars, poolVars, mailVars
<1>2. NothingAtHand'
    BY <1>1 DEF NothingAtHand
<1>3. \A fd \in Slots : \A f : Coming(fd, f) => Coming(fd, f)'
    BY <1>1 DEF Coming
<1>. QED BY <1>1, <1>2, <1>3, WorkStays, QuietEpoll

LEMMA EpollWaitEpoll == IInv /\ EInv /\ EpollWait => EInv'
<1> SUFFICES ASSUME IInv, EInv, EpollWait PROVE EInv'
    OBVIOUS
<1>1. /\ UNCHANGED <<users, timer, own, tasks, wk, q, msgs, cur, cli>>
      /\ io = "wait" /\ io' = "events"
      /\ ClientEvents \subseteq batch'
      /\ ep' = [fd \in Slots |->
                   IF fd \notin Ready THEN ep[fd]
                   ELSE [ep[fd] EXCEPT !.edge = FALSE,
                                       !.mask = IF ep[fd].oneshot THEN "off" ELSE @]]
    BY DEF EpollWait, mailVars, poolVars
<1>2. batch = {} /\ cur = NoEvent
    BY <1>1 DEF EInv, NothingAtHand
<1>3. NothingAtHand' /\ OwnedOnce'
    BY <1>1 DEF NothingAtHand, EInv, OwnedOnce
<1>4. ASSUME NEW fd \in Slots PROVE Registered(fd)' /\ Attended(fd)'
    <2>1. Registered(fd) /\ Attended(fd)
        BY DEF EInv
    <2>2. \A f : ~Coming(fd, f)
        BY <1>2 DEF Coming, NoEvent
    <2>3. InFlight(fd) => InFlight(fd)'
        BY <1>1, WorkStays DEF WorkGoesOn
    <2>4. ep[fd] \in Registration
        BY DEF IInv, TypeSlots
    <2>5. CASE fd \notin Ready
        <3>1. ep'[fd] = ep[fd]
            BY <1>1, <2>5
        <3>2. Flags(fd)' = Flags(fd)
            BY <1>1, <3>1 DEF Flags, Unread
        <3>3. ~(Listening(fd) /\ ep[fd].edge /\ Flags(fd) # {})
            BY <2>5 DEF Ready
        <3>4. Registered(fd)'
            BY <1>1, <2>1, <3>1 DEF Registered
        <3>5. Attended(fd)'
            BY <2>1, <2>2, <2>3, <3>1, <3>2, <3>3 DEF Attended, Listening, AnyComing
        <3>. QED BY <3>4, <3>5
    <2>6. CASE fd \in Ready
        <3>1. /\ ep'[fd].mask = IF ep[fd].oneshot THEN "off" ELSE ep[fd].mask
              /\ ep'[fd].oneshot = ep[fd].oneshot
            BY <1>1, <2>4, <2>6 DEF Registration
        <3>2. /\ Listening(fd)
              /\ Flags(fd) # {} \/ cli[own[fd]].peer # "up"
            BY <2>6 DEF Ready
        <3>3. Registered(fd)'
            <4>1. ep[fd].mask # "none" /\ ep'[fd].mask # "none" /\ users[fd].open
                BY <2>1, <3>1, <3>2 DEF Registered, Listening
            <4>2. ep'[fd].oneshot => ep'[fd].mask \in {"IN", "off"}
                BY <3>1
            <4>. QED BY <1>1, <2>1, <4>1, <4>2 DEF Registered
        <3>4. \A f \in Flags(fd) : Coming(fd, f)'
            <4> DEFINE e == [src |-> fd, ev |-> Flags(fd)]
            <4>1. e \in batch' /\ e.src = fd /\ e.ev = Flags(fd)
                BY <1>1, <2>6 DEF ClientEvents
            <4> HIDE DEF e
            <4>. QED BY <4>1 DEF Coming
        <3>5. ep[fd].oneshot => "IN" \in Flags(fd)
            BY <2>1, <3>2 DEF Registered, Listening, Flags
        <3>6. ~ep[fd].oneshot => Flags(fd)' = Flags(fd)
            BY <1>1, <3>1 DEF Flags, Unread
        <3>7. CASE ep[fd].oneshot
            <4>1. ep'[fd].mask = "off" /\ Coming(fd, "IN")'
                BY <3>1, <3>4, <3>5, <3>7
            <4>. QED BY <3>3, <4>1 DEF Attended, Listening
        <3>8. CASE ~ep[fd].oneshot
            <4>1. Flags(fd)' # {} => AnyComing(fd)'
                BY <3>4, <3>6, <3>8, FlagsFacts DEF AnyComing
            <4>2. ep'[fd].mask # "off"
                BY <3>1, <3>2, <3>8 DEF Listening
            <4>. QED BY <3>3, <4>1, <4>2 DEF Attended
        <3>. QED BY <3>3, <3>7, <3>8
    <2>. QED BY <2>5, <2>6
<1>. QED BY <1>3, <1>4 DEF EInv

LEMMA DrainEventFdEpoll == IInv /\ EInv /\ DrainEventFd => EInv'
<1> SUFFICES ASSUME IInv, EInv, DrainEventFd PROVE EInv'
    OBVIOUS
<1>1. /\ UNCHANGED <<users, timer, ep, own, cli, tasks, wk, q, msgs, cur>>
      /\ batch' = batch \ {EventFd} /\ io' = "swap"
    BY DEF DrainEventFd, slotVars, poolVars
<1>2. NothingAtHand'
    BY <1>1 DEF NothingAtHand
<1>. QED BY <1>1, <1>2, OwnEvents, WorkStays, QuietEpoll

LEMMA TakeClientEventEpoll == IInv /\ EInv /\ TakeClientEvent => EInv'
<1> SUFFICES ASSUME IInv, EInv, TakeClientEvent PROVE EInv'
    OBVIOUS
<1>1. /\ UNCHANGED <<users, timer, ep, own, cli, tasks, wk, q, msgs, io>>
      /\ io = "events" /\ cur = NoEvent
    BY DEF TakeClientEvent, AtEvents, slotVars, poolVars, mailVars
<1>2. NothingAtHand'
    BY <1>1 DEF NothingAtHand
<1>3. PICK e \in batch : /\ batch' = batch \ {e}
                         /\ cur' = IF e.ev = {} THEN NoEvent ELSE e
    BY DEF TakeClientEvent
<1>4. \A fd \in Slots : \A f : Coming(fd, f) => Coming(fd, f)'
    <2> SUFFICES ASSUME NEW fd \in Slots, NEW f, Coming(fd, f) PROVE Coming(fd, f)'
        OBVIOUS
    <2>1. PICK d \in batch : d.src = fd /\ f \in d.ev
        BY <1>1 DEF Coming, NoEvent
    <2>2. CASE d = e
        BY <1>3, <2>1, <2>2 DEF Coming
    <2>3. CASE d # e
        BY <1>3, <2>1, <2>3 DEF Coming
    <2>. QED BY <2>2, <2>3
<1>. QED BY <1>1, <1>2, <1>4, WorkStays, QuietEpoll

LEMMA HandleTimeoutEpoll == IInv /\ EInv /\ HandleTimeout => EInv'
<1> SUFFICES ASSUME IInv, EInv, HandleTimeout PROVE EInv'
    OBVIOUS
<1>1. /\ UNCHANGED <<cli, tasks, wk, q, msgs, cur, io>>
      /\ batch' = batch \ {TimerFd} /\ io = "events"
    BY DEF HandleTimeout, AtEvents, poolVars, mailVars
<1>2. PICK S \in SUBSET Live : CloseConnections(S)
    BY DEF HandleTimeout
<1>3. S \in SUBSET Slots
    BY DEF Live
<1>4. /\ \A fd \in S : Registered(fd)' /\ Settled(fd)'
      /\ \A g \in Slots \ S : /\ ep'[g] = ep[g] /\ timer'[g] = timer[g]
                              /\ users'[g] = users[g] /\ own'[g] = own[g]
      /\ \A g \in Fds : own'[g] \in {own[g], NoConn}
    BY <1>2, <1>3, CloseEpoll
<1>5. \A g \in Slots \ S : Untouched(g)
    BY <1>1, <1>4, OwnEvents, WorkStays DEF Untouched, WorkGoesOn
<1>6. NothingAtHand'
    BY <1>1 DEF NothingAtHand
<1>. QED BY <1>1, <1>4, <1>5, <1>6, TablesStep
-----------------------------------------------------------------------------
(* The mailbox *)

LEMMA SwapMsgsEpoll == IInv /\ EInv /\ SwapMsgs => EInv'
<1> SUFFICES ASSUME IInv, EInv, SwapMsgs PROVE EInv'
    OBVIOUS
<1>1. /\ UNCHANGED <<users, timer, ep, own, cli, tasks, wk, batch, cur>>
      /\ q = <<>> /\ q' = msgs /\ msgs' = <<>> /\ io' = AfterQueue(msgs)
    BY DEF SwapMsgs, slotVars, poolVars, IInv, QueueUsed
<1>2. NothingAtHand'
    BY <1>1 DEF NothingAtHand, AfterQueue
<1>3. Elements(q) = {} /\ Elements(msgs') = {} /\ Elements(q') = Elements(msgs)
    BY <1>1, EmptyElements
<1>4. Work' = Work
    BY <1>1, <1>3 DEF Work, Busy, BusDones
<1>5. WorkGoesOn
    BY <1>4 DEF WorkGoesOn, InFlight
<1>6. \A fd \in Slots : \A f : Coming(fd, f) => Coming(fd, f)'
    BY <1>1 DEF Coming
<1>. QED BY <1>1, <1>2, <1>5, <1>6, QuietEpoll

\* A message that is handled concerns the slot of its descriptor alone.
LEMMA NextMsgEpoll ==
    ASSUME IInv, EInv, NEW type, NextMsg(type), NEW fd, fd = Head(q).fd,
           fd \in Slots => Registered(fd)' /\ Settled(fd)',
           \A g \in Slots \ {fd} : /\ ep'[g] = ep[g] /\ timer'[g] = timer[g]
                                   /\ users'[g] = users[g] /\ own'[g] = own[g],
           \A g \in Fds : own'[g] \in {own[g], NoConn}
    PROVE  EInv'
<1>1. /\ UNCHANGED <<cli, tasks, wk, msgs, batch, cur>>
      /\ io' \in {"events", "msgs"}
      /\ Elements(q) = {Head(q)} \cup Elements(q')
    BY NextMsgFacts
<1>2. NothingAtHand'
    BY <1>1 DEF NothingAtHand
<1>3. \A x \in Work : x \in Work' \/ x = Head(q)
    BY <1>1 DEF Work, Busy, BusDones
<1>4. \A g \in Slots \ {fd} : InFlight(g) => InFlight(g)'
    BY <1>3 DEF InFlight
<1>5. \A g \in Slots \ {fd} : Untouched(g)
    BY <1>1, <1>4 DEF Untouched, Coming
<1>. QED BY <1>1, <1>2, <1>5, TablesStep

LEMMA HandleNewConnEpoll == IInv /\ EInv /\ HandleNewConn => EInv'
<1> SUFFICES ASSUME IInv, EInv, HandleNewConn PROVE EInv'
    OBVIOUS
<1>1. PICK fd : fd = Head(q).fd
    OBVIOUS
<1>2. NextMsg("NewConn")
    BY DEF HandleNewConn
<1>3. CASE fd \in Slots
    <2>1. Keep(fd, InitConn, TRUE, AddFd)
        BY <1>1, <1>3 DEF HandleNewConn
    <2>2. /\ Registered(fd)' /\ ep'[fd] = AddFd /\ own' = own
          /\ \A g \in Slots \ {fd} : /\ ep'[g] = ep[g] /\ timer'[g] = timer[g]
                                     /\ users'[g] = users[g]
        BY <1>3, <2>1, KeepEpoll, InUseFacts, InitTypes
    <2>3. Settled(fd)'
        BY <2>2, InUseFacts DEF Armed, Settled, Listening
    <2>. QED BY <1>1, <1>2, <2>2, <2>3, NextMsgEpoll
<1>4. CASE fd \notin Slots
    <2>1. UNCHANGED <<users, timer, ep>> /\ own' = [own EXCEPT ![fd] = NoConn]
        BY <1>1, <1>4 DEF HandleNewConn, RejectConn
    <2>2. \A g \in Fds : own'[g] \in {own[g], NoConn} /\ (g # fd => own'[g] = own[g])
        BY <2>1 DEF IInv, TypeSlots
    <2>. QED BY <1>1, <1>2, <1>4, <2>1, <2>2, NextMsgEpoll, SlotsAssumption
<1>. QED BY <1>3, <1>4

LEMMA HandleBusDoneEpoll == IInv /\ EInv /\ HandleBusDone => EInv'
<1> SUFFICES ASSUME IInv, EInv, HandleBusDone PROVE EInv'
    OBVIOUS
<1>1. PICK fd : fd = Head(q).fd
    OBVIOUS
<1>2. NextMsg("BusDone")
    BY DEF HandleBusDone
<1>3. fd \in Slots
    BY <1>1, <1>2, NextMsgFacts DEF Message
<1>4. CASE ~users[fd].open
    <2>1. UNCHANGED <<users, timer, ep, own>>
        BY <1>1, <1>4 DEF HandleBusDone, slotVars
    <2>2. Registered(fd)' /\ Settled(fd)'
        BY <1>3, <1>4, <2>1 DEF EInv, Registered, Settled
    <2>. QED BY <1>1, <1>2, <2>1, <2>2, NextMsgEpoll
<1>5. CASE users[fd].open /\ Head(q).result = 1
    <2>1. Keep(fd, users[fd], TRUE, ModFd("OUT"))
        BY <1>1, <1>5 DEF HandleBusDone, ArmResponse
    <2>2. /\ Registered(fd)' /\ ep'[fd] = ModFd("OUT") /\ own' = own
          /\ \A g \in Slots \ {fd} : /\ ep'[g] = ep[g] /\ timer'[g] = timer[g]
                                     /\ users'[g] = users[g]
        BY <1>3, <1>5, <2>1, KeepEpoll, InUseFacts
    <2>3. Settled(fd)'
        BY <2>2, InUseFacts DEF Armed, Settled, Listening
    <2>. QED BY <1>1, <1>2, <2>2, <2>3, NextMsgEpoll
<1>6. CASE users[fd].open /\ Head(q).result # 1
    <2>1. CloseConnections({fd})
        BY <1>1, <1>6 DEF HandleBusDone
    <2>2. /\ Registered(fd)' /\ Settled(fd)'
          /\ \A g \in Slots \ {fd} : /\ ep'[g] = ep[g] /\ timer'[g] = timer[g]
                                     /\ users'[g] = users[g] /\ own'[g] = own[g]
          /\ \A g \in Fds : own'[g] \in {own[g], NoConn}
        BY <1>3, <2>1, CloseEpoll
    <2>. QED BY <1>1, <1>2, <2>2, NextMsgEpoll
<1>. QED BY <1>4, <1>5, <1>6
-----------------------------------------------------------------------------
(* The other threads and the clients *)

LEMMA WorkerEpoll == \A w \in Workers : IInv /\ EInv /\ Worker(w) => EInv'
<1> SUFFICES ASSUME NEW w \in Workers, IInv, EInv, Worker(w) PROVE EInv'
    OBVIOUS
<1>1. WorkGoesOn
    BY TaskStartInv, TaskFinishInv, TaskThrowInv, NotifyPushInv, NotifyWakeInv DEF Worker
<1>2. UNCHANGED <<timer, ep, own, cli, io, batch, cur>>
    BY DEF Worker, TaskStart, TaskFinish, TaskThrow, NotifyPush, NotifyWake,
           slotVars, loopVars
<1>3. ASSUME NEW g \in Slots
      PROVE  users'[g].open = users[g].open /\ users'[g].rd = users[g].rd
    <2>1. CASE TaskFinish(w)
        <3>1. users' = [users EXCEPT ![wk[w].fd] = ProcessWrite(@, wk[w].code)]
            BY <2>1 DEF TaskFinish
        <3>2. users[g] \in Conn /\ users \in [Slots -> Conn]
            BY DEF IInv, TypeSlots
        <3>3. /\ ProcessWrite(users[g], wk[w].code).open = users[g].open
              /\ ProcessWrite(users[g], wk[w].code).rd = users[g].rd
            BY <3>2 DEF ProcessWrite, Conn
        <3>. QED BY <3>1, <3>2, <3>3
    <2>2. CASE ~TaskFinish(w)
        BY <2>2 DEF Worker, TaskStart, TaskThrow, NotifyPush, NotifyWake, slotVars
    <2>. QED BY <2>1, <2>2
<1>4. \A g \in Slots : Untouched(g)
    BY <1>1, <1>2, <1>3 DEF Untouched, WorkGoesOn, Coming
<1>5. NothingAtHand'
    BY <1>2 DEF EInv, NothingAtHand
<1>. QED BY <1>2, <1>4, <1>5, TablesStep

LEMMA DispatchEpoll == \A c \in Conns, fd \in Fds : IInv /\ EInv /\ Dispatch(c, fd) => EInv'
<1> SUFFICES ASSUME NEW c \in Conns, NEW fd \in Fds, IInv, EInv, Dispatch(c, fd)
             PROVE  EInv'
    OBVIOUS
<1>1. /\ UNCHANGED <<users, timer, ep, q, io, batch, cur, tasks, wk>>
      /\ own[fd] = NoConn /\ own' = [own EXCEPT ![fd] = c]
      /\ cli[c].peer = "new" /\ cli' = [cli EXCEPT ![c].peer = "up"]
    BY DEF Dispatch, loopVars, poolVars
<1>2. own \in [Fds -> Conns \cup {NoConn}] /\ cli \in [Conns -> Client]
    BY DEF IInv, TypeSlots, TypeRest
<1>3. /\ own'[fd] = c /\ cli'[c].peer = "up" /\ c # NoConn
      /\ \A g \in Fds \ {fd} : own'[g] = own[g] /\ own[g] # c
      /\ \A d \in Conns \ {c} : cli'[d] = cli[d]
    BY <1>1, <1>2, ConnsAssumption DEF Client, EInv, OwnedOnce
<1>4. OwnedOnce'
    BY <1>2, <1>3 DEF EInv, OwnedOnce
<1>5. NothingAtHand'
    BY <1>1 DEF EInv, NothingAtHand
<1>6. WorkGoesOn
    <2> DEFINE m == [type |-> "NewConn", fd |-> fd, conn |-> c]
    <2>1. m \in Message
        BY DEF Message
    <2>2. msgs \in Seq(Message) /\ msgs' = Append(msgs, m)
        BY DEF IInv, TypeRest, Dispatch
    <2> HIDE DEF m
    <2>3. Elements(msgs') = Elements(msgs) \cup {m}
        BY <2>1, <2>2, AppendElements
    <2>4. Work \subseteq Work'
        BY <1>1, <2>3 DEF Work, Busy, BusDones
    <2>. QED BY <2>4 DEF WorkGoesOn, InFlight
<1>7. ASSUME NEW g \in Slots
      PROVE  (Registered(g)' /\ Settled(g)') \/ Untouched(g)
    <2>1. users[g].open => own[g] \in Conns /\ own[g] # NoConn /\ g \in Fds
        BY SlotsAssumption, ConnsAssumption DEF IInv, OpenOwned
    <2>2. CASE g = fd
        <3>1. ~users[g].open
            BY <1>1, <2>1, <2>2
        <3>. QED BY <1>1, <3>1 DEF EInv, Registered, Settled
    <2>3. CASE g # fd
        <3>1. own'[g] = own[g] /\ (users[g].open => cli'[own[g]] = cli[own[g]])
            BY <1>3, <2>1, <2>3, SlotsAssumption
        <3>. QED BY <1>1, <1>6, <3>1 DEF Untouched, WorkGoesOn, Coming
    <2>. QED BY <2>2, <2>3
<1>8. \A g \in Slots : Registered(g)' /\ Attended(g)'
    BY <1>7, SlotsKept
<1>. QED BY <1>4, <1>5, <1>8 DEF EInv

LEMMA StopEpoll == IInv /\ EInv /\ (Stop \/ MainWake) => EInv'
<1> SUFFICES ASSUME IInv, EInv, Stop \/ MainWake PROVE EInv'
    OBVIOUS
<1>1. UNCHANGED <<users, timer, ep, own, cli, tasks, wk, q, msgs, io, batch, cur>>
    BY DEF Stop, MainWake, slotVars, loopVars, poolVars
<1>2. NothingAtHand'
    BY <1>1 DEF EInv, NothingAtHand
<1>3. \A fd \in Slots : \A f : Coming(fd, f) => Coming(fd, f)'
    BY <1>1 DEF Coming
<1>. QED BY <1>1, <1>2, <1>3, WorkStays, QuietEpoll

\* What a client does raises an edge wherever it makes a slot ready.
LEMMA ClientsEpoll == IInv /\ EInv /\ Clients => EInv'
<1> SUFFICES ASSUME IInv, EInv, NEW fd \in Slots,
                    ClientSend(fd) \/ ClientRead(fd) \/ ClientLeave(fd)
             PROVE  EInv'
    BY DEF Clients
<1> DEFINE c == own[fd]
<1>1. UNCHANGED <<users, timer, own, msgs, q, io, batch, cur, tasks, wk>>
    BY DEF ClientSend, ClientRead, ClientLeave, OthersUnchanged, mailVars,
           loopVars, poolVars
<1>2. /\ c \in Conns /\ cli \in [Conns -> Client] /\ ep \in [Slots -> Registration]
      /\ cli[c].peer \in {"up", "fin"}
    BY SlotsAssumption DEF ClientSend, ClientRead, ClientLeave, Reachable, ClientOf,
                           IInv, TypeSlots, TypeRest
<1>3. /\ \A d \in Conns \ {c} : cli'[d] = cli[d]
      /\ cli'[c].peer # "new"
    <2>1. CASE ClientSend(fd) \/ ClientRead(fd)
        BY <1>2, <2>1 DEF ClientSend, ClientRead, Client
    <2>2. CASE ClientLeave(fd)
        <3>1. PICK how \in Leave : cli' = [cli EXCEPT ![c].peer = how]
            BY <2>2 DEF ClientLeave
        <3>2. how # "new"
            BY BoundsAssumption
        <3>. QED BY <1>2, <3>1, <3>2 DEF Client
    <2>. QED BY <2>1, <2>2
<1>4. OwnedOnce' /\ NothingAtHand'
    BY <1>1, <1>2, <1>3 DEF EInv, OwnedOnce, NothingAtHand, IInv, TypeSlots
<1>5. /\ ep'[fd].mask = ep[fd].mask /\ ep'[fd].oneshot = ep[fd].oneshot
      /\ ep[fd].edge => ep'[fd].edge
      /\ \A g \in Slots \ {fd} : ep'[g] = ep[g]
    <2>1. PICK masks : Notify(fd, masks)
        BY DEF ClientSend, ClientRead, ClientLeave
    <2>. QED BY <1>2, <2>1 DEF Notify, Registration
<1>6. ASSUME Listening(fd) PROVE ep'[fd].edge \/ Flags(fd)' = Flags(fd)
    <2>1. CASE ClientSend(fd)
        <3>1. /\ Notify(fd, {"IN"})
              /\ cli'[c].peer = cli[c].peer /\ cli'[c].full = cli[c].full
            BY <1>2, <2>1 DEF ClientSend, Client
        <3>2. CASE ep[fd].mask = "IN"
            BY <1>2, <3>1, <3>2 DEF Notify, Registration
        <3>3. CASE ep[fd].mask = "OUT"
            BY <1>1, <1>5, <3>1, <3>3 DEF Flags, Unread
        <3>. QED BY <1>6, <3>2, <3>3 DEF Listening
    <2>2. CASE ClientRead(fd)
        <3>1. /\ Notify(fd, {"OUT"})
              /\ cli'[c].peer = cli[c].peer /\ cli'[c].sent = cli[c].sent
            BY <1>2, <2>2 DEF ClientRead, Client
        <3>2. CASE ep[fd].mask = "OUT"
            BY <1>2, <3>1, <3>2 DEF Notify, Registration
        <3>3. CASE ep[fd].mask = "IN"
            BY <1>1, <1>5, <3>1, <3>3 DEF Flags, Unread
        <3>. QED BY <1>6, <3>2, <3>3 DEF Listening
    <2>3. CASE ClientLeave(fd)
        BY <1>2, <1>6, <2>3 DEF ClientLeave, Notify, Listening, Registration
    <2>. QED BY <2>1, <2>2, <2>3
<1>7. \A g : \A f : Coming(g, f) => Coming(g, f)'
    BY <1>1 DEF Coming
<1>8. \A g : InFlight(g) => InFlight(g)'
    BY <1>1, WorkStays DEF WorkGoesOn
<1>9. Registered(fd)' /\ Attended(fd)'
    <2>1. Registered(fd) /\ Attended(fd)
        BY DEF EInv
    <2>2. Registered(fd)'
        BY <1>1, <1>5, <2>1 DEF Registered
    <2>3. AnyComing(fd) => AnyComing(fd)'
        BY <1>7 DEF AnyComing
    <2>4. Attended(fd)'
        BY <1>5, <1>6, <1>7, <1>8, <2>1, <2>3 DEF Attended, Listening
    <2>. QED BY <2>2, <2>4
<1>10. ASSUME NEW g \in Slots \ {fd} PROVE Untouched(g)
    <2>1. users[g].open => own[g] \in Conns /\ own[g] # c
        BY <1>2, SlotsAssumption, ConnsAssumption DEF IInv, OpenOwned, EInv, OwnedOnce
    <2>. QED BY <1>1, <1>3, <1>5, <1>7, <1>8, <2>1 DEF Untouched
<1>11. \A g \in Slots : Registered(g)' /\ Attended(g)'
    BY <1>9, <1>10, UntouchedKept DEF EInv
<1>. QED BY <1>4, <1>11 DEF EInv
-----------------------------------------------------------------------------
(* The inductive invariant *)

LEMMA InitEpoll == Init => EInv
<1> SUFFICES ASSUME Init PROVE EInv
    OBVIOUS
<1>1. ASSUME NEW fd \in Slots PROVE Registered(fd) /\ Attended(fd)
    <2>1. ep[fd] = NotRegistered /\ ~users[fd].open /\ ~timer[fd]
        BY InitTypes DEF Init
    <2>2. NotRegistered.mask = "none" /\ ~NotRegistered.oneshot
        BY DEF NotRegistered
    <2>. QED BY <2>1, <2>2 DEF Registered, Attended, Listening
<1>. QED BY <1>1 DEF Init, EInv, OwnedOnce, NothingAtHand

LEMMA NextEpoll == IInv /\ EInv /\ [Next]_vars => EInv'
<1> SUFFICES ASSUME IInv, EInv, [Next]_vars PROVE EInv'
    OBVIOUS
<1>1. CASE IoThread
    BY <1>1, LoopHeadEpoll, EpollWaitEpoll, DrainEventFdEpoll, SwapMsgsEpoll,
       HandleNewConnEpoll, HandleBusDoneEpoll, HandleTimeoutEpoll,
       TakeClientEventEpoll, DealReadEpoll, DealWriteEpoll, DealHupEpoll DEF IoThread
<1>2. CASE \E w \in Workers : Worker(w)
    BY <1>2, WorkerEpoll
<1>3. CASE \E c \in Conns, fd \in Fds : Dispatch(c, fd)
    BY <1>3, DispatchEpoll
<1>4. CASE Stop \/ MainWake
    BY <1>4, StopEpoll
<1>5. CASE Clients
    BY <1>5, ClientsEpoll
<1>6. CASE UNCHANGED vars
    <2>1. UNCHANGED <<users, timer, ep, own, cli, tasks, wk, q, msgs, io, batch, cur>>
        BY <1>6 DEF vars
    <2>2. NothingAtHand' /\ \A fd \in Slots : \A f : Coming(fd, f) => Coming(fd, f)'
        BY <2>1 DEF EInv, NothingAtHand, Coming
    <2>. QED BY <2>1, <2>2, WorkStays, QuietEpoll
<1>. QED BY <1>1, <1>2, <1>3, <1>4, <1>5, <1>6 DEF Next, Terminated

THEOREM EpollInductive == Spec => []EInv
BY InitEpoll, NextEpoll, Inductive, PTL DEF Spec

\* Every handler leaves the table, the epoll set and the timers in agreement,
\* whatever is queued about a slot it has closed (sub_reactor.cpp, add_new_conn,
\* close_connection, handle_msg).
THEOREM TablesInStep == Spec => []TablesAgree
<1>1. EInv => TablesAgree
    BY DEF EInv, Registered, TablesAgree
<1>. QED BY <1>1, EpollInductive, PTL

\* A slot disabled by EPOLLONESHOT always has an event to be read from or a
\* completion that arms it or closes it (addfd, modfd, deal_read, handle_msg).
THEOREM HearsAgain == Spec => []NeverDeaf
<1>1. EInv => NeverDeaf
    BY DEF EInv, Attended, Coming, NeverDeaf, Reported
<1>. QED BY <1>1, EpollInductive, PTL

\* No edge of the edge-triggered set is used up while the slot is still ready
\* and nobody is about to look at it (read_once, modfd, deal_write).
THEOREM NothingStranded == Spec => []NoStrandedData
<1>1. EInv => NoStrandedData
    BY DEF EInv, Attended, AnyComing, Coming, NoStrandedData, Reported
<1>. QED BY <1>1, EpollInductive, PTL
=============================================================================
