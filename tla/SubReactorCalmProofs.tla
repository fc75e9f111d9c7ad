------------------------- MODULE SubReactorCalmProofs -------------------------
(***************************************************************************)
(* Proofs about SubReactor up to the first event that reaches a slot with  *)
(* work under way, for every behaviour of the clients: that the workers    *)
(* and the I/O thread never meet in a slot, that every request gets its    *)
(* own answer, and that no static file leaks.                              *)
(***************************************************************************)
EXTENDS SubReactorCalm, SubReactorProofs

(* Where a connection u stands whose client has g answers *)

\* Its parser is at the request line or the headers of the next request.
IsParsing(u, g) ==
    /\ u.resp = NoResponse /\ u.file = NoFile
    /\ \/ u.p = 2 * g /\ u.chk = "LINE" /\ u.url = 0
       \/ /\ u.p = 2 * g + 1 /\ u.chk = "HEADER" /\ u.url = g + 1
          /\ Answer[g + 1] # "BadRequest"

\* It waits for more of the next request.
IsReading(u, g) == IsParsing(u, g) /\ u.p = u.rd

\* The next request has been read as far as it takes to answer it.
IsTaken(u, g) == g + 1 \in Reqs /\ u.p <= u.rd

\* It waits for a worker to answer the request.
IsPending(u, g) ==
    /\ IsTaken(u, g)
    /\ u.code = Answer[g + 1]
    /\ u.url = IF Answer[g + 1] = "BadRequest" THEN 0 ELSE g + 1
    /\ Answer[g + 1] # "BadRequest" => u.p = 2 * g + 2

\* It holds the answer.
IsAnswering(u, g) ==
    /\ IsTaken(u, g)
    /\ u.resp = Expected(g + 1)
    /\ u.linger => u.p = 2 * g + 2

Given(fd) == Len(cli[own[fd]].got)
Sent(fd) == cli[own[fd]].sent
Reading(fd) == IsReading(users[fd], Given(fd))
Taken(fd) == IsTaken(users[fd], Given(fd))
Pending(fd) == IsPending(users[fd], Given(fd))
Answering(fd) == IsAnswering(users[fd], Given(fd))

\* Only a slot nobody works on has a timer or waits for an event.
Phase(fd) == users[fd].open =>
    /\ users[fd].rd <= Sent(fd)
    /\ \/ ~InFlight(fd) /\ Reading(fd) /\ ep[fd].mask \in {"IN", "off"}
       \/ ~InFlight(fd) /\ Answering(fd) /\ ep[fd].mask = "OUT"
       \/ InFlight(fd) /\ Taken(fd) /\ ~timer[fd]

(* The work under way, the events at hand *)

Pinned(x) == users[x.fd].open /\ own[x.fd] = x.conn

TaskOK(x) == Pinned(x) /\ Pending(x.fd)
WorkerOK(s) ==
    /\ s.pc = "run" => Pinned(s) /\ Pending(s.fd) /\ s.code = users[s.fd].code
    /\ s.pc = "push" => Pinned(s) /\ (s.result = 1 => Answering(s.fd))
MsgOK(m) == Pinned(m) /\ (m.result = 1 => Answering(m.fd))

\* A stale event may be about a connection that has just arrived.
EventOK(fd, e) ==
    /\ "IN" \notin e.ev \/ "OUT" \notin e.ev
    /\ users[fd].open =>
           /\ ~InFlight(fd)
           /\ "IN" \in e.ev => Reading(fd)
           /\ "OUT" \in e.ev => Answering(fd) \/ users[fd] = InitConn

AtHand == batch \cup {cur}
Dones == BusDones(msgs) \cup BusDones(q)

AtSlot(fd) ==
    /\ Phase(fd)
    /\ \A x \in Elements(tasks) : x.fd = fd => TaskOK(x)
    /\ \A w \in Busy : wk[w].fd = fd => WorkerOK(wk[w])
    /\ \A m \in Dones : m.fd = fd => MsgOK(m)
    /\ \A e \in AtHand : e.src = fd => EventOK(fd, e)

\* The descriptors a queue of tasks, the workers and a mailbox are about.
TaskFds(s) == { x.fd : x \in Elements(s) }
AtWork(f) == { w \in Workers : f[w].pc \in {"run", "push"} }
BusyFds(f) == { f[w].fd : w \in AtWork(f) }
DoneFds(s) == { m.fd : m \in BusDones(s) }

TasksOnce(s) == \A i, j \in DOMAIN s : s[i].fd = s[j].fd => i = j
BusyOnce(f) == \A v, w \in AtWork(f) : f[v].fd = f[w].fd => v = w
DonesOnce(s) == \A i, j \in DOMAIN s :
    s[i].type = "BusDone" /\ s[j].type = "BusDone" /\ s[i].fd = s[j].fd => i = j

\* A slot has one piece of work under way at most, and one event at hand.
Apart(T, B, M, Q) == /\ T \cap B = {} /\ T \cap M = {} /\ T \cap Q = {}
                     /\ B \cap M = {} /\ B \cap Q = {} /\ M \cap Q = {}
OneWork == /\ TasksOnce(tasks) /\ BusyOnce(wk) /\ DonesOnce(msgs) /\ DonesOnce(q)
           /\ Apart(TaskFds(tasks), BusyFds(wk), DoneFds(msgs), DoneFds(q))

OneEvent ==
    /\ \A e, f \in batch : e.src \in Slots /\ e.src = f.src => e = f
    /\ \A e \in batch : e.src \in Slots => e.src # cur.src

(* The clients and the files *)

ClientsOK == \A c \in Conns : cli[c].peer = "new" => cli[c].got = <<>>

\* Nobody answers a socket that is not in its slot yet.
Unanswered == \A fd \in Fds :
    own[fd] # NoConn /\ ~(fd \in Slots /\ users[fd].open) => cli[own[fd]].got = <<>>

FilesOK ==
    /\ FilesConserved
    /\ \A fd \in Slots : users[fd].file # NoFile =>
           users[fd].open /\ users[fd].file[1] = own[fd]

PInv == /\ \A fd \in Slots : AtSlot(fd)
        /\ OneWork /\ OneEvent
        /\ ClientsOK /\ AnswersMatch /\ Unanswered /\ FilesOK

\* The whole invariant the steps are proved to keep.
AInv == IInv /\ EInv /\ PInv

(* Steps *)

\* The slot and the work of g are as before, and what is left of its events;
\* its client may have sent more.
SameSlot(g) ==
    /\ users'[g] = users[g] /\ own'[g] = own[g]
    /\ ep'[g].mask = ep[g].mask /\ timer'[g] = timer[g]
    /\ users[g].open =>
          /\ cli'[own[g]].got = cli[own[g]].got
          /\ \A n \in Pieces : n <= cli[own[g]].sent => n <= cli'[own[g]].sent
SameWork(g) ==
    /\ \A x \in Elements(tasks)' : x.fd = g => x \in Elements(tasks)
    /\ \A w \in Busy' : wk'[w].fd = g => w \in Busy /\ wk'[w] = wk[w]
    /\ \A m \in Dones' : m.fd = g => m \in Dones
    /\ InFlight(g) => InFlight(g)'
SameEvents(g) == \A e \in AtHand' : e.src = g =>
    \E d \in AtHand : d.src = g /\ e.ev \subseteq d.ev
-----------------------------------------------------------------------------
(* Slots, work and events that a step leaves alone *)

LEMMA InFlightFds ==
    \A fd : InFlight(fd) <=> fd \in TaskFds(tasks) \cup BusyFds(wk)
                                    \cup DoneFds(msgs) \cup DoneFds(q)
BY DEF InFlight, Work, Busy, AtWork, TaskFds, BusyFds, DoneFds

LEMMA InFlightFdsNext ==
    \A fd : InFlight(fd)' <=> fd \in TaskFds(tasks') \cup BusyFds(wk')
                                     \cup DoneFds(msgs') \cup DoneFds(q')
BY DEF InFlight, Work, Busy, AtWork, TaskFds, BusyFds, DoneFds

LEMMA NoNewWork ==
    ASSUME NEW g, SameWork(g) PROVE InFlight(g)' <=> InFlight(g)
<1> SUFFICES ASSUME InFlight(g)' PROVE InFlight(g)
    BY DEF SameWork
<1>1. PICK x \in Work' : x.fd = g
    BY DEF InFlight
<1>2. x \in Work
    BY <1>1 DEF Work, SameWork, Dones
<1>. QED BY <1>1, <1>2 DEF InFlight

LEMMA Elsewhere ==
    ASSUME TypeSlots, NEW g \in Slots, AtSlot(g), SameSlot(g), SameWork(g), SameEvents(g)
    PROVE  AtSlot(g)'
<1>1. InFlight(g)' <=> InFlight(g)
    BY NoNewWork
<1>2. users[g].open => Given(g)' = Given(g)
    BY DEF SameSlot, Given
<1>3. users'[g] = users[g] /\ own'[g] = own[g]
    BY DEF SameSlot
<1>4. users[g].open => /\ Reading(g)' = Reading(g) /\ Answering(g)' = Answering(g)
                       /\ Pending(g)' = Pending(g) /\ Taken(g)' = Taken(g)
    BY <1>2, <1>3 DEF Reading, Answering, Pending, Taken
<1>5. Phase(g)'
    <2>1. users[g].rd \in Pieces
        BY DEF TypeSlots, Conn
    <2>2. users[g].open /\ users[g].rd <= Sent(g) => users'[g].rd <= Sent(g)'
        BY <1>3, <2>1 DEF SameSlot, Sent
    <2>. QED BY <1>1, <1>3, <1>4, <2>2 DEF AtSlot, Phase, SameSlot
<1>6. ASSUME NEW x \in Elements(tasks)', x.fd = g PROVE TaskOK(x)'
    <2>1. TaskOK(x)
        BY <1>6 DEF SameWork, AtSlot
    <2>. QED BY <1>3, <1>4, <1>6, <2>1 DEF TaskOK, Pinned
<1>7. ASSUME NEW w \in Busy', wk'[w].fd = g PROVE WorkerOK(wk[w])'
    <2>1. WorkerOK(wk[w]) /\ wk'[w] = wk[w]
        BY <1>7 DEF SameWork, AtSlot
    <2>. QED BY <1>3, <1>4, <1>7, <2>1 DEF WorkerOK, Pinned
<1>8. ASSUME NEW m \in Dones', m.fd = g PROVE MsgOK(m)'
    <2>1. MsgOK(m)
        BY <1>8 DEF SameWork, AtSlot
    <2>. QED BY <1>3, <1>4, <1>8, <2>1 DEF MsgOK, Pinned
<1>9. ASSUME NEW e \in AtHand', e.src = g PROVE EventOK(g, e)'
    <2>1. PICK d \in AtHand : d.src = g /\ e.ev \subseteq d.ev
        BY <1>9 DEF SameEvents
    <2>2. EventOK(g, d)
        BY <2>1 DEF AtSlot
    <2>. QED BY <1>1, <1>3, <1>4, <2>1, <2>2 DEF EventOK
<1>. QED BY <1>5, <1>6, <1>7, <1>8, <1>9 DEF AtSlot
-----------------------------------------------------------------------------
(* One piece of work per slot *)

LEMMA TasksAppend ==
    ASSUME NEW s \in Seq(Task), NEW t \in Task, TasksOnce(s), t.fd \notin TaskFds(s)
    PROVE  TasksOnce(Append(s, t)) /\ TaskFds(Append(s, t)) = TaskFds(s) \cup {t.fd}
<1> DEFINE r == Append(s, t)
<1>1. /\ DOMAIN r = DOMAIN s \cup {Len(s) + 1}
      /\ \A i \in DOMAIN s : r[i] = s[i]
      /\ r[Len(s) + 1] = t
      /\ Elements(r) = Elements(s) \cup {t}
    BY AppendElements
<1>2. \A i \in DOMAIN s : s[i].fd # t.fd
    BY DEF TaskFds, Elements
<1> HIDE DEF r
<1>3. TasksOnce(r)
    BY <1>1, <1>2 DEF TasksOnce
<1>4. TaskFds(r) = TaskFds(s) \cup {t.fd}
    BY <1>1 DEF TaskFds
<1>. QED BY <1>3, <1>4 DEF r

LEMMA TasksTail ==
    ASSUME NEW s \in Seq(Task), s # <<>>, TasksOnce(s)
    PROVE  /\ TasksOnce(Tail(s)) /\ Head(s).fd \notin TaskFds(Tail(s))
           /\ TaskFds(s) = TaskFds(Tail(s)) \cup {Head(s).fd}
<1> DEFINE r == Tail(s)
<1>1. /\ Head(s) = s[1] /\ 1 \in DOMAIN s
      /\ \A i \in DOMAIN r : i \in Nat \ {0} /\ i + 1 \in DOMAIN s /\ r[i] = s[i + 1]
      /\ Elements(s) = {Head(s)} \cup Elements(r)
    BY TailElements
<1> HIDE DEF r
<1>2. TasksOnce(r)
    <2> SUFFICES ASSUME NEW i \in DOMAIN r, NEW j \in DOMAIN r, r[i].fd = r[j].fd
                 PROVE  i = j
        BY DEF TasksOnce
    <2>1. i + 1 = j + 1
        BY <1>1 DEF TasksOnce
    <2>. QED BY <1>1, <2>1
<1>3. \A i \in DOMAIN r : r[i].fd # Head(s).fd
    <2> SUFFICES ASSUME NEW i \in DOMAIN r, r[i].fd = Head(s).fd PROVE FALSE
        OBVIOUS
    <2>1. i + 1 = 1
        BY <1>1 DEF TasksOnce
    <2>. QED BY <1>1, <2>1
<1>4. Head(s).fd \notin TaskFds(r)
    BY <1>3 DEF TaskFds, Elements
<1>5. TaskFds(s) = TaskFds(r) \cup {Head(s).fd}
    BY <1>1 DEF TaskFds
<1>. QED BY <1>2, <1>4, <1>5 DEF r

LEMMA DonesAppend ==
    ASSUME NEW s \in Seq(Message), NEW m \in Message, DonesOnce(s),
           m.type = "BusDone" => m.fd \notin DoneFds(s)
    PROVE  /\ DonesOnce(Append(s, m))
           /\ BusDones(Append(s, m)) = BusDones(s) \cup
                                       (IF m.type = "BusDone" THEN {m} ELSE {})
           /\ DoneFds(Append(s, m)) = DoneFds(s) \cup
                                      (IF m.type = "BusDone" THEN {m.fd} ELSE {})
<1> DEFINE r == Append(s, m)
<1>1. /\ DOMAIN r = DOMAIN s \cup {Len(s) + 1}
      /\ \A i \in DOMAIN s : r[i] = s[i]
      /\ r[Len(s) + 1] = m
      /\ Elements(r) = Elements(s) \cup {m}
    BY AppendElements
<1>2. m.type = "BusDone" => \A i \in DOMAIN s : s[i].type = "BusDone" => s[i].fd # m.fd
    BY DEF DoneFds, BusDones, Elements
<1> HIDE DEF r
<1>3. DonesOnce(r)
    BY <1>1, <1>2 DEF DonesOnce
<1>4. BusDones(r) = BusDones(s) \cup (IF m.type = "BusDone" THEN {m} ELSE {})
    BY <1>1 DEF BusDones
<1>5. DoneFds(r) = DoneFds(s) \cup (IF m.type = "BusDone" THEN {m.fd} ELSE {})
    BY <1>4 DEF DoneFds
<1>. QED BY <1>3, <1>4, <1>5 DEF r

LEMMA DonesTail ==
    ASSUME NEW s \in Seq(Message), s # <<>>, DonesOnce(s)
    PROVE  /\ DonesOnce(Tail(s))
           /\ BusDones(s) = BusDones(Tail(s)) \cup
                            (IF Head(s).type = "BusDone" THEN {Head(s)} ELSE {})
           /\ DoneFds(s) = DoneFds(Tail(s)) \cup
                           (IF Head(s).type = "BusDone" THEN {Head(s).fd} ELSE {})
           /\ Head(s).type = "BusDone" => Head(s).fd \notin DoneFds(Tail(s))
<1> DEFINE r == Tail(s)
<1>1. /\ Head(s) = s[1] /\ 1 \in DOMAIN s
      /\ \A i \in DOMAIN r : i \in Nat \ {0} /\ i + 1 \in DOMAIN s /\ r[i] = s[i + 1]
      /\ Elements(s) = {Head(s)} \cup Elements(r)
    BY TailElements
<1> HIDE DEF r
<1>2. DonesOnce(r)
    <2> SUFFICES ASSUME NEW i \in DOMAIN r, NEW j \in DOMAIN r,
                        r[i].type = "BusDone", r[j].type = "BusDone",
                        r[i].fd = r[j].fd
                 PROVE  i = j
        BY DEF DonesOnce
    <2>1. i + 1 = j + 1
        BY <1>1 DEF DonesOnce
    <2>. QED BY <1>1, <2>1
<1>3. Head(s).type = "BusDone" =>
          \A i \in DOMAIN r : r[i].type = "BusDone" => r[i].fd # Head(s).fd
    <2> SUFFICES ASSUME Head(s).type = "BusDone", NEW i \in DOMAIN r,
                        r[i].type = "BusDone", r[i].fd = Head(s).fd
                 PROVE  FALSE
        OBVIOUS
    <2>1. i + 1 = 1
        BY <1>1 DEF DonesOnce
    <2>. QED BY <1>1, <2>1
<1>4. Head(s).type = "BusDone" => Head(s).fd \notin DoneFds(r)
    BY <1>3 DEF DoneFds, BusDones, Elements
<1>5. BusDones(s) = BusDones(r) \cup (IF Head(s).type = "BusDone" THEN {Head(s)} ELSE {})
    BY <1>1 DEF BusDones
<1>6. DoneFds(s) = DoneFds(r) \cup (IF Head(s).type = "BusDone" THEN {Head(s).fd} ELSE {})
    BY <1>5 DEF DoneFds
<1>. QED BY <1>2, <1>4, <1>5, <1>6 DEF r

Assigns(h, f, w, r) == h[w] = r /\ \A v \in Workers : v # w => h[v] = f[v]

\* A worker starts on a slot, goes on with it or lets it go.
LEMMA BusyStarts ==
    ASSUME NEW f, NEW w \in Workers, NEW r, NEW h, Assigns(h, f, w, r),
           f[w].pc \notin {"run", "push"}, r.pc \in {"run", "push"},
           BusyOnce(f), r.fd \notin BusyFds(f)
    PROVE  /\ BusyOnce(h)
           /\ BusyFds(h) = BusyFds(f) \cup {r.fd}
<1>1. h[w] = r /\ \A v \in Workers : v # w => h[v] = f[v]
    BY DEF Assigns
<1>2. AtWork(h) = AtWork(f) \cup {w} /\ w \notin AtWork(f)
    BY <1>1 DEF AtWork
<1>3. \A v \in AtWork(f) : h[v] = f[v] /\ h[v].fd # r.fd
    BY <1>1, <1>2 DEF BusyFds, AtWork
<1>4. BusyOnce(h)
    BY <1>1, <1>2, <1>3 DEF BusyOnce
<1>5. BusyFds(h) = BusyFds(f) \cup {r.fd}
    BY <1>1, <1>2, <1>3 DEF BusyFds
<1>. QED BY <1>4, <1>5

LEMMA BusyGoesOn ==
    ASSUME NEW f, NEW w \in Workers, NEW r, NEW h, Assigns(h, f, w, r),
           f[w].pc \in {"run", "push"}, r.pc \in {"run", "push"}, r.fd = f[w].fd,
           BusyOnce(f)
    PROVE  /\ BusyOnce(h)
           /\ BusyFds(h) = BusyFds(f)
<1>1. h[w] = r /\ \A v \in Workers : v # w => h[v] = f[v]
    BY DEF Assigns
<1>2. AtWork(h) = AtWork(f) /\ \A v \in AtWork(f) : h[v].fd = f[v].fd
    BY <1>1 DEF AtWork
<1>3. BusyOnce(h)
    BY <1>2 DEF BusyOnce
<1>4. BusyFds(h) = BusyFds(f)
    BY <1>2 DEF BusyFds
<1>. QED BY <1>3, <1>4

LEMMA BusyEnds ==
    ASSUME NEW f, NEW w \in Workers, NEW r, NEW h, Assigns(h, f, w, r),
           f[w].pc \in {"run", "push"}, r.pc \notin {"run", "push"}, BusyOnce(f)
    PROVE  /\ BusyOnce(h)
           /\ BusyFds(f) = BusyFds(h) \cup {f[w].fd}
           /\ f[w].fd \notin BusyFds(h)
<1>1. h[w] = r /\ \A v \in Workers : v # w => h[v] = f[v]
    BY DEF Assigns
<1>2. AtWork(f) = AtWork(h) \cup {w} /\ w \notin AtWork(h)
    BY <1>1 DEF AtWork
<1>3. \A v \in AtWork(h) : h[v] = f[v] /\ h[v].fd # f[w].fd
    BY <1>1, <1>2 DEF BusyOnce, AtWork
<1>4. BusyOnce(h)
    BY <1>2, <1>3 DEF BusyOnce
<1>5. BusyFds(f) = BusyFds(h) \cup {f[w].fd} /\ f[w].fd \notin BusyFds(h)
    BY <1>2, <1>3 DEF BusyFds
<1>. QED BY <1>4, <1>5
-----------------------------------------------------------------------------
(* The parts of the invariant a step may leave alone *)

LEMMA ClientsSame ==
    ASSUME ClientsOK, AnswersMatch,
           \A c \in Conns : /\ cli'[c].got = cli[c].got
                            /\ cli'[c].peer = "new" => cli[c].peer = "new"
    PROVE  ClientsOK' /\ AnswersMatch'
BY DEF ClientsOK, AnswersMatch

LEMMA UnansweredKept ==
    ASSUME TypeSlots, Unanswered, \A fd \in Fds : own'[fd] \in {own[fd], NoConn},
           \A fd \in Slots : users[fd].open => users'[fd].open \/ own'[fd] = NoConn,
           \A c \in Conns : cli'[c].got = cli[c].got
    PROVE  Unanswered'
<1> SUFFICES ASSUME NEW fd \in Fds, own'[fd] # NoConn,
                    ~(fd \in Slots /\ users'[fd].open)
             PROVE  cli'[own'[fd]].got = <<>>
    BY DEF Unanswered
<1>1. own'[fd] = own[fd] /\ own[fd] \in Conns /\ own[fd] # NoConn
    BY DEF TypeSlots
<1>2. ~(fd \in Slots /\ users[fd].open)
    OBVIOUS
<1>. QED BY <1>1, <1>2 DEF Unanswered

LEMMA NoFileFacts == NoFile \notin Conns \X Reqs
BY DEF NoFile

\* One slot changes the file it holds, or lets it go.
LEMMA FileReplaced ==
    ASSUME FilesOK, NEW fd \in Slots, NEW f, users'[fd].file = f,
           f # NoFile => users'[fd].open /\ f[1] = own'[fd] /\ own'[fd] = own[fd],
           files' = (files \ {users[fd].file}) \cup ({f} \ {NoFile}),
           \A g \in Slots \ {fd} : users'[g] = users[g] /\ own'[g] = own[g],
           \A g \in Slots \ {fd} : users[fd].open /\ users[g].open => own[g] # own[fd]
    PROVE  FilesOK'
<1>1. \A g \in Slots \ {fd} : users[g].file = NoFile \/ users[g].file # users[fd].file
    BY DEF FilesOK
<1>2. FilesConserved'
    BY <1>1 DEF FilesOK, FilesConserved
<1>. QED BY <1>2 DEF FilesOK

LEMMA FilesSame ==
    ASSUME FilesOK, files' = files,
           \A g \in Slots : /\ users'[g].file = users[g].file
                            /\ users[g].open /\ users[g].file # NoFile =>
                                  users'[g].open /\ own'[g] = own[g]
    PROVE  FilesOK'
<1>1. FilesConserved'
    BY DEF FilesOK, FilesConserved
<1>. QED BY <1>1 DEF FilesOK

\* Connections have their own descriptors.
LEMMA Owners ==
    ASSUME IInv, EInv, NEW fd \in Slots, users[fd].open
    PROVE  /\ fd \in Fds /\ own[fd] \in Conns /\ own[fd] # NoConn
           /\ \A g \in Slots \ {fd} : own[g] # own[fd]
BY SlotsAssumption, ConnsAssumption DEF IInv, OpenOwned, EInv, OwnedOnce

\* Events stay where they are, or are put away, or what has been done about
\* the one being handled is taken off it.
LEMMA FewerEvents ==
    ASSUME OneEvent, batch' \subseteq batch,
           cur' \in {cur, NoEvent} \/ (cur'.src = cur.src /\ cur'.ev \subseteq cur.ev)
    PROVE  OneEvent' /\ \A g \in Slots : SameEvents(g)
<1>1. \A g \in Slots : g # NoEvent.src
    BY SourcesAssumption DEF NoEvent
<1>. QED BY <1>1 DEF OneEvent, SameEvents, AtHand

\* The work under way is the same.
LEMMA WorkUnchanged ==
    ASSUME OneWork, UNCHANGED <<tasks, wk, msgs, q>>
    PROVE  OneWork' /\ \A g : SameWork(g)
<1>1. UNCHANGED <<Work, Busy, Dones>>
    BY DEF Work, Busy, Dones, BusDones
<1>2. \A g : SameWork(g)
    BY <1>1 DEF SameWork, InFlight
<1>3. OneWork'
    BY DEF OneWork
<1>. QED BY <1>2, <1>3

\* A step that concerns slot fd at most.
LEMMA SlotStep ==
    ASSUME AInv, NEW fd, fd \in Slots => AtSlot(fd)',
           \A g \in Slots \ {fd} : SameSlot(g) /\ SameWork(g) /\ SameEvents(g),
           OneWork', OneEvent', ClientsOK', AnswersMatch', Unanswered', FilesOK'
    PROVE  PInv'
<1>1. \A g \in Slots \ {fd} : AtSlot(g)'
    BY Elsewhere DEF AInv, IInv, PInv
<1>. QED BY <1>1 DEF PInv

\* What the clients may do at any time: send more, take what they are sent, or
\* leave.
ClientGoesOn(c) ==
    /\ cli'[c].got = cli[c].got
    /\ cli'[c].peer = "new" => cli[c].peer = "new"
    /\ \A n \in Pieces : n <= cli[c].sent => n <= cli'[c].sent

\* A step that concerns no slot.
LEMMA CalmStep ==
    ASSUME AInv, UNCHANGED <<users, timer, own, files>>,
           \A g \in Slots : ep'[g].mask = ep[g].mask,
           \A c \in Conns : ClientGoesOn(c),
           OneWork', OneEvent', \A g \in Slots : SameWork(g) /\ SameEvents(g)
    PROVE  PInv' /\ SlotsApart
<1>1. ASSUME NEW g \in Slots PROVE SameSlot(g)
    BY Owners DEF AInv, SameSlot, ClientGoesOn
<1>2. \A g \in Slots : AtSlot(g)'
    BY <1>1, Elsewhere DEF AInv, IInv, PInv
<1>3. ClientsOK' /\ AnswersMatch'
    BY ClientsSame DEF AInv, PInv, ClientGoesOn
<1>4. Unanswered'
    BY UnansweredKept DEF AInv, IInv, PInv, ClientGoesOn
<1>5. FilesOK'
    BY FilesSame DEF AInv, PInv
<1>. QED BY <1>2, <1>3, <1>4, <1>5 DEF PInv, SlotsApart

LEMMA Standstill == ASSUME cli' = cli PROVE \A c \in Conns : ClientGoesOn(c)
BY DEF ClientGoesOn

\* What is known of a slot somebody works on.
LEMMA FlyingFacts ==
    ASSUME IInv, PInv, NEW fd \in Slots, InFlight(fd)
    PROVE  /\ users[fd].open /\ Taken(fd) /\ ~timer[fd] /\ users[fd].rd <= Sent(fd)
           /\ \A e \in AtHand : e.src # fd
<1>1. AtSlot(fd)
    BY DEF PInv
<1>2. PICK x \in Work : x.fd = fd
    BY DEF InFlight
<1>3. users[fd].open
    <2>1. CASE x \in Elements(tasks)
        BY <1>1, <1>2, <2>1 DEF AtSlot, TaskOK, Pinned
    <2>2. ASSUME NEW w \in Busy, x = wk[w] PROVE users[fd].open
        BY <1>1, <1>2, <2>2 DEF AtSlot, WorkerOK, Pinned, Busy
    <2>3. CASE x \in Dones
        BY <1>1, <1>2, <2>3 DEF AtSlot, MsgOK, Pinned
    <2>. QED BY <2>1, <2>2, <2>3 DEF Work, Dones
<1>4. Taken(fd) /\ ~timer[fd] /\ users[fd].rd <= Sent(fd)
    BY <1>1, <1>3 DEF AtSlot, Phase
<1>5. \A e \in AtHand : e.src # fd
    BY <1>1, <1>3 DEF AtSlot, EventOK
<1>. QED BY <1>3, <1>4, <1>5

\* A slot nobody works on after the step.
LEMMA FreeSlot ==
    ASSUME NEW fd, ~InFlight(fd)', Phase(fd)',
           \A e \in AtHand' : e.src = fd => EventOK(fd, e)'
    PROVE  AtSlot(fd)'
<1>1. \A x \in Work' : x.fd # fd
    BY DEF InFlight
<1>2. /\ \A x \in Elements(tasks)' : x.fd # fd
      /\ \A w \in Busy' : wk'[w].fd # fd
      /\ \A m \in Dones' : m.fd # fd
    BY <1>1 DEF Work, Dones
<1>. QED BY <1>2 DEF AtSlot
-----------------------------------------------------------------------------
(* prepare_io_read() *)

LEMMA PieceNumbers ==
    ASSUME NEW g \in Nat
    PROVE  /\ PieceReq(2 * g + 1) = g + 1 /\ PieceReq(2 * g + 2) = g + 1
           /\ IsLine(2 * g + 1) /\ ~IsLine(2 * g + 2)
BY DEF PieceReq, IsLine

\* What process_read() returns: a request that is not complete, or the answer
\* it deserves.
ReadResult(fd, r, g, n) ==
    /\ r.u.open /\ r.u.rd = n
    /\ \/ r.ret = "NoRequest" /\ IsReading(r.u, g)
       \/ /\ r.ret = Answer[g + 1] /\ r.ret \in Codes
          /\ IsPending([r.u EXCEPT !.code = r.ret], g)
          /\ r.u.file = IF r.ret = "FileRequest" THEN <<own[fd], g + 1>> ELSE NoFile

\* The request line is read.
LEMMA ParseLine ==
    ASSUME NEW fd, own[fd] \in Conns, NEW u, ConnOK(u), u.open, u.p < u.rd,
           NEW g \in Nat, IsParsing(u, g), u.p = 2 * g,
           NEW r, r = ParsePiece(fd, u)
    PROVE  /\ r.u.rd = u.rd /\ r.u.p = 2 * g + 1
           /\ IF Answer[g + 1] = "BadRequest"
              THEN /\ r.ret = "BadRequest"
                   /\ r.u.url = 0 /\ r.u.file = NoFile
              ELSE r.ret = "NoRequest" /\ IsParsing(r.u, g)
<1> DEFINE v == [u EXCEPT !.p = 2 * g + 1]
           line == [v EXCEPT !.chk = "HEADER", !.url = g + 1,
                             !.linger = g + 1 \in KeepAlive]
<1>1. u \in Conn /\ u.chk = "LINE" /\ u.url = 0 /\ u.resp = NoResponse /\ u.file = NoFile
    BY DEF ConnOK, IsParsing
<1>2. /\ v.chk = "LINE" /\ v.p = 2 * g + 1 /\ v.rd = u.rd
      /\ v.resp = NoResponse /\ v.file = NoFile /\ v.url = 0
    BY <1>1 DEF Conn
<1>3. /\ line.chk = "HEADER" /\ line.url = g + 1 /\ line.p = 2 * g + 1
      /\ line.rd = u.rd /\ line.resp = NoResponse /\ line.file = NoFile
    BY <1>1 DEF Conn
<1>4. u.p + 1 = 2 * g + 1 /\ PieceReq(2 * g + 1) = g + 1 /\ IsLine(2 * g + 1)
    BY PieceNumbers
<1>5. CASE Answer[g + 1] = "BadRequest"
    <2>1. r = [ret |-> "BadRequest", u |-> v]
        BY <1>2, <1>4, <1>5 DEF ParsePiece
    <2> HIDE DEF v
    <2>. QED BY <1>2, <1>5, <2>1
<1>6. CASE Answer[g + 1] # "BadRequest"
    <2>1. r = [ret |-> "NoRequest", u |-> line]
        BY <1>2, <1>4, <1>6 DEF ParsePiece
    <2> HIDE DEF line
    <2>. QED BY <1>3, <1>6, <2>1 DEF IsParsing
<1>. QED BY <1>5, <1>6

\* The headers are read: the resource is located.
LEMMA ParseHeaders ==
    ASSUME NEW fd, own[fd] \in Conns, NEW u, ConnOK(u), u.open,
           NEW g \in Nat, g + 1 \in Reqs, IsParsing(u, g), u.p = 2 * g + 1,
           NEW n \in Nat, u.rd = n, 2 * g + 2 <= n
    PROVE  ReadResult(fd, ParsePiece(fd, u), g, n)
<1> DEFINE r == ParsePiece(fd, u)
           v == [u EXCEPT !.p = 2 * g + 2]
           k == Answer[g + 1]
<1>1. /\ u \in Conn /\ u.chk = "HEADER" /\ u.url = g + 1 /\ u.file = NoFile
      /\ k # "BadRequest"
    BY DEF ConnOK, IsParsing
<1>2. /\ v.chk = "HEADER" /\ v.p = 2 * g + 2 /\ v.rd = n /\ v.url = g + 1
      /\ v.file = NoFile
    BY <1>1 DEF Conn
<1>3. u.p + 1 = 2 * g + 2 /\ IsLine(2 * g + 2) = FALSE
    BY PieceNumbers DEF IsLine
<1>4. r = DoRequest(fd, v)
    BY <1>2, <1>3 DEF ParsePiece
<1>5. ParseOK(u, r)
    BY ParsePieceTypes
<1>6. k \in Codes
    BY AnswerFacts
<1>7. /\ r.ret = k /\ r.u.p = 2 * g + 2 /\ r.u.rd = n /\ r.u.url = g + 1
      /\ r.u.file = IF k = "FileRequest" THEN <<own[fd], g + 1>> ELSE NoFile
    <2>1. CASE k = "FileRequest"
        <3> DEFINE x == [v EXCEPT !.file = <<own[fd], g + 1>>]
        <3>1. x.p = v.p /\ x.rd = v.rd /\ x.url = v.url /\ x.file = <<own[fd], g + 1>>
            BY <1>1 DEF Conn
        <3>2. r = [ret |-> k, u |-> x]
            BY <1>2, <1>4, <2>1 DEF DoRequest
        <3> HIDE DEF x
        <3>. QED BY <1>2, <2>1, <3>1, <3>2
    <2>2. CASE k # "FileRequest"
        <3>1. r = [ret |-> k, u |-> v]
            BY <1>2, <1>4, <2>2 DEF DoRequest
        <3> HIDE DEF v
        <3>. QED BY <1>2, <2>2, <3>1
    <2>. QED BY <2>1, <2>2
<1> HIDE DEF r
<1> DEFINE y == [r.u EXCEPT !.code = r.ret]
<1>8. y.code = k /\ y.p = r.u.p /\ y.rd = r.u.rd /\ y.url = r.u.url
    BY <1>5, <1>7 DEF ParseOK, ConnOK, Conn
<1> HIDE DEF y
<1>9. IsPending(y, g)
    BY <1>1, <1>7, <1>8 DEF IsPending, IsTaken
<1>10. ReadResult(fd, r, g, n)
    BY <1>5, <1>6, <1>7, <1>9 DEF ReadResult, ParseOK, y
<1>. QED BY <1>10 DEF r

\* One request at most is taken out of the buffer of u.
LEMMA ReadNext ==
    ASSUME NEW fd, own[fd] \in Conns, NEW u, ConnOK(u), u.open,
           NEW g \in Nat, IsParsing(u, g), u.p <= u.rd
    PROVE  ReadResult(fd, ProcessRead(fd, u), g, u.rd)
<1> DEFINE r == ProcessRead(fd, u)
           r1 == ParsePiece(fd, u)
<1>1. u.p \in Nat /\ u.rd \in Nat /\ u.rd <= 2 * Len(Answer)
    BY AnswerFacts DEF ConnOK, Conn, Pieces
<1>2. u.p = 2 * g \/ u.p = 2 * g + 1
    BY DEF IsParsing
<1>3. CASE u.p = u.rd
    <2>1. r = [ret |-> "NoRequest", u |-> u]
        BY <1>1, <1>3 DEF ProcessRead
    <2>. QED BY <1>1, <1>3, <2>1 DEF ReadResult, IsReading
<1>4. CASE u.p # u.rd
    <2>0. PICK n \in Nat : n = u.rd
        BY <1>1
    <2>1. /\ u.p < u.rd /\ g + 1 \in Reqs /\ 2 * g + 1 <= n
          /\ u.p = 2 * g + 1 \/ n # 2 * g + 1 => 2 * g + 2 <= n
        <3>1. PICK m \in Nat, l \in Nat : m = u.p /\ l = Len(Answer)
            BY <1>1, AnswerFacts
        <3>2. /\ m <= n /\ m # n /\ n <= 2 * l
              /\ m = 2 * g \/ m = 2 * g + 1
            BY <1>1, <1>2, <1>4, <2>0, <3>1
        <3>3. /\ m < n /\ 2 * g + 1 <= n /\ g + 1 <= l
              /\ m = 2 * g + 1 \/ n # 2 * g + 1 => 2 * g + 2 <= n
            BY <3>2
        <3>4. g + 1 \in Reqs
            BY <3>1, <3>3, AnswerFacts
        <3>. QED BY <2>0, <3>1, <3>3, <3>4
    <2>2. r = IF r1.ret # "NoRequest" \/ r1.u.p >= r1.u.rd THEN r1
              ELSE ParsePiece(fd, r1.u)
        BY <1>1, <2>1 DEF ProcessRead
    <2>3. ParseOK(u, r1)
        BY <2>1, ParsePieceTypes
    <2>4. ConnOK(r1.u) /\ r1.u.open
        BY <2>3 DEF ParseOK
    <2>5. CASE u.p = 2 * g + 1
        <3>1. ReadResult(fd, r1, g, n)
            BY <2>0, <2>1, <2>5, ParseHeaders
        <3> HIDE DEF r1
        <3>2. r1.ret # "NoRequest" \/ r1.u.p >= r1.u.rd
            <4>1. r1.u.p \in Nat /\ r1.u.rd \in Nat
                BY <2>4, AnswerFacts DEF ConnOK, Conn, Pieces
            <4>2. r1.ret = "NoRequest" => r1.u.p = r1.u.rd
                BY <3>1 DEF ReadResult, IsReading, Codes
            <4>. QED BY <4>1, <4>2
        <3>. QED BY <2>0, <2>2, <3>1, <3>2
    <2>6. CASE u.p = 2 * g
        <3>1. /\ r1.u.rd = u.rd /\ r1.u.p = 2 * g + 1
              /\ IF Answer[g + 1] = "BadRequest"
                 THEN /\ r1.ret = "BadRequest" /\ r1.u.url = 0 /\ r1.u.file = NoFile
                 ELSE r1.ret = "NoRequest" /\ IsParsing(r1.u, g)
            BY <2>1, <2>6, ParseLine
        <3> HIDE DEF r1
        <3>2. CASE Answer[g + 1] = "BadRequest"
            <4>1. r = r1
                BY <2>2, <3>1, <3>2
            <4> DEFINE y == [r1.u EXCEPT !.code = r1.ret]
            <4>2. y.code = r1.ret /\ y.p = r1.u.p /\ y.rd = r1.u.rd /\ y.url = r1.u.url
                BY <2>4 DEF ConnOK, Conn
            <4> HIDE DEF y
            <4>3. IsPending(y, g)
                BY <2>0, <2>1, <3>1, <3>2, <4>2 DEF IsPending, IsTaken
            <4>. QED BY <2>4, <3>1, <3>2, <4>1, <4>3 DEF ReadResult, y, Codes
        <3>3. CASE Answer[g + 1] # "BadRequest" /\ n = 2 * g + 1
            <4>1. r = r1
                BY <2>0, <2>2, <3>1, <3>3
            <4>. QED BY <2>0, <2>4, <3>1, <3>3, <4>1 DEF ReadResult, IsReading
        <3>4. CASE Answer[g + 1] # "BadRequest" /\ n # 2 * g + 1
            <4>1. r = ParsePiece(fd, r1.u)
                BY <2>0, <2>1, <2>2, <3>1, <3>4
            <4>2. ReadResult(fd, ParsePiece(fd, r1.u), g, n)
                BY <2>0, <2>1, <2>4, <3>1, <3>4, ParseHeaders
            <4>. QED BY <2>0, <3>4, <4>1, <4>2
        <3>. QED BY <3>2, <3>3, <3>4
    <2>. QED BY <1>2, <2>5, <2>6
<1>. QED BY <1>3, <1>4
-----------------------------------------------------------------------------
(* Steps that concern no slot *)

LEMMA LoopHeadCalm == AInv /\ LoopHead => PInv' /\ SlotsApart
<1> SUFFICES ASSUME AInv, LoopHead PROVE PInv' /\ SlotsApart
    OBVIOUS
<1>1. UNCHANGED <<users, timer, ep, own, files, cli, tasks, wk, msgs, q, batch, cur>>
    BY DEF LoopHead, slotVars, mailVars, poolVars
<1>2. OneWork' /\ \A g : SameWork(g)
    BY <1>1, WorkUnchanged DEF AInv, PInv
<1>3. OneEvent' /\ \A g \in Slots : SameEvents(g)
    BY <1>1, FewerEvents DEF AInv, PInv
<1>. QED BY <1>1, <1>2, <1>3, Standstill, CalmStep

LEMMA DrainEventFdCalm == AInv /\ DrainEventFd => PInv' /\ SlotsApart
<1> SUFFICES ASSUME AInv, DrainEventFd PROVE PInv' /\ SlotsApart
    OBVIOUS
<1>1. /\ UNCHANGED <<users, timer, ep, own, files, cli, tasks, wk, msgs, q, cur>>
      /\ batch' \subseteq batch
    BY DEF DrainEventFd, slotVars, poolVars
<1>2. OneWork' /\ \A g : SameWork(g)
    BY <1>1, WorkUnchanged DEF AInv, PInv
<1>3. OneEvent' /\ \A g \in Slots : SameEvents(g)
    BY <1>1, FewerEvents DEF AInv, PInv
<1>. QED BY <1>1, <1>2, <1>3, Standstill, CalmStep

LEMMA TakeClientEventCalm == AInv /\ TakeClientEvent => PInv' /\ SlotsApart
<1> SUFFICES ASSUME AInv, TakeClientEvent PROVE PInv' /\ SlotsApart
    OBVIOUS
<1>1. UNCHANGED <<users, timer, ep, own, files, cli, tasks, wk, msgs, q>>
    BY DEF TakeClientEvent, slotVars, mailVars, poolVars
<1>2. PICK e \in batch : batch' = batch \ {e} /\ cur' \in {NoEvent, e}
    BY DEF TakeClientEvent
<1>3. OneWork' /\ \A g : SameWork(g)
    BY <1>1, WorkUnchanged DEF AInv, PInv
<1>4. \A g \in Slots : g # NoEvent.src
    BY SourcesAssumption DEF NoEvent
<1>5. OneEvent'
    BY <1>2, <1>4 DEF OneEvent, AInv, PInv
<1>6. \A g \in Slots : SameEvents(g)
    BY <1>2, <1>4 DEF SameEvents, AtHand
<1>. QED BY <1>1, <1>3, <1>5, <1>6, Standstill, CalmStep

\* The mailbox becomes the local queue.
LEMMA SwapMsgsCalm == AInv /\ SwapMsgs => PInv' /\ SlotsApart
<1> SUFFICES ASSUME AInv, SwapMsgs PROVE PInv' /\ SlotsApart
    OBVIOUS
<1>1. /\ UNCHANGED <<users, timer, ep, own, files, cli, tasks, wk, batch, cur>>
      /\ q = <<>> /\ q' = msgs /\ msgs' = <<>>
    BY DEF SwapMsgs, slotVars, poolVars, AInv, IInv, QueueUsed
<1>2. BusDones(<<>>) = {} /\ DoneFds(<<>>) = {} /\ DonesOnce(<<>>)
    BY EmptyElements DEF BusDones, DoneFds, DonesOnce
<1>3. UNCHANGED <<Dones, Busy, Work>>
    BY <1>1, <1>2 DEF Dones, Busy, Work, BusDones
<1>4. \A g : SameWork(g)
    BY <1>1, <1>3 DEF SameWork, InFlight
<1>5. OneWork'
    BY <1>1, <1>2 DEF OneWork, Apart, AInv, PInv
<1>6. OneEvent' /\ \A g \in Slots : SameEvents(g)
    BY <1>1, FewerEvents DEF AInv, PInv
<1>. QED BY <1>1, <1>4, <1>5, <1>6, Standstill, CalmStep

LEMMA StopCalm == AInv /\ (Stop \/ MainWake) => PInv' /\ SlotsApart
<1> SUFFICES ASSUME AInv, Stop \/ MainWake PROVE PInv' /\ SlotsApart
    OBVIOUS
<1>1. UNCHANGED <<users, timer, ep, own, files, cli, tasks, wk, msgs, q, batch, cur>>
    BY DEF Stop, MainWake, slotVars, loopVars, poolVars
<1>2. OneWork' /\ \A g : SameWork(g)
    BY <1>1, WorkUnchanged DEF AInv, PInv
<1>3. OneEvent' /\ \A g \in Slots : SameEvents(g)
    BY <1>1, FewerEvents DEF AInv, PInv
<1>. QED BY <1>1, <1>2, <1>3, Standstill, CalmStep

LEMMA PieceFollows ==
    ASSUME NEW n \in Nat PROVE PieceReq(n + 1) \in Nat /\ n <= 2 * PieceReq(n + 1)
BY DEF PieceReq

\* Whatever clients do, the reactor learns of it from epoll_wait() alone.
LEMMA ClientsCalm == AInv /\ Clients => PInv' /\ SlotsApart
<1> SUFFICES ASSUME AInv, NEW fd \in Slots,
                    ClientSend(fd) \/ ClientRead(fd) \/ ClientLeave(fd)
             PROVE  PInv' /\ SlotsApart
    BY DEF Clients
<1>1. UNCHANGED <<users, timer, own, files, tasks, wk, msgs, q, batch, cur>>
    BY DEF ClientSend, ClientRead, ClientLeave, OthersUnchanged, mailVars, loopVars, poolVars
<1>2. PICK c : c = own[fd]
    OBVIOUS
<1>3. c \in Conns /\ cli \in [Conns -> Client] /\ cli[c] \in Client
    BY <1>2, SlotsAssumption DEF ClientSend, ClientRead, ClientLeave, Reachable, AInv,
       IInv, TypeSlots, TypeRest
<1>4. \A d \in Conns : ClientGoesOn(d)
    <2>1. CASE ClientSend(fd)
        <3>1. PICK n \in Nat : n = cli[c].sent
            BY <1>3, AnswerFacts DEF Client, Pieces
        <3>2. PICK k : k = PieceReq(n + 1)
            OBVIOUS
        <3>3. PICK s : s = IF c \in Fragmented THEN n + 1 ELSE 2 * k
            OBVIOUS
        <3>4. cli' = [cli EXCEPT ![c].sent = s]
            BY <1>2, <2>1, <3>1, <3>2, <3>3 DEF ClientSend, ClientOf
        <3>5. s \in Nat /\ n <= s
            BY <3>1, <3>2, <3>3, PieceFollows
        <3>6. /\ cli'[c].sent = s /\ cli'[c].got = cli[c].got /\ cli'[c].peer = cli[c].peer
              /\ \A d \in Conns \ {c} : cli'[d] = cli[d]
            BY <1>3, <3>4 DEF Client
        <3>7. \A m \in Pieces : m <= n => m <= s
            BY <3>5, AnswerFacts DEF Pieces
        <3>. QED BY <3>1, <3>6, <3>7 DEF ClientGoesOn
    <2>2. CASE ClientRead(fd)
        <3>1. cli' = [cli EXCEPT ![c].full = FALSE]
            BY <1>2, <2>2 DEF ClientRead
        <3>. QED BY <1>3, <3>1 DEF ClientGoesOn, Client
    <2>3. CASE ClientLeave(fd)
        <3>1. PICK how \in Leave : cli' = [cli EXCEPT ![c].peer = how]
            BY <1>2, <2>3 DEF ClientLeave
        <3>2. how # "new"
            BY <3>1, BoundsAssumption
        <3>. QED BY <1>3, <3>1, <3>2 DEF ClientGoesOn, Client
    <2>. QED BY <2>1, <2>2, <2>3
<1>5. \A g \in Slots : ep'[g].mask = ep[g].mask
    <2>1. \E masks : Notify(fd, masks)
        BY DEF ClientSend, ClientRead, ClientLeave
    <2>. QED BY <2>1 DEF Notify, AInv, IInv, TypeSlots, Registration
<1>6. OneWork' /\ \A g : SameWork(g)
    BY <1>1, WorkUnchanged DEF AInv, PInv
<1>7. OneEvent' /\ \A g \in Slots : SameEvents(g)
    BY <1>1, FewerEvents DEF AInv, PInv
<1>. QED BY <1>1, <1>4, <1>5, <1>6, <1>7, CalmStep

\* wakeup() after a completion: the worker is idle again.
LEMMA NotifyWakeCalm == \A w \in Workers : AInv /\ NotifyWake(w) => PInv' /\ SlotsApart
<1> SUFFICES ASSUME NEW w \in Workers, AInv, NotifyWake(w) PROVE PInv' /\ SlotsApart
    OBVIOUS
<1>1. /\ UNCHANGED <<users, timer, ep, own, files, cli, tasks, msgs, q, batch, cur>>
      /\ wk[w].pc = "wake" /\ wk' = [wk EXCEPT ![w] = Idle]
    BY DEF NotifyWake, slotVars, loopVars
<1>2. wk \in [Workers -> WorkerState]
    BY DEF AInv, IInv, TypeRest
<1>3. Busy' = Busy /\ \A v \in Busy : wk'[v] = wk[v]
    BY <1>1, <1>2 DEF Busy, Idle
<1>4. UNCHANGED <<Dones, Work>>
    BY <1>1, <1>3 DEF Dones, Work, BusDones
<1>5. \A g : SameWork(g)
    BY <1>1, <1>3, <1>4 DEF SameWork, InFlight
<1>6. BusyOnce(wk') /\ BusyFds(wk') = BusyFds(wk)
    BY <1>3 DEF AInv, PInv, OneWork, BusyOnce, BusyFds, AtWork, Busy
<1>7. OneWork'
    BY <1>1, <1>6 DEF OneWork, AInv, PInv
<1>8. OneEvent' /\ \A g \in Slots : SameEvents(g)
    BY <1>1, FewerEvents DEF AInv, PInv
<1>. QED BY <1>1, <1>5, <1>7, <1>8, Standstill, CalmStep
-----------------------------------------------------------------------------
(* Workers *)

\* A step of worker w on slot fd that changes nothing but the work itself.
LEMMA WorkerTurn ==
    ASSUME AInv, NEW fd \in Slots, InFlight(fd), NEW w \in Workers, NEW r,
           UNCHANGED <<users, timer, ep, own, files, cli, q, batch, cur>>,
           Assigns(wk', wk, w, r),
           r.pc \in {"run", "push"} => r.fd = fd /\ WorkerOK(r),
           wk[w].pc \in {"run", "push"} => wk[w].fd = fd,
           Elements(tasks') \subseteq Elements(tasks),
           NEW M, BusDones(msgs') = BusDones(msgs) \cup M,
           \A m \in M : m.fd = fd /\ MsgOK(m),
           WorkGoesOn, OneWork'
    PROVE  PInv' /\ SlotsApart
<1>2. \A v \in Workers : wk'[v] = IF v = w THEN r ELSE wk[v]
    BY DEF Assigns
<1>3. /\ users[fd].open /\ Taken(fd) /\ ~timer[fd] /\ users[fd].rd <= Sent(fd)
      /\ \A e \in AtHand : e.src # fd
    BY FlyingFacts DEF AInv
<1>4. AtSlot(fd)
    BY DEF AInv, PInv
<1>5. /\ Given(fd)' = Given(fd) /\ Sent(fd)' = Sent(fd) /\ AtHand' = AtHand
      /\ Dones' = Dones \cup M
    BY DEF Given, Sent, AtHand, Dones, BusDones
<1>6. /\ Taken(fd)' = Taken(fd) /\ Pending(fd)' = Pending(fd)
      /\ Answering(fd)' = Answering(fd)
    BY <1>5 DEF Taken, Pending, Answering
<1>7. AtSlot(fd)'
    <2>1. Phase(fd)'
        BY <1>3, <1>5, <1>6 DEF Phase, WorkGoesOn
    <2>2. ASSUME NEW x \in Elements(tasks)', x.fd = fd PROVE TaskOK(x)'
        <3>1. TaskOK(x)
            BY <1>4, <2>2 DEF AtSlot
        <3>. QED BY <1>6, <2>2, <3>1 DEF TaskOK, Pinned
    <2>3. ASSUME NEW v \in Busy', wk'[v].fd = fd PROVE WorkerOK(wk[v])'
        <3>1. CASE v = w
            <4>1. wk'[v] = r /\ r.fd = fd /\ WorkerOK(r)
                BY <1>2, <2>3, <3>1 DEF Busy
            <4>. QED BY <1>6, <4>1 DEF WorkerOK, Pinned
        <3>2. CASE v # w
            <4>1. wk'[v] = wk[v] /\ WorkerOK(wk[v])
                BY <1>2, <1>4, <2>3, <3>2 DEF Busy, AtSlot
            <4>. QED BY <1>6, <2>3, <4>1 DEF WorkerOK, Pinned
        <3>. QED BY <3>1, <3>2
    <2>4. ASSUME NEW m \in Dones', m.fd = fd PROVE MsgOK(m)'
        <3>1. MsgOK(m)
            BY <1>4, <1>5, <2>4 DEF AtSlot
        <3>. QED BY <1>6, <2>4, <3>1 DEF MsgOK, Pinned
    <2>. QED BY <1>3, <1>5, <2>1, <2>2, <2>3, <2>4 DEF AtSlot
<1>8. ASSUME NEW g \in Slots \ {fd} PROVE SameSlot(g) /\ SameWork(g) /\ SameEvents(g)
    <2>1. \A v \in Busy' : wk'[v].fd = g => v \in Busy /\ wk'[v] = wk[v]
        BY <1>2 DEF Busy
    <2>. QED BY <1>5, <2>1 DEF SameSlot, SameWork, SameEvents, WorkGoesOn
<1>9. OneEvent' /\ ClientsOK' /\ AnswersMatch'
    BY FewerEvents, ClientsSame DEF AInv, PInv
<1>10. Unanswered' /\ FilesOK'
    BY UnansweredKept, FilesSame DEF AInv, IInv, PInv
<1>. QED BY <1>7, <1>8, <1>9, <1>10, SlotStep DEF AInv, SlotsApart

LEMMA TaskStartCalm == \A w \in Workers : AInv /\ TaskStart(w) => PInv' /\ SlotsApart
<1> SUFFICES ASSUME NEW w \in Workers, AInv, TaskStart(w) PROVE PInv' /\ SlotsApart
    OBVIOUS
<1>1. PICK t : t = Head(tasks)
    OBVIOUS
<1>2. /\ UNCHANGED <<users, timer, ep, own, files, cli, msgs, q, batch, cur>>
      /\ wk[w].pc = "idle" /\ tasks # <<>> /\ tasks' = Tail(tasks)
    BY DEF TaskStart, slotVars, mailVars, loopVars
<1>3. tasks \in Seq(Task) /\ wk \in [Workers -> WorkerState]
    BY DEF AInv, IInv, TypeRest
<1>4. /\ t \in Task /\ t.fd \in Slots
      /\ Elements(tasks) = {t} \cup Elements(tasks')
    <2>1. t \in Task /\ Elements(tasks) = {t} \cup Elements(tasks')
        BY <1>1, <1>2, <1>3, TailElements
    <2>. QED BY <2>1 DEF Task
<1>5. TaskOK(t) /\ InFlight(t.fd)
    BY <1>4 DEF AInv, PInv, AtSlot, InFlight, Work
<1>6. PICK r : r = [pc |-> "run", fd |-> t.fd, conn |-> t.conn, code |-> users[t.fd].code]
    OBVIOUS
<1>7. Assigns(wk', wk, w, r)
    BY <1>1, <1>3, <1>5, <1>6 DEF TaskStart, TaskOK, Pinned, Assigns
<1>8. r.pc = "run" /\ r.fd = t.fd /\ WorkerOK(r)
    BY <1>5, <1>6 DEF WorkerOK, TaskOK, Pinned
<1>9. /\ TasksOnce(tasks') /\ t.fd \notin TaskFds(tasks')
      /\ TaskFds(tasks) = TaskFds(tasks') \cup {t.fd}
    BY <1>1, <1>2, <1>3, TasksTail DEF AInv, PInv, OneWork
<1>10. BusyOnce(wk') /\ BusyFds(wk') = BusyFds(wk) \cup {t.fd}
    <2>1. BusyOnce(wk) /\ t.fd \notin BusyFds(wk)
        BY <1>9 DEF AInv, PInv, OneWork, Apart
    <2>. QED BY <1>2, <1>3, <1>7, <1>8, <2>1, BusyStarts
<1>11. OneWork'
    BY <1>2, <1>9, <1>10 DEF OneWork, Apart, AInv, PInv
<1>12. WorkGoesOn
    BY TaskStartInv DEF AInv
<1> PICK M : M = {}
    OBVIOUS
<1>13. /\ BusDones(msgs') = BusDones(msgs) \cup M
       /\ \A n \in M : n.fd = t.fd /\ MsgOK(n)
       /\ Elements(tasks') \subseteq Elements(tasks)
       /\ wk[w].pc \in {"run", "push"} => wk[w].fd = t.fd
    BY <1>2, <1>4
<1>. QED BY <1>2, <1>4, <1>5, <1>7, <1>8, <1>11, <1>12, <1>13, WorkerTurn

\* The work of a busy worker.
LEMMA AtWorkFacts ==
    ASSUME AInv, NEW w \in Workers, wk[w].pc \in {"run", "push"}
    PROVE  wk[w].fd \in Slots /\ InFlight(wk[w].fd) /\ WorkerOK(wk[w])
<1>1. wk[w] \in WorkerState /\ w \in Busy
    BY DEF AInv, IInv, TypeRest, Busy
<1>2. wk[w].fd \in Slots
    BY <1>1 DEF WorkerState
<1>3. InFlight(wk[w].fd)
    BY <1>1 DEF InFlight, Work
<1>. QED BY <1>1, <1>2, <1>3 DEF AInv, PInv, AtSlot

LEMMA TaskThrowCalm == \A w \in Workers : AInv /\ TaskThrow(w) => PInv' /\ SlotsApart
<1> SUFFICES ASSUME NEW w \in Workers, AInv, TaskThrow(w) PROVE PInv' /\ SlotsApart
    OBVIOUS
<1>1. PICK r : r = [pc |-> "push", fd |-> wk[w].fd, conn |-> wk[w].conn, result |-> 2]
    OBVIOUS
<1>2. /\ UNCHANGED <<users, timer, ep, own, files, cli, tasks, msgs, q, batch, cur>>
      /\ wk[w].pc = "run" /\ Assigns(wk', wk, w, r)
    BY <1>1 DEF TaskThrow, PushNext, slotVars, mailVars, loopVars, Assigns, AInv, IInv, TypeRest
<1>3. wk[w].fd \in Slots /\ InFlight(wk[w].fd) /\ WorkerOK(wk[w])
    BY <1>2, AtWorkFacts
<1>4. r.pc = "push" /\ r.fd = wk[w].fd /\ WorkerOK(r)
    BY <1>1, <1>2, <1>3 DEF WorkerOK, Pinned
<1>5. BusyOnce(wk') /\ BusyFds(wk') = BusyFds(wk)
    BY <1>2, <1>4, BusyGoesOn DEF AInv, IInv, TypeRest, PInv, OneWork
<1>6. OneWork'
    BY <1>2, <1>5 DEF OneWork, AInv, PInv
<1>7. WorkGoesOn
    BY TaskThrowInv DEF AInv
<1> PICK M : M = {}
    OBVIOUS
<1>8. /\ BusDones(msgs') = BusDones(msgs) \cup M
      /\ \A n \in M : n.fd = wk[w].fd /\ MsgOK(n)
      /\ Elements(tasks') \subseteq Elements(tasks)
    BY <1>2
<1>. QED BY <1>2, <1>3, <1>4, <1>6, <1>7, <1>8, WorkerTurn

LEMMA NotifyPushCalm == \A w \in Workers : AInv /\ NotifyPush(w) => PInv' /\ SlotsApart
<1> SUFFICES ASSUME NEW w \in Workers, AInv, NotifyPush(w) PROVE PInv' /\ SlotsApart
    OBVIOUS
<1>1. PICK m : m = [type |-> "BusDone", fd |-> wk[w].fd, conn |-> wk[w].conn,
                    result |-> wk[w].result]
    OBVIOUS
<1>2. PICK r : r = [pc |-> "wake"]
    OBVIOUS
<1>3. /\ UNCHANGED <<users, timer, ep, own, files, cli, tasks, q, batch, cur>>
      /\ wk[w].pc = "push" /\ Assigns(wk', wk, w, r) /\ msgs' = Append(msgs, m)
    BY <1>1, <1>2 DEF NotifyPush, slotVars, loopVars, Assigns, AInv, IInv, TypeRest
<1>4. wk[w].fd \in Slots /\ InFlight(wk[w].fd) /\ WorkerOK(wk[w])
    BY <1>3, AtWorkFacts
<1>5. m.type = "BusDone" /\ m.fd = wk[w].fd /\ m \in Message /\ MsgOK(m)
    <2>1. wk[w].conn \in Conns /\ wk[w].result \in {1, 2}
        BY <1>3 DEF AInv, IInv, TypeRest, WorkerState
    <2>. QED BY <1>1, <1>3, <1>4, <2>1 DEF Message, MsgOK, WorkerOK, Pinned
<1>6. r.pc \notin {"run", "push"}
    BY <1>2
<1>7. /\ BusyOnce(wk') /\ BusyFds(wk) = BusyFds(wk') \cup {m.fd}
      /\ m.fd \notin BusyFds(wk')
    BY <1>3, <1>5, <1>6, BusyEnds DEF AInv, IInv, TypeRest, PInv, OneWork
<1>8. /\ DonesOnce(msgs') /\ BusDones(msgs') = BusDones(msgs) \cup {m}
      /\ DoneFds(msgs') = DoneFds(msgs) \cup {m.fd}
    <2>1. DonesOnce(msgs) /\ m.fd \notin DoneFds(msgs) /\ msgs \in Seq(Message)
        BY <1>7 DEF AInv, IInv, TypeRest, PInv, OneWork, Apart
    <2>. QED BY <1>3, <1>5, <2>1, DonesAppend
<1>9. OneWork'
    BY <1>3, <1>7, <1>8 DEF OneWork, Apart, AInv, PInv
<1>10. WorkGoesOn
    BY NotifyPushInv DEF AInv
<1>11. Elements(tasks') \subseteq Elements(tasks) /\ \A n \in {m} : n.fd = wk[w].fd /\ MsgOK(n)
    BY <1>3, <1>5
<1>. QED BY <1>3, <1>4, <1>6, <1>8, <1>9, <1>10, <1>11, WorkerTurn

LEMMA WriteFields ==
    ASSUME NEW u, ConnOK(u), NEW code \in Codes, NEW v, v = ProcessWrite(u, code)
    PROVE  /\ v.resp = [code |-> code, req |-> u.url]
           /\ v.rd = u.rd /\ v.p = u.p /\ v.file = u.file /\ v.open = u.open
           /\ v.linger => u.linger /\ code # "BadRequest"
<1>1. u \in Conn /\ code # "NoRequest"
    BY DEF ConnOK, Codes
<1>. QED BY <1>1 DEF ProcessWrite, Conn

\* run_business_and_prepare_write() leaves the answer in the slot.
LEMMA TaskFinishCalm == \A w \in Workers : AInv /\ TaskFinish(w) => PInv' /\ SlotsApart
<1> SUFFICES ASSUME NEW w \in Workers, AInv, TaskFinish(w) PROVE PInv' /\ SlotsApart
    OBVIOUS
<1>1. PICK fd : fd = wk[w].fd
    OBVIOUS
<1>2. wk[w].pc = "run"
    BY DEF TaskFinish
<1>3. fd \in Slots /\ InFlight(fd) /\ WorkerOK(wk[w])
    BY <1>1, <1>2, AtWorkFacts
<1>4. /\ users[fd].open /\ own[fd] = wk[w].conn
      /\ Pending(fd) /\ wk[w].code = users[fd].code
    BY <1>1, <1>2, <1>3 DEF WorkerOK, Pinned
<1>5. PICK k : k = Given(fd) + 1
    OBVIOUS
<1>6. /\ k \in Reqs /\ wk[w].code = Answer[k] /\ Answer[k] \in Codes
      /\ users[fd].url = IF Answer[k] = "BadRequest" THEN 0 ELSE k
      /\ Answer[k] # "BadRequest" => users[fd].p = 2 * Given(fd) + 2
      /\ Taken(fd)
    BY <1>4, <1>5, AnswerFacts DEF Pending, IsPending, IsTaken, Taken
<1>7. PICK r : r = [pc |-> "push", fd |-> fd, conn |-> wk[w].conn, result |-> 1]
    OBVIOUS
<1>8. wk[w].code # "NoRequest"
    BY <1>6 DEF Codes
<1>9. /\ UNCHANGED <<timer, ep, own, files, cli, tasks, msgs, q, batch, cur>>
      /\ users' = [users EXCEPT ![fd] = ProcessWrite(users[fd], Answer[k])]
      /\ Assigns(wk', wk, w, r)
    BY <1>1, <1>6, <1>7, <1>8 DEF TaskFinish, PushNext, mailVars, loopVars, Assigns,
                                  AInv, IInv, TypeRest
<1>10. /\ users'[fd] = ProcessWrite(users[fd], Answer[k])
       /\ \A g \in Slots \ {fd} : users'[g] = users[g]
    BY <1>3, <1>9 DEF AInv, IInv, TypeSlots
<1>11. /\ users'[fd].resp = Expected(k)
       /\ users'[fd].rd = users[fd].rd /\ users'[fd].p = users[fd].p
       /\ users'[fd].file = users[fd].file /\ users'[fd].open = users[fd].open
       /\ users'[fd].linger => users'[fd].p = 2 * Given(fd) + 2
    <2>1. ConnOK(users[fd])
        BY <1>3 DEF AInv, IInv, TypeSlots, ConnOK
    <2>2. /\ users'[fd].resp = [code |-> Answer[k], req |-> users[fd].url]
          /\ users'[fd].rd = users[fd].rd /\ users'[fd].p = users[fd].p
          /\ users'[fd].file = users[fd].file /\ users'[fd].open = users[fd].open
          /\ users'[fd].linger => Answer[k] # "BadRequest"
        BY <1>6, <1>10, <2>1, WriteFields
    <2>. QED BY <1>6, <2>2 DEF Expected
<1>12. /\ Given(fd)' = Given(fd) /\ Sent(fd)' = Sent(fd) /\ AtHand' = AtHand
       /\ Dones' = Dones
    BY <1>9 DEF Given, Sent, AtHand, Dones, BusDones
<1>13. Taken(fd)' /\ Answering(fd)'
    BY <1>5, <1>6, <1>11, <1>12 DEF Taken, IsTaken, Answering, IsAnswering
<1>14. r.pc = "push" /\ r.fd = fd /\ r.conn = own[fd]
    BY <1>4, <1>7
<1>15. WorkGoesOn
    BY TaskFinishInv DEF AInv
<1>16. /\ ~timer[fd] /\ users[fd].rd <= Sent(fd) /\ \A e \in AtHand : e.src # fd
    BY <1>3, FlyingFacts DEF AInv
<1>17. /\ fd \notin TaskFds(tasks) /\ fd \notin DoneFds(msgs) /\ fd \notin DoneFds(q)
       /\ \A v \in Busy : wk[v].fd = fd => v = w
    <2>1. w \in AtWork(wk)
        BY <1>2 DEF AtWork
    <2>2. fd \in BusyFds(wk)
        BY <1>1, <2>1 DEF BusyFds
    <2>3. \A v \in Busy : wk[v].fd = fd => v = w
        BY <1>1, <2>1 DEF AInv, PInv, OneWork, BusyOnce, Busy, AtWork
    <2>. QED BY <2>2, <2>3 DEF AInv, PInv, OneWork, Apart
<1>18. AtSlot(fd)'
    <2>1. Phase(fd)'
        BY <1>3, <1>9, <1>11, <1>12, <1>13, <1>15, <1>16 DEF Phase, WorkGoesOn
    <2>2. \A x \in Elements(tasks)' : x.fd # fd
        BY <1>9, <1>17 DEF TaskFds
    <2>3. \A m \in Dones' : m.fd # fd
        BY <1>12, <1>17 DEF Dones, DoneFds
    <2>4. ASSUME NEW v \in Busy', wk'[v].fd = fd PROVE WorkerOK(wk[v])'
        <3>1. v = w
            BY <1>9, <1>17, <2>4 DEF Busy, Assigns
        <3>2. wk'[v] = r
            BY <1>9, <3>1 DEF Assigns
        <3>. QED BY <1>4, <1>9, <1>11, <1>13, <1>14, <3>2 DEF WorkerOK, Pinned
    <2>. QED BY <1>12, <1>16, <2>1, <2>2, <2>3, <2>4 DEF AtSlot
<1>19. ASSUME NEW g \in Slots \ {fd} PROVE SameSlot(g) /\ SameWork(g) /\ SameEvents(g)
    <2>1. \A v \in Busy' : wk'[v].fd = g => v \in Busy /\ wk'[v] = wk[v]
        BY <1>9, <1>14 DEF Busy, Assigns
    <2>. QED BY <1>9, <1>10, <1>12, <1>15, <2>1 DEF SameSlot, SameWork, SameEvents, WorkGoesOn
<1>20. OneWork'
    <2>1. BusyOnce(wk') /\ BusyFds(wk') = BusyFds(wk)
        BY <1>1, <1>2, <1>9, <1>14, BusyGoesOn DEF AInv, PInv, OneWork
    <2>. QED BY <1>9, <2>1 DEF OneWork, AInv, PInv
<1>21. OneEvent' /\ ClientsOK' /\ AnswersMatch'
    BY <1>9, FewerEvents, ClientsSame DEF AInv, PInv
<1>22. \A g \in Slots : users'[g].file = users[g].file /\ users'[g].open = users[g].open
    BY <1>10, <1>11
<1>23. Unanswered' /\ FilesOK'
    BY <1>9, <1>22, UnansweredKept, FilesSame DEF AInv, IInv, PInv
<1>24. PInv'
    BY <1>18, <1>19, <1>20, <1>21, <1>23, SlotStep DEF AInv
<1>25. SlotsApart
    <2> SUFFICES ASSUME NEW v \in Workers, wk[v].pc = "run", wk'[v].pc = "run"
                 PROVE  users'[wk[v].fd] = users[wk[v].fd]
        BY DEF SlotsApart
    <2>1. v # w
        BY <1>9, <1>14 DEF Assigns
    <2>2. wk[v].fd # fd /\ wk[v].fd \in Slots
        BY <1>17, <2>1, AtWorkFacts DEF Busy
    <2>. QED BY <1>10, <2>2
<1>. QED BY <1>24, <1>25

LEMMA WorkerCalm == \A w \in Workers : AInv /\ Worker(w) => PInv' /\ SlotsApart
BY TaskStartCalm, TaskFinishCalm, TaskThrowCalm, NotifyPushCalm,
   NotifyWakeCalm DEF Worker
-----------------------------------------------------------------------------
(* The acceptor and the clients *)

\* A slot that is not in use after the step.
LEMMA ClosedSlot ==
    ASSUME AInv, NEW fd \in Slots, ~users'[fd].open, ~InFlight(fd)', SameEvents(fd)
    PROVE  AtSlot(fd)'
<1>1. \A e \in AtHand' : e.src = fd => EventOK(fd, e)'
    BY DEF AInv, PInv, AtSlot, SameEvents, EventOK
<1>2. Phase(fd)'
    BY DEF Phase
<1>. QED BY <1>1, <1>2, FreeSlot

LEMMA DispatchCalm ==
    \A c \in Conns, fd \in Fds : AInv /\ Dispatch(c, fd) => PInv' /\ SlotsApart
<1> SUFFICES ASSUME NEW c \in Conns, NEW fd \in Fds, AInv, Dispatch(c, fd)
             PROVE  PInv' /\ SlotsApart
    OBVIOUS
<1>1. PICK m : m = [type |-> "NewConn", fd |-> fd, conn |-> c]
    OBVIOUS
<1>2. /\ UNCHANGED <<users, timer, ep, files, tasks, wk, q, batch, cur>>
      /\ own[fd] = NoConn /\ own' = [own EXCEPT ![fd] = c]
      /\ cli[c].peer = "new" /\ cli' = [cli EXCEPT ![c].peer = "up"]
      /\ msgs' = Append(msgs, m)
    BY <1>1 DEF Dispatch, loopVars, poolVars
<1>3. own \in [Fds -> Conns \cup {NoConn}] /\ cli \in [Conns -> Client]
    BY DEF AInv, IInv, TypeSlots, TypeRest
<1>4. /\ own'[fd] = c /\ \A g \in Fds \ {fd} : own'[g] = own[g]
      /\ cli'[c].peer = "up"
      /\ \A d \in Conns : cli'[d].got = cli[d].got /\ cli'[d].sent = cli[d].sent
      /\ \A d \in Conns \ {c} : cli'[d] = cli[d]
    BY <1>2, <1>3 DEF Client
<1>5. /\ DonesOnce(msgs') /\ BusDones(msgs') = BusDones(msgs)
      /\ DoneFds(msgs') = DoneFds(msgs)
    <2>1. m \in Message /\ m.type # "BusDone"
        BY <1>1 DEF Message
    <2>2. msgs \in Seq(Message) /\ DonesOnce(msgs)
        BY DEF AInv, IInv, TypeRest, PInv, OneWork
    <2>. QED BY <1>2, <2>1, <2>2, DonesAppend
<1>6. OneWork'
    BY <1>2, <1>5 DEF OneWork, AInv, PInv
<1>7. UNCHANGED <<Work, Busy, Dones>>
    BY <1>2, <1>5 DEF Work, Busy, Dones, BusDones
<1>8. \A g : SameWork(g) /\ (InFlight(g)' <=> InFlight(g))
    BY <1>2, <1>7 DEF SameWork, InFlight
<1>9. OneEvent' /\ \A g \in Slots : SameEvents(g)
    BY <1>2, FewerEvents DEF AInv, PInv
<1>10. ASSUME fd \in Slots PROVE AtSlot(fd)'
    <2>1. ~users[fd].open
        BY <1>2, <1>10, Owners DEF AInv
    <2>2. ~InFlight(fd)
        BY <1>10, <2>1, FlyingFacts DEF AInv
    <2>. QED BY <1>2, <1>8, <1>9, <1>10, <2>1, <2>2, ClosedSlot
<1>11. ASSUME NEW g \in Slots \ {fd} PROVE SameSlot(g)
    <2>1. users[g].open => own[g] \in Conns
        BY Owners DEF AInv
    <2>2. own'[g] = own[g]
        BY <1>4, SlotsAssumption
    <2>. QED BY <1>2, <1>4, <2>1, <2>2 DEF SameSlot
<1>12. ClientsOK' /\ AnswersMatch'
    <2>1. \A d \in Conns : cli'[d].peer = "up" \/ cli'[d].peer = cli[d].peer
        BY <1>4
    <2>2. ClientsOK'
        BY <1>4, <2>1 DEF AInv, PInv, ClientsOK
    <2>3. AnswersMatch'
        BY <1>4 DEF AInv, PInv, AnswersMatch
    <2>. QED BY <2>2, <2>3
<1>13. Unanswered'
    <2> SUFFICES ASSUME NEW g \in Fds, own'[g] # NoConn,
                        ~(g \in Slots /\ users'[g].open)
                 PROVE  cli'[own'[g]].got = <<>>
        BY DEF Unanswered
    <2>1. CASE g = fd
        BY <1>2, <1>4, <2>1 DEF AInv, PInv, ClientsOK
    <2>2. CASE g # fd
        BY <1>2, <1>3, <1>4, <2>2 DEF AInv, PInv, Unanswered
    <2>. QED BY <2>1, <2>2
<1>14. FilesOK'
    <2>1. \A g \in Slots : users[g].open => own'[g] = own[g]
        BY <1>2, <1>4, Owners DEF AInv
    <2>. QED BY <1>2, <2>1, FilesSame DEF AInv, PInv
<1>15. PInv'
    BY <1>6, <1>8, <1>9, <1>10, <1>11, <1>12, <1>13, <1>14, SlotStep DEF AInv
<1>. QED BY <1>2, <1>15 DEF SlotsApart

-----------------------------------------------------------------------------
(* epoll_wait() *)

\* A slot nobody works on is reported for what it waits for, and for that alone.
LEMMA ReadyFacts ==
    ASSUME AInv, NEW g \in Ready, ~InFlight(g), NEW e, e.ev = Flags(g)
    PROVE  EventOK(g, e)
<1>1. /\ g \in Slots /\ ep[g].mask \in {"IN", "OUT"}
      /\ "IN" \in e.ev => ep[g].mask = "IN"
      /\ "OUT" \in e.ev => ep[g].mask = "OUT"
    BY DEF Ready, Listening, Flags
<1>2. Phase(g)
    BY <1>1 DEF AInv, PInv, AtSlot
<1>. QED BY <1>1, <1>2 DEF Phase, EventOK

LEMMA EpollWaitCalm == AInv /\ Silent' /\ EpollWait => PInv' /\ SlotsApart
<1> SUFFICES ASSUME AInv, Silent', EpollWait PROVE PInv' /\ SlotsApart
    OBVIOUS
<1>a. PICK expired \in {{}} \cup (IF Live # {} THEN {{TimerFd}} ELSE {}) :
          batch' = ClientEvents \cup (IF efd THEN {EventFd} ELSE {}) \cup expired
    BY DEF EpollWait
<1>b. expired \subseteq {TimerFd}
    BY <1>a
<1>c. batch' \subseteq ClientEvents \cup {EventFd, TimerFd}
    BY <1>a, <1>b
<1>1. /\ UNCHANGED <<users, timer, own, files, cli, tasks, wk, msgs, q, cur>>
      /\ io = "wait"
      /\ ep' = [fd \in Slots |->
                   IF fd \notin Ready THEN ep[fd]
                   ELSE [ep[fd] EXCEPT !.edge = FALSE,
                                       !.mask = IF ep[fd].oneshot THEN "off" ELSE @]]
    BY DEF EpollWait, mailVars, poolVars
<1>2. cur' = NoEvent
    BY <1>1 DEF AInv, EInv, NothingAtHand
<1>3. /\ NoEvent.src \notin Slots /\ EventFd.src \notin Slots /\ TimerFd.src \notin Slots
    BY SourcesAssumption DEF NoEvent, EventFd, TimerFd
<1>4. ASSUME NEW e \in AtHand', e.src \in Slots
      PROVE  e.src \in Ready /\ e = [src |-> e.src, ev |-> Flags(e.src)]
    <2>1. e \in batch'
        BY <1>2, <1>3, <1>4 DEF AtHand
    <2>2. e \in ClientEvents
        BY <1>c, <1>3, <1>4, <2>1
    <2>3. PICK fd \in Ready : e = [src |-> fd, ev |-> Flags(fd)]
        BY <2>2 DEF ClientEvents
    <2>4. e.src = fd
        BY <2>3
    <2>. QED BY <2>3, <2>4
<1>5. OneEvent'
    <2>1. \A e, f \in batch' : e.src \in Slots /\ e.src = f.src => e = f
        BY <1>4 DEF AtHand
    <2>2. \A e \in batch' : e.src \in Slots => e.src # cur'.src
        BY <1>2, <1>3
    <2>. QED BY <2>1, <2>2 DEF OneEvent
<1>6. OneWork' /\ \A g : SameWork(g) /\ (InFlight(g)' <=> InFlight(g))
    BY <1>1, WorkUnchanged, NoNewWork DEF AInv, PInv
<1>7. ASSUME NEW g \in Slots PROVE AtSlot(g)'
    <2>1. AtSlot(g)
        BY DEF AInv, PInv
    <2>2. ep'[g].mask = ep[g].mask \/ (ep'[g].mask = "off" /\ ep[g].mask \in {"IN", "off"})
        <3>1. ep[g] \in Registration
            BY DEF AInv, IInv, TypeSlots
        <3>2. ep'[g] = IF g \notin Ready THEN ep[g]
                       ELSE [ep[g] EXCEPT !.edge = FALSE,
                                          !.mask = IF ep[g].oneshot THEN "off" ELSE @]
            BY <1>1
        <3>3. ep'[g].mask = ep[g].mask \/ (ep'[g].mask = "off" /\ ep[g].oneshot)
            BY <3>1, <3>2 DEF Registration
        <3>4. ep[g].oneshot => ep[g].mask \in {"IN", "off"}
            BY DEF AInv, EInv, Registered
        <3>. QED BY <3>3, <3>4
    <2>3. /\ Reading(g)' = Reading(g) /\ Answering(g)' = Answering(g)
          /\ Pending(g)' = Pending(g) /\ Taken(g)' = Taken(g) /\ Sent(g)' = Sent(g)
        BY <1>1 DEF Reading, Answering, Pending, Taken, Given, Sent
    <2>4. Phase(g)'
        BY <1>1, <1>6, <2>1, <2>2, <2>3 DEF AtSlot, Phase
    <2>5. ASSUME NEW e \in AtHand', e.src = g PROVE EventOK(g, e)'
        <3>1. g \in Ready /\ e = [src |-> g, ev |-> Flags(g)]
            BY <1>4, <2>5
        <3>2. e.ev = Flags(g)
            BY <3>1
        <3>3. ~InFlight(g)
            BY <1>6, <2>5 DEF Silent, Reported, AtHand
        <3>4. EventOK(g, e)
            BY <3>1, <3>2, <3>3, ReadyFacts
        <3>. QED BY <1>1, <1>6, <2>3, <3>4 DEF EventOK
    <2>6. \A x : x.fd = g => TaskOK(x)' = TaskOK(x) /\ MsgOK(x)' = MsgOK(x)
                             /\ WorkerOK(x)' = WorkerOK(x)
        BY <1>1, <2>3 DEF TaskOK, MsgOK, WorkerOK, Pinned
    <2>7. /\ Elements(tasks)' = Elements(tasks) /\ Busy' = Busy /\ Dones' = Dones
        BY <1>1 DEF Busy, Dones, BusDones
    <2>8. \A w \in Busy' : wk'[w].fd = g => WorkerOK(wk[w])'
        BY <1>1, <2>1, <2>3, <2>7 DEF AtSlot, WorkerOK, Pinned
    <2>. QED BY <2>1, <2>4, <2>5, <2>6, <2>7, <2>8 DEF AtSlot
<1>8. ClientsOK' /\ AnswersMatch'
    BY <1>1, ClientsSame DEF AInv, PInv
<1>9. Unanswered' /\ FilesOK'
    BY <1>1, UnansweredKept, FilesSame DEF AInv, IInv, PInv
<1>. QED BY <1>1, <1>5, <1>6, <1>7, <1>8, <1>9 DEF PInv, SlotsApart
-----------------------------------------------------------------------------
(* close_connection() *)

SameFields(g) == /\ users'[g] = users[g] /\ own'[g] = own[g]
                 /\ ep'[g] = ep[g] /\ timer'[g] = timer[g]

LEMMA ClosedFields ==
    ASSUME IInv, NEW S \in SUBSET Slots, CloseConnections(S)
    PROVE  /\ \A g \in S : ~users'[g].open /\ users'[g].file = NoFile
           /\ \A g \in Slots \ S : SameFields(g)
           /\ \A g \in Fds : own'[g] = IF g \in S /\ users[g].open THEN NoConn ELSE own[g]
           /\ files' = files \ { users[g].file : g \in S }
<1>1. /\ users' = [g \in Slots |-> IF g \in S THEN InitState ELSE users[g]]
      /\ timer' = [g \in Slots |-> timer[g] /\ g \notin S]
      /\ ep' = [g \in Slots |-> IF g \in S THEN NotRegistered ELSE ep[g]]
      /\ own' = [g \in Fds |-> IF g \in S /\ users[g].open THEN NoConn ELSE own[g]]
      /\ files' = files \ { users[g].file : g \in S }
    BY DEF CloseConnections, Invalidate
<1>2. \A g \in S : ~users'[g].open /\ users'[g].file = NoFile
    BY <1>1, InitTypes
<1>3. \A g \in Slots \ S : SameFields(g)
    BY <1>1, SlotsAssumption DEF SameFields, IInv, TypeSlots
<1>4. \A g \in Fds : own'[g] = IF g \in S /\ users[g].open THEN NoConn ELSE own[g]
    BY <1>1
<1>. QED BY <1>1, <1>2, <1>3, <1>4

\* Every file of a closed slot is closed, and no other.
LEMMA FilesClosed ==
    ASSUME AInv, NEW S \in SUBSET Slots, CloseConnections(S)
    PROVE  FilesOK'
<1>1. /\ \A g \in S : ~users'[g].open /\ users'[g].file = NoFile
      /\ \A g \in Slots \ S : users'[g] = users[g] /\ own'[g] = own[g]
      /\ files' = files \ { users[g].file : g \in S }
    BY ClosedFields DEF AInv, SameFields
<1>2. FilesOK /\ files = { users[g].file : g \in Slots } \ {NoFile}
    BY DEF AInv, PInv, FilesOK, FilesConserved
<1>3. \A g \in Slots \ S : \A h \in S : users[g].file = NoFile \/ users[g].file # users[h].file
    <2> SUFFICES ASSUME NEW g \in Slots \ S, NEW h \in S, users[g].file # NoFile,
                        users[g].file = users[h].file
                 PROVE  FALSE
        OBVIOUS
    <2>1. users[g].open /\ users[h].open /\ own[g] = own[h]
        BY <1>2 DEF FilesOK
    <2>. QED BY <2>1, Owners DEF AInv
<1>4. FilesConserved'
    <2>1. ASSUME NEW f \in files' PROVE f \in { users'[g].file : g \in Slots } \ {NoFile}
        <3>1. PICK g \in Slots : f = users[g].file /\ f # NoFile
            BY <1>1, <1>2, <2>1
        <3>2. g \notin S
            BY <1>1, <2>1, <3>1
        <3>. QED BY <1>1, <3>1, <3>2
    <2>2. ASSUME NEW g \in Slots, users'[g].file # NoFile PROVE users'[g].file \in files'
        <3>1. g \notin S /\ users'[g] = users[g]
            BY <1>1, <2>2
        <3>. QED BY <1>1, <1>2, <1>3, <2>2, <3>1
    <2>. QED BY <2>1, <2>2 DEF FilesConserved
<1>5. \A g \in Slots : users'[g].file # NoFile => users'[g].open /\ users'[g].file[1] = own'[g]
    BY <1>1, <1>2 DEF FilesOK
<1>. QED BY <1>4, <1>5 DEF FilesOK

\* Connections without work under way are closed; the last answer of one of
\* them may have gone out in the same step.
LEMMA ClosingStep ==
    ASSUME AInv, NEW S \in SUBSET Slots, CloseConnections(S), wk' = wk,
           \A g \in S : ~InFlight(g)',
           \A g \in Slots \ S : SameWork(g),
           \A g \in Slots : SameEvents(g),
           \A c \in Conns : \/ cli'[c].got = cli[c].got
                            \/ \E g \in S : users[g].open /\ c = own[g],
           \A c \in Conns : cli'[c].sent = cli[c].sent,
           OneWork', OneEvent', ClientsOK', AnswersMatch'
    PROVE  PInv' /\ SlotsApart
<1>1. /\ \A g \in S : ~users'[g].open
      /\ \A g \in Slots \ S : SameFields(g)
      /\ \A g \in Fds : own'[g] = IF g \in S /\ users[g].open THEN NoConn ELSE own[g]
    BY ClosedFields DEF AInv
<1>2. \A g \in S : AtSlot(g)'
    BY <1>1, ClosedSlot
<1>3. ASSUME NEW g \in Slots \ S PROVE AtSlot(g)'
    <2>1. users[g].open => /\ own[g] \in Conns
                           /\ \A h \in S : users[h].open => own[g] # own[h]
        BY Owners DEF AInv
    <2>2. SameSlot(g)
        BY <1>1, <2>1 DEF SameSlot, SameFields
    <2>. QED BY <2>2, Elsewhere DEF AInv, IInv, PInv
<1>4. Unanswered'
    <2> SUFFICES ASSUME NEW g \in Fds, own'[g] # NoConn,
                        ~(g \in Slots /\ users'[g].open)
                 PROVE  cli'[own'[g]].got = <<>>
        BY DEF Unanswered
    <2>1. own'[g] = own[g] /\ ~(g \in Slots /\ users[g].open)
        BY <1>1 DEF SameFields
    <2>2. own[g] \in Conns /\ cli[own[g]].got = <<>>
        BY <2>1 DEF AInv, PInv, Unanswered, IInv, TypeSlots
    <2>3. \A h \in S : users[h].open => own[g] # own[h]
        BY <2>1, SlotsAssumption DEF AInv, EInv, OwnedOnce
    <2>. QED BY <2>1, <2>2, <2>3
<1>5. FilesOK'
    BY FilesClosed
<1>6. SlotsApart
    <2> SUFFICES ASSUME NEW w \in Workers, wk[w].pc = "run"
                 PROVE  users'[wk[w].fd] = users[wk[w].fd]
        BY DEF SlotsApart
    <2>1. wk[w].fd \in Slots
        BY AtWorkFacts
    <2>2. InFlight(wk[w].fd)'
        <3>1. wk[w].fd \in BusyFds(wk')
            BY DEF BusyFds, AtWork
        <3>. QED BY <3>1, InFlightFdsNext
    <2>. QED BY <1>1, <2>1, <2>2 DEF SameFields
<1>. QED BY <1>2, <1>3, <1>4, <1>5, <1>6 DEF PInv

\* No timer runs for a slot somebody works on.
LEMMA HandleTimeoutCalm == AInv /\ HandleTimeout => PInv' /\ SlotsApart
<1> SUFFICES ASSUME AInv, HandleTimeout PROVE PInv' /\ SlotsApart
    OBVIOUS
<1>1. /\ UNCHANGED <<cli, tasks, wk, msgs, q, cur>> /\ batch' \subseteq batch
    BY DEF HandleTimeout, mailVars, poolVars
<1>2. PICK S \in SUBSET Live : CloseConnections(S)
    BY DEF HandleTimeout
<1>3. S \in SUBSET Slots /\ \A g \in S : timer[g]
    BY DEF Live
<1>4. OneWork' /\ \A g : SameWork(g)
    BY <1>1, WorkUnchanged DEF AInv, PInv
<1>5. OneEvent' /\ \A g \in Slots : SameEvents(g)
    BY <1>1, FewerEvents DEF AInv, PInv
<1>6. \A g \in S : ~InFlight(g)'
    BY <1>3, <1>4, NoNewWork, FlyingFacts DEF AInv
<1>7. ClientsOK' /\ AnswersMatch'
    BY <1>1, ClientsSame DEF AInv, PInv
<1>. QED BY <1>1, <1>2, <1>3, <1>4, <1>5, <1>6, <1>7, ClosingStep
-----------------------------------------------------------------------------
(* The mailbox *)

LEMMA NextMsgCalm ==
    ASSUME AInv, NEW type, NextMsg(type), NEW fd, fd = Head(q).fd
    PROVE  /\ OneWork' /\ OneEvent'
           /\ \A g \in Slots \ {fd} : SameWork(g)
           /\ \A g \in Slots : SameEvents(g)
           /\ type = "BusDone" => /\ fd \in Slots /\ MsgOK(Head(q)) /\ InFlight(fd)
                                  /\ ~InFlight(fd)'
           /\ type # "BusDone" => SameWork(fd)
           /\ ClientsOK' /\ AnswersMatch'
           /\ UNCHANGED <<tasks, wk, msgs, batch, cur, cli>>
<1>1. /\ UNCHANGED <<tasks, wk, msgs, batch, cur, cli>>
      /\ Head(q) \in Message /\ Head(q).type = type /\ Head(q) \in Elements(q)
    BY NextMsgFacts DEF AInv
<1>2. q # <<>> /\ q' = Tail(q) /\ q \in Seq(Message) /\ DonesOnce(q)
    BY DEF NextMsg, AInv, IInv, TypeRest, PInv, OneWork
<1>3. /\ DonesOnce(q')
      /\ BusDones(q) = BusDones(q') \cup (IF type = "BusDone" THEN {Head(q)} ELSE {})
      /\ DoneFds(q) = DoneFds(q') \cup (IF type = "BusDone" THEN {fd} ELSE {})
      /\ type = "BusDone" => fd \notin DoneFds(q')
    BY <1>1, <1>2, DonesTail
<1>4. OneWork'
    BY <1>1, <1>3 DEF OneWork, Apart, AInv, PInv
<1>5. OneEvent' /\ \A g \in Slots : SameEvents(g)
    BY <1>1, FewerEvents DEF AInv, PInv
<1>6. UNCHANGED <<Busy, BusyFds(wk), TaskFds(tasks), DoneFds(msgs), BusDones(msgs)>>
    BY <1>1 DEF Busy, BusyFds, AtWork, TaskFds, DoneFds, BusDones
<1>7. ASSUME NEW g, g # fd \/ type # "BusDone" PROVE SameWork(g)
    <2>1. InFlight(g) => InFlight(g)'
        BY <1>3, <1>6, <1>7, InFlightFds, InFlightFdsNext
    <2>2. Dones' \subseteq Dones
        BY <1>3, <1>6 DEF Dones
    <2>. QED BY <1>1, <1>6, <2>1, <2>2 DEF SameWork
<1>8. ASSUME type = "BusDone"
      PROVE  fd \in Slots /\ MsgOK(Head(q)) /\ InFlight(fd) /\ ~InFlight(fd)'
    <2>1. Head(q) \in Dones /\ fd \in DoneFds(q) /\ fd \in Slots
        BY <1>1, <1>3, <1>8 DEF Dones, Message, BusDones
    <2>2. MsgOK(Head(q))
        BY <2>1 DEF AInv, PInv, AtSlot
    <2>3. /\ fd \notin TaskFds(tasks) /\ fd \notin BusyFds(wk)
          /\ fd \notin DoneFds(msgs) /\ fd \notin DoneFds(q')
        BY <1>3, <1>8, <2>1 DEF AInv, PInv, OneWork, Apart
    <2>. QED BY <1>6, <2>1, <2>2, <2>3, InFlightFds, InFlightFdsNext
<1>9. ClientsOK' /\ AnswersMatch'
    BY <1>1, ClientsSame DEF AInv, PInv
<1>. QED BY <1>1, <1>4, <1>5, <1>7, <1>8, <1>9
-----------------------------------------------------------------------------
(* Connections that stay *)

LEMMA KeptFields ==
    ASSUME IInv, NEW fd \in Slots, NEW u, NEW t, NEW e, Keep(fd, u, t, e)
    PROVE  /\ users'[fd] = u /\ timer'[fd] = t /\ ep'[fd] = e /\ own' = own
           /\ \A g \in Slots \ {fd} : SameFields(g)
<1>1. /\ users' = [users EXCEPT ![fd] = u]
      /\ timer' = [timer EXCEPT ![fd] = t]
      /\ ep' = [ep EXCEPT ![fd] = e]
      /\ own' = own
    BY DEF Keep
<1>. QED BY <1>1 DEF IInv, TypeSlots, SameFields

LEMMA KeepingStep ==
    ASSUME AInv, NEW fd \in Slots, NEW u, NEW t, NEW e, Keep(fd, u, t, e), u.open,
           u = users[fd] \/ ~InFlight(fd), wk' = wk,
           AtSlot(fd)',
           \A g \in Slots \ {fd} : SameWork(g) /\ SameEvents(g),
           \A c \in Conns : \/ cli'[c].got = cli[c].got
                            \/ users[fd].open /\ c = own[fd],
           \A c \in Conns : cli'[c].sent = cli[c].sent,
           OneWork', OneEvent', ClientsOK', AnswersMatch', FilesOK'
    PROVE  PInv' /\ SlotsApart
<1>1. /\ users'[fd] = u /\ own' = own
      /\ \A g \in Slots \ {fd} : SameFields(g)
    BY KeptFields DEF AInv
<1>2. ASSUME NEW g \in Slots \ {fd} PROVE AtSlot(g)'
    <2>1. users[g].open => own[g] \in Conns /\ (users[fd].open => own[g] # own[fd])
        BY Owners DEF AInv
    <2>2. SameSlot(g)
        BY <1>1, <2>1 DEF SameSlot, SameFields
    <2>. QED BY <2>2, Elsewhere DEF AInv, IInv, PInv
<1>3. Unanswered'
    <2> SUFFICES ASSUME NEW g \in Fds, own'[g] # NoConn,
                        ~(g \in Slots /\ users'[g].open)
                 PROVE  cli'[own'[g]].got = <<>>
        BY DEF Unanswered
    <2>1. own'[g] = own[g] /\ ~(g \in Slots /\ users[g].open) /\ g # fd
        BY <1>1 DEF SameFields
    <2>2. own[g] \in Conns /\ cli[own[g]].got = <<>>
        BY <2>1 DEF AInv, PInv, Unanswered, IInv, TypeSlots
    <2>3. users[fd].open => own[g] # own[fd]
        BY <2>1, SlotsAssumption DEF AInv, EInv, OwnedOnce
    <2>. QED BY <2>1, <2>2, <2>3
<1>4. SlotsApart
    <2> SUFFICES ASSUME NEW w \in Workers, wk[w].pc = "run"
                 PROVE  users'[wk[w].fd] = users[wk[w].fd]
        BY DEF SlotsApart
    <2>1. wk[w].fd \in Slots /\ InFlight(wk[w].fd)
        BY AtWorkFacts
    <2>. QED BY <1>1, <2>1 DEF SameFields
<1>. QED BY <1>2, <1>3, <1>4 DEF PInv

\* A connection arrives in a free slot.
LEMMA HandleNewConnCalm == AInv /\ HandleNewConn => PInv' /\ SlotsApart
<1> SUFFICES ASSUME AInv, HandleNewConn PROVE PInv' /\ SlotsApart
    OBVIOUS
<1>1. PICK fd : fd = Head(q).fd
    OBVIOUS
<1>2. NextMsg("NewConn")
    BY DEF HandleNewConn
<1>3. /\ OneWork' /\ OneEvent'
      /\ \A g \in Slots : SameWork(g) /\ SameEvents(g)
      /\ ClientsOK' /\ AnswersMatch'
      /\ UNCHANGED <<tasks, wk, msgs, batch, cur, cli>>
    BY <1>1, <1>2, NextMsgCalm
<1>4. own[fd] \in Conns /\ (fd \in Slots => ~users[fd].open) /\ fd \in Fds
    <2>1. Head(q) \in Message /\ Head(q).type = "NewConn" /\ Held(Head(q))
        BY <1>2, NextMsgFacts DEF AInv
    <2>. QED BY <1>1, <2>1 DEF Held, Message
<1>5. CASE fd \in Slots
    <2>1. Keep(fd, InitConn, TRUE, AddFd) /\ files' = files
        BY <1>1, <1>5 DEF HandleNewConn
    <2>2. /\ users'[fd] = InitConn /\ ep'[fd] = AddFd /\ own' = own
          /\ \A g \in Slots \ {fd} : SameFields(g)
        BY <1>5, <2>1, KeptFields DEF AInv
    <2>3. ~InFlight(fd) /\ ~InFlight(fd)'
        BY <1>3, <1>4, <1>5, FlyingFacts, NoNewWork DEF AInv
    <2>4. /\ InitConn.open /\ InitConn.resp = NoResponse /\ InitConn.file = NoFile
          /\ InitConn.p = 0 /\ InitConn.rd = 0 /\ InitConn.chk = "LINE" /\ InitConn.url = 0
        BY DEF InitConn, InitState
    <2>5. Given(fd)' = 0 /\ Sent(fd)' \in Nat
        <3>1. cli[own[fd]].got = <<>> /\ cli[own[fd]].sent \in Nat
            BY <1>4, <1>5, ConnsAssumption, AnswerFacts
               DEF AInv, PInv, Unanswered, IInv, TypeRest, Client, Pieces
        <3>. QED BY <1>3, <2>2, <3>1 DEF Given, Sent
    <2>6. Reading(fd)'
        BY <2>2, <2>4, <2>5 DEF Reading, IsReading, IsParsing
    <2>7. AtSlot(fd)'
        <3>1. Phase(fd)'
            BY <2>2, <2>3, <2>4, <2>5, <2>6 DEF Phase, AddFd
        <3>2. \A e \in AtHand' : e.src = fd => EventOK(fd, e)'
            BY <1>3, <1>5, <2>2, <2>3, <2>6 DEF SameEvents, EventOK, AInv, PInv, AtSlot
        <3>. QED BY <2>3, <3>1, <3>2, FreeSlot
    <2>8. FilesOK'
        <3>1. \A g \in Slots : /\ users'[g].file = users[g].file
                               /\ users[g].open /\ users[g].file # NoFile =>
                                      users'[g].open /\ own'[g] = own[g]
            <4>1. users[fd].file = NoFile
                BY <1>4, <1>5 DEF AInv, PInv, FilesOK
            <4>. QED BY <1>4, <2>2, <2>4, <4>1 DEF SameFields
        <3>. QED BY <2>1, <3>1, FilesSame DEF AInv, PInv
    <2>. QED BY <1>3, <1>5, <2>1, <2>3, <2>4, <2>7, <2>8, KeepingStep
<1>6. CASE fd \notin Slots
    <2>1. UNCHANGED <<users, timer, ep, files>> /\ own' = [own EXCEPT ![fd] = NoConn]
        BY <1>1, <1>6 DEF HandleNewConn, RejectConn
    <2>2. \A g \in Fds : own'[g] \in {own[g], NoConn} /\ (g # fd => own'[g] = own[g])
        BY <2>1 DEF AInv, IInv, TypeSlots
    <2>3. \A g \in Slots : SameSlot(g)
        BY <1>3, <1>6, <2>1, <2>2, SlotsAssumption DEF SameSlot
    <2>4. \A g \in Slots : AtSlot(g)'
        BY <1>3, <2>3, Elsewhere DEF AInv, IInv, PInv
    <2>5. Unanswered' /\ FilesOK'
        BY <1>3, <1>6, <2>1, <2>2, SlotsAssumption, UnansweredKept, FilesSame
           DEF AInv, IInv, PInv
    <2>. QED BY <1>3, <2>1, <2>4, <2>5 DEF PInv, SlotsApart
<1>. QED BY <1>5, <1>6

\* The answer is ready to be written, or there is none.
LEMMA HandleBusDoneCalm == AInv /\ HandleBusDone => PInv' /\ SlotsApart
<1> SUFFICES ASSUME AInv, HandleBusDone PROVE PInv' /\ SlotsApart
    OBVIOUS
<1>1. PICK fd : fd = Head(q).fd
    OBVIOUS
<1>2. NextMsg("BusDone")
    BY DEF HandleBusDone
<1>3. /\ OneWork' /\ OneEvent'
      /\ \A g \in Slots \ {fd} : SameWork(g)
      /\ \A g \in Slots : SameEvents(g)
      /\ fd \in Slots /\ MsgOK(Head(q)) /\ InFlight(fd) /\ ~InFlight(fd)'
      /\ ClientsOK' /\ AnswersMatch'
      /\ UNCHANGED <<tasks, wk, msgs, batch, cur, cli>>
    BY <1>1, <1>2, NextMsgCalm
<1>4. users[fd].open /\ (Head(q).result = 1 => Answering(fd))
      /\ users[fd].rd <= Sent(fd)
    BY <1>1, <1>3, FlyingFacts DEF MsgOK, Pinned, AInv
<1>5. CASE Head(q).result = 1
    <2>1. Keep(fd, users[fd], TRUE, ModFd("OUT")) /\ files' = files
        BY <1>1, <1>4, <1>5 DEF HandleBusDone, ArmResponse
    <2>2. /\ users'[fd] = users[fd] /\ ep'[fd] = ModFd("OUT") /\ own' = own
          /\ \A g \in Slots \ {fd} : SameFields(g)
        BY <1>3, <2>1, KeptFields DEF AInv
    <2>3. Answering(fd)' /\ users'[fd].rd <= Sent(fd)'
        BY <1>3, <1>4, <1>5, <2>2 DEF Answering, Given, Sent
    <2>4. AtSlot(fd)'
        <3>1. Phase(fd)'
            BY <1>3, <2>2, <2>3 DEF Phase, ModFd
        <3>2. \A e \in AtHand' : e.src # fd
            BY <1>3, FlyingFacts DEF AInv, AtHand
        <3>. QED BY <1>3, <3>1, <3>2, FreeSlot
    <2>5. FilesOK'
        BY <2>1, <2>2, FilesSame DEF AInv, PInv, SameFields
    <2>. QED BY <1>3, <1>4, <2>1, <2>4, <2>5, KeepingStep
<1>6. CASE Head(q).result # 1
    <2>1. CloseConnections({fd})
        BY <1>1, <1>4, <1>6 DEF HandleBusDone
    <2>. QED BY <1>3, <2>1, ClosingStep
<1>. QED BY <1>5, <1>6
-----------------------------------------------------------------------------
(* The events on a descriptor *)

LEMMA EventInHand ==
    ASSUME AInv, NEW f \in {"IN", "OUT", "HUP"}, f \in cur.ev, Handled(f),
           NEW fd, fd = cur.src
    PROVE  /\ fd \in Slots /\ ~InFlight(fd)
           /\ f = "IN" => (users[fd].open => Reading(fd))
           /\ f = "OUT" => (users[fd].open => Answering(fd) \/ users[fd] = InitConn)
           /\ UNCHANGED <<wk, msgs, q>>
           /\ OneEvent'
           /\ \A g \in Slots : SameEvents(g)
           /\ f # "HUP" =>
                 \A e \in AtHand' : e.src = fd => "IN" \notin e.ev /\ "OUT" \notin e.ev
<1>1. fd \in Slots /\ cur \in Event /\ UNCHANGED <<wk, msgs, q, batch>>
    <2>1. fd \in Slots /\ UNCHANGED <<wk, msgs, q, batch>>
        BY HandledFacts DEF AInv
    <2>2. cur # NoEvent
        BY <2>1, SourcesAssumption DEF NoEvent
    <2>. QED BY <2>1, <2>2 DEF AInv, IInv, TypeRest
<1>2. EventOK(fd, cur)
    BY <1>1 DEF AInv, PInv, AtSlot, AtHand
<1>3. ~InFlight(fd)
    BY <1>1, FlyingFacts DEF AInv, AtHand
<1>4. cur' = NoEvent \/ (cur'.src = cur.src /\ cur'.ev = cur.ev \ {f})
    BY <1>1 DEF Handled, Event
<1>5. OneEvent' /\ \A g \in Slots : SameEvents(g)
    BY <1>1, <1>4, FewerEvents DEF AInv, PInv
<1>6. ASSUME f # "HUP", NEW e \in AtHand', e.src = fd
      PROVE  "IN" \notin e.ev /\ "OUT" \notin e.ev
    <2>1. NoEvent.src # fd
        BY <1>1, SourcesAssumption DEF NoEvent
    <2>2. \A d \in batch : d.src # fd
        BY <1>1 DEF AInv, PInv, OneEvent
    <2>3. e = cur' /\ e.ev = cur.ev \ {f}
        BY <1>1, <1>4, <1>6, <2>1, <2>2 DEF AtHand
    <2>. QED BY <1>2, <1>6, <2>3 DEF EventOK
<1>7. f = "IN" => (users[fd].open => Reading(fd))
    BY <1>2 DEF EventOK
<1>8. f = "OUT" => (users[fd].open => Answering(fd) \/ users[fd] = InitConn)
    BY <1>2 DEF EventOK
<1>. QED BY <1>1, <1>3, <1>5, <1>6, <1>7, <1>8

\* The task of a request that has come in whole.
LEMMA WorkAppended ==
    ASSUME AInv, NEW fd \in Slots, ~InFlight(fd), NEW t \in Task, t.fd = fd,
           tasks' = Append(tasks, t), UNCHANGED <<wk, msgs, q>>
    PROVE  /\ OneWork' /\ \A g \in Slots \ {fd} : SameWork(g)
           /\ InFlight(fd)'
           /\ \A x \in Elements(tasks)' : x.fd = fd => x = t
           /\ \A w \in Busy' : wk'[w].fd # fd
           /\ \A m \in Dones' : m.fd # fd
<1>1. tasks \in Seq(Task)
    BY DEF AInv, IInv, TypeRest
<1>2. /\ fd \notin TaskFds(tasks) /\ fd \notin BusyFds(wk)
      /\ fd \notin DoneFds(msgs) /\ fd \notin DoneFds(q)
    BY InFlightFds
<1>3. TasksOnce(tasks') /\ TaskFds(tasks') = TaskFds(tasks) \cup {fd}
    BY <1>1, <1>2, TasksAppend DEF AInv, PInv, OneWork
<1>4. Elements(tasks') = Elements(tasks) \cup {t}
    BY <1>1, AppendElements
<1>5. UNCHANGED <<Busy, Dones, BusyFds(wk), DoneFds(msgs), DoneFds(q)>>
    BY DEF Busy, Dones, BusDones, BusyFds, AtWork, DoneFds
<1>6. OneWork'
    BY <1>2, <1>3 DEF OneWork, Apart, AInv, PInv
<1>7. InFlight(fd)' /\ \A g : InFlight(g) => InFlight(g)'
    BY <1>3, <1>5, InFlightFds, InFlightFdsNext
<1>8. \A g \in Slots \ {fd} : SameWork(g)
    BY <1>4, <1>5, <1>7 DEF SameWork
<1>9. \A x \in Elements(tasks)' : x.fd = fd => x = t
    BY <1>2, <1>4 DEF TaskFds
<1>10. \A w \in Busy' : wk'[w].fd # fd
    BY <1>2, <1>5 DEF BusyFds, AtWork, Busy
<1>11. \A m \in Dones' : m.fd # fd
    BY <1>2, <1>5 DEF DoneFds, Dones
<1>. QED BY <1>6, <1>7, <1>8, <1>9, <1>10, <1>11

\* prepare_io_read() and what follows it: the connection waits for the rest of
\* its next request, or for the answer.
LEMMA SubmitCalm ==
    ASSUME AInv, NEW fd \in Slots, users[fd].open, ~InFlight(fd),
           NEW u, ConnOK(u), u.open, SubmitOrWait(fd, u),
           NEW g \in Nat, IsParsing(u, g), u.p <= u.rd,
           u.rd <= cli'[own[fd]].sent, Len(cli'[own[fd]].got) = g,
           UNCHANGED <<wk, msgs, q>>, OneEvent', Silent',
           \A h \in Slots : SameEvents(h),
           \A e \in AtHand' : e.src = fd => "IN" \notin e.ev /\ "OUT" \notin e.ev,
           \A c \in Conns : cli'[c].got = cli[c].got \/ c = own[fd],
           \A c \in Conns : cli'[c].sent = cli[c].sent,
           ClientsOK', AnswersMatch'
    PROVE  PInv' /\ SlotsApart
<1> DEFINE r == ProcessRead(fd, u)
           v == [r.u EXCEPT !.code = r.ret]
<1>1. own[fd] \in Conns
    BY Owners DEF AInv
<1>2. ReadResult(fd, r, g, u.rd)
    BY <1>1, ReadNext
<1>3. ConnOK(r.u) /\ Released(fd, u) = {users[fd].file} \ {NoFile}
    BY <1>1, ProcessReadTypes DEF ParseOK, ConnOK, Released, IsParsing
<1>5. /\ files' = (files \ ({users[fd].file} \ {NoFile}))
                  \cup (IF r.ret = "FileRequest" THEN {r.u.file} ELSE {})
      /\ IF r.ret = "NoRequest" THEN AwaitInput(fd, r.u) ELSE SubmitTask(fd, v)
    BY <1>3 DEF SubmitOrWait
<1> HIDE DEF r
<1>6. v.open /\ v.file = r.u.file /\ r.u.open /\ v.rd = u.rd /\ r.u.rd = u.rd
    BY <1>2, <1>3 DEF ConnOK, Conn, ReadResult
<1>7. r.u.file = IF r.ret = "FileRequest" THEN <<own[fd], g + 1>> ELSE NoFile
    BY <1>2 DEF ReadResult, IsReading, IsParsing
<1>8. files' = (files \ {users[fd].file}) \cup ({r.u.file} \ {NoFile})
    <2>1. NoFile \notin files /\ <<own[fd], g + 1>> # NoFile
        BY DEF AInv, PInv, FilesOK, FilesConserved, NoFile
    <2>. QED BY <1>5, <1>7, <2>1
<1>9. ASSUME NEW x, NEW t, NEW e, Keep(fd, x, t, e), x.file = r.u.file, x.open
      PROVE  FilesOK'
    <2>1. users'[fd] = x /\ own' = own /\ \A h \in Slots \ {fd} : SameFields(h)
        BY <1>9, KeptFields DEF AInv
    <2>2. r.u.file # NoFile => r.u.file[1] = own[fd]
        BY <1>7
    <2>3. \A h \in Slots \ {fd} : users[h].open => own[h] # own[fd]
        BY Owners DEF AInv
    <2>. QED BY <1>8, <1>9, <2>1, <2>2, <2>3, FileReplaced DEF AInv, PInv, SameFields
<1>10. CASE r.ret = "NoRequest"
    <2>1. Keep(fd, r.u, TRUE, ModFd("IN")) /\ tasks' = tasks
        BY <1>5, <1>10 DEF AwaitInput
    <2>2. users'[fd] = r.u /\ ep'[fd] = ModFd("IN") /\ own' = own
        BY <2>1, KeptFields DEF AInv
    <2>3. OneWork' /\ \A h : SameWork(h)
        BY <2>1, WorkUnchanged DEF AInv, PInv
    <2>4. ~InFlight(fd)'
        BY <2>3, NoNewWork
    <2>5. Reading(fd)' /\ users'[fd].rd <= Sent(fd)'
        BY <1>2, <1>6, <1>10, <2>2 DEF ReadResult, Codes, Reading, Given, Sent
    <2>6. AtSlot(fd)'
        <3>1. Phase(fd)'
            BY <2>2, <2>4, <2>5 DEF Phase, ModFd
        <3>2. \A e \in AtHand' : e.src = fd => EventOK(fd, e)'
            BY <2>4 DEF EventOK
        <3>. QED BY <2>4, <3>1, <3>2, FreeSlot
    <2>7. FilesOK'
        BY <1>6, <1>9, <2>1
    <2>. QED BY <1>6, <2>1, <2>3, <2>6, <2>7, KeepingStep
<1>11. CASE r.ret # "NoRequest"
    <2>0. PICK t : t = [fd |-> fd, conn |-> own[fd]]
        OBVIOUS
    <2>1. Keep(fd, v, FALSE, ep[fd]) /\ tasks' = Append(tasks, t)
        BY <1>5, <1>11, <2>0 DEF SubmitTask
    <2>2. users'[fd] = v /\ ep'[fd] = ep[fd] /\ ~timer'[fd] /\ own' = own
        BY <2>1, KeptFields DEF AInv
    <2>3. t \in Task /\ t.fd = fd /\ t.conn = own[fd]
        BY <1>1, <2>0 DEF Task
    <2>4. /\ OneWork' /\ \A h \in Slots \ {fd} : SameWork(h)
          /\ InFlight(fd)'
          /\ \A x \in Elements(tasks)' : x.fd = fd => x = t
          /\ \A w \in Busy' : wk'[w].fd # fd
          /\ \A m \in Dones' : m.fd # fd
        BY <2>1, <2>3, WorkAppended
    <2>5. Pending(fd)' /\ Taken(fd)' /\ users'[fd].rd <= Sent(fd)'
        <3>1. IsPending(v, g)
            BY <1>2, <1>11 DEF ReadResult
        <3>. QED BY <1>6, <2>2, <3>1 DEF Pending, Taken, IsPending, Given, Sent
    <2>6. \A e \in AtHand' : e.src # fd
        BY <2>4 DEF Silent, Reported, AtHand
    <2>7. AtSlot(fd)'
        <3>1. Phase(fd)'
            BY <2>2, <2>4, <2>5 DEF Phase
        <3>2. ASSUME NEW x \in Elements(tasks)', x.fd = fd PROVE TaskOK(x)'
            <4>1. x = t
                BY <2>4, <3>2
            <4>2. users'[fd].open /\ own'[fd] = x.conn
                BY <1>6, <2>2, <2>3, <4>1
            <4>. QED BY <2>5, <3>2, <4>2 DEF TaskOK, Pinned
        <3>. QED BY <2>4, <2>6, <3>1, <3>2 DEF AtSlot
    <2>8. FilesOK'
        BY <1>6, <1>9, <2>1
    <2>. QED BY <1>6, <2>1, <2>4, <2>7, <2>8, KeepingStep
<1>. QED BY <1>10, <1>11

\* A connection the client has reset is closed.
LEMMA DealHupCalm == AInv /\ DealHup => PInv' /\ SlotsApart
<1> SUFFICES ASSUME AInv, DealHup PROVE PInv' /\ SlotsApart
    OBVIOUS
<1>1. PICK fd : fd = cur.src
    OBVIOUS
<1>2. /\ fd \in Slots /\ ~InFlight(fd) /\ UNCHANGED <<wk, msgs, q>>
      /\ OneEvent' /\ \A h \in Slots : SameEvents(h)
    BY <1>1, EventInHand DEF DealHup
<1>3. cli' = cli /\ tasks' = tasks
    BY DEF DealHup
<1>4. OneWork' /\ (\A h : SameWork(h)) /\ ~InFlight(fd)'
    BY <1>2, <1>3, WorkUnchanged, NoNewWork DEF AInv, PInv
<1>5. CASE users[fd].open
    <2>1. CloseConnections({fd})
        BY <1>1, <1>5 DEF DealHup
    <2>2. ClientsOK' /\ AnswersMatch'
        BY <1>3, ClientsSame DEF AInv, PInv
    <2>. QED BY <1>2, <1>3, <1>4, <2>1, <2>2, ClosingStep
<1>6. CASE ~users[fd].open
    <2>1. UNCHANGED <<users, timer, ep, own, files>>
        BY <1>1, <1>6 DEF DealHup, slotVars
    <2>. QED BY <1>2, <1>3, <1>4, <2>1, Standstill, CalmStep
<1>. QED BY <1>5, <1>6

\* A connection that waits for input reads everything its client has sent.
LEMMA DealReadCalm == AInv /\ Silent' /\ DealRead => PInv' /\ SlotsApart
<1> SUFFICES ASSUME AInv, Silent', DealRead PROVE PInv' /\ SlotsApart
    OBVIOUS
<1>1. PICK fd : fd = cur.src
    OBVIOUS
<1>2. /\ fd \in Slots /\ ~InFlight(fd) /\ (users[fd].open => Reading(fd))
      /\ UNCHANGED <<wk, msgs, q>>
      /\ OneEvent' /\ \A h \in Slots : SameEvents(h)
      /\ \A e \in AtHand' : e.src = fd => "IN" \notin e.ev /\ "OUT" \notin e.ev
    BY <1>1, EventInHand DEF DealRead
<1>3. cli' = cli
    BY DEF DealRead
<1>4. ClientsOK' /\ AnswersMatch'
    BY <1>3, ClientsSame DEF AInv, PInv
<1>5. CASE ReadFails(fd)
    <2>1. CloseConnections({fd}) /\ tasks' = tasks
        BY <1>1, <1>5 DEF DealRead
    <2>2. OneWork' /\ \A h : SameWork(h)
        BY <1>2, <2>1, WorkUnchanged DEF AInv, PInv
    <2>3. ~InFlight(fd)'
        BY <1>2, <2>2, NoNewWork
    <2>. QED BY <1>2, <1>3, <1>4, <2>1, <2>2, <2>3, ClosingStep
<1>6. CASE ~ReadFails(fd)
    <2>1. PICK g : g = Given(fd)
        OBVIOUS
    <2>2. PICK s : s = Sent(fd)
        OBVIOUS
    <2>3. PICK u : u = [users[fd] EXCEPT !.rd = s]
        OBVIOUS
    <2>4. SubmitOrWait(fd, u)
        BY <1>1, <1>6, <2>2, <2>3 DEF DealRead, Sent
    <2>5. users[fd].open /\ own[fd] \in Conns /\ users[fd] \in Conn
        BY <1>2, <1>6 DEF ReadFails, AInv, IInv, OpenOwned, TypeSlots
    <2>6. g \in Nat /\ s \in Pieces
        <3>1. cli[own[fd]] \in Client
            BY <2>5 DEF AInv, IInv, TypeRest
        <3>. QED BY <2>1, <2>2, <3>1 DEF Given, Sent, Client
    <2>7. /\ u.rd = s /\ u.p = users[fd].p /\ u.open /\ u.resp = users[fd].resp
          /\ u.file = users[fd].file /\ u.chk = users[fd].chk /\ u.url = users[fd].url
          /\ u \in Conn
        BY <2>3, <2>5, <2>6 DEF Conn
    <2>8. ConnOK(u)
        BY <1>2, <2>7 DEF ConnOK, AInv, IInv, TypeSlots
    <2>9. IsReading(users[fd], g) /\ users[fd].rd <= s
        BY <1>2, <2>1, <2>2, <2>5 DEF Reading, AInv, PInv, AtSlot, Phase
    <2>10. IsParsing(u, g) /\ u.p <= u.rd
        BY <2>7, <2>9 DEF IsReading, IsParsing
    <2>11. u.rd <= cli'[own[fd]].sent /\ Len(cli'[own[fd]].got) = g
        <3>1. s <= s
            BY <2>6, AnswerFacts DEF Pieces
        <3>. QED BY <1>3, <2>1, <2>2, <2>7, <3>1 DEF Given, Sent
    <2>. QED BY <1>2, <1>3, <1>4, <2>4, <2>5, <2>6, <2>7, <2>8, <2>10, <2>11, SubmitCalm
<1>. QED BY <1>5, <1>6

\* The answer is the next one due.
LEMMA AnswerGiven ==
    ASSUME AInv, NEW fd \in Slots, users[fd].open, Answering(fd),
           cli' = [cli EXCEPT ![own[fd]].got = Append(@, users[fd].resp)]
    PROVE  /\ Len(cli'[own[fd]].got) = Given(fd) + 1
           /\ \A c \in Conns : /\ cli'[c].got = cli[c].got \/ c = own[fd]
                               /\ cli'[c].sent = cli[c].sent
           /\ ClientsOK' /\ AnswersMatch'
<1>1. PICK c : c = own[fd]
    OBVIOUS
<1>2. PICK g : g = Len(cli[c].got)
    OBVIOUS
<1>3. c \in Conns /\ cli \in [Conns -> Client] /\ cli[c] \in Client
    BY <1>1, Owners DEF AInv, IInv, TypeRest
<1>4. PICK R : R = [code : Codes \cup {"NoRequest"}, req : Reqs \cup {0}]
    OBVIOUS
<1>5. cli[c].got \in Seq(R) /\ users[fd].resp \in R
    BY <1>3, <1>4 DEF Client, AInv, IInv, TypeSlots, Conn
<1>6. PICK a : a = Append(cli[c].got, users[fd].resp)
    OBVIOUS
<1>7. g \in Nat /\ DOMAIN cli[c].got = 1 .. g
    BY <1>2, <1>5
<1>8. /\ Len(a) = g + 1 /\ DOMAIN a = 1 .. g + 1
      /\ \A k \in 1 .. g : a[k] = cli[c].got[k]
      /\ a[g + 1] = users[fd].resp
    BY <1>2, <1>5, <1>6
<1>9. /\ cli'[c].got = a /\ cli'[c].sent = cli[c].sent /\ cli'[c].peer = cli[c].peer
      /\ \A d \in Conns \ {c} : cli'[d] = cli[d]
    BY <1>1, <1>3, <1>6 DEF Client
<1>10. users[fd].resp = Expected(g + 1)
    BY <1>1, <1>2 DEF Answering, IsAnswering, Given
<1>11. cli[c].peer # "new"
    BY <1>1, <1>3, Owners DEF AInv, EInv, OwnedOnce
<1>12. ClientsOK'
    BY <1>9, <1>11 DEF AInv, PInv, ClientsOK
<1>13. AnswersMatch'
    <2>1. \A k \in DOMAIN a : a[k] = Expected(k)
        <3>1. \A k \in 1 .. g : cli[c].got[k] = Expected(k)
            BY <1>3, <1>7 DEF AInv, PInv, AnswersMatch
        <3>2. \A k \in DOMAIN a : k \in 1 .. g \/ k = g + 1
            BY <1>7, <1>8
        <3>. QED BY <1>8, <1>10, <3>1, <3>2
    <2>2. \A d \in Conns : \A k \in DOMAIN cli[d].got : cli[d].got[k] = Expected(k)
        BY DEF AInv, PInv, AnswersMatch
    <2>3. ASSUME NEW d \in Conns, NEW k \in DOMAIN cli'[d].got
          PROVE  cli'[d].got[k] = Expected(k)
        <3>1. CASE d = c
            <4>1. cli'[d].got = a
                BY <1>9, <3>1
            <4>. QED BY <2>1, <2>3, <4>1
        <3>2. CASE d # c
            <4>1. cli'[d] = cli[d]
                BY <1>9, <3>2
            <4>. QED BY <2>2, <2>3, <4>1
        <3>. QED BY <3>1, <3>2
    <2>. QED BY <2>3 DEF AnswersMatch, Expected
<1>. QED BY <1>1, <1>2, <1>8, <1>9, <1>12, <1>13 DEF Given

LEMMA ResetFields ==
    ASSUME NEW u \in Conn
    PROVE  /\ ResetForNext(u).rd = u.rd /\ ResetForNext(u).p = u.p
           /\ ResetForNext(u).chk = "LINE" /\ ResetForNext(u).url = 0
           /\ ResetForNext(u).resp = NoResponse /\ ResetForNext(u).file = NoFile
BY DEF ResetForNext, InitConn, InitState

\* A connection whose answer has gone out waits for the next request.
LEMMA DealWriteCalm == AInv /\ Silent' /\ DealWrite => PInv' /\ SlotsApart
<1> SUFFICES ASSUME AInv, Silent', DealWrite PROVE PInv' /\ SlotsApart
    OBVIOUS
<1>1. PICK fd : fd = cur.src
    OBVIOUS
<1>2. /\ fd \in Slots /\ ~InFlight(fd)
      /\ users[fd].open => Answering(fd) \/ users[fd] = InitConn
      /\ UNCHANGED <<wk, msgs, q>>
      /\ OneEvent' /\ \A h \in Slots : SameEvents(h)
      /\ \A e \in AtHand' : e.src = fd => "IN" \notin e.ev /\ "OUT" \notin e.ev
    BY <1>1, EventInHand DEF DealWrite
<1>3. users[fd].open => own[fd] \in Conns /\ users[fd].rd <= Sent(fd)
    BY <1>2, Owners DEF AInv, PInv, AtSlot, Phase
<1>4. users[fd] \in Conn /\ cli \in [Conns -> Client] /\ ConnOK(users[fd])
    BY <1>2 DEF AInv, IInv, TypeSlots, TypeRest, ConnOK
<1>5. users[fd] = InitConn => ~HasOutput(users[fd]) /\ ~users[fd].linger
    BY DEF InitConn, InitState, HasOutput
<1>6. ASSUME tasks' = tasks
      PROVE  OneWork' /\ (\A h : SameWork(h)) /\ ~InFlight(fd)'
    <2>1. OneWork' /\ \A h : SameWork(h)
        BY <1>2, <1>6, WorkUnchanged DEF AInv, PInv
    <2>. QED BY <1>2, <2>1, NoNewWork
<1>7. CASE ~users[fd].open /\ UNCHANGED <<slotVars, tasks, cli>>
    <2>1. UNCHANGED <<users, timer, ep, own, files, tasks, cli>>
        BY <1>7 DEF slotVars
    <2>. QED BY <1>2, <1>6, <2>1, Standstill, CalmStep
<1>8. CASE users[fd].open /\ CloseConnections({fd}) /\ UNCHANGED <<tasks, cli>>
    <2>1. ClientsOK' /\ AnswersMatch'
        BY <1>8, ClientsSame DEF AInv, PInv
    <2>. QED BY <1>2, <1>6, <1>8, <2>1, ClosingStep
<1>9. ASSUME users[fd].open, NEW n \in 0..Chunks, WriteBlocks(fd, n),
             Keep(fd, [users[fd] EXCEPT !.off = @ + n], TRUE, ModFd("OUT")),
             cli' = [cli EXCEPT ![own[fd]].full = TRUE], UNCHANGED <<files, tasks>>
      PROVE  PInv' /\ SlotsApart
    <2>1. PICK u : u = [users[fd] EXCEPT !.off = @ + n]
        OBVIOUS
    <2>2. /\ u.open /\ u.resp = users[fd].resp /\ u.rd = users[fd].rd
          /\ u.p = users[fd].p /\ u.linger = users[fd].linger /\ u.file = users[fd].file
        BY <1>4, <1>9, <2>1 DEF Conn
    <2>3. Keep(fd, u, TRUE, ModFd("OUT"))
        BY <1>9, <2>1
    <2>4. /\ users'[fd] = u /\ ep'[fd] = ModFd("OUT") /\ own' = own
          /\ \A g \in Slots \ {fd} : SameFields(g)
        BY <1>2, <2>3, KeptFields DEF AInv
    <2>5. \A c \in Conns : /\ cli'[c].got = cli[c].got /\ cli'[c].sent = cli[c].sent
                           /\ cli'[c].peer = cli[c].peer
        BY <1>4, <1>9 DEF Client
    <2>6. Given(fd)' = Given(fd) /\ Sent(fd)' = Sent(fd)
        BY <1>3, <1>9, <2>4, <2>5 DEF Given, Sent
    <2>7. Answering(fd)
        BY <1>2, <1>5, <1>9 DEF WriteBlocks
    <2>8. Answering(fd)' /\ users'[fd].rd <= Sent(fd)'
        BY <1>3, <1>9, <2>2, <2>4, <2>6, <2>7 DEF Answering, IsAnswering, IsTaken
    <2>9. AtSlot(fd)'
        <3>1. Phase(fd)'
            BY <1>6, <1>9, <2>4, <2>8 DEF Phase, ModFd
        <3>2. \A e \in AtHand' : e.src = fd => EventOK(fd, e)'
            BY <1>2, <1>6, <1>9 DEF EventOK
        <3>. QED BY <1>6, <1>9, <3>1, <3>2, FreeSlot
    <2>10. FilesOK'
        <3>1. \A g \in Slots : users'[g].file = users[g].file
                               /\ (users[g].open => users'[g].open)
            BY <2>2, <2>4 DEF SameFields
        <3>. QED BY <1>9, <2>4, <3>1, FilesSame DEF AInv, PInv
    <2>11. ClientsOK' /\ AnswersMatch'
        BY <2>5, ClientsSame DEF AInv, PInv
    <2>. QED BY <1>2, <1>6, <1>9, <2>2, <2>3, <2>5, <2>9, <2>10, <2>11, KeepingStep
<1>10. ASSUME users[fd].open, AfterResponse(fd),
              cli' = IF ~HasOutput(users[fd]) THEN cli
                     ELSE [cli EXCEPT ![own[fd]].got = Append(@, users[fd].resp)]
       PROVE  PInv' /\ SlotsApart
    <2>1. CASE users[fd] = InitConn
        <3>1. cli' = cli /\ CloseConnections({fd}) /\ tasks' = tasks
            BY <1>5, <1>10, <2>1 DEF AfterResponse
        <3>2. ClientsOK' /\ AnswersMatch'
            BY <3>1, ClientsSame DEF AInv, PInv
        <3>. QED BY <1>2, <1>6, <3>1, <3>2, ClosingStep
    <2>2. CASE Answering(fd)
        <3>1. PICK g : g = Given(fd)
            OBVIOUS
        <3>2. /\ g + 1 \in Reqs /\ users[fd].p <= users[fd].rd
              /\ users[fd].resp = Expected(g + 1)
              /\ users[fd].linger => users[fd].p = 2 * g + 2
            BY <2>2, <3>1 DEF Answering, IsAnswering, IsTaken
        <3>3. g \in Nat
            BY <1>3, <1>4, <1>10, <3>1 DEF Given, Client
        <3>4. HasOutput(users[fd])
            BY <3>2, AnswerFacts DEF HasOutput, Expected, NoResponse, Codes
        <3>5. /\ Len(cli'[own[fd]].got) = g + 1
              /\ \A c \in Conns : /\ cli'[c].got = cli[c].got \/ c = own[fd]
                                  /\ cli'[c].sent = cli[c].sent
              /\ ClientsOK' /\ AnswersMatch'
            BY <1>2, <1>10, <2>2, <3>1, <3>4, AnswerGiven
        <3>6. CASE ~users[fd].linger
            <4>1. CloseConnections({fd}) /\ tasks' = tasks
                BY <1>10, <3>6 DEF AfterResponse
            <4>. QED BY <1>2, <1>6, <1>10, <3>5, <4>1, ClosingStep
        <3>7. CASE users[fd].linger
            <4>1. PICK u : u = ResetForNext(users[fd])
                OBVIOUS
            <4>2. SubmitOrWait(fd, u)
                BY <1>10, <3>7, <4>1 DEF AfterResponse
            <4>3. ConnOK(u) /\ u.open
                BY <1>4, <4>1, ResetTypes
            <4>4. /\ u.rd = users[fd].rd /\ u.p = 2 * g + 2 /\ u.chk = "LINE" /\ u.url = 0
                  /\ u.resp = NoResponse /\ u.file = NoFile
                BY <1>4, <3>2, <3>7, <4>1, ResetFields
            <4>5. PICK h : h = g + 1
                OBVIOUS
            <4>6. h \in Nat /\ IsParsing(u, h) /\ u.p <= u.rd
                BY <3>2, <3>3, <3>7, <4>4, <4>5 DEF IsParsing
            <4>7. u.rd <= cli'[own[fd]].sent /\ Len(cli'[own[fd]].got) = h
                BY <1>3, <1>10, <3>5, <4>4, <4>5 DEF Sent
            <4>. QED BY <1>2, <1>10, <3>5, <4>2, <4>3, <4>6, <4>7, SubmitCalm
        <3>. QED BY <3>6, <3>7
    <2>. QED BY <1>2, <1>10, <2>1, <2>2
<1>. QED BY <1>1, <1>7, <1>8, <1>9, <1>10 DEF DealWrite
-----------------------------------------------------------------------------
(* The theorems *)

LEMMA InitCalm == Init => PInv
<1> SUFFICES ASSUME Init PROVE PInv
    OBVIOUS
<1>1. /\ tasks = <<>> /\ msgs = <<>> /\ q = <<>> /\ batch = {} /\ cur = NoEvent
      /\ wk = [w \in Workers |-> Idle] /\ files = {}
      /\ users = [fd \in Slots |-> InitState]
      /\ own = [fd \in Fds |-> NoConn]
      /\ cli = [c \in Conns |-> [peer |-> "new", sent |-> 0, full |-> FALSE, got |-> <<>>]]
    BY DEF Init
<1>2. Elements(<<>>) = {} /\ BusDones(<<>>) = {} /\ DoneFds(<<>>) = {} /\ TaskFds(<<>>) = {}
    BY EmptyElements DEF BusDones, DoneFds, TaskFds
<1>3. Busy = {} /\ AtWork(wk) = {} /\ BusyFds(wk) = {} /\ Dones = {}
    BY <1>1, <1>2 DEF Busy, Idle, AtWork, BusyFds, Dones
<1>4. AtHand = {NoEvent} /\ NoEvent.src \notin Slots
    BY <1>1, SourcesAssumption DEF AtHand, NoEvent
<1>5. \A fd \in Slots : AtSlot(fd)
    BY <1>1, <1>2, <1>3, <1>4, InitTypes DEF AtSlot, Phase
<1>6. OneWork
    BY <1>1, <1>2, <1>3 DEF OneWork, TasksOnce, BusyOnce, DonesOnce, Apart
<1>7. OneEvent
    BY <1>1 DEF OneEvent
<1>8. ClientsOK /\ AnswersMatch
    BY <1>1 DEF ClientsOK, AnswersMatch
<1>9. Unanswered
    BY <1>1 DEF Unanswered
<1>10. FilesOK
    BY <1>1, InitTypes DEF FilesOK, FilesConserved
<1>. QED BY <1>5, <1>6, <1>7, <1>8, <1>9, <1>10 DEF PInv

LEMMA NothingMoves == AInv /\ UNCHANGED vars => PInv' /\ SlotsApart
<1> SUFFICES ASSUME AInv, UNCHANGED vars PROVE PInv' /\ SlotsApart
    OBVIOUS
<1>1. UNCHANGED <<users, timer, ep, own, files, cli, tasks, wk, msgs, q, batch, cur>>
    BY DEF vars
<1>2. OneWork' /\ \A g : SameWork(g)
    BY <1>1, WorkUnchanged DEF AInv, PInv
<1>3. OneEvent' /\ \A g \in Slots : SameEvents(g)
    BY <1>1, FewerEvents DEF AInv, PInv
<1>. QED BY <1>1, <1>2, <1>3, Standstill, CalmStep

LEMMA NextCalm == AInv /\ Silent' /\ Next => PInv' /\ SlotsApart
<1> SUFFICES ASSUME AInv, Silent', Next PROVE PInv' /\ SlotsApart
    OBVIOUS
<1>1. CASE IoThread
    BY <1>1, LoopHeadCalm, EpollWaitCalm, DrainEventFdCalm, SwapMsgsCalm,
       HandleNewConnCalm, HandleBusDoneCalm, HandleTimeoutCalm,
       TakeClientEventCalm, DealReadCalm, DealWriteCalm, DealHupCalm
       DEF IoThread
<1>2. CASE \E w \in Workers : Worker(w)
    BY <1>2, WorkerCalm
<1>3. CASE \E c \in Conns, fd \in Fds : Dispatch(c, fd)
    BY <1>3, DispatchCalm
<1>4. CASE Stop \/ MainWake
    BY <1>4, StopCalm
<1>5. CASE Clients
    BY <1>5, ClientsCalm
<1>6. CASE Terminated
    BY <1>6, NothingMoves DEF Terminated
<1>. QED BY <1>1, <1>2, <1>3, <1>4, <1>5, <1>6 DEF Next

\* The invariant of SubReactorCalm.
CInv == IInv /\ EInv /\ (calm => PInv)

LEMMA CalmStepInv == CInv /\ [CalmNext]_calmVars => CInv' /\ (calm' => SlotsApart)
<1> SUFFICES ASSUME CInv, [CalmNext]_calmVars PROVE CInv' /\ (calm' => SlotsApart)
    OBVIOUS
<1>1. CASE CalmNext
    <2>1. Next /\ (calm' => calm /\ Silent')
        BY <1>1 DEF CalmNext
    <2>2. IInv' /\ EInv'
        BY <2>1, NextInv, NextEpoll DEF CInv
    <2>3. calm' => PInv' /\ SlotsApart
        BY <2>1, NextCalm DEF CInv, AInv
    <2>. QED BY <2>2, <2>3 DEF CInv
<1>2. CASE UNCHANGED calmVars
    <2>1. UNCHANGED vars /\ calm' = calm
        BY <1>2 DEF calmVars
    <2>2. IInv' /\ EInv'
        BY <2>1, NextInv, NextEpoll DEF CInv
    <2>3. calm' => PInv' /\ SlotsApart
        BY <2>1, NothingMoves DEF CInv, AInv
    <2>. QED BY <2>2, <2>3 DEF CInv
<1>. QED BY <1>1, <1>2

LEMMA CalmInductive == CalmSpec => []CInv
<1>1. CalmInit => CInv
    BY InitInv, InitEpoll, InitCalm DEF CalmInit, CInv
<1>2. CInv /\ [CalmNext]_calmVars => CInv'
    BY CalmStepInv
<1>. QED BY <1>1, <1>2, PTL DEF CalmSpec

LEMMA PiecesFds ==
    ASSUME NEW x \in PiecesOfWork
    PROVE  \/ \E i \in DOMAIN tasks : x = <<"tasks", i, tasks[i].fd>>
           \/ \E w \in Busy : x = <<"wk", w, wk[w].fd>>
           \/ \E i \in DOMAIN msgs : msgs[i].type = "BusDone" /\ x = <<"msgs", i, msgs[i].fd>>
           \/ \E i \in DOMAIN q : q[i].type = "BusDone" /\ x = <<"q", i, q[i].fd>>
BY DEF PiecesOfWork, Completions

LEMMA OneEach ==
    ASSUME OneWork, NEW x \in PiecesOfWork, NEW y \in PiecesOfWork, x[3] = y[3]
    PROVE  x = y
<1> DEFINE InTasks(z) == \E i \in DOMAIN tasks : z = <<"tasks", i, tasks[i].fd>>
           InWk(z) == \E w \in Busy : z = <<"wk", w, wk[w].fd>>
           InMsgs(z) == \E i \in DOMAIN msgs :
                           msgs[i].type = "BusDone" /\ z = <<"msgs", i, msgs[i].fd>>
           InQ(z) == \E i \in DOMAIN q :
                        q[i].type = "BusDone" /\ z = <<"q", i, q[i].fd>>
<1>1. \A z : InTasks(z) => z[3] \in TaskFds(tasks)
    BY DEF TaskFds, Elements
<1>2. \A z : InWk(z) => z[3] \in BusyFds(wk)
    BY DEF BusyFds, AtWork, Busy
<1>3. \A z : InMsgs(z) => z[3] \in DoneFds(msgs)
    BY DEF DoneFds, BusDones, Elements
<1>4. \A z : InQ(z) => z[3] \in DoneFds(q)
    BY DEF DoneFds, BusDones, Elements
<1>5. InTasks(x) /\ InTasks(y) => x = y
    BY DEF OneWork, TasksOnce
<1>6. InWk(x) /\ InWk(y) => x = y
    BY DEF OneWork, BusyOnce, AtWork, Busy
<1>7. InMsgs(x) /\ InMsgs(y) => x = y
    BY DEF OneWork, DonesOnce
<1>8. InQ(x) /\ InQ(y) => x = y
    BY DEF OneWork, DonesOnce
<1>9. /\ InTasks(x) \/ InWk(x) \/ InMsgs(x) \/ InQ(x)
      /\ InTasks(y) \/ InWk(y) \/ InMsgs(y) \/ InQ(y)
    BY PiecesFds
<1> HIDE DEF InTasks, InWk, InMsgs, InQ
<1>. QED BY <1>1, <1>2, <1>3, <1>4, <1>5, <1>6, <1>7, <1>8, <1>9 DEF OneWork, Apart

\* Until an event reaches a slot with work under way, every task, running
\* worker and completion is about the connection that has the slot, and a slot
\* has one of them at most: comparing descriptors is then enough
\* (sub_reactor.cpp:202, 208, 254, 306).
THEOREM WorkPinned == CalmSpec => []CalmWork
<1>1. CInv => CalmWork
    <2> SUFFICES ASSUME AInv PROVE WorkPinsConnection
        BY DEF CInv, AInv, CalmWork
    <2>1. ASSUME NEW x \in Work PROVE users[x.fd].open /\ own[x.fd] = x.conn
        <3>1. CASE x \in Elements(tasks)
            <4>1. x.fd \in Slots
                <5>1. tasks \in Seq(Task)
                    BY DEF AInv, IInv, TypeRest
                <5>2. x \in Task
                    BY <3>1, <5>1 DEF Elements
                <5>. QED BY <5>2 DEF Task
            <4>. QED BY <3>1, <4>1 DEF AInv, PInv, AtSlot, TaskOK, Pinned
        <3>2. ASSUME NEW w \in Busy, x = wk[w] PROVE users[x.fd].open /\ own[x.fd] = x.conn
            <4>1. WorkerOK(wk[w])
                BY <3>2, AtWorkFacts DEF Busy
            <4>. QED BY <3>2, <4>1 DEF Busy, WorkerOK, Pinned
        <3>3. CASE x \in Dones
            <4>1. x.fd \in Slots
                <5>1. msgs \in Seq(Message) /\ q \in Seq(Message)
                    BY DEF AInv, IInv, TypeRest
                <5>2. x \in Message /\ x.type = "BusDone"
                    BY <3>3, <5>1 DEF Elements, Dones, BusDones
                <5>. QED BY <5>2 DEF Message
            <4>. QED BY <3>3, <4>1 DEF AInv, PInv, AtSlot, MsgOK, Pinned
        <3>. QED BY <3>1, <3>2, <3>3 DEF Work, Dones
    <2>2. \A x, y \in PiecesOfWork : x[3] = y[3] => x = y
        BY OneEach DEF AInv, PInv
    <2>. QED BY <2>1, <2>2 DEF WorkPinsConnection
<1>. QED BY <1>1, CalmInductive, PTL

\* Until then every answer a client gets is the one to its own request, in the
\* order it sent them, pipelined or not (process_read, process_write,
\* reset_for_next).
THEOREM OwnAnswers == CalmSpec => []CalmAnswers
<1>1. CInv => CalmAnswers
    BY DEF CInv, PInv, CalmAnswers
<1>. QED BY <1>1, CalmInductive, PTL

\* Until then a static file is closed no later than the slot that opened it
\* answers or is closed, however the client ends the connection (do_request,
\* reset_for_next, close_conn).
THEOREM NoFileLeaks == CalmSpec => []CalmFiles
<1>1. CInv => CalmFiles
    BY DEF CInv, PInv, FilesOK, CalmFiles
<1>. QED BY <1>1, CalmInductive, PTL

\* Until then the I/O thread and the other workers leave a slot alone until
\* the worker busy with it is done: timeouts, stale events and completions,
\* closing and reuse of descriptors never reach it (sub_reactor.cpp:223-225).
THEOREM WorkersUndisturbed == CalmSpec => CalmSlots
<1>1. CInv /\ [CalmNext]_calmVars => [calm' => SlotsApart]_calmVars
    BY CalmStepInv
<1>. QED BY <1>1, CalmInductive, PTL DEF CalmSpec, CalmSlots
=============================================================================
