---------------------------- MODULE ServerProofs ----------------------------
(***************************************************************************)
(* Proofs about Server, for every number of reactors, workers and clients. *)
(***************************************************************************)
EXTENDS Server, FiniteSetTheorems, TLAPS

Ended(i) == loop[i] \in {"none", "out"}

\* A worker leaves when the pool stops and nothing is queued, and then nothing
\* is submitted any more.
ExitedLast ==
    \A w \in Workers : work[w].at = "exited" => pool # "up" /\ tasks = <<>>

\* How far start(), stop() and the destructors have come: the threads run
\* between the two, the pool stops when all of them have been joined.
Stages ==
    /\ pc = "start" => \A i \in Subs : loop[i] = "none"
    /\ pc \in {"start", "head", "wait", "accept", "push", "ring"} => pool = "up"
    /\ pc \in {"raise", "poke", "join"} /\ pool = "up" => \A i \in 0 .. turn - 1 : Ended(i)
    /\ pc \in {"destroy", "drain"} \/ pool # "up" => \A i \in Subs : Ended(i)

IInv == TypeOK /\ ExitedLast /\ Stages

-----------------------------------------------------------------------------
(* Types *)

\* The index of a reactor is one, and m_rr_index keeps its width.
LEMMA Modulo == ASSUME NEW a \in Nat, NEW b \in Nat \ {0} PROVE a % b \in 0 .. b - 1
  OBVIOUS

\* The elements of a sequence.
LEMMA HeadTail == ASSUME NEW S, NEW s \in Seq(S), s # <<>>
                  PROVE Head(s) \in S /\ Tail(s) \in Seq(S)
  OBVIOUS

\* There is a reactor.
LEMMA SubsNonempty == 0 \in Subs
  BY ServerAssumption DEF Subs

\* A message in a mailbox.
LEMMA PushKeeps == ASSUME TypeSubs, NEW i \in Subs, NEW m \in Message, Push(i, m),
                          UNCHANGED <<loop, halt, table>>
                   PROVE TypeSubs'
  <1>1. Append(box[i], m) \in Seq(Message)
    BY DEF TypeSubs
  <1> QED
    BY <1>1 DEF Push, TypeSubs

\* Server::Server().
LEMMA InitType == Init => IInv
  <1> USE ServerAssumption, SubsNonempty
  <1> SUFFICES ASSUME Init PROVE IInv
    OBVIOUS
  <1>1. TypeMain
    BY DEF Init, TypeMain, Position
  <1>2. TypeSubs
    BY DEF Init, TypeSubs
  <1>3. TypePool
    BY DEF Init, TypePool, Idle
  <1>4. ExitedLast /\ Stages
    BY DEF Init, ExitedLast, Stages, Ended, Idle
  <1> QED
    BY <1>1, <1>2, <1>3, <1>4 DEF IInv, TypeOK
-----------------------------------------------------------------------------
(* The thread of start() and ~Server() *)

\* The threads start while the pool is up.
LEMMA StartKeeps == ASSUME IInv, Start PROVE IInv'
  <1> USE DEF IInv, TypeOK, Start, acceptor, sockets, mail, poolVars
  <1>1. TypeMain'
    BY DEF TypeMain, Position
  <1>2. TypeSubs'
    BY DEF TypeSubs, Stages
  <1>3. TypePool'
    BY DEF TypePool
  <1>4. ExitedLast'
    BY DEF ExitedLast
  <1>5. Stages'
    BY DEF Stages, Ended
  <1> QED
    BY <1>1, <1>2, <1>3, <1>4, <1>5

\* The loop of start() goes on, or its end stops the reactors from the first.
LEMMA HeadKeeps == ASSUME IInv, MainHead PROVE IInv'
  <1> USE DEF IInv, TypeOK, MainHead, LoopOrStop, acceptor, sockets, threads, mail, poolVars
  <1>1. TypeMain'
    BY SubsNonempty DEF TypeMain, Position
  <1>2. TypeSubs'
    BY DEF TypeSubs
  <1>3. TypePool'
    BY DEF TypePool
  <1>4. ExitedLast'
    BY DEF ExitedLast
  <1>5. Stages'
    BY DEF Stages, Ended
  <1> QED
    BY <1>1, <1>2, <1>3, <1>4, <1>5

\* The acceptor wakes up.
LEMMA WaitKeeps == ASSUME IInv, MainWait PROVE IInv'
  <1> USE DEF IInv, TypeOK, MainWait, sockets, threads, mail, poolVars
  <1>1. TypeMain'
    BY SubsNonempty DEF TypeMain, Position
  <1>2. TypeSubs'
    BY DEF TypeSubs
  <1>3. TypePool'
    BY DEF TypePool
  <1>4. ExitedLast'
    BY DEF ExitedLast
  <1>5. Stages'
    BY DEF Stages, Ended
  <1> QED
    BY <1>1, <1>2, <1>3, <1>4, <1>5

\* deal_new_conn() keeps to the acceptor's own variables.
LEMMA AcceptKeeps == ASSUME IInv, Accept PROVE IInv'
  <1> USE DEF IInv, TypeOK, Accept, threads, mail, poolVars
  <1>1. TypeMain'
    <2>1. CASE AcceptNone \/ AcceptFails \/ Refuse
      <3>1. backlog' \in Seq(Conns)
        BY <2>1, HeadTail DEF AcceptNone, AcceptFails, Refuse, TypeMain, acceptor
      <3>2. UNCHANGED <<turn, held>> /\ pc' \in {"accept", "head"}
        BY <2>1 DEF AcceptNone, AcceptFails, Refuse, Take
      <3>3. UNCHANGED <<rr, came, home, open, broken, stop>> /\ failed' \in BOOLEAN
               /\ edge' = edge
        BY <2>1 DEF AcceptNone, AcceptFails, Refuse, Take, TypeMain, acceptor
      <3> QED
        BY <3>1, <3>2, <3>3 DEF TypeMain, Position
    <2>2. CASE Take
      <3>1. Head(backlog) \in Conns /\ Tail(backlog) \in Seq(Conns)
        BY <2>2, HeadTail DEF Take, TypeMain
      <3>2. rr % NumSubs \in Subs /\ rr' \in 0 .. Wrap - 1
        <4>1. rr \in Nat /\ rr + 1 \in Nat
          BY ServerAssumption DEF TypeMain
        <4>2. rr' = (rr + 1) % Wrap
          BY <2>2 DEF Take, Advance
        <4> HIDE DEF IInv, Accept
        <4>3. rr % NumSubs \in 0 .. NumSubs - 1 /\ (rr + 1) % Wrap \in 0 .. Wrap - 1
          BY <4>1, ServerAssumption, Modulo
        <4> QED
          BY <4>2, <4>3 DEF Subs
      <3>3. held' # None
        BY <2>2, <3>1, ServerAssumption DEF Take, Conns
      <3> QED
        BY <2>2, <3>1, <3>2, <3>3 DEF Take, TypeMain, Position
    <2> QED
      BY <2>1, <2>2
  <1>2. TypeSubs'
    BY DEF TypeSubs
  <1>3. TypePool'
    BY DEF TypePool
  <1>4. ExitedLast'
    BY DEF ExitedLast
  <1>5. Stages'
    BY DEF Stages, Ended, AcceptNone, AcceptFails, Refuse, Take, acceptor
  <1> QED
    BY <1>1, <1>2, <1>3, <1>4, <1>5

\* A connection goes to the mailbox of its reactor.
LEMMA DispatchKeeps == ASSUME IInv, Dispatch PROVE IInv'
  <1> USE DEF IInv, TypeOK, Dispatch, AcceptOn, acceptor, sockets, threads, poolVars
  <1>1. TypeMain'
    BY DEF TypeMain, Position
  <1>2. TypeSubs'
    <2>1. CASE pc = "push"
      <3>1. [type |-> "NewConn", conn |-> held] \in Message
        BY <2>1 DEF TypeMain, Message
      <3> QED
        BY <2>1, <3>1, PushKeeps DEF TypeMain
    <2>2. CASE pc = "ring"
      BY <2>2 DEF TypeMain, TypeSubs, Ring
    <2> QED
      BY <2>1, <2>2
  <1>3. TypePool'
    BY DEF TypePool
  <1>4. ExitedLast'
    BY DEF ExitedLast
  <1>5. Stages'
    BY DEF Stages, Ended
  <1> QED
    BY <1>1, <1>2, <1>3, <1>4, <1>5

\* stop() of a reactor raises m_stop,
LEMMA RaiseKeeps == ASSUME IInv, Raise PROVE IInv'
  <1> USE DEF IInv, TypeOK, Raise, acceptor, sockets, mail, poolVars
  <1>1. TypeMain'
    BY DEF TypeMain, Position
  <1>2. TypeSubs'
    BY DEF TypeMain, TypeSubs
  <1>3. TypePool'
    BY DEF TypePool
  <1>4. ExitedLast'
    BY DEF ExitedLast
  <1>5. Stages'
    BY DEF Stages, Ended
  <1> QED
    BY <1>1, <1>2, <1>3, <1>4, <1>5

\* wakes its thread,
LEMMA PokeKeeps == ASSUME IInv, Poke PROVE IInv'
  <1> USE DEF IInv, TypeOK, Poke, Wakeup, Ring, acceptor, sockets, threads, poolVars
  <1>1. TypeMain'
    BY DEF TypeMain, Position
  <1>2. TypeSubs'
    BY DEF TypeMain, TypeSubs
  <1>3. TypePool'
    BY DEF TypePool
  <1>4. ExitedLast'
    BY DEF ExitedLast
  <1>5. Stages'
    BY DEF Stages, Ended
  <1> QED
    BY <1>1, <1>2, <1>3, <1>4, <1>5

\* and joins it; the threads before turn have ended when the next one follows.
LEMMA JoinKeeps == ASSUME IInv, Join PROVE IInv'
  <1> USE DEF IInv, TypeOK, Join, acceptor, threads, mail, poolVars
  <1>1. turn' \in Subs
    BY ServerAssumption DEF TypeMain, Subs
  <1>2. TypeMain'
    <2>1. open' \subseteq Conns
      BY DEF FreeTable, TypeMain, sockets
    <2>2. pc' \in Position /\ pc' \notin {"push", "ring"}
      BY DEF Position
    <2> QED
      BY <1>1, <2>1, <2>2 DEF TypeMain
  <1>3. TypeSubs'
    BY DEF FreeTable, TypeSubs, TypeMain, sockets
  <1>4. TypePool'
    BY DEF TypePool
  <1>5. ExitedLast'
    BY DEF ExitedLast
  <1>6. Stages'
    <2>1. CASE pool = "up"
      <3>1. \A i \in 0 .. turn : Ended(i)
        BY <2>1 DEF Stages, Ended, TypeMain, Subs
      <3>2. CASE turn + 1 < NumSubs
        BY <2>1, <3>1, <3>2 DEF Stages, Ended, TypeMain, Subs
      <3>3. CASE ~(turn + 1 < NumSubs)
        <4>1. \A i \in Subs : Ended(i)
          BY <3>1, <3>3, ServerAssumption DEF TypeMain, Subs
        <4> QED
          BY <2>1, <3>3, <4>1 DEF Stages, Ended, Destroying
      <3> QED
        BY <3>2, <3>3
    <2>2. CASE pool # "up"
      BY <2>2 DEF Stages, Ended
    <2> QED
      BY <2>1, <2>2
  <1> QED
    BY <1>2, <1>3, <1>4, <1>5, <1>6

\* ~ThreadPool() ends with nothing queued, since some worker has left.
LEMMA DestroyKeeps == ASSUME IInv, Destroy PROVE IInv'
  <1> USE DEF IInv, TypeOK, Destroy, acceptor, sockets, threads, mail
  <1>1. TypeMain'
    BY SubsNonempty DEF TypeMain, Position
  <1>2. TypeSubs'
    BY DEF TypeSubs
  <1>3. TypePool'
    BY ServerAssumption DEF TypePool, ExitedLast
  <1>4. ExitedLast'
    BY DEF ExitedLast, TypePool
  <1>5. Stages'
    BY DEF Stages, Ended
  <1> QED
    BY <1>1, <1>2, <1>3, <1>4, <1>5
-----------------------------------------------------------------------------
(* The other threads and the environment *)

\* A client connects.
LEMMA ConnectKeeps == ASSUME IInv, Connect PROVE IInv'
  <1> USE DEF IInv, TypeOK, Connect, control, sockets, threads, mail, poolVars
  <1>1. came' \in 0 .. Clients /\ came' \in Conns
    BY ServerAssumption DEF TypeMain, Conns
  <1>2. backlog' \in Seq(Conns)
    <2>1. backlog' = Append(backlog, came')
      OBVIOUS
    <2> QED
      BY <1>1, <2>1 DEF TypeMain
  <1>3. TypeMain'
    BY <1>1, <1>2 DEF TypeMain
  <1>4. TypeSubs' /\ TypePool'
    BY DEF TypeSubs, TypePool
  <1>5. ExitedLast' /\ Stages'
    BY DEF ExitedLast, Stages, Ended
  <1> QED
    BY <1>3, <1>4, <1>5

\* Somebody calls stop().
LEMMA StopKeeps == ASSUME IInv, Stop PROVE IInv'
  <1> USE DEF IInv, TypeOK, Stop, control, acceptor, sockets, threads, mail, poolVars
  <1>1. TypeMain'
    BY DEF TypeMain, Position
  <1>2. TypeSubs'
    BY DEF TypeSubs
  <1>3. TypePool'
    BY DEF TypePool
  <1>4. ExitedLast'
    BY DEF ExitedLast
  <1>5. Stages'
    BY DEF Stages, Ended
  <1> QED
    BY <1>1, <1>2, <1>3, <1>4, <1>5

\* Only a thread that runs takes a step, and so the pool is up.
LEMMA Running == ASSUME IInv, NEW i \in Subs, loop[i] \in {"head", "wait", "mail"}
                 PROVE pool = "up"
  BY DEF IInv, Stages, Ended

\* A reactor tests m_stop.
LEMMA SubHeadKeeps == ASSUME IInv, NEW i \in Subs, SubHead(i) PROVE IInv'
  <1> USE DEF IInv, TypeOK, SubHead, control, acceptor, sockets, mail, poolVars
  <1>1. TypeMain'
    BY DEF TypeMain, Position
  <1>2. TypeSubs'
    BY DEF TypeSubs
  <1>3. TypePool'
    BY DEF TypePool
  <1>4. ExitedLast'
    BY DEF ExitedLast
  <1>5. Stages'
    BY Running DEF TypeSubs, Stages, Ended
  <1> QED
    BY <1>1, <1>2, <1>3, <1>4, <1>5

\* A reactor without epoll ends.
LEMMA SubFailsKeeps == ASSUME IInv, NEW i \in Subs, SubFails(i) PROVE IInv'
  <1> USE DEF IInv, TypeOK, SubFails, control, acceptor, sockets, mail, poolVars
  <1>1. TypeMain'
    BY DEF TypeMain, Position
  <1>2. TypeSubs'
    BY DEF TypeSubs
  <1>3. TypePool'
    BY DEF TypePool
  <1>4. ExitedLast'
    BY DEF ExitedLast
  <1>5. Stages'
    BY Running DEF TypeSubs, Stages, Ended
  <1> QED
    BY <1>1, <1>2, <1>3, <1>4, <1>5

\* A reactor takes its mail.
LEMMA TakeMailKeeps == ASSUME IInv, NEW i \in Subs, TakeMail(i) PROVE IInv'
  <1> USE DEF IInv, TypeOK, TakeMail, TakeAll, control, acceptor, sockets, poolVars
  <1>1. TypeMain'
    BY DEF TypeMain, Position
  <1>2. TypeSubs'
    BY DEF TypeSubs
  <1>3. TypePool'
    BY DEF TypePool
  <1>4. ExitedLast'
    BY DEF ExitedLast
  <1>5. Stages'
    BY Running DEF TypeSubs, Stages, Ended
  <1> QED
    BY <1>1, <1>2, <1>3, <1>4, <1>5

\* A completion is about a connection of the table.
LEMMA AnsweredHere ==
  ASSUME NEW i \in Subs, NEW x
  PROVE  Answered(i, x) \subseteq table[i]
  BY DEF Answered

\* A reactor handles a message.
LEMMA HandleMailKeeps == ASSUME IInv, NEW i \in Subs, HandleMail(i) PROVE IInv'
  <1> USE DEF IInv, TypeOK, HandleMail, control, acceptor, poolVars
  <1>1. batch[i] # <<>> => /\ Head(batch[i]).conn \in Conns
                           /\ Tail(batch[i]) \in Seq(Message)
    <2>1. batch[i] # <<>> => Head(batch[i]) \in Message /\ Tail(batch[i]) \in Seq(Message)
      BY HeadTail DEF TypeSubs
    <2> QED
      BY <2>1 DEF Message
  <1>2. pool = "up"
    BY Running
  <1>3. CASE batch[i] = <<>>
    <2> USE <1>3 DEF sockets
    <2>1. TypeMain' /\ TypePool'
      BY DEF TypeMain, TypePool
    <2>2. TypeSubs'
      BY DEF TypeSubs
    <2>3. ExitedLast'
      BY DEF ExitedLast
    <2>4. \A j \in Subs : Ended(j) => Ended(j)'
      BY DEF TypeSubs, Ended
    <2>5. pc # "start"
      BY DEF Stages
    <2>6. UNCHANGED <<pc, turn, pool>> /\ \A j \in 0 .. turn - 1 : j \in Subs
      BY ServerAssumption DEF TypeMain, Subs
    <2>7. Stages'
      <3> HIDE DEF HandleMail, IInv, TypeOK
      <3>1. Stages
        BY DEF IInv
      <3> QED
        BY <1>2, <2>4, <2>5, <2>6, <3>1 DEF Stages
    <2> QED
      BY <2>1, <2>2, <2>3, <2>7
  <1>4. CASE batch[i] # <<>>
    <2>1. /\ loop' = loop /\ batch' = [batch EXCEPT ![i] = Tail(batch[i])]
          /\ open' \subseteq Conns /\ table' \in [Subs -> SUBSET Conns]
      <3>1. /\ loop' = loop /\ batch' = [batch EXCEPT ![i] = Tail(batch[i])]
            /\ \/ /\ table' = [table EXCEPT ![i] = @ \cup {Head(batch[i]).conn}]
                  /\ open' = open
               \/ UNCHANGED <<open, table>>
               \/ \E y \in Conns : CloseConnection(i, y)
        <4>1. \A c \in Conns : Answered(i, c) \subseteq Conns
          BY AnsweredHere DEF TypeSubs
        <4> QED
          BY <1>1, <1>4, <4>1 DEF sockets
      <3> DEFINE x == Head(batch[i]).conn
      <3>2. open \subseteq Conns /\ table \in [Subs -> SUBSET Conns] /\ x \in Conns
        BY <1>1, <1>4 DEF TypeMain, TypeSubs
      <3> HIDE DEF x, HandleMail, IInv, TypeOK
      <3>3. CASE table' = [table EXCEPT ![i] = @ \cup {x}] /\ open' = open
        BY <3>1, <3>2, <3>3
      <3>4. CASE UNCHANGED <<open, table>>
        BY <3>1, <3>2, <3>4
      <3>5. CASE \E y \in Conns : CloseConnection(i, y)
        BY <3>1, <3>2, <3>5 DEF CloseConnection
      <3> QED
        BY <3>1, <3>3, <3>4, <3>5 DEF x
    <2>2. TypeMain' /\ TypePool'
      BY <2>1 DEF TypeMain, TypePool
    <2>3. TypeSubs'
      BY <1>1, <1>4, <2>1 DEF TypeSubs
    <2>4. ExitedLast' /\ Stages'
      BY <1>2, <2>1 DEF ExitedLast, Stages, Ended
    <2> QED
      BY <2>2, <2>3, <2>4
  <1> QED
    BY <1>3, <1>4

\* A connection submits a request, or ends.
LEMMA ClientEventKeeps == ASSUME IInv, NEW i \in Subs, ClientEvent(i) PROVE IInv'
  <1> USE DEF IInv, TypeOK, ClientEvent, control, acceptor, mail
  <1>1. PICK x \in table[i] :
          \/ /\ tasks' = IF pool = "up" THEN Append(tasks, [sub |-> i, conn |-> x])
                         ELSE tasks
             /\ UNCHANGED <<sockets>>
          \/ CloseConnection(i, x) /\ UNCHANGED tasks
    OBVIOUS
  <1>2. [sub |-> i, conn |-> x] \in Task
    BY DEF TypeSubs, Task
  <1>3. pool = "up"
    BY Running
  <1>4. TypeMain'
    BY <1>1 DEF TypeMain, CloseConnection, sockets
  <1>5. TypeSubs'
    <2>1. TypeSubs /\ UNCHANGED <<halt, bell, box, batch>>
      OBVIOUS
    <2>2. loop[i] = "wait" /\ loop' = [loop EXCEPT ![i] = "head"]
      OBVIOUS
    <2>3. table' = table \/ table' = [table EXCEPT ![i] = @ \ {x}]
      BY <1>1 DEF CloseConnection, sockets
    <2> HIDE DEF IInv, TypeOK, ClientEvent
    <2> QED
      BY <2>1, <2>2, <2>3 DEF TypeSubs
  <1>6. TypePool'
    <2>1. tasks \in Seq(Task)
      BY DEF TypePool
    <2>2. Append(tasks, [sub |-> i, conn |-> x]) \in Seq(Task)
      BY <1>2, <2>1
    <2>3. tasks' \in Seq(Task) /\ UNCHANGED <<pool, work>>
      BY <1>1, <2>1, <2>2
    <2> QED
      BY <2>3 DEF TypePool
  <1>7. ExitedLast'
    BY <1>3 DEF ExitedLast
  <1>8. Stages'
    BY <1>3 DEF TypeSubs, Stages, Ended
  <1> QED
    BY <1>4, <1>5, <1>6, <1>7, <1>8

\* A worker takes a task, leaves, or announces the answer.
LEMMA WorkKeeps == ASSUME IInv, NEW w \in Workers, WorkStep(w) PROVE IInv'
  <1> USE DEF IInv, TypeOK, control, acceptor, sockets, threads
  <1>1. TypeMain' /\ Stages'
    BY DEF WorkStep, TypeMain, Stages, Ended
  <1>2. CASE work[w].at = "idle" /\ tasks # <<>> /\ tasks' = Tail(tasks)
             /\ Does(w, "push", Head(tasks)) /\ UNCHANGED mail
    <2>1. Head(tasks) \in Task /\ Head(tasks) # None /\ Tail(tasks) \in Seq(Task)
      BY <1>2, ServerAssumption DEF TypePool
    <2>2. TypePool'
      BY <1>2, <2>1 DEF WorkStep, TypePool, Does
    <2>3. ExitedLast'
      BY <1>2 DEF WorkStep, ExitedLast, TypePool, Does
    <2>4. TypeSubs'
      BY <1>2 DEF WorkStep, TypeSubs, mail
    <2> QED
      BY <1>1, <2>2, <2>3, <2>4
  <1>3. CASE work[w].at = "idle" /\ MayQuit /\ Does(w, "exited", None)
             /\ UNCHANGED <<mail, tasks>>
    <2>1. TypePool' /\ ExitedLast'
      BY <1>3 DEF WorkStep, TypePool, ExitedLast, Does, MayQuit
    <2>2. TypeSubs'
      BY <1>3 DEF WorkStep, TypeSubs, mail
    <2> QED
      BY <1>1, <2>1, <2>2
  <1>4. CASE work[w].at = "push" /\ Does(w, "ring", work[w].task) /\ UNCHANGED tasks
             /\ Push(work[w].task.sub, [type |-> "BusDone", conn |-> work[w].task.conn])
    <2>1. work[w].task \in Task
      BY <1>4 DEF TypePool
    <2>2. TypePool' /\ ExitedLast'
      BY <1>4 DEF WorkStep, TypePool, ExitedLast, Does
    <2>3. TypeSubs'
      <3>1. /\ work[w].task.sub \in Subs
            /\ [type |-> "BusDone", conn |-> work[w].task.conn] \in Message
        BY <2>1 DEF Task, Message
      <3> QED
        BY <1>4, <3>1, PushKeeps DEF WorkStep
    <2> QED
      BY <1>1, <2>2, <2>3
  <1>5. CASE work[w].at = "ring" /\ Does(w, "idle", None) /\ UNCHANGED tasks
             /\ Ring(work[w].task.sub)
    <2>1. work[w].task \in Task
      BY <1>5 DEF TypePool
    <2>2. TypePool' /\ ExitedLast'
      BY <1>5 DEF WorkStep, TypePool, ExitedLast, Does
    <2>3. TypeSubs'
      BY <1>5, <2>1 DEF WorkStep, TypeSubs, Ring, Task
    <2> QED
      BY <1>1, <2>2, <2>3
  <1> QED
    BY <1>2, <1>3, <1>4, <1>5 DEF WorkStep
-----------------------------------------------------------------------------
(* The theorems *)

\* No step of any thread breaks the invariant.
LEMMA Step == IInv /\ [Next]_vars => IInv'
  <1> SUFFICES ASSUME IInv, [Next]_vars PROVE IInv'
    OBVIOUS
  <1>1. CASE MainStep
    BY <1>1, StartKeeps, HeadKeeps, WaitKeeps, AcceptKeeps, DispatchKeeps, RaiseKeeps,
       PokeKeeps, JoinKeeps, DestroyKeeps DEF MainStep
  <1>2. CASE \E i \in Subs : SubStep(i)
    BY <1>2, SubHeadKeeps, SubFailsKeeps, TakeMailKeeps, HandleMailKeeps, ClientEventKeeps
       DEF SubStep
  <1>3. CASE \E w \in Workers : WorkStep(w)
    BY <1>3, WorkKeeps
  <1>4. CASE Connect \/ Stop
    BY <1>4, ConnectKeeps, StopKeeps
  <1>5. CASE UNCHANGED vars
    BY <1>5 DEF vars, control, acceptor, sockets, threads, mail, poolVars, IInv, TypeOK,
       TypeMain, TypeSubs, TypePool, ExitedLast, Stages, Ended
  <1> QED
    BY <1>1, <1>2, <1>3, <1>4, <1>5 DEF Next

\* Every variable of the server keeps its type, for any number of reactors,
\* workers and clients (server.h, server.cpp).
THEOREM TypeCorrect == Spec => []TypeOK
  <1>1. IInv => TypeOK
    BY DEF IInv
  <1> QED
    BY InitType, Step, <1>1, PTL DEF Spec

\* However start() ends and whenever stop() is called, no reactor runs beside
\* a pool that stops, and no task or worker refers to a reactor that has been
\* destroyed (server.h:44-47, thread_pool.cpp:41-44).
THEOREM Nested == Spec => []LifetimesNest
  <1>1. IInv => LifetimesNest
    BY DEF IInv, TypeOK, TypePool, Stages, Ended, LifetimesNest, Gone, Destroying
  <1> QED
    BY InitType, Step, <1>1, PTL DEF Spec
-----------------------------------------------------------------------------
(* The sockets and the listen queue *)

\* A connection has no reactor before it is accepted, and is queued once.
Fresh ==
    /\ \A x \in Conns : x > came => home[x] = None
    /\ \A k \in DOMAIN backlog : backlog[k] <= came /\ home[backlog[k]] = None
    /\ \A j, k \in DOMAIN backlog : backlog[j] = backlog[k] => j = k

\* The connection being dispatched goes to the reactor it was given.
Dealt == held # None => home[held] = turn

\* What is in the mailbox or the table of a reactor was given to it, and what
\* is open is there or about to be.
Placed ==
    /\ \A i \in Subs : \A x \in HasSocket(i) : home[x] = i
    /\ \A x \in open : \/ pc = "push" /\ held = x
                       \/ \E i \in Subs : home[x] = i /\ x \in HasSocket(i)

\* The tables of the reactors that are gone have been freed.
Freed ==
    /\ Destroying /\ pc \in {"raise", "poke", "join"}
          => \A i \in 0 .. turn - 1 : table[i] = {}
    /\ pc = "done" => Destroying /\ \A i \in Subs : table[i] = {}

\* Whenever the acceptor is about to sleep, what is queued will wake it.
Heard ==
    pc \in {"start", "head", "wait"} /\ backlog # <<>>
        => edge \/ failed \/ Main \in broken

SInv == IInv /\ Fresh /\ Dealt /\ Placed /\ Freed /\ Heard

\* Only connections of the model are in a mailbox or a table.
LEMMA SocketsAreConns == ASSUME TypeSubs, NEW i \in Subs PROVE HasSocket(i) \subseteq Conns
  BY DEF HasSocket, Unread, TypeSubs

\* A connection without a reactor is nowhere, and not open.
LEMMA Nowhere == ASSUME IInv, Placed, NEW x \in Conns, home[x] = None
                 PROVE \A i \in Subs : x \notin HasSocket(i)
  BY ServerAssumption DEF Placed, Subs

\* A step that moves no socket between the reactors and adds none.
LEMMA SameSockets ==
  ASSUME Placed, home' = home, open' \subseteq open,
         pc = "push" => UNCHANGED <<pc, held>>,
         \A i \in Subs : /\ HasSocket(i)' \subseteq HasSocket(i)
                         /\ HasSocket(i) \cap open' \subseteq HasSocket(i)'
  PROVE  Placed'
  <1>1. \A i \in Subs : \A x \in HasSocket(i)' : home'[x] = i
    BY DEF Placed
  <1>2. ASSUME NEW x \in open', ~(pc' = "push" /\ held' = x)
        PROVE  \E i \in Subs : home'[x] = i /\ x \in HasSocket(i)'
    BY <1>2 DEF Placed
  <1> QED
    BY <1>1, <1>2 DEF Placed

\* A sequence and what is appended to it.
LEMMA AppendElements == ASSUME NEW S, NEW s \in Seq(S), NEW m \in S
  PROVE  { Append(s, m)[k] : k \in DOMAIN Append(s, m) } = { s[k] : k \in DOMAIN s } \cup {m}
  <1> DEFINE t == Append(s, m)
  <1>1. /\ t \in Seq(S) /\ Len(t) = Len(s) + 1 /\ Len(s) \in Nat
        /\ \A k \in 1 .. Len(s) : t[k] = s[k]
        /\ t[Len(s) + 1] = m
    OBVIOUS
  <1>2. DOMAIN t = 1 .. Len(s) + 1 /\ DOMAIN s = 1 .. Len(s)
    BY <1>1
  <1> HIDE DEF t
  <1>3. { t[k] : k \in DOMAIN t } = { s[k] : k \in DOMAIN s } \cup {m}
    BY <1>1, <1>2
  <1> QED
    BY <1>3 DEF t

\* A sequence and its first element.
LEMMA TailElements == ASSUME NEW S, NEW s \in Seq(S), s # <<>>
  PROVE  { s[k] : k \in DOMAIN s } = { Tail(s)[k] : k \in DOMAIN Tail(s) } \cup {Head(s)}
  <1> DEFINE t == Tail(s)
  <1>1. /\ Len(s) \in Nat \ {0} /\ DOMAIN s = 1 .. Len(s)
        /\ DOMAIN t = 1 .. Len(s) - 1
        /\ \A k \in 1 .. Len(s) - 1 : t[k] = s[k + 1]
        /\ Head(s) = s[1]
    OBVIOUS
  <1> HIDE DEF t
  <1>2. \A k \in 2 .. Len(s) : k - 1 \in 1 .. Len(s) - 1 /\ t[k - 1] = s[k]
    BY <1>1
  <1>3. \A k \in 1 .. Len(s) : k = 1 \/ k \in 2 .. Len(s)
    BY <1>1
  <1>4. { s[k] : k \in DOMAIN s } \subseteq { t[k] : k \in DOMAIN t } \cup {Head(s)}
    BY <1>1, <1>2, <1>3
  <1>5. \A k \in 1 .. Len(s) - 1 : k + 1 \in DOMAIN s
    BY <1>1
  <1>6. 1 \in DOMAIN s
    BY <1>1
  <1>7. { t[k] : k \in DOMAIN t } \cup {Head(s)} \subseteq { s[k] : k \in DOMAIN s }
    BY <1>1, <1>5, <1>6
  <1> QED
    BY <1>4, <1>7 DEF t

\* The messages on their way after one was pushed.
LEMMA PushLetters ==
  ASSUME TypeSubs, NEW i \in Subs, NEW m \in Message, Push(i, m)
  PROVE  \A j \in Subs : Letters(j)' = Letters(j) \cup (IF j = i THEN {m} ELSE {})
  <1>1. batch' = batch /\ box' = [box EXCEPT ![i] = Append(box[i], m)]
    BY DEF Push
  <1>2. box \in [Subs -> Seq(Message)]
    BY DEF TypeSubs
  <1>3. \A j \in Subs : j # i => box'[j] = box[j]
    BY <1>1, <1>2
  <1>4. box'[i] = Append(box[i], m)
    BY <1>1, <1>2
  <1>5. { box'[i][k] : k \in DOMAIN box'[i] } = { box[i][k] : k \in DOMAIN box[i] } \cup {m}
    <2>1. box[i] \in Seq(Message)
      BY <1>2
    <2> DEFINE s == box[i]
               t == Append(s, m)
    <2>2. { t[k] : k \in DOMAIN t } = { s[k] : k \in DOMAIN s } \cup {m}
      BY <2>1, AppendElements
    <2> HIDE DEF t
    <2>3. box'[i] = t
      BY <1>4 DEF t
    <2> QED
      BY <2>2, <2>3
  <1> QED
    BY <1>1, <1>3, <1>5 DEF Letters

\* The messages that have been taken are still on their way.
LEMMA TakeLetters ==
  ASSUME TypeSubs, NEW i \in Subs, batch[i] = <<>>, TakeAll(i)
  PROVE  \A j \in Subs : Letters(j)' = Letters(j)
  <1>1. /\ box' = [box EXCEPT ![i] = <<>>] /\ batch' = [batch EXCEPT ![i] = box[i]]
        /\ DOMAIN box = Subs /\ DOMAIN batch = Subs
    BY DEF TakeAll, TypeSubs
  <1>2. \A j \in Subs : j # i => box'[j] = box[j] /\ batch'[j] = batch[j]
    BY <1>1
  <1>3. box'[i] = <<>> /\ batch'[i] = box[i]
    BY <1>1
  <1>4. Letters(i)' = Letters(i)
    BY <1>3 DEF Letters
  <1>5. \A j \in Subs : j # i => Letters(j)' = Letters(j)
    BY <1>2 DEF Letters
  <1> QED
    BY <1>4, <1>5

\* A message that is handled leaves the others.
LEMMA HandledLetters ==
  ASSUME TypeSubs, NEW i \in Subs, batch[i] # <<>>,
         box' = box, batch' = [batch EXCEPT ![i] = Tail(batch[i])]
  PROVE  /\ \A j \in Subs : j # i => Letters(j)' = Letters(j)
         /\ Letters(i) = Letters(i)' \cup {Head(batch[i])}
         /\ Head(batch[i]) \in Message
  <1>1. batch \in [Subs -> Seq(Message)]
    BY DEF TypeSubs
  <1>2. \A j \in Subs : j # i => batch'[j] = batch[j]
    BY <1>1
  <1>3. batch'[i] = Tail(batch[i]) /\ batch[i] \in Seq(Message)
    BY <1>1
  <1>4. { batch[i][k] : k \in DOMAIN batch[i] }
           = { batch'[i][k] : k \in DOMAIN batch'[i] } \cup {Head(batch[i])}
    BY <1>3, TailElements
  <1>5. Head(batch[i]) \in Message
    BY <1>3, HeadTail
  <1>6. \A j \in Subs : j # i => Letters(j)' = Letters(j)
    BY <1>2 DEF Letters
  <1>7. Letters(i) = Letters(i)' \cup {Head(batch[i])}
    BY <1>4 DEF Letters
  <1> QED
    BY <1>5, <1>6, <1>7

\* What is unread follows from the messages on their way.
LEMMA UnreadFollows == ASSUME NEW i \in Subs, UNCHANGED <<table>>, Letters(i)' = Letters(i)
                       PROVE HasSocket(i)' = HasSocket(i)
  BY DEF HasSocket, Unread

\* BusDone is no news of a socket.
LEMMA AnswerMovesNothing ==
  ASSUME TypeSubs, NEW i \in Subs, NEW c \in Conns, UNCHANGED <<table>>,
         Push(i, [type |-> "BusDone", conn |-> c])
  PROVE  \A j \in Subs : HasSocket(j)' = HasSocket(j)
  <1>1. [type |-> "BusDone", conn |-> c] \in Message
    BY DEF Message
  <1>2. \A j \in Subs : Letters(j)' = Letters(j)
             \cup (IF j = i THEN {[type |-> "BusDone", conn |-> c]} ELSE {})
    BY <1>1, PushLetters
  <1>3. \A x \in Conns : [type |-> "NewConn", conn |-> x] # [type |-> "BusDone", conn |-> c]
    OBVIOUS
  <1>4. \A j \in Subs : Unread(j)' = Unread(j)
    BY <1>2, <1>3 DEF Unread
  <1> QED
    BY <1>4 DEF HasSocket

\* A connection that is dispatched is unread.
LEMMA NewsIsUnread ==
  ASSUME TypeSubs, NEW i \in Subs, NEW c \in Conns, UNCHANGED <<table>>,
         Push(i, [type |-> "NewConn", conn |-> c])
  PROVE  \A j \in Subs : HasSocket(j)' = HasSocket(j) \cup (IF j = i THEN {c} ELSE {})
  <1>1. [type |-> "NewConn", conn |-> c] \in Message
    BY DEF Message
  <1>2. \A j \in Subs : Letters(j)' = Letters(j)
             \cup (IF j = i THEN {[type |-> "NewConn", conn |-> c]} ELSE {})
    BY <1>1, PushLetters
  <1>3. \A x \in Conns : [type |-> "NewConn", conn |-> x] = [type |-> "NewConn", conn |-> c]
                            => x = c
    OBVIOUS
  <1>4. \A j \in Subs : Unread(j)' = Unread(j) \cup (IF j = i THEN {c} ELSE {})
    BY <1>2, <1>3 DEF Unread
  <1> QED
    BY <1>4 DEF HasSocket

\* A step that leaves the acceptor's variables alone.
LEMMA SameAcceptor ==
  ASSUME Fresh, Dealt, Heard, UNCHANGED <<acceptor>>,
         held' # None => UNCHANGED <<turn, held>>,
         pc' \in {"start", "head", "wait"} => pc \in {"start", "head", "wait"}
  PROVE  Fresh' /\ Dealt' /\ Heard'
  <1>1. Fresh'
    BY DEF Fresh, acceptor
  <1>2. Dealt'
    BY DEF Dealt, acceptor
  <1>3. Heard'
    BY DEF Heard, acceptor
  <1> QED
    BY <1>1, <1>2, <1>3

\* A step of a thread that runs frees nothing.
LEMMA UpFreesNothing == ASSUME TypeOK, Freed, UNCHANGED <<pc, pool>>, pool = "up" PROVE Freed'
  BY DEF Freed, Destroying

\* Server::Server().
LEMMA InitSockets == Init => SInv
  <1> SUFFICES ASSUME Init PROVE SInv
    OBVIOUS
  <1>1. /\ Fresh /\ Dealt /\ Heard
    BY DEF Init, Fresh, Dealt, Heard
  <1>2. Freed
    BY DEF Init, Freed, Destroying
  <1>3. \A i \in Subs : HasSocket(i) = {}
    BY DEF Init, HasSocket, Unread, Letters
  <1>4. Placed
    BY <1>3 DEF Init, Placed
  <1> QED
    BY <1>1, <1>2, <1>4, InitType DEF SInv

\* The steps of start() but for accept() and the dispatch.
LEMMA StartKeepsSockets ==
  ASSUME SInv, Start \/ MainHead \/ MainWait PROVE SInv'
  <1>1. IInv /\ IInv'
    BY StartKeeps, HeadKeeps, WaitKeeps DEF SInv
  <1>2. pc \in {"start", "head", "wait"} /\ held = None /\ held' = held /\ pool = "up"
    BY <1>1 DEF Start, MainHead, MainWait, IInv, TypeOK, TypeMain, Stages
  <1>3. UNCHANGED <<stop, rr, came, backlog, failed, home, broken, sockets, mail, poolVars>>
    BY DEF Start, MainHead, MainWait, acceptor
  <1>4. Fresh'
    BY <1>3 DEF SInv, Fresh
  <1>5. Dealt'
    BY <1>2 DEF Dealt
  <1>6. Heard'
    BY DEF SInv, Heard, Start, MainHead, MainWait, LoopOrStop, acceptor
  <1>7. \A i \in Subs : HasSocket(i)' = HasSocket(i)
    BY <1>3 DEF HasSocket, Unread, Letters, sockets, mail
  <1>8. Placed'
    BY <1>2, <1>3, <1>7, SameSockets DEF SInv, sockets
  <1>9. Freed'
    BY <1>2, <1>3 DEF Freed, Destroying, poolVars, Start, MainHead, MainWait, LoopOrStop
  <1> QED
    BY <1>1, <1>4, <1>5, <1>6, <1>8, <1>9 DEF SInv

\* What is left of the listen queue.
LEMMA TailOfQueue ==
  ASSUME NEW S, NEW s \in Seq(S), s # <<>>
  PROVE  \A k \in DOMAIN Tail(s) : /\ k + 1 \in DOMAIN s /\ 1 \in DOMAIN s
                                   /\ Tail(s)[k] = s[k + 1] /\ k + 1 # 1
  OBVIOUS

\* The listen queue without its first connection.
LEMMA TailIsFresh ==
  ASSUME TypeMain, Fresh, backlog # <<>>, backlog' = Tail(backlog), came' = came,
         home' = home \/ \E i \in Subs : home' = [home EXCEPT ![Head(backlog)] = i]
  PROVE  Fresh'
  <1>1. \A k \in DOMAIN backlog' :
          /\ k + 1 \in DOMAIN backlog /\ backlog'[k] = backlog[k + 1]
          /\ 1 \in DOMAIN backlog /\ k + 1 # 1
    BY TailOfQueue DEF TypeMain
  <1>2. Head(backlog) = backlog[1] /\ 1 \in DOMAIN backlog
    BY DEF TypeMain
  <1>3. \A x \in Conns : x # backlog[1] => home'[x] = home[x]
    BY <1>2 DEF TypeMain
  <1>4. \A k \in DOMAIN backlog : backlog[k] \in Conns /\ k \in Nat
    BY DEF TypeMain
  <1>5. ASSUME NEW k \in DOMAIN backlog' PROVE backlog'[k] <= came' /\ home'[backlog'[k]] = None
    <2>1. backlog[k + 1] # backlog[1] /\ backlog[k + 1] \in Conns
      BY <1>1, <1>4 DEF Fresh
    <2>2. backlog[k + 1] <= came /\ home[backlog[k + 1]] = None
      BY <1>1 DEF Fresh
    <2> QED
      BY <1>1, <1>3, <2>1, <2>2
  <1>6. ASSUME NEW j \in DOMAIN backlog', NEW k \in DOMAIN backlog', backlog'[j] = backlog'[k]
        PROVE  j = k
    <2>1. j + 1 = k + 1
      BY <1>1, <1>6 DEF Fresh
    <2>2. j \in Nat /\ k \in Nat
      <3>1. backlog' \in Seq(Conns)
        BY HeadTail DEF TypeMain
      <3> QED
        BY <3>1
    <2> QED
      BY <2>1, <2>2
  <1>7. ASSUME NEW x \in Conns, x > came' PROVE home'[x] = None
    <2>1. backlog[1] <= came /\ backlog[1] \in Conns
      BY <1>2, <1>4 DEF Fresh
    <2>2. x # backlog[1]
      BY <1>7, <2>1 DEF TypeMain, Conns
    <2> QED
      BY <1>3, <1>7, <2>2 DEF Fresh
  <1> QED
    BY <1>5, <1>6, <1>7 DEF Fresh

\* accept() takes connections from the queue in their order: the one it returns
\* has been nowhere.
LEMMA AcceptKeepsSockets == ASSUME SInv, Accept PROVE SInv'
  <1>1. IInv /\ IInv' /\ TypeMain /\ TypeSubs
    BY AcceptKeeps DEF SInv, IInv, TypeOK
  <1>2. pc = "accept" /\ held = None /\ pool = "up"
    BY <1>1 DEF Accept, TypeMain, IInv, Stages
  <1>3. UNCHANGED <<stop, broken, table, threads, mail, poolVars>>
    BY DEF Accept
  <1>4. \A i \in Subs : HasSocket(i)' = HasSocket(i)
    BY <1>3 DEF HasSocket, Unread, Letters, mail
  <1>5. Freed'
    BY <1>2, <1>3 DEF Accept, AcceptNone, AcceptFails, Refuse, Take, Freed, Destroying, poolVars
  <1>6. CASE (AcceptNone \/ AcceptFails \/ Refuse) /\ UNCHANGED <<turn, held>>
    <2>1. UNCHANGED <<came, home, open>>
      BY <1>6 DEF AcceptNone, AcceptFails, Refuse, acceptor
    <2>2. Heard'
      BY <1>2, <1>6 DEF Heard, AcceptNone, AcceptFails, Refuse, acceptor
    <2>3. Dealt'
      BY <1>2, <1>6 DEF Dealt
    <2>4. Fresh'
      <3>1. CASE backlog' = backlog
        BY <2>1, <3>1 DEF SInv, Fresh
      <3>2. CASE backlog # <<>> /\ backlog' = Tail(backlog)
        BY <1>1, <2>1, <3>2, TailIsFresh DEF SInv
      <3> QED
        BY <1>6, <3>1, <3>2 DEF AcceptNone, AcceptFails, Refuse, acceptor
    <2>5. Placed'
      BY <1>2, <1>4, <2>1, SameSockets DEF SInv
    <2> QED
      BY <1>1, <1>5, <2>2, <2>3, <2>4, <2>5 DEF SInv
  <1>7. CASE Take
    <2> DEFINE c == Head(backlog)
    <2>1. /\ c \in Conns /\ home[c] = None /\ home' = [home EXCEPT ![c] = turn']
          /\ turn' \in Subs /\ held' = c /\ pc' = "push" /\ open' = open \cup {c}
          /\ backlog # <<>> /\ backlog' = Tail(backlog) /\ came' = came
      <3>1. c \in Conns /\ c = backlog[1] /\ 1 \in DOMAIN backlog
        BY <1>1, <1>7, HeadTail DEF Take, TypeMain
      <3>2. home[c] = None
        BY <3>1 DEF SInv, Fresh
      <3>3. turn' \in Subs
        BY <1>1 DEF IInv, TypeOK, TypeMain
      <3> QED
        BY <1>7, <3>1, <3>2, <3>3 DEF Take
    <2>2. home \in [Conns -> Subs \cup {None}]
      BY <1>1 DEF TypeMain
    <2> HIDE DEF c
    <2>3. Dealt'
      BY <2>1, <2>2 DEF Dealt
    <2>4. Heard'
      BY <2>1 DEF Heard
    <2>5. \A i \in Subs : c \notin HasSocket(i) /\ HasSocket(i) \subseteq Conns
      BY <1>1, <2>1, Nowhere, SocketsAreConns DEF SInv
    <2>6. \A x \in Conns : x # c => home'[x] = home[x]
      BY <2>1, <2>2
    <2>7. Placed'
      <3>1. \A i \in Subs : \A x \in HasSocket(i)' : home'[x] = i
        BY <1>4, <2>5, <2>6 DEF SInv, Placed
      <3>2. ASSUME NEW x \in open', x # c
            PROVE  \E i \in Subs : home'[x] = i /\ x \in HasSocket(i)'
        BY <1>1, <1>2, <1>4, <2>1, <2>6, <3>2 DEF SInv, Placed, TypeMain
      <3> QED
        BY <2>1, <3>1, <3>2 DEF Placed
    <2>8. Fresh'
      BY <1>1, <2>1, TailIsFresh DEF SInv, c
    <2> QED
      BY <1>1, <1>5, <2>3, <2>4, <2>7, <2>8 DEF SInv
  <1> QED
    BY <1>6, <1>7 DEF Accept

\* The connection reaches the mailbox of its reactor.
LEMMA DispatchKeepsSockets == ASSUME SInv, Dispatch PROVE SInv'
  <1>1. IInv /\ IInv' /\ TypeMain /\ TypeSubs
    BY DispatchKeeps DEF SInv, IInv, TypeOK
  <1>2. /\ held \in Conns /\ turn \in Subs /\ home[held] = turn
        /\ pc \in {"push", "ring"} /\ pc' \in {"ring", "accept"}
    BY <1>1 DEF Dispatch, AcceptOn, TypeMain, SInv, Dealt
  <1>3. Fresh' /\ Dealt' /\ Heard'
    BY <1>2, SameAcceptor DEF SInv, Dispatch
  <1>4. Freed'
    BY <1>2 DEF Freed
  <1>5. Placed'
    <2>1. CASE pc = "push"
      <3>1. \A j \in Subs : HasSocket(j)' = HasSocket(j) \cup (IF j = turn THEN {held} ELSE {})
        BY <1>1, <1>2, <2>1, NewsIsUnread DEF Dispatch, sockets
      <3>2. home' = home /\ open' = open
        BY DEF Dispatch, acceptor, sockets
      <3>3. \A i \in Subs : \A x \in HasSocket(i)' : home'[x] = i
        BY <1>2, <3>1, <3>2 DEF SInv, Placed
      <3>4. ASSUME NEW x \in open' PROVE \E i \in Subs : home'[x] = i /\ x \in HasSocket(i)'
        BY <1>2, <3>1, <3>2 DEF SInv, Placed
      <3> QED
        BY <3>3, <3>4 DEF Placed
    <2>2. CASE pc = "ring"
      <3>1. \A i \in Subs : HasSocket(i)' = HasSocket(i)
        BY <2>2 DEF Dispatch, Ring, sockets, HasSocket, Unread, Letters
      <3> QED
        BY <2>2, <3>1, SameSockets DEF SInv, Dispatch, acceptor, sockets
    <2> QED
      BY <1>2, <2>1, <2>2
  <1> QED
    BY <1>1, <1>3, <1>4, <1>5 DEF SInv

\* stop() of a reactor moves no socket,
LEMMA RaisePokeKeepsSockets == ASSUME SInv, Raise \/ Poke PROVE SInv'
  <1>1. IInv /\ IInv' /\ TypeMain
    BY RaiseKeeps, PokeKeeps DEF SInv, IInv, TypeOK
  <1>2. /\ pc \in {"raise", "poke"} /\ pc' \in {"poke", "join"}
        /\ UNCHANGED <<turn, held, acceptor, sockets, box, batch, poolVars>>
    BY DEF Raise, Poke, Wakeup, Ring, mail
  <1>3. Fresh' /\ Dealt' /\ Heard'
    BY <1>2, SameAcceptor DEF SInv
  <1>4. Freed'
    BY <1>2 DEF SInv, Freed, Destroying, sockets, poolVars
  <1>5. \A i \in Subs : HasSocket(i)' = HasSocket(i)
    BY <1>2 DEF HasSocket, Unread, Letters, sockets
  <1>6. Placed'
    BY <1>2, <1>5, SameSockets DEF SInv, acceptor, sockets
  <1> QED
    BY <1>1, <1>3, <1>4, <1>6 DEF SInv

\* and the destructor of one closes what its table holds.
LEMMA JoinKeepsSockets == ASSUME SInv, Join PROVE SInv'
  <1>1. IInv /\ IInv' /\ TypeMain /\ TypeSubs
    BY JoinKeeps DEF SInv, IInv, TypeOK
  <1>2. pc = "join" /\ UNCHANGED <<held, stop, acceptor, threads, mail, poolVars>>
    BY DEF Join
  <1>3. Fresh' /\ Dealt' /\ Heard'
    <2>1. held = None /\ pc' \in {"raise", "done", "destroy"}
      BY <1>1, <1>2 DEF Join, TypeMain
    <2> QED
      BY <1>2, <2>1, SameAcceptor DEF SInv
  <1>4. /\ open' \subseteq open
        /\ \A i \in Subs : table'[i] \subseteq table[i] /\ table[i] \cap open' \subseteq table'[i]
    BY <1>1 DEF Join, FreeTable, sockets, TypeSubs, TypeMain
  <1>5. \A i \in Subs : Unread(i)' = Unread(i)
    BY <1>2 DEF Unread, Letters, mail
  <1>6. Placed'
    <2>1. \A i \in Subs : /\ HasSocket(i)' \subseteq HasSocket(i)
                          /\ HasSocket(i) \cap open' \subseteq HasSocket(i)'
      BY <1>4, <1>5 DEF HasSocket
    <2> QED
      BY <1>2, <1>4, <2>1, SameSockets DEF SInv, acceptor
  <1>7. Freed'
    <2>1. CASE pool = "gone"
      <3>1. table' = [table EXCEPT ![turn] = {}] /\ pool' = pool
        BY <1>2, <2>1 DEF Join, FreeTable, Destroying, poolVars
      <3>2. \A i \in 0 .. turn : i \in Subs /\ table'[i] = {}
        <4>1. turn \in Subs /\ table \in [Subs -> SUBSET Conns]
          BY <1>1 DEF TypeMain, TypeSubs
        <4>2. \A i \in 0 .. turn : i \in Subs /\ (i = turn \/ i \in 0 .. turn - 1)
          BY <4>1, ServerAssumption DEF Subs
        <4>3. \A i \in 0 .. turn - 1 : table[i] = {}
          BY <1>2, <2>1 DEF SInv, Freed, Destroying
        <4> QED
          BY <3>1, <4>1, <4>2, <4>3
      <3>3. CASE turn + 1 < NumSubs
        <4>1. turn' = turn + 1 /\ pc' = "raise"
          BY <3>3 DEF Join
        <4>2. \A i \in 0 .. turn' - 1 : i \in 0 .. turn
          BY <1>1, <4>1, ServerAssumption DEF TypeMain, Subs
        <4> QED
          BY <3>2, <4>1, <4>2 DEF Freed
      <3>4. CASE ~(turn + 1 < NumSubs)
        <4>1. pc' = "done" /\ pool' = "gone"
          BY <2>1, <3>1, <3>4 DEF Join, Destroying
        <4>2. \A i \in Subs : i \in 0 .. turn
          BY <1>1, <3>4, ServerAssumption DEF TypeMain, Subs
        <4> QED
          BY <3>2, <4>1, <4>2 DEF Freed, Destroying
      <3> QED
        BY <3>3, <3>4
    <2>2. CASE pool # "gone"
      BY <1>2, <2>2 DEF Join, Freed, Destroying, poolVars
    <2> QED
      BY <2>1, <2>2
  <1> QED
    BY <1>1, <1>3, <1>6, <1>7 DEF SInv

\* ~Server() begins, or ~ThreadPool() ends: nothing moves.
LEMMA DestroyKeepsSockets == ASSUME SInv, Destroy PROVE SInv'
  <1>1. IInv /\ IInv' /\ TypeMain
    BY DestroyKeeps DEF SInv, IInv, TypeOK
  <1>2. /\ pc \in {"destroy", "drain"} /\ pc' \in {"drain", "raise"} /\ turn' = 0
        /\ pc' = "drain" => pool' = "stopping"
        /\ held = None /\ UNCHANGED <<held, acceptor, sockets, threads, mail>>
    BY <1>1 DEF Destroy, TypeMain
  <1>3. Fresh' /\ Dealt' /\ Heard'
    BY <1>2, SameAcceptor DEF SInv
  <1>4. Freed'
    <2>1. \A i \in 0 .. turn' - 1 : FALSE
      BY <1>2
    <2> QED
      BY <1>2, <2>1 DEF Freed, Destroying
  <1>5. \A i \in Subs : HasSocket(i)' = HasSocket(i)
    BY <1>2 DEF HasSocket, Unread, Letters, sockets, mail
  <1>6. Placed'
    BY <1>2, <1>5, SameSockets DEF SInv, acceptor, sockets
  <1> QED
    BY <1>1, <1>3, <1>4, <1>6 DEF SInv

\* The connection of a new client has been nowhere, and wakes the acceptor.
LEMMA ConnectKeepsSockets == ASSUME SInv, Connect PROVE SInv'
  <1>1. IInv /\ IInv' /\ TypeMain /\ Fresh
    BY ConnectKeeps DEF SInv, IInv, TypeOK
  <1>2. /\ came \in Nat /\ came' = came + 1 /\ came' \in Conns
        /\ backlog' = Append(backlog, came') /\ edge' = (Main \notin broken)
        /\ UNCHANGED <<control, stop, rr, home, broken, sockets, threads, mail, poolVars>>
    BY <1>1, ServerAssumption DEF Connect, TypeMain, Conns
  <1>3. Heard'
    BY <1>2 DEF Heard
  <1>4. Dealt' /\ Freed'
    BY <1>2 DEF SInv, Dealt, Freed, Destroying, control, sockets, poolVars
  <1>5. \A i \in Subs : HasSocket(i)' = HasSocket(i)
    BY <1>2 DEF HasSocket, Unread, Letters, sockets, mail
  <1>6. Placed'
    BY <1>2, <1>5, SameSockets DEF SInv, control, sockets
  <1>7. /\ \A k \in DOMAIN backlog : /\ backlog[k] \in Conns /\ backlog[k] <= came
                                      /\ home[backlog[k]] = None
        /\ home[came'] = None
    <2>1. \A k \in DOMAIN backlog : backlog[k] \in Conns
      BY <1>1 DEF TypeMain
    <2>2. came' > came
      BY <1>2
    <2>3. home[came'] = None
      BY <1>1, <1>2, <2>2 DEF Fresh
    <2> QED
      BY <1>1, <2>1, <2>3 DEF Fresh
  <1>8. /\ DOMAIN backlog = 1 .. Len(backlog) /\ Len(backlog) \in Nat
        /\ DOMAIN backlog' = 1 .. Len(backlog) + 1
        /\ \A k \in DOMAIN backlog : backlog'[k] = backlog[k]
        /\ backlog'[Len(backlog) + 1] = came'
    BY <1>1, <1>2 DEF TypeMain
  <1>9. \A k \in DOMAIN backlog' : k \in DOMAIN backlog \/ k = Len(backlog) + 1
    BY <1>8
  <1>10. ASSUME NEW k \in DOMAIN backlog' PROVE backlog'[k] <= came' /\ home'[backlog'[k]] = None
    <2>1. CASE k \in DOMAIN backlog
      BY <1>2, <1>7, <1>8, <2>1 DEF Conns
    <2>2. CASE k = Len(backlog) + 1
      BY <1>2, <1>7, <1>8, <2>2
    <2> QED
      BY <1>9, <2>1, <2>2
  <1>11. ASSUME NEW j \in DOMAIN backlog', NEW k \in DOMAIN backlog', backlog'[j] = backlog'[k]
         PROVE  j = k
    <2>1. \A m \in DOMAIN backlog : backlog'[m] # came'
      BY <1>2, <1>7, <1>8 DEF Conns
    <2>2. CASE j \in DOMAIN backlog /\ k \in DOMAIN backlog
      BY <1>1, <1>8, <1>11, <2>2 DEF Fresh
    <2>3. CASE j \notin DOMAIN backlog \/ k \notin DOMAIN backlog
      BY <1>8, <1>9, <1>11, <2>1, <2>3
    <2> QED
      BY <2>2, <2>3
  <1>12. \A x \in Conns : x > came' => home'[x] = None
    BY <1>1, <1>2 DEF Fresh, Conns
  <1>13. Fresh'
    BY <1>10, <1>11, <1>12 DEF Fresh
  <1> QED
    BY <1>1, <1>3, <1>4, <1>6, <1>13 DEF SInv

\* Steps of stop(), the workers and the reactors that move no socket.
LEMMA QuietKeepsSockets ==
  ASSUME SInv, IInv', UNCHANGED <<control, acceptor, sockets, pool>>,
         \A i \in Subs : HasSocket(i)' = HasSocket(i)
  PROVE  SInv'
  <1>1. Fresh' /\ Dealt' /\ Heard'
    BY SameAcceptor DEF SInv, control
  <1>2. Freed'
    BY DEF SInv, Freed, Destroying, control, sockets
  <1>3. Placed'
    BY SameSockets DEF SInv, control, acceptor, sockets
  <1> QED
    BY <1>1, <1>2, <1>3 DEF SInv

\* Steps of a reactor that runs and loses a socket, or moves it to its table.
LEMMA TableKeepsSockets ==
  ASSUME SInv, IInv', UNCHANGED <<control, acceptor, pool>>, pool = "up",
         open' \subseteq open,
         \A i \in Subs : /\ HasSocket(i)' \subseteq HasSocket(i)
                         /\ HasSocket(i) \cap open' \subseteq HasSocket(i)'
  PROVE  SInv'
  <1>1. Fresh' /\ Dealt' /\ Heard'
    BY SameAcceptor DEF SInv, control
  <1>2. Freed'
    BY UpFreesNothing DEF SInv, IInv, control
  <1>3. Placed'
    BY SameSockets DEF SInv, control, acceptor
  <1> QED
    BY <1>1, <1>2, <1>3 DEF SInv

\* A reactor handles a message.
LEMMA HandleMailKeepsSockets == ASSUME SInv, NEW i \in Subs, HandleMail(i) PROVE SInv'
  <1>1. IInv /\ IInv' /\ TypeSubs /\ TypeMain /\ pool = "up"
    BY HandleMailKeeps, Running DEF SInv, IInv, TypeOK, HandleMail
  <1>2. UNCHANGED <<control, stop, acceptor, halt, bell, box, poolVars>>
    BY DEF HandleMail
  <1>3. CASE batch[i] = <<>>
    <2>1. UNCHANGED <<sockets, batch>>
      BY <1>3 DEF HandleMail
    <2>2. \A j \in Subs : HasSocket(j)' = HasSocket(j)
      BY <1>2, <2>1 DEF HasSocket, Unread, Letters, sockets
    <2> QED
      BY <1>1, <1>2, <2>1, <2>2, QuietKeepsSockets DEF poolVars
  <1>4. CASE batch[i] # <<>>
    <2> DEFINE m == Head(batch[i])
               x == m.conn
    <2>1. /\ \A j \in Subs : j # i => Letters(j)' = Letters(j)
          /\ Letters(i) = Letters(i)' \cup {m}
          /\ m \in Message
      BY <1>1, <1>2, <1>4, HandledLetters DEF HandleMail
    <2>2. \/ /\ m.type = "NewConn"
             /\ table' = [table EXCEPT ![i] = @ \cup {x}] /\ open' = open
          \/ m.type # "NewConn" /\ UNCHANGED <<sockets>>
          \/ m.type # "NewConn" /\ \E y \in table[i] : CloseConnection(i, y)
      BY <1>4, AnsweredHere DEF HandleMail
    <2>3. table \in [Subs -> SUBSET Conns] /\ x \in Conns
      BY <1>1, <2>1 DEF TypeSubs, Message
    <2>4. m.type = "NewConn" => m = [type |-> "NewConn", conn |-> x]
      BY <2>1 DEF Message
    <2>5. m.type # "NewConn" => \A c \in Conns : m # [type |-> "NewConn", conn |-> c]
      OBVIOUS
    <2> HIDE DEF x, m
    <2>6. \A j \in Subs : j # i => HasSocket(j)' = HasSocket(j)
      <3>1. \A j \in Subs : j # i => table'[j] = table[j]
        BY <2>2, <2>3 DEF CloseConnection, sockets
      <3>2. \A j \in Subs : j # i => Unread(j)' = Unread(j)
        BY <2>1 DEF Unread
      <3> QED
        BY <3>1, <3>2 DEF HasSocket
    <2>7. /\ open' \subseteq open /\ HasSocket(i)' \subseteq HasSocket(i)
          /\ HasSocket(i) \cap open' \subseteq HasSocket(i)'
      <3>1. CASE m.type = "NewConn" /\ table' = [table EXCEPT ![i] = @ \cup {x}]
                 /\ open' = open
        <4>1. table'[i] = table[i] \cup {x}
          BY <2>3, <3>1
        <4>2. Unread(i) = Unread(i)' \cup {x}
          <5>1. [type |-> "NewConn", conn |-> x] \in Letters(i)
            BY <2>1, <2>4, <3>1
          <5>2. \A c \in Conns : [type |-> "NewConn", conn |-> c] = m => c = x
            BY <2>4, <3>1
          <5> QED
            BY <2>1, <2>3, <5>1, <5>2 DEF Unread
        <4> QED
          BY <3>1, <4>1, <4>2 DEF HasSocket
      <3>2. CASE /\ m.type # "NewConn"
                 /\ UNCHANGED <<sockets>> \/ \E y \in table[i] : CloseConnection(i, y)
        <4>1. Unread(i)' = Unread(i)
          BY <2>1, <2>5, <3>2 DEF Unread
        <4>2. /\ open' \subseteq open /\ table'[i] \subseteq table[i]
              /\ table[i] \cap open' \subseteq table'[i]
          BY <2>3, <3>2 DEF CloseConnection, sockets
        <4> QED
          BY <4>1, <4>2 DEF HasSocket
      <3> QED
        BY <2>2, <3>1, <3>2
    <2> QED
      BY <1>1, <1>2, <2>6, <2>7, TableKeepsSockets DEF poolVars
  <1> QED
    BY <1>3, <1>4

\* A connection submits a request, or ends.
LEMMA ClientEventKeepsSockets == ASSUME SInv, NEW i \in Subs, ClientEvent(i) PROVE SInv'
  <1>1. IInv /\ IInv' /\ TypeSubs /\ pool = "up"
    BY ClientEventKeeps, Running DEF SInv, IInv, TypeOK, ClientEvent
  <1>2. UNCHANGED <<control, stop, acceptor, halt, mail, pool, work>>
    BY DEF ClientEvent
  <1>3. PICK x \in table[i] : UNCHANGED <<sockets>> \/ CloseConnection(i, x)
    BY DEF ClientEvent
  <1>4. \A j \in Subs : Unread(j)' = Unread(j)
    BY <1>2 DEF Unread, Letters, mail
  <1>5. /\ open' \subseteq open
        /\ \A j \in Subs : table'[j] \subseteq table[j] /\ table[j] \cap open' \subseteq table'[j]
    BY <1>1, <1>3 DEF CloseConnection, sockets, TypeSubs
  <1> QED
    BY <1>1, <1>2, <1>4, <1>5, TableKeepsSockets DEF HasSocket

\* A reactor goes round its loop.
LEMMA LoopKeepsSockets ==
  ASSUME SInv, NEW i \in Subs, SubHead(i) \/ SubFails(i) \/ TakeMail(i) PROVE SInv'
  <1>1. IInv' /\ TypeSubs
    BY SubHeadKeeps, SubFailsKeeps, TakeMailKeeps DEF SInv, IInv, TypeOK
  <1>2. UNCHANGED <<control, acceptor, sockets, poolVars>>
    BY DEF SubHead, SubFails, TakeMail
  <1>3. \A j \in Subs : Letters(j)' = Letters(j)
    <2>1. CASE SubHead(i) \/ SubFails(i)
      BY <2>1 DEF SubHead, SubFails, mail, Letters
    <2>2. CASE TakeMail(i)
      <3>1. batch[i] = <<>> /\ TakeAll(i)
        BY <1>1, <2>2 DEF TakeMail, TypeSubs
      <3> QED
        BY <1>1, <3>1, TakeLetters
    <2> QED
      BY <2>1, <2>2
  <1>4. \A j \in Subs : HasSocket(j)' = HasSocket(j)
    BY <1>2, <1>3, UnreadFollows DEF sockets
  <1> QED
    BY <1>1, <1>2, <1>4, QuietKeepsSockets DEF poolVars

\* A worker sends no connection anywhere.
LEMMA WorkKeepsSockets == ASSUME SInv, NEW w \in Workers, WorkStep(w) PROVE SInv'
  <1>1. IInv /\ IInv' /\ TypeSubs /\ TypePool
    BY WorkKeeps DEF SInv, IInv, TypeOK
  <1>2. UNCHANGED <<control, stop, acceptor, sockets, threads, pool>>
    BY DEF WorkStep
  <1>3. \/ UNCHANGED mail
        \/ /\ work[w].at = "push"
           /\ Push(work[w].task.sub, [type |-> "BusDone", conn |-> work[w].task.conn])
        \/ Ring(work[w].task.sub)
    BY DEF WorkStep
  <1>4. \A j \in Subs : HasSocket(j)' = HasSocket(j)
    <2>1. CASE UNCHANGED mail \/ Ring(work[w].task.sub)
      BY <1>2, <2>1 DEF mail, Ring, HasSocket, Unread, Letters, sockets
    <2>2. CASE work[w].at = "push"
               /\ Push(work[w].task.sub, [type |-> "BusDone", conn |-> work[w].task.conn])
      <3>1. work[w].task.sub \in Subs /\ work[w].task.conn \in Conns
        BY <1>1, <2>2 DEF TypePool, Task
      <3> QED
        BY <1>1, <1>2, <2>2, <3>1, AnswerMovesNothing DEF sockets
    <2> QED
      BY <1>3, <2>1, <2>2
  <1> QED
    BY <1>1, <1>2, <1>4, QuietKeepsSockets

\* No step of any thread breaks the invariant of the sockets.
LEMMA SocketStep == SInv /\ [Next]_vars => SInv'
  <1> SUFFICES ASSUME SInv, [Next]_vars PROVE SInv'
    OBVIOUS
  <1>1. CASE MainStep
    BY <1>1, StartKeepsSockets, AcceptKeepsSockets, DispatchKeepsSockets,
       RaisePokeKeepsSockets, JoinKeepsSockets, DestroyKeepsSockets DEF MainStep
  <1>2. CASE \E i \in Subs : SubStep(i)
    BY <1>2, LoopKeepsSockets, HandleMailKeepsSockets, ClientEventKeepsSockets DEF SubStep
  <1>3. CASE \E w \in Workers : WorkStep(w)
    BY <1>3, WorkKeepsSockets
  <1>4. CASE Connect
    BY <1>4, ConnectKeepsSockets
  <1>5. CASE Stop \/ UNCHANGED vars
    <2>1. IInv' /\ UNCHANGED <<control, acceptor, sockets, mail, pool>>
      BY <1>5, Step DEF SInv, Stop, vars, poolVars
    <2>2. \A j \in Subs : HasSocket(j)' = HasSocket(j)
      BY <2>1 DEF HasSocket, Unread, Letters, sockets, mail
    <2> QED
      BY <2>1, <2>2, QuietKeepsSockets
  <1> QED
    BY <1>1, <1>2, <1>3, <1>4, <1>5 DEF Next

\* An accepted socket is never in two reactors' hands, and none is lost but
\* those whose message nobody read (sub_reactor.cpp:327, server.cpp:98-107).
THEOREM OnePlace == Spec => []SocketsInOnePlace
  <1>1. SInv => SocketsInOnePlace
    <2> SUFFICES ASSUME SInv PROVE SocketsInOnePlace
      OBVIOUS
    <2>1. \A x \in open : held = x \/ \E i \in Subs : home[x] = i /\ x \in HasSocket(i)
      BY DEF SInv, Placed
    <2>2. \A i, j \in Subs : i # j => HasSocket(i) \cap HasSocket(j) = {}
      BY DEF SInv, Placed
    <2>3. ASSUME pc = "done" PROVE open \subseteq UNION { Unread(i) : i \in Subs }
      BY <2>3 DEF SInv, Placed, Freed, HasSocket
    <2> QED
      BY <2>1, <2>2, <2>3 DEF SocketsInOnePlace
  <1> QED
    BY InitSockets, SocketStep, <1>1, PTL DEF Spec

\* The acceptor never sleeps on a queue that will not wake it, although the
\* listen descriptor is edge-triggered (server.cpp:85-96).
THEOREM NobodyForgotten == Spec => []NobodyForgottenInBacklog
  <1>1. SInv => NobodyForgottenInBacklog
    BY DEF SInv, Heard, NobodyForgottenInBacklog
  <1> QED
    BY InitSockets, SocketStep, <1>1, PTL DEF Spec
-----------------------------------------------------------------------------
(* The round robin *)

\* Quotient and remainder,
LEMMA DivMod == ASSUME NEW a \in Nat, NEW n \in Nat \ {0}
  PROVE  a = n * (a \div n) + (a % n) /\ a \div n \in Nat /\ a % n \in 0 .. n - 1
  OBVIOUS

\* of which there is one pair.
LEMMA Unique ==
  ASSUME NEW n \in Nat \ {0}, NEW q \in Nat, NEW r \in 0 .. n - 1,
         NEW p \in Nat, NEW s \in 0 .. n - 1, n * q + r = n * p + s
  PROVE  r = s
  <1>1. CASE q = p
    BY <1>1
  <1>2. CASE q >= p + 1
    <2>1. n * q >= n * (p + 1)
      BY <1>2
    <2>2. n * (p + 1) = n * p + n
      OBVIOUS
    <2> QED
      BY <2>1, <2>2
  <1>3. CASE p >= q + 1
    <2>1. n * p >= n * (q + 1)
      BY <1>3
    <2>2. n * (q + 1) = n * q + n
      OBVIOUS
    <2> QED
      BY <2>1, <2>2
  <1> QED
    BY <1>1, <1>2, <1>3

\* The remainder of the next number.
LEMMA ModSucc == ASSUME NEW a \in Nat, NEW n \in Nat \ {0}
  PROVE (a + 1) % n = IF (a % n) + 1 = n THEN 0 ELSE (a % n) + 1
  <1> DEFINE q == a \div n
             r == a % n
  <1>1. a = n * q + r /\ q \in Nat /\ r \in 0 .. n - 1
    BY DivMod
  <1> DEFINE p == (a + 1) \div n
             s == (a + 1) % n
  <1>2. a + 1 = n * p + s /\ p \in Nat /\ s \in 0 .. n - 1
    <2>1. a + 1 \in Nat
      OBVIOUS
    <2> HIDE DEF q, r
    <2> QED
      BY <2>1, DivMod, Zenon
  <1> HIDE DEF q, r, p, s
  <1>3. CASE r + 1 = n
    <2>1. n * q + n = n * (q + 1) + 0
      BY <1>1
    <2>2. n * (q + 1) + 0 = n * p + s
      BY <1>1, <1>2, <1>3, <2>1
    <2>3. 0 = s
      BY <1>1, <1>2, <2>2, Unique
    <2> QED
      BY <1>3, <2>3 DEF s, r
  <1>4. CASE r + 1 # n
    <2>1. r + 1 \in 0 .. n - 1
      BY <1>1, <1>4
    <2>2. n * q + (r + 1) = n * p + s
      BY <1>1, <1>2
    <2>3. r + 1 = s
      BY <1>1, <1>2, <2>1, <2>2, Unique
    <2> QED
      BY <1>4, <2>3 DEF s, r
  <1> QED
    BY <1>3, <1>4

\* Remainders of small numbers.
LEMMA ModSmall ==
  ASSUME NEW n \in Nat \ {0} PROVE n % n = 0 /\ 0 % n = 0 /\ \A a \in 0 .. n - 1 : a % n = a
  OBVIOUS

\* m_rr_index keeps counting the reactors when it wraps, if NumSubs divides 2 ^ 32.
LEMMA WrapKeepsTurns ==
  ASSUME NEW a \in 0 .. Wrap - 1, Wrap % NumSubs = 0
  PROVE  ((a + 1) % Wrap) % NumSubs = IF (a % NumSubs) + 1 = NumSubs THEN 0 ELSE (a % NumSubs) + 1
  <1> USE ServerAssumption
  <1>1. (a + 1) % NumSubs = IF (a % NumSubs) + 1 = NumSubs THEN 0 ELSE (a % NumSubs) + 1
    <2>1. a \in Nat
      OBVIOUS
    <2> QED
      BY <2>1, ModSucc, Zenon
  <1>2. CASE a + 1 = Wrap
    <2>1. (a + 1) % Wrap = 0 /\ 0 % NumSubs = 0
      BY <1>2, ModSmall
    <2> QED
      BY <1>1, <1>2, <2>1
  <1>3. CASE a + 1 # Wrap
    <2>1. a + 1 \in 0 .. Wrap - 1
      BY <1>3
    <2>2. (a + 1) % Wrap = a + 1
      BY <2>1, ModSmall
    <2> QED
      BY <1>1, <2>2
  <1> QED
    BY <1>2, <1>3

\* How many rounds have been dealt: the reactors before the next one have one
\* connection more than the others.
Rounds ==
    Wrap % NumSubs = 0 =>
        \E q \in Nat : \A i \in Subs : Share(i) = IF i < rr % NumSubs THEN q + 1 ELSE q

\* There are finitely many connections.
LEMMA ConnsFinite == \A S \in SUBSET Conns : IsFiniteSet(S)
  <1>1. 1 \in Int /\ Clients \in Int
    BY ServerAssumption
  <1>2. IsFiniteSet(Conns)
    BY <1>1, FS_Interval, Zenon DEF Conns
  <1> QED
    BY <1>2, FS_Subset, Zenon

\* A connection counts for the reactor that gets it.
LEMMA TakeShares ==
  ASSUME TypeMain, NEW c \in Conns, home[c] = None, NEW t \in Subs,
         home' = [home EXCEPT ![c] = t]
  PROVE  \A i \in Subs : Share(i)' = IF i = t THEN Share(i) + 1 ELSE Share(i)
  <1>1. t # None /\ home \in [Conns -> Subs \cup {None}]
    BY ServerAssumption DEF TypeMain, Subs
  <1>2. /\ home'[c] = t
        /\ \A x \in Conns : x # c => home'[x] = home[x]
    BY <1>1
  <1>3. ASSUME NEW i \in Subs, i # t PROVE Share(i)' = Share(i)
    <2>1. i # None
      BY ServerAssumption DEF Subs
    <2>2. { x \in Conns : home'[x] = i } = { x \in Conns : home[x] = i }
      BY <1>2, <1>3, <2>1
    <2> QED
      BY <2>2 DEF Share
  <1>4. Share(t)' = Share(t) + 1
    <2> DEFINE S == { x \in Conns : home[x] = t }
    <2>1. { x \in Conns : home'[x] = t } = S \cup {c}
      BY <1>2
    <2>2. c \notin S /\ IsFiniteSet(S)
      BY <1>1, ConnsFinite
    <2>3. Cardinality(S \cup {c}) = Cardinality(S) + 1
      <3> HIDE DEF S
      <3> QED
        BY <2>2, FS_AddElement
    <2> QED
      BY <2>1, <2>3 DEF Share
  <1> QED
    BY <1>3, <1>4

\* Server::Server().
LEMMA InitRounds == Init => Rounds
  <1> SUFFICES ASSUME Init PROVE Rounds
    OBVIOUS
  <1>1. \A i \in Subs : { x \in Conns : home[x] = i } = {}
    BY ServerAssumption DEF Init, Subs
  <1>2. \A i \in Subs : Share(i) = 0
    BY <1>1, FS_EmptySet DEF Share
  <1>3. rr % NumSubs = 0
    BY ServerAssumption, ModSmall DEF Init
  <1>4. \A i \in Subs : ~(i < 0)
    BY DEF Subs
  <1> QED
    BY <1>2, <1>3, <1>4 DEF Rounds

\* A round goes on, or ends with as many connections for everybody.
LEMMA RoundsStep == SInv /\ Rounds /\ [Next]_vars => Rounds'
  <1> SUFFICES ASSUME SInv, Rounds, [Next]_vars PROVE Rounds'
    OBVIOUS
  <1>1. CASE Accept /\ Take
    <2> DEFINE c == Head(backlog)
               t == rr % NumSubs
    <2>1. TypeMain /\ Fresh
      BY DEF SInv, IInv, TypeOK
    <2>2. c \in Conns /\ home[c] = None
      <3>1. c \in Conns /\ c = backlog[1] /\ 1 \in DOMAIN backlog
        BY <1>1, <2>1, HeadTail DEF Take, TypeMain
      <3> QED
        BY <2>1, <3>1 DEF Fresh
    <2>3. t \in Subs /\ rr \in 0 .. Wrap - 1
      BY <2>1, ServerAssumption, Modulo DEF TypeMain, Subs
    <2>4. home' = [home EXCEPT ![c] = t] /\ rr' = (rr + 1) % Wrap
      BY <1>1 DEF Take, Advance
    <2>5. \A i \in Subs : Share(i)' = IF i = t THEN Share(i) + 1 ELSE Share(i)
      <3> HIDE DEF c, t
      <3> QED
        BY <2>1, <2>2, <2>3, <2>4, TakeShares
    <2>6. ASSUME Wrap % NumSubs = 0
          PROVE  \E q \in Nat : \A i \in Subs :
                    Share(i)' = IF i < rr' % NumSubs THEN q + 1 ELSE q
      <3>1. PICK q \in Nat : \A i \in Subs : Share(i) = IF i < t THEN q + 1 ELSE q
        BY <2>6 DEF Rounds
      <3>2. rr' % NumSubs = IF t + 1 = NumSubs THEN 0 ELSE t + 1
        BY <2>3, <2>4, <2>6, WrapKeepsTurns
      <3> HIDE DEF c, t
      <3>3. CASE t + 1 = NumSubs
        <4>1. \A i \in Subs : (i < t \/ i = t) /\ ~(i < 0) /\ ~(t < t)
          BY <2>3, <3>3 DEF Subs
        <4>2. \A i \in Subs : Share(i)' = q + 1
          BY <2>3, <2>5, <3>1, <4>1
        <4> QED
          BY <3>2, <3>3, <4>1, <4>2
      <3>4. CASE t + 1 # NumSubs
        <4>1. \A i \in Subs : (i < t + 1 <=> i < t \/ i = t) /\ ~(t < t)
          BY <2>3 DEF Subs
        <4>2. \A i \in Subs : Share(i)' = IF i < t + 1 THEN q + 1 ELSE q
          BY <2>3, <2>5, <3>1, <4>1
        <4> QED
          BY <3>2, <3>4, <4>2
      <3> QED
        BY <3>3, <3>4
    <2> QED
      BY <2>6 DEF Rounds
  <1>2. CASE ~(Accept /\ Take)
    <2>1. UNCHANGED <<rr, home>>
      BY <1>2 DEF Next, MainStep, Start, MainHead, MainWait, Accept, AcceptNone, AcceptFails,
         Refuse, Dispatch, Raise, Poke, Join, Destroy, SubStep, SubHead, SubFails, TakeMail,
         HandleMail, ClientEvent, WorkStep, Connect, Stop, vars, acceptor
    <2> QED
      BY <2>1 DEF Rounds, Share
  <1> QED
    BY <1>1, <1>2

\* Refused connections and the end of m_rr_index's range do not disturb the
\* round robin: the reactors that have had their turn are one connection ahead of
\* the others (server.cpp:98-107).
THEOREM EvenShares == Spec => []Balanced
  <1>1. SInv /\ Rounds => Balanced
    <2> DEFINE next == rr % NumSubs
    <2> SUFFICES ASSUME SInv, Rounds, Wrap % NumSubs = 0,
                        NEW i \in Subs, NEW j \in Subs, i <= j
                 PROVE  Share(i) = Share(j) + IF i < next /\ next <= j THEN 1 ELSE 0
      BY DEF Balanced
    <2>1. PICK q \in Nat : \A k \in Subs : Share(k) = IF k < next THEN q + 1 ELSE q
      BY DEF Rounds
    <2>2. i \in Nat /\ j \in Nat /\ next \in Nat
      <3>1. rr \in Nat
        BY ServerAssumption DEF SInv, IInv, TypeOK, TypeMain
      <3> QED
        BY <3>1, ServerAssumption, Modulo DEF Subs
    <2> HIDE DEF next
    <2> QED
      BY <2>1, <2>2
  <1> QED
    BY InitSockets, InitRounds, SocketStep, RoundsStep, <1>1, PTL DEF Spec
=============================================================================
