-------------------------- MODULE ThreadPoolProofs --------------------------
(***************************************************************************)
(* Proofs about ThreadPool, for every number of workers, callers and tasks. *)
(***************************************************************************)
EXTENDS ThreadPool, FiniteSetTheorems, TLAPS

started == Len(accepted) - Len(queue)

\* The queue is what has been accepted and not been started.
Queued ==
    /\ Len(queue) <= Len(accepted)
    /\ \A i \in 1 .. Len(queue) : queue[i] = accepted[started + i]

\* A task is submitted once: what is being pushed is new.
Fresh ==
    /\ \A i \in DOMAIN accepted : accepted[i] \in asked
    /\ \A i, j \in DOMAIN accepted : accepted[i] = accepted[j] => i = j
    /\ \A c \in Callers : cpc[c] = "push" =>
          /\ arg[c] \in asked
          /\ \A i \in DOMAIN accepted : accepted[i] # arg[c]

IsStarted(t) == \E i \in 1 .. started : accepted[i] = t

\* What has been started has run or is being run, by one worker.
Jobs ==
    /\ \A w \in Workers : wpc[w] = "run" => IsStarted(job[w]) /\ job[w] \notin done
    /\ \A v, w \in Workers : wpc[v] = "run" /\ wpc[w] = "run" /\ job[v] = job[w] => v = w
    /\ \A t \in done : IsStarted(t)
    /\ \A i \in 1 .. started :
          \/ accepted[i] \in done
          \/ \E w \in Workers : wpc[w] = "run" /\ job[w] = accepted[i]

\* shutdown() and the workers that have left.
Stopping ==
    /\ stop <=> spc # "idle"
    /\ \A w \in Workers : wpc[w] = "exited" =>
          /\ stop /\ queue = <<>>
          /\ \A c \in Callers : cpc[c] # "push"
    /\ spc \in {"notify", "join", "joined"} => \A w \in Workers : wpc[w] # "sleep"
    /\ spc \in {"join", "joined"} => \A w \in Workers : wpc[w] # "wait"
    /\ spc = "joined" => \A w \in Workers : wpc[w] = "exited"

IInv == TypeOK /\ Queued /\ Fresh /\ Jobs /\ Stopping
-----------------------------------------------------------------------------
LEMMA Lengths ==
    ASSUME TypeOK
    PROVE  /\ Len(queue) \in Nat /\ Len(accepted) \in Nat
           /\ DOMAIN accepted = 1 .. Len(accepted)
           /\ DOMAIN queue = 1 .. Len(queue)
BY DEF TypeOK

LEMMA InitInv == Init => IInv
<1> SUFFICES ASSUME Init PROVE IInv
    OBVIOUS
<1>1. TypeOK
    <2>1. <<>> \in Seq(Tasks)
        OBVIOUS
    <2>. QED BY <2>1, PoolAssumption DEF Init, TypeOK
<1>2. Len(accepted) = 0 /\ Len(queue) = 0 /\ started = 0
    BY DEF Init, started
<1>3. 1 .. 0 = {}
    OBVIOUS
<1>4. Queued /\ Fresh /\ Jobs /\ Stopping
    BY <1>2, <1>3 DEF Init, Queued, Fresh, Jobs, Stopping, IsStarted
<1>. QED BY <1>1, <1>4 DEF IInv

\* Steps that leave the tasks where they are.
LEMMA TasksStay ==
    ASSUME IInv, UNCHANGED <<queue, accepted, job, arg, asked, done>>,
           \A w \in Workers : wpc'[w] = "run" <=> wpc[w] = "run",
           \A c \in Callers : cpc'[c] = "push" => cpc[c] = "push"
    PROVE  Queued' /\ Fresh' /\ Jobs'
<1>1. started' = started
    BY DEF started
<1>2. Queued'
    BY <1>1 DEF IInv, Queued
<1>3. Fresh'
    BY DEF IInv, Fresh
<1>4. Jobs'
    BY <1>1 DEF IInv, Jobs, IsStarted
<1>. QED BY <1>2, <1>3, <1>4

LEMMA TakeInv == \A w \in Workers : IInv /\ Take(w) => IInv'
<1> SUFFICES ASSUME NEW w \in Workers, IInv, Take(w) PROVE IInv'
    OBVIOUS
<1>1. /\ wpc[w] = "lock" /\ queue # <<>>
      /\ job' = [job EXCEPT ![w] = Head(queue)]
      /\ queue' = Tail(queue)
      /\ wpc' = [wpc EXCEPT ![w] = "run"]
      /\ UNCHANGED <<mtx, stop, cpc, arg, asked, spc, accepted, done>>
    BY DEF Take, callerVars
<1>2. /\ queue \in Seq(Tasks) /\ accepted \in Seq(Tasks)
      /\ Len(queue) \in Nat /\ Len(accepted) \in Nat /\ started \in Nat
      /\ DOMAIN accepted = 1 .. Len(accepted)
    BY Lengths DEF IInv, TypeOK, Queued, started
<1>3. /\ Head(queue) \in Tasks /\ queue' \in Seq(Tasks)
      /\ Len(queue) > 0 /\ Len(queue') = Len(queue) - 1
      /\ Head(queue) = queue[1]
      /\ \A i \in 1 .. Len(queue') : queue'[i] = queue[i + 1]
    BY <1>1, <1>2
<1>4. started' = started + 1 /\ started + 1 \in DOMAIN accepted
    BY <1>1, <1>2, <1>3 DEF started, IInv, Queued
<1>5. /\ job'[w] = Head(queue) /\ wpc'[w] = "run"
      /\ \A v \in Workers \ {w} : job'[v] = job[v] /\ wpc'[v] = wpc[v]
    BY <1>1 DEF IInv, TypeOK
<1>6. TypeOK'
    <2>1. wpc' \in [Workers -> {"lock", "sleep", "wait", "run", "exited"}]
        BY <1>1 DEF IInv, TypeOK
    <2>2. job' \in [Workers -> Tasks \cup {Free}]
        BY <1>1, <1>3 DEF IInv, TypeOK
    <2>3. \A v \in Workers : wpc'[v] = "sleep" <=> mtx' = v
        BY <1>1, <1>5 DEF IInv, TypeOK
    <2>. QED BY <1>1, <1>3, <2>1, <2>2, <2>3 DEF IInv, TypeOK
<1>7. Head(queue) = accepted[started + 1]
    BY <1>2, <1>3 DEF IInv, Queued
<1>8. Queued'
    <2>1. \A i \in 1 .. Len(queue') : i + 1 \in 1 .. Len(queue)
                                      /\ started + (i + 1) = started' + i
        BY <1>2, <1>3, <1>4
    <2>. QED BY <1>1, <1>2, <1>3, <2>1 DEF IInv, Queued
<1>9. Fresh'
    BY <1>1 DEF IInv, Fresh
\* The task taken is another one than those started before.
<1>10. ~IsStarted(Head(queue))
    BY <1>2, <1>4, <1>7 DEF IsStarted, IInv, Fresh
<1>11. \A t : IsStarted(t)' <=> IsStarted(t) \/ t = Head(queue)
    BY <1>1, <1>2, <1>4, <1>7 DEF IsStarted
<1>12. Jobs'
    <2>1. \A v \in Workers : wpc'[v] = "run" =>
              (\E i \in 1 .. started' : accepted'[i] = job'[v]) /\ job'[v] \notin done'
        <3>1. (\E i \in 1 .. started' : accepted'[i] = job'[w]) /\ job'[w] \notin done'
            BY <1>1, <1>2, <1>4, <1>5, <1>7, <1>10 DEF IInv, Jobs
        <3>2. ASSUME NEW v \in Workers \ {w}, wpc'[v] = "run"
              PROVE  (\E i \in 1 .. started' : accepted'[i] = job'[v]) /\ job'[v] \notin done'
            BY <1>1, <1>2, <1>4, <1>5, <3>2 DEF IInv, Jobs, IsStarted
        <3>. QED BY <3>1, <3>2
    <2>2. \A u, v \in Workers : wpc'[u] = "run" /\ wpc'[v] = "run" /\ job'[u] = job'[v] => u = v
        BY <1>5, <1>10 DEF IInv, Jobs
    <2>3. \A t \in done' : IsStarted(t)'
        BY <1>1, <1>11 DEF IInv, Jobs
    <2>4. ASSUME NEW i \in 1 .. started'
          PROVE  accepted'[i] \in done' \/ \E v \in Workers : wpc'[v] = "run" /\ job'[v] = accepted'[i]
        <3>1. CASE i = started + 1
            BY <1>1, <1>5, <1>7, <3>1
        <3>2. CASE i \in 1 .. started
            BY <1>1, <1>5, <3>2 DEF IInv, Jobs
        <3>. QED BY <1>2, <1>4, <3>1, <3>2
    <2>. QED BY <2>1, <2>2, <2>3, <2>4 DEF Jobs, IsStarted
<1>13. Stopping'
    BY <1>1, <1>5 DEF IInv, Stopping
<1>. QED BY <1>6, <1>8, <1>9, <1>12, <1>13 DEF IInv

\* Steps of a worker that only move it.
LEMMA MoveInv ==
    ASSUME NEW w \in Workers, IInv, FindNothing(w) \/ Sleep(w) \/ WakeSpuriously(w) \/ Exit(w)
    PROVE  IInv'
<1>1. UNCHANGED <<stop, queue, job, cpc, arg, asked, spc, accepted, done>>
    BY DEF FindNothing, Sleep, WakeSpuriously, Exit, callerVars
<1>2. PICK p \in {"sleep", "wait", "lock", "exited"} : wpc' = [wpc EXCEPT ![w] = p]
    BY DEF FindNothing, Sleep, WakeSpuriously, Exit
<1>3. /\ wpc[w] # "run" /\ wpc'[w] = p
      /\ \A v \in Workers \ {w} : wpc'[v] = wpc[v]
    BY <1>2 DEF IInv, TypeOK, FindNothing, Sleep, WakeSpuriously, Exit
<1>4. mtx' = IF p = "sleep" THEN w ELSE IF p = "wait" THEN Free ELSE mtx
    BY <1>2, <1>3 DEF IInv, TypeOK, FindNothing, Sleep, WakeSpuriously, Exit
<1>5. /\ p = "sleep" => mtx = Free /\ ~stop
      /\ p = "wait" => mtx = w
      /\ p \in {"lock", "exited"} => mtx # w
      /\ p = "exited" => stop /\ queue = <<>> /\ mtx = Free
      /\ p = "wait" => wpc[w] = "sleep"
    BY <1>3, PoolAssumption DEF IInv, TypeOK, FindNothing, Sleep, WakeSpuriously, Exit
<1>6. TypeOK'
    <2>1. wpc' \in [Workers -> {"lock", "sleep", "wait", "run", "exited"}]
        BY <1>2 DEF IInv, TypeOK
    <2>2. \A v \in Workers : wpc'[v] = "sleep" <=> mtx' = v
        BY <1>3, <1>4, <1>5, PoolAssumption DEF IInv, TypeOK
    <2>3. \A c \in Callers : cpc'[c] = "push" <=> mtx' = c
        BY <1>1, <1>4, <1>5, PoolAssumption DEF IInv, TypeOK
    <2>4. mtx' \in Workers \cup Callers \cup {Free}
        BY <1>4 DEF IInv, TypeOK
    <2>. QED BY <1>1, <2>1, <2>2, <2>3, <2>4 DEF IInv, TypeOK
<1>7. Queued' /\ Fresh' /\ Jobs'
    BY <1>1, <1>3, TasksStay
<1>8. Stopping'
    <2>1. p = "exited" => \A c \in Callers : cpc[c] # "push"
        BY <1>5, PoolAssumption DEF IInv, TypeOK
    <2>2. \A v \in Workers : wpc'[v] = "exited" =>
              /\ stop' /\ queue' = <<>>
              /\ \A c \in Callers : cpc'[c] # "push"
        BY <1>1, <1>3, <1>5, <2>1 DEF IInv, Stopping
    <2>3. spc' \in {"notify", "join", "joined"} => \A v \in Workers : wpc'[v] # "sleep"
        BY <1>1, <1>3, <1>5 DEF IInv, Stopping
    <2>4. spc' \in {"join", "joined"} => \A v \in Workers : wpc'[v] # "wait"
        BY <1>1, <1>3, <1>5 DEF IInv, Stopping
    <2>5. spc' = "joined" => \A v \in Workers : wpc'[v] = "exited"
        BY <1>1, <1>3 DEF IInv, Stopping, FindNothing, Sleep, WakeSpuriously, Exit
    <2>. QED BY <1>1, <2>2, <2>3, <2>4, <2>5 DEF IInv, Stopping
<1>. QED BY <1>6, <1>7, <1>8 DEF IInv

LEMMA RunInv == \A w \in Workers : IInv /\ Run(w) => IInv'
<1> SUFFICES ASSUME NEW w \in Workers, IInv, Run(w) PROVE IInv'
    OBVIOUS
<1>1. /\ wpc[w] = "run"
      /\ done' = done \cup {job[w]}
      /\ job' = [job EXCEPT ![w] = Free]
      /\ wpc' = [wpc EXCEPT ![w] = "lock"]
      /\ UNCHANGED <<mtx, stop, queue, cpc, arg, asked, spc, accepted>>
    BY DEF Run, callerVars
<1>2. /\ wpc'[w] = "lock"
      /\ \A v \in Workers \ {w} : job'[v] = job[v] /\ wpc'[v] = wpc[v]
    BY <1>1 DEF IInv, TypeOK
<1>3. started' = started /\ IsStarted(job[w]) /\ job[w] \notin done
    BY <1>1 DEF started, IInv, Jobs
<1>4. job[w] \in Tasks
    BY <1>3, Lengths DEF IInv, TypeOK, IsStarted, Queued, started
<1>5. TypeOK'
    <2>1. wpc' \in [Workers -> {"lock", "sleep", "wait", "run", "exited"}]
        BY <1>1 DEF IInv, TypeOK
    <2>2. job' \in [Workers -> Tasks \cup {Free}]
        BY <1>1 DEF IInv, TypeOK
    <2>3. \A v \in Workers : wpc'[v] = "sleep" <=> mtx' = v
        BY <1>1, <1>2 DEF IInv, TypeOK
    <2>. QED BY <1>1, <1>4, <2>1, <2>2, <2>3 DEF IInv, TypeOK
<1>6. Queued' /\ Fresh'
    BY <1>1, <1>3 DEF IInv, Queued, Fresh
<1>7. Jobs'
    <2>1. \A v \in Workers : wpc'[v] = "run" =>
              (\E i \in 1 .. started' : accepted'[i] = job'[v]) /\ job'[v] \notin done'
        BY <1>1, <1>2, <1>3 DEF IInv, Jobs, IsStarted
    <2>2. \A u, v \in Workers : wpc'[u] = "run" /\ wpc'[v] = "run" /\ job'[u] = job'[v] => u = v
        BY <1>2 DEF IInv, Jobs
    <2>3. \A t \in done' : \E i \in 1 .. started' : accepted'[i] = t
        BY <1>1, <1>3 DEF IInv, Jobs, IsStarted
    <2>4. \A i \in 1 .. started' : accepted'[i] \in done'
              \/ \E v \in Workers : wpc'[v] = "run" /\ job'[v] = accepted'[i]
        BY <1>1, <1>2, <1>3 DEF IInv, Jobs
    <2>. QED BY <2>1, <2>2, <2>3, <2>4 DEF Jobs, IsStarted
<1>8. Stopping'
    BY <1>1, <1>2 DEF IInv, Stopping
<1>. QED BY <1>5, <1>6, <1>7, <1>8 DEF IInv

LEMMA SubmitInv == \A c \in Callers, t \in Tasks : IInv /\ Submit(c, t) => IInv'
<1> SUFFICES ASSUME NEW c \in Callers, NEW t \in Tasks, IInv, Submit(c, t) PROVE IInv'
    OBVIOUS
<1>1. /\ cpc[c] = "idle" /\ mtx = Free /\ t \notin asked
      /\ asked' = asked \cup {t}
      /\ UNCHANGED <<stop, queue, wpc, job, spc, accepted, done>>
      /\ stop => UNCHANGED <<mtx, cpc, arg>>
      /\ ~stop => /\ mtx' = c
                  /\ cpc' = [cpc EXCEPT ![c] = "push"]
                  /\ arg' = [arg EXCEPT ![c] = t]
    BY DEF Submit, workerVars
<1>2. started' = started
    BY <1>1 DEF started
<1>3. Queued' /\ Jobs'
    BY <1>1, <1>2 DEF IInv, Queued, Jobs, IsStarted
<1>4. \A i \in DOMAIN accepted' : accepted'[i] \in asked'
    BY <1>1 DEF IInv, Fresh
<1>5. \A i \in DOMAIN accepted : accepted[i] # t
    BY <1>1 DEF IInv, Fresh
<1>6. CASE stop
    <2>1. TypeOK'
        BY <1>1, <1>6 DEF IInv, TypeOK
    <2>2. Fresh'
        BY <1>1, <1>4, <1>6 DEF IInv, Fresh
    <2>3. Stopping'
        BY <1>1, <1>6 DEF IInv, Stopping
    <2>. QED BY <1>3, <2>1, <2>2, <2>3 DEF IInv
<1>7. CASE ~stop
    <2>1. /\ cpc'[c] = "push" /\ arg'[c] = t
          /\ \A d \in Callers \ {c} : cpc'[d] = cpc[d] /\ arg'[d] = arg[d]
        BY <1>1, <1>7 DEF IInv, TypeOK
    <2>2. TypeOK'
        <3>1. cpc' \in [Callers -> {"idle", "push", "notify"}]
              /\ arg' \in [Callers -> Tasks \cup {Free}]
            BY <1>1, <1>7 DEF IInv, TypeOK
        <3>2. /\ \A w \in Workers : wpc'[w] = "sleep" <=> mtx' = w
              /\ \A d \in Callers : cpc'[d] = "push" <=> mtx' = d
            BY <1>1, <1>7, <2>1, PoolAssumption DEF IInv, TypeOK
        <3>. QED BY <1>1, <1>7, <3>1, <3>2 DEF IInv, TypeOK
    <2>3. Fresh'
        BY <1>1, <1>4, <1>5, <2>1 DEF IInv, Fresh
    <2>4. Stopping'
        BY <1>1, <1>7, <2>1 DEF IInv, Stopping
    <2>. QED BY <1>3, <2>2, <2>3, <2>4 DEF IInv
<1>. QED BY <1>6, <1>7

LEMMA PushInv == \A c \in Callers : IInv /\ Push(c) => IInv'
<1> SUFFICES ASSUME NEW c \in Callers, IInv, Push(c) PROVE IInv'
    OBVIOUS
<1> DEFINE t == arg[c]
<1>1. /\ cpc[c] = "push"
      /\ queue' = Append(queue, t) /\ accepted' = Append(accepted, t)
      /\ arg' = [arg EXCEPT ![c] = Free]
      /\ mtx' = Free
      /\ cpc' = [cpc EXCEPT ![c] = "notify"]
      /\ UNCHANGED <<stop, wpc, job, spc, asked, done>>
    BY DEF Push, workerVars
<1>2. mtx = c /\ t \in Tasks /\ t \in asked /\ \A i \in DOMAIN accepted : accepted[i] # t
    BY <1>1 DEF IInv, TypeOK, Fresh
<1> HIDE DEF t
<1>3. /\ queue \in Seq(Tasks) /\ accepted \in Seq(Tasks)
      /\ Len(queue) \in Nat /\ Len(accepted) \in Nat /\ started \in Nat
      /\ DOMAIN accepted = 1 .. Len(accepted)
    BY Lengths DEF IInv, TypeOK, Queued, started
<1>4. /\ queue' \in Seq(Tasks) /\ Len(queue') = Len(queue) + 1
      /\ queue'[Len(queue) + 1] = t
      /\ \A i \in 1 .. Len(queue) : queue'[i] = queue[i]
    BY <1>1, <1>2, <1>3
<1>5. /\ accepted' \in Seq(Tasks) /\ Len(accepted') = Len(accepted) + 1
      /\ DOMAIN accepted' = 1 .. (Len(accepted) + 1)
      /\ accepted'[Len(accepted) + 1] = t
      /\ \A i \in 1 .. Len(accepted) : accepted'[i] = accepted[i]
    BY <1>1, <1>2, <1>3
<1>6. started' = started /\ started \in 0 .. Len(accepted)
    BY <1>3, <1>4, <1>5 DEF started
<1>7. /\ cpc'[c] = "notify"
      /\ \A d \in Callers \ {c} : cpc'[d] = cpc[d] /\ arg'[d] = arg[d] /\ cpc[d] # "push"
    BY <1>1, <1>2 DEF IInv, TypeOK
<1>8. TypeOK'
    <2>1. cpc' \in [Callers -> {"idle", "push", "notify"}]
          /\ arg' \in [Callers -> Tasks \cup {Free}]
        BY <1>1 DEF IInv, TypeOK
    <2>2. /\ \A w \in Workers : wpc'[w] = "sleep" <=> mtx' = w
          /\ \A d \in Callers : cpc'[d] = "push" <=> mtx' = d
        BY <1>1, <1>2, <1>7, PoolAssumption DEF IInv, TypeOK
    <2>. QED BY <1>1, <1>4, <1>5, <2>1, <2>2 DEF IInv, TypeOK
<1>9. Queued'
    <2>1. ASSUME NEW i \in 1 .. Len(queue') PROVE queue'[i] = accepted'[started' + i]
        <3>1. CASE i = Len(queue) + 1
            <4>1. started + i = Len(accepted) + 1
                BY <1>3, <3>1 DEF started
            <4>. QED BY <1>4, <1>5, <1>6, <3>1, <4>1
        <3>2. CASE i \in 1 .. Len(queue)
            <4>1. started + i \in 1 .. Len(accepted)
                BY <1>3, <3>2 DEF started
            <4>. QED BY <1>4, <1>5, <1>6, <3>2, <4>1 DEF IInv, Queued
        <3>. QED BY <1>3, <1>4, <3>1, <3>2
    <2>2. Len(queue') <= Len(accepted')
        BY <1>3, <1>4, <1>5 DEF IInv, Queued
    <2>. QED BY <2>1, <2>2 DEF Queued
<1>10. Fresh'
    <2>1. \A i \in DOMAIN accepted' : accepted'[i] \in asked'
        BY <1>1, <1>2, <1>3, <1>5 DEF IInv, Fresh
    <2>2. \A i, j \in DOMAIN accepted' : accepted'[i] = accepted'[j] => i = j
        BY <1>2, <1>3, <1>5 DEF IInv, Fresh
    <2>. QED BY <1>7, <2>1, <2>2 DEF Fresh
<1>11. \A i \in 1 .. started : accepted'[i] = accepted[i]
    BY <1>5, <1>6
<1>12. Jobs'
    BY <1>1, <1>6, <1>11 DEF IInv, Jobs, IsStarted
<1>13. Stopping'
    <2>1. \A w \in Workers : wpc[w] # "exited"
        BY <1>1 DEF IInv, Stopping
    <2>. QED BY <1>1, <2>1 DEF IInv, Stopping
<1>. QED BY <1>8, <1>9, <1>10, <1>12, <1>13 DEF IInv

LEMMA NotifyOneInv == \A c \in Callers : IInv /\ NotifyOne(c) => IInv'
<1> SUFFICES ASSUME NEW c \in Callers, IInv, NotifyOne(c) PROVE IInv'
    OBVIOUS
<1>1. /\ cpc[c] = "notify" /\ cpc' = [cpc EXCEPT ![c] = "idle"]
      /\ UNCHANGED <<mtx, stop, queue, job, arg, asked, spc, accepted, done>>
      /\ wpc' = wpc \/ \E w \in Waiting : wpc' = [wpc EXCEPT ![w] = "lock"]
    BY DEF NotifyOne, WakeOne
<1>2. \A d \in Callers : cpc'[d] = "push" <=> cpc[d] = "push"
    BY <1>1 DEF IInv, TypeOK
<1>3. /\ wpc' \in [Workers -> {"lock", "sleep", "wait", "run", "exited"}]
      /\ \A w \in Workers : wpc'[w] = wpc[w] \/ (wpc[w] = "wait" /\ wpc'[w] = "lock")
    BY <1>1 DEF IInv, TypeOK, Waiting
<1>4. TypeOK'
    <2>1. cpc' \in [Callers -> {"idle", "push", "notify"}]
        BY <1>1 DEF IInv, TypeOK
    <2>2. \A w \in Workers : wpc'[w] = "sleep" <=> mtx' = w
        BY <1>1, <1>3 DEF IInv, TypeOK
    <2>. QED BY <1>1, <1>2, <1>3, <2>1, <2>2 DEF IInv, TypeOK
<1>5. \A w \in Workers : wpc'[w] = "run" <=> wpc[w] = "run"
    BY <1>3
<1>6. Queued' /\ Fresh' /\ Jobs'
    BY <1>1, <1>2, <1>5, TasksStay
<1>7. Stopping'
    BY <1>1, <1>2, <1>3 DEF IInv, Stopping
<1>. QED BY <1>4, <1>6, <1>7 DEF IInv

LEMMA ShutdownInv ==
    ASSUME IInv, Shutdown \/ PassLock \/ NotifyAll \/ Join
    PROVE  IInv'
<1>1. UNCHANGED <<mtx, queue, job, cpc, arg, asked, accepted, done>>
    BY DEF Shutdown, PassLock, NotifyAll, Join, workerVars, callerVars
<1>2. /\ wpc' \in [Workers -> {"lock", "sleep", "wait", "run", "exited"}]
      /\ \A w \in Workers : wpc'[w] = wpc[w]
                            \/ (wpc[w] = "wait" /\ wpc'[w] = "lock" /\ NotifyAll)
    BY DEF Shutdown, PassLock, NotifyAll, Join, workerVars, Waiting, IInv, TypeOK
<1>3. TypeOK'
    BY <1>1, <1>2 DEF Shutdown, PassLock, NotifyAll, Join, IInv, TypeOK
<1>4. Queued' /\ Fresh' /\ Jobs'
    BY <1>1, <1>2, TasksStay
<1>5. CASE Shutdown
    BY <1>1, <1>3, <1>4, <1>5 DEF Shutdown, workerVars, IInv, Stopping
<1>6. CASE PassLock
    \* The mutex is free: nobody is between the predicate and the wait.
    <2>1. \A w \in Workers : wpc[w] # "sleep"
        BY <1>6, PoolAssumption DEF PassLock, IInv, TypeOK
    <2>2. wpc' = wpc /\ stop' = stop /\ spc = "lock" /\ spc' = "notify"
        BY <1>6 DEF PassLock, workerVars
    <2>. QED BY <1>1, <1>3, <1>4, <2>1, <2>2 DEF IInv, Stopping
<1>7. CASE NotifyAll
    <2>1. \A w \in Workers : wpc'[w] # "wait" /\ wpc'[w] # "sleep"
                             /\ (wpc'[w] = "exited" <=> wpc[w] = "exited")
        BY <1>7 DEF NotifyAll, Waiting, IInv, Stopping
    <2>2. stop' = stop /\ spc = "notify" /\ spc' = "join"
        BY <1>7 DEF NotifyAll
    <2>. QED BY <1>1, <1>3, <1>4, <2>1, <2>2 DEF IInv, Stopping
<1>8. CASE Join
    BY <1>1, <1>3, <1>4, <1>8 DEF Join, workerVars, IInv, Stopping
<1>. QED BY <1>3, <1>4, <1>5, <1>6, <1>7, <1>8 DEF IInv

LEMMA NextInv == IInv /\ [Next]_vars => IInv'
<1> SUFFICES ASSUME IInv, [Next]_vars PROVE IInv'
    OBVIOUS
<1>1. CASE \E w \in Workers : Worker(w)
    BY <1>1, TakeInv, MoveInv, RunInv DEF Worker, Enter
<1>2. CASE \E c \in Callers : Caller(c)
    BY <1>2, SubmitInv, PushInv, NotifyOneInv DEF Caller
<1>3. CASE Shutdown \/ PassLock \/ NotifyAll \/ Join
    BY <1>3, ShutdownInv
<1>4. CASE UNCHANGED vars
    <2>1. UNCHANGED <<mtx, stop, queue, wpc, job, cpc, arg, asked, spc, accepted, done>>
        BY <1>4 DEF vars, workerVars, callerVars
    <2>2. Queued' /\ Fresh' /\ Jobs'
        BY <2>1, TasksStay
    <2>. QED BY <2>1, <2>2 DEF IInv, TypeOK, Stopping
<1>. QED BY <1>1, <1>2, <1>3, <1>4 DEF Next, Terminated

THEOREM Inductive == Spec => []IInv
BY InitInv, NextInv, PTL DEF Spec

\* Types, and who holds the mutex where, for any number of threads.
THEOREM TypeCorrect == Spec => []TypeOK
BY Inductive, PTL DEF IInv

\* After notify_all() no worker is asleep or about to be, thanks to the empty
\* critical section of shutdown(): join() cannot hang on a lost notification.
THEOREM ShutdownWakesAll == Spec => []NobodySleepsThroughShutdown
<1>1. IInv => NobodySleepsThroughShutdown
    BY DEF IInv, Stopping, NobodySleepsThroughShutdown
<1>. QED BY <1>1, Inductive, PTL

\* Every step of the pool is a step of the FIFO task queue or none.
LEMMA StepRefines == IInv /\ IInv' /\ [Next]_vars => [Pool!Next]_(Pool!vars)
<1> SUFFICES ASSUME IInv, IInv', [Next]_vars PROVE [Pool!Next]_(Pool!vars)
    OBVIOUS
<1> USE DEF Pool!vars, Pool!Next
<1>1. /\ Len(queue) \in Nat /\ Len(accepted) \in Nat
      /\ queue \in Seq(Tasks) /\ accepted \in Seq(Tasks)
    BY Lengths DEF IInv, TypeOK
<1>2. \A t : t \in Pool!Started <=> IsStarted(t)
    BY DEF Pool!Started, IsStarted, started
<1>3. ASSUME NEW w \in Workers, Take(w) PROVE Pool!Start
    <2>1. /\ queue # <<>> /\ queue' = Tail(queue)
          /\ UNCHANGED <<accepted, done, spc>>
        BY <1>3 DEF Take
    <2>2. Len(queue) > 0 /\ Len(queue') = Len(queue) - 1
        BY <1>1, <2>1
    <2>. QED BY <1>1, <2>1, <2>2 DEF Pool!Start, IInv, Queued
<1>4. ASSUME NEW w \in Workers, Run(w) PROVE \E t \in Tasks : Pool!Finish(t)
    <2>1. /\ wpc[w] = "run" /\ done' = done \cup {job[w]}
          /\ UNCHANGED <<queue, accepted, spc>>
        BY <1>4 DEF Run
    <2>2. IsStarted(job[w]) /\ job[w] \notin done
        BY <2>1 DEF IInv, Jobs
    <2>3. job[w] \in Tasks
        BY <2>2, Lengths DEF IInv, TypeOK, IsStarted, Queued, started
    <2>. QED BY <1>2, <2>1, <2>2, <2>3 DEF Pool!Finish
<1>5. ASSUME NEW c \in Callers, Push(c) PROVE \E t \in Tasks : Pool!Accept(t)
    <2>1. /\ cpc[c] = "push"
          /\ queue' = Append(queue, arg[c]) /\ accepted' = Append(accepted, arg[c])
          /\ UNCHANGED <<done, spc>>
        BY <1>5 DEF Push
    <2>2. arg[c] \in Tasks
        BY <2>1, PoolAssumption DEF IInv, TypeOK, Fresh
    <2>3. Len(queue') = Len(queue) + 1 /\ Len(accepted') = Len(accepted) + 1
        BY <1>1, <2>1, <2>2
    <2>4. spc # "joined"
        BY <2>1, PoolAssumption DEF IInv, Stopping
    <2>. QED BY <1>1, <2>1, <2>2, <2>3, <2>4 DEF Pool!Accept
<1>6. ASSUME Join PROVE Pool!Close
    <2>1. /\ \A w \in Workers : wpc[w] = "exited"
          /\ spc' = "joined" /\ UNCHANGED <<queue, accepted, done>>
        BY <1>6 DEF Join
    <2>2. queue = <<>>
        BY <2>1, PoolAssumption DEF IInv, Stopping
    <2>3. Len(accepted) - Len(queue) = Len(accepted)
        BY <1>1, <2>2
    <2>4. Pool!Started \subseteq done
        BY <2>1 DEF IInv, Jobs, Pool!Started, started
    <2>. QED BY <2>1, <2>3, <2>4 DEF Pool!Close
<1>7. CASE \E w \in Workers : Worker(w)
    <2>1. PICK w \in Workers : Worker(w)
        BY <1>7
    <2>2. CASE FindNothing(w) \/ Sleep(w) \/ WakeSpuriously(w) \/ Exit(w)
        BY <2>2 DEF FindNothing, Sleep, WakeSpuriously, Exit
    <2>. QED BY <1>3, <1>4, <2>1, <2>2 DEF Worker, Enter
<1>8. CASE \E c \in Callers : Caller(c)
    <2>1. PICK c \in Callers : Caller(c)
        BY <1>8
    <2>2. CASE NotifyOne(c)
        BY <2>2 DEF NotifyOne
    <2>3. CASE \E t \in Tasks : Submit(c, t)
        BY <2>3 DEF Submit
    <2>. QED BY <1>5, <2>1, <2>2, <2>3 DEF Caller
<1>9. CASE Shutdown \/ PassLock \/ NotifyAll
    BY <1>9 DEF Shutdown, PassLock, NotifyAll, IInv, Stopping
<1>10. CASE UNCHANGED vars
    BY <1>10 DEF vars
<1>. QED BY <1>6, <1>7, <1>8, <1>9, <1>10 DEF Next, Terminated

\* ThreadPool implements TaskQueue: first in, first started, each task once,
\* and nothing accepted is left behind by shutdown().
THEOREM Refinement == Spec => ImplementsTaskQueue
<1>1. Init => Pool!Init
    BY DEF Init, Pool!Init
<1>. QED BY <1>1, StepRefines, Inductive, PTL DEF Spec, ImplementsTaskQueue, Pool!Spec
-----------------------------------------------------------------------------
(* Hands enough for the queue *)

Count(f, X, v) == Cardinality({ x \in X : f[x] = v })

\* One of them moves.
Moves(f, g, X, x, p) ==
    IsFiniteSet(X) /\ x \in X /\ g[x] = p /\ \A y \in X \ {x} : g[y] = f[y]

\* How many stand at v then.
LEMMA CountMove ==
    ASSUME NEW X, NEW f, NEW g, NEW x, NEW p, NEW v, Moves(f, g, X, x, p)
    PROVE  /\ f[x] = v /\ p # v => Count(f, X, v) = Count(g, X, v) + 1
           /\ f[x] # v /\ p = v => Count(g, X, v) = Count(f, X, v) + 1
           /\ f[x] # v /\ p # v => Count(g, X, v) = Count(f, X, v)
<1>0. IsFiniteSet(X) /\ x \in X /\ g[x] = p /\ \A y \in X \ {x} : g[y] = f[y]
    BY DEF Moves
<1> DEFINE A == { y \in X : f[y] = v }
           B == { y \in X : g[y] = v }
<1>1. IsFiniteSet(A) /\ IsFiniteSet(B)
    <2>1. A \in SUBSET X /\ B \in SUBSET X
        OBVIOUS
    <2> HIDE DEF A, B
    <2>. QED BY <1>0, <2>1, FS_Subset
<1>2. f[x] = v /\ p # v => A = B \cup {x} /\ x \notin B
    BY <1>0
<1>3. f[x] # v /\ p = v => B = A \cup {x} /\ x \notin A
    BY <1>0
<1>4. f[x] # v /\ p # v => B = A
    BY <1>0
<1> HIDE DEF A, B
<1>5. /\ x \notin B => Cardinality(B \cup {x}) = Cardinality(B) + 1
      /\ x \notin A => Cardinality(A \cup {x}) = Cardinality(A) + 1
    BY <1>1, FS_AddElement
<1>. QED BY <1>2, <1>3, <1>4, <1>5 DEF Count, A, B

Locking == Count(wpc, Workers, "lock")
Notifying == Count(cpc, Callers, "notify")

\* A worker about to sleep has left nothing behind; nobody can push before it
\* is asleep.
Hands ==
    /\ \A w \in Workers : wpc[w] = "sleep" => queue = <<>>
    /\ Waiting # {} => Len(queue) <= Locking + Notifying

HInv == IInv /\ Hands

LEMMA CountTypes == Locking \in Nat /\ Notifying \in Nat /\ Locking' \in Nat /\ Notifying' \in Nat
<1>1. \A X, f, v : IsFiniteSet(X) => Count(f, X, v) \in Nat
    <2> SUFFICES ASSUME NEW X, NEW f, NEW v, IsFiniteSet(X) PROVE Count(f, X, v) \in Nat
        OBVIOUS
    <2>1. { x \in X : f[x] = v } \in SUBSET X
        OBVIOUS
    <2>. QED BY <2>1, FS_Subset, FS_CardinalityType DEF Count
<1>. QED BY <1>1, PoolAssumption DEF Locking, Notifying

LEMMA NoneQueued == \A a, b \in Nat : 0 <= a + b
OBVIOUS

\* How many want the lock, when one worker goes on from where it stands.
LEMMA LockingMoves ==
    ASSUME TypeOK, NEW w \in Workers, NEW p, wpc' = [wpc EXCEPT ![w] = p]
    PROVE  /\ wpc[w] = "lock" /\ p # "lock" => Locking = Locking' + 1
           /\ wpc[w] # "lock" /\ p = "lock" => Locking' = Locking + 1
           /\ wpc[w] # "lock" /\ p # "lock" => Locking' = Locking
<1>1. Moves(wpc, wpc', Workers, w, p)
    BY PoolAssumption DEF TypeOK, Moves
<1>2. Locking = Count(wpc, Workers, "lock") /\ Locking' = Count(wpc', Workers, "lock")
    BY DEF Locking, Count
<1>. QED BY <1>1, <1>2, CountMove

\* The same of the callers that have pushed and not notified yet.
LEMMA CallerMoves ==
    ASSUME TypeOK, NEW c \in Callers, NEW p, cpc' = [cpc EXCEPT ![c] = p]
    PROVE  /\ cpc[c] = "notify" /\ p # "notify" => Notifying = Notifying' + 1
           /\ cpc[c] # "notify" /\ p = "notify" => Notifying' = Notifying + 1
           /\ cpc[c] # "notify" /\ p # "notify" => Notifying' = Notifying
<1>1. Moves(cpc, cpc', Callers, c, p)
    BY PoolAssumption DEF TypeOK, Moves
<1>2. Notifying = Count(cpc, Callers, "notify") /\ Notifying' = Count(cpc', Callers, "notify")
    BY DEF Notifying, Count
<1>. QED BY <1>1, <1>2, CountMove

\* Nothing else changes when a worker goes on.
LEMMA WorkerMoves ==
    ASSUME TypeOK, NEW w \in Workers, NEW p, wpc' = [wpc EXCEPT ![w] = p], cpc' = cpc
    PROVE  /\ wpc[w] = "lock" /\ p # "lock" => Locking = Locking' + 1
           /\ wpc[w] # "lock" /\ p = "lock" => Locking' = Locking + 1
           /\ Notifying' = Notifying
           /\ wpc'[w] = p /\ \A v \in Workers \ {w} : wpc'[v] = wpc[v]
           /\ p # "wait" => Waiting' \subseteq Waiting
<1>1. wpc'[w] = p /\ \A v \in Workers \ {w} : wpc'[v] = wpc[v]
    BY DEF TypeOK
<1>2. Notifying' = Notifying
    BY DEF Notifying
<1>3. p # "wait" => Waiting' \subseteq Waiting
    BY <1>1 DEF Waiting
<1>. QED BY <1>1, <1>2, <1>3, LockingMoves

\* A worker takes a task or finds none, sleeps, wakes up, leaves or returns.
LEMMA WorkerHands == ASSUME HInv, NEW w \in Workers, Worker(w) PROVE Hands'
<1>1. TypeOK /\ Hands /\ Len(queue) \in Nat /\ queue \in Seq(Tasks)
    BY Lengths DEF HInv, IInv, TypeOK
<1>2. cpc' = cpc
    BY DEF Worker, Enter, Take, FindNothing, Sleep, WakeSpuriously, Exit, Run, callerVars
<1>3. CASE Take(w)
    <2>1. /\ wpc[w] = "lock" /\ wpc' = [wpc EXCEPT ![w] = "run"]
          /\ queue # <<>> /\ queue' = Tail(queue)
        BY <1>3 DEF Take
    <2>2. Len(queue') = Len(queue) - 1
        BY <1>1, <2>1
    <2>3. /\ Locking = Locking' + 1 /\ Notifying' = Notifying
          /\ \A v \in Workers : wpc'[v] # "sleep"
          /\ Waiting' \subseteq Waiting
        BY <1>1, <1>2, <2>1, WorkerMoves DEF Hands
    <2>. QED BY <1>1, <2>2, <2>3, CountTypes DEF Hands
<1>4. CASE FindNothing(w) \/ Exit(w)
    <2>1. queue' = <<>> /\ Len(queue') = 0
        BY <1>4 DEF FindNothing, Exit
    <2>2. Len(queue') <= Locking' + Notifying'
        BY <2>1, CountTypes, NoneQueued, Zenon
    <2>. QED BY <2>1, <2>2 DEF Hands
<1>5. CASE Sleep(w)
    <2>1. queue' = <<>> /\ Len(queue') = 0
        BY <1>1, <1>5 DEF Sleep, Hands
    <2>2. Len(queue') <= Locking' + Notifying'
        BY <2>1, CountTypes, NoneQueued, Zenon
    <2>. QED BY <2>1, <2>2 DEF Hands
<1>6. CASE WakeSpuriously(w) \/ Run(w)
    <2>1. /\ wpc[w] # "lock" /\ wpc' = [wpc EXCEPT ![w] = "lock"] /\ queue' = queue
        BY <1>6 DEF WakeSpuriously, Run
    <2>2. /\ Locking' = Locking + 1 /\ Notifying' = Notifying
          /\ \A v \in Workers : wpc'[v] = "sleep" => wpc[v] = "sleep"
          /\ Waiting' \subseteq Waiting
        BY <1>1, <1>2, <2>1, WorkerMoves
    <2>. QED BY <1>1, <2>1, <2>2, CountTypes DEF Hands
<1>. QED BY <1>3, <1>4, <1>5, <1>6 DEF Worker, Enter

\* A caller brings a task and a notification for it.
LEMMA CallerHands == ASSUME HInv, NEW c \in Callers, Caller(c) PROVE Hands'
<1>1. TypeOK /\ Hands /\ Len(queue) \in Nat /\ queue \in Seq(Tasks)
    BY Lengths DEF HInv, IInv, TypeOK
<1>2. CASE \E t \in Tasks : Submit(c, t)
    <2>1. /\ cpc[c] = "idle"
          /\ cpc' = cpc \/ cpc' = [cpc EXCEPT ![c] = "push"]
          /\ UNCHANGED <<queue, wpc>>
        BY <1>2 DEF Submit, workerVars
    <2>2. Notifying' = Notifying
        <3>1. CASE cpc' = cpc
            BY <3>1 DEF Notifying
        <3>2. CASE cpc' = [cpc EXCEPT ![c] = "push"]
            <4>1. cpc[c] # "notify" /\ "push" # "notify"
                BY <2>1
            <4>. QED BY <1>1, <3>2, <4>1, CallerMoves
        <3>. QED BY <2>1, <3>1, <3>2
    <2>3. Locking' = Locking /\ Waiting' = Waiting
        BY <2>1 DEF Locking, Waiting
    <2>. QED BY <1>1, <2>1, <2>2, <2>3 DEF Hands
<1>3. CASE Push(c)
    <2>1. /\ cpc[c] = "push" /\ cpc' = [cpc EXCEPT ![c] = "notify"] /\ wpc' = wpc
          /\ queue' = Append(queue, arg[c])
        BY <1>3 DEF Push, workerVars
    <2>2. arg[c] \in Tasks
        BY <2>1 DEF HInv, IInv, Fresh, TypeOK
    <2>3. Len(queue') = Len(queue) + 1
        BY <1>1, <2>1, <2>2
    <2>4. Notifying' = Notifying + 1 /\ Locking' = Locking /\ Waiting' = Waiting
        BY <1>1, <2>1, CallerMoves DEF Locking, Waiting
    <2>5. \A w \in Workers : wpc'[w] # "sleep"
        BY <1>1, <2>1, PoolAssumption DEF TypeOK
    <2>. QED BY <1>1, <2>3, <2>4, <2>5, CountTypes DEF Hands
<1>4. CASE NotifyOne(c)
    <2>1. /\ cpc[c] = "notify" /\ cpc' = [cpc EXCEPT ![c] = "idle"] /\ queue' = queue
          /\ IF Waiting = {} THEN wpc' = wpc
             ELSE \E w \in Waiting : wpc' = [wpc EXCEPT ![w] = "lock"]
        BY <1>4 DEF NotifyOne, WakeOne
    <2>2. Notifying = Notifying' + 1
        <3>1. cpc' = [cpc EXCEPT ![c] = "idle"] /\ cpc[c] = "notify" /\ "idle" # "notify"
            BY <2>1
        <3>. QED BY <1>1, <3>1, CallerMoves
    <2>3. CASE Waiting = {}
        BY <1>1, <2>1, <2>3 DEF Hands, Waiting
    <2>4. CASE Waiting # {}
        <3>1. PICK w \in Waiting : wpc' = [wpc EXCEPT ![w] = "lock"]
            BY <2>1, <2>4
        <3>2. w \in Workers /\ wpc[w] = "wait"
            BY DEF Waiting
        <3>3. /\ wpc'[w] = "lock" /\ \A v \in Workers \ {w} : wpc'[v] = wpc[v]
            BY <1>1, <3>1, <3>2 DEF TypeOK
        <3>4. Locking' = Locking + 1
            BY <1>1, <3>1, <3>2, LockingMoves
        <3>5. \A v \in Workers : wpc'[v] = "sleep" => wpc[v] = "sleep"
            BY <3>3
        <3>6. Notifying' \in Nat /\ Locking \in Nat
            BY CountTypes
        <3>. QED BY <1>1, <2>1, <2>2, <2>4, <3>4, <3>5, <3>6 DEF Hands
    <2>. QED BY <2>3, <2>4
<1>. QED BY <1>2, <1>3, <1>4 DEF Caller

\* shutdown() wakes everybody.
LEMMA ShutdownHands ==
    ASSUME HInv, Shutdown \/ PassLock \/ NotifyAll \/ Join PROVE Hands'
<1>1. CASE NotifyAll
    <2>1. \A w \in Workers : wpc'[w] # "wait" /\ (wpc'[w] = "sleep" => wpc[w] = "sleep")
        BY <1>1 DEF NotifyAll, Waiting
    <2>2. queue' = queue
        BY <1>1 DEF NotifyAll
    <2>. QED BY <2>1, <2>2 DEF HInv, Hands, Waiting
<1>2. CASE Shutdown \/ PassLock \/ Join
    <2>1. UNCHANGED <<queue, wpc, cpc>>
        BY <1>2 DEF Shutdown, PassLock, Join, workerVars, callerVars
    <2>. QED BY <2>1 DEF HInv, Hands, Waiting, Locking, Notifying
<1>. QED BY <1>1, <1>2

\* Whenever a worker sleeps, every queued task has a worker on its way or a
\* notify_one() to come (thread_pool.cpp:36-47).
THEOREM HandsEnough == Spec => []NoIdleHands
<1>1. Init => HInv
    <2> SUFFICES ASSUME Init PROVE HInv
        OBVIOUS
    <2>1. Waiting = {} /\ \A w \in Workers : wpc[w] # "sleep"
        BY DEF Init, Waiting
    <2>. QED BY <2>1, InitInv DEF HInv, Hands
<1>2. HInv /\ [Next]_vars => HInv'
    <2> SUFFICES ASSUME HInv, [Next]_vars PROVE HInv'
        OBVIOUS
    <2>1. IInv'
        BY NextInv DEF HInv
    <2>2. CASE UNCHANGED vars
        <3>1. UNCHANGED <<queue, wpc, cpc>>
            BY <2>2 DEF vars, workerVars, callerVars
        <3>. QED BY <2>1, <3>1 DEF HInv, Hands, Waiting, Locking, Notifying
    <2>. QED BY <2>1, <2>2, WorkerHands, CallerHands, ShutdownHands DEF HInv, Next, Terminated
<1>3. HInv => NoIdleHands
    BY DEF HInv, Hands, NoIdleHands, Locking, Notifying, Count
<1>. QED BY <1>1, <1>2, <1>3, PTL DEF Spec
=============================================================================
