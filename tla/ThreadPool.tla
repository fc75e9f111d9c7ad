----------------------------- MODULE ThreadPool -----------------------------
(***************************************************************************)
(* ThreadPool (thread_pool.h, thread_pool.cpp): the workers, the queue     *)
(* under m_mtx, the condition variable m_cv and the atomic m_stop, which   *)
(* shutdown() writes without the mutex.                                    *)
(*                                                                         *)
(* A critical section is one step unless m_stop may change inside it with  *)
(* an effect: between the predicate of m_cv.wait and going to sleep, and   *)
(* between the test of m_stop and the push in submit().                    *)
(***************************************************************************)
EXTENDS Naturals, Sequences, FiniteSets

CONSTANTS
    Workers, \* the threads the constructor starts, at least one
    Callers, \* the threads that call submit(): the I/O threads
    Tasks,   \* tasks over the whole run, each submitted once
    Free     \* nobody

ASSUME PoolAssumption == /\ Workers # {} /\ IsFiniteSet(Workers)
                         /\ IsFiniteSet(Callers)
                         /\ Workers \cap Callers = {}
                         /\ Free \notin Workers \cup Callers \cup Tasks

VARIABLES
    mtx,      \* who holds m_mtx, Free between critical sections
    stop,     \* m_stop
    queue,    \* m_tasks
    wpc,      \* where each worker stands
    job,      \* the task each worker runs
    cpc,      \* where each caller stands in submit()
    arg,      \* the argument of its call
    spc,      \* where the thread that calls shutdown() stands
    asked,    \* history: the tasks given to submit()
    accepted, \* history: the tasks pushed, in order
    done      \* history: the tasks that have run

workerVars == <<wpc, job>>
callerVars == <<cpc, arg, asked>>
vars == <<mtx, stop, queue, workerVars, callerVars, spc, accepted, done>>

Waiting == { w \in Workers : wpc[w] = "wait" }

Init ==
    /\ mtx = Free /\ stop = FALSE /\ queue = <<>>
    /\ wpc = [w \in Workers |-> "lock"] /\ job = [w \in Workers |-> Free]
    /\ cpc = [c \in Callers |-> "idle"] /\ arg = [c \in Callers |-> Free]
    /\ spc = "idle"
    /\ asked = {} /\ accepted = <<>> /\ done = {}
-----------------------------------------------------------------------------
(* worker_loop() *)

\* m_mtx is taken and something is queued: it goes to this worker, even if
\* the pool is stopping.  The bugs leave at once in that case, or take the
\* newest task.
TakeUnlessStopping(w) ==
    /\ wpc[w] = "lock" /\ mtx = Free
    /\ queue # <<>>
    /\ IF stop THEN wpc' = [wpc EXCEPT ![w] = "exited"] /\ UNCHANGED <<queue, job>>
       ELSE /\ job' = [job EXCEPT ![w] = Head(queue)]
            /\ queue' = Tail(queue)
            /\ wpc' = [wpc EXCEPT ![w] = "run"]
    /\ UNCHANGED <<mtx, stop, callerVars, spc, accepted, done>>
TakeNewest(w) ==
    /\ wpc[w] = "lock" /\ mtx = Free
    /\ queue # <<>>
    /\ job' = [job EXCEPT ![w] = queue[Len(queue)]]
    /\ queue' = SubSeq(queue, 1, Len(queue) - 1)
    /\ wpc' = [wpc EXCEPT ![w] = "run"]
    /\ UNCHANGED <<mtx, stop, callerVars, spc, accepted, done>>
Take(w) ==
    /\ wpc[w] = "lock" /\ mtx = Free
    /\ queue # <<>>
    /\ job' = [job EXCEPT ![w] = Head(queue)]
    /\ queue' = Tail(queue)
    /\ wpc' = [wpc EXCEPT ![w] = "run"]
    /\ UNCHANGED <<mtx, stop, callerVars, spc, accepted, done>>

\* The predicate of m_cv.wait is false; the mutex is still held.
FindNothing(w) ==
    /\ wpc[w] = "lock" /\ mtx = Free
    /\ queue = <<>> /\ ~stop
    /\ mtx' = w
    /\ wpc' = [wpc EXCEPT ![w] = "sleep"]
    /\ UNCHANGED <<stop, queue, job, callerVars, spc, accepted, done>>

\* m_cv.wait unlocks and goes to sleep in one step.
Sleep(w) ==
    /\ wpc[w] = "sleep"
    /\ mtx' = Free
    /\ wpc' = [wpc EXCEPT ![w] = "wait"]
    /\ UNCHANGED <<stop, queue, job, callerVars, spc, accepted, done>>

\* A condition variable may wake a thread without a notification.
WakeSpuriously(w) ==
    /\ wpc[w] = "wait"
    /\ wpc' = [wpc EXCEPT ![w] = "lock"]
    /\ UNCHANGED <<mtx, stop, queue, job, callerVars, spc, accepted, done>>

\* m_stop.load() && m_tasks.empty()
Exit(w) ==
    /\ wpc[w] = "lock" /\ mtx = Free
    /\ queue = <<>> /\ stop
    /\ wpc' = [wpc EXCEPT ![w] = "exited"]
    /\ UNCHANGED <<mtx, stop, queue, job, callerVars, spc, accepted, done>>

\* task() returns, or throws and is caught.
Run(w) ==
    /\ wpc[w] = "run"
    /\ done' = done \cup {job[w]}
    /\ job' = [job EXCEPT ![w] = Free]
    /\ wpc' = [wpc EXCEPT ![w] = "lock"]
    /\ UNCHANGED <<mtx, stop, queue, callerVars, spc, accepted>>

Enter(w) == Take(w) \/ FindNothing(w) \/ Exit(w)
Worker(w) == Enter(w) \/ Sleep(w) \/ WakeSpuriously(w) \/ Run(w)
-----------------------------------------------------------------------------
(* submit() *)

\* m_mtx is taken and m_stop tested: the task is dropped if it is set.  The
\* bug returns from there with the mutex held.
SubmitLocked(c, t) ==
    /\ cpc[c] = "idle" /\ mtx = Free
    /\ t \notin asked
    /\ asked' = asked \cup {t}
    /\ mtx' = c
    /\ IF stop THEN UNCHANGED <<cpc, arg>>
       ELSE /\ cpc' = [cpc EXCEPT ![c] = "push"]
            /\ arg' = [arg EXCEPT ![c] = t]
    /\ UNCHANGED <<stop, queue, workerVars, spc, accepted, done>>
Submit(c, t) ==
    /\ cpc[c] = "idle" /\ mtx = Free
    /\ t \notin asked
    /\ asked' = asked \cup {t}
    /\ IF stop THEN UNCHANGED <<mtx, cpc, arg>>
       ELSE /\ mtx' = c
            /\ cpc' = [cpc EXCEPT ![c] = "push"]
            /\ arg' = [arg EXCEPT ![c] = t]
    /\ UNCHANGED <<stop, queue, workerVars, spc, accepted, done>>

\* m_tasks.push, and the mutex is released.
Push(c) ==
    /\ cpc[c] = "push"
    /\ queue' = Append(queue, arg[c])
    /\ accepted' = Append(accepted, arg[c])
    /\ arg' = [arg EXCEPT ![c] = Free]
    /\ mtx' = Free
    /\ cpc' = [cpc EXCEPT ![c] = "notify"]
    /\ UNCHANGED <<stop, workerVars, spc, asked, done>>

WakeOne ==
    IF Waiting = {} THEN wpc' = wpc
    ELSE \E w \in Waiting : wpc' = [wpc EXCEPT ![w] = "lock"]

\* m_cv.notify_one(), with the mutex released.  The bug saves the call when
\* the queue was not empty.
NotifyIfFirst(c) ==
    /\ cpc[c] = "notify"
    /\ IF Len(queue) = 1 THEN WakeOne ELSE wpc' = wpc
    /\ cpc' = [cpc EXCEPT ![c] = "idle"]
    /\ UNCHANGED <<mtx, stop, queue, job, arg, asked, spc, accepted, done>>
NotifyOne(c) ==
    /\ cpc[c] = "notify"
    /\ WakeOne
    /\ cpc' = [cpc EXCEPT ![c] = "idle"]
    /\ UNCHANGED <<mtx, stop, queue, job, arg, asked, spc, accepted, done>>

Caller(c) == (\E t \in Tasks : Submit(c, t)) \/ Push(c) \/ NotifyOne(c)
-----------------------------------------------------------------------------
(* shutdown(), called by the destructor alone *)

\* The compare-exchange of m_stop.
Shutdown ==
    /\ spc = "idle"
    /\ stop' = TRUE
    /\ spc' = "lock"
    /\ UNCHANGED <<mtx, queue, workerVars, callerVars, accepted, done>>

\* m_mtx is taken and released with nothing done in between.  The bug removes
\* this block, which looks as if it did nothing.
SkipLock ==
    /\ spc = "lock"
    /\ spc' = "notify"
    /\ UNCHANGED <<mtx, stop, queue, workerVars, callerVars, accepted, done>>
PassLock ==
    /\ spc = "lock" /\ mtx = Free
    /\ spc' = "notify"
    /\ UNCHANGED <<mtx, stop, queue, workerVars, callerVars, accepted, done>>

\* m_cv.notify_all()
NotifyAll ==
    /\ spc = "notify"
    /\ wpc' = [w \in Workers |-> IF w \in Waiting THEN "lock" ELSE wpc[w]]
    /\ spc' = "join"
    /\ UNCHANGED <<mtx, stop, queue, job, callerVars, accepted, done>>

\* The last join() returns.
Join ==
    /\ spc = "join"
    /\ \A w \in Workers : wpc[w] = "exited"
    /\ spc' = "joined"
    /\ UNCHANGED <<mtx, stop, queue, workerVars, callerVars, accepted, done>>

Terminated == spc = "joined" /\ UNCHANGED vars

Next ==
    \/ \E w \in Workers : Worker(w)
    \/ \E c \in Callers : Caller(c)
    \/ Shutdown \/ PassLock \/ NotifyAll \/ Join
    \/ Terminated

Spec == Init /\ [][Next]_vars

\* Threads run, tasks return, and a thread that waits for m_mtx gets it.
\* Nobody need call submit() or shutdown().
Fairness ==
    /\ \A w \in Workers : SF_vars(Enter(w)) /\ WF_vars(Sleep(w)) /\ WF_vars(Run(w))
    /\ \A c \in Callers : WF_vars(Push(c)) /\ WF_vars(NotifyOne(c))
    /\ SF_vars(PassLock) /\ WF_vars(NotifyAll) /\ WF_vars(Join)

FairSpec == Spec /\ Fairness
-----------------------------------------------------------------------------
\* Every variable has its type, and the holder of m_mtx is where the code
\* holds it across a step.
TypeOK ==
    /\ mtx \in Workers \cup Callers \cup {Free}
    /\ stop \in BOOLEAN
    /\ queue \in Seq(Tasks) /\ accepted \in Seq(Tasks)
    /\ wpc \in [Workers -> {"lock", "sleep", "wait", "run", "exited"}]
    /\ job \in [Workers -> Tasks \cup {Free}]
    /\ cpc \in [Callers -> {"idle", "push", "notify"}]
    /\ arg \in [Callers -> Tasks \cup {Free}]
    /\ spc \in {"idle", "lock", "notify", "join", "joined"}
    /\ asked \subseteq Tasks /\ done \subseteq Tasks
    /\ \A w \in Workers : wpc[w] = "sleep" <=> mtx = w
    /\ \A c \in Callers : cpc[c] = "push" <=> mtx = c

Pool == INSTANCE TaskQueue WITH
            started <- Len(accepted) - Len(queue),
            closed <- spc = "joined"

\* Tasks start in the order submit() accepted them, none twice, and shutdown()
\* returns only after every accepted task has run (worker_loop, shutdown).
ImplementsTaskQueue == Pool!Spec

\* No worker sleeps while a task waits for want of hands: if some worker is
\* asleep, every queued task has a worker on its way to the queue, or a
\* notify_one still to come that will send one (submit, worker_loop).
NoIdleHands ==
    Waiting # {} =>
        Len(queue) <= Cardinality({ w \in Workers : wpc[w] = "lock" })
                      + Cardinality({ c \in Callers : cpc[c] = "notify" })

\* Once notify_all() has been called no worker is asleep or about to be, so
\* that join() waits for nobody who waits for a notification.  The empty
\* critical section of shutdown() is what makes it so (thread_pool.cpp:26-30).
NobodySleepsThroughShutdown ==
    spc \in {"join", "joined"} => \A w \in Workers : wpc[w] \notin {"sleep", "wait"}

\* Every accepted task is run sooner or later, shutdown() or not.
AcceptedRuns ==
    \A t \in Tasks : (\E i \in DOMAIN accepted : accepted[i] = t) ~> t \in done

\* shutdown() returns.
ShutdownReturns == stop ~> spc = "joined"
=============================================================================
