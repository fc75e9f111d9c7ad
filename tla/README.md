# Formal model of the reactor web server

TLA+ modules, TLC configurations and TLAPS proofs about the server in `src/`: an
acceptor (MainReactor), I/O threads with an edge-triggered epoll each
(SubReactor), a thread pool that prepares the responses, and a log with a thread
of its own. `PROJECT.json` ties every definition to the source lines it stands
for.

    tlc -workers 2 -config Reuse.cfg MCSubReactorCalm    # a run: X.cfg with its MC module
    tlapm SubReactorProofs.tla                       # a proof module

## 1. Inventory

| Component | State | Operations | Talks to |
|---|---|---|---|
| `Server` (`server.cpp`) | listen descriptor, epoll, `m_rr_index`, `m_stop` | `start` (accept loop), `deal_new_conn`, `stop`, destructor | dispatches sockets to SubReactors, then stops them; owns them and the pool |
| `SubReactor` (`sub_reactor.cpp`) | connection table `m_users`, mailbox `m_msgs` under `m_msg_mtx`, eventfd, timerfd, epoll, `m_timers`, `m_stop` | `dispatch_new_conn`, `notify_bus_done`, `stop` from other threads; `loop`, `handle_msg`, `add_new_conn`, `deal_read`, `deal_write`, `handle_timeout`, `close_connection` on its own | mailbox and eventfd with acceptor and workers; submits closures that use `m_users` from a worker |
| `http_conn` (`http_conn.cpp`) | read buffer and three positions, parser state, response, file, `m_parsed_code` | `init`, `close_conn`, `read_once`, `prepare_io_read`, `run_business_and_prepare_write`, `write`, `reset_for_next`, `addfd`/`modfd`/`removefd` | called by the I/O thread, and by a worker for one of its operations |
| `TimerHeap` (`timer_heap.cpp`) | `m_heap`, `m_seqs` | `add`, `refresh`, `invalidate`, `tick`, `next_expire` | called by one SubReactor; drives its timerfd |
| `ThreadPool` (`thread_pool.cpp`) | `m_tasks` under `m_mtx`, `m_cv`, `m_stop` | `submit`, `worker_loop`, `shutdown` | shared by all SubReactors |
| `AsyncLog` (`async_log.h`) | current buffer, ready buffers, file | `append`, `backend_loop`, `shutdown` | written by every thread |
| `FdGuard`, `main.cpp` | one descriptor; none | | sequential |

What is hard here, and what makes each component correct:

* **Ownership of a slot.** A request is prepared by a worker on the `http_conn`
  the I/O thread reads and writes, without a lock. That is correct if the
  descriptor is silent meanwhile (EPOLLONESHOT), the timer is cancelled, and a
  completion that comes back late finds its own connection and no other.
* **Waking up.** The I/O thread sleeps without a timeout: every message, every
  `stop()`, every byte, every writable socket and every deadline must wake it;
  edge triggering and one-shot registrations each lose an event for good if
  a path forgets to read on, to arm or to drain in the right order.
* **Lazy deletion.** Timers are cancelled by version number; a dead node must
  not fire and a live one must not be lost.
* **Pipelining and half-close.** The stream is cut into requests, the answers
  keep the order, and the end of the stream waits for the answer.
* **Bytes.** A request may be cut anywhere, fill the buffer exactly, carry a
  body, or follow another in the same buffer; an answer may be cut anywhere, and its file may change
  meanwhile. Three positions and a parser state carry over from event to event.
* **Accepting.** The listen descriptor is edge-triggered as well: what the accept
  loop leaves behind waits for the next client.
* **Shutdown.** `m_stop` of the pool is written without its mutex; workers must
  neither sleep through it nor leave tasks behind. The server joins the
  reactors, the pool and the reactors again, in an order given by three functions
  and the declaration of two members.
* **The log.** Two lists of buffers change hands between the writers and one
  thread, the file changes with the day, and shutdown meets both.

The full list, each hazard at its line with the properties that cover it, is
`hazards` in `PROJECT.json`.

## 2. Modules

    MCServer ──> Server <── ServerProofs
    MCSubReactor ──> SubReactor <── SubReactorProofs
    MCSubReactorCalm ──> SubReactorCalm ──> SubReactor
                       ^── SubReactorCalmProofs
    MCHttpConn ──> HttpStream (what should be found) ──> HttpConn
                       ^── HttpConnProofs
    MCTimerHeap ──> TimerHeap ──(implements)──> IdleTimer
                       ^    ^── TimerHeapProofs
    MCReactorTimers ──> ReactorTimers  (INSTANCE TimerHeap)
                       ^── ReactorTimersProofs
    MCThreadPool ──> ThreadPool ──(implements)──> TaskQueue
                       ^── ThreadPoolProofs
    MCAsyncLog ──> AsyncLog ──(implements)──> LogFile
                       ^── AsyncLogProofs

Three modules look at a connection at three scales. `Server` has several
reactors and sees of a connection which table, mailbox or task it is in.
`SubReactor` has one reactor and sees events, registrations, slots and requests of two
pieces. `HttpConn` has one connection and sees bytes; there the threads take
turns. What one abstracts the next one has.

### Server: the acceptor, the reactors and the pool, from start to destruction

`pc` is where the thread of `start()` and `~Server()` stands: `Start`, `MainHead`
(test of `m_stop`), `MainWait`, `Accept` (one turn of the loop of
`deal_new_conn`), `Dispatch` (push, then ring); then `Raise`, `Poke`, `Join` for
`SubReactor::stop()` of one reactor after another, first from `start()` and again
from the destructors; `Destroy` is `~ThreadPool` in between. A
reactor is `SubHead`, `TakeMail`, `HandleMail`, `ClientEvent`, a worker is
`WorkStep`.

* `ClientEvent` stands for any event of a connection, whether a worker has an
  earlier request of it or not: a request is submitted, or the connection closed.
  A completion names a descriptor: if its connection is gone, it may be taken for a
  later one of the same reactor (`Answered`).
* `MaxWork` bounds the tasks and messages that wait when a request is submitted.
* `broken`: a missing epoll, for the acceptor or one reactor. The
  constructors only log it; the loops end at their first `epoll_wait`.
* The listen queue is `backlog`, its event `edge`; `accept()` may fail at any time.
* `rr` wraps at `Wrap`, which is 2^32 in the program.
* Not in this module: failures of `eventfd` and `timerfd`, `close()` by clients
  as such, EINTR, a second call of `start()`.

### SubReactor: one reactor and everything around it

One action per step that another thread can see. The I/O thread is `LoopHead`
(test of `m_stop`), `EpollWait`, `DrainEventFd`, `SwapMsgs`, `HandleNewConn`,
`HandleBusDone`, `HandleTimeout`, `TakeClientEvent`, `DealRead`, `DealWrite`,
`DealHup`: the three flag tests of a client event are three steps, since a
worker may run in between, and the rest of a batch is handled with
whatever the earlier events have left. A task is `TaskStart` (guard and read of
`m_parsed_code`), `TaskFinish` or `TaskThrow`, `NotifyPush`, `NotifyWake`.
`Dispatch`, `Stop` and `MainWake` are the acceptor.

* Requests are two *pieces*, the request line and the headers with the empty
  line; `m_read_idx` and `m_start_line` are positions counted in pieces.
  `ProcessRead` keeps the state machine of `process_read`: a piece that meets the
  wrong `m_check_state` is malformed. `Answer[k]` says what the k-th request
  of a client deserves; `WelcomePage` splits from `FileRequest` the case that opens no
  file.
* A response is sent in at most `Chunks` partial writes.
* epoll is modelled as the code uses it: `mask`, `oneshot` and a pending `edge`
  per descriptor; `epoll_ctl` reports what is ready already, `epoll_wait`
  consumes the edge and disables a one-shot item. `modfd` has no `oneshot`,
  because `http_conn.cpp:89` has none.
* The kernel's descriptor table `own` gives numbers back after `close`, so that
  slots are reused. The code knows descriptors only; the field `conn` of tasks
  and messages and `own` are history, no guard of the program reads them.
* Which live timer is due is left open here (`HandleTimeout` closes any set of
  them); `TimerHeap` and `ReactorTimers` say which.
* `MaxAhead[c]` requests of client c may be unanswered; the pieces of a request
  arrive apart only from clients in `Fragmented`.
* A slot has something to send (`HasOutput`) when it has a head or when `do_request`
  has opened a file: a stale completion may make `write` send the file before the
  worker has put the head before it.
* Not in this module: bodies, the size of the read buffer, errors of `epoll_ctl`
  and of `eventfd`, EINTR, `m_events` shorter than the ready list. A worker's write to the
  slot is one step (`TaskFinish`). Where the I/O thread and a worker meet
  on the same slot, the program has a data race and the outcome of the
  race itself is not explored; the properties checked in the run where it may
  happen (Reuse) are about registrations, timers and sockets, which
  no worker writes.
* `dispatch` is for one reactor; the pool's queue is the FIFO that `ThreadPool`
  is shown to implement (`TaskQueue`).

### SubReactorCalm: the reactor while EPOLLONESHOT keeps its promise

The comments of `deal_read`, `deal_write` and `handle_msg` rest on one claim: from the
submission of a task until `handle_msg` arms the descriptor again, the descriptor
reports nothing (`Silent`). `modfd` breaks it. `calm` records whether it has held
so far, and what the comments conclude from it is stated up to the first state in
which it has not (`CalmWork`, `CalmAnswers`, `CalmFiles`, `CalmSlots`). Clients may do
anything meanwhile: pipeline, send pieces, leave, refuse to read. What happens in
the states after is shown by the run HalfClose, and told below.

### HttpConn and HttpStream: a byte stream in, a byte stream out

`c` is the `http_conn`, `mode` says whose turn it is. A token is CR, LF, the
contents of a line, or a byte of a body; `m_checked_idx` and `m_start_line` count
tokens, and `ParseLine` writes NUL over the line ends as `parse_line` does, so
that `Text` is what `get_line()` returns. `ParseTurn` is one turn of the loop of
`process_read`, its odd condition for bodies included. Header lines are
`host`, `alive`, `close`, `len0` (Content-Length: 0), `len1` (a body of two), `badlen`
and `other`. `DealRead` takes what fits the buffer and decides whether `read_once`
fails; `DealWrite` sends any number of bytes; each byte on the wire carries the
response it is of and the length its head announces. `do_request` reads a size from
`stat` and a file from `open`, and `CutFile` shortens it later.

`HttpStream` says on the whole stream, without parser states, which
requests it holds (`Parsed`), and states the properties. A line says what the C string
in it says, up to the first NUL (`CString`). The line that decides about a request is
its first malformed or empty one (`Deciding`); the request is complete once that line,
and the body, have arrived. A stream that breaks the line
rules is not answered: `process_read` leaves its loop on `LineStatus::Bad` and
returns NoRequest, so that such a client waits for its timeout. The properties are
about streams that keep the rules and have no body (`Plain`); what the comments say
of the others the code does not keep: the run Body is about bodies, and line ends are
among the differences listed below.

### AsyncLog and LogFile

A critical section is one step. `LogLine` is `append`, `StartLog` is `init`, the
backend is `Swap`, `WriteBuffer` (without the mutex), `NextRound` with its `fflush`,
and `FinalFlush`. `ready` and `bufs` keep the lines, not the borders of the buffers: a
write takes any number of lines that fits one. `stdio` is what `fwrite` holds
back. The day changes at any time and `Month` days later has the same
`tm_mday`. The echo on stderr is left out. `LogFile` is the promise: lines
are written in the order they were accepted, each once, and closing writes the
rest; with `LossAllowed`, closing may lose a block.

### TimerHeap and IdleTimer

`heap` is the set of nodes, `seqs` is `m_seqs`, `due` the history of the deadline
last asked for, `report` of what the last tick reported. `tick` is one step: all expired nodes are popped, those whose
version matches fire. `IdleTimer` is the promise: one deadline per descriptor,
renewable, cancellable, and a check reports every descriptor whose deadline has
passed and none without a deadline. With `EarlyAllowed` it may report early.
`refresh` equals `add`, so that a refresh after an invalidate revives the timer.

### ReactorTimers: the heap, the timerfd and the handlers

The handlers of SubReactor again, reduced to the calls they make on the timers,
with time: `TPS` instants per second, `now_monotonic()` rounding down and the
timerfd not. `batch` is what `epoll_wait` has returned and `loop()` not yet handled,
`reg` what each descriptor is registered for, `work` counts the tasks whose completion is
due. What is read and parsed is left open, so that every path of a handler is taken
whenever its registration lets its event through: `DealRead` also while a worker has
the connection, which makes its timer live again, and `BusDone` also for a
connection that has nothing to do with it. The timerfd, once in a batch,
is handled even if another handler arms it again before. `quiet` is the time since an
event or a message last armed the timerfd, up to a second. Time passes while the I/O thread
sleeps and no timer has expired. `MaxNodes` and `MaxWork` bound the heap and the tasks.

### ThreadPool and TaskQueue

A critical section is one step unless the atomic `m_stop` may change inside it
with an effect: between the predicate of the wait and the sleep (`FindNothing`,
`Sleep`), and between the test of `m_stop` and the push (`Submit`, `Push`). Waking
up is never a hand-over: a notified worker competes for the mutex, and workers
wake spuriously. The empty critical section of `shutdown` is `PassLock`. The early
return of a second `shutdown()` is left out: only the destructor calls it.
`submit` may race `shutdown` here, which the class allows; `Server` shows that it
does not happen in this program (`LifetimesNest`). `TaskQueue` is the promise: tasks start in
the order they were accepted, each once, and the pool closes when all have run.

## 3. Runs

| Run | Instance | What it shows |
|---|---|---|
| Reuse | 2 descriptors, one beyond `MAX_FD`, 2 connections (one pipelines, one fragments), 2 workers, 2 requests, 2 chunks, clients half-close and reset | `TypeOK`, `NoForgottenConnection`, `NoStrandedData`, `SocketHeldOnce`, `TablesAgree`, `NeverDeaf`, `NoLostWakeup`, `CalmWork`, `CalmAnswers`, `CalmFiles`, `CalmSlots` |
| Served | 2 connections on 1 descriptor, 1 worker, 2 requests (one client fragments), 2 chunks, clients reset, fairness | `Served`, `StopsEventually` |
| Http | 6 streams in any pieces, a buffer of 14 tokens, heads of 2 bytes, files of 0 or 2, fairness | `FoundIfPlain`, `Framed`, `HangsUpOnlyWhenDue`, `EveryRequestAnswered` |
| Server | 2 reactors, 2 clients, 1 worker, one epoll may be missing, fairness | `LifetimesNest`, `SocketsInOnePlace`, `Balanced`, `NobodyForgottenInBacklog`, `Delivered`, `StopCompletes` |
| Log | 2 writers of 3 lines, buffers of 2, 3 days, fairness | `NothingLostInMemory`, `ImplementsLogFile`, `ReachesDisk` |
| Heap | 2 descriptors, timeout 2, clock to 3, versions to 2 | `NodeInHeap`, `NextExpireNotLate`, `ImplementsIdleTimer` |
| Timers | 2 descriptors, half seconds, 6 seconds, 3 nodes, 1 task a slot | `TimerFdArmed`, `OverdueOnlyWhileBusy` |
| Pool | 2 workers, 2 callers, 3 tasks, fairness | `NoIdleHands`, `NobodySleepsThroughShutdown`, `ImplementsTaskQueue`, `AcceptedRuns`, `ShutdownReturns` |

*Bounds.* Two connections and one reusable descriptor are the least for a
reuse, two workers the least for two tasks of one slot, two requests the least
for a pipeline, two chunks the least for a partial write; a third of each adds
no new kind of interleaving, because slots share nothing but the queues. Two
versions per descriptor are the least for a stale node with a valid successor.
In Timers an instant is half a second: with whole seconds, the rounding that
makes a timerfd late does not occur. Three nodes let one descriptor be refreshed while
the other's deadline passes; new events wait for room in the heap, dead nodes leave it when
they expire. The buffer of Http is as long as the longest request that is meant to
fit, so that one stream fills it exactly and one exceeds it; three requests in a row
reset the buffer twice. In Server two clients
give each reactor one, let `rr` wrap, and its mailbox holds a new connection and answers, or two
answers; two connections in one table, whose safety the theorems cover, are too many for a
run with liveness (6 million states). Buffers of two lines and three lines a writer let
the current buffer fill twice. Symmetry is used for workers and descriptors where they
play the same part, never with liveness.

*What the runs assume of the clients.* No run restricts what clients do beyond its
bounds, and no timing is assumed anywhere. Served, which is about liveness, has room for
one request outstanding, resets and one worker (400,000 states): half-closes, pipelines and a
second worker are in Reuse. In Http `FoundIfPlain`, `HangsUpOnlyWhenDue` and `EveryRequestAnswered` leave out
streams with bodies, which the run Body is about, and `EveryRequestAnswered` leaves out
files that became shorter than announced: `sendfile` then returns 0, and the `errno` of
some earlier call decides whether the connection is closed or EPOLLOUT is armed again,
which fires at once.

*Fairness.* Threads that can run do (weak fairness on the loops, on each worker,
on the wakeup that follows a push, on the backend of the log, whose wait ends after a
second), and a client empties a full send buffer. Nothing is
assumed about connecting, sending, leaving, logging or stopping. In ThreadPool, taking the
mutex has strong fairness: workers that wake spuriously may hold it again and
again, and a mutex held for a moment is no reason never to get it. In Server,
`TakeMail` has strong fairness: an eventfd that is ready stays ready until it is read, and
`epoll_wait` passes over no descriptor for ever, however many events the connections have.
`StopCompletes` leaves out the acceptor that sleeps in `epoll_wait`, since
`Server::stop()` wakes nobody; `Delivered` leaves out a reactor without epoll.
`CHECK_DEADLOCK FALSE` stands where the system may stop: a server that is
destroyed, or waits for clients who have all come, and a connection that is closed.

### Runs that show a disagreement with a comment

| Run | What TLC finds |
|---|---|
| HalfClose | A client that shuts down its side while its request is being worked on is closed without the answer, against `sub_reactor.cpp:369-372`: its descriptor was still armed. |
| Overdue | `arm_timerfd` sets an overdue expiry a second ahead at every event and message (`sub_reactor.cpp:117`): while a neighbour is busy, an idle connection stays open more than two seconds after its deadline, against `sub_reactor.cpp:180`. Two seconds are what the rounding of `now_monotonic()` and `delta = 1` take without neighbours. |
| HeapExact | `invalidate` resets the version to 0, the next `add` restarts at 1, and old nodes are valid again: a descriptor fires early, against `timer_heap.h:12-13`. In the reactor that is a connection closed before its 15 seconds are over. |
| Body | A body that arrives apart from its headers is scanned for lines, and `parse_body` then waits for more bytes than Content-Length: a complete request is not found, against `http_conn.h:57`. |

Promises that the code breaks and no run of the list is about; each is a definition that TLC
refutes when it is added to the cfg named:

* `NoConcurrentAccess` (Reuse), `sub_reactor.cpp:223-225`: a request that came in pieces leaves
  its descriptor armed, as in HalfClose; when its client sends more while a worker has the
  request, `deal_read` changes the slot under the worker.
* `NoTimeoutUnderWorker` (Reuse), `sub_reactor.cpp:201`: the same event refreshes the timer
  `deal_read` had invalidated, and it is live while the worker runs.
* `GuardsFindOwnConnection` (Reuse), `sub_reactor.cpp:208` and `:305`: a client leaves
  while its task is queued, its slot is closed and the descriptor reused; the guards compare
  descriptors only and find another connection.
* `AcceptsUntilEmpty` (Server), `server.cpp:88`: `accept()` fails, as with EMFILE, and the
  acceptor sleeps with connections in the listen queue and no event due.
* `KeepsEveryLine` (Log), `async_log.h:152` and `:205`: lines that fill the current buffer while
  the backend writes its last ones move to `m_ready_bufs`, and the final flush looks at
  `m_cur_buf` only.

Other differences met while modelling: a line that ends in LF alone is not tolerated, against
`http_conn.cpp:155`, and one broken off by a CR is not reported as an error, against
`http_conn.h:57`, because `parse_line` returns Bad for both and `process_read` takes that for
an incomplete line; the comment at `sub_reactor.h:38` wants a pool that outlives the
reactor, and `Server` destroys the pool first, on purpose (`server.h:44-46`); `src/README.md`
says that the pool parses requests, which the I/O thread does.

## 4. Proofs

All proofs hold for every value of the constants that satisfies the modules'
named assumptions; TLC evaluates those in the runs.

**SubReactorProofs.** `TypeCorrect`, `Remembered` (`NoForgottenConnection`),
`SocketAccounted` (`SocketHeldOnce`) and `NeverAsleep` (`NoLostWakeup`), for any
clients. The inductive invariant `IInv` adds to the types: a slot in use has a
socket (`OpenOwned`); the local queue is empty outside its loop (`QueueUsed`);
a NewConn message is about the socket that has its number now, with its slot
free (`MailHeld`), and no two are about the same (`MailDistinct`); every
socket is in its slot or in a message (`SocketSomewhere`).
`NoForgottenConnection` is inductive only together with these: a NewConn that
overwrote a slot, or a socket closed while its message is on the way, would
break it. The proof goes action by action; what every handler of a slot has in
common is stated once, in lemmas about steps that keep a slot, close
some, or hand one over. `WakeInv` is the strengthening of `NoLostWakeup` over
the whole loop: a non-empty mailbox has a wakeup under way unless the loop
is between `drain_eventfd` and `swap_msgs`.

The second half of the module is about the registrations: `TablesInStep`
(`TablesAgree`), `HearsAgain` (`NeverDeaf`) and
`NothingStranded` (`NoStrandedData`), still for any clients. `EInv` goes with
`IInv` and says per descriptor that its registration fits its slot (`Registered`:
a closed slot has none and no timer, an armed one is one-shot only for input),
and that what it waits for and has is remembered as an edge, is at hand in the
loop, or will be looked at when its worker is done (`Attended`). A socket has one
descriptor (`OwnedOnce`), and nothing is at hand while the loop waits
(`NothingAtHand`). A handler leaves the slot it is about `Settled` and the others
`Untouched`; each is a lemma per path of the code, since each path has to read on,
arm again or close. `SourcesAssumption` says that no slot is that of the
eventfd or the timerfd.

**SubReactorCalmProofs.** `WorkPinned` (`CalmWork`), `OwnAnswers` (`CalmAnswers`),
`NoFileLeaks` (`CalmFiles`) and `WorkersUndisturbed` (`CalmSlots`, an action property), for
any clients, up to the first event that reaches a slot with work under way. Nothing is assumed
about the clients: they pipeline, send pieces, leave in the middle, and descriptors are
reused. So these theorems say that the missing EPOLLONESHOT is the only hole in the
argument of the comments. The invariant `PInv` goes with `IInv` and `EInv` while
`calm` holds:

* `Phase`: an open slot is reading, with EPOLLIN; or answering, with EPOLLOUT; or
  in flight, its request read as far as it takes to answer it and its timer silent.
  Each phase fixes the parser state, the positions and the answer in terms of what the
  client has received.
* `TaskOK`, `WorkerOK`, `MsgOK`, `EventOK`: what a task, a worker, a completion or
  an event says about its slot is true when it is used. A stale event may be about
  a connection that has just arrived, and then finds nothing to do.
* `OneWork` and `OneEvent`: a slot has one piece of work under way, in the queue
  of the pool, at a worker, in the mailbox or in the local queue, and one event
  at hand.
* `ClientsOK`, `Unanswered`, `FilesOK`: what clients have received, and
  that an open file is held by the slot of its connection.

None of the four properties is inductive without the others. `handle_msg` and
the worker compare descriptors only; that this is enough follows from `OneWork`
and from the silence of a slot in flight, which then nothing closes or reads. Every
step that leads to a calm state is shown to keep `PInv` and not to change a slot that a worker
is busy with (`SlotsApart`).

**TimerHeapProofs.** `Safe` (`TypeOK` and `NodeInHeap`), `NeverLate`
(`NextExpireNotLate`) and `Refinement` (`ImplementsIdleTimer`).
`TypeOK /\ NodeInHeap` is inductive: the node of a live timer is in the heap with
its deadline and no node has version 0, so a due timer fires and a cancelled one
does not.

**ReactorTimersProofs.** `TypeCorrect`, `NeverDisarmed` (`TimerFdArmed`) and `InTime`
(`OverdueOnlyWhileBusy`), for any number of descriptors, any timeout, any resolution of the
clock and any order of events, completions and messages. The first two share
`IInv`, which adds that the node of a valid timer is in the heap (`OwnNode`): an
armed timerfd is then armed for it or for an earlier node. The invariant `DInv` of `InTime`
adds that time does not pass an armed timerfd, and that for every live timer it
expires within the second of the deadline, or within a second of the last event or
message that armed it (`Timely`). A reactor without events for a second thus has no
timer overdue by a second; one that is never quiet is the subject of the run Overdue.

**ThreadPoolProofs.** `TypeCorrect`, `HandsEnough` (`NoIdleHands`),
`ShutdownWakesAll` (`NobodySleepsThroughShutdown`) and `Refinement`
(`ImplementsTaskQueue`). The invariant: the queue is the end of `accepted`
(`Queued`), a task is accepted once (`Fresh`), what was started has run or is
being run by one worker (`Jobs`), and the stages of shutdown (`Stopping`): after
`PassLock` nobody is between predicate and sleep, because whoever was there held
the mutex and whoever comes later sees `m_stop`; after `NotifyAll` nobody waits.
`NoIdleHands` needs a count (`Hands`): while a worker waits, the tasks in the
queue are at most the workers on their way to the mutex and the callers that have
pushed and not notified yet, and a worker about to sleep has found the queue empty.
`notify_one` wakes a worker if one waits, so that the sum does not fall
meanwhile. That workers and callers are finitely many is assumed.

**ServerProofs.** `TypeCorrect`, `Nested` (`LifetimesNest`), `OnePlace`
(`SocketsInOnePlace`), `NobodyForgotten` (`NobodyForgottenInBacklog`) and
`EvenShares` (`Balanced`), for any number of reactors, clients and workers.
`LifetimesNest` says nothing about the order in which the threads end, which it
rests on; `IInv` adds it: while the reactors are being joined those before
`turn` have ended, none runs from then on (`Stages`), and a worker leaves only when
the pool stops with an empty queue (`ExitedLast`), after which no reactor is left
to submit. That some worker exists is assumed, as `thread_pool.cpp:6-9` makes
sure: without one the queue of a destroyed pool need not be empty.
`SInv` follows a connection: before `accept` it has no reactor and waits in the
backlog once (`Fresh`); what is being dispatched goes to the reactor it was given
(`Dealt`); what a mailbox or a table holds was given to that reactor, and what is
open is there or being pushed (`Placed`); and a destroyed reactor holds nothing
(`Freed`). For the backlog, an acceptor about to sleep with somebody waiting has an
edge to come, a failed `accept`, or no epoll (`Heard`). `Balanced` rests on
`Rounds`: the reactors before `rr` in its round were given one connection more than
the others. Like `Balanced`, it presumes that the number of reactors divides the range of
`m_rr_index`.

**AsyncLogProofs.** `TypeCorrect`, `NothingLost` (`NothingLostInMemory`) and
`Refinement` (`ImplementsLogFile`), for any number of writers, any capacity, any
calendar. `NothingLostInMemory` is inductive with `Stages`: between two rounds
the local list is empty, so that `Swap` may replace it, a `FILE` that is
stderr holds nothing back, so that lines written past it stay in order, and nobody
logs before `init()` or after the backend has left. Every step but the final flush
then adds to the written lines the next ones of those accepted, which is a `Write` of
LogFile; the final flush writes what `cur` holds and skips `ready`, a `Close`
that loses a block.

**HttpConnProofs.** `TypeCorrect` (`TypeOK`), `AnswersWhole` (`Framed`),
`RequestsFound` (`FoundIfPlain`) and `HangsUpWhenDue` (`HangsUpOnlyWhenDue`, an
action property), for any set of streams, any size of the read buffer, any lengths of
head, page and files, and any number of requests on a connection.
`StreamsAssumption` names the tokens that streams are made of.

`WInv` is the invariant for `Framed`: before an answer starts, the bytes on the
wire end where an answer ends (`Finished`), and while it is sent, the last byte on the
wire is the one before `m_write_offset` of this answer (`Sending`).

`RInv` is the one for the other two. It says that the bytes not yet read, the
buffer and what was parsed make up what has been sent (`InTransit`), and that for
streams without bodies and with CR LF only the connection is on the right track (`Tracks`):

* `Chain`: the answers decided so far are those to the first requests of the stream,
  each beginning where the one before it ends.
* `Position`: the buffer begins at the end of the last of them, and
  from `m_start_line` on it holds the stream unchanged; what is before may have been
  overwritten with NUL.
* `Undecided` and `Knows`: no line up to `m_start_line` decides about the request, and
  the parser state is what those lines add up to.
* `Scanned`: no CR or LF lies between `m_start_line` and `m_checked_idx`, so that the
  next one is found, a CR at the end of the buffer included.
* `Exhausted`: a reader that waits has no line end left in its buffer, except behind a
  CR or LF on its own, at which the parser stops for good. This is what makes
  "none is left unnoticed" true, and with it that a full buffer or a FIN is no
  request lost.

Each step of the parser is compared with the stream: `NextStop` and `NextLine` say
that `parse_line` stops at the next line end or stray, `TextRead` that `get_line()`
returns that line although NULs have been written before it, `JudgesRequestLine` and
`JudgesHeader` that the state machine decides what the line decides. More input changes
nothing that has been decided (`CompleteStable`, `ChainStable`, `PositionStable`).

`Parsed` is a recursive function, and it is compared with `Chain` by induction on
the position in the stream. The induction theorems of the library take an operator
as parameter, which the provers cannot instantiate; the induction here goes over a set
instead: every non-empty set of naturals has a least element (`Least`, from the
well-founded order on finite sets), and the set of the positions where a claim fails is
empty because its least element cannot exist. `FromExists` shows in this way that the
recursion has a solution, `BehindAll` that the requests behind any position are the
rest of the list.

**Only model-checked:**

* Liveness, which is out of the prover's reach: `Served`, `StopsEventually`,
  `Delivered`, `StopCompletes`, `ReachesDisk`, `AcceptedRuns`, `ShutdownReturns`,
  `EveryRequestAnswered`.
* What the violation runs show, since a counterexample is an instance. Those
  that limit theorems are Body (`FoundIfPlain` would be false of such streams without
  `Plain`, and `RInv` says nothing of bodies), Overdue, and HalfClose, which shows
  an event that ends the calm.

## 5. Plan

Every component with behaviour of its own has its module, and every safety
property of a passing run a theorem. What is left to the runs is liveness.
Requests with bodies are worth a theorem once `parse_body` counts the bytes that follow
the headers: `RInv` then needs a case of `Position` for the body.

## 6. Not modelled

`FdGuard` (one descriptor, sequential, moved and never shared), `main.cpp` (start-up
in a straight line), the build files and the page. In the modelled files: header
wording, content types, log formatting and levels beyond one threshold, address
printing, socket options, `epoll_ctl`, `eventfd` and `timerfd` failing, EINTR. The
contents of URLs and header values are classes (above), since no property is about
the string functions that tell them apart.
