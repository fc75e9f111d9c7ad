------------------------------ MODULE AsyncLog ------------------------------
(***************************************************************************)
(* AsyncLog (async_log.h): the threads that call append(), the thread that *)
(* runs backend_loop(), the two stages of buffers between them, the log    *)
(* file that changes with the day, and init() and shutdown().              *)
(*                                                                         *)
(* m_started is written under m_mtx only, so that a critical section is    *)
(* one step.  The wait of the backend ends after a second at the latest,   *)
(* whoever is notified.  A buffer counts lines, Capacity of them; of       *)
(* m_ready_bufs and of the local bufs only the lines in them are kept, and *)
(* a write takes any number of them that fits a buffer.                    *)
(*                                                                         *)
(* stdio is what fwrite has put into the FILE and fflush has not given to  *)
(* the system yet.  accepted is history.                                   *)
(***************************************************************************)
EXTENDS Naturals, Sequences

CONSTANTS
    Writers,   \* the threads that log
    MaxLines,  \* lines a writer logs, for TLC
    Muted,     \* the lines of a writer that are below m_level
    Capacity,  \* lines that fit a LogBuffer
    Days,      \* days the clock may show: 0 .. Days - 1
    Month,     \* days until tm_mday shows the same number again
    NoFile,    \* m_fp == nullptr
    Stderr     \* m_fp == stderr

ASSUME LogAssumption == /\ Capacity \in Nat \ {0}
                        /\ Days \in Nat /\ Month \in Nat \ {0}
                        /\ MaxLines \in Nat
                        /\ NoFile \notin Nat /\ Stderr \notin Nat
                        /\ NoFile # Stderr

Lines == Writers \X (1 .. MaxLines)

VARIABLES
    started,    \* m_started
    cur,        \* m_cur_buf
    ready,      \* m_ready_bufs
    bufs,       \* the local list backend_loop() writes
    pc,         \* where backend_loop() stands
    fp,         \* m_fp: NoFile, Stderr, or the day in the name of the file
    mday,       \* m_day
    stdio,      \* the lines in the buffer of m_fp
    out,        \* the lines the system has been given
    day,        \* the calendar
    sent,       \* how many lines each writer has logged
    main,       \* the thread that calls init() and shutdown()
    accepted    \* history: the lines append() has put into a buffer, in order

buffers == <<cur, ready, bufs>>
fileVars == <<fp, mday, stdio, out>>
callers == <<sent, main>>
vars == <<started, buffers, pc, fileVars, day, callers, accepted>>
-----------------------------------------------------------------------------
(* The file *)

Mday(d) == (d % Month) + 1
NeedsRoll == mday # Mday(day) \/ fp = NoFile

\* roll_file_locked(), where fopen may fail.
RollFile == fp' \in {day, Stderr} /\ mday' = Mday(day)

\* write_to_file(lines): a new day asks for a new file, whose opening flushes
\* the old one.  stderr has no buffer.  The bug drops what the old file
\* still held.
WriteAfresh(lines) ==
    /\ RollFile
    /\ IF fp' = Stderr THEN out' = out \o lines /\ stdio' = <<>>
       ELSE out' = out /\ stdio' = lines
WriteToNew(lines) ==
    /\ RollFile
    /\ IF fp' = Stderr THEN out' = out \o stdio \o lines /\ stdio' = <<>>
       ELSE out' = out \o stdio /\ stdio' = lines
WriteToSame(lines) ==
    /\ IF fp = Stderr THEN out' = out \o lines /\ stdio' = stdio
       ELSE out' = out /\ stdio' = stdio \o lines
    /\ UNCHANGED <<fp, mday>>
WriteToFile(lines) ==
    IF NeedsRoll THEN WriteToNew(lines) ELSE WriteToSame(lines)

\* fflush(m_fp), and a bug that forgets it.
NoFlush == UNCHANGED fileVars
Flush ==
    /\ out' = out \o stdio /\ stdio' = <<>>
    /\ UNCHANGED <<fp, mday>>
-----------------------------------------------------------------------------
(* Front end *)

\* init(): the first file, and the backend thread.
StartLog ==
    /\ main = "start" /\ main' = "running"
    /\ started' = TRUE
    /\ RollFile
    /\ pc' = "wait"
    /\ UNCHANGED <<buffers, stdio, out, day, sent, accepted>>

\* The line goes into the current buffer, or, when that is full, into a new
\* one.
Put(l) ==
    IF Len(cur) < Capacity THEN cur' = Append(cur, l) /\ ready' = ready
    ELSE ready' = ready \o cur /\ cur' = <<l>>

\* append(): nothing happens below m_level, nor when the log is not running.
LogLine(w) ==
    /\ sent[w] < MaxLines
    /\ sent' = [sent EXCEPT ![w] = @ + 1]
    /\ LET n == sent[w] + 1 IN
       IF n \in Muted \/ ~started THEN UNCHANGED <<cur, ready, accepted>>
       ELSE Put(<<w, n>>) /\ accepted' = Append(accepted, <<w, n>>)
    /\ UNCHANGED <<started, bufs, pc, fileVars, day, main>>

\* shutdown(): m_started falls, then the backend is joined.
Shutdown ==
    /\ main = "running" /\ main' = "joining"
    /\ started' = FALSE
    /\ UNCHANGED <<buffers, pc, fileVars, day, sent, accepted>>
Joined ==
    /\ main = "joining" /\ pc = "exited"
    /\ main' = "done"
    /\ UNCHANGED <<started, buffers, pc, fileVars, day, sent, accepted>>
-----------------------------------------------------------------------------
(* backend_loop() *)

\* The wait is over: everything in memory moves to bufs, in one critical
\* section.  The bug takes the current buffer before the full ones.
SwapReversed ==
    /\ pc = "wait" /\ pc' = "write"
    /\ bufs' = cur \o ready
    /\ ready' = <<>> /\ cur' = <<>>
    /\ UNCHANGED <<started, fileVars, day, callers, accepted>>
Swap ==
    /\ pc = "wait" /\ pc' = "write"
    /\ bufs' = ready \o cur
    /\ ready' = <<>> /\ cur' = <<>>
    /\ UNCHANGED <<started, fileVars, day, callers, accepted>>

\* The next buffer is written, without the mutex.
WriteBuffer ==
    /\ pc = "write"
    /\ \E n \in 1 .. Capacity :
          /\ n <= Len(bufs)
          /\ WriteToFile(SubSeq(bufs, 1, n))
          /\ bufs' = SubSeq(bufs, n + 1, Len(bufs))
    /\ UNCHANGED <<started, cur, ready, pc, day, callers, accepted>>

\* m_started is still set: fflush, and wait again.
NextRound ==
    /\ pc = "write" /\ bufs = <<>> /\ started
    /\ Flush
    /\ pc' = "wait"
    /\ UNCHANGED <<started, buffers, day, callers, accepted>>

\* m_started has fallen: under the mutex again, the current buffer is written,
\* to a new file if the day has changed, and the file is closed.  Nobody looks
\* at m_ready_bufs.
FinalFlush ==
    /\ pc = "write" /\ bufs = <<>> /\ ~started
    /\ pc' = "exited"
    /\ out' = out \o stdio \o cur /\ stdio' = <<>> /\ cur' = <<>>
    /\ IF cur # <<>> /\ NeedsRoll
       THEN fp' \in {NoFile, Stderr} /\ mday' = Mday(day)
       ELSE fp' = (IF fp = Stderr THEN Stderr ELSE NoFile) /\ mday' = mday
    /\ UNCHANGED <<started, ready, bufs, day, callers, accepted>>

Backend == Swap \/ WriteBuffer \/ NextRound \/ FinalFlush
-----------------------------------------------------------------------------
Midnight ==
    /\ day + 1 < Days
    /\ day' = day + 1
    /\ UNCHANGED <<started, buffers, pc, fileVars, callers, accepted>>

Init ==
    /\ started = FALSE
    /\ cur = <<>> /\ ready = <<>> /\ bufs = <<>>
    /\ pc = "off"
    /\ fp = NoFile /\ mday = 0 /\ stdio = <<>> /\ out = <<>>
    /\ day = 0
    /\ sent = [w \in Writers |-> 0]
    /\ main = "start"
    /\ accepted = <<>>

Terminated == main = "done" /\ UNCHANGED vars

Next ==
    \/ \E w \in Writers : LogLine(w)
    \/ StartLog \/ Shutdown \/ Joined
    \/ Backend
    \/ Midnight
    \/ Terminated

Spec == Init /\ [][Next]_vars

\* The backend runs, and its wait ends after a second.  Nothing is assumed
\* about logging and stopping.
FairSpec == Spec /\ WF_vars(Backend)
-----------------------------------------------------------------------------
\* Every variable has its type, and no buffer overflows (LogBuffer::append).
TypeOK ==
    /\ started \in BOOLEAN
    /\ cur \in Seq(Lines) /\ Len(cur) <= Capacity
    /\ ready \in Seq(Lines) /\ bufs \in Seq(Lines)
    /\ stdio \in Seq(Lines) /\ out \in Seq(Lines) /\ accepted \in Seq(Lines)
    /\ pc \in {"off", "wait", "write", "exited"}
    /\ fp \in Nat \cup {NoFile, Stderr} /\ mday \in 0 .. Month
    /\ day \in Nat
    /\ sent \in [Writers -> 0 .. MaxLines]
    /\ main \in {"start", "running", "joining", "done"}

Written == out \o stdio

\* While the log runs no line is lost, duplicated or overtaken between
\* append() and the file, whatever the writers and the backend do at the same
\* time (the swap under m_mtx, async_log.h:187-194).
NothingLostInMemory ==
    pc # "exited" => accepted = Written \o bufs \o ready \o cur

Promise == INSTANCE LogFile
    WITH written <- Written, open <- started, closed <- pc = "exited",
         LossAllowed <- TRUE
Lossless == INSTANCE LogFile
    WITH written <- Written, open <- started, closed <- pc = "exited",
         LossAllowed <- FALSE

\* The log is an ordered log file, as long as closing it may lose lines.
ImplementsLogFile == Promise!Spec

\* shutdown() writes everything that was accepted (async_log.h:152, 205).  Not
\* true of the code, when buffers fill up during the last writes.
KeepsEveryLine == Lossless!Spec

OnDisk(l) == \E i \in DOMAIN out : out[i] = l
Accepted(l) == \E i \in DOMAIN accepted : accepted[i] = l

\* A line is given to the system in the end, and not only when its buffer
\* fills up or the next line comes, unless the log is shut down
\* (async_log.h:180-190, 214).
ReachesDisk == \A l \in Lines : Accepted(l) ~> OnDisk(l) \/ ~started
=============================================================================
