--------------------------- MODULE AsyncLogProofs ---------------------------
(***************************************************************************)
(* Proofs about AsyncLog, for every number of writers, lines, days and     *)
(* every size of the buffers.                                              *)
(***************************************************************************)
EXTENDS AsyncLog, SequenceTheorems, TLAPS

\* Between two rounds bufs is empty, and so is everything before init().
\* stderr, which has no buffer, holds nothing back.  Nobody logs once the
\* backend has left.
Stages ==
    /\ main = "start" <=> pc = "off"
    /\ pc = "off" => cur = <<>> /\ ready = <<>> /\ stdio = <<>>
    /\ pc \in {"off", "wait"} => bufs = <<>>
    /\ fp = Stderr => stdio = <<>>
    /\ pc = "exited" => ~started
    /\ pc = "off" => ~started

IInv == TypeOK /\ Stages /\ NothingLostInMemory
-----------------------------------------------------------------------------
LEMMA MdayRange == ASSUME NEW d \in Nat PROVE Mday(d) \in 0 .. Month
<1>1. d % Month \in 0 .. Month - 1
    BY LogAssumption
<1>. QED BY <1>1, LogAssumption DEF Mday

LEMMA Regroup ==
    ASSUME NEW S, NEW a \in Seq(S), NEW b \in Seq(S), NEW c \in Seq(S)
    PROVE  a \o b \in Seq(S) /\ (a \o b) \o c = a \o (b \o c)
BY ConcatProperties, ConcatAssociative

LEMMA Split ==
    ASSUME NEW S, NEW s \in Seq(S), NEW n \in 1 .. Len(s)
    PROVE  /\ SubSeq(s, 1, n) \in Seq(S) /\ SubSeq(s, n + 1, Len(s)) \in Seq(S)
           /\ SubSeq(s, 1, n) \o SubSeq(s, n + 1, Len(s)) = s
<1>1. \A i \in 1 .. Len(s) : s[i] \in S
    BY ElementOfSeq
<1>2. SubSeq(s, 1, n) \in Seq(S)
    BY <1>1, SubSeqProperties, LenProperties, SMTT(20)
<1>3. SubSeq(s, n + 1, Len(s)) \in Seq(S)
    BY <1>1, SubSeqProperties, LenProperties, SMTT(20)
<1>4. SubSeq(s, 1, n) \o SubSeq(s, n + 1, Len(s)) = SubSeq(s, 1, Len(s))
    BY ConcatAdjacentSubSeq, LenProperties, SMTT(20)
<1>5. SubSeq(s, 1, Len(s)) = s
    BY SubSeqFull
<1>. QED BY <1>2, <1>3, <1>4, <1>5

FileType ==
    /\ fp \in Nat \cup {NoFile, Stderr} /\ mday \in 0 .. Month
    /\ stdio \in Seq(Lines) /\ out \in Seq(Lines)
    /\ fp = Stderr => stdio = <<>>

LEMMA Rolled ==
    ASSUME TypeOK, RollFile
    PROVE  fp' \in Nat \cup {NoFile, Stderr} /\ mday' \in 0 .. Month
BY MdayRange DEF TypeOK, RollFile

\* write_to_file() puts the lines behind those that are written, whichever
\* file they go to.
LEMMA Writing ==
    ASSUME TypeOK, Stages, NEW l \in Seq(Lines), WriteToFile(l)
    PROVE  FileType' /\ Written' = Written \o l
<1>1. out \in Seq(Lines) /\ stdio \in Seq(Lines) /\ FileType
    BY DEF TypeOK, Stages, FileType
<1>2. /\ out \o stdio \in Seq(Lines) /\ out \o l \in Seq(Lines)
      /\ stdio \o l \in Seq(Lines) /\ (out \o stdio) \o l \in Seq(Lines)
      /\ (out \o stdio) \o l = out \o (stdio \o l)
    BY <1>1, Regroup
<1>3. \A s \in Seq(Lines) : s \o <<>> = s
    BY ConcatEmptySeq
<1>4. <<>> \in Seq(Lines)
    OBVIOUS
<1>5. fp # Stderr \/ stdio = <<>>
    BY <1>1 DEF FileType
<1>6. CASE WriteToNew(l)
    <2>1. fp' \in Nat \cup {NoFile, Stderr} /\ mday' \in 0 .. Month
        BY <1>6, Rolled DEF WriteToNew
    <2>2. stdio' \in Seq(Lines) /\ out' \in Seq(Lines) /\ (fp' = Stderr => stdio' = <<>>)
        BY <1>1, <1>2, <1>4, <1>6 DEF WriteToNew
    <2>3. Written' = Written \o l
        BY <1>2, <1>3, <1>6 DEF WriteToNew, Written
    <2>. QED BY <2>1, <2>2, <2>3 DEF FileType
<1>7. CASE WriteToSame(l)
    <2>1. CASE fp = Stderr
        <3>1. stdio = <<>> /\ stdio' = <<>> /\ out' = out \o l
            BY <1>5, <1>7, <2>1 DEF WriteToSame
        <3>2. Written' = Written \o l
            BY <1>1, <1>2, <1>3, <3>1 DEF Written
        <3>. QED BY <1>1, <1>2, <1>7, <3>1, <3>2 DEF WriteToSame, FileType
    <2>2. CASE fp # Stderr
        <3>1. out' = out /\ stdio' = stdio \o l /\ fp' = fp /\ mday' = mday
            BY <1>7, <2>2 DEF WriteToSame
        <3>. QED BY <1>1, <1>2, <2>2, <3>1 DEF Written, FileType
    <2>. QED BY <2>1, <2>2
<1>. QED BY <1>6, <1>7 DEF WriteToFile
-----------------------------------------------------------------------------
LEMMA InitInv == Init => IInv
<1>. SUFFICES ASSUME Init PROVE IInv
    OBVIOUS
<1>1. <<>> \in Seq(Lines) /\ Len(<<>>) = 0 /\ <<>> \o <<>> = <<>>
    BY ConcatEmptySeq
<1>2. TypeOK
    <2>1. /\ cur \in Seq(Lines) /\ Len(cur) = 0 /\ ready \in Seq(Lines) /\ bufs \in Seq(Lines)
          /\ stdio \in Seq(Lines) /\ out \in Seq(Lines) /\ accepted \in Seq(Lines)
        BY <1>1 DEF Init
    <2>2. sent \in [Writers -> 0 .. MaxLines]
        BY LogAssumption DEF Init
    <2>3. 0 <= Capacity /\ 0 \in 0 .. Month
        BY LogAssumption
    <2>. QED BY <2>1, <2>2, <2>3 DEF Init, TypeOK
<1>3. Stages
    BY LogAssumption DEF Init, Stages
<1>4. NothingLostInMemory
    BY <1>1 DEF Init, NothingLostInMemory, Written
<1>. QED BY <1>2, <1>3, <1>4 DEF IInv

LEMMA StartLogStep == IInv /\ StartLog => IInv'
<1>. SUFFICES ASSUME IInv, StartLog PROVE IInv'
    OBVIOUS
<1>1. fp' \in Nat \cup {NoFile, Stderr} /\ mday' \in 0 .. Month
    BY Rolled DEF IInv, StartLog
<1>2. TypeOK'
    BY <1>1 DEF IInv, StartLog, TypeOK, buffers
<1>3. Stages'
    BY DEF IInv, StartLog, Stages, buffers
<1>4. NothingLostInMemory'
    BY DEF IInv, StartLog, Stages, NothingLostInMemory, Written, buffers
<1>. QED BY <1>2, <1>3, <1>4 DEF IInv

\* A line that is accepted is behind all the others, whichever buffer it goes
\* to.
LEMMA Putting ==
    ASSUME TypeOK, NEW l \in Lines, Put(l), NEW before \in Seq(Lines)
    PROVE  /\ cur' \in Seq(Lines) /\ Len(cur') <= Capacity /\ ready' \in Seq(Lines)
           /\ (before \o ready') \o cur' = ((before \o ready) \o cur) \o <<l>>
<1>1. cur \in Seq(Lines) /\ ready \in Seq(Lines) /\ <<l>> \in Seq(Lines)
      /\ Len(cur) \in Nat /\ Capacity \in Nat \ {0} /\ <<>> \in Seq(Lines)
    BY LogAssumption DEF TypeOK
<1>2. Append(cur, l) = cur \o <<l>>
    BY <1>1, AppendIsConcat
<1>3. CASE Len(cur) < Capacity
    <2>1. cur' = Append(cur, l) /\ ready' = ready
        BY <1>3 DEF Put
    <2>3. cur' \in Seq(Lines) /\ Len(cur') = Len(cur) + 1
        BY <1>1, <2>1, AppendProperties
    <2>2. (before \o ready) \o cur' = ((before \o ready) \o cur) \o <<l>>
        BY <1>1, <1>2, <2>1, Regroup
    <2>. QED BY <1>1, <1>3, <2>1, <2>2, <2>3
<1>4. CASE ~(Len(cur) < Capacity)
    <2>1. ready' = ready \o cur /\ cur' = <<l>>
        BY <1>4 DEF Put
    <2>3. ready' \in Seq(Lines) /\ Len(<<l>>) = 1 /\ 1 <= Capacity
        BY <1>1, <2>1, Regroup
    <2>2. before \o ready' = (before \o ready) \o cur
        BY <1>1, <2>1, Regroup
    <2>. QED BY <1>1, <2>1, <2>2, <2>3
<1>. QED BY <1>3, <1>4

LEMMA LogLineStep == ASSUME NEW w \in Writers PROVE IInv /\ LogLine(w) => IInv'
<1>. SUFFICES ASSUME IInv, LogLine(w) PROVE IInv'
    OBVIOUS
<1>. DEFINE n == sent[w] + 1
<1>1. n \in 1 .. MaxLines /\ <<w, n>> \in Lines
    BY LogAssumption DEF IInv, TypeOK, LogLine, Lines
<1>2. sent' \in [Writers -> 0 .. MaxLines]
    BY <1>1 DEF IInv, TypeOK, LogLine
<1>3. out \in Seq(Lines) /\ stdio \in Seq(Lines) /\ bufs \in Seq(Lines) /\ accepted \in Seq(Lines)
    BY DEF IInv, TypeOK
<1>4. Written \o bufs \in Seq(Lines)
    BY <1>3, Regroup DEF Written
<1>5. CASE n \in Muted \/ ~started
    <2>1. UNCHANGED <<cur, ready, accepted, started, bufs, pc, fp, mday, stdio, out, day, main>>
        BY <1>5 DEF LogLine, fileVars
    <2>. QED BY <1>2, <2>1 DEF IInv, TypeOK, Stages, NothingLostInMemory, Written
<1>6. CASE ~(n \in Muted \/ ~started)
    <2>1. Put(<<w, n>>) /\ accepted' = Append(accepted, <<w, n>>)
        BY <1>6 DEF LogLine
    <2>2. UNCHANGED <<started, bufs, pc, fp, mday, stdio, out, day, main>>
        BY DEF LogLine, fileVars
    <2>3. accepted' = accepted \o <<<<w, n>>>> /\ accepted' \in Seq(Lines)
        <3>1. ASSUME NEW l \in Lines
              PROVE  Append(accepted, l) = accepted \o <<l>> /\ Append(accepted, l) \in Seq(Lines)
            BY <1>3, AppendIsConcat, AppendProperties
        <3>. QED BY <1>1, <2>1, <3>1
    <2>4. /\ cur' \in Seq(Lines) /\ Len(cur') <= Capacity /\ ready' \in Seq(Lines)
          /\ ((Written \o bufs) \o ready') \o cur'
             = (((Written \o bufs) \o ready) \o cur) \o <<<<w, n>>>>
        BY <1>1, <1>4, <2>1, Putting DEF IInv
    <2>5. TypeOK'
        BY <1>2, <2>2, <2>3, <2>4 DEF IInv, TypeOK
    <2>6. Stages'
        BY <1>6, <2>2 DEF IInv, Stages
    <2>7. NothingLostInMemory'
        BY <2>2, <2>3, <2>4 DEF IInv, NothingLostInMemory, Written
    <2>. QED BY <2>5, <2>6, <2>7 DEF IInv
<1>. QED BY <1>5, <1>6

LEMMA CallerStep == IInv /\ (Shutdown \/ Joined \/ Midnight \/ UNCHANGED vars) => IInv'
<1>. SUFFICES ASSUME IInv, Shutdown \/ Joined \/ Midnight \/ UNCHANGED vars PROVE IInv'
    OBVIOUS
<1>. USE DEF IInv, TypeOK, Stages, NothingLostInMemory, Written, buffers, fileVars
<1>1. CASE Shutdown
    BY <1>1 DEF Shutdown
<1>2. CASE Joined
    BY <1>2 DEF Joined
<1>3. CASE Midnight
    <2>1. /\ UNCHANGED <<started, cur, ready, bufs, pc, fp, mday, stdio, out, sent, main, accepted>>
          /\ day' \in Nat
        BY <1>3 DEF Midnight, callers
    <2>. QED BY <2>1
<1>4. CASE UNCHANGED vars
    BY <1>4 DEF vars, callers
<1>. QED BY <1>1, <1>2, <1>3, <1>4

LEMMA SwapStep == IInv /\ Swap => IInv'
<1>. SUFFICES ASSUME IInv, Swap PROVE IInv'
    OBVIOUS
<1>1. /\ cur \in Seq(Lines) /\ ready \in Seq(Lines) /\ out \o stdio \in Seq(Lines)
      /\ ready \o cur \in Seq(Lines)
    BY Regroup DEF IInv, TypeOK
<1>2. /\ pc = "wait" /\ pc' = "write" /\ bufs = <<>> /\ bufs' = ready \o cur
      /\ ready' = <<>> /\ cur' = <<>>
      /\ UNCHANGED <<started, fp, mday, stdio, out, day, sent, main, accepted>>
    BY DEF IInv, Stages, Swap, fileVars, callers
<1>3. <<>> \in Seq(Lines) /\ Len(<<>>) = 0 /\ 0 <= Capacity
    BY LogAssumption
<1>4. TypeOK'
    BY <1>1, <1>2, <1>3 DEF IInv, TypeOK
<1>5. Stages'
    BY <1>2 DEF IInv, Stages
<1>6. NothingLostInMemory'
    <2>1. accepted = ((Written \o <<>>) \o ready) \o cur
        BY <1>2 DEF IInv, NothingLostInMemory
    <2>2. Written \o <<>> = Written /\ (Written \o ready) \o cur = Written \o (ready \o cur)
        BY <1>1, ConcatEmptySeq, Regroup DEF Written
    <2>3. Written \o (ready \o cur) \in Seq(Lines)
        BY <1>1, Regroup DEF Written
    <2>4. ((Written \o (ready \o cur)) \o <<>>) \o <<>> = Written \o (ready \o cur)
        BY <2>3, ConcatEmptySeq
    <2>. QED BY <1>2, <2>1, <2>2, <2>4 DEF NothingLostInMemory, Written
<1>. QED BY <1>4, <1>5, <1>6 DEF IInv

LEMMA WriteBufferStep == IInv /\ WriteBuffer => IInv'
<1>. SUFFICES ASSUME IInv, WriteBuffer PROVE IInv'
    OBVIOUS
<1>1. PICK n \in 1 .. Capacity :
          /\ n <= Len(bufs)
          /\ WriteToFile(SubSeq(bufs, 1, n))
          /\ bufs' = SubSeq(bufs, n + 1, Len(bufs))
    BY DEF WriteBuffer
<1>2. /\ out \in Seq(Lines) /\ stdio \in Seq(Lines) /\ bufs \in Seq(Lines) /\ Len(bufs) \in Nat
      /\ Written \in Seq(Lines)
    BY Regroup DEF IInv, TypeOK, Written
<1>3. n \in 1 .. Len(bufs)
    BY <1>1, <1>2, LogAssumption
<1>4. /\ SubSeq(bufs, 1, n) \in Seq(Lines) /\ bufs' \in Seq(Lines)
      /\ SubSeq(bufs, 1, n) \o bufs' = bufs
    BY <1>1, <1>2, <1>3, Split
<1>5. FileType' /\ Written' = Written \o SubSeq(bufs, 1, n)
    BY <1>1, <1>4, Writing DEF IInv
<1>6. UNCHANGED <<started, cur, ready, pc, day, sent, main, accepted>> /\ pc = "write"
    BY DEF WriteBuffer, callers
<1>7. Written' \o bufs' = Written \o bufs
    <2>1. (Written \o SubSeq(bufs, 1, n)) \o bufs' = Written \o (SubSeq(bufs, 1, n) \o bufs')
        BY <1>2, <1>4, Regroup
    <2>. QED BY <1>4, <1>5, <2>1
<1>8. TypeOK'
    BY <1>4, <1>5, <1>6 DEF IInv, TypeOK, FileType
<1>9. Stages'
    BY <1>5, <1>6 DEF IInv, Stages, FileType
<1>10. NothingLostInMemory'
    BY <1>6, <1>7 DEF IInv, NothingLostInMemory
<1>. QED BY <1>8, <1>9, <1>10 DEF IInv

LEMMA FlushStep == IInv /\ (NextRound \/ FinalFlush) => IInv'
<1>. SUFFICES ASSUME IInv, NextRound \/ FinalFlush PROVE IInv'
    OBVIOUS
<1>1. /\ out \in Seq(Lines) /\ stdio \in Seq(Lines) /\ cur \in Seq(Lines) /\ <<>> \in Seq(Lines)
      /\ out \o stdio \in Seq(Lines) /\ (out \o stdio) \o <<>> = out \o stdio
      /\ (out \o stdio) \o cur \in Seq(Lines)
      /\ Len(<<>>) = 0 /\ 0 <= Capacity
    BY LogAssumption, Regroup, ConcatEmptySeq DEF IInv, TypeOK
<1>2. CASE NextRound
    <2>1. /\ pc = "write" /\ pc' = "wait" /\ bufs = <<>> /\ started
          /\ out' = out \o stdio /\ stdio' = <<>>
          /\ UNCHANGED <<started, cur, ready, bufs, fp, mday, day, sent, main, accepted>>
        BY <1>2 DEF NextRound, Flush, buffers, callers
    <2>2. TypeOK'
        BY <1>1, <2>1 DEF IInv, TypeOK
    <2>3. Stages'
        BY <2>1 DEF IInv, Stages
    <2>4. NothingLostInMemory'
        BY <1>1, <2>1 DEF IInv, NothingLostInMemory, Written
    <2>. QED BY <2>2, <2>3, <2>4 DEF IInv
<1>3. CASE FinalFlush
    <2>1. /\ pc = "write" /\ pc' = "exited" /\ ~started
          /\ out' = (out \o stdio) \o cur /\ stdio' = <<>> /\ cur' = <<>>
          /\ UNCHANGED <<started, ready, bufs, day, sent, main, accepted>>
        BY <1>3 DEF FinalFlush, callers
    <2>2. fp' \in Nat \cup {NoFile, Stderr} /\ mday' \in 0 .. Month
        BY <1>3, MdayRange DEF FinalFlush, IInv, TypeOK
    <2>3. TypeOK'
        BY <1>1, <2>1, <2>2 DEF IInv, TypeOK
    <2>4. Stages'
        BY <2>1 DEF IInv, Stages
    <2>5. NothingLostInMemory'
        BY <2>1 DEF NothingLostInMemory
    <2>. QED BY <2>3, <2>4, <2>5 DEF IInv
<1>. QED BY <1>2, <1>3

LEMMA StepInv == IInv /\ [Next]_vars => IInv'
BY StartLogStep, LogLineStep, CallerStep, SwapStep, WriteBufferStep, FlushStep
   DEF Next, Backend, Terminated

LEMMA Invariant == Spec => []IInv
BY InitInv, StepInv, PTL DEF Spec
-----------------------------------------------------------------------------
\* Every variable keeps its type, and a buffer never holds more lines than fit
\* it (LogBuffer::append).
THEOREM TypeCorrect == Spec => []TypeOK
<1>1. IInv => TypeOK
    BY DEF IInv
<1>. QED BY <1>1, Invariant, PTL

\* Up to the final flush every accepted line is in the file, in the buffer of
\* stdio or in memory, once and in order, while the lists of buffers change
\* hands under m_mtx and are written without it (async_log.h:187-202).
THEOREM NothingLost == Spec => []NothingLostInMemory
<1>1. IInv => NothingLostInMemory
    BY DEF IInv
<1>. QED BY <1>1, Invariant, PTL
-----------------------------------------------------------------------------
(* AsyncLog implements LogFile. *)

\* The lines in front of a suffix are a prefix, those behind a prefix a suffix.
LEMMA Parts ==
    ASSUME NEW S, NEW p \in Seq(S), NEW q \in Seq(S), NEW s, s = p \o q
    PROVE  /\ Len(p) \in 0 .. Len(s) /\ Len(s) \in Nat
           /\ p = SubSeq(s, 1, Len(p)) /\ q = SubSeq(s, Len(p) + 1, Len(s))
<1>1. /\ s \in Seq(S) /\ Len(s) = Len(p) + Len(q) /\ Len(p) \in Nat /\ Len(q) \in Nat
      /\ \A i \in 1 .. Len(s) : s[i] = IF i <= Len(p) THEN p[i] ELSE q[i - Len(p)]
    BY ConcatProperties, LenProperties
<1>2. \A i \in 1 .. Len(s) : s[i] \in S
    BY <1>1, ElementOfSeq
<1>3. p = SubSeq(s, 1, Len(p))
    <2>1. /\ SubSeq(s, 1, Len(p)) \in Seq(S) /\ Len(SubSeq(s, 1, Len(p))) = Len(p)
          /\ \A i \in 1 .. Len(p) : SubSeq(s, 1, Len(p))[i] = p[i]
        <3>1. \A i \in 1 .. Len(p) : s[i] \in S /\ s[i] = p[i]
            BY <1>1, <1>2
        <3>. QED BY <1>1, <3>1, SubSeqProperties
    <2>. QED BY <2>1, SeqEqual
<1>4. q = SubSeq(s, Len(p) + 1, Len(s))
    <2>1. /\ SubSeq(s, Len(p) + 1, Len(s)) \in Seq(S)
          /\ Len(SubSeq(s, Len(p) + 1, Len(s))) = Len(q)
          /\ \A i \in 1 .. Len(q) : SubSeq(s, Len(p) + 1, Len(s))[i] = q[i]
        <3>1. \A i \in Len(p) + 1 .. Len(s) : s[i] \in S
            BY <1>1, <1>2
        <3>2. \A i \in 1 .. Len(q) : s[Len(p) + 1 + i - 1] = q[i]
            BY <1>1
        <3>. QED BY <1>1, <3>1, <3>2, SubSeqProperties
    <2>. QED BY <2>1, SeqEqual
<1>. QED BY <1>1, <1>3, <1>4

LEMMA Front ==
    ASSUME NEW w \in Seq(Lines), NEW b \in Seq(Lines), NEW r \in Seq(Lines),
           NEW c \in Seq(Lines), NEW s, s = ((w \o b) \o r) \o c
    PROVE  /\ Len(w) \in 0 .. Len(s) /\ Len(s) \in Nat
           /\ w = SubSeq(s, 1, Len(w))
<1>1. ASSUME NEW d \in Seq(Lines), NEW e \in Seq(Lines)
      PROVE  d \o e \in Seq(Lines) /\ (w \o d) \o e = w \o (d \o e)
    BY Regroup
<1>2. b \o r \in Seq(Lines) /\ (w \o b) \o r = w \o (b \o r)
    BY <1>1, Zenon
<1>3. (b \o r) \o c \in Seq(Lines) /\ (w \o (b \o r)) \o c = w \o ((b \o r) \o c)
    BY <1>1, <1>2, Zenon
<1>4. s = w \o ((b \o r) \o c)
    BY <1>2, <1>3, Zenon
<1>. QED BY <1>3, <1>4, Parts

LEMMA StutterMaps ==
    ASSUME UNCHANGED <<accepted, Written, started, pc>> PROVE UNCHANGED Promise!vars
BY DEF Promise!vars

LEMMA WriteMaps == IInv /\ WriteBuffer => Promise!Next
<1>. SUFFICES ASSUME IInv, WriteBuffer PROVE Promise!Next
    OBVIOUS
<1>1. PICK n \in 1 .. Capacity :
          /\ n <= Len(bufs)
          /\ WriteToFile(SubSeq(bufs, 1, n))
          /\ bufs' = SubSeq(bufs, n + 1, Len(bufs))
    BY DEF WriteBuffer
<1>2. /\ bufs \in Seq(Lines) /\ Len(bufs) \in Nat /\ Written \in Seq(Lines)
      /\ ready \in Seq(Lines) /\ cur \in Seq(Lines)
    BY Regroup DEF IInv, TypeOK, Written
<1>3. SubSeq(bufs, 1, n) \in Seq(Lines)
    BY <1>1, <1>2, Split, LogAssumption
<1>4. Written' = Written \o SubSeq(bufs, 1, n)
    BY <1>1, <1>3, Writing DEF IInv
<1>5. /\ pc = "write" /\ UNCHANGED <<started, cur, ready, pc, accepted>>
    BY DEF WriteBuffer
<1>6. IInv'
    BY WriteBufferStep
<1>7. /\ Written' \in Seq(Lines) /\ bufs' \in Seq(Lines)
      /\ accepted = ((Written' \o bufs') \o ready) \o cur
    <2>1. Written' \in Seq(Lines)
        BY <1>2, <1>3, <1>4, Regroup
    <2>. QED BY <1>5, <1>6, <2>1 DEF IInv, TypeOK, NothingLostInMemory
<1>8. /\ Len(Written') \in 0 .. Len(accepted) /\ Len(accepted) \in Nat
      /\ Written' = SubSeq(accepted, 1, Len(Written'))
    BY <1>2, <1>7, Front
<1>9. Len(Written) \in Nat /\ Len(Written) <= Len(Written')
    BY <1>2, <1>3, <1>4, ConcatProperties, LenProperties
<1>10. Promise!Write(Len(Written'))
    BY <1>5, <1>8, <1>9 DEF Promise!Write
<1>. QED BY <1>8, <1>10 DEF Promise!Next

LEMMA FinalMaps == IInv /\ FinalFlush => Promise!Next
<1>. SUFFICES ASSUME IInv, FinalFlush PROVE Promise!Next
    OBVIOUS
<1>1. /\ Written \in Seq(Lines) /\ ready \in Seq(Lines) /\ cur \in Seq(Lines)
      /\ Written \o ready \in Seq(Lines)
    BY Regroup DEF IInv, TypeOK, Written
<1>2. /\ pc = "write" /\ pc' = "exited" /\ ~started /\ bufs = <<>>
      /\ out' = (out \o stdio) \o cur /\ stdio' = <<>>
      /\ UNCHANGED <<started, accepted>>
    BY DEF FinalFlush
<1>3. Written' = Written \o cur
    <2>1. Written \o cur \in Seq(Lines) /\ (Written \o cur) \o <<>> = Written \o cur
        BY <1>1, ConcatEmptySeq, Regroup
    <2>. QED BY <1>2, <2>1 DEF Written
<1>4. accepted = (Written \o ready) \o cur
    BY <1>1, <1>2, ConcatEmptySeq DEF IInv, NothingLostInMemory
<1>. DEFINE n == Len(Written \o ready)
<1>5. /\ n \in 0 .. Len(accepted) /\ Len(accepted) \in Nat
      /\ cur = SubSeq(accepted, n + 1, Len(accepted))
    BY <1>1, <1>4, Parts
<1>6. Len(Written) \in Nat /\ Len(Written) <= n
    BY <1>1, ConcatProperties, LenProperties
<1>7. n \in Len(Written) .. Len(accepted)
    BY <1>5, <1>6
<1>8. Promise!Close(n)
    BY <1>2, <1>3, <1>5, <1>7 DEF Promise!Close
<1>. QED BY <1>5, <1>8 DEF Promise!Next

LEMMA StepMaps == IInv /\ [Next]_vars => [Promise!Next]_(Promise!vars)
<1>. SUFFICES ASSUME IInv, [Next]_vars PROVE [Promise!Next]_(Promise!vars)
    OBVIOUS
<1>1. CASE StartLog
    <2>1. /\ pc # "exited" /\ pc' # "exited" /\ started' = TRUE
          /\ UNCHANGED <<accepted, out, stdio>>
        BY <1>1 DEF StartLog, IInv, Stages
    <2>2. Promise!Open
        BY <2>1 DEF Promise!Open, Written
    <2>. QED BY <2>2 DEF Promise!Next
<1>2. CASE \E w \in Writers : LogLine(w)
    <2>1. PICK w \in Writers : LogLine(w)
        BY <1>2
    <2>2. UNCHANGED <<started, pc, out, stdio>>
        BY <2>1 DEF LogLine, fileVars
    <2>3. <<w, sent[w] + 1>> \in Lines
        BY <2>1, LogAssumption DEF IInv, TypeOK, LogLine, Lines
    <2>4. CASE started /\ accepted' = Append(accepted, <<w, sent[w] + 1>>)
        <3>1. Promise!Accept(<<w, sent[w] + 1>>)
            BY <2>2, <2>4 DEF Promise!Accept, Written
        <3>. QED BY <2>3, <3>1 DEF Promise!Next
    <2>5. CASE accepted' = accepted
        BY <2>2, <2>5, StutterMaps DEF Written
    <2>. QED BY <2>1, <2>4, <2>5 DEF LogLine
<1>3. CASE Shutdown
    <2>1. started' = FALSE /\ UNCHANGED <<accepted, pc, out, stdio>>
        BY <1>3 DEF Shutdown, fileVars
    <2>2. Promise!Shut
        BY <2>1 DEF Promise!Shut, Written
    <2>. QED BY <2>2 DEF Promise!Next
<1>4. CASE Joined \/ Midnight \/ UNCHANGED vars
    <2>1. UNCHANGED <<accepted, started, pc, out, stdio>>
        BY <1>4 DEF Joined, Midnight, vars, fileVars
    <2>. QED BY <2>1, StutterMaps DEF Written
<1>5. CASE Swap
    <2>1. /\ pc # "exited" /\ pc' # "exited"
          /\ UNCHANGED <<accepted, started, out, stdio>>
        BY <1>5 DEF Swap, fileVars
    <2>. QED BY <2>1 DEF Promise!vars, Written
<1>6. CASE NextRound
    <2>1. /\ pc # "exited" /\ pc' # "exited" /\ UNCHANGED <<accepted, started>>
          /\ out' = out \o stdio /\ stdio' = <<>>
        BY <1>6 DEF NextRound, Flush
    <2>2. (out \o stdio) \o <<>> = out \o stdio
        BY Regroup, ConcatEmptySeq DEF IInv, TypeOK
    <2>. QED BY <2>1, <2>2 DEF Promise!vars, Written
<1>7. CASE WriteBuffer
    BY <1>7, WriteMaps
<1>8. CASE FinalFlush
    BY <1>8, FinalMaps
<1>. QED BY <1>1, <1>2, <1>3, <1>4, <1>5, <1>6, <1>7, <1>8 DEF Next, Backend, Terminated

\* Whatever the interleaving, the log is an ordered log file: lines reach it in
\* the order append() took them, once each, and only the final flush of
\* shutdown() may leave some out (async_log.h:98-216).
THEOREM Refinement == Spec => ImplementsLogFile
<1>1. Init => Promise!Init
    BY ConcatEmptySeq DEF Init, Promise!Init, Written
<1>2. IInv /\ [Next]_vars => [Promise!Next]_(Promise!vars)
    BY StepMaps
<1>. QED BY <1>1, <1>2, Invariant, PTL DEF Spec, Promise!Spec, ImplementsLogFile
=============================================================================
