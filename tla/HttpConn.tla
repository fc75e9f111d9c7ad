------------------------------ MODULE HttpConn ------------------------------
(***************************************************************************)
(* One http_conn between the bytes of its client and the bytes of its      *)
(* answers: read_once, the line parser and the state machine of            *)
(* process_read, do_request, process_write, write and reset_for_next, as   *)
(* deal_read and deal_write call them.                                     *)
(*                                                                         *)
(* The contents of a line, and every byte of a body, is one token; CR and  *)
(* LF are tokens of their own, NUL is what the parser writes over them.    *)
(* m_checked_idx and m_start_line are positions counted in tokens.         *)
(*                                                                         *)
(* The threads take turns here, as EPOLLONESHOT is meant to make them do;  *)
(* what happens when they do not is the subject of SubReactor.             *)
(***************************************************************************)
EXTENDS Naturals, Sequences

CONSTANTS
    Streams, \* what a client may send
    BufSize, \* READ_BUFFER_SIZE
    HeadLen, \* length of a response head
    PageLen, \* length of a page kept in memory
    Sizes    \* sizes of static files

ASSUME HttpAssumption == /\ BufSize \in Nat \ {0} /\ HeadLen \in Nat \ {0}
                         /\ PageLen \in Nat \ {0} /\ Sizes \subseteq Nat

\* The request lines parse_request_line accepts; every other line is a 400.
Request(url, v11) == [url |-> url, v11 |-> v11]
RequestLines == [file11 |-> Request("file", TRUE), file10 |-> Request("file", FALSE),
                 root11 |-> Request("/", TRUE), root10 |-> Request("/", FALSE)]
Valid(text) == Len(text) = 1 /\ text[1] \in DOMAIN RequestLines

VARIABLES
    c,      \* the http_conn
    status, \* line_status of process_read
    mode,   \* who has the turn: "read", "parse", "busy", "write", or nobody
    net,    \* what has arrived and is not read yet
    todo,   \* what the client has still to send
    peer,   \* the client: "up", "fin" (its side is shut down), "rst"
    wire,   \* what the socket has taken from us
    sent,   \* history: what the client has sent
    said    \* history: what process_read has found, request by request

vars == <<c, status, mode, net, todo, peer, wire, sent, said>>
client == <<net, todo, peer, sent>>
-----------------------------------------------------------------------------
(* The line parser *)

\* init_state(), as far as it matters here.
Fresh == [buf |-> <<>>, checked |-> 0, start |-> 0, chk |-> "LINE", url |-> "",
          v11 |-> FALSE, host |-> FALSE, linger |-> FALSE, clen |-> 0,
          code |-> "NoRequest", sendfile |-> FALSE, size |-> 0, actual |-> 0,
          len |-> 0, off |-> 0]

\* The next CR or LF from m_checked_idx on, and the parser at a position.
Breaks(d) == { i \in d.checked + 1 .. Len(d.buf) : d.buf[i] \in {"CR", "LF"} }
Break(d) == CHOOSE i \in Breaks(d) : \A j \in Breaks(d) : i <= j
At(st, d, i) == [status |-> st, c |-> [d EXCEPT !.checked = i]]
EndLine(d, i) == At("Ok", [d EXCEPT !.buf[i] = "NUL", !.buf[i + 1] = "NUL"], i + 1)

\* parse_line().  A CR at the end of the buffer has to wait for its LF.
ParseLine(d) ==
    IF Breaks(d) = {} THEN At("Open", d, Len(d.buf))
    ELSE LET i == Break(d) IN
         IF d.buf[i] = "CR" /\ i = Len(d.buf) THEN At("Open", d, i - 1)
         ELSE IF d.buf[i] = "CR" /\ d.buf[i + 1] = "LF" THEN EndLine(d, i)
         ELSE IF d.buf[i] = "LF" /\ i > 1 /\ d.buf[i - 1] = "CR" THEN EndLine(d, i - 1)
         ELSE At("Bad", d, i - 1)

\* get_line(): the C string that starts at m_start_line.
Text(d) ==
    LET nul == { i \in d.start + 1 .. Len(d.buf) : d.buf[i] = "NUL" }
        end == IF nul = {} THEN Len(d.buf) + 1
               ELSE CHOOSE i \in nul : \A j \in nul : i <= j
    IN  SubSeq(d.buf, d.start + 1, end - 1)
-----------------------------------------------------------------------------
(* The state machine: what the line in text does to d *)

Return(ret, d) == [ret |-> ret, c |-> d]

\* parse_request_line(text)
ParseRequestLine(d, text) ==
    IF ~Valid(text) THEN Return("BadRequest", d)
    ELSE LET r == RequestLines[text[1]] IN
         Return("NoRequest", [d EXCEPT !.chk = "HEADER", !.url = r.url,
                                       !.v11 = r.v11, !.linger = r.v11])

\* parse_headers(text).  "other" is a header the server does not know; a line
\* that continues something else counts as one if it has a colon in it.
Colon == {"host", "alive", "close", "len0", "len1", "badlen", "other"}
ParseHeaders(d, text) ==
    IF text = <<>>
    THEN IF d.v11 /\ ~d.host THEN Return("BadRequest", d)
         ELSE IF d.clen # 0 THEN Return("NoRequest", [d EXCEPT !.chk = "BODY"])
         ELSE Return("GetRequest", d)
    ELSE CASE text[1] = "host"   -> Return("NoRequest", [d EXCEPT !.host = TRUE])
           [] text[1] = "alive"  -> Return("NoRequest", [d EXCEPT !.linger = TRUE])
           [] text[1] = "close"  -> Return("NoRequest", [d EXCEPT !.linger = FALSE])
           [] text[1] = "len0"   -> Return("NoRequest", [d EXCEPT !.clen = 0])
           [] text[1] = "len1"   -> Return("NoRequest", [d EXCEPT !.clen = 2])
           [] text[1] = "badlen" -> Return("BadRequest", d)
           [] OTHER -> Return(IF \E i \in DOMAIN text : text[i] \in Colon
                              THEN "NoRequest" ELSE "BadRequest", d)

\* parse_body(text), where text started at position from: complete when
\* m_content_length bytes follow m_checked_idx; the byte after the body is
\* overwritten.
ParseBody(d, from) ==
    IF Len(d.buf) < d.clen + d.checked THEN Return("NoRequest", d)
    ELSE Return("GetRequest", IF from + d.clen < Len(d.buf)
                              THEN [d EXCEPT !.buf[from + d.clen + 1] = "NUL"] ELSE d)

\* do_request(): the page in memory, or what stat and open make of a path.
\* Between the two the file may be replaced: the size is not the one of the
\* file that was opened.
Outcome(d, code) == [d EXCEPT !.code = code]
Opened(d, s, a) == [d EXCEPT !.code = "FileRequest", !.sendfile = TRUE,
                             !.size = s, !.actual = a]
DoRequest(d) ==
    IF d.url = "/" THEN { Outcome(d, "FileRequest") }
    ELSE { Outcome(d, e) : e \in {"NoResource", "ForbiddenRequest"} }
         \cup { Opened(d, s, a) : s \in Sizes, a \in Sizes }

\* process_write(code)
ProcessWrite(d) ==
    [d EXCEPT !.linger = d.linger /\ d.code \notin {"BadRequest", "ForbiddenRequest"},
              !.len = IF d.sendfile THEN d.size ELSE PageLen,
              !.off = 0]

\* reset_for_next(): what follows m_start_line stays.  The bug loses it.
ResetEmpty(d) == Fresh
ResetForNext(d) == [Fresh EXCEPT !.buf = SubSeq(d.buf, d.start + 1, Len(d.buf))]
-----------------------------------------------------------------------------
(* deal_read *)

Close ==
    /\ mode' = "closed" /\ c' = Fresh /\ status' = "Ok"

\* prepare_io_read() is about to run.
Parse(d) == mode' = "parse" /\ c' = d /\ status' = "Ok"

Room == BufSize - Len(c.buf)
Taken == IF Len(net) < Room THEN Len(net) ELSE Room

\* read_once() returns false: the buffer was full already, or the stream has
\* ended or broken.  Asked for 0 bytes because the buffer has just filled
\* up, recv returns 0 too, which counts for nothing if bytes came before.
\* The bug takes every 0 for the end.
ReadFailsOnZero == \/ Room = 0
                   \/ peer = "rst"
                   \/ Taken = Room
                   \/ peer = "fin"
ReadFails == \/ Room = 0
             \/ peer = "rst"
             \/ peer = "fin" /\ net = <<>>

\* read_once() takes what fits.  The bug takes everything.
Overrun == [c EXCEPT !.buf = @ \o net]
Filled == [c EXCEPT !.buf = @ \o SubSeq(net, 1, Taken)]

DealRead ==
    /\ mode = "read" /\ (net # <<>> \/ peer # "up")
    /\ IF ReadFails THEN Close /\ net' = net
       ELSE Parse(Filled) /\ net' = SubSeq(net, Taken + 1, Len(net))
    /\ UNCHANGED <<todo, peer, wire, sent, said>>

\* prepare_io_read() returns 0, and deal_read or deal_write arms EPOLLIN.  The
\* bug moves m_start_line past the line that has not ended yet.
IncompleteForgets(d) == mode' = "read" /\ c' = [d EXCEPT !.start = d.checked]
                        /\ status' = "Ok" /\ said' = said
Incomplete(d) == mode' = "read" /\ c' = d /\ status' = "Ok" /\ said' = said

\* It returns 1: the request is submitted.
Found(ret, d) ==
    /\ mode' = "busy" /\ status' = "Ok"
    /\ said' = Append(said, [ret |-> ret, url |-> IF ret = "BadRequest" THEN "" ELSE d.url])
    /\ IF ret = "BadRequest" THEN c' = [d EXCEPT !.code = ret] ELSE c' \in DoRequest(d)

Step(d, text, from) ==
    CASE d.chk = "LINE"   -> ParseRequestLine(d, text)
      [] d.chk = "HEADER" -> ParseHeaders(d, text)
      [] d.chk = "BODY"   -> ParseBody(d, from)

\* One turn of the loop of process_read().
ParseTurn ==
    /\ mode = "parse"
    /\ UNCHANGED <<client, wire>>
    /\ \E l \in { IF c.chk = "BODY" /\ status = "Ok" THEN At("Ok", c, c.checked)
                  ELSE ParseLine(c) } :
       \E r \in { Step([l.c EXCEPT !.start = l.c.checked], Text(l.c), c.start) } :
          IF l.status # "Ok" THEN Incomplete(l.c)
          ELSE IF r.ret = "NoRequest"
          THEN /\ mode' = mode /\ c' = r.c /\ said' = said
               /\ status' = IF c.chk = "BODY" THEN "Open" ELSE "Ok"
          ELSE Found(r.ret, r.c)

\* The worker: run_business_and_prepare_write(), and the loop arms EPOLLOUT.
Business ==
    /\ mode = "busy" /\ mode' = "write"
    /\ c' = ProcessWrite(c)
    /\ UNCHANGED <<client, status, wire, said>>
-----------------------------------------------------------------------------
(* deal_write *)

\* Where the bytes of a response end: a file may be shorter than announced.
Total == HeadLen + c.len
End == IF c.sendfile /\ c.actual < c.len THEN HeadLen + c.actual ELSE Total

\* The n bytes sent from m_write_offset on, where each comes from, and the
\* length the head of its response announces.
Source(i) == IF i < HeadLen THEN [part |-> "head", at |-> i]
             ELSE [part |-> "body", at |-> i - HeadLen]
Bytes(n) == [i \in 1 .. n |-> [of |-> Len(said), from |-> Source(c.off + i - 1),
                               len |-> c.len]]

\* write() returns 2.
WriteMore(n) == mode' = mode /\ c' = [c EXCEPT !.off = @ + n] /\ UNCHANGED status

\* write() returns 1: the next request, what is left of the buffer, or the end.
Finish ==
    IF ~c.linger THEN Close
    ELSE IF ResetForNext(c).buf # <<>> THEN Parse(ResetForNext(c))
    ELSE mode' = "read" /\ c' = ResetForNext(c) /\ UNCHANGED status

\* sendfile returns 0 at the end of a file that is shorter than announced:
\* the errno of some earlier call decides between 0 and 2.  The bug is content.
FinishShort == Finish
EndOfFile == Close \/ WriteMore(0)

\* n bytes fit the send buffer, all of them if it does not fill up.
DealWrite ==
    /\ mode = "write"
    /\ UNCHANGED <<client, said>>
    /\ IF peer = "rst" THEN Close /\ wire' = wire
       ELSE \E n \in {0} \cup 1 .. End - c.off :
              /\ n = 0 => c.off >= End
              /\ wire' = wire \o Bytes(n)
              /\ \/ c.off + n = Total /\ Finish
                 \/ c.off + n # Total /\ n > 0 /\ WriteMore(n)
                 \/ n = 0 /\ EndOfFile

\* Somebody cuts the file that is being sent.
CutFile ==
    /\ mode = "write" /\ c.sendfile /\ c.actual > 0
    /\ c' = [c EXCEPT !.actual = @ - 1]
    /\ UNCHANGED <<status, mode, client, wire, said>>
-----------------------------------------------------------------------------
(* The client *)

Send(n) ==
    /\ peer = "up"
    /\ net' = net \o SubSeq(todo, 1, n)
    /\ sent' = sent \o SubSeq(todo, 1, n)
    /\ todo' = SubSeq(todo, n + 1, Len(todo))
    /\ UNCHANGED <<c, status, mode, peer, wire, said>>

Leave ==
    /\ peer = "up" /\ peer' \in {"fin", "rst"}
    /\ UNCHANGED <<c, status, mode, net, todo, wire, sent, said>>

Init ==
    /\ c = Fresh /\ status = "Ok" /\ mode = "read"
    /\ net = <<>> /\ todo \in Streams /\ peer = "up"
    /\ wire = <<>> /\ sent = <<>> /\ said = <<>>

Server == DealRead \/ ParseTurn \/ Business \/ DealWrite

Next ==
    \/ Server
    \/ CutFile
    \/ \E n \in 1 .. Len(todo) : Send(n)
    \/ Leave

Spec == Init /\ [][Next]_vars

\* The threads of the server run, and the client reads what it is sent, so
\* that a send buffer empties.  Nothing is assumed about what it sends.
FairSpec == Spec /\ WF_vars(Server)
=============================================================================
