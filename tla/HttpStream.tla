----------------------------- MODULE HttpStream -----------------------------
(***************************************************************************)
(* What HttpConn should make of a byte stream, defined on the stream as a  *)
(* whole: which requests it holds, whatever the pieces it arrives in, and  *)
(* which bytes the client gets back.                                       *)
(***************************************************************************)
EXTENDS HttpConn, SequencesExt

\* Positions of s that end a line, and those of a CR or LF on its own.
LineEnds(s) == { n \in 2 .. Len(s) : s[n - 1] = "CR" /\ s[n] = "LF" }
Strays(s) ==
    { n \in DOMAIN s : \/ s[n] = "LF" /\ (n = 1 \/ s[n - 1] # "CR")
                       \/ s[n] = "CR" /\ n < Len(s) /\ s[n + 1] # "LF" }

\* What a line says: the C string it is, up to the first NUL.
CString(l) ==
    SubSeq(l, 1, Min({ k - 1 : k \in { k \in DOMAIN l : l[k] = "NUL" } } \cup {Len(l)}))
IsHeader(l, name) == l # <<>> /\ l[1] = name

\* The head of a request that starts after position i of s: its lines, the
\* line that decides about it, and what it decides.
Ends(s, i) == { n \in LineEnds(s) : n > i }
LineStart(s, i, n) == Max({i} \cup { m \in Ends(s, i) : m < n })
Line(s, i, n) == CString(SubSeq(s, LineStart(s, i, n) + 1, n - 2))
RequestLine(s, i) == Line(s, i, Min(Ends(s, i)))
Has(s, i, n, name) == \E m \in Ends(s, i) : m < n /\ IsHeader(Line(s, i, m), name)
Wrong(s, i, n) ==
    LET l == Line(s, i, n) IN
    IF n = Min(Ends(s, i)) THEN ~Valid(l)
    ELSE IF l = <<>> THEN /\ RequestLine(s, i) \in {<<"file11">>, <<"root11">>}
                          /\ ~Has(s, i, n, "host")
    ELSE l[1] = "badlen" \/ ~\E k \in DOMAIN l : l[k] \in Colon
Deciding(s, i) ==
    { n \in Ends(s, i) : Wrong(s, i, n) \/ Line(s, i, n) = <<>> }
BodyLen(s, i, n) == IF Has(s, i, n, "len1") THEN 2 ELSE 0

\* The request after position i, if s holds all of it with the right line
\* endings, and where it ends.
Complete(s, i) ==
    /\ Deciding(s, i) # {}
    /\ LET n == Min(Deciding(s, i)) IN
       /\ \A m \in Strays(s) : m <= i \/ n < m
       /\ Wrong(s, i, n) \/ n + BodyLen(s, i, n) <= Len(s)
RequestAfter(s, i) ==
    LET n == Min(Deciding(s, i))
    IN  IF Wrong(s, i, n)
        THEN [ret |-> "BadRequest", url |-> "", to |-> n]
        ELSE [ret |-> "GetRequest", url |-> RequestLines[RequestLine(s, i)[1]].url,
              to |-> n + BodyLen(s, i, n)]

\* The requests of s up to the first malformed one.
Parsed(s) ==
    LET From[i \in 0 .. Len(s)] ==
            IF ~Complete(s, i) THEN <<>>
            ELSE IF RequestAfter(s, i).ret = "BadRequest" THEN <<RequestAfter(s, i)>>
            ELSE <<RequestAfter(s, i)>> \o From[RequestAfter(s, i).to]
    IN  From[0]

\* Parsed for everything that may have been sent.
ParsedOf == [s \in UNION { Prefixes(t) : t \in Streams } |-> Parsed(s)]
Requests == ParsedOf[sent]

\* Where the request after the first k ends, and where it begins.
EndOf(k) == IF k = 0 THEN 0 ELSE Requests[k].to
NextFits(k) == Len(Requests) > k /\ EndOf(k + 1) - EndOf(k) <= BufSize

\* A stream of requests without bodies, all lines of which end in CR LF.
HasBody(s) == \E i \in DOMAIN s : s[i] = "len1"
Plain(s) == ~HasBody(s) /\ Strays(s) = {}

-----------------------------------------------------------------------------
Token == {"CR", "LF", "NUL", "x", "junk"} \cup DOMAIN RequestLines \cup Colon
ASSUME StreamsAssumption == Streams \subseteq Seq(Token)

Conn == [buf : Seq(Token), checked : Nat, start : Nat,
         chk : {"LINE", "HEADER", "BODY"}, url : {"", "file", "/"},
         v11 : BOOLEAN, host : BOOLEAN, linger : BOOLEAN, clen : {0, 2},
         code : {"NoRequest", "BadRequest", "NoResource",
                 "ForbiddenRequest", "FileRequest"},
         sendfile : BOOLEAN, size : Nat, actual : Nat, len : Nat, off : Nat]
Ordered(d) ==
    d.start <= d.checked /\ d.checked <= Len(d.buf) /\ Len(d.buf) <= BufSize

\* Every variable has its type, the positions are in order and the buffer
\* holds no more than READ_BUFFER_SIZE bytes.
TypeOK ==
    /\ c \in Conn /\ Ordered(c)
    /\ status \in {"Ok", "Open"}
    /\ mode \in {"read", "parse", "busy", "write", "closed"}
    /\ peer \in {"up", "fin", "rst"}
    /\ net \in Seq(Token) /\ todo \in Seq(Token) /\ sent \in Seq(Token)
    /\ said \in Seq([ret : {"BadRequest", "GetRequest"}, url : {"", "file", "/"}])

\* The requests found are those of the stream, in order, however it is cut
\* into pieces, and once everything is read none is left unnoticed
\* (http_conn.h:57: 0 when the request is incomplete, 1 when it is complete).
FoundAsSent ==
    LET k == Len(said) IN
    /\ k <= Len(Requests)
    /\ \A i \in 1 .. k : /\ said[i].ret = Requests[i].ret
                         /\ said[i].url = Requests[i].url
    /\ mode = "read" /\ net = <<>> => k = Len(Requests)

\* The same for plain streams.
FoundIfPlain == Plain(sent) => FoundAsSent

Place(u) == IF u.from.part = "head" THEN u.from.at ELSE HeadLen + u.from.at
Final(u) == Place(u) + 1 = HeadLen + u.len

\* What the client gets are whole responses one after the other, and the
\* beginning of the one that is being sent, each with as many bytes as its
\* head announces, even when its file has become shorter: on a connection that
\* is kept alive the client always finds the next response (write,
\* reset_for_next, process_write).
Framed ==
    \A i \in DOMAIN wire :
        IF i = 1 THEN wire[i].of = 1 /\ Place(wire[i]) = 0
        ELSE IF Final(wire[i - 1])
        THEN wire[i].of = wire[i - 1].of + 1 /\ Place(wire[i]) = 0
        ELSE /\ wire[i].of = wire[i - 1].of
             /\ Place(wire[i]) = Place(wire[i - 1]) + 1

\* The reader hangs up only when the client has, with every complete request
\* it sent found before, or when a request does not fit the buffer: neither
\* a FIN that comes with data nor a buffer that is exactly full counts as the
\* end (http_conn.cpp:100, 118-127).
HangsUpOnlyWhenDue ==
    [][mode = "read" /\ mode' = "closed" /\ Plain(sent) =>
          \/ peer = "rst"
          \/ peer = "fin" /\ Len(said) = Len(Requests)
          \/ Len(sent) - EndOf(Len(said)) >= BufSize /\ ~NextFits(Len(said))]_vars

Answered(k) == \E i \in DOMAIN wire : wire[i].of = k /\ Final(wire[i])
Short == c.sendfile /\ c.actual < c.len

\* Every complete request is answered in the end, pipelined ones that wait in
\* the buffer included, unless the connection is closed or a file has become
\* too short for its answer.
EveryRequestAnswered ==
    \A k \in 1 .. 3 :
        Len(Requests) >= k /\ Plain(sent)
            ~> Answered(k) \/ mode = "closed" \/ Short \/ ~Plain(sent)
=============================================================================
