----------------------------- MODULE MCHttpConn -----------------------------
(***************************************************************************)
(* Instances of HttpConn for TLC: the streams a client may send.           *)
(***************************************************************************)
EXTENDS HttpStream

L(t) == <<t, "CR", "LF">>
Blank == <<"CR", "LF">>
Ask(line, headers) == L(line) \o FoldLeft(LAMBDA s, h : s \o L(h), <<>>, headers) \o Blank

MCStreams == {
    \* a pipeline of three, the last of which closes
    Ask("file11", <<"host">>) \o Ask("root11", <<"host">>) \o Ask("file10", <<>>),
    \* HTTP/1.0 kept alive, then a request that lacks its Host header
    Ask("file10", <<"alive">>) \o Ask("root11", <<>>),
    \* a request that exactly fits the buffer, then one that does not
    Ask("root11", <<"host", "len0", "other">>) \o Ask("root11", <<"host", "other", "alive", "close">>),
    \* a malformed request behind a good one
    Ask("root11", <<"host">>) \o Ask("root11", <<"badlen">>),
    Ask("root10", <<"alive">>) \o L("junk"),
    \* a body, and a request behind it
    Ask("root11", <<"host", "len1">>) \o <<"x", "x">> \o Ask("root10", <<>>) }

MCBodies == { Ask("root11", <<"host", "len1">>) \o <<"x", "x">> \o Ask("root10", <<>>) }
=============================================================================
