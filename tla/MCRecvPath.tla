----------------------------- MODULE MCRecvPath -----------------------------
(***************************************************************************)
(* The two ways to read: packets (RecvPath) and HTTP (HttpConn).  They     *)
(* share no state; a behaviour is of one of them, the other stays in a     *)
(* state that nothing happens in.                                          *)
(*                                                                         *)
(* Bytes of packets are pairs of numbers; Junk is none of a packet.  With  *)
(* numbers in base 3 and 4 and a content_length of at most 15, three       *)
(* digits overflow.                                                        *)
(***************************************************************************)
EXTENDS RecvPath, HttpConn

CONSTANTS h1, h2

NoByte == <<0, 0>>

Crlf == <<"CR", "LF">>
Header(name, value) == <<name, ":", "SP">> \o value
Request(method, url, version, eol, headers, rest) ==
  <<method, "SP">> \o url \o <<"SP", version>> \o eol
    \o FlattenSeq([i \in 1..Len(headers) |-> headers[i] \o eol]) \o eol \o rest

Script(request, trail, reply, url, body) ==
  [text |-> request \o trail, valid |-> TRUE, whole |-> Len(request),
   want |-> [reply |-> reply, url |-> url, body |-> body]]

SlashX == <<"/", "x">>

\* content-length, a "close" that lets line ends follow, chunks with a parameter
\* and a trailer, both lengths at once, CONNECT and Upgrade that leave the rest
\* to another protocol, bare line feeds, HTTP/0.9, an absolute URL, a query, a
\* folded header, and a URL nobody handles.
Post == Request("POST", SlashX, "HTTP/1.1", Crlf, <<Header("content-length", <<"0", "2">>)>>, <<"x", "LF">>)
Chunked == Request("POST", SlashX, "HTTP/1.1", Crlf, <<Header("transfer-encoding", <<"chunked">>)>>,
             <<"2">> \o Crlf \o <<"x", "0">> \o Crlf \o <<"1", ";", "x">> \o Crlf \o <<"1">> \o Crlf
               \o <<"0">> \o Crlf \o Header("x", <<"x">>) \o Crlf \o Crlf)

Valid == {
  Script(Request("GET", SlashX, "HTTP/1.1", Crlf, <<>>, <<>>), <<>>, "handler", SlashX, <<>>),
  Script(Post, <<>>, "handler", SlashX, <<"x", "LF">>),
  Script(Request("POST", SlashX, "HTTP/1.0", Crlf, <<Header("content-length", <<"1">>)>>, <<"x">>),
         Crlf, "handler", SlashX, <<"x">>),
  Script(Request("GET", SlashX \o <<"?", "x">>, "HTTP/1.1", Crlf, <<Header("connection", <<"close">>)>>, <<>>),
         <<"GET", "SP", "/">>, "handler", SlashX \o <<"?", "x">>, <<>>),
  Script(Chunked, <<>>, "handler", SlashX, <<"x", "0", "1">>),
  Script(Request("POST", SlashX, "HTTP/1.1", Crlf,
           <<Header("transfer-encoding", <<"chunked">>), Header("content-length", <<"0">>)>>,
           <<"1">> \o Crlf \o <<"x">> \o Crlf \o <<"0">> \o Crlf \o Crlf),
         <<>>, "handler", SlashX, <<"x">>),
  Script(Request("CONNECT", <<"x", ":", "1">>, "HTTP/1.1", Crlf, <<>>, <<>>),
         <<"GET", "SP", "/">>, "404", <<"x", ":", "1">>, <<>>),
  Script(Request("GET", SlashX, "HTTP/1.1", Crlf, <<Header("upgrade", <<"x">>), Header("content-length", <<"1">>)>>, <<>>),
         <<"x">>, "handler", SlashX, <<>>),
  Script(Request("POST", SlashX, "HTTP/1.1", <<"LF">>, <<Header("content-length", <<"1", "SP">>)>>, <<"x">>),
         <<>>, "handler", SlashX, <<"x">>),
  Script(<<"GET", "SP">> \o SlashX \o Crlf \o Header("connection", <<"keep-alive">>) \o Crlf \o Crlf,
         <<>>, "handler", SlashX, <<>>),
  Script(Crlf \o Request("GET", <<"x", ":", "/", "/", "x", "@", "x", "/", "#", "x">>, "HTTP/1.1", Crlf,
           <<Header("connection", <<"CR", "LF", "SP", "close">>), Header("content-length", <<"0">>)>>, <<>>),
         Crlf, "404", <<"x", ":", "/", "/", "x", "@", "x", "/", "#", "x">>, <<>>)}

\* Each of these has one symbol that makes the request malformed wherever it is cut.
Rigid(text, i) ==
  \/ text[i] \in Methods \cup Versions \cup Names
  \/ text[i] = "LF" /\ i > 1 /\ text[i - 1] = "CR"
Malformed(text) == [text |-> text, valid |-> FALSE, whole |-> 0, want |-> <<>>]
Mangled == {Malformed([Chunked EXCEPT ![i] = "BAD"]) : i \in {i \in 1..Len(Chunked) : Rigid(Chunked, i)}}

\* Overflowing numbers, a chunk longer than it says, a number that is none, a
\* header longer than the parser allows.
Invalid == Mangled \cup {
  Malformed(Request("POST", SlashX, "HTTP/1.1", Crlf, <<Header("content-length", <<n, "2", "1">>)>>, <<"x", "x">>)) :
    n \in {"1", "x"}}
  \cup {
  Malformed(Request("POST", SlashX, "HTTP/1.1", Crlf, <<Header("transfer-encoding", <<"chunked">>)>>,
    size \o Crlf \o <<"x", "x">> \o Crlf)) : size \in {<<"1">>, <<"x">>, <<"1", "0", "0">>}}
  \cup {
  Malformed(Request("GET", SlashX, "HTTP/1.1", Crlf, <<Header("x", [i \in 1..30 |-> "x"])>>, <<>>))}

MCScripts == h1 :> (Valid \cup Invalid)
  @@ h2 :> {Script(Request("GET", <<"/">>, "HTTP/1.1", Crlf, <<>>, <<>>), <<>>, "404", <<"/">>, <<>>)}

MCPieces == h1 :> 2 @@ h2 :> 1
HandlerUrls == {SlashX}

\* Which of the two a behaviour is of.
VARIABLE part

Idle ==
  \/ part = "packets" /\ script = [c \in HttpConns |-> CHOOSE s \in Scripts[c] : TRUE]
  \/ part = "http"

MCInit == RecvInit /\ HttpInit /\ part \in {"packets", "http"} /\ Idle

MCNext ==
  \/ part = "packets" /\ RecvNext /\ UNCHANGED <<httpVars, part>>
  \/ part = "http" /\ HttpNext /\ UNCHANGED <<recvVars, part>>

\* The loop handles events; what was sent arrives (RecvFairSpec).
MCSpec ==
  /\ MCInit /\ [][MCNext]_<<recvVars, httpVars, part>>
  /\ WF_recvVars(ReadStep) /\ WF_recvVars(KernelGets)
=============================================================================
