------------------------------ MODULE HttpConn ------------------------------
(***************************************************************************)
(* HttpConn: every read parses all that has come so far with the one       *)
(* HttpParserWrapper of the IO thread, and a whole request goes to the     *)
(* handler of its URL, or is answered with 404.  One request is expected   *)
(* on a connection; its bytes come in any pieces, and those of the thread's *)
(* other connections between them.                                         *)
(*                                                                         *)
(* Reading to EAGAIN, parsing and the handler are one step: bytes that come *)
(* meanwhile raise an edge of their own (RecvPath has them).               *)
(*                                                                         *)
(* As in ConnLifecycle, a definition named ...Faulty is a mutant of the    *)
(* one below it.                                                           *)
(***************************************************************************)
EXTENDS HttpParser

CONSTANTS
  HttpConns,  \* connections of one IO thread
  Scripts,    \* for each, what its client may send; see ScriptOK
  Handlers,   \* the keys of HttpHandlerMap
  MaxPieces   \* bound, for each: pieces in which its client's bytes arrive

\* A script: the symbols, and when they begin with a whole request how long it
\* is and what it must come to: the reply, the URL and the body.
ScriptOK(s) ==
  /\ s.text \in Seq(Symbols) /\ s.valid \in BOOLEAN
  /\ s.valid => s.whole \in 1..Len(s.text)

ASSUME HttpAssumption ==
  /\ \A c \in HttpConns : \A s \in Scripts[c] : ScriptOK(s)
  /\ MaxPieces \in [HttpConns -> Nat]

VARIABLES
  script,   \* what the client of each connection sends
  arrived,  \* how many of its symbols the kernel has got
  pieces,   \* in how many pieces
  ended,    \* the client's FIN has come
  ready,    \* an event of the socket is pending in epoll
  inLen,    \* GetWriteOffset of m_in_buf: the symbols read
  isOpen,   \* the connection is not closed
  wrapper,  \* the thread's HttpParserWrapper
  calls     \* history: the requests acted on, [reply, url, body]

httpVars == <<script, arrived, pieces, ended, ready, inLen, isOpen, wrapper, calls>>
clientVars == <<script, arrived, pieces, ended>>

HttpInit ==
  /\ script \in {f \in [HttpConns -> UNION {Scripts[c] : c \in HttpConns}] :
                   \A c \in HttpConns : f[c] \in Scripts[c]}
  /\ arrived = [c \in HttpConns |-> 0] /\ pieces = [c \in HttpConns |-> 0]
  /\ ended = [c \in HttpConns |-> FALSE] /\ ready = [c \in HttpConns |-> FALSE]
  /\ inLen = [c \in HttpConns |-> 0] /\ isOpen = [c \in HttpConns |-> TRUE]
  /\ wrapper = Fresh
  /\ calls = [c \in HttpConns |-> <<>>]

-----------------------------------------------------------------------------
(***************************************************************************)
(* The client and the kernel.                                              *)
(***************************************************************************)

\* The last piece brings the rest.
Arrive(c) ==
  /\ isOpen[c] /\ ~ended[c] /\ pieces[c] < MaxPieces[c]
  /\ \E n \in (arrived[c] + 1)..Len(script[c].text) :
       /\ pieces[c] + 1 = MaxPieces[c] => n = Len(script[c].text)
       /\ arrived' = [arrived EXCEPT ![c] = n]
  /\ pieces' = [pieces EXCEPT ![c] = @ + 1]
  /\ ready' = [ready EXCEPT ![c] = TRUE]
  /\ UNCHANGED <<script, ended, inLen, isOpen, wrapper, calls>>

\* The client closes, maybe in the middle of its request.
ClientEnds(c) ==
  /\ isOpen[c] /\ ~ended[c]
  /\ ended' = [ended EXCEPT ![c] = TRUE] /\ ready' = [ready EXCEPT ![c] = TRUE]
  /\ UNCHANGED <<script, arrived, pieces, inLen, isOpen, wrapper, calls>>

-----------------------------------------------------------------------------
(***************************************************************************)
(* The IO thread.                                                          *)
(***************************************************************************)

\* The URL up to its '?'.
HandlerUrl(url) ==
  LET ends == {i \in 1..Len(url) : url[i] = "?"}
  IN  IF ends = {} THEN url ELSE SubSeq(url, 1, (CHOOSE i \in ends : \A j \in ends : i <= j) - 1)

\* ParseHttpContent as it would be without m_url.clear().
ParseContentFaulty(buf) == LET p == Parse(buf) IN [p EXCEPT !.url = wrapper.url \o @]
ParseContent(buf) == Parse(buf)

Reply(w) == IF HandlerUrl(w.url) \in Handlers THEN "handler" ELSE "404"

\* GetBuffer() of m_in_buf once the bytes are read, and as it would be if what
\* was parsed before were taken out.
InBufferFaulty(c) == SubSeq(script[c].text, inLen[c] + 1, arrived[c])
InBuffer(c) == SubSeq(script[c].text, 1, arrived[c])

\* FIONREAD; without bytes OnClose is called and not OnRead.
AvailableFaulty(c) == TRUE
Available(c) == inLen[c] < arrived[c]

\* The socket is closed at once by the answer 404, by the handler if it has
\* answered, and behind OnRead if recv() returned 0.
OnReadHttp(c, keeps) ==
  /\ isOpen[c] /\ ready[c] /\ Available(c)
  /\ inLen' = [inLen EXCEPT ![c] = arrived[c]]
  /\ ready' = [ready EXCEPT ![c] = FALSE]
  /\ wrapper' = ParseContent(InBuffer(c))
  /\ IF wrapper'.readAll
     THEN LET reply == Reply(wrapper')
          IN  /\ calls' = [calls EXCEPT ![c] = Append(@,
                   [reply |-> reply, url |-> wrapper'.url, body |-> wrapper'.body])]
              /\ isOpen' = [isOpen EXCEPT ![c] = reply = "handler" /\ keeps /\ ~ended[c]]
     ELSE /\ isOpen' = [isOpen EXCEPT ![c] = ~ended[c]]
          /\ UNCHANGED calls
  /\ UNCHANGED clientVars

OnEof(c) ==
  /\ isOpen[c] /\ ready[c] /\ ended[c] /\ ~Available(c)
  /\ isOpen' = [isOpen EXCEPT ![c] = FALSE] /\ ready' = [ready EXCEPT ![c] = FALSE]
  /\ UNCHANGED <<clientVars, inLen, wrapper, calls>>

\* A handler that kept the connection answers and closes it.
AnswerLater(c) ==
  /\ isOpen[c] /\ calls[c] # <<>>
  /\ isOpen' = [isOpen EXCEPT ![c] = FALSE]
  /\ UNCHANGED <<clientVars, ready, inLen, wrapper, calls>>

ReadEvent(c) == (\E keeps \in BOOLEAN : OnReadHttp(c, keeps)) \/ OnEof(c)

HttpNext ==
  \E c \in HttpConns : Arrive(c) \/ ClientEnds(c) \/ ReadEvent(c) \/ AnswerLater(c)

HttpSpec == HttpInit /\ [][HttpNext]_httpVars

-----------------------------------------------------------------------------
(***************************************************************************)
(* Properties.                                                             *)
(***************************************************************************)

\* A handler sees the URL and the body that its own client sent, however the
\* bytes are cut and whatever other connections put through the parser they
\* share; never before the request is whole, and never for a malformed one.
RequestExact ==
  \A c \in HttpConns : calls[c] # <<>> =>
    /\ script[c].valid /\ arrived[c] >= script[c].whole
    /\ \A k \in 1..Len(calls[c]) : calls[c][k] = script[c].want

\* A client that sends one request and nothing after it has it acted on once,
\* also when the handler keeps the connection and the FIN comes while it does.
ActedOnce ==
  \A c \in HttpConns :
    Len(calls[c]) > 1 => script[c].valid /\ script[c].whole < Len(script[c].text)

\* The asserts of the parser hold for every buffer it is given.
ParserAsserts == wrapper.asserts

\* A whole request is acted on as soon as its last byte has been read, what has
\* come is announced by an event, and the FIN closes no connection whose
\* request came before it.
RequestServed ==
  \A c \in HttpConns :
    /\ script[c].valid /\ inLen[c] >= script[c].whole => calls[c] # <<>>
    /\ isOpen[c] /\ inLen[c] < arrived[c] => ready[c]
    /\ ~isOpen[c] /\ calls[c] = <<>> => inLen[c] = arrived[c]
=============================================================================
