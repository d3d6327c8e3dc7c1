----------------------------- MODULE HttpParser -----------------------------
(***************************************************************************)
(* http_parser_execute for requests, in the strict mode it is built in,    *)
(* and the callbacks of HttpParserWrapper: what a buffer that is parsed    *)
(* from its first byte gives as URL, body and "read all".                  *)
(*                                                                         *)
(* A symbol is a byte, or one of the words the parser compares byte by     *)
(* byte: a method, a version, the name or the value of a header it knows.  *)
(* Every symbol counts as one byte.  The field header_state is kept after  *)
(* the words only, and nothing else of a header: its callbacks do nothing. *)
(***************************************************************************)
EXTENDS Integers, Sequences

CONSTANTS
  ULLongMax,      \* the greatest content_length
  MaxHeaderSize,  \* HTTP_MAX_HEADER_SIZE
  Dec, Hex        \* the bases 10 and 16

ASSUME ParserAssumption ==
  /\ ULLongMax \in Nat /\ ULLongMax > 2 /\ MaxHeaderSize \in Nat
  /\ Dec \in Nat /\ Hex \in Nat /\ Dec > 2 /\ Hex > 2

Methods  == {"GET", "POST", "CONNECT"}
Versions == {"HTTP/1.0", "HTTP/1.1"}
Names    == {"connection", "content-length", "transfer-encoding", "upgrade"}
Values   == {"chunked", "keep-alive", "close"}
Digits   == {"0", "1", "2"}
Alpha    == {"x"} \cup Methods \cup {"connection", "upgrade", "chunked", "close"}
Token    == Alpha \cup Names \cup Values \cup Digits
UrlChar  == Token \cup Versions \cup {"/", ":", "@", ";"}

\* "BAD" is a control byte.
Symbols == UrlChar \cup {"?", "#", "SP", "CR", "LF", "BAD"}

Value(d) == CASE d = "0" -> 0 [] d = "1" -> 1 [] d = "2" -> 2

-----------------------------------------------------------------------------
(***************************************************************************)
(* The parser and the wrapper around it.                                   *)
(***************************************************************************)

\* http_parser_init, and ParseHttpContent before it calls execute.
Fresh ==
  [state |-> "start_req", method |-> "", v11 |-> FALSE, flags |-> {},
   hstate |-> "general", clen |-> 0, nread |-> 0, stopped |-> FALSE,
   urlMark |-> 0, bodyMark |-> 0,
   url |-> <<>>, body |-> <<>>, readAll |-> FALSE, asserts |-> TRUE]

Go(p, s) == [p EXCEPT !.state = s]

\* SET_ERRNO and goto error: what is marked is not handed over.
Fail(p) == [p EXCEPT !.stopped = TRUE, !.urlMark = 0, !.bodyMark = 0]

GoIf(ok, p, s) == IF ok THEN Go(p, s) ELSE Fail(p)

\* assert(cond)
Asserting(p, cond) == [p EXCEPT !.asserts = @ /\ cond]

\* CALLBACK_DATA: the bytes from the mark to before "to".
CallUrl(p, buf, to) ==
  IF p.urlMark = 0 THEN p
  ELSE [p EXCEPT !.url = @ \o SubSeq(buf, p.urlMark, to - 1), !.urlMark = 0]
CallBody(p, buf, to) ==
  IF p.bodyMark = 0 THEN p
  ELSE [p EXCEPT !.body = @ \o SubSeq(buf, p.bodyMark, to - 1), !.bodyMark = 0]

MarkUrl(p, i) == IF p.urlMark = 0 THEN [p EXCEPT !.urlMark = i] ELSE p
MarkBody(p, i) == IF p.bodyMark = 0 THEN [p EXCEPT !.bodyMark = i] ELSE p

KeepAlive(p) == IF p.v11 THEN "close" \notin p.flags ELSE "keep-alive" \in p.flags

\* NEW_MESSAGE and on_message_complete.
MessageComplete(p) ==
  [p EXCEPT !.state = IF KeepAlive(p) THEN "start_req" ELSE "dead", !.readAll = TRUE]

-----------------------------------------------------------------------------
(***************************************************************************)
(* The request line.                                                       *)
(***************************************************************************)

\* After a message that closes the connection only line ends may follow.
Dead(p, c) == IF c \in {"CR", "LF"} THEN p ELSE Fail(p)

StartReq(p, c) ==
  IF c \in {"CR", "LF"} THEN p
  ELSE GoIf(c \in Methods,
            [p EXCEPT !.flags = {}, !.clen = ULLongMax, !.method = c], "req_method")

\* The symbols that lead from a state of the URL to another.
SchemaEdges ==
  {<<"spaces_before_url", {"/"}, "path">>, <<"spaces_before_url", Alpha, "schema">>,
   <<"schema", Alpha, "schema">>, <<"schema", {":"}, "schema_slash">>,
   <<"schema_slash", {"/"}, "schema_slash_slash">>,
   <<"schema_slash_slash", {"/"}, "server_start">>}
ServerEdges(s) ==
  {<<s, {"/"}, "path">>, <<s, {"?"}, "query_start">>,
   <<s, Token \cup {":", ";"}, "server">>}
AtEdges == {<<"server_start", {"@"}, "server_with_at">>, <<"server", {"@"}, "server_with_at">>}
PathEdges ==
  {<<"path", UrlChar, "path">>, <<"path", {"?"}, "query_start">>,
   <<"path", {"#"}, "fragment_start">>}
QueryEdges(s) == {<<s, UrlChar \cup {"?"}, "query">>, <<s, {"#"}, "fragment_start">>}
FragmentEdges ==
  {<<"fragment_start", UrlChar \cup {"?"}, "fragment">>,
   <<"fragment_start", {"#"}, "fragment_start">>,
   <<"fragment", UrlChar \cup {"?", "#"}, "fragment">>}
UrlEdges ==
  SchemaEdges \cup AtEdges \cup PathEdges \cup FragmentEdges
    \cup ServerEdges("server_start") \cup ServerEdges("server") \cup ServerEdges("server_with_at")
    \cup QueryEdges("query_start") \cup QueryEdges("query")

UrlNext(s, c) == {e[3] : e \in {e \in UrlEdges : e[1] = s /\ c \in e[2]}}

\* parse_url_char
ParseUrlChar(p, c) ==
  LET next == UrlNext(p.state, c)
  IN  IF next = {} THEN Fail(p) ELSE Go(p, CHOOSE s \in next : TRUE)

SpacesBeforeUrl(p, i, c) ==
  IF c = "SP" THEN p
  ELSE LET q == MarkUrl(p, i)
       IN  ParseUrlChar(IF p.method = "CONNECT" THEN Go(q, "server_start") ELSE q, c)

\* States in which a URL cannot end, and those in which it can.
UrlOpen == {"schema", "schema_slash", "schema_slash_slash", "server_start"}
UrlDone == {"server", "server_with_at", "path", "query_start", "query",
            "fragment_start", "fragment"}

UrlEnd(p, buf, i, c) ==
  CASE c = "SP" -> CallUrl(Go(p, "http_start"), buf, i)
    [] c = "CR" -> CallUrl(Go([p EXCEPT !.v11 = FALSE], "line_almost_done"), buf, i)
    [] c = "LF" -> CallUrl(Go([p EXCEPT !.v11 = FALSE], "header_field_start"), buf, i)
    [] OTHER    -> ParseUrlChar(p, c)

HttpStart(p, c) ==
  IF c = "SP" THEN p
  ELSE GoIf(c \in Versions, [p EXCEPT !.v11 = (c = "HTTP/1.1")], "http_minor")

HttpMinor(p, c) ==
  CASE c = "CR" -> Go(p, "line_almost_done")
    [] c = "LF" -> Go(p, "header_field_start")
    [] c \in Digits -> [p EXCEPT !.v11 = @ \/ c # "0"]
    [] OTHER    -> Fail(p)

LineAlmostDone(p, c) == GoIf(c = "LF", p, "header_field_start")

-----------------------------------------------------------------------------
(***************************************************************************)
(* The headers.  A state that ends at a byte which belongs to the next     *)
(* state hands the byte on (goto reexecute_byte).                          *)
(***************************************************************************)

\* What follows the blank line.
HeadersDoneFaulty(p) ==
  LET q == [p EXCEPT !.nread = 0]
  IN  IF "upgrade" \in p.flags \/ p.method = "CONNECT"
      THEN [MessageComplete(q) EXCEPT !.stopped = TRUE]
      ELSE IF "chunked" \in p.flags THEN Go(q, "chunk_size_start")
      ELSE IF p.clen = ULLongMax THEN MessageComplete(q) ELSE Go(q, "body_identity")
HeadersDone(p) ==
  LET q == [p EXCEPT !.nread = 0]
  IN  IF "upgrade" \in p.flags \/ p.method = "CONNECT"
      THEN [MessageComplete(q) EXCEPT !.stopped = TRUE]
      ELSE IF "chunked" \in p.flags THEN Go(q, "chunk_size_start")
      ELSE IF p.clen \in {0, ULLongMax} THEN MessageComplete(q) ELSE Go(q, "body_identity")

\* The blank line after the headers, or after the trailer of the last chunk.
HeadersAlmostDone(p, c) ==
  IF c # "LF" THEN Fail(p)
  ELSE IF "trailing" \in p.flags THEN MessageComplete(p) ELSE HeadersDone(p)

HeaderFieldStart(p, c) ==
  CASE c = "CR" -> Go(p, "headers_almost_done")
    [] c = "LF" -> HeadersAlmostDone(p, c)
    [] OTHER -> GoIf(c \in Token,
                     [p EXCEPT !.hstate = IF c \in Names THEN c ELSE "general"], "header_field")

HeaderField(p, c) ==
  CASE c \in Token -> [p EXCEPT !.hstate = "general"]
    [] c = ":"  -> Go(p, "header_value_start")
    [] c = "CR" -> Go(p, "header_almost_done")
    [] c = "LF" -> Go(p, "header_field_start")
    [] OTHER    -> Fail(p)

HeaderValueStart(p, c) ==
  LET q == Go(p, "header_value")
      general == [q EXCEPT !.hstate = "general"]
  IN  CASE c = "SP" -> p
        [] c = "CR" -> Go(general, "header_almost_done")
        [] c = "LF" -> Go(p, "header_field_start")
        [] c \notin {"SP", "CR", "LF"} /\ p.hstate = "content-length" ->
             IF c \in Digits THEN [q EXCEPT !.clen = Value(c)] ELSE Fail(p)
        [] c \notin {"SP", "CR", "LF"} /\ p.hstate = "upgrade" ->
             [general EXCEPT !.flags = @ \cup {"upgrade"}]
        [] \/ p.hstate = "transfer-encoding" /\ c = "chunked"
           \/ p.hstate = "connection" /\ c \in {"keep-alive", "close"} ->
             [q EXCEPT !.hstate = c]
        [] OTHER -> general

\* A digit more: t *= base; t += digit; and the test for an overflow.
Appended(p, base, d) == (p.clen * base + Value(d)) % (ULLongMax + 1)
Overflow(p, t) == t < p.clen \/ t = ULLongMax
Digit(p, base, d) ==
  LET t == Appended(p, base, d)
  IN  IF Overflow(p, t) THEN Fail(p) ELSE [p EXCEPT !.clen = t]

HeaderAlmostDone(p, c) ==
  GoIf(c = "LF",
       [p EXCEPT !.flags = @ \cup ({p.hstate} \cap Values)], "header_value_lws")

HeaderValue(p, c) ==
  CASE c = "CR" -> Go(p, "header_almost_done")
    [] c = "LF" -> HeaderAlmostDone(p, c)
    [] c \notin {"CR", "LF"} /\ p.hstate = "content-length" ->
         IF c = "SP" THEN p ELSE IF c \in Digits THEN Digit(p, Dec, c) ELSE Fail(p)
    [] c = "SP" /\ p.hstate \in Values -> p
    [] OTHER -> Asserting([p EXCEPT !.hstate = "general"],
                          p.hstate \notin {"connection", "transfer-encoding"})

HeaderValueLws(p, c) ==
  IF c = "SP" THEN Go(p, "header_value_start") ELSE HeaderFieldStart(p, c)

-----------------------------------------------------------------------------
(***************************************************************************)
(* The body: content_length counts down, here a byte at a time.            *)
(***************************************************************************)

TakeByte(p, i) ==
  Asserting([MarkBody(p, i) EXCEPT !.clen = @ - 1], p.clen \notin {0, ULLongMax})

BodyIdentity(p, buf, i) ==
  LET q == TakeByte(p, i)
  IN  IF q.clen = 0 THEN MessageComplete(CallBody(q, buf, i + 1)) ELSE q

ChunkSizeStart(p, c) ==
  GoIf(c \in Digits,
       Asserting(IF c \in Digits THEN [p EXCEPT !.clen = Value(c)] ELSE p, p.nread = 1),
       "chunk_size")

ChunkSize(p, c) ==
  CASE c = "CR" -> Go(p, "chunk_size_almost_done")
    [] c \in {";", "SP"} -> Go(p, "chunk_parameters")
    [] c \in Digits -> Digit(p, Hex, c)
    [] OTHER -> Fail(p)

ChunkParameters(p, c) == IF c = "CR" THEN Go(p, "chunk_size_almost_done") ELSE p

ChunkSizeAlmostDone(p, c) ==
  LET q == [p EXCEPT !.nread = 0]
  IN  IF c # "LF" THEN Fail(p)
      ELSE IF p.clen = 0
      THEN Go([q EXCEPT !.flags = @ \cup {"trailing"}], "header_field_start")
      ELSE Go(q, "chunk_data")

ChunkData(p, i) ==
  LET q == TakeByte(p, i)
  IN  IF q.clen = 0 THEN Go(q, "chunk_data_almost_done") ELSE q

ChunkDataAlmostDone(p, buf, i, c) ==
  LET q == Asserting(p, p.clen = 0)
  IN  IF c = "CR" THEN CallBody(Go(q, "chunk_data_done"), buf, i) ELSE Fail(q)

ChunkDataDone(p, c) == GoIf(c = "LF", [p EXCEPT !.nread = 0], "chunk_size_start")

-----------------------------------------------------------------------------
(***************************************************************************)
(* The loop over the buffer.                                               *)
(***************************************************************************)

BodyStates == {"chunk_data", "chunk_data_almost_done", "chunk_data_done", "body_identity"}

Counted(p) == IF p.state \in BodyStates THEN p ELSE [p EXCEPT !.nread = @ + 1]

\* switch (parser->state)
InState(p, buf, i, c) ==
  LET s == p.state
  IN  CASE s = "dead" -> Dead(p, c)
        [] s = "start_req" -> StartReq(p, c)
        [] s = "req_method" -> GoIf(c = "SP", p, "spaces_before_url")
        [] s = "spaces_before_url" -> SpacesBeforeUrl(p, i, c)
        [] s \in UrlOpen -> ParseUrlChar(p, c)
        [] s \in UrlDone -> UrlEnd(p, buf, i, c)
        [] s = "http_start" -> HttpStart(p, c)
        [] s = "http_minor" -> HttpMinor(p, c)
        [] s = "line_almost_done" -> LineAlmostDone(p, c)
        [] s = "header_field_start" -> HeaderFieldStart(p, c)
        [] s = "header_field" -> HeaderField(p, c)
        [] s = "header_value_start" -> HeaderValueStart(p, c)
        [] s = "header_value" -> HeaderValue(p, c)
        [] s = "header_almost_done" -> HeaderAlmostDone(p, c)
        [] s = "header_value_lws" -> HeaderValueLws(p, c)
        [] s = "headers_almost_done" -> HeadersAlmostDone(p, c)
        [] s = "body_identity" -> BodyIdentity(p, buf, i)
        [] s = "chunk_size_start" -> ChunkSizeStart(p, c)
        [] s = "chunk_size" -> ChunkSize(p, c)
        [] s = "chunk_parameters" -> ChunkParameters(p, c)
        [] s = "chunk_size_almost_done" -> ChunkSizeAlmostDone(p, c)
        [] s = "chunk_data" -> ChunkData(p, i)
        [] s = "chunk_data_almost_done" -> ChunkDataAlmostDone(p, buf, i, c)
        [] s = "chunk_data_done" -> ChunkDataDone(p, c)

Byte(p, buf, i) ==
  LET q == Counted(p)
  IN  IF p.stopped THEN p
      ELSE IF q.nread > MaxHeaderSize THEN Fail(q) ELSE InState(q, buf, i, buf[i])

\* At the end of the buffer what is marked is handed over as far as it goes.
Leftover(p, buf) == CallBody(CallUrl(p, buf, Len(buf) + 1), buf, Len(buf) + 1)

\* The parser behind each byte of the buffer.
After(buf) ==
  LET after[n \in 0..Len(buf)] == IF n = 0 THEN Fresh ELSE Byte(after[n - 1], buf, n)
  IN  after

\* ParseHttpContent
Parse(buf) == Leftover(After(buf)[Len(buf)], buf)
=============================================================================
