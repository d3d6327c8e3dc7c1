----------------------------- MODULE HttpProofs -----------------------------
(***************************************************************************)
(* Of the parser: that none of its asserts fails on any buffer, that a     *)
(* request once whole stays whole, and that parsing the front of a text    *)
(* gives what parsing the text has given so far, which is why OnRead may   *)
(* parse all again from the first byte at every read.                      *)
(*                                                                         *)
(* Of the connections: that each request is acted on exactly, once and at  *)
(* once, however it is cut and whatever the others send between, if the    *)
(* parser is right about the whole texts (ScriptFits).  Of the pieces      *)
(* nothing is assumed.                                                     *)
(*                                                                         *)
(* An invariant of the parser is shown for each state's handler (...Makes) *)
(* and from there, by induction over the symbols (Climb), for any buffer.  *)
(***************************************************************************)
EXTENDS HttpConn, SequenceTheorems, WellFoundedInduction, TLAPS

-----------------------------------------------------------------------------
(***************************************************************************)
(* The inductive invariant of the parser.                                  *)
(***************************************************************************)

\* What the record Fresh has.
ParserFields ==
  {"state", "method", "v11", "flags", "hstate", "clen", "nread", "stopped",
   "urlMark", "bodyMark", "url", "body", "readAll", "asserts"}

\* Inside a URL.
UrlStates == UrlOpen \cup UrlDone

\* States in which nothing is known of the parser's other fields.
FreeStates ==
  {"dead", "start_req", "req_method", "spaces_before_url", "http_start", "http_minor",
   "line_almost_done", "header_field_start", "header_field", "header_value_start",
   "header_almost_done", "header_value_lws", "headers_almost_done", "chunk_data_done"}
  \cup UrlStates

\* A byte of a body is next, and inside the line of a chunk's size.
Counting == {"body_identity", "chunk_data"}
Sizes    == {"chunk_size", "chunk_parameters", "chunk_size_almost_done"}

\* The states in which the parser stops between two symbols.
States ==
  FreeStates \cup Counting \cup Sizes
    \cup {"header_value", "chunk_size_start", "chunk_data_almost_done"}

\* In state s the asserts of the parser hold.
FitFor(s, p) ==
  /\ s \in Counting => p.clen # 0 /\ p.clen # ULLongMax
  /\ s \in Sizes => p.clen # ULLongMax
  /\ s = "chunk_data_almost_done" => p.clen = 0
  /\ s = "header_value" => p.hstate \notin {"connection", "transfer-encoding"}

\* A parser that has not stopped; at a chunk's size k symbols are counted.
Live(p, k) ==
  /\ p.state \in States /\ p.clen \in 0..ULLongMax /\ p.nread \in Nat
  /\ FitFor(p.state, p)
  /\ p.state = "chunk_size_start" => p.nread = k

\* The parser behind m symbols: no assert has failed, none can fail at the next
\* one, and what is marked has come.
ParserInv(p, m, k) ==
  /\ DOMAIN p = ParserFields
  /\ p.asserts = TRUE /\ p.readAll \in BOOLEAN /\ p.stopped \in BOOLEAN
  /\ p.urlMark \in 0..m /\ p.bodyMark \in 0..m
  /\ p.stopped = FALSE => Live(p, k)

\* What the i-th symbol makes of the parser q: a request stays whole.
Made(q, r, i) == ParserInv(r, i, 0) /\ (q.readAll = TRUE => r.readAll = TRUE)

\* The parser r is one that q can become, whatever its state.
Near(q, r, i) ==
  /\ DOMAIN r = ParserFields
  /\ r.asserts = TRUE /\ r.readAll \in BOOLEAN /\ r.stopped \in BOOLEAN
  /\ r.urlMark \in 0..i /\ r.bodyMark \in 0..i /\ r.nread \in Nat
  /\ q.readAll = TRUE => r.readAll = TRUE

\* A free state fits every parser.
LEMMA FreeIs ==
  ASSUME NEW s \in FreeStates, NEW p
  PROVE  s \in States \ {"chunk_size_start"} /\ FitFor(s, p)
BY SMT DEF FreeStates, States, FitFor, Counting, Sizes, UrlStates, UrlOpen, UrlDone

\* What is known of a parser that has not stopped.
LEMMA LiveIs ==
  ASSUME NEW m \in Nat, NEW q, ParserInv(q, m, 1), q.stopped = FALSE
  PROVE  /\ Near(q, q, m + 1) /\ q.clen \in 0..ULLongMax /\ q.state \in States
         /\ FitFor(q.state, q) /\ DOMAIN q = ParserFields
BY SMT DEF ParserInv, Live, Near

\* An error stops the parser.
LEMMA FailMakes ==
  ASSUME NEW m \in Nat, NEW q, ParserInv(q, m, 1), NEW r, Near(q, r, m + 1)
  PROVE  Made(q, Fail(r), m + 1)
BY SMT DEF Made, ParserInv, Fail, ParserFields, Near

\* What is near q and fits its state is something q can become.
LEMMA StayMakes ==
  ASSUME NEW m \in Nat, NEW q, ParserInv(q, m, 1), q.stopped = FALSE,
         NEW r, Near(q, r, m + 1), r.state \in States \ {"chunk_size_start"},
         r.clen \in 0..ULLongMax, FitFor(r.state, r)
  PROVE  Made(q, r, m + 1)
BY SMT DEF Made, ParserInv, Live, Near

\* Go changes the state and nothing else.
LEMMA GoIs ==
  ASSUME NEW q, NEW p, NEW i, Near(q, p, i), NEW s
  PROVE  /\ Near(q, Go(p, s), i) /\ Go(p, s).state = s /\ Go(p, s).clen = p.clen
         /\ Go(p, s).hstate = p.hstate
BY SMT DEF Go, ParserFields, Near

\* Into a state that fits.
LEMMA GoMakes ==
  ASSUME NEW m \in Nat, NEW q, ParserInv(q, m, 1), q.stopped = FALSE,
         NEW r, Near(q, r, m + 1), r.clen \in 0..ULLongMax,
         NEW s \in States \ {"chunk_size_start"}, FitFor(s, r)
  PROVE  Made(q, Go(r, s), m + 1)
<1> DEFINE g == Go(r, s)
<1>1. Near(q, g, m + 1) /\ g.state = s /\ g.clen = r.clen /\ g.hstate = r.hstate
  BY GoIs
<1>2. FitFor(g.state, g)
  BY <1>1 DEF FitFor
<1> HIDE DEF g
<1>3. Made(q, g, m + 1)
  BY <1>1, <1>2, StayMakes
<1> QED BY <1>3 DEF g

\* GoIf with a state of which nothing need be known.
LEMMA GoIfMakes ==
  ASSUME NEW m \in Nat, NEW q, ParserInv(q, m, 1), q.stopped = FALSE,
         NEW r, Near(q, r, m + 1), r.clen \in 0..ULLongMax, NEW ok \in BOOLEAN, NEW s \in FreeStates
  PROVE  Made(q, GoIf(ok, r, s), m + 1)
<1>1. CASE ok
  BY <1>1, FreeIs, GoMakes DEF GoIf
<1>2. CASE ~ok
  BY <1>2, FailMakes DEF GoIf
<1> QED BY <1>1, <1>2

\* The free states by name.
LEMMA FreeStatesAre ==
  /\ "req_method" \in FreeStates /\ "spaces_before_url" \in FreeStates
  /\ "http_start" \in FreeStates /\ "http_minor" \in FreeStates
  /\ "line_almost_done" \in FreeStates /\ "header_field_start" \in FreeStates
  /\ "header_field" \in FreeStates /\ "header_value_start" \in FreeStates
  /\ "header_almost_done" \in FreeStates /\ "header_value_lws" \in FreeStates
  /\ "headers_almost_done" \in FreeStates /\ "chunk_data_done" \in FreeStates
  /\ "start_req" \in FreeStates /\ "dead" \in FreeStates /\ UrlStates \subseteq FreeStates
BY DEF FreeStates

-----------------------------------------------------------------------------
(***************************************************************************)
(* The handlers: what a symbol makes of the parser in each state.          *)
(***************************************************************************)

\* The request line.
LEMMA LineMakes ==
  ASSUME NEW m \in Nat, NEW q, ParserInv(q, m, 1), q.stopped = FALSE, NEW c
  PROVE  /\ q.state \in FreeStates => Made(q, Dead(q, c), m + 1)
         /\ q.state \in FreeStates => Made(q, StartReq(q, c), m + 1)
         /\ q.state \in FreeStates => Made(q, GoIf(c = "SP", q, "spaces_before_url"), m + 1)
         /\ q.state \in FreeStates => Made(q, HttpStart(q, c), m + 1)
         /\ q.state \in FreeStates => Made(q, HttpMinor(q, c), m + 1)
         /\ q.state \in FreeStates => Made(q, LineAlmostDone(q, c), m + 1)
<1> SUFFICES ASSUME q.state \in FreeStates
             PROVE  /\ Made(q, Dead(q, c), m + 1) /\ Made(q, StartReq(q, c), m + 1)
                    /\ Made(q, GoIf(c = "SP", q, "spaces_before_url"), m + 1)
                    /\ Made(q, HttpStart(q, c), m + 1) /\ Made(q, HttpMinor(q, c), m + 1)
                    /\ Made(q, LineAlmostDone(q, c), m + 1)
  OBVIOUS
<1>1. Near(q, q, m + 1) /\ q.clen \in 0..ULLongMax /\ DOMAIN q = ParserFields
  BY LiveIs
<1>2. Made(q, q, m + 1)
  BY <1>1, FreeIs, StayMakes
<1>3. Made(q, Fail(q), m + 1)
  BY <1>1, FailMakes
<1>4. \A s \in FreeStates : Made(q, Go(q, s), m + 1)
  BY <1>1, FreeIs, GoMakes
<1>5. \A s \in FreeStates : \A ok \in BOOLEAN : Made(q, GoIf(ok, q, s), m + 1)
  BY <1>1, GoIfMakes
<1>6. Made(q, Dead(q, c), m + 1)
  BY <1>2, <1>3 DEF Dead
<1>7. Made(q, StartReq(q, c), m + 1)
  <2> DEFINE r == [q EXCEPT !.flags = {}, !.clen = ULLongMax, !.method = c]
             ok == c \in Methods
  <2>1. Near(q, r, m + 1) /\ r.clen \in 0..ULLongMax
    BY <1>1, ParserAssumption DEF Near, ParserFields
  <2>2. StartReq(q, c) = IF c \in {"CR", "LF"} THEN q ELSE GoIf(ok, r, "req_method")
    BY DEF StartReq
  <2> HIDE DEF r
  <2>3. Made(q, GoIf(ok, r, "req_method"), m + 1)
    <3>1. ok \in BOOLEAN
      OBVIOUS
    <3> HIDE DEF ok
    <3> QED BY <2>1, <3>1, GoIfMakes, FreeStatesAre
  <2> QED BY <1>2, <2>2, <2>3
<1>8. Made(q, GoIf(c = "SP", q, "spaces_before_url"), m + 1)
  BY <1>5, FreeStatesAre, Zenon
<1>9. Made(q, LineAlmostDone(q, c), m + 1)
  BY <1>5, FreeStatesAre, Zenon DEF LineAlmostDone
<1>10. Made(q, HttpStart(q, c), m + 1)
  <2> DEFINE r == [q EXCEPT !.v11 = (c = "HTTP/1.1")]
             ok == c \in Versions
  <2>1. Near(q, r, m + 1) /\ r.clen \in 0..ULLongMax
    BY <1>1 DEF Near, ParserFields
  <2>2. HttpStart(q, c) = IF c = "SP" THEN q ELSE GoIf(ok, r, "http_minor")
    BY DEF HttpStart
  <2> HIDE DEF r
  <2>3. Made(q, GoIf(ok, r, "http_minor"), m + 1)
    <3>1. ok \in BOOLEAN
      OBVIOUS
    <3> HIDE DEF ok
    <3> QED BY <2>1, <3>1, GoIfMakes, FreeStatesAre
  <2> QED BY <1>2, <2>2, <2>3
<1>11. Made(q, HttpMinor(q, c), m + 1)
  <2> DEFINE r == [q EXCEPT !.v11 = @ \/ c # "0"]
  <2>1. /\ Near(q, r, m + 1) /\ r.clen \in 0..ULLongMax /\ r.state = q.state
    BY <1>1 DEF Near, ParserFields
  <2>2. Made(q, r, m + 1)
    <3> HIDE DEF r
    <3> QED BY <2>1, FreeIs, StayMakes
  <2>3. HttpMinor(q, c) \in {Go(q, "line_almost_done"), Go(q, "header_field_start"), r, Fail(q)}
    BY DEF HttpMinor, Digits
  <2> HIDE DEF r
  <2> QED BY <1>3, <1>4, <2>2, <2>3, FreeStatesAre
<1> QED BY <1>6, <1>7, <1>8, <1>9, <1>10, <1>11

\* From a URL parse_url_char leads to a URL.
LEMMA UrlEdgesAre == \A e \in UrlEdges : e[3] \in UrlStates
<1>1. /\ "path" \in UrlStates /\ "query_start" \in UrlStates /\ "server" \in UrlStates
      /\ "schema" \in UrlStates /\ "schema_slash" \in UrlStates
      /\ "schema_slash_slash" \in UrlStates /\ "server_start" \in UrlStates
      /\ "server_with_at" \in UrlStates /\ "query" \in UrlStates
      /\ "fragment_start" \in UrlStates /\ "fragment" \in UrlStates
  BY DEF UrlStates, UrlOpen, UrlDone
<1>2. ASSUME NEW s, NEW e \in ServerEdges(s) PROVE e[3] \in UrlStates
  <2> DEFINE T == Token \cup {":", ";"}
  <2>1. e[3] = "path" \/ e[3] = "query_start" \/ e[3] = "server"
    <3>1. e \in {<<s, {"/"}, "path">>, <<s, {"?"}, "query_start">>, <<s, T, "server">>}
      BY DEF ServerEdges
    <3> HIDE DEF T
    <3> QED BY <3>1
  <2> QED BY <1>1, <2>1
<1>3. ASSUME NEW s, NEW e \in QueryEdges(s) PROVE e[3] \in UrlStates
  <2>1. e[3] = "query" \/ e[3] = "fragment_start"
    BY DEF QueryEdges
  <2> QED BY <1>1, <2>1
<1>4. ASSUME NEW e \in SchemaEdges PROVE e[3] \in UrlStates
  BY <1>1 DEF SchemaEdges
<1>5. ASSUME NEW e \in AtEdges \cup PathEdges \cup FragmentEdges PROVE e[3] \in UrlStates
  BY <1>1 DEF AtEdges, PathEdges, FragmentEdges
<1> QED BY <1>2, <1>3, <1>4, <1>5 DEF UrlEdges

\* parse_url_char
LEMMA UrlCharMakes ==
  ASSUME NEW m \in Nat, NEW q, ParserInv(q, m, 1), q.stopped = FALSE, NEW c,
         NEW r, Near(q, r, m + 1), r.clen \in 0..ULLongMax
  PROVE  Made(q, ParseUrlChar(r, c), m + 1)
<1> DEFINE next == UrlNext(r.state, c)
           t == CHOOSE s \in next : TRUE
<1>1. next # {} => t \in next
  OBVIOUS
<1>2. \A s \in next : s \in UrlStates
  BY UrlEdgesAre DEF UrlNext
<1>3. ParseUrlChar(r, c) = IF next = {} THEN Fail(r) ELSE Go(r, t)
  BY DEF ParseUrlChar
<1> HIDE DEF next, t
<1>4. CASE next = {}
  BY <1>3, <1>4, FailMakes
<1>5. CASE next # {}
  <2>1. t \in FreeStates
    BY <1>1, <1>2, <1>5, FreeStatesAre
  <2>2. Made(q, Go(r, t), m + 1)
    BY <2>1, FreeIs, GoMakes
  <2> QED BY <1>3, <1>5, <2>2
<1> QED BY <1>4, <1>5

\* The marks and the callbacks change nothing else.
LEMMA MarksAre ==
  ASSUME NEW q, NEW p, NEW i \in Nat, Near(q, p, i), NEW buf, NEW to
  PROVE  \A r \in {MarkUrl(p, i), MarkBody(p, i), CallUrl(p, buf, to), CallBody(p, buf, to)} :
           Near(q, r, i) /\ r.state = p.state /\ r.clen = p.clen /\ r.hstate = p.hstate
             /\ r.method = p.method /\ r.nread = p.nread /\ r.readAll = p.readAll
             /\ r.flags = p.flags /\ r.v11 = p.v11
<1>1. DOMAIN p = ParserFields
  BY DEF Near
<1> DEFINE K(r) == Near(q, r, i) /\ r.state = p.state /\ r.clen = p.clen /\ r.hstate = p.hstate
             /\ r.method = p.method /\ r.nread = p.nread /\ r.readAll = p.readAll
             /\ r.flags = p.flags /\ r.v11 = p.v11
<1>2. K(MarkUrl(p, i))
  BY <1>1 DEF MarkUrl, Near, ParserFields
<1>3. K(MarkBody(p, i))
  BY <1>1 DEF MarkBody, Near, ParserFields
<1>4. K(CallUrl(p, buf, to))
  BY <1>1 DEF CallUrl, Near, ParserFields
<1>5. K(CallBody(p, buf, to))
  BY <1>1 DEF CallBody, Near, ParserFields
<1> HIDE DEF K
<1> QED BY <1>2, <1>3, <1>4, <1>5 DEF K

\* The bytes of the URL, and what ends it.
LEMMA UrlMakes ==
  ASSUME NEW m \in Nat, NEW q, ParserInv(q, m, 1), q.stopped = FALSE, NEW c, NEW buf,
         q.state \in FreeStates
  PROVE  /\ Made(q, SpacesBeforeUrl(q, m + 1, c), m + 1)
         /\ Made(q, ParseUrlChar(q, c), m + 1)
         /\ Made(q, UrlEnd(q, buf, m + 1, c), m + 1)
<1> DEFINE i == m + 1
<1>1. Near(q, q, i) /\ q.clen \in 0..ULLongMax /\ i \in Nat
  <2>1. Near(q, q, i) /\ q.clen \in 0..ULLongMax
    BY LiveIs
  <2> QED BY <2>1
<1>2. Made(q, q, i)
  BY <1>1, FreeIs, StayMakes
<1>3. Made(q, ParseUrlChar(q, c), i)
  BY <1>1, UrlCharMakes
<1>4. Made(q, SpacesBeforeUrl(q, i, c), i)
  <2> DEFINE u == MarkUrl(q, i)
             v == Go(u, "server_start")
  <2>1. Near(q, u, i) /\ u.clen \in 0..ULLongMax
    <3> HIDE DEF i
    <3> QED BY <1>1, MarksAre
  <2>2. Near(q, v, i) /\ v.clen \in 0..ULLongMax
    <3> HIDE DEF u, i
    <3> QED BY <2>1, GoIs
  <2>3. SpacesBeforeUrl(q, i, c) = IF c = "SP" THEN q
          ELSE IF u.method = "CONNECT" THEN ParseUrlChar(v, c) ELSE ParseUrlChar(u, c)
    <3>1. u.method = q.method
      <4> HIDE DEF i
      <4> QED BY <1>1, MarksAre
    <3>2. SpacesBeforeUrl(q, i, c) = IF c = "SP" THEN q
            ELSE ParseUrlChar(IF q.method = "CONNECT" THEN v ELSE u, c)
      BY DEF SpacesBeforeUrl
    <3> HIDE DEF u, v
    <3> QED BY <3>1, <3>2
  <2>4. Made(q, ParseUrlChar(u, c), i) /\ Made(q, ParseUrlChar(v, c), i)
    <3> HIDE DEF u, v
    <3> QED BY <2>1, <2>2, UrlCharMakes
  <2> HIDE DEF u, v, i
  <2> QED BY <1>2, <2>3, <2>4
<1>5. Made(q, UrlEnd(q, buf, i, c), i)
  <2> DEFINE r == [q EXCEPT !.v11 = FALSE]
             T == {Go(q, "http_start"), Go(r, "line_almost_done"), Go(r, "header_field_start")}
  <2>1. Near(q, r, i) /\ r.clen = q.clen
    BY <1>1 DEF Near, ParserFields
  <2>2. \A t \in T : Near(q, t, i) /\ t.clen \in 0..ULLongMax /\ t.state \in FreeStates
    <3> HIDE DEF r, i
    <3> QED BY <1>1, <2>1, GoIs, FreeStatesAre
  <2>3. \A t \in T : Made(q, CallUrl(t, buf, i), i)
    <3> SUFFICES ASSUME NEW t \in T PROVE Made(q, CallUrl(t, buf, i), i)
      OBVIOUS
    <3> DEFINE u == CallUrl(t, buf, i)
    <3>1. Near(q, u, i) /\ u.state = t.state /\ u.clen = t.clen
      <4> HIDE DEF T, i
      <4> QED BY <1>1, <2>2, MarksAre
    <3> HIDE DEF T, u
    <3>2. u.state \in FreeStates /\ u.clen \in 0..ULLongMax
      BY <2>2, <3>1
    <3>3. u.state \in States \ {"chunk_size_start"} /\ FitFor(u.state, u)
      BY <3>2, FreeIs
    <3> QED BY <3>1, <3>2, <3>3, StayMakes DEF u
  <2>4. UrlEnd(q, buf, i, c) \in {CallUrl(t, buf, i) : t \in T} \cup {ParseUrlChar(q, c)}
    <3> HIDE DEF i
    <3> QED BY DEF UrlEnd
  <2> HIDE DEF T, i
  <2> QED BY <1>3, <2>3, <2>4
<1> QED BY <1>3, <1>4, <1>5

\* What every handler may do.
LEMMA BasicsIs ==
  ASSUME NEW m \in Nat, NEW q, ParserInv(q, m, 1), q.stopped = FALSE
  PROVE  /\ Near(q, q, m + 1) /\ q.clen \in 0..ULLongMax /\ q.nread \in Nat
         /\ DOMAIN q = ParserFields
         /\ Made(q, Fail(q), m + 1) /\ (q.state \in FreeStates => Made(q, q, m + 1))
         /\ \A s \in FreeStates : Made(q, Go(q, s), m + 1)
<1>1. /\ Near(q, q, m + 1) /\ q.clen \in 0..ULLongMax /\ DOMAIN q = ParserFields
  BY LiveIs
<1>2. q.state \in FreeStates => Made(q, q, m + 1)
  BY <1>1, FreeIs, StayMakes
<1>3. Made(q, Fail(q), m + 1)
  BY <1>1, FailMakes
<1>4. \A s \in FreeStates : Made(q, Go(q, s), m + 1)
  BY <1>1, FreeIs, GoMakes
<1>5. q.nread \in Nat
  BY <1>1 DEF Near
<1> QED BY <1>1, <1>2, <1>3, <1>4, <1>5

\* NEW_MESSAGE, and an upgrade that stops behind it.
LEMMA CompleteMakes ==
  ASSUME NEW m \in Nat, NEW q, ParserInv(q, m, 1), q.stopped = FALSE,
         NEW p, Near(q, p, m + 1), p.clen \in 0..ULLongMax
  PROVE  /\ Made(q, MessageComplete(p), m + 1)
         /\ Made(q, [MessageComplete(p) EXCEPT !.stopped = TRUE], m + 1)
<1> DEFINE r == MessageComplete(p)
           t == [r EXCEPT !.stopped = TRUE]
<1>1. Near(q, r, m + 1) /\ r.clen = p.clen
  BY DEF MessageComplete, Near, ParserFields
<1>2. r.state \in {"start_req", "dead"}
  BY DEF MessageComplete, Near, ParserFields
<1>3. Near(q, t, m + 1) /\ t.stopped = TRUE
  <2> HIDE DEF r
  <2> QED BY <1>1 DEF Near, ParserFields
<1> HIDE DEF r, t
<1>4. r.state \in FreeStates
  BY <1>2, FreeStatesAre
<1>5. r.state \in States \ {"chunk_size_start"} /\ FitFor(r.state, r)
  BY <1>4, FreeIs
<1>6. Made(q, r, m + 1)
  BY <1>1, <1>5, StayMakes
<1>7. Made(q, t, m + 1)
  BY <1>3 DEF Made, ParserInv, Near
<1> QED BY <1>6, <1>7 DEF r, t

\* The size of a chunk begins with nread = 0.
LEMMA ChunkStartMakes ==
  ASSUME NEW m \in Nat, NEW q, NEW r, Near(q, r, m + 1), r.clen \in 0..ULLongMax, r.nread = 0
  PROVE  Made(q, Go(r, "chunk_size_start"), m + 1)
<1> DEFINE g == Go(r, "chunk_size_start")
<1>1. Near(q, g, m + 1) /\ g.state = "chunk_size_start" /\ g.clen = r.clen /\ g.nread = 0
  BY DEF Go, ParserFields, Near
<1>2. FitFor("chunk_size_start", g) /\ "chunk_size_start" \in States
  BY DEF FitFor, States, Counting, Sizes
<1> HIDE DEF g
<1>3. Made(q, g, m + 1)
  BY <1>1, <1>2 DEF Made, ParserInv, Live, Near
<1> QED BY <1>3 DEF g

\* What follows the blank line.
LEMMA HeadersDoneMakes ==
  ASSUME NEW m \in Nat, NEW q, ParserInv(q, m, 1), q.stopped = FALSE
  PROVE  Made(q, HeadersDone(q), m + 1)
<1> DEFINE r == [q EXCEPT !.nread = 0]
<1>1. Near(q, r, m + 1) /\ r.nread = 0 /\ r.clen = q.clen /\ r.clen \in 0..ULLongMax
  BY BasicsIs DEF Near, ParserFields
<1>2. HeadersDone(q) = IF "upgrade" \in q.flags \/ q.method = "CONNECT"
        THEN [MessageComplete(r) EXCEPT !.stopped = TRUE]
        ELSE IF "chunked" \in q.flags THEN Go(r, "chunk_size_start")
        ELSE IF q.clen \in {0, ULLongMax} THEN MessageComplete(r) ELSE Go(r, "body_identity")
  BY DEF HeadersDone
<1> HIDE DEF r
<1>3. /\ Made(q, MessageComplete(r), m + 1)
      /\ Made(q, [MessageComplete(r) EXCEPT !.stopped = TRUE], m + 1)
  BY <1>1, CompleteMakes
<1>4. Made(q, Go(r, "chunk_size_start"), m + 1)
  BY <1>1, ChunkStartMakes
<1>5. ASSUME q.clen \notin {0, ULLongMax} PROVE Made(q, Go(r, "body_identity"), m + 1)
  <2>1. "body_identity" \in States \ {"chunk_size_start"} /\ FitFor("body_identity", r)
    BY <1>1, <1>5 DEF States, FitFor, Counting, Sizes
  <2> QED BY <1>1, <2>1, GoMakes
<1> QED BY <1>2, <1>3, <1>4, <1>5

\* A field, and the blank line.
LEMMA FieldMakes ==
  ASSUME NEW m \in Nat, NEW q, ParserInv(q, m, 1), q.stopped = FALSE, NEW c,
         q.state \in FreeStates
  PROVE  /\ Made(q, HeadersAlmostDone(q, c), m + 1)
         /\ Made(q, HeaderFieldStart(q, c), m + 1)
         /\ Made(q, HeaderField(q, c), m + 1)
         /\ Made(q, HeaderAlmostDone(q, c), m + 1)
         /\ Made(q, HeaderValueLws(q, c), m + 1)
<1>1. /\ Near(q, q, m + 1) /\ q.clen \in 0..ULLongMax /\ DOMAIN q = ParserFields
      /\ Made(q, Fail(q), m + 1) /\ Made(q, q, m + 1)
      /\ \A s \in FreeStates : Made(q, Go(q, s), m + 1)
  BY BasicsIs
<1>2. Made(q, HeadersAlmostDone(q, c), m + 1)
  <2>1. Made(q, MessageComplete(q), m + 1) /\ Made(q, HeadersDone(q), m + 1)
    BY <1>1, CompleteMakes, HeadersDoneMakes
  <2> QED BY <1>1, <2>1 DEF HeadersAlmostDone
<1>3. \A h : LET r == [q EXCEPT !.hstate = h]
             IN  Near(q, r, m + 1) /\ r.clen = q.clen /\ r.state = q.state
  BY <1>1 DEF Near, ParserFields
<1>4. Made(q, HeaderFieldStart(q, c), m + 1)
  <2> DEFINE r == [q EXCEPT !.hstate = IF c \in Names THEN c ELSE "general"]
             ok == c \in Token
  <2>1. Near(q, r, m + 1) /\ r.clen = q.clen
    BY <1>3
  <2>2. HeaderFieldStart(q, c) \in
          {Go(q, "headers_almost_done"), HeadersAlmostDone(q, c), GoIf(ok, r, "header_field")}
    BY DEF HeaderFieldStart
  <2> HIDE DEF r
  <2>3. Made(q, GoIf(ok, r, "header_field"), m + 1)
    <3>1. ok \in BOOLEAN
      OBVIOUS
    <3> HIDE DEF ok
    <3> QED BY <1>1, <2>1, <3>1, GoIfMakes, FreeStatesAre
  <2> QED BY <1>1, <1>2, <2>2, <2>3, FreeStatesAre
<1>5. Made(q, HeaderField(q, c), m + 1)
  <2> DEFINE r == [q EXCEPT !.hstate = "general"]
  <2>1. Near(q, r, m + 1) /\ r.clen = q.clen /\ r.state = q.state
    BY <1>3
  <2>2. Made(q, r, m + 1)
    <3> HIDE DEF r
    <3> QED BY <1>1, <2>1, FreeIs, StayMakes
  <2>3. HeaderField(q, c) \in {r, Go(q, "header_value_start"), Go(q, "header_almost_done"),
          Go(q, "header_field_start"), Fail(q)}
    BY DEF HeaderField
  <2> HIDE DEF r
  <2> QED BY <1>1, <2>2, <2>3, FreeStatesAre
<1>6. Made(q, HeaderAlmostDone(q, c), m + 1)
  <2> DEFINE r == [q EXCEPT !.flags = @ \cup ({q.hstate} \cap Values)]
             ok == c = "LF"
  <2>1. Near(q, r, m + 1) /\ r.clen = q.clen
    BY <1>1 DEF Near, ParserFields
  <2>2. HeaderAlmostDone(q, c) = GoIf(ok, r, "header_value_lws")
    BY DEF HeaderAlmostDone
  <2> HIDE DEF r
  <2>3. ok \in BOOLEAN
    OBVIOUS
  <2> HIDE DEF ok
  <2> QED BY <1>1, <2>1, <2>2, <2>3, GoIfMakes, FreeStatesAre
<1>7. Made(q, HeaderValueLws(q, c), m + 1)
  BY <1>1, <1>4, FreeStatesAre DEF HeaderValueLws
<1> QED BY <1>2, <1>4, <1>5, <1>6, <1>7

\* A digit more of a number.
LEMMA DigitMakes ==
  ASSUME NEW m \in Nat, NEW q, ParserInv(q, m, 1), q.stopped = FALSE,
         NEW base \in Nat, NEW c \in Digits,
         q.state \in Sizes \cup {"header_value"}
  PROVE  Made(q, Digit(q, base, c), m + 1)
<1> DEFINE t == Appended(q, base, c)
           r == [q EXCEPT !.clen = t]
<1>1. /\ Near(q, q, m + 1) /\ q.clen \in 0..ULLongMax /\ DOMAIN q = ParserFields
      /\ Made(q, Fail(q), m + 1)
  BY BasicsIs
<1>2. t \in 0..ULLongMax
  <2> DEFINE x == q.clen * base
             v == Value(c)
  <2>1. v \in Int
    BY DEF Value, Digits
  <2>2. x \in Int
    BY <1>1, ParserAssumption
  <2>3. t = (x + v) % (ULLongMax + 1)
    BY DEF Appended
  <2> HIDE DEF x, v, t
  <2> QED BY <2>1, <2>2, <2>3, ParserAssumption
<1>3. Digit(q, base, c) = IF Overflow(q, t) THEN Fail(q) ELSE r
  BY DEF Digit
<1>4. ~ Overflow(q, t) => t # ULLongMax
  BY DEF Overflow
<1> HIDE DEF t
<1>5. Near(q, r, m + 1) /\ r.clen = t /\ r.state = q.state /\ r.hstate = q.hstate
  BY <1>1 DEF Near, ParserFields
<1>6. q.state \in States \ {"chunk_size_start"} /\ FitFor(q.state, q)
  <2>1. q.state \in States /\ FitFor(q.state, q)
    BY LiveIs
  <2> QED BY <2>1 DEF Sizes
<1> HIDE DEF r
<1>7. ASSUME t # ULLongMax PROVE Made(q, r, m + 1)
  <2>1. FitFor(r.state, r)
    BY <1>5, <1>6, <1>7 DEF FitFor, Counting, Sizes
  <2> QED BY <1>2, <1>5, <1>6, <2>1, StayMakes
<1> QED BY <1>1, <1>3, <1>4, <1>7

\* The value of a field, whose first byte sets hstate.
LEMMA ValueMakes ==
  ASSUME NEW m \in Nat, NEW q, ParserInv(q, m, 1), q.stopped = FALSE, NEW c
  PROVE  /\ q.state \in FreeStates => Made(q, HeaderValueStart(q, c), m + 1)
         /\ q.state = "header_value" => Made(q, HeaderValue(q, c), m + 1)
<1>1. /\ Near(q, q, m + 1) /\ q.clen \in 0..ULLongMax /\ DOMAIN q = ParserFields
      /\ Made(q, Fail(q), m + 1)
      /\ (q.state \in FreeStates => Made(q, q, m + 1))
      /\ \A s \in FreeStates : Made(q, Go(q, s), m + 1)
  BY BasicsIs
<1>2. ASSUME NEW r, Near(q, r, m + 1), r.clen \in 0..ULLongMax, r.state = "header_value",
             r.hstate \notin {"connection", "transfer-encoding"}
      PROVE  Made(q, r, m + 1)
  <2>1. r.state \in States \ {"chunk_size_start"} /\ FitFor(r.state, r)
    BY <1>2 DEF States, FitFor, Counting, Sizes
  <2> QED BY <1>2, <2>1, StayMakes
<1>3. ASSUME q.state \in FreeStates PROVE Made(q, HeaderValueStart(q, c), m + 1)
  <2> DEFINE v == Go(q, "header_value")
             g == [v EXCEPT !.hstate = "general"]
             n == [v EXCEPT !.clen = Value(c)]
             u == [g EXCEPT !.flags = @ \cup {"upgrade"}]
             w == [v EXCEPT !.hstate = c]
  <2>1. Near(q, v, m + 1) /\ v.state = "header_value" /\ v.clen = q.clen /\ v.hstate = q.hstate
    BY <1>1, GoIs
  <2>2. LET next == HeaderValueStart(q, c)
        IN  \/ next = q \/ next = Go(g, "header_almost_done")
            \/ next = Go(q, "header_field_start") \/ next = Fail(q) \/ next = g \/ next = u
            \/ (next = n /\ c \in Digits /\ q.hstate = "content-length")
            \/ (next = w /\ c \in {"chunked", "keep-alive", "close"})
    <3> HIDE DEF v
    <3>1. HeaderValueStart(q, c) =
            CASE c = "SP" -> q
              [] c = "CR" -> Go(g, "header_almost_done")
              [] c = "LF" -> Go(q, "header_field_start")
              [] c \notin {"SP", "CR", "LF"} /\ q.hstate = "content-length" ->
                   IF c \in Digits THEN n ELSE Fail(q)
              [] c \notin {"SP", "CR", "LF"} /\ q.hstate = "upgrade" -> u
              [] \/ q.hstate = "transfer-encoding" /\ c = "chunked"
                 \/ q.hstate = "connection" /\ c \in {"keep-alive", "close"} -> w
              [] OTHER -> g
      BY DEF HeaderValueStart, v
    <3> HIDE DEF g, n, u, w
    <3> QED BY <3>1
  <2> HIDE DEF v
  <2>3. Near(q, g, m + 1) /\ g.clen = q.clen /\ g.state = "header_value" /\ g.hstate = "general"
    BY <2>1 DEF Near, ParserFields
  <2>4. Near(q, n, m + 1) /\ n.clen = Value(c) /\ n.state = "header_value" /\ n.hstate = q.hstate
    BY <2>1 DEF Near, ParserFields
  <2>5. Near(q, w, m + 1) /\ w.clen = q.clen /\ w.state = "header_value" /\ w.hstate = c
    BY <2>1 DEF Near, ParserFields
  <2>6. Near(q, u, m + 1) /\ u.clen = q.clen /\ u.state = "header_value" /\ u.hstate = "general"
    <3> HIDE DEF g
    <3> QED BY <2>3 DEF Near, ParserFields
  <2>7. c \in Digits => Value(c) \in 0..ULLongMax
    BY ParserAssumption DEF Value, Digits
  <2> HIDE DEF g, n, u, w
  <2>8. Made(q, g, m + 1) /\ Made(q, u, m + 1)
    BY <1>1, <1>2, <2>3, <2>6
  <2>9. ASSUME c \in Digits, q.hstate = "content-length" PROVE Made(q, n, m + 1)
    BY <1>2, <2>4, <2>7, <2>9
  <2>10. ASSUME c \in {"chunked", "keep-alive", "close"} PROVE Made(q, w, m + 1)
    BY <1>1, <1>2, <2>5, <2>10
  <2>11. Made(q, Go(g, "header_almost_done"), m + 1)
    BY <1>1, <2>3, FreeIs, GoMakes, FreeStatesAre
  <2> QED BY <1>1, <1>3, <2>2, <2>8, <2>9, <2>10, <2>11, FreeStatesAre
<1>4. ASSUME q.state = "header_value" PROVE Made(q, HeaderValue(q, c), m + 1)
  <2> DEFINE g == [q EXCEPT !.hstate = "general"]
             ok == q.hstate \notin {"connection", "transfer-encoding"}
             a == Asserting(g, ok)
  <2>1. ok /\ ok \in BOOLEAN
    <3>1. FitFor(q.state, q)
      BY LiveIs
    <3> QED BY <1>4, <3>1 DEF FitFor
  <2>2. Near(q, g, m + 1) /\ g.clen = q.clen /\ g.state = "header_value" /\ g.hstate = "general"
    BY <1>1, <1>4 DEF Near, ParserFields
  <2>3. LET next == HeaderValue(q, c)
        IN  \/ next = Go(q, "header_almost_done") \/ next = HeaderAlmostDone(q, c)
            \/ next = q \/ next = Fail(q) \/ next = a
            \/ (next = Digit(q, Dec, c) /\ c \in Digits)
    <3>1. HeaderValue(q, c) =
            CASE c = "CR" -> Go(q, "header_almost_done")
              [] c = "LF" -> HeaderAlmostDone(q, c)
              [] c \notin {"CR", "LF"} /\ q.hstate = "content-length" ->
                   IF c = "SP" THEN q ELSE IF c \in Digits THEN Digit(q, Dec, c) ELSE Fail(q)
              [] c = "SP" /\ q.hstate \in Values -> q
              [] OTHER -> a
      BY DEF HeaderValue
    <3> HIDE DEF a
    <3> QED BY <3>1
  <2>4. Made(q, HeaderAlmostDone(q, c), m + 1)
    <3> DEFINE r == [q EXCEPT !.flags = @ \cup ({q.hstate} \cap Values)]
               lf == c = "LF"
    <3>1. Near(q, r, m + 1) /\ r.clen = q.clen
      BY <1>1 DEF Near, ParserFields
    <3>2. HeaderAlmostDone(q, c) = GoIf(lf, r, "header_value_lws")
      BY DEF HeaderAlmostDone
    <3> HIDE DEF r
    <3>3. lf \in BOOLEAN
      OBVIOUS
    <3> HIDE DEF lf
    <3> QED BY <1>1, <3>1, <3>2, <3>3, GoIfMakes, FreeStatesAre
  <2>5. Made(q, q, m + 1)
    BY <1>1, <1>2, <1>4, <2>1
  <2>6. Made(q, a, m + 1)
    <3> HIDE DEF ok, g
    <3>1. Near(q, a, m + 1) /\ a.clen = q.clen /\ a.state = "header_value" /\ a.hstate = "general"
      BY <2>1, <2>2 DEF Near, ParserFields, Asserting
    <3> HIDE DEF a
    <3> QED BY <1>1, <1>2, <3>1
  <2>7. ASSUME c \in Digits PROVE Made(q, Digit(q, Dec, c), m + 1)
    BY <1>4, <2>7, DigitMakes, ParserAssumption
  <2> HIDE DEF a
  <2> QED BY <1>1, <2>3, <2>4, <2>5, <2>6, <2>7, FreeStatesAre
<1> QED BY <1>3, <1>4

\* A byte of the body.
LEMMA TakeIs ==
  ASSUME NEW m \in Nat, NEW q, ParserInv(q, m, 1), q.stopped = FALSE, q.state \in Counting
  PROVE  LET r == TakeByte(q, m + 1)
         IN  /\ Near(q, r, m + 1) /\ r.clen \in 0..ULLongMax /\ r.clen # ULLongMax
             /\ r.state = q.state
<1> DEFINE b == MarkBody(q, m + 1)
           d == [b EXCEPT !.clen = @ - 1]
           ok == q.clen \notin {0, ULLongMax}
           r == Asserting(d, ok)
<1>1. /\ Near(q, q, m + 1) /\ q.clen \in 0..ULLongMax /\ FitFor(q.state, q)
  BY LiveIs
<1>2. ok = TRUE
  BY <1>1 DEF FitFor
<1>3. Near(q, b, m + 1) /\ b.state = q.state /\ b.clen = q.clen
  <2>1. m + 1 \in Nat
    OBVIOUS
  <2> DEFINE i == m + 1
  <2> HIDE DEF i
  <2>2. Near(q, MarkBody(q, i), i) /\ MarkBody(q, i).state = q.state
        /\ MarkBody(q, i).clen = q.clen
    BY <1>1, <2>1, MarksAre DEF i
  <2> QED BY <2>2 DEF i
<1> HIDE DEF b
<1>4. Near(q, d, m + 1) /\ d.state = q.state /\ d.clen = q.clen - 1
  BY <1>3 DEF Near, ParserFields
<1>5. TakeByte(q, m + 1) = r
  BY DEF TakeByte, b
<1> HIDE DEF d
<1>6. Near(q, r, m + 1) /\ r.state = q.state /\ r.clen = q.clen - 1
  <2> HIDE DEF ok
  <2> QED BY <1>2, <1>4 DEF Near, ParserFields, Asserting
<1>7. q.clen - 1 \in 0..ULLongMax /\ q.clen - 1 # ULLongMax
  BY <1>1, <1>2, ParserAssumption
<1> HIDE DEF r
<1> QED BY <1>5, <1>6, <1>7

\* The body of a request with a length, and of a chunk.
LEMMA BodyMakes ==
  ASSUME NEW m \in Nat, NEW q, ParserInv(q, m, 1), q.stopped = FALSE, NEW buf
  PROVE  /\ q.state = "body_identity" => Made(q, BodyIdentity(q, buf, m + 1), m + 1)
         /\ q.state = "chunk_data" => Made(q, ChunkData(q, m + 1), m + 1)
<1> DEFINE i == m + 1
           r == TakeByte(q, i)
<1>1. i \in Nat
  OBVIOUS
<1>2. ASSUME q.state \in Counting
      PROVE  /\ Near(q, r, i) /\ r.clen \in 0..ULLongMax /\ r.clen # ULLongMax
             /\ r.state = q.state
  BY <1>2, TakeIs
<1>3. ASSUME q.state \in Counting, r.clen # 0 PROVE Made(q, r, i)
  <2>1. r.state \in States \ {"chunk_size_start"} /\ FitFor(r.state, r)
    <3>1. /\ Near(q, r, i) /\ r.clen \in 0..ULLongMax /\ r.clen # ULLongMax
          /\ r.state = q.state
      BY <1>2, <1>3
    <3> HIDE DEF r, i
    <3> QED BY <1>3, <3>1 DEF States, FitFor, Counting, Sizes
  <2> QED BY <1>2, <1>3, <2>1, StayMakes
<1>4. ASSUME q.state = "body_identity" PROVE Made(q, BodyIdentity(q, buf, i), i)
  <2> DEFINE t == CallBody(r, buf, i + 1)
  <2>1. q.state \in Counting
    BY <1>4 DEF Counting
  <2>2. Near(q, t, i) /\ t.clen = r.clen
    <3>1. Near(q, r, i)
      BY <1>2, <2>1
    <3> HIDE DEF r, i
    <3> QED BY <1>1, <3>1, MarksAre
  <2>3. Made(q, MessageComplete(t), i)
    <3>1. t.clen \in 0..ULLongMax
      BY <1>2, <2>1, <2>2
    <3> HIDE DEF t
    <3> QED BY <2>2, <3>1, CompleteMakes
  <2>4. BodyIdentity(q, buf, i) = IF r.clen = 0 THEN MessageComplete(t) ELSE r
    BY DEF BodyIdentity
  <2> QED BY <1>3, <2>1, <2>3, <2>4
<1>5. ASSUME q.state = "chunk_data" PROVE Made(q, ChunkData(q, i), i)
  <2>1. q.state \in Counting
    BY <1>5 DEF Counting
  <2>2. ASSUME r.clen = 0 PROVE Made(q, Go(r, "chunk_data_almost_done"), i)
    <3>1. Near(q, r, i) /\ r.clen \in 0..ULLongMax
      BY <1>2, <2>1
    <3>2. /\ "chunk_data_almost_done" \in States \ {"chunk_size_start"}
          /\ FitFor("chunk_data_almost_done", r)
      <4> HIDE DEF r
      <4> QED BY <2>2 DEF States, FitFor, Counting, Sizes
    <3> HIDE DEF r
    <3> QED BY <3>1, <3>2, GoMakes
  <2>3. ChunkData(q, i) = IF r.clen = 0 THEN Go(r, "chunk_data_almost_done") ELSE r
    BY DEF ChunkData
  <2> QED BY <1>3, <2>1, <2>2, <2>3
<1> QED BY <1>4, <1>5

\* The line of a chunk's size.
LEMMA ChunkSizeMakes ==
  ASSUME NEW m \in Nat, NEW q, ParserInv(q, m, 1), q.stopped = FALSE, NEW c
  PROVE  /\ q.state = "chunk_size_start" => Made(q, ChunkSizeStart(q, c), m + 1)
         /\ q.state \in Sizes => Made(q, ChunkSize(q, c), m + 1)
         /\ q.state \in Sizes => Made(q, ChunkParameters(q, c), m + 1)
         /\ q.state \in Sizes => Made(q, ChunkSizeAlmostDone(q, c), m + 1)
<1>1. /\ Near(q, q, m + 1) /\ q.clen \in 0..ULLongMax /\ DOMAIN q = ParserFields
      /\ Made(q, Fail(q), m + 1)
  BY BasicsIs
<1>2. FitFor(q.state, q) /\ q.state \in States
  BY LiveIs
<1>3. ASSUME q.state = "chunk_size_start" PROVE Made(q, ChunkSizeStart(q, c), m + 1)
  <2> DEFINE n == IF c \in Digits THEN [q EXCEPT !.clen = Value(c)] ELSE q
             ok == q.nread = 1
             a == Asserting(n, ok)
  <2>1. ok = TRUE
    BY <1>3 DEF ParserInv, Live
  <2>2. Near(q, n, m + 1) /\ (c \in Digits => n.clen = Value(c))
    BY <1>1 DEF Near, ParserFields
  <2>3. ChunkSizeStart(q, c) = IF c \in Digits THEN Go(a, "chunk_size") ELSE Fail(a)
    BY DEF ChunkSizeStart, GoIf
  <2> HIDE DEF ok, n
  <2>4. Near(q, a, m + 1) /\ a.clen = n.clen
    BY <2>1, <2>2 DEF Near, ParserFields, Asserting
  <2>5. Made(q, Fail(a), m + 1)
    <3> HIDE DEF a
    <3> QED BY <2>4, FailMakes
  <2>6. ASSUME c \in Digits PROVE Made(q, Go(a, "chunk_size"), m + 1)
    <3>1. a.clen \in 0..ULLongMax /\ a.clen # ULLongMax
      <4>1. Value(c) \in 0..2
        BY <2>6 DEF Value, Digits
      <4>2. a.clen = Value(c)
        BY <2>2, <2>4, <2>6
      <4> HIDE DEF a
      <4> QED BY <4>1, <4>2, ParserAssumption
    <3> HIDE DEF a
    <3>2. "chunk_size" \in States \ {"chunk_size_start"} /\ FitFor("chunk_size", a)
      BY <3>1 DEF States, FitFor, Counting, Sizes
    <3> QED BY <2>4, <3>1, <3>2, GoMakes
  <2> QED BY <2>3, <2>5, <2>6
<1>4. ASSUME q.state \in Sizes PROVE q.clen # ULLongMax
  BY <1>2, <1>4 DEF FitFor
<1>5. ASSUME q.state \in Sizes, NEW s \in Sizes PROVE Made(q, Go(q, s), m + 1)
  <2>1. s \in States \ {"chunk_size_start"} /\ FitFor(s, q)
    BY <1>4, <1>5 DEF States, FitFor, Counting, Sizes
  <2> QED BY <1>1, <2>1, GoMakes
<1>6. /\ "chunk_size_almost_done" \in Sizes /\ "chunk_parameters" \in Sizes
  BY DEF Sizes
<1>7. ASSUME q.state \in Sizes PROVE Made(q, ChunkSize(q, c), m + 1)
  <2>1. /\ Made(q, Go(q, "chunk_size_almost_done"), m + 1)
        /\ Made(q, Go(q, "chunk_parameters"), m + 1)
    BY <1>5, <1>6, <1>7
  <2>2. c \in Digits => Made(q, Digit(q, Hex, c), m + 1)
    BY <1>7, DigitMakes, ParserAssumption
  <2> QED BY <1>1, <2>1, <2>2 DEF ChunkSize
<1>8. ASSUME q.state \in Sizes PROVE Made(q, ChunkParameters(q, c), m + 1)
  <2>1. Made(q, Go(q, "chunk_size_almost_done"), m + 1)
    BY <1>5, <1>6, <1>8
  <2>2. Made(q, q, m + 1)
    <3>1. q.state \in States \ {"chunk_size_start"}
      BY <1>2, <1>8 DEF Sizes
    <3> QED BY <1>1, <1>2, <3>1, StayMakes
  <2> QED BY <2>1, <2>2 DEF ChunkParameters
<1>9. ASSUME q.state \in Sizes PROVE Made(q, ChunkSizeAlmostDone(q, c), m + 1)
  <2> DEFINE r == [q EXCEPT !.nread = 0]
             t == [r EXCEPT !.flags = @ \cup {"trailing"}]
  <2>1. Near(q, r, m + 1) /\ r.clen = q.clen
    BY <1>1 DEF Near, ParserFields
  <2>2. ChunkSizeAlmostDone(q, c) = IF c # "LF" THEN Fail(q)
          ELSE IF q.clen = 0 THEN Go(t, "header_field_start") ELSE Go(r, "chunk_data")
    BY DEF ChunkSizeAlmostDone
  <2> HIDE DEF r
  <2>3. Near(q, t, m + 1) /\ t.clen = r.clen
    BY <2>1 DEF Near, ParserFields
  <2> HIDE DEF t
  <2>4. Made(q, Go(t, "header_field_start"), m + 1)
    BY <1>1, <2>1, <2>3, FreeIs, GoMakes, FreeStatesAre
  <2>5. ASSUME q.clen # 0 PROVE Made(q, Go(r, "chunk_data"), m + 1)
    <3>1. "chunk_data" \in States \ {"chunk_size_start"} /\ FitFor("chunk_data", r)
      BY <1>4, <1>9, <2>1, <2>5 DEF States, FitFor, Counting, Sizes
    <3> QED BY <1>1, <2>1, <3>1, GoMakes
  <2> QED BY <1>1, <2>2, <2>4, <2>5
<1> QED BY <1>3, <1>7, <1>8, <1>9

\* What ends a chunk.
LEMMA ChunkEndMakes ==
  ASSUME NEW m \in Nat, NEW q, ParserInv(q, m, 1), q.stopped = FALSE, NEW c, NEW buf
  PROVE  /\ q.state = "chunk_data_almost_done" =>
               Made(q, ChunkDataAlmostDone(q, buf, m + 1, c), m + 1)
         /\ Made(q, ChunkDataDone(q, c), m + 1)
<1> DEFINE i == m + 1
<1>1. /\ Near(q, q, i) /\ q.clen \in 0..ULLongMax /\ DOMAIN q = ParserFields
  BY BasicsIs
<1>2. i \in Nat
  OBVIOUS
<1>3. ASSUME q.state = "chunk_data_almost_done"
      PROVE  Made(q, ChunkDataAlmostDone(q, buf, i, c), i)
  <2> DEFINE ok == q.clen = 0
             a == Asserting(q, ok)
             g == Go(a, "chunk_data_done")
             t == CallBody(g, buf, i)
  <2>1. ok = TRUE
    <3>1. FitFor(q.state, q)
      BY LiveIs
    <3> QED BY <1>3, <3>1 DEF FitFor
  <2>2. ChunkDataAlmostDone(q, buf, i, c) = IF c = "CR" THEN t ELSE Fail(a)
    BY DEF ChunkDataAlmostDone
  <2> HIDE DEF ok
  <2>3. Near(q, a, i) /\ a.clen = q.clen
    BY <1>1, <2>1 DEF Near, ParserFields, Asserting
  <2> HIDE DEF a
  <2>4. Near(q, g, i) /\ g.state = "chunk_data_done" /\ g.clen = q.clen
    <3> HIDE DEF i
    <3> QED BY <2>3, GoIs
  <2> HIDE DEF g
  <2>5. Near(q, t, i) /\ t.state = "chunk_data_done" /\ t.clen = q.clen
    <3> HIDE DEF i
    <3> QED BY <1>2, <2>4, MarksAre
  <2> HIDE DEF t
  <2>6. Made(q, Fail(a), i)
    BY <2>3, FailMakes
  <2>7. Made(q, t, i)
    <3>1. t.state \in States \ {"chunk_size_start"} /\ FitFor(t.state, t)
      BY <2>5, FreeIs, FreeStatesAre
    <3> QED BY <1>1, <2>5, <3>1, StayMakes
  <2> QED BY <2>2, <2>6, <2>7
<1>4. Made(q, ChunkDataDone(q, c), i)
  <2> DEFINE r == [q EXCEPT !.nread = 0]
  <2>1. Near(q, r, i) /\ r.clen = q.clen /\ r.nread = 0
    BY <1>1 DEF Near, ParserFields
  <2>2. ChunkDataDone(q, c) = IF c = "LF" THEN Go(r, "chunk_size_start") ELSE Fail(r)
    BY DEF ChunkDataDone, GoIf
  <2> HIDE DEF r
  <2>3. Made(q, Go(r, "chunk_size_start"), i)
    BY <1>1, <2>1, ChunkStartMakes
  <2>4. Made(q, Fail(r), i)
    BY <2>1, FailMakes
  <2> QED BY <2>2, <2>3, <2>4
<1> QED BY <1>3, <1>4

\* The handler of the state.
LEMMA InStateIs ==
  ASSUME NEW q, q.state \in States, NEW buf, NEW i, NEW c
  PROVE  LET r == InState(q, buf, i, c)
             s == q.state
         IN  \/ /\ s \in FreeStates
                /\ \/ r = Dead(q, c) \/ r = StartReq(q, c)
                   \/ r = GoIf(c = "SP", q, "spaces_before_url")
                   \/ r = HttpStart(q, c) \/ r = HttpMinor(q, c) \/ r = LineAlmostDone(q, c)
                   \/ r = SpacesBeforeUrl(q, i, c)
                   \/ r = ParseUrlChar(q, c) \/ r = UrlEnd(q, buf, i, c)
                   \/ r = HeaderFieldStart(q, c) \/ r = HeaderField(q, c)
                   \/ r = HeaderValueStart(q, c) \/ r = HeaderAlmostDone(q, c)
                   \/ r = HeaderValueLws(q, c) \/ r = HeadersAlmostDone(q, c)
                   \/ r = ChunkDataDone(q, c)
             \/ (s = "header_value" /\ r = HeaderValue(q, c))
             \/ (s = "body_identity" /\ r = BodyIdentity(q, buf, i))
             \/ (s = "chunk_data" /\ r = ChunkData(q, i))
             \/ (s = "chunk_size_start" /\ r = ChunkSizeStart(q, c))
             \/ /\ s \in Sizes
                /\ \/ r = ChunkSize(q, c) \/ r = ChunkParameters(q, c)
                   \/ r = ChunkSizeAlmostDone(q, c)
             \/ (s = "chunk_data_almost_done" /\ r = ChunkDataAlmostDone(q, buf, i, c))
<1> DEFINE r == InState(q, buf, i, c)
           s == q.state
<1>1. CASE s \in UrlStates
  <2>1. r = ParseUrlChar(q, c) \/ r = UrlEnd(q, buf, i, c)
    BY <1>1 DEF InState, UrlStates, UrlOpen, UrlDone
  <2> QED BY <1>1, <2>1, FreeStatesAre
<1>2. CASE s \in Counting \cup Sizes
                \cup {"header_value", "chunk_size_start", "chunk_data_almost_done"}
  BY <1>2 DEF InState, UrlStates, UrlOpen, UrlDone, Counting, Sizes
<1>3. CASE s \in FreeStates \ UrlStates
  BY <1>3 DEF InState, UrlStates, UrlOpen, UrlDone, FreeStates
<1> QED BY <1>1, <1>2, <1>3 DEF States

\* A symbol in a state.
LEMMA InStateMakes ==
  ASSUME NEW m \in Nat, NEW q, ParserInv(q, m, 1), q.stopped = FALSE, NEW c, NEW buf
  PROVE  Made(q, InState(q, buf, m + 1, c), m + 1)
<1> DEFINE i == m + 1
           r == InState(q, buf, i, c)
<1>1. q.state \in States
  BY LiveIs
<1>2. \/ /\ q.state \in FreeStates
         /\ \/ r = Dead(q, c) \/ r = StartReq(q, c)
            \/ r = GoIf(c = "SP", q, "spaces_before_url")
            \/ r = HttpStart(q, c) \/ r = HttpMinor(q, c) \/ r = LineAlmostDone(q, c)
            \/ r = SpacesBeforeUrl(q, i, c)
            \/ r = ParseUrlChar(q, c) \/ r = UrlEnd(q, buf, i, c)
            \/ r = HeaderFieldStart(q, c) \/ r = HeaderField(q, c)
            \/ r = HeaderValueStart(q, c) \/ r = HeaderAlmostDone(q, c)
            \/ r = HeaderValueLws(q, c) \/ r = HeadersAlmostDone(q, c)
            \/ r = ChunkDataDone(q, c)
      \/ (q.state = "header_value" /\ r = HeaderValue(q, c))
      \/ (q.state = "body_identity" /\ r = BodyIdentity(q, buf, i))
      \/ (q.state = "chunk_data" /\ r = ChunkData(q, i))
      \/ (q.state = "chunk_size_start" /\ r = ChunkSizeStart(q, c))
      \/ /\ q.state \in Sizes
         /\ \/ r = ChunkSize(q, c) \/ r = ChunkParameters(q, c)
            \/ r = ChunkSizeAlmostDone(q, c)
      \/ (q.state = "chunk_data_almost_done" /\ r = ChunkDataAlmostDone(q, buf, i, c))
  BY <1>1, InStateIs
<1> HIDE DEF r
<1>3. ASSUME q.state \in FreeStates
      PROVE  /\ Made(q, Dead(q, c), i) /\ Made(q, StartReq(q, c), i)
             /\ Made(q, GoIf(c = "SP", q, "spaces_before_url"), i)
             /\ Made(q, HttpStart(q, c), i) /\ Made(q, HttpMinor(q, c), i)
             /\ Made(q, LineAlmostDone(q, c), i) /\ Made(q, SpacesBeforeUrl(q, i, c), i)
             /\ Made(q, ParseUrlChar(q, c), i) /\ Made(q, UrlEnd(q, buf, i, c), i)
             /\ Made(q, HeaderFieldStart(q, c), i) /\ Made(q, HeaderField(q, c), i)
             /\ Made(q, HeaderValueStart(q, c), i) /\ Made(q, HeaderAlmostDone(q, c), i)
             /\ Made(q, HeaderValueLws(q, c), i) /\ Made(q, HeadersAlmostDone(q, c), i)
             /\ Made(q, ChunkDataDone(q, c), i)
  BY <1>3, LineMakes, UrlMakes, FieldMakes, ValueMakes, ChunkEndMakes
<1>4. ASSUME q.state \in FreeStates PROVE Made(q, r, i)
  <2> HIDE DEF i
  <2>1. CASE q.state \notin Sizes \cup {"header_value", "body_identity", "chunk_data",
               "chunk_size_start", "chunk_data_almost_done"}
    BY <1>2, <1>3, <1>4, <2>1
  <2>2. q.state \notin Sizes \cup {"header_value", "body_identity", "chunk_data",
               "chunk_size_start", "chunk_data_almost_done"}
    BY <1>4 DEF FreeStates, UrlStates, UrlOpen, UrlDone, Sizes
  <2> QED BY <2>1, <2>2
<1>5. ASSUME q.state \notin FreeStates PROVE Made(q, r, i)
  <2>1. /\ q.state = "header_value" => Made(q, HeaderValue(q, c), i)
        /\ q.state = "body_identity" => Made(q, BodyIdentity(q, buf, i), i)
        /\ q.state = "chunk_data" => Made(q, ChunkData(q, i), i)
        /\ q.state = "chunk_size_start" => Made(q, ChunkSizeStart(q, c), i)
        /\ q.state \in Sizes => Made(q, ChunkSize(q, c), i)
        /\ q.state \in Sizes => Made(q, ChunkParameters(q, c), i)
        /\ q.state \in Sizes => Made(q, ChunkSizeAlmostDone(q, c), i)
        /\ q.state = "chunk_data_almost_done" =>
             Made(q, ChunkDataAlmostDone(q, buf, i, c), i)
    BY ValueMakes, BodyMakes, ChunkSizeMakes, ChunkEndMakes
  <2> HIDE DEF i
  <2> QED BY <1>2, <1>5, <2>1
<1> QED BY <1>4, <1>5 DEF r

-----------------------------------------------------------------------------
(***************************************************************************)
(* The loop over the buffer.                                               *)
(***************************************************************************)

\* A step of the loop over the buffer.
LEMMA ByteMakes ==
  ASSUME NEW m \in Nat, NEW p, ParserInv(p, m, 0), NEW buf
  PROVE  Made(p, Byte(p, buf, m + 1), m + 1)
<1> DEFINE q == Counted(p)
           r == InState(q, buf, m + 1, buf[m + 1])
<1>1. Byte(p, buf, m + 1) = IF p.stopped THEN p
        ELSE IF q.nread > MaxHeaderSize THEN Fail(q) ELSE r
  BY DEF Byte
<1>2. CASE p.stopped = TRUE
  <2>1. Made(p, p, m + 1)
    BY <1>2 DEF Made, ParserInv
  <2> QED BY <1>1, <1>2, <2>1
<1>3. CASE p.stopped = FALSE
  <2>1. ParserInv(q, m, 1) /\ q.stopped = FALSE /\ q.readAll = p.readAll
    <3>1. CASE p.state \in BodyStates
      BY <1>3, <3>1 DEF Counted, ParserInv, Live, BodyStates
    <3>2. CASE p.state \notin BodyStates
      <4>1. /\ DOMAIN q = ParserFields
            /\ q.asserts = p.asserts /\ q.readAll = p.readAll /\ q.stopped = p.stopped
            /\ q.urlMark = p.urlMark /\ q.bodyMark = p.bodyMark
            /\ q.state = p.state /\ q.clen = p.clen /\ q.hstate = p.hstate
            /\ q.nread = p.nread + 1
        BY <3>2 DEF Counted, ParserInv, ParserFields
      <4> HIDE DEF q
      <4>2. Live(p, 0)
        BY <1>3 DEF ParserInv
      <4>3. q.nread \in Nat /\ (p.nread = 0 => q.nread = 1)
        BY <4>1, <4>2 DEF Live
      <4>4. FitFor(q.state, q)
        BY <4>1, <4>2 DEF FitFor, Live
      <4>5. Live(q, 1)
        BY <4>1, <4>2, <4>3, <4>4 DEF Live
      <4> QED BY <1>3, <4>1, <4>5 DEF ParserInv
    <3> QED BY <3>1, <3>2
  <2> HIDE DEF q
  <2>2. Made(q, Fail(q), m + 1)
    BY <2>1, BasicsIs
  <2>3. Made(q, r, m + 1)
    BY <2>1, InStateMakes
  <2> HIDE DEF r
  <2>4. Made(q, Byte(p, buf, m + 1), m + 1)
    BY <1>1, <1>3, <2>2, <2>3
  <2> QED BY <2>1, <2>4 DEF Made
<1>4. p.stopped \in BOOLEAN
  BY DEF ParserInv
<1> QED BY <1>2, <1>3, <1>4

\* A set of naturals that is not empty has a least element.
LEMMA Least ==
  ASSUME NEW T, T \subseteq Nat, T # {}
  PROVE  \E x \in T : \A y \in T : x <= y
<1> DEFINE R == OpToRel(<, Nat)
<1>1. IsWellFoundedOn(R, Nat)
  BY NatLessThanWellFounded
<1>2. \E x \in T : \A y \in T : ~ (<<y, x>> \in R)
  <2> HIDE DEF R
  <2> QED BY <1>1, WFMin
<1>3. \A x, y \in Nat : <<y, x>> \in R <=> y < x
  BY DEF OpToRel
<1> HIDE DEF R
<1>4. PICK x \in T : \A y \in T : ~ (<<y, x>> \in R)
  BY <1>2
<1>5. ASSUME NEW y \in T PROVE x <= y
  <2>1. x \in Nat /\ y \in Nat
    OBVIOUS
  <2>2. ~ (y < x)
    BY <1>3, <1>4, <2>1
  <2> QED BY <2>1, <2>2
<1> QED BY <1>4, <1>5

\* Induction, with the set of the numbers a fact holds of.
LEMMA Climb ==
  ASSUME NEW L \in Nat, NEW P, 0 \in P,
         \A m \in Nat : m + 1 <= L /\ m \in P => m + 1 \in P
  PROVE  0..L \subseteq P
<1> DEFINE T == (0..L) \ P
<1> SUFFICES ASSUME T # {} PROVE FALSE
  OBVIOUS
<1>1. T \subseteq Nat
  OBVIOUS
<1> HIDE DEF T
<1>2. PICK x \in T : \A y \in T : x <= y
  BY <1>1, Least
<1>3. x \in 0..L /\ x \notin P
  BY DEF T
<1>4. x # 0
  BY <1>3
<1>5. x - 1 \in Nat /\ (x - 1) + 1 = x /\ x - 1 \in 0..L
  BY <1>3, <1>4
<1>6. x - 1 \notin T
  BY <1>1, <1>2
<1>7. x - 1 \in P
  BY <1>5, <1>6 DEF T
<1> QED BY <1>3, <1>5, <1>7

\* The parser's progress over a buffer is defined for each of its bytes.
LEMMA AfterIs ==
  ASSUME NEW buf, Len(buf) \in Nat
  PROVE  /\ After(buf)[0] = Fresh
         /\ \A m \in Nat : m + 1 <= Len(buf) =>
              After(buf)[m + 1] = Byte(After(buf)[m], buf, m + 1)
<1> DEFINE L == Len(buf)
           F(f, k) == [n \in 0..k |-> IF n = 0 THEN Fresh ELSE Byte(f[n - 1], buf, n)]
           P == {k \in 0..L : \E f : f = F(f, k)}
<1>1. 0 \in P
  <2> DEFINE f == [n \in 0..0 |-> Fresh]
  <2>1. f = F(f, 0)
    OBVIOUS
  <2>2. \E h : h = F(h, 0)
    <3> HIDE DEF F, f
    <3> QED BY <2>1
  <2>3. 0 \in 0..L
    OBVIOUS
  <2> HIDE DEF F
  <2> QED BY <2>2, <2>3
<1>2. ASSUME NEW m \in Nat, m + 1 <= L, m \in P PROVE m + 1 \in P
  <2>1. PICK f : f = F(f, m)
    BY <1>2
  <2> DEFINE k == m + 1
             g == [n \in 0..k |-> IF n = k THEN Byte(f[m], buf, k) ELSE f[n]]
  <2>2. k \in 0..L /\ k # 0 /\ k - 1 = m /\ m \in 0..k
    BY <1>2
  <2>3. ASSUME NEW n \in 0..k
        PROVE  g[n] = IF n = 0 THEN Fresh ELSE Byte(g[n - 1], buf, n)
    <3>1. CASE n = k
      BY <2>2, <3>1
    <3>2. CASE n # k
      <4>1. n \in 0..m /\ (n # 0 => n - 1 \in 0..k /\ n - 1 # k)
        BY <3>2
      <4>2. f[n] = IF n = 0 THEN Fresh ELSE Byte(f[n - 1], buf, n)
        BY <2>1, <4>1
      <4>3. g[n] = f[n] /\ (n # 0 => g[n - 1] = f[n - 1])
        BY <3>2, <4>1
      <4> QED BY <4>2, <4>3
    <3> QED BY <3>1, <3>2
  <2>4. g = F(g, k)
    <3>1. g = [n \in 0..k |-> g[n]]
      OBVIOUS
    <3> HIDE DEF g, k
    <3> QED BY <2>3, <3>1
  <2> HIDE DEF g, k
  <2>5. k \in P
    BY <2>2, <2>4
  <2> QED BY <2>5 DEF k
<1>3. L \in P
  <2>1. 0..L \subseteq P
    <3> HIDE DEF P
    <3> QED BY <1>1, <1>2, Climb
  <2> QED BY <2>1
<1>4. After(buf) = CHOOSE f : f = F(f, L)
  BY DEF After
<1>5. (CHOOSE f : f = F(f, L)) = F(CHOOSE f : f = F(f, L), L)
  <2>1. \E f : f = F(f, L)
    BY <1>3
  <2> HIDE DEF F
  <2> QED BY <2>1
<1>6. After(buf) = F(After(buf), L)
  BY <1>4, <1>5
<1>7. \A n \in 0..L : After(buf)[n] = IF n = 0 THEN Fresh ELSE Byte(After(buf)[n - 1], buf, n)
  <2> DEFINE a == After(buf)
  <2> HIDE DEF a
  <2>1. a = F(a, L)
    BY <1>6 DEF a
  <2> QED BY <2>1 DEF a
<1>8. 0 \in 0..L
  OBVIOUS
<1>9. ASSUME NEW m \in Nat, m + 1 <= L
      PROVE  After(buf)[m + 1] = Byte(After(buf)[m], buf, m + 1)
  <2>1. m + 1 \in 0..L /\ m + 1 # 0 /\ (m + 1) - 1 = m
    BY <1>9
  <2> QED BY <1>7, <2>1
<1> QED BY <1>7, <1>8, <1>9

\* The parser's first state.
LEMMA FreshFits == ParserInv(Fresh, 0, 0)
BY ParserAssumption, SMTT(30)
   DEF Fresh, ParserInv, ParserFields, Live, FitFor, Counting, Sizes, States, FreeStates

\* At every byte of every buffer the parser is as its asserts want it.
LEMMA ParserFits ==
  ASSUME NEW buf, Len(buf) \in Nat
  PROVE  \A n \in 0..Len(buf) : ParserInv(After(buf)[n], n, 0)
<1> DEFINE P == {n \in Nat : ParserInv(After(buf)[n], n, 0)}
<1>1. 0 \in P
  BY AfterIs, FreshFits
<1>2. ASSUME NEW m \in Nat, m + 1 <= Len(buf), m \in P PROVE m + 1 \in P
  <2>1. Made(After(buf)[m], Byte(After(buf)[m], buf, m + 1), m + 1)
    BY <1>2, ByteMakes
  <2>2. After(buf)[m + 1] = Byte(After(buf)[m], buf, m + 1)
    BY <1>2, AfterIs
  <2> QED BY <2>1, <2>2 DEF Made
<1> HIDE DEF P
<1>3. 0..Len(buf) \subseteq P
  BY <1>1, <1>2, Climb
<1> QED BY <1>3 DEF P

\* What is handed over at the end of a buffer changes nothing else.
LEMMA LeftoverKeeps ==
  ASSUME NEW m, NEW p, NEW buf, ParserInv(p, m, 0)
  PROVE  /\ Leftover(p, buf).asserts = TRUE
         /\ Leftover(p, buf).readAll = p.readAll
<1> DEFINE u == CallUrl(p, buf, Len(buf) + 1)
<1>1. DOMAIN u = ParserFields /\ u.asserts = TRUE /\ u.readAll = p.readAll
  BY DEF CallUrl, ParserInv, ParserFields
<1>2. Leftover(p, buf) = CallBody(u, buf, Len(buf) + 1)
  BY DEF Leftover
<1> HIDE DEF u
<1> QED BY <1>1, <1>2 DEF CallBody, ParserFields

\* The asserts hold for every buffer.
LEMMA AssertsHold ==
  ASSUME NEW buf, Len(buf) \in Nat
  PROVE  Parse(buf).asserts = TRUE
<1>1. Len(buf) \in 0..Len(buf)
  OBVIOUS
<1>2. ParserInv(After(buf)[Len(buf)], Len(buf), 0)
  BY <1>1, ParserFits
<1> QED BY <1>2, LeftoverKeeps DEF Parse

\* What is marked in the front of a text is the same as in the text.
LEMMA SliceLocal ==
  ASSUME NEW S, NEW s \in Seq(S), NEW n \in 0..Len(s), NEW a \in 1..n, NEW b \in 1..n
  PROVE  SubSeq(SubSeq(s, 1, n), a, b) = SubSeq(s, a, b)
<1>1. Len(s) \in Nat /\ n \in Nat /\ n >= 1 /\ n <= Len(s)
  BY LenProperties
<1>2. 1 \in 1..Len(s) /\ n \in 1..Len(s) /\ a \in 1..(n - 1 + 1) /\ b \in 1..(n - 1 + 1)
  BY <1>1
<1>3. SubSeq(SubSeq(s, 1, n), a, b) = SubSeq(s, 1 + a - 1, 1 + b - 1)
  BY <1>2, SubSeqOfSubSeq
<1>4. 1 + a - 1 = a /\ 1 + b - 1 = b
  BY <1>1
<1> QED BY <1>3, <1>4

\* The front of a text.
LEMMA FrontIs ==
  ASSUME NEW S, NEW s \in Seq(S), NEW n \in 0..Len(s)
  PROVE  /\ SubSeq(s, 1, n) \in Seq(S) /\ Len(SubSeq(s, 1, n)) = n
         /\ \A i \in 1..n : SubSeq(s, 1, n)[i] = s[i]
<1> DEFINE t == SubSeq(s, 1, n)
<1>1. Len(s) \in Nat /\ n \in Nat /\ n <= Len(s) /\ \A i \in 1..Len(s) : s[i] \in S
  BY LenProperties, ElementOfSeq
<1>2. \A i \in 1..n : s[i] \in S
  BY <1>1
<1>3. /\ t \in Seq(S) /\ Len(t) = IF 1 <= n THEN n - 1 + 1 ELSE 0
      /\ \A i \in 1..(n - 1 + 1) : t[i] = s[1 + i - 1]
  BY <1>1, <1>2, SubSeqProperties
<1> HIDE DEF t
<1>4. Len(t) = n
  BY <1>1, <1>3
<1>5. ASSUME NEW i \in 1..n PROVE t[i] = s[i]
  <2>1. i \in 1..(n - 1 + 1) /\ 1 + i - 1 = i
    BY <1>1
  <2> QED BY <1>3, <2>1
<1> QED BY <1>3, <1>4, <1>5 DEF t

\* A callback gives the same, as what it gives has come.
LEMMA CallLocal ==
  ASSUME NEW S, NEW s \in Seq(S), NEW n \in 0..Len(s), NEW b \in 1..n, NEW r
  PROVE  /\ r.urlMark \in 0..b => CallUrl(r, SubSeq(s, 1, n), b + 1) = CallUrl(r, s, b + 1)
         /\ r.bodyMark \in 0..b => CallBody(r, SubSeq(s, 1, n), b + 1) = CallBody(r, s, b + 1)
<1> DEFINE t == SubSeq(s, 1, n)
<1>1. n \in Nat /\ b \in Nat /\ b >= 1 /\ b <= n /\ (b + 1) - 1 = b
  BY LenProperties
<1>2. \A a \in 1..b : SubSeq(t, a, (b + 1) - 1) = SubSeq(s, a, (b + 1) - 1)
  <2> SUFFICES ASSUME NEW a \in 1..b PROVE SubSeq(t, a, b) = SubSeq(s, a, b)
    BY <1>1
  <2>1. a \in 1..n
    BY <1>1
  <2> QED BY <1>1, <2>1, SliceLocal
<1> HIDE DEF t
<1>3. ASSUME r.urlMark \in 0..b PROVE CallUrl(r, t, b + 1) = CallUrl(r, s, b + 1)
  <2>1. r.urlMark # 0 => r.urlMark \in 1..b
    BY <1>1, <1>3
  <2> QED BY <1>2, <2>1 DEF CallUrl
<1>4. ASSUME r.bodyMark \in 0..b PROVE CallBody(r, t, b + 1) = CallBody(r, s, b + 1)
  <2>1. r.bodyMark # 0 => r.bodyMark \in 1..b
    BY <1>1, <1>4
  <2> QED BY <1>2, <2>1 DEF CallBody
<1> QED BY <1>3, <1>4 DEF t

\* A handler reads nothing of the buffer behind its byte.
LEMMA HandlersLocal ==
  ASSUME NEW S, NEW s \in Seq(S), NEW n \in 0..Len(s), NEW m \in Nat, m + 1 <= n,
         NEW q, DOMAIN q = ParserFields, q.urlMark \in 0..m, q.bodyMark \in 0..m, NEW c
  PROVE  LET t == SubSeq(s, 1, n)
             i == m + 1
         IN  /\ UrlEnd(q, t, i, c) = UrlEnd(q, s, i, c)
             /\ BodyIdentity(q, t, i) = BodyIdentity(q, s, i)
             /\ ChunkDataAlmostDone(q, t, i, c) = ChunkDataAlmostDone(q, s, i, c)
<1> DEFINE t == SubSeq(s, 1, n)
           i == m + 1
<1>1. n \in Nat /\ i \in 1..n /\ (m # 0 => m \in 1..n)
  BY LenProperties
<1>2. ASSUME NEW r, r.urlMark \in 0..m PROVE CallUrl(r, t, i) = CallUrl(r, s, i)
  <2>1. CASE m = 0
    <3>1. r.urlMark = 0
      BY <1>2, <2>1
    <3> QED BY <3>1 DEF CallUrl
  <2>2. CASE m # 0
    <3>1. m \in 1..n
      BY <1>1, <2>2
    <3> QED BY <1>2, <3>1, CallLocal
  <2> QED BY <2>1, <2>2
<1>3. ASSUME NEW r, r.bodyMark \in 0..m PROVE CallBody(r, t, i) = CallBody(r, s, i)
  <2>1. CASE m = 0
    <3>1. r.bodyMark = 0
      BY <1>3, <2>1
    <3> QED BY <3>1 DEF CallBody
  <2>2. CASE m # 0
    <3>1. m \in 1..n
      BY <1>1, <2>2
    <3> QED BY <1>3, <3>1, CallLocal
  <2> QED BY <2>1, <2>2
<1>4. ASSUME NEW r, r.bodyMark \in 0..i PROVE CallBody(r, t, i + 1) = CallBody(r, s, i + 1)
  <2> HIDE DEF i
  <2> QED BY <1>1, <1>4, CallLocal
<1>5. i \in Nat /\ i # 0
  OBVIOUS
<1> HIDE DEF t, i
<1>6. UrlEnd(q, t, i, c) = UrlEnd(q, s, i, c)
  <2> DEFINE g == Go(q, "http_start")
             h == Go([q EXCEPT !.v11 = FALSE], "line_almost_done")
             k == Go([q EXCEPT !.v11 = FALSE], "header_field_start")
  <2>1. g.urlMark = q.urlMark /\ h.urlMark = q.urlMark /\ k.urlMark = q.urlMark
    BY DEF Go, ParserFields
  <2>2. \A buf : UrlEnd(q, buf, i, c) =
          CASE c = "SP" -> CallUrl(g, buf, i) [] c = "CR" -> CallUrl(h, buf, i)
            [] c = "LF" -> CallUrl(k, buf, i) [] OTHER -> ParseUrlChar(q, c)
    BY DEF UrlEnd
  <2> HIDE DEF g, h, k
  <2>3. /\ CallUrl(g, t, i) = CallUrl(g, s, i) /\ CallUrl(h, t, i) = CallUrl(h, s, i)
        /\ CallUrl(k, t, i) = CallUrl(k, s, i)
    BY <1>2, <2>1
  <2> QED BY <2>2, <2>3
<1>7. BodyIdentity(q, t, i) = BodyIdentity(q, s, i)
  <2> DEFINE r == TakeByte(q, i)
  <2>1. r.bodyMark \in 0..i
    <3>1. r.bodyMark = IF q.bodyMark = 0 THEN i ELSE q.bodyMark
      BY DEF TakeByte, Asserting, MarkBody, ParserFields
    <3> HIDE DEF r
    <3> QED BY <1>5, <3>1 DEF i
  <2>2. \A buf : BodyIdentity(q, buf, i) =
          IF r.clen = 0 THEN MessageComplete(CallBody(r, buf, i + 1)) ELSE r
    BY DEF BodyIdentity
  <2> HIDE DEF r
  <2> QED BY <1>4, <2>1, <2>2
<1>8. ChunkDataAlmostDone(q, t, i, c) = ChunkDataAlmostDone(q, s, i, c)
  <2> DEFINE a == Asserting(q, q.clen = 0)
             r == Go(a, "chunk_data_done")
  <2>1. r.bodyMark = q.bodyMark
    BY DEF Asserting, Go, ParserFields
  <2>2. \A buf : ChunkDataAlmostDone(q, buf, i, c) =
          IF c = "CR" THEN CallBody(r, buf, i) ELSE Fail(a)
    BY DEF ChunkDataAlmostDone
  <2> HIDE DEF r, a
  <2> QED BY <1>3, <2>1, <2>2
<1> QED BY <1>6, <1>7, <1>8 DEF t, i

\* So a step of the loop is the same in the front of a text.
LEMMA ByteLocal ==
  ASSUME NEW S, NEW s \in Seq(S), NEW n \in 0..Len(s), NEW m \in Nat, m + 1 <= n,
         NEW p, ParserInv(p, m, 0)
  PROVE  Byte(p, SubSeq(s, 1, n), m + 1) = Byte(p, s, m + 1)
<1> DEFINE t == SubSeq(s, 1, n)
           i == m + 1
           q == Counted(p)
           c == s[i]
<1>1. t[i] = c
  <2>1. i \in 1..n
    BY LenProperties
  <2> HIDE DEF i
  <2> QED BY <2>1, FrontIs
<1>2. DOMAIN q = ParserFields /\ q.urlMark \in 0..m /\ q.bodyMark \in 0..m
  BY DEF Counted, ParserInv, ParserFields
<1>3. \A buf : Byte(p, buf, i) = IF p.stopped THEN p
        ELSE IF q.nread > MaxHeaderSize THEN Fail(q) ELSE InState(q, buf, i, buf[i])
  BY DEF Byte
<1> HIDE DEF q, c
<1>4. /\ UrlEnd(q, t, i, c) = UrlEnd(q, s, i, c)
      /\ BodyIdentity(q, t, i) = BodyIdentity(q, s, i)
      /\ ChunkDataAlmostDone(q, t, i, c) = ChunkDataAlmostDone(q, s, i, c)
  BY <1>2, HandlersLocal
<1> HIDE DEF t, i
<1>5. InState(q, t, i, c) = InState(q, s, i, c)
  BY <1>4 DEF InState
<1>6. Byte(p, t, i) = Byte(p, s, i)
  BY <1>1, <1>3, <1>5 DEF c
<1> QED BY <1>6 DEF t, i

\* Parsed again from its first byte, what has come is parsed as far as before.
LEMMA AfterLocal ==
  ASSUME NEW S, NEW s \in Seq(S), NEW n \in 0..Len(s)
  PROVE  \A m \in 0..n : After(SubSeq(s, 1, n))[m] = After(s)[m]
<1> DEFINE t == SubSeq(s, 1, n)
           P == {m \in Nat : After(t)[m] = After(s)[m]}
<1>1. Len(s) \in Nat /\ n \in Nat /\ n <= Len(s)
  BY LenProperties
<1>2. Len(t) = n
  BY FrontIs
<1> HIDE DEF t
<1>3. 0 \in P
  BY <1>1, <1>2, AfterIs
<1>4. ASSUME NEW m \in Nat, m + 1 <= n, m \in P PROVE m + 1 \in P
  <2>1. After(t)[m + 1] = Byte(After(t)[m], t, m + 1)
    BY <1>1, <1>2, <1>4, AfterIs
  <2>2. After(s)[m + 1] = Byte(After(s)[m], s, m + 1)
    <3>1. m + 1 <= Len(s)
      BY <1>1, <1>4
    <3> QED BY <1>1, <3>1, AfterIs
  <2>3. After(t)[m] = After(s)[m]
    BY <1>4
  <2>4. ParserInv(After(s)[m], m, 0)
    <3>1. m \in 0..Len(s)
      BY <1>1, <1>4
    <3> QED BY <1>1, <3>1, ParserFits
  <2>5. Byte(After(s)[m], t, m + 1) = Byte(After(s)[m], s, m + 1)
    BY <1>4, <2>4, ByteLocal DEF t
  <2> QED BY <2>1, <2>2, <2>3, <2>5
<1> HIDE DEF P
<1>5. 0..n \subseteq P
  BY <1>1, <1>3, <1>4, Climb
<1> QED BY <1>5 DEF P, t

\* A request that is whole stays so.
LEMMA WholeStays ==
  ASSUME NEW buf, Len(buf) \in Nat, NEW a \in 0..Len(buf), NEW b \in a..Len(buf),
         After(buf)[a].readAll = TRUE
  PROVE  After(buf)[b].readAll = TRUE
<1> DEFINE P == {m \in Nat : a <= m => After(buf)[m].readAll = TRUE}
<1>1. a \in Nat /\ b \in Nat /\ b <= Len(buf) /\ a <= b
  OBVIOUS
<1>2. 0 \in P
  BY <1>1
<1>3. ASSUME NEW m \in Nat, m + 1 <= Len(buf), m \in P PROVE m + 1 \in P
  <2>1. CASE m + 1 = a
    BY <2>1
  <2>2. CASE m + 1 < a
    BY <1>1, <2>2
  <2>3. CASE a <= m
    <3>1. ParserInv(After(buf)[m], m, 0)
      <4>1. m \in 0..Len(buf)
        BY <1>3
      <4> QED BY <4>1, ParserFits
    <3>2. Made(After(buf)[m], Byte(After(buf)[m], buf, m + 1), m + 1)
      BY <3>1, ByteMakes
    <3>3. After(buf)[m + 1] = Byte(After(buf)[m], buf, m + 1)
      BY <1>3, AfterIs
    <3>4. After(buf)[m].readAll = TRUE
      BY <1>3, <2>3
    <3> QED BY <3>2, <3>3, <3>4 DEF Made
  <2>4. m + 1 = a \/ m + 1 < a \/ a <= m
    BY <1>1
  <2> HIDE DEF P
  <2> QED BY <2>1, <2>2, <2>3, <2>4
<1> HIDE DEF P
<1>4. 0..Len(buf) \subseteq P
  BY <1>2, <1>3, Climb
<1> QED BY <1>1, <1>4 DEF P

\* What the parser says of the front of a text.
LEMMA FrontParsed ==
  ASSUME NEW S, NEW s \in Seq(S), NEW n \in 0..Len(s)
  PROVE  /\ Parse(SubSeq(s, 1, n)).readAll = After(s)[n].readAll
         /\ Parse(SubSeq(s, 1, n)).asserts = TRUE
         /\ After(s)[n].readAll \in BOOLEAN
<1> DEFINE t == SubSeq(s, 1, n)
<1>1. Len(s) \in Nat /\ n \in Nat /\ Len(t) = n
  BY FrontIs, LenProperties
<1>2. After(t)[n] = After(s)[n]
  BY <1>1, AfterLocal
<1>3. ParserInv(After(s)[n], n, 0)
  BY <1>1, ParserFits
<1> HIDE DEF t
<1>4. Parse(t).readAll = After(s)[n].readAll
  <2>1. Parse(t) = Leftover(After(s)[n], t)
    BY <1>1, <1>2 DEF Parse
  <2> DEFINE p == After(s)[n]
  <2> HIDE DEF p
  <2>2. ParserInv(p, n, 0)
    BY <1>3 DEF p
  <2>3. Leftover(p, t).readAll = p.readAll
    BY <2>2, LeftoverKeeps, Zenon
  <2> QED BY <2>1, <2>3, Zenon DEF p
<1>5. Parse(t).asserts = TRUE
  BY <1>1, AssertsHold
<1> QED BY <1>3, <1>4, <1>5 DEF ParserInv, t

\* However a text is cut, the fronts in which a request is whole are the longer ones.
LEMMA FrontsAgree ==
  ASSUME NEW S, NEW s \in Seq(S), NEW a \in 0..Len(s), NEW b \in a..Len(s),
         Parse(SubSeq(s, 1, a)).readAll
  PROVE  Parse(SubSeq(s, 1, b)).readAll
<1>1. Len(s) \in Nat /\ b \in 0..Len(s)
  BY LenProperties
<1>2. After(s)[a].readAll = TRUE
  BY FrontParsed
<1>3. After(s)[b].readAll = TRUE
  BY <1>1, <1>2, WholeStays
<1> QED BY <1>1, <1>3, FrontParsed

-----------------------------------------------------------------------------
(***************************************************************************)
(* The connections, when the parser is right about what their clients send.*)
(***************************************************************************)

\* The parser is right about a script: the request is not whole before its last
\* symbol, and from there on it gives the URL, the body and the reply expected.
\* Of the shorter fronts nothing more is assumed (FrontsAgree), nor of a malformed
\* text but that at its end it is no request.
ScriptFits(s) ==
  LET front(n) == Parse(SubSeq(s.text, 1, n))
  IN  IF s.valid
      THEN /\ ~ front(s.whole - 1).readAll /\ front(s.whole).readAll
           /\ \A n \in s.whole..Len(s.text) :
                [reply |-> Reply(front(n)), url |-> front(n).url, body |-> front(n).body] = s.want
      ELSE ~ front(Len(s.text)).readAll

\* It is right about every script.
AllFit == \A c \in HttpConns : \A s \in Scripts[c] : ScriptFits(s)

\* The texts, and how far they have come and been read.
ArrivedInv ==
  /\ arrived \in [HttpConns -> Nat] /\ inLen \in [HttpConns -> Nat]
  /\ ready \in [HttpConns -> BOOLEAN] /\ isOpen \in [HttpConns -> BOOLEAN]
  /\ ended \in [HttpConns -> BOOLEAN] /\ DOMAIN calls = HttpConns
  /\ \A c \in HttpConns :
       /\ script[c] \in Scripts[c]
       /\ arrived[c] <= Len(script[c].text) /\ inLen[c] <= arrived[c]
  /\ wrapper.asserts = TRUE

\* A request is acted on when what has been read holds it, and then as expected;
\* again only when more comes behind it.
ServedInv ==
  \A c \in HttpConns :
    /\ calls[c] \in Seq({script[c].want})
    /\ calls[c] # <<>> <=> script[c].valid /\ inLen[c] >= script[c].whole
    /\ Len(calls[c]) > 1 => script[c].whole < inLen[c]
    /\ isOpen[c] /\ inLen[c] < arrived[c] => ready[c]
    /\ ~isOpen[c] /\ calls[c] = <<>> => inLen[c] = arrived[c]

\* What a script is.
LEMMA ScriptIs ==
  ASSUME NEW c \in HttpConns, NEW s \in Scripts[c]
  PROVE  /\ s.text \in Seq(Symbols) /\ Len(s.text) \in Nat /\ s.valid \in BOOLEAN
         /\ s.valid => s.whole \in 1..Len(s.text)
BY HttpAssumption, LenProperties DEF ScriptOK

\* What the parser says of what has come of a script.
LEMMA FrontFits ==
  ASSUME AllFit, NEW c \in HttpConns, NEW s \in Scripts[c], NEW n \in 0..Len(s.text)
  PROVE  LET p == Parse(SubSeq(s.text, 1, n))
         IN  /\ p.readAll <=> s.valid /\ n >= s.whole
             /\ p.readAll => [reply |-> Reply(p), url |-> p.url, body |-> p.body] = s.want
<1> DEFINE L == Len(s.text)
           front(k) == Parse(SubSeq(s.text, 1, k))
<1>1. s.text \in Seq(Symbols) /\ L \in Nat /\ (s.valid => s.whole \in 1..L) /\ s.valid \in BOOLEAN
  BY ScriptIs
<1>2. ScriptFits(s)
  BY DEF AllFit
<1>3. \A a \in 0..L : \A b \in a..L : front(a).readAll => front(b).readAll
  BY <1>1, FrontsAgree
<1>4. /\ s.valid => /\ ~ front(s.whole - 1).readAll /\ front(s.whole).readAll
                    /\ \A k \in s.whole..L :
                         [reply |-> Reply(front(k)), url |-> front(k).url,
                          body |-> front(k).body] = s.want
      /\ ~ s.valid => ~ front(L).readAll
  BY <1>2 DEF ScriptFits
<1> HIDE DEF front, L
<1>5. n \in 0..L /\ n \in Nat /\ n <= L
  BY DEF L
<1>6. CASE ~ s.valid
  <2>1. L \in n..L
    BY <1>1, <1>5
  <2>2. ~ front(n).readAll
    BY <1>3, <1>4, <1>5, <1>6, <2>1
  <2> QED BY <1>6, <2>2 DEF front
<1>7. CASE s.valid /\ n < s.whole
  <2>1. s.whole - 1 \in n..L
    BY <1>1, <1>5, <1>7
  <2>2. ~ front(n).readAll
    BY <1>3, <1>4, <1>5, <1>7, <2>1
  <2>3. ~ (n >= s.whole)
    BY <1>1, <1>5, <1>7
  <2> QED BY <2>2, <2>3 DEF front
<1>8. CASE s.valid /\ n >= s.whole
  <2>1. s.whole \in 0..L /\ n \in s.whole..L
    BY <1>1, <1>5, <1>8
  <2>2. front(n).readAll
    BY <1>3, <1>4, <1>8, <2>1
  <2>3. [reply |-> Reply(front(n)), url |-> front(n).url, body |-> front(n).body] = s.want
    BY <1>4, <1>8, <2>1
  <2> QED BY <1>8, <2>2, <2>3 DEF front
<1>9. s.valid => n < s.whole \/ n >= s.whole
  BY <1>1, <1>5
<1> QED BY <1>6, <1>7, <1>8, <1>9

\* Nothing has come at first.
LEMMA InitArrived == HttpInit => ArrivedInv
<1> SUFFICES ASSUME HttpInit PROVE ArrivedInv
  OBVIOUS
<1>1. \A c \in HttpConns : script[c] \in Scripts[c]
  BY DEF HttpInit
<1>2. \A c \in HttpConns : 0 <= Len(script[c].text)
  BY <1>1, ScriptIs
<1>3. wrapper.asserts = TRUE
  BY DEF HttpInit, Fresh
<1> QED BY <1>1, <1>2, <1>3 DEF HttpInit, ArrivedInv

\* And nothing is acted on.
LEMMA InitServed == HttpInit => ServedInv
<1> SUFFICES ASSUME HttpInit, NEW c \in HttpConns
             PROVE  /\ calls[c] \in Seq({script[c].want})
                    /\ calls[c] # <<>> <=> script[c].valid /\ inLen[c] >= script[c].whole
                    /\ Len(calls[c]) > 1 => script[c].whole < inLen[c]
                    /\ isOpen[c] /\ inLen[c] < arrived[c] => ready[c]
                    /\ ~isOpen[c] /\ calls[c] = <<>> => inLen[c] = arrived[c]
  BY DEF ServedInv
<1>1. script[c] \in Scripts[c] /\ calls[c] = <<>> /\ inLen[c] = 0 /\ arrived[c] = 0 /\ isOpen[c]
  BY DEF HttpInit
<1>2. script[c].valid => ~ (0 >= script[c].whole)
  BY <1>1, ScriptIs
<1>3. calls[c] \in Seq({script[c].want}) /\ Len(calls[c]) = 0
  BY <1>1, EmptySeq
<1> QED BY <1>1, <1>2, <1>3

\* What a read leaves, whatever the parser says of it.
LEMMA ReadOpens ==
  ASSUME ArrivedInv, NEW c \in HttpConns, NEW keeps \in BOOLEAN, OnReadHttp(c, keeps)
  PROVE  LET w == Parse(SubSeq(script[c].text, 1, arrived[c]))
             call == [reply |-> Reply(w), url |-> w.url, body |-> w.body]
         IN  /\ inLen[c] < arrived[c] /\ isOpen[c]
             /\ inLen' = [inLen EXCEPT ![c] = arrived[c]]
             /\ ready' = [ready EXCEPT ![c] = FALSE]
             /\ calls' = IF w.readAll THEN [calls EXCEPT ![c] = Append(@, call)] ELSE calls
             /\ \E open \in BOOLEAN : isOpen' = [isOpen EXCEPT ![c] = open]
             /\ wrapper' = w /\ wrapper'.asserts = TRUE
             /\ UNCHANGED clientVars
<1> DEFINE s == script[c]
           w == Parse(SubSeq(s.text, 1, arrived[c]))
           call == [reply |-> Reply(w), url |-> w.url, body |-> w.body]
<1>1. s \in Scripts[c] /\ arrived[c] \in 0..Len(s.text) /\ s.text \in Seq(Symbols)
  <2>1. s \in Scripts[c] /\ arrived[c] \in Nat /\ arrived[c] <= Len(s.text)
    BY DEF ArrivedInv
  <2>2. s.text \in Seq(Symbols) /\ Len(s.text) \in Nat
    BY <2>1, ScriptIs
  <2> QED BY <2>1, <2>2
<1>2. w.asserts = TRUE
  <2> HIDE DEF s
  <2> QED BY <1>1, FrontParsed
<1>3. wrapper' = w
  BY DEF OnReadHttp, ParseContent, InBuffer
<1>4. /\ inLen[c] < arrived[c] /\ isOpen[c]
      /\ inLen' = [inLen EXCEPT ![c] = arrived[c]]
      /\ ready' = [ready EXCEPT ![c] = FALSE]
      /\ UNCHANGED clientVars
  BY DEF OnReadHttp, Available
<1>5. IF wrapper'.readAll
      THEN LET reply == Reply(wrapper')
           IN  /\ calls' = [calls EXCEPT ![c] = Append(@,
                    [reply |-> reply, url |-> wrapper'.url, body |-> wrapper'.body])]
               /\ isOpen' = [isOpen EXCEPT ![c] = reply = "handler" /\ keeps /\ ~ended[c]]
      ELSE /\ isOpen' = [isOpen EXCEPT ![c] = ~ended[c]]
           /\ UNCHANGED calls
  BY DEF OnReadHttp
<1> HIDE DEF w
<1>6. calls' = IF w.readAll THEN [calls EXCEPT ![c] = Append(@, call)] ELSE calls
  BY <1>3, <1>5
<1>7. \E open \in BOOLEAN : isOpen' = [isOpen EXCEPT ![c] = open]
  <2> DEFINE a == (Reply(w) = "handler" /\ keeps /\ ~ended[c])
             b == ~ended[c]
  <2>1. isOpen' = [isOpen EXCEPT ![c] = a] \/ isOpen' = [isOpen EXCEPT ![c] = b]
    BY <1>3, <1>5
  <2>2. a \in BOOLEAN /\ b \in BOOLEAN
    OBVIOUS
  <2> HIDE DEF a, b
  <2> QED BY <2>1, <2>2
<1> QED BY <1>2, <1>3, <1>4, <1>6, <1>7 DEF w

\* What a read leaves when the parser is right about the scripts.
LEMMA ReadIs ==
  ASSUME AllFit, ArrivedInv, NEW c \in HttpConns, NEW keeps \in BOOLEAN, OnReadHttp(c, keeps)
  PROVE  LET s == script[c]
             done == s.valid /\ arrived[c] >= s.whole
         IN  calls' = IF done THEN [calls EXCEPT ![c] = Append(@, s.want)] ELSE calls
<1> DEFINE s == script[c]
           w == Parse(SubSeq(s.text, 1, arrived[c]))
           call == [reply |-> Reply(w), url |-> w.url, body |-> w.body]
           done == s.valid /\ arrived[c] >= s.whole
<1>1. s \in Scripts[c] /\ arrived[c] \in 0..Len(s.text)
  <2>1. s \in Scripts[c] /\ arrived[c] \in Nat /\ arrived[c] <= Len(s.text)
    BY DEF ArrivedInv
  <2>2. Len(s.text) \in Nat
    BY <2>1, ScriptIs
  <2> QED BY <2>1, <2>2
<1>2. (w.readAll <=> done) /\ (w.readAll => call = s.want)
  <2> HIDE DEF s
  <2> QED BY <1>1, FrontFits
<1>3. calls' = IF w.readAll THEN [calls EXCEPT ![c] = Append(@, call)] ELSE calls
  BY ReadOpens
<1> HIDE DEF call, w
<1> QED BY <1>2, <1>3

\* No step sends a text further than its end, or reads what has not come.
LEMMA StepArrived ==
  ASSUME ArrivedInv, [HttpNext]_httpVars
  PROVE  ArrivedInv'
<1>1. ASSUME NEW c \in HttpConns, Arrive(c) PROVE ArrivedInv'
  <2>1. PICK n \in (arrived[c] + 1)..Len(script[c].text) :
          arrived' = [arrived EXCEPT ![c] = n]
    BY <1>1 DEF Arrive
  <2>2. Len(script[c].text) \in Nat
    BY ScriptIs DEF ArrivedInv
  <2>3. n \in Nat /\ n <= Len(script[c].text) /\ arrived[c] < n
    BY <2>1, <2>2 DEF ArrivedInv
  <2>4. /\ ready' = [ready EXCEPT ![c] = TRUE]
        /\ UNCHANGED <<script, ended, inLen, isOpen, wrapper, calls>>
    BY <1>1 DEF Arrive
  <2>5. ASSUME NEW d \in HttpConns
        PROVE  /\ script[d] \in Scripts[d] /\ arrived'[d] <= Len(script[d].text)
               /\ inLen[d] <= arrived'[d]
    <3>1. CASE d = c
      BY <2>1, <2>3, <3>1 DEF ArrivedInv
    <3>2. CASE d # c
      BY <2>1, <3>2 DEF ArrivedInv
    <3> QED BY <3>1, <3>2
  <2>6. arrived' \in [HttpConns -> Nat] /\ ready' \in [HttpConns -> BOOLEAN]
    BY <2>1, <2>3, <2>4 DEF ArrivedInv
  <2> QED BY <2>4, <2>5, <2>6 DEF ArrivedInv
<1>2. ASSUME NEW c \in HttpConns, ClientEnds(c) PROVE ArrivedInv'
  BY <1>2 DEF ClientEnds, ArrivedInv
<1>3. ASSUME NEW c \in HttpConns, NEW keeps \in BOOLEAN, OnReadHttp(c, keeps) PROVE ArrivedInv'
  <2>1. /\ inLen' = [inLen EXCEPT ![c] = arrived[c]]
        /\ ready' = [ready EXCEPT ![c] = FALSE]
        /\ \E open \in BOOLEAN : isOpen' = [isOpen EXCEPT ![c] = open]
        /\ wrapper'.asserts = TRUE
        /\ UNCHANGED clientVars
    BY <1>3, ReadOpens
  <2>2. \/ calls' = calls \/ \E k : calls' = [calls EXCEPT ![c] = k]
    BY <1>3 DEF OnReadHttp
  <2>3. DOMAIN calls' = HttpConns
    BY <2>2 DEF ArrivedInv
  <2>4. inLen' \in [HttpConns -> Nat] /\ ready' \in [HttpConns -> BOOLEAN]
        /\ isOpen' \in [HttpConns -> BOOLEAN]
    BY <2>1 DEF ArrivedInv
  <2>5. ASSUME NEW d \in HttpConns PROVE inLen'[d] <= arrived[d]
    BY <2>1 DEF ArrivedInv
  <2> QED BY <2>1, <2>3, <2>4, <2>5 DEF ArrivedInv, clientVars
<1>4. ASSUME NEW c \in HttpConns, OnEof(c) PROVE ArrivedInv'
  BY <1>4 DEF OnEof, ArrivedInv, clientVars
<1>5. ASSUME NEW c \in HttpConns, AnswerLater(c) PROVE ArrivedInv'
  BY <1>5 DEF AnswerLater, ArrivedInv, clientVars
<1>6. CASE UNCHANGED httpVars
  BY <1>6 DEF httpVars, ArrivedInv
<1> QED BY <1>1, <1>2, <1>3, <1>4, <1>5, <1>6 DEF HttpNext, ReadEvent

\* Every connection has a script, and a place in it.
LEMMA ScriptTyped ==
  ASSUME ArrivedInv, NEW c \in HttpConns
  PROVE  /\ arrived[c] \in Nat /\ inLen[c] \in Nat /\ inLen[c] <= arrived[c]
         /\ Len(script[c].text) \in Nat /\ arrived[c] <= Len(script[c].text)
         /\ script[c].valid => script[c].whole \in Nat
         /\ script[c].valid \in BOOLEAN
<1>1. /\ arrived[c] \in Nat /\ inLen[c] \in Nat /\ inLen[c] <= arrived[c]
      /\ script[c] \in Scripts[c] /\ arrived[c] <= Len(script[c].text)
  BY DEF ArrivedInv
<1>2. /\ Len(script[c].text) \in Nat /\ script[c].valid \in BOOLEAN
      /\ script[c].valid => script[c].whole \in 1..Len(script[c].text)
  BY <1>1, ScriptIs
<1>3. script[c].valid => script[c].whole \in Nat
  BY <1>2
<1> QED BY <1>1, <1>2, <1>3

\* No step answers too early, twice or not at all.
LEMMA StepServed ==
  ASSUME AllFit, ArrivedInv, ServedInv, [HttpNext]_httpVars
  PROVE  ServedInv'
<1> DEFINE Of(d) == /\ calls[d] \in Seq({script[d].want})
                    /\ calls[d] # <<>> <=> script[d].valid /\ inLen[d] >= script[d].whole
                    /\ Len(calls[d]) > 1 => script[d].whole < inLen[d]
                    /\ isOpen[d] /\ inLen[d] < arrived[d] => ready[d]
                    /\ ~isOpen[d] /\ calls[d] = <<>> => inLen[d] = arrived[d]
           Same(d) == /\ calls'[d] = calls[d] /\ script'[d] = script[d] /\ inLen'[d] = inLen[d]
                      /\ isOpen'[d] = isOpen[d] /\ arrived'[d] = arrived[d]
                      /\ ready'[d] = ready[d]
<1>1. \A d \in HttpConns : Of(d)
  BY DEF ServedInv
<1>2. ASSUME \A d \in HttpConns : Of(d)' PROVE ServedInv'
  BY <1>2 DEF ServedInv
<1>3. ASSUME NEW d \in HttpConns, Same(d) PROVE Of(d)'
  BY <1>1, <1>3
<1>4. \A d \in HttpConns : /\ arrived[d] \in Nat /\ inLen[d] \in Nat /\ inLen[d] <= arrived[d]
                           /\ script[d].valid => script[d].whole \in Nat
                           /\ script[d].valid \in BOOLEAN
  BY ScriptTyped
<1>5. ASSUME NEW c \in HttpConns, Arrive(c) PROVE ServedInv'
  <2>1. PICK n \in (arrived[c] + 1)..Len(script[c].text) :
          arrived' = [arrived EXCEPT ![c] = n]
    BY <1>5 DEF Arrive
  <2>2. /\ ready' = [ready EXCEPT ![c] = TRUE] /\ isOpen[c]
        /\ UNCHANGED <<script, ended, inLen, isOpen, wrapper, calls>>
    BY <1>5 DEF Arrive
  <2>3. ASSUME NEW d \in HttpConns PROVE Of(d)'
    <3>1. CASE d = c
      <4>1. Of(c)
        BY <1>1
      <4>2. ready'[c] = TRUE
        BY <2>2 DEF ArrivedInv
      <4> QED BY <2>2, <3>1, <4>1, <4>2
    <3>2. CASE d # c
      <4>1. Same(d)
        BY <2>1, <2>2, <3>2 DEF ArrivedInv
      <4> QED BY <1>3, <4>1
    <3> QED BY <3>1, <3>2
  <2> HIDE DEF Of
  <2> QED BY <1>2, <2>3
<1>6. ASSUME NEW c \in HttpConns, ClientEnds(c) PROVE ServedInv'
  <2>1. ASSUME NEW d \in HttpConns PROVE Of(d)'
    <3>1. Of(d)
      BY <1>1
    <3>2. /\ ready' = [ready EXCEPT ![c] = TRUE]
          /\ UNCHANGED <<script, arrived, pieces, inLen, isOpen, wrapper, calls>>
      BY <1>6 DEF ClientEnds
    <3>3. ready[d] => ready'[d]
      BY <3>2 DEF ArrivedInv
    <3> QED BY <3>1, <3>2, <3>3
  <2> HIDE DEF Of
  <2> QED BY <1>2, <2>1
<1>7. ASSUME NEW c \in HttpConns, NEW keeps \in BOOLEAN, OnReadHttp(c, keeps) PROVE ServedInv'
  <2> DEFINE s == script[c]
             done == s.valid /\ arrived[c] >= s.whole
  <2>1. /\ inLen[c] < arrived[c] /\ isOpen[c]
        /\ inLen' = [inLen EXCEPT ![c] = arrived[c]]
        /\ ready' = [ready EXCEPT ![c] = FALSE]
        /\ calls' = IF done THEN [calls EXCEPT ![c] = Append(@, s.want)] ELSE calls
        /\ \E open \in BOOLEAN : isOpen' = [isOpen EXCEPT ![c] = open]
        /\ UNCHANGED clientVars
    BY <1>7, ReadIs, ReadOpens
  <2>2. /\ inLen'[c] = arrived[c] /\ arrived' = arrived /\ script' = script
        /\ calls'[c] = IF done THEN Append(calls[c], s.want) ELSE calls[c]
    BY <2>1 DEF ArrivedInv, clientVars
  <2>3. ASSUME NEW d \in HttpConns, d # c PROVE Of(d)'
    <3>1. Same(d)
      BY <2>1, <2>3 DEF ArrivedInv, clientVars
    <3> QED BY <1>3, <2>3, <3>1
  <2>4. Of(c)
    BY <1>1
  <2>5. /\ arrived[c] \in Nat /\ inLen[c] \in Nat /\ inLen[c] <= arrived[c]
        /\ s.valid => s.whole \in Nat
    BY <1>4
  <2>6. CASE done
    <3>1. /\ Append(calls[c], s.want) \in Seq({s.want})
          /\ Append(calls[c], s.want) # <<>>
          /\ Len(Append(calls[c], s.want)) = Len(calls[c]) + 1
      <4>1. calls[c] \in Seq({s.want}) /\ s.want \in {s.want}
        BY <2>4
      <4> HIDE DEF s
      <4> QED BY <4>1, AppendProperties
    <3>2. Len(calls'[c]) > 1 => s.whole < inLen'[c]
      <4>1. ASSUME Len(calls'[c]) > 1 PROVE s.whole < arrived[c]
        <5>1. calls[c] # <<>>
          <6>1. Len(<<>>) + 1 = 1
            OBVIOUS
          <6> QED BY <2>2, <2>6, <3>1, <4>1, <6>1
        <5>2. inLen[c] >= s.whole
          BY <2>4, <5>1
        <5> QED BY <2>1, <2>5, <2>6, <5>2
      <4> QED BY <2>2, <4>1
    <3>3. calls'[c] \in Seq({s.want}) /\ calls'[c] # <<>>
      BY <2>2, <2>6, <3>1
    <3>4. ~ (inLen'[c] < arrived'[c])
      BY <2>2, <2>5
    <3>5. Of(c)'
      BY <2>2, <2>6, <3>2, <3>3, <3>4
    <3> HIDE DEF Of
    <3> QED BY <1>2, <2>3, <3>5
  <2>7. CASE ~ done
    <3>1. calls'[c] = calls[c]
      BY <2>2, <2>7
    <3>2. calls[c] = <<>>
      <4>1. ASSUME calls[c] # <<>> PROVE FALSE
        <5>1. s.valid /\ inLen[c] >= s.whole
          BY <2>4, <4>1
        <5> QED BY <2>5, <2>7, <5>1
      <4> QED BY <4>1
    <3>3. ~ (Len(<<>>) > 1)
      OBVIOUS
    <3>4. ~ (inLen'[c] < arrived'[c])
      BY <2>2, <2>5
    <3>5. ~ (script'[c].valid /\ inLen'[c] >= script'[c].whole)
      BY <2>2, <2>7
    <3>6. calls'[c] \in Seq({script'[c].want})
      BY <2>2, <2>4, <3>1
    <3>7. Of(c)'
      BY <2>2, <3>1, <3>2, <3>3, <3>4, <3>5, <3>6
    <3> HIDE DEF Of
    <3> QED BY <1>2, <2>3, <3>7
  <2> QED BY <2>6, <2>7
<1>8. ASSUME NEW c \in HttpConns, OnEof(c) PROVE ServedInv'
  <2>1. /\ ~ (inLen[c] < arrived[c]) /\ isOpen' = [isOpen EXCEPT ![c] = FALSE]
        /\ ready' = [ready EXCEPT ![c] = FALSE]
        /\ UNCHANGED <<script, arrived, inLen, calls>>
    BY <1>8 DEF OnEof, Available, clientVars
  <2>2. ASSUME NEW d \in HttpConns PROVE Of(d)'
    <3>1. CASE d = c
      <4>1. inLen[c] = arrived[c]
        BY <1>4, <2>1
      <4>2. isOpen'[c] = FALSE
        BY <2>1 DEF ArrivedInv
      <4>3. Of(c)
        BY <1>1
      <4> QED BY <2>1, <3>1, <4>1, <4>2, <4>3
    <3>2. CASE d # c
      <4>1. Same(d)
        BY <2>1, <3>2 DEF ArrivedInv
      <4> QED BY <1>3, <4>1
    <3> QED BY <3>1, <3>2
  <2> HIDE DEF Of
  <2> QED BY <1>2, <2>2
<1>9. ASSUME NEW c \in HttpConns, AnswerLater(c) PROVE ServedInv'
  <2>1. /\ calls[c] # <<>> /\ isOpen' = [isOpen EXCEPT ![c] = FALSE]
        /\ UNCHANGED <<script, arrived, ready, inLen, calls>>
    BY <1>9 DEF AnswerLater, clientVars
  <2>2. ASSUME NEW d \in HttpConns PROVE Of(d)'
    <3>1. CASE d = c
      <4>1. Of(c)
        BY <1>1
      <4>2. isOpen'[c] = FALSE
        BY <2>1 DEF ArrivedInv
      <4> QED BY <2>1, <3>1, <4>1, <4>2
    <3>2. CASE d # c
      <4>1. Same(d)
        BY <2>1, <3>2 DEF ArrivedInv
      <4> QED BY <1>3, <4>1
    <3> QED BY <3>1, <3>2
  <2> HIDE DEF Of
  <2> QED BY <1>2, <2>2
<1>10. CASE UNCHANGED httpVars
  BY <1>10 DEF httpVars, ServedInv
<1> QED BY <1>5, <1>6, <1>7, <1>8, <1>9, <1>10 DEF HttpNext, ReadEvent

-----------------------------------------------------------------------------
(***************************************************************************)
(* The theorems.                                                           *)
(***************************************************************************)

\* The inductive invariant of the connections.
HttpInv == ArrivedInv /\ ServedInv

\* It holds at first and every step keeps it.
LEMMA HttpInvariance ==
  ASSUME AllFit PROVE HttpSpec => []HttpInv
<1>1. HttpInit => HttpInv
  BY InitArrived, InitServed DEF HttpInv
<1>2. HttpInv /\ [HttpNext]_httpVars => HttpInv'
  BY StepArrived, StepServed DEF HttpInv
<1> QED BY <1>1, <1>2, PTL DEF HttpSpec

\* No assert of http_parser_execute fails, whatever the clients send, malformed or
\* not, and however it is cut.
THEOREM ParserNeverAsserts == HttpSpec => []ParserAsserts
<1>1. HttpInit => ArrivedInv
  BY InitArrived
<1>2. ArrivedInv /\ [HttpNext]_httpVars => ArrivedInv'
  BY StepArrived
<1>3. ArrivedInv => ParserAsserts
  BY DEF ArrivedInv, ParserAsserts
<1> QED BY <1>1, <1>2, <1>3, PTL DEF HttpSpec

\* OnRead hands a request over only when it is whole, with the URL and the body of
\* its own client.
THEOREM RequestsExact ==
  ASSUME AllFit PROVE HttpSpec => []RequestExact
<1>1. HttpInv => RequestExact
  <2> SUFFICES ASSUME HttpInv, NEW c \in HttpConns, calls[c] # <<>>
               PROVE  /\ script[c].valid /\ arrived[c] >= script[c].whole
                      /\ \A k \in 1..Len(calls[c]) : calls[c][k] = script[c].want
    BY DEF RequestExact
  <2>1. script[c].valid /\ inLen[c] >= script[c].whole /\ calls[c] \in Seq({script[c].want})
    BY DEF HttpInv, ServedInv
  <2>2. script[c].whole \in Nat
    BY <2>1, ScriptTyped DEF HttpInv
  <2>3. arrived[c] >= script[c].whole
    BY <2>1, <2>2 DEF HttpInv, ArrivedInv
  <2>4. \A k \in 1..Len(calls[c]) : calls[c][k] = script[c].want
    BY <2>1, ElementOfSeq
  <2> QED BY <2>1, <2>3, <2>4
<1> QED BY <1>1, HttpInvariance, PTL

\* Bytes parsed again are not a second request.
THEOREM RequestsActedOnce ==
  ASSUME AllFit PROVE HttpSpec => []ActedOnce
<1>1. HttpInv => ActedOnce
  <2> SUFFICES ASSUME HttpInv, NEW c \in HttpConns, Len(calls[c]) > 1
               PROVE  script[c].valid /\ script[c].whole < Len(script[c].text)
    BY DEF ActedOnce
  <2>1. calls[c] # <<>>
    OBVIOUS
  <2>2. script[c].valid /\ script[c].whole < inLen[c]
    BY <2>1 DEF HttpInv, ServedInv
  <2>3. /\ script[c].whole \in Nat /\ Len(script[c].text) \in Nat
        /\ inLen[c] \in Nat /\ arrived[c] \in Nat
        /\ inLen[c] <= arrived[c] /\ arrived[c] <= Len(script[c].text)
    BY <2>2, ScriptTyped DEF HttpInv
  <2> QED BY <2>2, <2>3
<1> QED BY <1>1, HttpInvariance, PTL

\* A whole request is acted on by the read that gets its last byte.
THEOREM RequestsServed ==
  ASSUME AllFit PROVE HttpSpec => []RequestServed
<1>1. HttpInv => RequestServed
  BY DEF HttpInv, ServedInv, RequestServed
<1> QED BY <1>1, HttpInvariance, PTL
=============================================================================
