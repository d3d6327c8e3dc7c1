------------------------------ MODULE RecvPath ------------------------------
(***************************************************************************)
(* From the kernel's receive buffer to HandlePkt: BaseSocket::OnRead,      *)
(* BaseConn::_RecvData into m_in_buf and _ParsePkt, which cuts packets at  *)
(* the length in their header, for a peer that sends well-formed and       *)
(* malformed packets, closes, and whose segments split anywhere.           *)
(*                                                                         *)
(* A byte is a pair: the packet it belongs to and its place in it.  Only   *)
(* the kinds of packets are told apart; a handler may close the            *)
(* connection.  One recv() and one turn of _ParsePkt are one step each.    *)
(***************************************************************************)
EXTENDS SimpleBuffer

CONSTANTS
  HeaderLen,    \* PKT_HEADER_LEN
  ReadBufSize,  \* kReadBufSize
  Kinds,        \* of the packets the peer sends, a subset of AllKinds
  MaxPkts       \* bound: packets the peer sends

\* What the peer puts on the wire: a heartbeat; a length below that of a
\* header; an id that is none; a heartbeat with a body; a length that never comes.
AllKinds == {"ok", "short", "unknown", "body", "huge"}

ASSUME RecvAssumption ==
  /\ HeaderLen \in Nat \ {0} /\ ReadBufSize \in Nat \ {0}
  /\ Kinds \subseteq AllKinds /\ MaxPkts \in Nat

VARIABLES
  stream,   \* the kinds of the packets the peer has sent
  flight,   \* bytes under way to us
  rcvBuf,   \* the kernel's receive buffer
  fin,      \* the kernel has the peer's FIN
  rcvEdge,  \* an event of the socket is pending in epoll
  inBuf,    \* m_in_buf
  readPc,   \* "idle", "recv" in _RecvData, "parse" in _ParsePkt, "end" of OnRead
  state,    \* m_state: "connected", "peer_closing", "closing"
  handled   \* history: packets given to HandlePkt

peerVars == <<stream, flight, rcvBuf, fin>>
recvVars == <<peerVars, rcvEdge, inBuf, readPc, state, handled>>

RecvInit ==
  /\ stream = <<>> /\ flight = <<>> /\ rcvBuf = <<>> /\ fin = FALSE /\ rcvEdge = FALSE
  /\ inBuf = Empty /\ readPc = "idle" /\ state = "connected" /\ handled = <<>>

Open == state # "closing"

BytesOf(kind) == IF kind = "body" THEN HeaderLen + 1 ELSE HeaderLen
Packet(n, kind) == [i \in 1..BytesOf(kind) |-> <<n, i>>]

\* The length its header claims.
Claims(kind) ==
  CASE kind = "short" -> HeaderLen - 1
    [] kind = "huge"  -> 2 * MaxPkts * HeaderLen
    [] OTHER          -> BytesOf(kind)

-----------------------------------------------------------------------------
(***************************************************************************)
(* The peer and the kernel: every arrival raises an edge, the FIN comes    *)
(* after all bytes.                                                        *)
(***************************************************************************)

PeerSends(kind) ==
  /\ ~fin /\ Len(stream) < MaxPkts
  /\ stream' = Append(stream, kind)
  /\ flight' = flight \o Packet(Len(stream) + 1, kind)
  /\ UNCHANGED <<rcvBuf, fin, rcvEdge, inBuf, readPc, state, handled>>

KernelGets ==
  /\ Open /\ flight # <<>>
  /\ \E n \in 1..Len(flight) :
       /\ rcvBuf' = rcvBuf \o SubSeq(flight, 1, n)
       /\ flight' = SubSeq(flight, n + 1, Len(flight))
  /\ rcvEdge' = TRUE
  /\ UNCHANGED <<stream, fin, inBuf, readPc, state, handled>>

PeerCloses ==
  /\ Open /\ ~fin /\ flight = <<>>
  /\ fin' = TRUE /\ rcvEdge' = TRUE
  /\ UNCHANGED <<stream, flight, rcvBuf, inBuf, readPc, state, handled>>

-----------------------------------------------------------------------------
(***************************************************************************)
(* The IO thread.                                                          *)
(***************************************************************************)

\* BaseConn::Close: m_state becomes closing and m_handle invalid.
CloseConn == state' = "closing" /\ rcvEdge' = FALSE

\* epoll_wait reports what the socket is ready for now; without EPOLLIN the
\* event is for OnWrite.
TakeEvent ==
  /\ readPc = "idle" /\ Open /\ rcvEdge /\ rcvBuf = <<>> /\ ~fin
  /\ rcvEdge' = FALSE
  /\ UNCHANGED <<peerVars, inBuf, readPc, state, handled>>

\* FIONREAD says zero: the peer has closed.
NothingToRead == rcvBuf = <<>> /\ fin

OnReadEof ==
  /\ readPc = "idle" /\ Open /\ rcvEdge /\ NothingToRead
  /\ CloseConn
  /\ UNCHANGED <<peerVars, inBuf, readPc, handled>>

OnRead ==
  /\ readPc = "idle" /\ Open /\ rcvEdge /\ rcvBuf # <<>>
  /\ rcvEdge' = FALSE
  /\ readPc' = "recv"
  /\ UNCHANGED <<peerVars, inBuf, state, handled>>

MakeRoom(b) == IF WritableLen(b) < ReadBufSize THEN Extend(b, ReadBufSize) ELSE b

Received == SubSeq(rcvBuf, 1, IF Len(rcvBuf) < ReadBufSize THEN Len(rcvBuf) ELSE ReadBufSize)

LoopAgainFaulty == "parse"
LoopAgain == "recv"

\* Recv has something: once more round the loop.
RecvSome ==
  /\ readPc = "recv" /\ rcvBuf # <<>>
  /\ inBuf' = IncWriteOffset(Store(MakeRoom(inBuf), Received), Len(Received))
  /\ rcvBuf' = SubSeq(rcvBuf, Len(Received) + 1, Len(rcvBuf))
  /\ readPc' = LoopAgain
  /\ UNCHANGED <<stream, flight, fin, rcvEdge, state, handled>>

\* Recv returns 0 or EAGAIN.
RecvEnd ==
  /\ readPc = "recv" /\ rcvBuf = <<>>
  /\ inBuf' = MakeRoom(inBuf)
  /\ state' = IF fin THEN "peer_closing" ELSE state
  /\ readPc' = "parse"
  /\ UNCHANGED <<peerVars, rcvEdge, handled>>

\* IsPktAvailable and ReadPacket, on what is readable.
HasHeader == ReadableLen(inBuf) >= HeaderLen
NextKind == stream[Readable(inBuf)[1][1]]
WrongLen == HasHeader /\ Claims(NextKind) < HeaderLen
Whole == HasHeader /\ ~WrongLen /\ Claims(NextKind) <= ReadableLen(inBuf)

ConsumeFaulty(b, len) == Read(b, ReadableLen(b))
Consume(b, len) == Read(b, len)

\* HandlePkt, then the packet leaves the buffer; the handler may have closed
\* the connection, and then no further packet is looked at.
GoesOnFaulty(closes) == TRUE
GoesOn(closes) == ~closes

ParsePkt(closes) ==
  /\ readPc = "parse" /\ Whole /\ NextKind \notin {"unknown", "body"}
  /\ handled' = Append(handled, SubSeq(Readable(inBuf), 1, Claims(NextKind)))
  /\ LET rest == Consume(inBuf, Claims(NextKind))
     IN  IF GoesOn(closes) THEN inBuf' = rest /\ readPc' = "parse"
                           ELSE inBuf' = ResetOffset(rest) /\ readPc' = "end"
  /\ IF closes THEN CloseConn ELSE UNCHANGED <<state, rcvEdge>>
  /\ UNCHANGED peerVars

\* A PktException: the length is wrong, the id unknown, or the body not read.
ParseThrows ==
  /\ readPc = "parse"
  /\ WrongLen \/ (Whole /\ NextKind \in {"unknown", "body"})
  /\ CloseConn
  /\ readPc' = "end"
  /\ UNCHANGED <<peerVars, inBuf, handled>>

ParseEnd ==
  /\ readPc = "parse" /\ ~WrongLen /\ ~Whole
  /\ inBuf' = ResetOffset(inBuf)
  /\ readPc' = "end"
  /\ UNCHANGED <<peerVars, rcvEdge, state, handled>>

\* Back in BaseSocket::OnRead.
EndRead ==
  /\ readPc = "end"
  /\ readPc' = "idle"
  /\ IF state = "peer_closing" THEN CloseConn ELSE UNCHANGED <<state, rcvEdge>>
  /\ UNCHANGED <<peerVars, inBuf, handled>>

\* The inactivity timer, an error event or CloseHandle.
OtherClose ==
  /\ readPc = "idle" /\ Open
  /\ CloseConn
  /\ UNCHANGED <<peerVars, inBuf, readPc, handled>>

ReadStep ==
  \/ TakeEvent \/ OnReadEof \/ OnRead \/ RecvSome \/ RecvEnd
  \/ (\E closes \in BOOLEAN : ParsePkt(closes)) \/ ParseThrows \/ ParseEnd \/ EndRead

RecvNext ==
  \/ (\E kind \in Kinds : PeerSends(kind)) \/ KernelGets \/ PeerCloses
  \/ ReadStep \/ OtherClose

RecvSpec == RecvInit /\ [][RecvNext]_recvVars

\* The loop handles events; what was sent arrives.
RecvFairSpec == RecvSpec /\ WF_recvVars(ReadStep) /\ WF_recvVars(KernelGets)

-----------------------------------------------------------------------------
(***************************************************************************)
(* Properties.                                                             *)
(***************************************************************************)

\* Also: recv() never writes past the allocation of m_in_buf.
RecvTypeOK ==
  /\ stream \in Seq(AllKinds) /\ Len(stream) <= MaxPkts
  /\ Sound(inBuf) /\ fin \in BOOLEAN /\ rcvEdge \in BOOLEAN
  /\ readPc \in {"idle", "recv", "parse", "end"}
  /\ state \in {"connected", "peer_closing", "closing"}

Packets(n) == [i \in 1..n |-> Packet(i, stream[i])]

\* Handlers get whole packets, in order, cut where the peer cut them, and only
\* well-formed ones that follow no malformed one.
HandledInOrder ==
  /\ handled = Packets(Len(handled))
  /\ \A i \in 1..Len(handled) : stream[i] = "ok"

\* What the peer has sent and no handler has got yet, from where it stays.
AtHand == Readable(inBuf) \o rcvBuf \o flight

Before(a, b) == a[1] < b[1] \/ (a[1] = b[1] /\ a[2] < b[2])

\* Every byte of the packets not handled is in exactly one place, in order:
\* split segments, Extend and ResetOffset lose and repeat nothing.
BytesKept ==
  Open =>
    /\ Range(AtHand) = UNION {Range(Packet(n, stream[n])) : n \in (Len(handled) + 1)..Len(stream)}
    /\ \A i, j \in 1..Len(AtHand) : i < j => Before(AtHand[i], AtHand[j])

\* Between events no complete packet waits in the buffer, and what is in the
\* kernel is announced by an edge: there is no wait for bytes that are here.
NothingForgotten ==
  readPc = "idle" /\ Open =>
    /\ ~Whole /\ ~WrongLen /\ inBuf.r = 0
    /\ rcvBuf # <<>> \/ fin => rcvEdge

\* Behind what was received there is room for one byte more, in which
\* HttpConn::OnRead puts the '\0' it lets strchr rely on.
RoomBehind == readPc = "parse" => WritableLen(inBuf) > 0

\* The buffer: its bounds, its bytes, and that none is left waiting in it.
BufferInv == RecvTypeOK /\ BytesKept /\ RoomBehind /\ NothingForgotten

\* After a handler has closed the connection no handler is called again.
NoPktAfterClose == [][handled' # handled => Open]_recvVars

\* A connection closed for its peer's FIN has handled all the peer sent, unless
\* the peer announced a packet it did not send.
PeerCloseLast ==
  [][(OnReadEof \/ EndRead) /\ Open /\ ~Open' =>
       handled = Packets(Len(stream)) \/ \E i \in 1..Len(stream) : stream[i] = "huge"]_recvVars

\* A close comes after all that is handled: none is handled later, and none
\* that the peer sent before its FIN is missing.
ClosingIsLast == NoPktAfterClose /\ PeerCloseLast

\* A well-formed packet behind well-formed ones is handled, unless the
\* connection is closed first.
AllHandled ==
  \A n \in 1..MaxPkts :
    (Len(stream) >= n /\ \A i \in 1..n : stream[i] = "ok") ~> Len(handled) >= n \/ ~Open
=============================================================================
