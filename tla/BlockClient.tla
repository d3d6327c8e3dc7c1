---------------------------- MODULE BlockClient ----------------------------
(***************************************************************************)
(* The blocking client: ClientConn over connect_with_timeout,              *)
(* block_send_all and block_recv_all, used as PressureTestThread uses it,  *)
(* a SendPacket and then a RecvPacket.  A call that times out leaves the   *)
(* connection as it is, bytes half sent or half read included.             *)
(*                                                                         *)
(* Request n and its reply are PktLen bytes, <<n, 1>> to <<n, PktLen>>.    *)
(***************************************************************************)
EXTENDS Integers, Sequences

CONSTANTS
  HeadLen,     \* PKT_HEADER_LEN
  PktLen,      \* of a request or a reply
  MaxRequests  \* bound: requests

ASSUME ClientAssumption ==
  /\ HeadLen \in Nat \ {0} /\ PktLen \in Nat /\ PktLen > HeadLen
  /\ MaxRequests \in Nat

Pkt(n) == [i \in 1..PktLen |-> <<n, i>>]

VARIABLES
  connected,  \* conn_handle_ is not invalid
  toServer,   \* bytes of this connection the server has not taken
  toClient,   \* bytes of this connection the client has not read
  closed,     \* the server has closed this connection
  request,    \* the number of the request
  step,       \* "idle", "send", "recv", "head", "body"
  unsent,     \* what block_send_all has still to send
  inBuf,      \* what block_recv_all has read of the packet
  \* history
  clean,      \* no timeout, failed send or close since the connection was made
  answers     \* what RecvPacket returned for each request: [reply, clean], 0 for NULL

wireVars == <<toServer, toClient, closed>>
clientVars == <<connected, wireVars, request, step, unsent, inBuf, clean, answers>>

\* A new connection.
Fresh == connected' = TRUE /\ toServer' = <<>> /\ toClient' = <<>> /\ closed' = FALSE

ClientInit ==
  /\ connected = TRUE /\ toServer = <<>> /\ toClient = <<>> /\ closed = FALSE
  /\ request = 0 /\ step = "idle" /\ unsent = <<>> /\ inBuf = <<>>
  /\ clean = TRUE /\ answers = <<>>

-----------------------------------------------------------------------------
(***************************************************************************)
(* The server.                                                             *)
(***************************************************************************)

\* It cuts requests by the length in their header; a body put together from
\* two may do for it, or not.
ServerAnswers ==
  /\ ~closed /\ Len(toServer) >= PktLen
  /\ LET n == toServer[1][1]
     IN  /\ SubSeq(toServer, 1, HeadLen) = SubSeq(Pkt(n), 1, HeadLen)
         /\ toClient' = toClient \o Pkt(n)
  /\ toServer' = SubSeq(toServer, PktLen + 1, Len(toServer))
  /\ UNCHANGED <<connected, closed, request, step, unsent, inBuf, clean, answers>>

\* At any time, and when a request is malformed; a reset drops what is on its
\* way to the client.
ServerCloses ==
  /\ connected /\ ~closed
  /\ closed' = TRUE /\ toClient' \in {toClient, <<>>}
  /\ clean' = FALSE
  /\ UNCHANGED <<connected, toServer, request, step, unsent, inBuf, answers>>

-----------------------------------------------------------------------------
(***************************************************************************)
(* ClientConn::SendPacket.                                                 *)
(***************************************************************************)

Begin(to) == step = "idle" /\ request < MaxRequests /\ request' = request + 1 /\ step' = to

\* is_socket_closed: readable with nothing to read.
IsSocketClosed == closed /\ toClient = <<>>

\* conn_handle_ is invalid: nothing is sent, and nothing ever again.
SendNowhere ==
  /\ ~connected
  /\ Begin("recv")
  /\ UNCHANGED <<connected, wireVars, unsent, inBuf, clean, answers>>

SendPacket ==
  /\ connected /\ ~IsSocketClosed
  /\ Begin("send")
  /\ unsent' = Pkt(request')
  /\ UNCHANGED <<connected, wireVars, inBuf, clean, answers>>

\* Reconnect succeeds.
SendReconnected ==
  /\ connected /\ IsSocketClosed
  /\ Begin("send")
  /\ Fresh
  /\ clean' = TRUE
  /\ unsent' = Pkt(request')
  /\ UNCHANGED <<inBuf, answers>>

\* connect_with_timeout fails, at once or by its timeout.
ReconnectFails ==
  /\ connected /\ IsSocketClosed
  /\ Begin("recv")
  /\ connected' = FALSE
  /\ UNCHANGED <<wireVars, unsent, inBuf, clean, answers>>

\* block_send_all: send() takes some of the bytes.
SendSome ==
  /\ step = "send"
  /\ \E n \in 1..Len(unsent) :
       /\ toServer' = IF closed THEN toServer ELSE toServer \o SubSeq(unsent, 1, n)
       /\ unsent' = SubSeq(unsent, n + 1, Len(unsent))
  /\ step' = IF unsent' = <<>> THEN "recv" ELSE "send"
  /\ UNCHANGED <<connected, toClient, closed, request, inBuf, clean, answers>>

\* send() fails or times out: the rest of the packet is not sent.
SendFails ==
  /\ step = "send"
  /\ step' = "recv" /\ unsent' = <<>> /\ clean' = FALSE
  /\ UNCHANGED <<connected, wireVars, request, inBuf, answers>>

-----------------------------------------------------------------------------
(***************************************************************************)
(* ClientConn::RecvPacket.                                                 *)
(***************************************************************************)

Return(reply, stillClean) ==
  /\ clean' = stillClean
  /\ answers' = Append(answers, [reply |-> reply, clean |-> clean'])
  /\ step' = "idle" /\ inBuf' = <<>>

RecvNowhere ==
  /\ step = "recv" /\ ~connected
  /\ Return(0, FALSE)
  /\ UNCHANGED <<connected, wireVars, request, unsent>>

RecvPacket ==
  /\ step = "recv" /\ connected
  /\ step' = "head"
  /\ UNCHANGED <<connected, wireVars, request, unsent, inBuf, clean, answers>>

Wanted == IF step = "head" THEN HeadLen ELSE PktLen

\* while (received_len != len), and a single recv() instead.
RecvAgainFaulty(n) == FALSE
RecvAgain(n) == n # Wanted

IsPkt(s) == \E n \in 1..request : s = Pkt(n)

\* The bytes of a header that is none, after a timeout in the middle of a
\* packet, say any length: an error, or more to read.
IsHead(s) == \E n \in 1..request : s = SubSeq(Pkt(n), 1, HeadLen)

\* block_recv_all: recv() returns some of the bytes wanted.
RecvSome ==
  /\ step \in {"head", "body"}
  /\ \E n \in 1..(Wanted - Len(inBuf)) :
       /\ n <= Len(toClient)
       /\ toClient' = SubSeq(toClient, n + 1, Len(toClient))
       /\ LET read == inBuf \o SubSeq(toClient, 1, n)
          IN  \/ /\ RecvAgain(Len(read))
                 /\ inBuf' = read
                 /\ UNCHANGED <<step, clean, answers>>
              \/ /\ ~RecvAgain(Len(read)) /\ step = "head" /\ Len(read) = HeadLen
                 /\ inBuf' = read /\ step' = "body"
                 /\ UNCHANGED <<clean, answers>>
              \/ /\ ~RecvAgain(Len(read))
                 /\ step = "body" \/ ~IsHead(read)
                 /\ Return(IF IsPkt(read) THEN read[1][1] ELSE 0, clean)
  /\ UNCHANGED <<connected, toServer, closed, request, unsent>>

\* SO_RCVTIMEO has passed, the peer has closed or the connection is reset.
RecvFails ==
  /\ step \in {"head", "body"} /\ toClient = <<>>
  /\ Return(0, FALSE)
  /\ UNCHANGED <<connected, wireVars, request, unsent>>

ClientNext ==
  \/ ServerAnswers \/ ServerCloses
  \/ SendNowhere \/ SendPacket \/ SendReconnected \/ ReconnectFails \/ SendSome \/ SendFails
  \/ RecvNowhere \/ RecvPacket \/ RecvSome \/ RecvFails

ClientSpec == ClientInit /\ [][ClientNext]_clientVars

-----------------------------------------------------------------------------

\* Without a timeout, a failed send or a close on its connection every request
\* is answered, and by its own reply.  After one, RecvPacket may return the late
\* reply to an earlier request, but never one twice or out of order, and never
\* one of a connection made before a Reconnect.
AnswersMatch ==
  \A k \in 1..Len(answers) :
    /\ answers[k].clean => answers[k].reply = k
    /\ answers[k].reply <= k
    /\ answers[k].reply # 0 => \A j \in 1..(k - 1) : answers[j].reply < answers[k].reply
=============================================================================
