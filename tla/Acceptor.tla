------------------------------ MODULE Acceptor ------------------------------
(***************************************************************************)
(* The accept loop of a listening socket (BaseSocket::_AcceptNewSocket) in *)
(* the thread of the main event loop.  Each socket it accepts is a new     *)
(* BaseSocket, whose constructor draws the handle that decides on the IO   *)
(* thread (HandleAllocator).  epoll is edge-triggered: what the loop leaves *)
(* in the backlog is announced by nothing but the next client.             *)
(***************************************************************************)
EXTENDS HandleAllocator

CONSTANT MaxBacklog   \* bound: clients waiting in the backlog

ASSUME AcceptorAssumption == MaxBacklog \in Nat

VARIABLES
  backlog,    \* clients the kernel has connected and nobody has accepted
  ready,      \* EPOLLIN of the listening socket is pending
  accepting,  \* the main loop is in _AcceptNewSocket
  failed      \* history: accept has failed since a client came last

acceptVars == <<backlog, ready, accepting, failed>>

AcceptInit == Init /\ backlog = 0 /\ ready = FALSE /\ accepting = FALSE /\ failed = FALSE

-----------------------------------------------------------------------------

\* A client's connection is complete, and the kernel raises an edge.
ClientConnects ==
  /\ listeners # {} /\ backlog < MaxBacklog
  /\ backlog' = backlog + 1
  /\ ready' = TRUE /\ failed' = FALSE
  /\ UNCHANGED <<vars, accepting>>

AcceptEvent ==
  /\ ready /\ ~accepting /\ pc[Main] = "idle"
  /\ ready' = FALSE /\ accepting' = TRUE
  /\ UNCHANGED <<vars, backlog, failed>>

Accepting == accepting /\ pc[Main] = "idle"

\* accept() succeeds; the BaseSocket for it draws its handle.  The limit of
\* open connections stands for that of descriptors.
AcceptOne ==
  /\ Accepting /\ backlog > 0
  /\ Draw(Main)
  /\ backlog' = backlog - 1
  /\ UNCHANGED <<ready, accepting, failed>>

\* while (true), and with if instead.
AfterAcceptFaulty == FALSE
AfterAccept == accepting

\* AddEvent to the IO thread's loop, and on to the next accept().
Handover ==
  /\ accepting
  /\ OpenConn(Main)
  /\ accepting' = AfterAccept
  /\ UNCHANGED <<backlog, ready, failed>>

AcceptEmpty ==
  /\ Accepting /\ backlog = 0
  /\ accepting' = FALSE
  /\ UNCHANGED <<vars, backlog, ready, failed>>

\* EMFILE, and other errors that leave the client in the backlog.
AcceptFails ==
  /\ Accepting /\ backlog > 0 /\ ~Room
  /\ accepting' = FALSE /\ failed' = TRUE
  /\ UNCHANGED <<vars, backlog, ready>>

\* ECONNABORTED: the client that was next has gone, the loop ends all the same.
AcceptAborted ==
  /\ Accepting /\ backlog > 0
  /\ backlog' = backlog - 1
  /\ accepting' = FALSE /\ failed' = TRUE
  /\ UNCHANGED <<vars, ready>>

\* Sockets that are not accepted: Connect() in any thread, and start_listen.
OtherDraw(t) == Draw(t) /\ (t = Main => ~accepting)
OtherOpen(t) == OpenConn(t) /\ (t = Main => ~accepting)
Listen == StartListen /\ ~accepting

AcceptNext ==
  \/ ClientConnects
  \/ AcceptEvent \/ AcceptOne \/ Handover \/ AcceptEmpty \/ AcceptFails \/ AcceptAborted
  \/ /\ \/ \E t \in Threads : OtherDraw(t) \/ DrawAgain(t) \/ Found(t) \/ OtherOpen(t)
        \/ Listen
        \/ \E h \in Handles : CloseConn(h)
     /\ UNCHANGED acceptVars

AcceptSpec == AcceptInit /\ [][AcceptNext]_<<vars, acceptVars>>

-----------------------------------------------------------------------------

\* When the accept loop has returned, clients wait in the backlog only with an
\* event pending, or because accept failed and no client has come since.
NoClientForgotten == backlog > 0 /\ ~accepting => ready \/ failed
=============================================================================
