--------------------------- MODULE ConnLifecycle ---------------------------
(***************************************************************************)
(* One IO thread of netter: its EventLoop (epoll branch), the BaseSocket   *)
(* and BaseConn objects it drives, and the threads that hand it sockets    *)
(* and close requests.  The module is about object lifetime: which         *)
(* pointers the loop, its maps and its lists hold, how the two reference   *)
(* counts move, and when a connection is confirmed and closed.             *)
(*                                                                         *)
(* A connection c of Conns stands for the pair (BaseSocket, BaseConn) of   *)
(* one handle; handles are never reused, so c is created at most once.     *)
(* The loop thread's program counter pc follows EventLoop::Start: wait,    *)
(* events, timers, loop callbacks, register list.                          *)
(***************************************************************************)
EXTENDS Integers

CONSTANTS
  Conns,        \* the connections (handles) of this IO thread
  Outgoing,     \* those created by BaseConn::Connect, the others by accept
  Foreign,      \* those that a thread other than the loop thread may create
  CloseOthers,  \* TRUE: HandlePkt may CloseHandle another connection of the loop
  MaxUnread,    \* bound: packets waiting in a kernel receive buffer
  None          \* no connection

ASSUME LifecycleAssumption ==
  /\ Outgoing \subseteq Conns
  /\ Foreign \subseteq Conns
  /\ CloseOthers \in BOOLEAN
  /\ MaxUnread \in Nat
  /\ None \notin Conns

VARIABLES
  \* the kernel's side of each socket
  tcp,          \* "none", "syn", "up", "refused", "self" (loop connection), "reset"
  inq,          \* whole packets in the receive buffer
  fin,          \* connections whose peer has sent FIN
  epoll,        \* fds in the epoll interest set
  ready,        \* fds on the epoll ready list (edge triggered)
  \* BaseSocket
  state,        \* m_state
  sref,         \* ref_count_: 0 before construction and after deletion
  fd,           \* the descriptor: "none", "open", "closed"
  \* BaseConn
  cref,         \* ref_count_
  hasHandle,    \* m_handle # NETLIB_INVALID_HANDLE
  isOpen,       \* m_open
  stage,        \* how far the creating thread is
  \* EventLoop and PendingEventMgr
  socketMap,    \* socket_map_
  connMap,      \* conn_map
  regList,      \* register_event_list_, filled by other threads
  regBatch,     \* event_list: what _RegiterEventList swapped out
  closeList,    \* close_list, filled by CloseHandle in other threads
  closeBatch,   \* tmp_close_list
  pc,           \* the loop thread
  batch,        \* events[]: the event bits of each connection not yet handled
  cur,          \* the connection whose event is being handled
  parsed,       \* packets of cur received and not yet given to HandlePkt
  sweep         \* connections EventLoop::OnTimer has still to visit

kernelVars == <<tcp, inq, fin, epoll, ready>>
sockVars   == <<state, sref, fd>>
connVars   == <<cref, hasHandle, isOpen, stage>>
listVars   == <<regList, regBatch, closeList, closeBatch>>
loopVars   == <<pc, batch, cur, parsed, sweep>>
\* What closing a connection may change.
closeVars == <<connMap, state, epoll, ready, socketMap, fd, sref, hasHandle, isOpen, cref>>
vars == <<kernelVars, sockVars, connVars, socketMap, connMap, listVars, loopVars>>

Events    == {"IN", "OUT", "HUP"}
Resolved  == {"up", "refused", "self", "reset"}
SockState == {"IDLE", "CONNECTING", "CONNECTED", "PEER_CLOSING", "CLOSING"}
Stages    == {"new", "accepted", "registered", "assigned", "done", "failed"}
PCs       == {"wait", "events", "dispatch", "parse", "afterRead",
              "sweep", "loop", "closing", "register", "adding"}

Init ==
  /\ tcp = [c \in Conns |-> "none"]
  /\ inq = [c \in Conns |-> 0]
  /\ fin = {} /\ epoll = {} /\ ready = {}
  /\ state = [c \in Conns |-> "IDLE"]
  /\ sref = [c \in Conns |-> 0]
  /\ fd = [c \in Conns |-> "none"]
  /\ cref = [c \in Conns |-> 0]
  /\ hasHandle = {} /\ isOpen = {}
  /\ stage = [c \in Conns |-> "new"]
  /\ socketMap = {} /\ connMap = {}
  /\ regList = {} /\ regBatch = {} /\ closeList = {} /\ closeBatch = {}
  /\ pc = "wait"
  /\ batch = [c \in Conns |-> {}]
  /\ cur = None /\ parsed = 0 /\ sweep = {}

-----------------------------------------------------------------------------
(***************************************************************************)
(* The kernel and the peers.                                               *)
(***************************************************************************)

\* A change of readiness puts a registered fd on the ready list.
Edge(c) == ready' = IF c \in epoll THEN ready \cup {c} ELSE ready

\* What epoll_wait reports for an fd on the ready list: the bits true now.
Revents(c) ==
  {e \in Events :
     \/ e = "IN"  /\ (inq[c] > 0 \/ c \in fin \/ tcp[c] \in {"refused", "reset"})
     \/ e = "OUT" /\ tcp[c] \in Resolved
     \/ e = "HUP" /\ tcp[c] \in {"refused", "reset"}}

\* An outgoing connection attempt is answered, refused, or met itself.
KernelResolves(c) ==
  /\ fd[c] = "open" /\ tcp[c] = "syn"
  /\ \E r \in {"up", "refused", "self"} : tcp' = [tcp EXCEPT ![c] = r]
  /\ Edge(c)
  /\ UNCHANGED <<inq, fin, epoll, sockVars, connVars, socketMap, connMap, listVars, loopVars>>

\* A packet arrives.
KernelData(c) ==
  /\ fd[c] = "open" /\ tcp[c] = "up" /\ c \notin fin
  /\ inq[c] < MaxUnread
  /\ inq' = [inq EXCEPT ![c] = @ + 1]
  /\ Edge(c)
  /\ UNCHANGED <<tcp, fin, epoll, sockVars, connVars, socketMap, connMap, listVars, loopVars>>

\* The peer's FIN arrives, possibly with unread data in front of it.
KernelFin(c) ==
  /\ fd[c] = "open" /\ tcp[c] = "up" /\ c \notin fin
  /\ fin' = fin \cup {c}
  /\ Edge(c)
  /\ UNCHANGED <<tcp, inq, epoll, sockVars, connVars, socketMap, connMap, listVars, loopVars>>

\* The peer resets the connection.
KernelReset(c) ==
  /\ fd[c] = "open" /\ tcp[c] = "up"
  /\ tcp' = [tcp EXCEPT ![c] = "reset"]
  /\ Edge(c)
  /\ UNCHANGED <<inq, fin, epoll, sockVars, connVars, socketMap, connMap, listVars, loopVars>>

Kernel(c) == KernelResolves(c) \/ KernelData(c) \/ KernelFin(c) \/ KernelReset(c)

-----------------------------------------------------------------------------
(***************************************************************************)
(* Creation of connections.                                                *)
(***************************************************************************)

\* new BaseSocket() with an open descriptor, reference count 1.
NewSocket(c, s) ==
  /\ state' = [state EXCEPT ![c] = s]
  /\ sref' = [sref EXCEPT ![c] = 1]
  /\ fd' = [fd EXCEPT ![c] = "open"]

\* connect() fails at once: the descriptor is closed and the BaseConn deletes
\* itself; the BaseSocket it had allocated stays behind.
ConnectFails(c) ==
  /\ c \in Outgoing /\ stage[c] = "new"
  /\ stage' = [stage EXCEPT ![c] = "failed"]
  /\ sref' = [sref EXCEPT ![c] = 1]
  /\ fd' = [fd EXCEPT ![c] = "closed"]
  /\ UNCHANGED <<state, kernelVars, cref, hasHandle, isOpen, socketMap, connMap, listVars, loopVars>>

\* BaseConn::Connect called by the loop thread itself, between two events:
\* nothing of the loop runs before it returns.
ConnectInLoop(c) ==
  /\ c \in Outgoing /\ stage[c] = "new"
  /\ pc = "events"
  /\ NewSocket(c, "CONNECTING")
  /\ tcp' = [tcp EXCEPT ![c] = "syn"]
  /\ epoll' = epoll \cup {c}
  /\ socketMap' = socketMap \cup {c}
  /\ cref' = [cref EXCEPT ![c] = 1]
  /\ hasHandle' = hasHandle \cup {c}
  /\ connMap' = connMap \cup {c}
  /\ stage' = [stage EXCEPT ![c] = "done"]
  /\ UNCHANGED <<inq, fin, ready, isOpen, listVars, loopVars>>

\* BaseConn::Connect in another thread, first part: BaseSocket::Connect puts
\* the socket on the register list; m_handle is not assigned yet.
ConnectRegister(c) ==
  /\ c \in Outgoing \cap Foreign /\ stage[c] = "new"
  /\ NewSocket(c, "CONNECTING")
  /\ tcp' = [tcp EXCEPT ![c] = "syn"]
  /\ regList' = regList \cup {c}
  /\ cref' = [cref EXCEPT ![c] = 1]
  /\ stage' = [stage EXCEPT ![c] = "registered"]
  /\ UNCHANGED <<inq, fin, epoll, ready, hasHandle, isOpen, socketMap, connMap,
                 regBatch, closeList, closeBatch, loopVars>>

\* Second part: m_handle = the handle BaseSocket::Connect returned.
ConnectAssign(c) ==
  /\ stage[c] = "registered"
  /\ hasHandle' = hasHandle \cup {c}
  /\ stage' = [stage EXCEPT ![c] = "assigned"]
  /\ UNCHANGED <<kernelVars, sockVars, cref, isOpen, socketMap, connMap, listVars, loopVars>>

\* Third part: conn_map.insert(m_handle, this), under no lock.  When the loop
\* has reset m_handle in between, the value used is either the one returned
\* (kept in a register) or the invalid one (no entry of this map).
ConnectInsert(c) ==
  /\ stage[c] = "assigned"
  /\ \/ connMap' = connMap \cup {c}
     \/ c \notin hasHandle /\ UNCHANGED connMap
  /\ stage' = [stage EXCEPT ![c] = "done"]
  /\ UNCHANGED <<kernelVars, sockVars, cref, hasHandle, isOpen, socketMap, listVars, loopVars>>

\* _AcceptNewSocket in the main thread when the connection belongs to an IO
\* thread: the new BaseSocket goes to that thread's register list.
AcceptForeign(c) ==
  /\ c \in Foreign \ Outgoing /\ stage[c] = "new"
  /\ NewSocket(c, "CONNECTED")
  /\ tcp' = [tcp EXCEPT ![c] = "up"]
  /\ regList' = regList \cup {c}
  /\ stage' = [stage EXCEPT ![c] = "accepted"]
  /\ UNCHANGED <<inq, fin, epoll, ready, cref, hasHandle, isOpen, socketMap, connMap,
                 regBatch, closeList, closeBatch, loopVars>>

\* _AcceptNewSocket when the listening loop is this loop (no IO threads):
\* AddEvent registers the socket and calls OnConnect before it returns.
AcceptInLoop(c) ==
  /\ c \notin Outgoing /\ stage[c] = "new"
  /\ pc = "events"
  /\ NewSocket(c, "CONNECTED")
  /\ tcp' = [tcp EXCEPT ![c] = "up"]
  /\ epoll' = epoll \cup {c}
  /\ ready' = ready \cup {c}
  /\ socketMap' = socketMap \cup {c}
  /\ cref' = [cref EXCEPT ![c] = 1]
  /\ hasHandle' = hasHandle \cup {c}
  /\ isOpen' = isOpen \cup {c}
  /\ connMap' = connMap \cup {c}
  /\ stage' = [stage EXCEPT ![c] = "done"]
  /\ UNCHANGED <<inq, fin, listVars, loopVars>>

\* BaseConn::CloseHandle in a thread that has learnt the handle.
CloseHandle(c) ==
  /\ stage[c] = "done"
  /\ closeList' = closeList \cup {c}
  /\ UNCHANGED <<kernelVars, sockVars, connVars, socketMap, connMap,
                 regList, regBatch, closeBatch, loopVars>>

OtherThreads(c) ==
  \/ ConnectFails(c) \/ ConnectRegister(c) \/ ConnectAssign(c) \/ ConnectInsert(c)
  \/ AcceptForeign(c) \/ CloseHandle(c)

-----------------------------------------------------------------------------
(***************************************************************************)
(* Reference counts and closing.  A definition named ...Faulty is the code *)
(* with one line missing or wrong: the mutants of PROJECT.json put it in   *)
(* place of the definition below it.                                       *)
(***************************************************************************)
AddRefSock(c) == sref' = [sref EXCEPT ![c] = @ + 1]
ReleaseSock(c) == sref' = [sref EXCEPT ![c] = @ - 1]

AddRefConnFaulty(c) == UNCHANGED cref
AddRefConn(c) == cref' = [cref EXCEPT ![c] = @ + 1]
ReleaseConnFaulty(c) == UNCHANGED cref
ReleaseConn(c) == cref' = [cref EXCEPT ![c] = @ - 1]

\* EventLoop::RemoveEvent with SOCKET_DEL_CONN.
RemoveEvent(c) ==
  /\ epoll' = epoll \ {c}
  /\ ready' = ready \ {c}
  /\ socketMap' = socketMap \ {c}

\* BaseSocket::Close.
SocketClose(c) ==
  /\ state' = [state EXCEPT ![c] = "CLOSING"]
  /\ RemoveEvent(c)
  /\ fd' = [fd EXCEPT ![c] = "closed"]
  /\ ReleaseSock(c)

EraseConnFaulty(c) == UNCHANGED connMap
EraseConn(c) == connMap' = connMap \ {c}

\* BaseConn::Close.  A connection whose m_handle is invalid is left alone; the
\* caller may have moved m_state to s before.
Close(c, s) ==
  IF c \in hasHandle
  THEN /\ EraseConn(c)
       /\ SocketClose(c)
       /\ hasHandle' = hasHandle \ {c}
       /\ isOpen' = isOpen \ {c}
       /\ ReleaseConn(c)
  ELSE /\ state' = [state EXCEPT ![c] = s]
       /\ UNCHANGED <<connMap, epoll, ready, socketMap, fd, sref, hasHandle, isOpen, cref>>

-----------------------------------------------------------------------------
(***************************************************************************)
(* EventLoop::Start.                                                       *)
(***************************************************************************)

\* epoll_wait returns: with events, or with none (wakeup byte or timeout).
Harvest ==
  /\ pc = "wait"
  /\ batch' = [c \in Conns |-> IF c \in ready THEN Revents(c) ELSE {}]
  /\ ready' = {}
  /\ pc' = "events"
  /\ UNCHANGED <<tcp, inq, fin, epoll, sockVars, connVars, socketMap, connMap, listVars,
                 cur, parsed, sweep>>

\* Take the next entry of events[]: pSocket->AddRef().
TakeEvent(c) ==
  /\ pc = "events" /\ batch[c] # {}
  /\ cur' = c
  /\ AddRefSock(c)
  /\ pc' = "dispatch"
  /\ UNCHANGED <<kernelVars, state, fd, connVars, socketMap, connMap, listVars,
                 batch, parsed, sweep>>

\* FIONREAD fails or says 0.
NothingToReadFaulty(c) == inq[c] = 0 \/ c \in fin
NothingToRead(c) == inq[c] = 0

\* OnRead with nothing to read: NETLIB_MSG_CLOSE, conn_callback -> OnClose.
OnReadEof(c) ==
  /\ pc = "dispatch" /\ cur = c /\ "IN" \in batch[c]
  /\ NothingToRead(c)
  /\ Close(c, state[c])
  /\ batch' = [batch EXCEPT ![c] = @ \ {"IN"}]
  /\ UNCHANGED <<tcp, inq, fin, stage, listVars, pc, cur, parsed, sweep>>

\* What one _RecvData call takes out of the receive buffer.
RecvDataFaulty(c) == 1
RecvData(c) == inq[c]

\* OnRead with data: NETLIB_MSG_READ.  conn_callback takes its reference and
\* _RecvData reads until recv returns 0 (PEER_CLOSING) or would block.
OnReadData(c) ==
  /\ pc = "dispatch" /\ cur = c /\ "IN" \in batch[c]
  /\ ~NothingToRead(c)
  /\ AddRefConn(c)
  /\ parsed' = RecvData(c)
  /\ inq' = [inq EXCEPT ![c] = @ - RecvData(c)]
  /\ state' = [state EXCEPT ![c] =
                 IF c \in fin /\ tcp[c] = "up" THEN "PEER_CLOSING" ELSE @]
  /\ batch' = [batch EXCEPT ![c] = @ \ {"IN"}]
  /\ pc' = "parse"
  /\ UNCHANGED <<tcp, fin, epoll, ready, sref, fd, hasHandle, isOpen, stage,
                 socketMap, connMap, listVars, cur, sweep>>

\* _ParsePkt gives one packet to HandlePkt, which keeps the connection.
HandlePkt(c) ==
  /\ pc = "parse" /\ cur = c /\ parsed > 0
  /\ parsed' = parsed - 1
  /\ UNCHANGED <<kernelVars, sockVars, connVars, socketMap, connMap, listVars,
                 pc, batch, cur, sweep>>

\* HandlePkt closes its own connection (the m_handle test then ends the
\* loop), or ReadPacket throws and the handler of PktException calls OnClose.
HandlePktCloses(c) ==
  /\ pc = "parse" /\ cur = c /\ parsed > 0
  /\ Close(c, state[c])
  /\ parsed' = 0
  /\ UNCHANGED <<tcp, inq, fin, stage, listVars, pc, batch, cur, sweep>>

\* HandlePkt calls CloseHandle(d) for another connection of this loop: the
\* call runs in the loop thread, so d is closed at once.
HandlePktClosesOther(c, d) ==
  /\ CloseOthers /\ c # d
  /\ pc = "parse" /\ cur = c /\ parsed > 0
  /\ d \in connMap
  /\ Close(d, state[d])
  /\ parsed' = parsed - 1
  /\ UNCHANGED <<tcp, inq, fin, stage, listVars, pc, batch, cur, sweep>>

\* End of conn_callback: pConn->ReleaseRef().
EndRead(c) ==
  /\ pc = "parse" /\ cur = c /\ parsed = 0
  /\ ReleaseConn(c)
  /\ pc' = "afterRead"
  /\ UNCHANGED <<kernelVars, sockVars, hasHandle, isOpen, stage, socketMap, connMap, listVars,
                 batch, cur, parsed, sweep>>

\* Back in BaseSocket::OnRead: recv had returned 0, so close.
PeerClosingFaulty(c) == FALSE
PeerClosing(c) == state[c] = "PEER_CLOSING"

AfterRead(c) ==
  /\ pc = "afterRead" /\ cur = c
  /\ IF PeerClosing(c)
     THEN Close(c, state[c])
     ELSE UNCHANGED closeVars
  /\ pc' = "dispatch"
  /\ UNCHANGED <<tcp, inq, fin, stage, listVars, batch, cur, parsed, sweep>>

\* OnWrite of a connecting socket whose attempt succeeded: NETLIB_MSG_CONFIRM.
OnWriteConfirmFaulty(c) ==
  /\ state[c] = "CONNECTING" /\ tcp[c] = "up"
  /\ state' = [state EXCEPT ![c] = "CONNECTED"]
  /\ UNCHANGED <<isOpen, connMap, epoll, ready, socketMap, fd, sref, hasHandle, cref>>
OnWriteConfirm(c) ==
  /\ state[c] = "CONNECTING" /\ tcp[c] = "up"
  /\ state' = [state EXCEPT ![c] = "CONNECTED"]
  /\ isOpen' = isOpen \cup {c}
  /\ UNCHANGED <<connMap, epoll, ready, socketMap, fd, sref, hasHandle, cref>>

\* OnWrite of a connecting socket with SO_ERROR set, or connected to itself
\* (the second case goes through OnClose).
OnWriteFails(c) ==
  /\ state[c] = "CONNECTING" /\ tcp[c] # "up"
  /\ Close(c, IF tcp[c] = "self" THEN "CLOSING" ELSE state[c])

\* OnWrite otherwise: NETLIB_MSG_WRITE flushes the send buffer, or nothing.
OnWriteOther(c) ==
  /\ state[c] # "CONNECTING"
  /\ UNCHANGED closeVars

OnWrite(c) ==
  /\ pc = "dispatch" /\ cur = c /\ "IN" \notin batch[c] /\ "OUT" \in batch[c]
  /\ OnWriteConfirm(c) \/ OnWriteFails(c) \/ OnWriteOther(c)
  /\ batch' = [batch EXCEPT ![c] = @ \ {"OUT"}]
  /\ UNCHANGED <<tcp, inq, fin, stage, listVars, pc, cur, parsed, sweep>>

\* EPOLLPRI, EPOLLERR or EPOLLHUP: OnClose, unless already CLOSING.
OnHup(c) ==
  /\ pc = "dispatch" /\ cur = c /\ batch[c] = {"HUP"}
  /\ IF state[c] = "CLOSING"
     THEN UNCHANGED closeVars
     ELSE Close(c, "CLOSING")
  /\ batch' = [batch EXCEPT ![c] = {}]
  /\ UNCHANGED <<tcp, inq, fin, stage, listVars, pc, cur, parsed, sweep>>

\* The event is handled: pSocket->ReleaseRef().
EndEvent(c) ==
  /\ pc = "dispatch" /\ cur = c /\ batch[c] = {}
  /\ ReleaseSock(c)
  /\ cur' = None
  /\ pc' = "events"
  /\ UNCHANGED <<kernelVars, state, fd, connVars, socketMap, connMap, listVars,
                 batch, parsed, sweep>>

\* _CheckTimer: the 1 s timer is due and EventLoop::OnTimer starts, or not.
CheckTimer ==
  /\ pc = "events" /\ \A c \in Conns : batch[c] = {}
  /\ \/ pc' = "sweep" /\ sweep' = socketMap
     \/ pc' = "loop" /\ sweep' = {}
  /\ UNCHANGED <<kernelVars, sockVars, connVars, socketMap, connMap, listVars,
                 batch, cur, parsed>>

\* BaseSocket::OnTimer -> BaseConn::OnTimer: the connection has been silent
\* for longer than m_conn_timeout and is closed, or nothing happens.
TimerVisit(c) ==
  /\ pc = "sweep" /\ c \in sweep
  /\ \/ Close(c, state[c])
     \/ UNCHANGED closeVars
  /\ sweep' = sweep \ {c}
  /\ UNCHANGED <<tcp, inq, fin, stage, listVars, pc, batch, cur, parsed>>

EndSweep ==
  /\ pc = "sweep" /\ sweep = {}
  /\ pc' = "loop"
  /\ UNCHANGED <<kernelVars, sockVars, connVars, socketMap, connMap, listVars,
                 batch, cur, parsed, sweep>>

\* loop_callback swaps the close list out under the lock ...
SwapCloseList ==
  /\ pc = "loop"
  /\ closeBatch' = closeList
  /\ closeList' = {}
  /\ pc' = "closing"
  /\ UNCHANGED <<kernelVars, sockVars, connVars, socketMap, connMap, regList, regBatch,
                 batch, cur, parsed, sweep>>

\* ... and closes the connections it still finds in conn_map.
CloseRequested(c) ==
  /\ pc = "closing" /\ c \in closeBatch
  /\ IF c \in connMap
     THEN Close(c, state[c])
     ELSE UNCHANGED closeVars
  /\ closeBatch' = closeBatch \ {c}
  /\ UNCHANGED <<tcp, inq, fin, stage, regList, regBatch, closeList, loopVars>>

EndClosing ==
  /\ pc = "closing" /\ closeBatch = {}
  /\ pc' = "register"
  /\ UNCHANGED <<kernelVars, sockVars, connVars, socketMap, connMap, listVars,
                 batch, cur, parsed, sweep>>

\* _RegiterEventList swaps the register list out under the lock ...
SwapRegisterList ==
  /\ pc = "register"
  /\ regBatch' = regList
  /\ regList' = {}
  /\ pc' = "adding"
  /\ UNCHANGED <<kernelVars, sockVars, connVars, socketMap, connMap, closeList, closeBatch,
                 batch, cur, parsed, sweep>>

\* ... and adds each socket; epoll_ctl fails on a descriptor already closed.
\* An accepted socket gets its connection object: OnConnect.
AddRegistered(c) ==
  /\ pc = "adding" /\ c \in regBatch
  /\ regBatch' = regBatch \ {c}
  /\ epoll' = IF fd[c] = "open" THEN epoll \cup {c} ELSE epoll
  /\ ready' = IF fd[c] = "open" /\ tcp[c] \in Resolved THEN ready \cup {c} ELSE ready
  /\ socketMap' = socketMap \cup {c}
  /\ IF stage[c] = "accepted"
     THEN /\ cref' = [cref EXCEPT ![c] = 1]
          /\ hasHandle' = hasHandle \cup {c}
          /\ isOpen' = isOpen \cup {c}
          /\ connMap' = connMap \cup {c}
          /\ stage' = [stage EXCEPT ![c] = "done"]
     ELSE UNCHANGED <<cref, hasHandle, isOpen, connMap, stage>>
  /\ UNCHANGED <<tcp, inq, fin, sockVars, regList, closeList, closeBatch, loopVars>>

EndAdding ==
  /\ pc = "adding" /\ regBatch = {}
  /\ pc' = "wait"
  /\ UNCHANGED <<kernelVars, sockVars, connVars, socketMap, connMap, listVars,
                 batch, cur, parsed, sweep>>

LoopStep(c) ==
  \/ TakeEvent(c) \/ OnReadEof(c) \/ OnReadData(c)
  \/ HandlePkt(c) \/ HandlePktCloses(c) \/ (\E d \in Conns : HandlePktClosesOther(c, d))
  \/ EndRead(c) \/ AfterRead(c) \/ OnWrite(c) \/ OnHup(c) \/ EndEvent(c)
  \/ TimerVisit(c) \/ CloseRequested(c) \/ AddRegistered(c)

LoopControl ==
  Harvest \/ CheckTimer \/ EndSweep \/ SwapCloseList \/ EndClosing
    \/ SwapRegisterList \/ EndAdding

\* The loop thread's own work: it never blocks, epoll_wait having a timeout.
Loop == LoopControl \/ \E c \in Conns : LoopStep(c)

Next ==
  \/ Loop
  \/ \E c \in Conns : Kernel(c) \/ OtherThreads(c) \/ ConnectInLoop(c) \/ AcceptInLoop(c)

Spec == Init /\ [][Next]_vars

\* The loop thread keeps being scheduled.
FairSpec == Spec /\ WF_vars(Loop)

-----------------------------------------------------------------------------
(***************************************************************************)
(* Properties.                                                             *)
(***************************************************************************)

TypeOK ==
  /\ tcp \in [Conns -> {"none", "syn"} \cup Resolved]
  /\ inq \in [Conns -> Nat]
  /\ fin \in SUBSET Conns /\ epoll \in SUBSET Conns /\ ready \in SUBSET Conns
  /\ state \in [Conns -> SockState]
  /\ sref \in [Conns -> Nat] /\ cref \in [Conns -> Nat]
  /\ fd \in [Conns -> {"none", "open", "closed"}]
  /\ hasHandle \in SUBSET Conns /\ isOpen \in SUBSET Conns
  /\ stage \in [Conns -> Stages]
  /\ socketMap \in SUBSET Conns /\ connMap \in SUBSET Conns
  /\ regList \in SUBSET Conns /\ regBatch \in SUBSET Conns
  /\ closeList \in SUBSET Conns /\ closeBatch \in SUBSET Conns
  /\ pc \in PCs
  /\ batch \in [Conns -> SUBSET Events]
  /\ cur \in Conns \cup {None} /\ parsed \in Nat
  /\ sweep \in SUBSET Conns

\* The use under which the code keeps its objects alive: the loop thread itself
\* makes the outgoing connections, and a handler closes only its own connection.
SafeUse == Foreign \cap Outgoing = {} /\ ~CloseOthers

\* No pointer epoll handed out is stale: every unhandled entry of events[] and
\* the socket whose event is being handled is a BaseSocket not deleted yet.
EventPtrAlive ==
  /\ \A c \in Conns : batch[c] # {} => sref[c] > 0
  /\ cur # None => sref[cur] > 0

\* conn_map leads to live objects only: a connection found by handle has not
\* been deleted, and neither has the socket it will send on.
ConnMapAlive == \A c \in connMap : cref[c] > 0 /\ sref[c] > 0

\* The socket map and the timer sweep lead to live sockets whose callback data,
\* the connection, is alive as well.
SocketMapAlive == \A c \in socketMap \cup sweep : sref[c] > 0 /\ cref[c] > 0

\* A BaseSocket waiting in the register list is alive when AddEvent uses it.
RegListAlive == \A c \in regList \cup regBatch : sref[c] > 0 /\ fd[c] = "open"

\* A callback finds its connection: while an event of cur may still call back
\* (OnRead always does, OnWrite and OnClose unless the socket is CLOSING) or
\* packets are being parsed, the BaseConn behind m_callback_data is not deleted.
CallbackConnAlive ==
  cur # None /\ (pc = "parse" \/ "IN" \in batch[cur] \/ state[cur] # "CLOSING")
    => cref[cur] > 0

\* No pointer the loop uses is stale.
NoDangling ==
  EventPtrAlive /\ ConnMapAlive /\ SocketMapAlive /\ RegListAlive /\ CallbackConnAlive

\* The reference counts are never negative, and what they keep alive is all
\* that the loop uses.
LifetimeInv == TypeOK /\ NoDangling

\* Nothing is leaked: an object still allocated is in the loop's hands (map,
\* register list, current event), or its connect() failed at once.
NoLeak ==
  \A c \in Conns :
    /\ sref[c] > 0 => c \in socketMap \cup regList \cup regBatch \cup {cur}
                        \/ stage[c] = "failed"
    /\ cref[c] > 0 => sref[c] > 0

\* The interest set and the socket map agree, and hold open descriptors only.
EpollMatchesMap ==
  /\ epoll = socketMap
  /\ \A c \in socketMap : fd[c] = "open"

\* No event is lost to edge triggering: an open registered socket with
\* something to report is on the ready list or still to be handled.
NoLostEdge ==
  \A c \in epoll :
    inq[c] > 0 \/ c \in fin \/ tcp[c] \in {"refused", "self", "reset"}
      => c \in ready \/ batch[c] # {} \/ (cur = c /\ pc \in {"parse", "afterRead"})

\* A handler is given packets of an open connection only: BaseConn::Send takes
\* its answer, and OnConfirm has been called before.  (OnRead of a socket that is
\* reported readable and writable at once comes before its OnWrite.)
HandledOpen == pc = "parse" /\ parsed > 0 => cur \in isOpen

\* What the peer sent before its FIN is handed over: closing because of the
\* peer's FIN happens with the receive buffer and the parsed packets drained.
FinAfterData ==
  [][\A c \in Conns :
       /\ fd[c] = "open" /\ fd'[c] = "closed"
       /\ pc \in {"dispatch", "afterRead"} /\ tcp[c] = "up"
       => c \in fin /\ inq[c] = 0 /\ parsed = 0]_vars

\* Once a connection is gone it is never found, polled or confirmed again.
ClosedForGood ==
  [][\A c \in Conns : fd[c] = "closed" =>
       c \notin epoll' \cup socketMap' \cup connMap' \cup isOpen']_vars

\* The loop notices a peer that closed, reset or refused, without its timer.
PeerGoneClosed ==
  \A c \in Conns :
    (fd[c] = "open" /\ (c \in fin \/ tcp[c] \in {"refused", "self", "reset"}))
      ~> fd[c] = "closed"

\* An established outgoing connection is confirmed to the application, or closed.
EstablishedConfirmed ==
  \A c \in Conns : (c \in Outgoing /\ tcp[c] = "up") ~> (c \in isOpen \/ fd[c] = "closed")
=============================================================================
