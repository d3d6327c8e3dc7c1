------------------------ MODULE ConnLifecycleProofs ------------------------
(***************************************************************************)
(* The lifetime properties of ConnLifecycle for any set of connections,    *)
(* under SafeUse.  The inductive invariant says, for every program point,  *)
(* who holds a reference to each object and which maps and lists it is in. *)
(***************************************************************************)
EXTENDS ConnLifecycle, TLAPS

One(b) == IF b THEN 1 ELSE 0

\* Handling the events of cur: the program points with a current connection.
Handling == {"dispatch", "parse", "afterRead"}

\* What the program point says of the loop's local variables.
ControlInv ==
  /\ cur = None <=> pc \notin Handling
  /\ pc \notin Handling \cup {"events"} => \A c \in Conns : batch[c] = {}
  /\ pc # "sweep" => sweep = {}
  /\ pc # "closing" => closeBatch = {}
  /\ pc # "adding" => regBatch = {}

\* Who holds the references: the socket's creator until Close, the event being
\* handled, and conn_callback while packets are parsed.
CountInv ==
  \A c \in Conns :
    /\ sref[c] = One(c \in hasHandle \/ stage[c] \in {"accepted", "failed"}) + One(cur = c)
    /\ cref[c] = One(c \in hasHandle) + One(cur = c /\ pc = "parse")

\* Where a connection is, by how far it has got.
PlaceInv ==
  /\ epoll = hasHandle /\ socketMap = hasHandle /\ connMap = hasHandle
  /\ isOpen \subseteq hasHandle /\ ready \subseteq hasHandle /\ sweep \subseteq hasHandle
  /\ regList \cap regBatch = {}
  /\ \A c \in Conns :
       /\ stage[c] \in {"new", "accepted", "done", "failed"}
       /\ stage[c] = "accepted" <=> c \in regList \cup regBatch
       /\ c \in hasHandle => stage[c] = "done"
       /\ fd[c] = IF stage[c] = "new" THEN "none"
                  ELSE IF c \in hasHandle \/ stage[c] = "accepted" THEN "open" ELSE "closed"

\* Pending events belong to open connections, except what is left of the event
\* whose handler has just closed the connection.
EventInv ==
  \A c \in Conns :
    /\ batch[c] # {} /\ cur # c => c \in hasHandle
    /\ cur = c => stage[c] = "done" /\ (pc \in {"parse", "afterRead"} => "IN" \notin batch[c])
    /\ cur = c /\ c \notin hasHandle => state[c] = "CLOSING" /\ "IN" \notin batch[c]

IInv == TypeOK /\ ControlInv /\ CountInv /\ PlaceInv /\ EventInv

\* The invariant holds before the first event.
LEMMA InitInv == Init => IInv
  BY LifecycleAssumption DEF Init, IInv, TypeOK, ControlInv, CountInv, PlaceInv, EventInv, One, Handling,
     SockState, Stages, PCs, Events, Resolved

\* The types of what Close may change.
CloseTypes ==
  /\ connMap \in SUBSET Conns /\ epoll \in SUBSET Conns /\ ready \in SUBSET Conns
  /\ socketMap \in SUBSET Conns /\ hasHandle \in SUBSET Conns /\ isOpen \in SUBSET Conns
  /\ state \in [Conns -> SockState] /\ fd \in [Conns -> {"none", "open", "closed"}]
  /\ sref \in [Conns -> Nat] /\ cref \in [Conns -> Nat]

\* Closing a connection, as every handler may, keeps the invariant.
LEMMA CloseKeeps ==
  ASSUME IInv, NEW c \in Conns, NEW s \in SockState, Close(c, s),
         UNCHANGED <<stage, regList, regBatch, cur>>,
         pc' = "parse" <=> pc = "parse", sweep' \subseteq sweep \ {c}
  PROVE  CloseTypes' /\ CountInv' /\ PlaceInv'
<1> USE LifecycleAssumption DEF IInv, One
<1>1. CASE c \in hasHandle
  <2>1. /\ connMap' = connMap \ {c} /\ epoll' = epoll \ {c} /\ ready' = ready \ {c}
        /\ socketMap' = socketMap \ {c} /\ hasHandle' = hasHandle \ {c} /\ isOpen' = isOpen \ {c}
        /\ state' = [state EXCEPT ![c] = "CLOSING"] /\ fd' = [fd EXCEPT ![c] = "closed"]
        /\ sref' = [sref EXCEPT ![c] = @ - 1] /\ cref' = [cref EXCEPT ![c] = @ - 1]
    BY <1>1 DEF Close, SocketClose, RemoveEvent, EraseConn, ReleaseSock, ReleaseConn
  <2>2. CountInv'
    BY <1>1, <2>1 DEF CountInv, PlaceInv, TypeOK
  <2>3. PlaceInv'
    BY <1>1, <2>1 DEF PlaceInv, TypeOK
  <2>4. sref[c] > 0 /\ cref[c] > 0
    BY <1>1 DEF CountInv
  <2>5. CloseTypes'
    BY <2>1, <2>4 DEF CloseTypes, TypeOK, SockState
  <2>. QED  BY <2>2, <2>3, <2>5
<1>2. CASE c \notin hasHandle
  <2>1. /\ UNCHANGED <<connMap, epoll, ready, socketMap, fd, sref, hasHandle, isOpen, cref>>
        /\ state' = [state EXCEPT ![c] = s]
    BY <1>2 DEF Close
  <2>. QED  BY <2>1 DEF CloseTypes, TypeOK, CountInv, PlaceInv
<1>. QED  BY <1>1, <1>2

\* Every step keeps the invariant.
LEMMA StepInv ==
  ASSUME SafeUse, IInv, [Next]_vars
  PROVE  IInv'
<1> USE LifecycleAssumption DEF SafeUse, IInv, TypeOK, ControlInv, CountInv, PlaceInv, EventInv, One, Handling,
     SockState, Stages, PCs, Events, Resolved, vars, kernelVars, sockVars, connVars, listVars, loopVars, closeVars
<1>1. ASSUME NEW c \in Conns, KernelResolves(c) PROVE IInv'
  BY <1>1 DEF KernelResolves, Edge
<1>2. ASSUME NEW c \in Conns, KernelData(c) PROVE IInv'
  BY <1>2 DEF KernelData, Edge
<1>3. ASSUME NEW c \in Conns, KernelFin(c) PROVE IInv'
  BY <1>3 DEF KernelFin, Edge
<1>4. ASSUME NEW c \in Conns, KernelReset(c) PROVE IInv'
  BY <1>4 DEF KernelReset, Edge
<1>5. ASSUME NEW c \in Conns, ConnectFails(c) PROVE IInv'
  BY <1>5 DEF ConnectFails
<1>6. ASSUME NEW c \in Conns, ConnectRegister(c) PROVE IInv'
  BY <1>6 DEF ConnectRegister, NewSocket
<1>7. ASSUME NEW c \in Conns, ConnectAssign(c) PROVE IInv'
  BY <1>7 DEF ConnectAssign
<1>8. ASSUME NEW c \in Conns, ConnectInsert(c) PROVE IInv'
  BY <1>8 DEF ConnectInsert
<1>9. ASSUME NEW c \in Conns, AcceptForeign(c) PROVE IInv'
  BY <1>9 DEF AcceptForeign, NewSocket
<1>10. ASSUME NEW c \in Conns, CloseHandle(c) PROVE IInv'
  BY <1>10 DEF CloseHandle
<1>11. ASSUME NEW c \in Conns, ConnectInLoop(c) PROVE IInv'
  BY <1>11 DEF ConnectInLoop, NewSocket
<1>12. ASSUME NEW c \in Conns, AcceptInLoop(c) PROVE IInv'
  BY <1>12 DEF AcceptInLoop, NewSocket
<1>13. ASSUME NEW c \in Conns, TakeEvent(c) PROVE IInv'
  BY <1>13 DEF TakeEvent, AddRefSock
<1>14. ASSUME NEW c \in Conns, OnReadEof(c) PROVE IInv'
  <2>1. CloseTypes' /\ CountInv' /\ PlaceInv'
    <3>1. Close(c, state[c])  BY <1>14 DEF OnReadEof
    <3>. QED  BY <1>14, <3>1, CloseKeeps DEF OnReadEof
  <2>2. state' = [state EXCEPT ![c] = IF c \in hasHandle THEN "CLOSING" ELSE @]
    BY <1>14 DEF OnReadEof, Close, SocketClose
  <2>3. hasHandle' = hasHandle \ {c}
    BY <1>14 DEF OnReadEof, Close
  <2>. QED  BY <1>14, <2>1, <2>2, <2>3 DEF OnReadEof, CloseTypes
<1>15. ASSUME NEW c \in Conns, OnReadData(c) PROVE IInv'
  BY <1>15 DEF OnReadData, NothingToRead, RecvData, AddRefConn
<1>16. ASSUME NEW c \in Conns, HandlePkt(c) PROVE IInv'
  BY <1>16 DEF HandlePkt
<1>17. ASSUME NEW c \in Conns, HandlePktCloses(c) PROVE IInv'
  <2>1. CloseTypes' /\ CountInv' /\ PlaceInv'
    <3>1. Close(c, state[c])  BY <1>17 DEF HandlePktCloses
    <3>. QED  BY <1>17, <3>1, CloseKeeps DEF HandlePktCloses
  <2>2. state' = [state EXCEPT ![c] = IF c \in hasHandle THEN "CLOSING" ELSE @]
    BY <1>17 DEF HandlePktCloses, Close, SocketClose
  <2>3. hasHandle' = hasHandle \ {c}
    BY <1>17 DEF HandlePktCloses, Close
  <2>7. TypeOK'
    BY <1>17, <2>1, <2>2, <2>3 DEF HandlePktCloses, CloseTypes
  <2>8. ControlInv'
    BY <1>17, <2>1, <2>2, <2>3 DEF HandlePktCloses, CloseTypes
  <2>9. EventInv'
    BY <1>17, <2>1, <2>2, <2>3 DEF HandlePktCloses, CloseTypes
  <2>. QED  BY <2>1, <2>7, <2>8, <2>9
<1>18. ASSUME NEW c \in Conns, EndRead(c) PROVE IInv'
  BY <1>18 DEF EndRead, ReleaseConn
<1>19. ASSUME NEW c \in Conns, AfterRead(c) PROVE IInv'
  <2>1. CASE Close(c, state[c])
    <3>1. CloseTypes' /\ CountInv' /\ PlaceInv'
      BY <1>19, <2>1, CloseKeeps DEF AfterRead
    <3>2. state' = [state EXCEPT ![c] = IF c \in hasHandle THEN "CLOSING" ELSE @]
      BY <2>1 DEF Close, SocketClose
    <3>3. hasHandle' = hasHandle \ {c}
      BY <2>1 DEF Close
    <3>7. TypeOK'
      BY <1>19, <3>1, <3>2, <3>3 DEF AfterRead, CloseTypes
    <3>8. ControlInv'
      BY <1>19, <3>1, <3>2, <3>3 DEF AfterRead, CloseTypes
    <3>9. EventInv'
      BY <1>19, <3>1, <3>2, <3>3 DEF AfterRead, CloseTypes
    <3>. QED  BY <3>1, <3>7, <3>8, <3>9
  <2>2. CASE UNCHANGED closeVars
    BY <1>19, <2>2 DEF AfterRead
  <2>. QED  BY <1>19, <2>1, <2>2 DEF AfterRead
<1>20. ASSUME NEW c \in Conns, OnWrite(c) PROVE IInv'
  <2>1. CASE OnWriteConfirm(c)
    BY <1>20, <2>1 DEF OnWrite, OnWriteConfirm
  <2>2. CASE OnWriteFails(c)
    <3>1. PICK s \in SockState : Close(c, s)
      BY <2>2 DEF OnWriteFails
    <3>2. CloseTypes' /\ CountInv' /\ PlaceInv'
      BY <1>20, <3>1, CloseKeeps DEF OnWrite
    <3>3. c \in hasHandle
      BY <1>20, <2>2 DEF OnWrite, OnWriteFails
    <3>4. state' = [state EXCEPT ![c] = "CLOSING"] /\ hasHandle' = hasHandle \ {c}
      BY <3>1, <3>3 DEF Close, SocketClose
    <3>. QED  BY <1>20, <3>2, <3>4 DEF OnWrite, CloseTypes
  <2>3. CASE OnWriteOther(c)
    BY <1>20, <2>3 DEF OnWrite, OnWriteOther
  <2>. QED  BY <1>20, <2>1, <2>2, <2>3 DEF OnWrite
<1>21. ASSUME NEW c \in Conns, OnHup(c) PROVE IInv'
  <2>1. CASE Close(c, "CLOSING")
    <3>1. CloseTypes' /\ CountInv' /\ PlaceInv'
      BY <1>21, <2>1, CloseKeeps DEF OnHup
    <3>2. state' = [state EXCEPT ![c] = "CLOSING"]
      BY <2>1 DEF Close, SocketClose
    <3>3. hasHandle' = hasHandle \ {c}
      BY <2>1 DEF Close
    <3>. QED  BY <1>21, <3>1, <3>2, <3>3 DEF OnHup, CloseTypes
  <2>2. CASE UNCHANGED closeVars
    BY <1>21, <2>2 DEF OnHup
  <2>. QED  BY <1>21, <2>1, <2>2 DEF OnHup
<1>22. ASSUME NEW c \in Conns, EndEvent(c) PROVE IInv'
  BY <1>22 DEF EndEvent, ReleaseSock
<1>23. ASSUME NEW c \in Conns, TimerVisit(c) PROVE IInv'
  <2>1. CASE Close(c, state[c])
    <3>1. CloseTypes' /\ CountInv' /\ PlaceInv'
      BY <1>23, <2>1, CloseKeeps DEF TimerVisit
    <3>2. state' = [state EXCEPT ![c] = IF c \in hasHandle THEN "CLOSING" ELSE @]
      BY <2>1 DEF Close, SocketClose
    <3>3. hasHandle' = hasHandle \ {c}
      BY <2>1 DEF Close
    <3>. QED  BY <1>23, <3>1, <3>2, <3>3 DEF TimerVisit, CloseTypes
  <2>2. CASE UNCHANGED closeVars
    BY <1>23, <2>2 DEF TimerVisit
  <2>. QED  BY <1>23, <2>1, <2>2 DEF TimerVisit
<1>24. ASSUME NEW c \in Conns, CloseRequested(c) PROVE IInv'
  <2>1. CASE Close(c, state[c])
    <3>1. CloseTypes' /\ CountInv' /\ PlaceInv'
      BY <1>24, <2>1, CloseKeeps DEF CloseRequested
    <3>2. state' = [state EXCEPT ![c] = IF c \in hasHandle THEN "CLOSING" ELSE @]
      BY <2>1 DEF Close, SocketClose
    <3>3. hasHandle' = hasHandle \ {c}
      BY <2>1 DEF Close
    <3>. QED  BY <1>24, <3>1, <3>2, <3>3 DEF CloseRequested, CloseTypes
  <2>2. CASE UNCHANGED closeVars
    BY <1>24, <2>2 DEF CloseRequested
  <2>. QED  BY <1>24, <2>1, <2>2 DEF CloseRequested
<1>25. ASSUME NEW c \in Conns, AddRegistered(c) PROVE IInv'
  <2>1. /\ stage[c] = "accepted" /\ c \notin hasHandle /\ fd[c] = "open" /\ cur = None
        /\ c \in regBatch /\ c \notin regList
    BY <1>25 DEF AddRegistered
  <2>2. /\ epoll' = epoll \cup {c} /\ socketMap' = socketMap \cup {c}
        /\ connMap' = connMap \cup {c} /\ hasHandle' = hasHandle \cup {c}
        /\ isOpen' = isOpen \cup {c} /\ ready' \subseteq ready \cup {c}
        /\ cref' = [cref EXCEPT ![c] = 1] /\ stage' = [stage EXCEPT ![c] = "done"]
        /\ regBatch' = regBatch \ {c} /\ UNCHANGED <<regList, sref, fd, state, pc, cur, batch, sweep>>
    BY <1>25, <2>1 DEF AddRegistered
  <2>3. CountInv'
    BY <2>1, <2>2
  <2>4. PlaceInv'
    <3>1. \A d \in Conns : d # c => stage'[d] = stage[d]
      BY <2>2
    <3>. QED  BY <2>1, <2>2, <3>1
  <2>7. TypeOK'
    BY <1>25, <2>1, <2>2 DEF AddRegistered
  <2>8. ControlInv'
    BY <1>25, <2>1, <2>2 DEF AddRegistered
  <2>9. EventInv'
    BY <1>25, <2>1, <2>2 DEF AddRegistered
  <2>. QED  BY <2>3, <2>4, <2>7, <2>8, <2>9 DEF IInv
<1>26. CASE Harvest
  BY <1>26 DEF Harvest, Revents
<1>27. CASE CheckTimer
  BY <1>27 DEF CheckTimer, Revents
<1>28. CASE EndSweep
  BY <1>28 DEF EndSweep, Revents
<1>29. CASE SwapCloseList
  BY <1>29 DEF SwapCloseList, Revents
<1>30. CASE EndClosing
  BY <1>30 DEF EndClosing, Revents
<1>31. CASE SwapRegisterList
  BY <1>31 DEF SwapRegisterList, Revents
<1>32. CASE EndAdding
  BY <1>32 DEF EndAdding, Revents
<1>40. CASE UNCHANGED vars
  BY <1>40
<1>. QED
  BY <1>1, <1>2, <1>3, <1>4, <1>5, <1>6, <1>7, <1>8, <1>9, <1>10, <1>11, <1>12, <1>13, <1>14, <1>15, <1>16, <1>17, <1>18, <1>19, <1>20, <1>21, <1>22, <1>23, <1>24, <1>25, <1>26, <1>27, <1>28, <1>29, <1>30, <1>31, <1>32, <1>40 DEF Next, Loop, LoopControl, LoopStep, Kernel, OtherThreads, HandlePktClosesOther

\* IInv holds in every reachable state.
THEOREM Inductive == SafeUse => (Spec => []IInv)
<1>. SUFFICES ASSUME SafeUse PROVE Spec => []IInv
  OBVIOUS
<1>. QED  BY InitInv, StepInv, PTL DEF Spec

\* Types, and reference counts that never go below zero.
THEOREM TypeCorrect == SafeUse => (Spec => []TypeOK)
<1>. SUFFICES ASSUME SafeUse PROVE Spec => []TypeOK
  OBVIOUS
<1>1. IInv => TypeOK
  BY DEF IInv
<1>. QED  BY Inductive, <1>1, PTL

\* The references behind each stage: a handle keeps the connection and its socket.
LEMMA HeldObjects ==
  ASSUME IInv, NEW c \in Conns
  PROVE  /\ c \in hasHandle => sref[c] > 0 /\ cref[c] > 0
         /\ stage[c] = "accepted" => sref[c] > 0
         /\ sref[c] > 0 => c \in hasHandle \/ stage[c] \in {"accepted", "failed"} \/ cur = c
         /\ cref[c] > 0 => sref[c] > 0
  BY DEF IInv, CountInv, One

\* Whatever the loop finds through events[], conn_map, socket_map_, the timer
\* sweep, the register list or a callback's data has not been deleted.
THEOREM Lifetimes ==
  SafeUse => (Spec => []LifetimeInv)
<1>. SUFFICES ASSUME SafeUse PROVE Spec => []LifetimeInv
  OBVIOUS
<1>. USE LifecycleAssumption DEF IInv, One
<1>1. IInv => EventPtrAlive
  BY DEF EventPtrAlive, TypeOK, CountInv, EventInv
<1>2. IInv => ConnMapAlive
  BY HeldObjects DEF ConnMapAlive, TypeOK, PlaceInv
<1>3. IInv => SocketMapAlive
  BY HeldObjects DEF SocketMapAlive, TypeOK, PlaceInv
<1>4. IInv => RegListAlive
  BY HeldObjects DEF RegListAlive, TypeOK, PlaceInv
<1>5. IInv => CallbackConnAlive
  BY DEF CallbackConnAlive, TypeOK, CountInv, EventInv
<1>6. IInv => LifetimeInv
  BY <1>1, <1>2, <1>3, <1>4, <1>5 DEF LifetimeInv, NoDangling
<1>. QED  BY Inductive, <1>6, PTL

\* Objects are not forgotten, and epoll's interest set is the socket map.
THEOREM NothingLost == SafeUse => (Spec => [](NoLeak /\ EpollMatchesMap))
<1>. SUFFICES ASSUME SafeUse PROVE Spec => [](NoLeak /\ EpollMatchesMap)
  OBVIOUS
<1>. USE LifecycleAssumption DEF IInv, One
<1>1. IInv => NoLeak
  BY HeldObjects DEF NoLeak, PlaceInv
<1>2. IInv => EpollMatchesMap
  BY DEF EpollMatchesMap, TypeOK, PlaceInv
<1>. QED  BY Inductive, <1>1, <1>2, PTL

-----------------------------------------------------------------------------
\* A closed socket stays closed.
LEMMA ClosedStays ==
  ASSUME IInv, [Next]_vars, NEW c \in Conns, fd[c] = "closed"
  PROVE  fd'[c] = "closed"
<1>1. stage[c] # "new" /\ fd \in [Conns -> {"none", "open", "closed"}]
  BY DEF IInv, PlaceInv, TypeOK
<1>2. ASSUME NEW d \in Conns, NEW s, Close(d, s) PROVE fd'[c] = "closed"
  BY <1>1, <1>2 DEF Close, SocketClose
<1>3. ASSUME UNCHANGED fd PROVE fd'[c] = "closed"
  BY <1>3
<1>4. ASSUME NEW d \in Conns, OtherThreads(d) \/ ConnectInLoop(d) \/ AcceptInLoop(d) PROVE fd'[c] = "closed"
  BY <1>1, <1>4 DEF OtherThreads, ConnectFails, ConnectRegister, ConnectAssign, ConnectInsert,
     AcceptForeign, CloseHandle, ConnectInLoop, AcceptInLoop, NewSocket, sockVars
<1>5. ASSUME NEW d \in Conns, LoopStep(d) PROVE fd'[c] = "closed"
  BY <1>2, <1>3, <1>5 DEF LoopStep, TakeEvent, OnReadEof, OnReadData, HandlePkt, HandlePktCloses,
     HandlePktClosesOther, EndRead, AfterRead, OnWrite, OnWriteConfirm, OnWriteFails, OnWriteOther,
     OnHup, EndEvent, TimerVisit, CloseRequested, AddRegistered, closeVars, sockVars
<1>6. ASSUME NEW d \in Conns, Kernel(d) PROVE fd'[c] = "closed"
  BY <1>6 DEF Kernel, KernelResolves, KernelData, KernelFin, KernelReset, sockVars
<1>7. ASSUME LoopControl \/ UNCHANGED vars PROVE fd'[c] = "closed"
  BY <1>7 DEF LoopControl, Harvest, CheckTimer, EndSweep, SwapCloseList, EndClosing, SwapRegisterList,
     EndAdding, vars, sockVars
<1>. QED  BY <1>4, <1>5, <1>6, <1>7 DEF Next, Loop

\* A closed connection is never again polled, found by handle, or open.
THEOREM Final == SafeUse => (Spec => ClosedForGood)
<1>. SUFFICES ASSUME SafeUse PROVE Spec => ClosedForGood
  OBVIOUS
<1>1. ASSUME IInv, IInv', [Next]_vars
      PROVE  \A c \in Conns : fd[c] = "closed" => c \notin epoll' \cup socketMap' \cup connMap' \cup isOpen'
  <2>. SUFFICES ASSUME NEW c \in Conns, fd[c] = "closed"
                PROVE  c \notin epoll' \cup socketMap' \cup connMap' \cup isOpen'
    OBVIOUS
  <2>1. fd'[c] = "closed"
    BY <1>1, ClosedStays
  <2>. QED  BY <1>1, <2>1 DEF IInv, PlaceInv
<1>. QED  BY Inductive, <1>1, PTL DEF Spec, ClosedForGood

-----------------------------------------------------------------------------
\* What the event bits and PEER_CLOSING say of the receive buffer.
ReadInv ==
  /\ batch \in [Conns -> SUBSET Events] /\ state \in [Conns -> SockState]
  /\ inq \in [Conns -> Nat] /\ tcp \in [Conns -> {"none", "syn"} \cup Resolved]
  /\ fd \in [Conns -> {"none", "open", "closed"}] /\ stage \in [Conns -> Stages]
  /\ \A c \in Conns :
       /\ "IN" \in batch[c] => inq[c] > 0 \/ c \in fin \/ tcp[c] \in {"refused", "reset"}
       /\ "HUP" \in batch[c] => tcp[c] \in {"refused", "reset"}
       /\ state[c] = "PEER_CLOSING" => c \in fin /\ inq[c] = 0
       /\ stage[c] = "new" => tcp[c] = "none"
  /\ pc # "parse" => parsed = 0

\* A close touches no other connection and makes none peer-closing.
LEMMA CloseKeepsRead ==
  ASSUME ReadInv, NEW c \in Conns, NEW s \in {state[c], "CLOSING"},
         Close(c, s) \/ UNCHANGED closeVars
  PROVE  /\ state' \in [Conns -> SockState] /\ fd' \in [Conns -> {"none", "open", "closed"}]
         /\ \A d \in Conns : state'[d] = "PEER_CLOSING" => state[d] = "PEER_CLOSING"
         /\ \A d \in Conns : d # c => fd'[d] = fd[d]
  BY DEF ReadInv, SockState, Close, SocketClose, closeVars

\* Every step keeps ReadInv: an event is reported for a cause that is still there.
LEMMA ReadStep ==
  ASSUME ReadInv, [Next]_vars
  PROVE  ReadInv'
<1> USE LifecycleAssumption DEF ReadInv, Events, Resolved, SockState, Stages, kernelVars, sockVars,
        connVars, listVars, loopVars
<1>1. ASSUME NEW c \in Conns, Kernel(c) PROVE ReadInv'
  BY <1>1 DEF Kernel, KernelResolves, KernelData, KernelFin, KernelReset, Edge
<1>2. ASSUME NEW c \in Conns, OtherThreads(c) PROVE ReadInv'
  BY <1>2 DEF OtherThreads, ConnectFails, ConnectRegister, ConnectAssign, ConnectInsert, AcceptForeign, CloseHandle, NewSocket
<1>3. ASSUME NEW c \in Conns, ConnectInLoop(c) PROVE ReadInv'
  BY <1>3 DEF ConnectInLoop, NewSocket
<1>4. ASSUME NEW c \in Conns, AcceptInLoop(c) PROVE ReadInv'
  BY <1>4 DEF AcceptInLoop, NewSocket
<1>5. ASSUME NEW c \in Conns, TakeEvent(c) PROVE ReadInv'
  BY <1>5 DEF TakeEvent
<1>6. ASSUME NEW c \in Conns, OnReadData(c) PROVE ReadInv'
  BY <1>6 DEF OnReadData, RecvData, NothingToRead
<1>7. ASSUME NEW c \in Conns, HandlePkt(c) PROVE ReadInv'
  BY <1>7 DEF HandlePkt
<1>8. ASSUME NEW c \in Conns, EndRead(c) PROVE ReadInv'
  BY <1>8 DEF EndRead
<1>9. ASSUME NEW c \in Conns, EndEvent(c) PROVE ReadInv'
  BY <1>9 DEF EndEvent
<1>10. ASSUME NEW c \in Conns, AddRegistered(c) PROVE ReadInv'
  BY <1>10 DEF AddRegistered
<1>11. ASSUME NEW c \in Conns, OnReadEof(c) PROVE ReadInv'
  <2>1. Close(c, state[c]) \/ UNCHANGED closeVars
    BY <1>11 DEF OnReadEof
  <2>2. /\ state' \in [Conns -> SockState] /\ fd' \in [Conns -> {"none", "open", "closed"}]
        /\ \A d \in Conns : state'[d] = "PEER_CLOSING" => state[d] = "PEER_CLOSING"
    BY <2>1, CloseKeepsRead
  <2>. QED  BY <1>11, <2>2 DEF OnReadEof
<1>12. ASSUME NEW c \in Conns, HandlePktCloses(c) PROVE ReadInv'
  <2>1. Close(c, state[c]) \/ UNCHANGED closeVars
    BY <1>12 DEF HandlePktCloses
  <2>2. /\ state' \in [Conns -> SockState] /\ fd' \in [Conns -> {"none", "open", "closed"}]
        /\ \A d \in Conns : state'[d] = "PEER_CLOSING" => state[d] = "PEER_CLOSING"
    BY <2>1, CloseKeepsRead
  <2>. QED  BY <1>12, <2>2 DEF HandlePktCloses
<1>13. ASSUME NEW c \in Conns, AfterRead(c) PROVE ReadInv'
  <2>1. Close(c, state[c]) \/ UNCHANGED closeVars
    BY <1>13 DEF AfterRead
  <2>2. /\ state' \in [Conns -> SockState] /\ fd' \in [Conns -> {"none", "open", "closed"}]
        /\ \A d \in Conns : state'[d] = "PEER_CLOSING" => state[d] = "PEER_CLOSING"
    BY <2>1, CloseKeepsRead
  <2>. QED  BY <1>13, <2>2 DEF AfterRead
<1>14. ASSUME NEW c \in Conns, OnHup(c) PROVE ReadInv'
  <2>1. Close(c, "CLOSING") \/ UNCHANGED closeVars
    BY <1>14 DEF OnHup
  <2>2. /\ state' \in [Conns -> SockState] /\ fd' \in [Conns -> {"none", "open", "closed"}]
        /\ \A d \in Conns : state'[d] = "PEER_CLOSING" => state[d] = "PEER_CLOSING"
    BY <2>1, CloseKeepsRead
  <2>. QED  BY <1>14, <2>2 DEF OnHup
<1>15. ASSUME NEW c \in Conns, TimerVisit(c) PROVE ReadInv'
  <2>1. Close(c, state[c]) \/ UNCHANGED closeVars
    BY <1>15 DEF TimerVisit
  <2>2. /\ state' \in [Conns -> SockState] /\ fd' \in [Conns -> {"none", "open", "closed"}]
        /\ \A d \in Conns : state'[d] = "PEER_CLOSING" => state[d] = "PEER_CLOSING"
    BY <2>1, CloseKeepsRead
  <2>. QED  BY <1>15, <2>2 DEF TimerVisit
<1>16. ASSUME NEW c \in Conns, CloseRequested(c) PROVE ReadInv'
  <2>1. Close(c, state[c]) \/ UNCHANGED closeVars
    BY <1>16 DEF CloseRequested
  <2>2. /\ state' \in [Conns -> SockState] /\ fd' \in [Conns -> {"none", "open", "closed"}]
        /\ \A d \in Conns : state'[d] = "PEER_CLOSING" => state[d] = "PEER_CLOSING"
    BY <2>1, CloseKeepsRead
  <2>. QED  BY <1>16, <2>2 DEF CloseRequested
<1>17. ASSUME NEW c \in Conns, OnWrite(c) PROVE ReadInv'
  <2>1. OnWriteConfirm(c) \/ Close(c, state[c]) \/ Close(c, "CLOSING") \/ UNCHANGED closeVars
    BY <1>17 DEF OnWrite, OnWriteFails, OnWriteOther, closeVars
  <2>2. CASE OnWriteConfirm(c)
    BY <1>17, <2>2 DEF OnWrite, OnWriteConfirm
  <2>3. CASE Close(c, state[c]) \/ Close(c, "CLOSING") \/ UNCHANGED closeVars
    <3>1. /\ state' \in [Conns -> SockState] /\ fd' \in [Conns -> {"none", "open", "closed"}]
          /\ \A d \in Conns : state'[d] = "PEER_CLOSING" => state[d] = "PEER_CLOSING"
      BY <2>3, CloseKeepsRead
    <3>. QED  BY <1>17, <3>1 DEF OnWrite
  <2>. QED  BY <2>1, <2>2, <2>3
<1>18. ASSUME NEW c \in Conns, NEW d \in Conns, HandlePktClosesOther(c, d) PROVE ReadInv'
  <2>1. Close(d, state[d])
    BY <1>18 DEF HandlePktClosesOther
  <2>2. /\ state' \in [Conns -> SockState] /\ fd' \in [Conns -> {"none", "open", "closed"}]
        /\ \A e \in Conns : state'[e] = "PEER_CLOSING" => state[e] = "PEER_CLOSING"
    BY <2>1, CloseKeepsRead
  <2>. QED  BY <1>18, <2>2 DEF HandlePktClosesOther
<1>19. CASE LoopControl
  BY <1>19 DEF LoopControl, Harvest, CheckTimer, EndSweep, SwapCloseList, EndClosing, SwapRegisterList,
     EndAdding, Revents
<1>20. CASE UNCHANGED vars
  BY <1>20 DEF vars
<1>. QED
  BY <1>1, <1>2, <1>3, <1>4, <1>5, <1>6, <1>7, <1>8, <1>9, <1>10, <1>11, <1>12, <1>13, <1>14, <1>15, <1>16, <1>17, <1>18, <1>19, <1>20 DEF Next, Loop, LoopStep

\* Whatever the application does with handles and threads, the loop closes a
\* connection for its peer's FIN only after all its packets were handed over.
THEOREM FinLast == Spec => FinAfterData
<1>1. Init => ReadInv
  BY DEF Init, ReadInv, Resolved, Events, SockState, Stages
<1>2. ASSUME ReadInv, [Next]_vars
      PROVE  \A c \in Conns :
               /\ fd[c] = "open" /\ fd'[c] = "closed"
               /\ pc \in {"dispatch", "afterRead"} /\ tcp[c] = "up"
               => c \in fin /\ inq[c] = 0 /\ parsed = 0
  <2>. SUFFICES ASSUME NEW c \in Conns, fd[c] = "open", fd'[c] = "closed",
                       pc \in {"dispatch", "afterRead"}, tcp[c] = "up"
                PROVE  c \in fin /\ inq[c] = 0 /\ parsed = 0
    OBVIOUS
  <2>. USE <1>2 DEF ReadInv
  <2>1. parsed = 0
    OBVIOUS
  <2>2. ASSUME NEW d \in Conns, OtherThreads(d) \/ Kernel(d) \/ ConnectInLoop(d) \/ AcceptInLoop(d) PROVE FALSE
    BY <2>2 DEF OtherThreads, ConnectFails, ConnectRegister, ConnectAssign, ConnectInsert, AcceptForeign,
       CloseHandle, NewSocket, ConnectInLoop, AcceptInLoop, Kernel, KernelResolves, KernelData, KernelFin,
       KernelReset, sockVars, Stages
  <2>3. CASE LoopControl \/ UNCHANGED vars
    BY <2>3 DEF LoopControl, Harvest, CheckTimer, EndSweep, SwapCloseList, EndClosing, SwapRegisterList,
       EndAdding, vars, sockVars
  <2>4. ASSUME NEW d \in Conns, LoopStep(d) PROVE c \in fin /\ inq[c] = 0
    <3>1. OnReadEof(d) \/ AfterRead(d) \/ OnWrite(d) \/ OnHup(d)
      BY <2>4 DEF LoopStep, TakeEvent, OnReadData, HandlePkt, HandlePktCloses, HandlePktClosesOther, EndRead,
         EndEvent, TimerVisit, CloseRequested, AddRegistered, sockVars
    <3>2. ASSUME NEW s \in {state[d], "CLOSING"}, Close(d, s) PROVE c = d
      BY <3>2, CloseKeepsRead
    <3>3. CASE OnReadEof(d)
      BY <3>2, <3>3 DEF OnReadEof, NothingToRead
    <3>4. CASE AfterRead(d)
      BY <3>2, <3>4 DEF AfterRead, PeerClosing, closeVars
    <3>5. CASE OnWrite(d)
      BY <3>2, <3>5 DEF OnWrite, OnWriteConfirm, OnWriteFails, OnWriteOther, closeVars
    <3>6. CASE OnHup(d)
      BY <3>2, <3>6 DEF OnHup, closeVars
    <3>. QED  BY <3>1, <3>3, <3>4, <3>5, <3>6
  <2>. QED  BY <2>1, <2>2, <2>3, <2>4 DEF Next, Loop
<1>. QED  BY ReadStep, <1>1, <1>2, PTL DEF Spec, FinAfterData

-----------------------------------------------------------------------------
(***************************************************************************)
(* Edges.                                                                  *)
(***************************************************************************)

\* recv has returned 0 and the event's handler will close the connection.
Draining(c) == cur = c /\ pc \in {"parse", "afterRead"} /\ state[c] = "PEER_CLOSING"

\* For each thing a socket can report, the event bit it will be found by.
Announced(c) ==
  /\ inq[c] > 0 => c \in ready \/ "IN" \in batch[c]
  /\ c \in fin => c \in ready \/ "IN" \in batch[c] \/ "HUP" \in batch[c] \/ Draining(c)
  /\ tcp[c] \in {"refused", "reset"} => c \in ready \/ "HUP" \in batch[c]
  /\ tcp[c] = "self" => c \in ready \/ "OUT" \in batch[c]

\* What the state of the socket says of its TCP connection.
SocketInv(c) ==
  /\ inq[c] > 0 \/ c \in fin => tcp[c] \in {"up", "reset"}
  /\ stage[c] = "accepted" => tcp[c] \in {"up", "reset"} /\ state[c] = "CONNECTED"
  /\ c \in hasHandle => /\ state[c] # "CLOSING"
                        /\ tcp[c] \in {"syn", "self"} => state[c] = "CONNECTING"

EdgeInv == \A c \in Conns : SocketInv(c) /\ (c \in hasHandle => Announced(c))

\* A connection that is closed, or found closed, has nothing to announce; the
\* others are left as they are.
LEMMA CloseKeepsEdges ==
  ASSUME IInv, EdgeInv, NEW c \in Conns, stage[c] = "done", NEW s, Close(c, s),
         UNCHANGED <<tcp, inq, fin, stage>>,
         \A d \in Conns : d # c => batch'[d] = batch[d] /\ (Draining(d) => Draining(d)')
  PROVE  EdgeInv'
<1>1. /\ state \in [Conns -> SockState] /\ c \notin hasHandle'
      /\ \A d \in Conns : d # c => state'[d] = state[d]
      /\ \A d \in Conns : d # c => (d \in ready' <=> d \in ready) /\ (d \in hasHandle' <=> d \in hasHandle)
  BY DEF IInv, TypeOK, Close, SocketClose, RemoveEvent
<1>. SUFFICES ASSUME NEW d \in Conns PROVE SocketInv(d)' /\ (d \in hasHandle' => Announced(d)')
  BY DEF EdgeInv
<1>2. SocketInv(d) /\ (d \in hasHandle => Announced(d))
  BY DEF EdgeInv
<1>3. CASE d = c
  BY <1>1, <1>2, <1>3 DEF SocketInv
<1>4. CASE d # c
  BY <1>1, <1>2, <1>4 DEF SocketInv, Announced
<1>. QED  BY <1>3, <1>4

\* Every step keeps what is known of the edges epoll still has.
LEMMA EdgeStep ==
  ASSUME SafeUse, IInv, ReadInv, EdgeInv, [Next]_vars
  PROVE  EdgeInv'
<1>0. /\ TypeOK /\ ControlInv /\ PlaceInv /\ EventInv
  BY DEF IInv
<1>. USE LifecycleAssumption DEF SafeUse, kernelVars, sockVars, connVars, listVars, loopVars, Handling
<1>1. ASSUME NEW c \in Conns, Kernel(c) PROVE EdgeInv'
  <2>. SUFFICES ASSUME NEW d \in Conns PROVE SocketInv(d)' /\ (d \in hasHandle' => Announced(d)')
    BY DEF EdgeInv
  <2>1. /\ SocketInv(d) /\ (d \in hasHandle => Announced(d)) /\ (d \in hasHandle => d \in epoll)
        /\ UNCHANGED <<state, stage, hasHandle, batch, cur, pc>>
        /\ ready \subseteq ready' /\ (d = c /\ d \in hasHandle => d \in ready')
    BY <1>0, <1>1 DEF EdgeInv, PlaceInv, Kernel, KernelResolves, KernelData, KernelFin, KernelReset, Edge
  <2>2. CASE d = c
    <3>1. d \in hasHandle' => Announced(d)'
      BY <2>1, <2>2 DEF Announced
    <3>2. SocketInv(d)'
      BY <1>0, <1>1, <2>1, <2>2 DEF SocketInv, TypeOK, Resolved, Kernel, KernelResolves, KernelData, KernelFin, KernelReset
    <3>. QED  BY <3>1, <3>2
  <2>3. CASE d # c
    <3>1. tcp'[d] = tcp[d] /\ inq'[d] = inq[d] /\ (d \in fin' <=> d \in fin)
      BY <1>0, <1>1, <2>3 DEF TypeOK, Kernel, KernelResolves, KernelData, KernelFin, KernelReset
    <3>. QED  BY <2>1, <3>1 DEF SocketInv, Announced, Draining
  <2>. QED  BY <2>2, <2>3
<1>2. ASSUME NEW c \in Conns, ConnectFails(c) \/ AcceptForeign(c) \/ ConnectInLoop(c) \/ AcceptInLoop(c)
      PROVE  EdgeInv'
  <2>. SUFFICES ASSUME NEW d \in Conns PROVE SocketInv(d)' /\ (d \in hasHandle' => Announced(d)')
    BY DEF EdgeInv
  <2>1. /\ SocketInv(d) /\ (d \in hasHandle => Announced(d)) /\ stage[c] = "new" /\ c \notin hasHandle
        /\ UNCHANGED <<inq, fin, batch, cur, pc>> /\ ready \subseteq ready'
        /\ (d # c => (d \in hasHandle' <=> d \in hasHandle) /\ (d \in ready' <=> d \in ready))
    BY <1>0, <1>2 DEF EdgeInv, PlaceInv, ConnectFails, AcceptForeign, ConnectInLoop, AcceptInLoop
  <2>2. CASE d = c
    <3>1. inq[c] = 0 /\ c \notin fin
      BY <2>1, <2>2, <1>0 DEF SocketInv, ReadInv, TypeOK
    <3>2. CASE ConnectFails(c)
      BY <1>0, <2>1, <2>2, <3>1, <3>2 DEF ConnectFails, SocketInv, TypeOK
    <3>3. CASE AcceptForeign(c)
      BY <1>0, <2>1, <2>2, <3>1, <3>3 DEF AcceptForeign, NewSocket, SocketInv, TypeOK
    <3>4. CASE ConnectInLoop(c)
      BY <1>0, <2>1, <2>2, <3>1, <3>4 DEF ConnectInLoop, NewSocket, SocketInv, Announced, TypeOK
    <3>5. CASE AcceptInLoop(c)
      BY <1>0, <2>1, <2>2, <3>1, <3>5 DEF AcceptInLoop, NewSocket, SocketInv, Announced, TypeOK
    <3>. QED  BY <1>2, <3>2, <3>3, <3>4, <3>5
  <2>3. CASE d # c
    <3>1. tcp'[d] = tcp[d] /\ state'[d] = state[d] /\ stage'[d] = stage[d]
      BY <1>0, <1>2, <2>3 DEF TypeOK, ConnectFails, AcceptForeign, ConnectInLoop, AcceptInLoop, NewSocket
    <3>. QED  BY <2>1, <2>3, <3>1 DEF SocketInv, Announced, Draining
  <2>. QED  BY <2>2, <2>3
<1>3. ASSUME NEW c \in Conns, ConnectRegister(c) \/ ConnectAssign(c) \/ ConnectInsert(c) PROVE EdgeInv'
  BY <1>0, <1>3 DEF PlaceInv, ConnectRegister, ConnectAssign, ConnectInsert
<1>4. ASSUME NEW c \in Conns, OnReadEof(c) PROVE EdgeInv'
  <2>1. stage[c] = "done" /\ Close(c, state[c]) /\ cur = c /\ UNCHANGED <<tcp, inq, fin, stage, cur, pc>>
        /\ \A d \in Conns : d # c => batch'[d] = batch[d] /\ ~Draining(d)
    BY <1>0, <1>4 DEF OnReadEof, EventInv, TypeOK, Draining
  <2>. QED  BY <2>1, CloseKeepsEdges
<1>5. ASSUME NEW c \in Conns, OnReadData(c) PROVE EdgeInv'
  <2>. SUFFICES ASSUME NEW d \in Conns PROVE SocketInv(d)' /\ (d \in hasHandle' => Announced(d)')
    BY DEF EdgeInv
  <2>1. /\ SocketInv(d) /\ (d \in hasHandle => Announced(d)) /\ cur = c /\ pc = "dispatch"
        /\ UNCHANGED <<tcp, fin, ready, hasHandle, stage, cur>> /\ pc' = "parse"
        /\ inq' = [inq EXCEPT ![c] = 0]
    <3>1. inq[c] - RecvData(c) = 0
      BY <1>0 DEF TypeOK, RecvData
    <3>2. inq' = [inq EXCEPT ![c] = 0]
      BY <1>5, <3>1 DEF OnReadData
    <3>. QED  BY <1>5, <3>2 DEF EdgeInv, OnReadData
  <2>2. CASE d = c
    <3>1. inq'[c] = 0 /\ batch'[c] = batch[c] \ {"IN"} /\ stage[c] = "done"
          /\ state'[c] = IF c \in fin /\ tcp[c] = "up" THEN "PEER_CLOSING" ELSE state[c]
      BY <1>0, <1>5, <2>1 DEF OnReadData, TypeOK, EventInv
    <3>2. c \in fin /\ tcp[c] = "up" => Draining(c)'
      BY <2>1, <3>1 DEF Draining
    <3>3. SocketInv(c)'
      BY <2>1, <2>2, <3>1 DEF SocketInv
    <3>4. c \in hasHandle' => Announced(c)'
      BY <2>1, <2>2, <3>1, <3>2 DEF SocketInv, Announced
    <3>. QED  BY <2>2, <3>3, <3>4
  <2>3. CASE d # c
    <3>1. batch'[d] = batch[d] /\ state'[d] = state[d] /\ inq'[d] = inq[d]
      BY <1>0, <1>5, <2>1, <2>3 DEF OnReadData, TypeOK
    <3>. QED  BY <2>1, <2>3, <3>1 DEF SocketInv, Announced, Draining
  <2>. QED  BY <2>2, <2>3
<1>6. ASSUME NEW c \in Conns, HandlePktCloses(c) PROVE EdgeInv'
  <2>1. stage[c] = "done" /\ Close(c, state[c]) /\ cur = c /\ UNCHANGED <<tcp, inq, fin, stage, batch, cur, pc>>
    BY <1>0, <1>6 DEF HandlePktCloses, EventInv
  <2>2. \A d \in Conns : d # c => ~Draining(d)
    BY <2>1 DEF Draining
  <2>. QED  BY <2>1, <2>2, CloseKeepsEdges
<1>7. ASSUME NEW c \in Conns, AfterRead(c) PROVE EdgeInv'
  <2>1. /\ stage[c] = "done" /\ cur = c /\ pc' = "dispatch" /\ UNCHANGED <<tcp, inq, fin, stage, batch, cur>>
        /\ \A d \in Conns : d # c => ~Draining(d)
    BY <1>0, <1>7 DEF AfterRead, EventInv, Draining
  <2>2. CASE state[c] = "PEER_CLOSING"
    <3>1. Close(c, state[c])
      BY <1>7, <2>2 DEF AfterRead, PeerClosing
    <3>. QED  BY <2>1, <3>1, CloseKeepsEdges
  <2>3. CASE state[c] # "PEER_CLOSING"
    <3>1. UNCHANGED <<state, ready, hasHandle>>
      BY <1>7, <2>3 DEF AfterRead, PeerClosing, closeVars
    <3>2. \A d \in Conns : ~Draining(d)
      BY <2>1, <2>3 DEF Draining
    <3>. QED  BY <2>1, <3>1, <3>2 DEF EdgeInv, SocketInv, Announced
  <2>. QED  BY <2>2, <2>3
<1>8. ASSUME NEW c \in Conns, OnWrite(c) PROVE EdgeInv'
  <2>1. /\ stage[c] = "done" /\ cur = c /\ UNCHANGED <<tcp, inq, fin, stage, cur, pc>>
        /\ \A d \in Conns : ~Draining(d)
        /\ \A d \in Conns : d # c => batch'[d] = batch[d]
        /\ batch'[c] = batch[c] \ {"OUT"}
    BY <1>0, <1>8 DEF OnWrite, EventInv, TypeOK, Draining
  <2>2. CASE OnWriteFails(c)
    <3>1. PICK s \in SockState : Close(c, s)
      BY <1>0, <2>2 DEF OnWriteFails, TypeOK, SockState
    <3>. QED  BY <2>1, <3>1, CloseKeepsEdges
  <2>3. CASE OnWriteConfirm(c) \/ OnWriteOther(c)
    <3>1. /\ UNCHANGED <<ready, hasHandle>> /\ \A d \in Conns : d # c => state'[d] = state[d]
          /\ state[c] = "CONNECTING" => tcp[c] = "up" /\ state'[c] = "CONNECTED"
          /\ state[c] # "CONNECTING" => state'[c] = state[c]
      BY <1>0, <2>3 DEF OnWriteConfirm, OnWriteOther, closeVars, TypeOK
    <3>. SUFFICES ASSUME NEW d \in Conns PROVE SocketInv(d)' /\ (d \in hasHandle' => Announced(d)')
      BY DEF EdgeInv
    <3>2. SocketInv(d) /\ (d \in hasHandle => Announced(d))
      BY DEF EdgeInv
    <3>3. CASE d = c
      <4>1. d \in hasHandle => tcp[c] # "self"
        BY <3>1, <3>2, <3>3 DEF SocketInv
      <4>. QED  BY <2>1, <3>1, <3>2, <3>3, <4>1 DEF SocketInv, Announced
    <3>4. CASE d # c
      BY <2>1, <3>1, <3>2, <3>4 DEF SocketInv, Announced
    <3>. QED  BY <3>3, <3>4
  <2>. QED  BY <1>8, <2>2, <2>3 DEF OnWrite
<1>9. ASSUME NEW c \in Conns, OnHup(c) PROVE EdgeInv'
  <2>1. /\ stage[c] = "done" /\ UNCHANGED <<tcp, inq, fin, stage, cur, pc>>
        /\ \A d \in Conns : ~Draining(d)
        /\ \A d \in Conns : d # c => batch'[d] = batch[d]
    BY <1>0, <1>9 DEF OnHup, EventInv, TypeOK, Draining
  <2>2. CASE state[c] # "CLOSING"
    <3>1. Close(c, "CLOSING")
      BY <1>9, <2>2 DEF OnHup
    <3>. QED  BY <2>1, <3>1, CloseKeepsEdges
  <2>3. CASE state[c] = "CLOSING"
    <3>1. c \notin hasHandle /\ UNCHANGED <<state, ready, hasHandle>>
      BY <1>9, <2>3 DEF OnHup, closeVars, EdgeInv, SocketInv
    <3>. QED  BY <2>1, <3>1 DEF EdgeInv, SocketInv, Announced
  <2>. QED  BY <2>2, <2>3
<1>10. ASSUME NEW c \in Conns, TimerVisit(c) \/ CloseRequested(c) PROVE EdgeInv'
  <2>1. UNCHANGED <<tcp, inq, fin, stage, batch, cur, pc>>
    BY <1>10 DEF TimerVisit, CloseRequested
  <2>2. CASE UNCHANGED closeVars
    BY <2>1, <2>2 DEF closeVars, EdgeInv, SocketInv, Announced, Draining
  <2>3. CASE Close(c, state[c]) /\ c \in hasHandle
    <3>1. stage[c] = "done" /\ \A d \in Conns : ~Draining(d)
      BY <1>0, <1>10, <2>3 DEF PlaceInv, Draining, TimerVisit, CloseRequested
    <3>. QED  BY <2>1, <2>3, <3>1, CloseKeepsEdges
  <2>. QED  BY <1>0, <1>10, <2>2, <2>3 DEF TimerVisit, CloseRequested, PlaceInv
<1>11. ASSUME NEW c \in Conns, AddRegistered(c) PROVE EdgeInv'
  <2>1. /\ stage[c] = "accepted" /\ fd[c] = "open"
        /\ UNCHANGED <<tcp, inq, fin, state, batch, cur, pc>>
        /\ hasHandle' = hasHandle \cup {c} /\ ready \subseteq ready'
        /\ stage' = [stage EXCEPT ![c] = "done"]
        /\ tcp[c] \in Resolved => c \in ready'
    BY <1>0, <1>11 DEF AddRegistered, PlaceInv
  <2>2. tcp[c] \in {"up", "reset"} /\ state[c] = "CONNECTED" /\ c \in ready'
    BY <2>1 DEF EdgeInv, SocketInv, Resolved
  <2>3. \A d \in Conns : d # c => stage'[d] = stage[d] /\ (d \in hasHandle' <=> d \in hasHandle)
    BY <1>0, <2>1 DEF TypeOK
  <2>. SUFFICES ASSUME NEW d \in Conns PROVE SocketInv(d)' /\ (d \in hasHandle' => Announced(d)')
    BY DEF EdgeInv
  <2>4. SocketInv(d) /\ (d \in hasHandle => Announced(d))
    BY DEF EdgeInv
  <2>5. CASE d = c
    BY <1>0, <2>1, <2>2, <2>4, <2>5 DEF SocketInv, Announced, TypeOK
  <2>6. CASE d # c
    BY <2>1, <2>3, <2>4, <2>6 DEF SocketInv, Announced, Draining
  <2>. QED  BY <2>5, <2>6
<1>12. CASE Harvest
  <2>1. /\ pc = "wait" /\ ready' = {} /\ pc' = "events"
        /\ UNCHANGED <<tcp, inq, fin, state, hasHandle, stage, cur>>
        /\ \A d \in Conns : batch[d] = {} /\ batch'[d] = IF d \in ready THEN Revents(d) ELSE {}
    BY <1>0, <1>12 DEF Harvest, ControlInv
  <2>. SUFFICES ASSUME NEW d \in Conns PROVE SocketInv(d)' /\ (d \in hasHandle' => Announced(d)')
    BY DEF EdgeInv
  <2>2. SocketInv(d) /\ (d \in hasHandle => Announced(d)) /\ ~Draining(d)
    BY <2>1 DEF EdgeInv, Draining
  <2>3. SocketInv(d)'
    BY <2>1, <2>2 DEF SocketInv
  <2>4. ASSUME d \in hasHandle PROVE Announced(d)'
    <3>1. inq[d] > 0 \/ d \in fin \/ tcp[d] \in {"refused", "reset", "self"} => d \in ready
      BY <2>1, <2>2, <2>4 DEF Announced
    <3>. QED  BY <2>1, <3>1 DEF Announced, Revents, Events, Resolved
  <2>. QED  BY <2>1, <2>3, <2>4
<1>13. ASSUME UNCHANGED <<tcp, inq, fin, ready, state, hasHandle, stage, batch>>,
              \A d \in Conns : Draining(d) => Draining(d)'
       PROVE  EdgeInv'
  BY <1>13 DEF EdgeInv, SocketInv, Announced
<1>14. ASSUME NEW c \in Conns, CloseHandle(c) \/ TakeEvent(c) \/ HandlePkt(c) \/ EndRead(c) \/ EndEvent(c)
       PROVE  EdgeInv'
  <2>1. /\ UNCHANGED <<tcp, inq, fin, ready, state, hasHandle, stage, batch>>
        /\ \A d \in Conns : Draining(d) => Draining(d)'
    BY <1>14 DEF CloseHandle, TakeEvent, HandlePkt, EndRead, EndEvent, Draining
  <2>. QED  BY <1>13, <2>1
<1>15. ASSUME CheckTimer \/ EndSweep \/ SwapCloseList \/ EndClosing \/ SwapRegisterList \/ EndAdding \/ UNCHANGED vars
       PROVE  EdgeInv'
  <2>1. /\ UNCHANGED <<tcp, inq, fin, ready, state, hasHandle, stage, batch>>
        /\ \A d \in Conns : Draining(d) => Draining(d)'
    BY <1>15 DEF CheckTimer, EndSweep, SwapCloseList, EndClosing, SwapRegisterList, EndAdding, vars, Draining
  <2>. QED  BY <1>13, <2>1
<1>. QED
  BY <1>1, <1>2, <1>3, <1>4, <1>5, <1>6, <1>7, <1>8, <1>9, <1>10, <1>11, <1>12, <1>14, <1>15
  DEF Next, Loop, LoopControl, LoopStep, OtherThreads, HandlePktClosesOther

\* Edge-triggered epoll loses nothing: whatever arrives while the events of the
\* same socket are handled, an open connection with data, a FIN, an error or a
\* failed connect is on the ready list or its event is still to be handled.
THEOREM EdgesKept == SafeUse => (Spec => []NoLostEdge)
<1>. SUFFICES ASSUME SafeUse PROVE Spec => []NoLostEdge
  OBVIOUS
<1>1. Init => ReadInv
  BY DEF Init, ReadInv, Resolved, Events, SockState, Stages
<1>2. Init => EdgeInv
  <2>. SUFFICES ASSUME Init, NEW c \in Conns PROVE SocketInv(c) /\ (c \in hasHandle => Announced(c))
    BY DEF EdgeInv
  <2>1. ~(inq[c] > 0) /\ c \notin fin /\ c \notin hasHandle
    BY DEF Init
  <2>2. stage[c] # "accepted"
    BY DEF Init
  <2>. QED  BY <2>1, <2>2 DEF SocketInv
<1>3. IInv /\ EdgeInv => NoLostEdge
  <2>. SUFFICES ASSUME IInv, EdgeInv, NEW c \in epoll,
                       inq[c] > 0 \/ c \in fin \/ tcp[c] \in {"refused", "self", "reset"}
                PROVE  c \in ready \/ batch[c] # {} \/ (cur = c /\ pc \in {"parse", "afterRead"})
    BY DEF NoLostEdge
  <2>1. c \in Conns /\ c \in hasHandle
    BY DEF IInv, PlaceInv, TypeOK
  <2>2. Announced(c)
    BY <2>1 DEF EdgeInv
  <2>. QED  BY <2>2 DEF Announced, Draining
<1>. QED  BY Inductive, ReadStep, EdgeStep, <1>1, <1>2, <1>3, PTL DEF Spec
=============================================================================
