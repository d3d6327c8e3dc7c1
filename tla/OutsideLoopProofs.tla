------------------------- MODULE OutsideLoopProofs -------------------------
(***************************************************************************)
(* Proofs about what runs outside the IO threads: handles and the accept   *)
(* loop, the log and the blocking client, for any number of threads,       *)
(* handles, days and requests, and packets of any length.                  *)
(***************************************************************************)
EXTENDS Acceptor, LogFile, BlockClient, SequenceTheorems, TLAPS

-----------------------------------------------------------------------------
(***************************************************************************)
(* Handles.                                                                *)
(***************************************************************************)

\* A number drawn is a handle, whatever the counter.
LEMMA NormalizeIsHandle ==
  ASSUME NEW x \in -HalfRange..(HalfRange - 1)
  PROVE  Normalize(x) \in Handles
BY AllocatorAssumption DEF Normalize, Handles

\* The counter wraps to a value of its type.
LEMMA WrapInRange ==
  ASSUME NEW x \in -HalfRange..(HalfRange - 1)
  PROVE  Wrap(x + 1) \in -HalfRange..(HalfRange - 1)
BY AllocatorAssumption DEF Wrap

\* Every handle leads to one of the IO threads.
LEMMA HandleIndexes ==
  ASSUME NEW h \in Handles, IoThreads > 0
  PROVE  IoThread(h) \in 0..(IoThreads - 1)
BY AllocatorAssumption, SMT DEF Handles, IoThread

\* What a draw leaves of the type invariant.
LEMMA FetchTyped ==
  ASSUME TypeOK, NEW t \in Threads, Fetch(t)
  PROVE  /\ allocator' \in -HalfRange..(HalfRange - 1)
         /\ handle' \in [Threads -> Handles]
         /\ IoThreads > 0 => \A u \in Threads : IoThread(handle'[u]) \in 0..(IoThreads - 1)
<1>1. allocator' \in -HalfRange..(HalfRange - 1)
  BY WrapInRange DEF TypeOK, Fetch
<1>2. handle' \in [Threads -> Handles]
  BY NormalizeIsHandle DEF TypeOK, Fetch
<1> QED
  BY <1>1, <1>2, HandleIndexes

\* The inductive invariant holds in the initial state.
LEMMA InitHandles == Init => HandleInv
<1> SUFFICES ASSUME Init PROVE HandleInv
  OBVIOUS
<1>1. handle \in [Threads -> Handles]
  BY AllocatorAssumption DEF Init, Handles
<1>2. TypeOK
  BY <1>1, HandleIndexes, AllocatorAssumption DEF Init, TypeOK
<1> QED
  BY <1>2 DEF Init, HandleInv, ListenersSeen, ListenersKept

\* Every step of a thread, a listener or a closing connection keeps it.
LEMMA StepHandles == HandleInv /\ [Next]_vars => HandleInv'
<1> SUFFICES ASSUME HandleInv, [Next]_vars PROVE HandleInv'
  OBVIOUS
<1> USE DEF HandleInv
<1>1. ASSUME NEW t \in Threads, Draw(t) PROVE HandleInv'
  <2>1. TypeOK'
    BY <1>1, FetchTyped, AllocatorAssumption DEF Draw, Count, TypeOK
  <2>2. ~LateListen => ListenersSeen'
    BY <1>1 DEF Draw, ListenersSeen
  <2>3. ~LateListen => ListenersKept'
    BY <1>1 DEF Draw, Fetch, ListenersKept, TypeOK
  <2> QED  BY <2>1, <2>2, <2>3
<1>2. ASSUME NEW t \in Threads, DrawAgain(t) PROVE HandleInv'
  <2>1. TypeOK'
    BY <1>2, FetchTyped, AllocatorAssumption DEF DrawAgain, Count, TypeOK
  <2>2. ~LateListen => ListenersSeen'
    BY <1>2 DEF DrawAgain, ListenersSeen
  <2>3. ~LateListen => ListenersKept'
    BY <1>2 DEF DrawAgain, Fetch, ListenersKept, TypeOK
  <2> QED  BY <2>1, <2>2, <2>3
<1>3. ASSUME NEW t \in Threads, Found(t) PROVE HandleInv'
  <2>1. TypeOK' /\ (~LateListen => ListenersSeen')
    BY <1>3 DEF Found, TypeOK, ListenersSeen
  <2>2. ~LateListen => ListenersKept'
    BY <1>3 DEF Found, Used, ListenersKept, ListenersSeen, TypeOK
  <2> QED  BY <2>1, <2>2
<1>4. ASSUME NEW t \in Threads, OpenConn(t) PROVE HandleInv'
  <2>1. TypeOK'
    BY <1>4 DEF OpenConn, Open, TypeOK
  <2>2. ~LateListen => ListenersSeen'
    BY <1>4 DEF OpenConn, ListenersSeen
  <2>3. ~LateListen => ListenersKept'
    BY <1>4 DEF OpenConn, Open, ListenersKept, TypeOK
  <2> QED  BY <2>1, <2>2, <2>3
<1>5. CASE StartListen
  <2>1. TypeOK'
    BY <1>5, AllocatorAssumption DEF StartListen, Open, TypeOK
  <2>2. ~LateListen => ListenersSeen'
    BY <1>5 DEF StartListen, ListenersSeen
  <2>3. ASSUME ~LateListen PROVE ListenersKept'
    \* No connection exists and no other thread is making one.
    BY <1>5, <2>3, AllocatorAssumption DEF StartListen, Open, NoConns, ListenersKept, TypeOK
  <2> QED  BY <2>1, <2>2, <2>3
<1>6. ASSUME NEW h \in Handles, CloseConn(h) PROVE HandleInv'
  <2>1. TypeOK'
    BY <1>6 DEF CloseConn, TypeOK
  <2>2. ~LateListen => ListenersSeen'
    BY <1>6 DEF CloseConn, ListenersSeen, ListenersKept
  <2>3. ~LateListen => ListenersKept'
    BY <1>6 DEF CloseConn, ListenersKept, TypeOK
  <2> QED  BY <2>1, <2>2, <2>3
<1>7. CASE UNCHANGED vars
  BY <1>7 DEF vars, TypeOK, ListenersSeen, ListenersKept
<1> QED
  BY <1>1, <1>2, <1>3, <1>4, <1>5, <1>6, <1>7 DEF Next, Create

\* Whatever a connecting thread and the main thread do, and however often the
\* counter wraps: a search never gives a connection a listener's handle
\* (BaseSocket's constructor), and handle % io_thread_num is an index.
THEOREM HandlesCorrect == Spec => []HandleInv
BY InitHandles, StepHandles, PTL DEF Spec

-----------------------------------------------------------------------------
(***************************************************************************)
(* Until the counter wraps.                                                *)
(***************************************************************************)

\* Each draw is above all that went before it: handles in use, and those of
\* sockets that are being made, are among the numbers drawn.
DrawnInv ==
  fetches < HalfRange =>
    /\ allocator = Wrap(fetches + 1)
    /\ \A h \in Handles : conns[h] > 0 \/ h \in listeners => h <= fetches
    /\ \A t \in Threads : pc[t] # "idle" => handle[t] <= fetches

UniqueInv == TypeOK /\ DrawnInv /\ UniqueUntilWrap

\* The number drawn, when it is not the last before the wrap.
LEMMA FetchIsNext ==
  ASSUME UniqueInv, NEW t \in Threads, Fetch(t), Count, fetches' < HalfRange
  PROVE  /\ fetches \in Nat /\ fetches < HalfRange /\ fetches' = fetches + 1
         /\ handle' = [handle EXCEPT ![t] = fetches'] /\ allocator' = Wrap(fetches' + 1)
<1>1. fetches \in Nat /\ fetches < HalfRange /\ fetches' = fetches + 1
  BY AllocatorAssumption DEF UniqueInv, TypeOK, Count
<1>2. allocator = fetches + 1 /\ allocator < HalfRange /\ allocator >= 0
  BY <1>1, AllocatorAssumption DEF UniqueInv, DrawnInv, Wrap
<1>3. Normalize(allocator) = fetches' /\ allocator + 1 = fetches' + 1
  BY <1>1, <1>2 DEF Normalize
<1>4. handle' = [handle EXCEPT ![t] = fetches'] /\ allocator' = Wrap(fetches' + 1)
  BY <1>3 DEF Fetch
<1>. QED  BY <1>1, <1>4

\* A handle just drawn differs from those drawn within one turn of the counter.
LEMMA DrawUnique ==
  ASSUME UniqueInv, NEW t \in Threads, Fetch(t), Count, UNCHANGED <<listeners, conns>>,
         \A u \in Threads \ {t} : pc'[u] = pc[u]
  PROVE  DrawnInv' /\ UniqueUntilWrap'
<1>. SUFFICES ASSUME fetches' < HalfRange PROVE DrawnInv' /\ UniqueUntilWrap'
  BY DEF DrawnInv, UniqueUntilWrap
<1>1. /\ fetches \in Nat /\ fetches < HalfRange /\ fetches' = fetches + 1
      /\ handle' = [handle EXCEPT ![t] = fetches'] /\ allocator' = Wrap(fetches' + 1)
  BY FetchIsNext
<1>2. /\ handle \in [Threads -> Handles] /\ conns \in [Handles -> Nat] /\ listeners \subseteq Handles
      /\ fetches' \in Handles
  BY <1>1, AllocatorAssumption DEF UniqueInv, TypeOK, Handles
<1>3. /\ \A h \in Handles : conns[h] > 0 \/ h \in listeners => h <= fetches
      /\ \A u \in Threads : pc[u] # "idle" => handle[u] <= fetches
  BY <1>1 DEF UniqueInv, DrawnInv
<1>4. handle'[t] = fetches' /\ \A u \in Threads \ {t} : handle'[u] = handle[u]
  BY <1>1, <1>2
<1>5. DrawnInv'
  <2>1. allocator' = Wrap(fetches' + 1)
    BY <1>1
  <2>2. ASSUME NEW h \in Handles, conns'[h] > 0 \/ h \in listeners' PROVE h <= fetches'
    <3>1. conns[h] > 0 \/ h \in listeners
      BY <2>2
    <3>2. h <= fetches /\ h \in Nat
      BY <1>3, <3>1 DEF Handles
    <3>. QED  BY <1>1, <3>2
  <2>3. ASSUME NEW u \in Threads, pc'[u] # "idle" PROVE handle'[u] <= fetches'
    <3>1. CASE u = t
      BY <1>1, <1>4, <3>1
    <3>2. CASE u # t
      <4>1. handle'[u] = handle[u] /\ handle[u] <= fetches /\ handle[u] \in Nat
        BY <1>2, <1>3, <1>4, <2>3, <3>2 DEF Handles
      <4>. QED  BY <1>1, <4>1
    <3>. QED  BY <3>1, <3>2
  <2>. QED  BY <2>1, <2>2, <2>3 DEF DrawnInv
<1>6. /\ conns[fetches'] = 0 /\ fetches' \notin listeners
      /\ \A u \in Threads \ {t} : pc[u] # "idle" => handle[u] # fetches'
  BY <1>1, <1>2, <1>3 DEF Handles
<1>7. Unique'
  BY <1>1 DEF UniqueInv, UniqueUntilWrap, Unique
<1>8. ASSUME NEW u \in Threads, pc'[u] # "idle"
      PROVE  /\ conns'[handle'[u]] = 0 /\ handle'[u] \notin listeners'
             /\ \A v \in Threads \ {u} : pc'[v] # "idle" => handle'[v] # handle'[u]
  <2>1. CASE u = t
    BY <1>4, <1>6, <2>1
  <2>2. CASE u # t
    <3>1. pc[u] # "idle" /\ handle'[u] = handle[u] /\ handle[u] # fetches'
      BY <1>4, <1>6, <1>8, <2>2
    <3>2. /\ conns[handle[u]] = 0 /\ handle[u] \notin listeners
          /\ \A v \in Threads \ {u} : pc[v] # "idle" => handle[v] # handle[u]
      BY <1>1, <3>1 DEF UniqueInv, UniqueUntilWrap
    <3>. QED  BY <1>4, <3>1, <3>2
  <2>. QED  BY <2>1, <2>2
<1>. QED  BY <1>5, <1>7, <1>8 DEF UniqueUntilWrap

\* Every step keeps the uniqueness of the handles drawn since a wrap.
LEMMA StepUnique == UniqueInv /\ HandleInv' /\ [Next]_vars => UniqueInv'
<1>. SUFFICES ASSUME UniqueInv, HandleInv', [Next]_vars PROVE DrawnInv' /\ UniqueUntilWrap'
  BY DEF UniqueInv, HandleInv
<1>0. /\ handle \in [Threads -> Handles] /\ conns \in [Handles -> Nat] /\ listeners \subseteq Handles
      /\ pc \in [Threads -> {"idle", "find", "found"}] /\ Main \in Threads
  BY AllocatorAssumption DEF UniqueInv, TypeOK
<1>1. ASSUME NEW t \in Threads, Draw(t) \/ DrawAgain(t) PROVE DrawnInv' /\ UniqueUntilWrap'
  <2>1. /\ Fetch(t) /\ Count /\ UNCHANGED <<listeners, conns>>
        /\ \A u \in Threads \ {t} : pc'[u] = pc[u]
    BY <1>0, <1>1 DEF Draw, DrawAgain
  <2>. QED  BY <2>1, DrawUnique
<1>2. ASSUME NEW t \in Threads, Found(t) PROVE DrawnInv' /\ UniqueUntilWrap'
  <2>1. UNCHANGED <<allocator, handle, listeners, conns, fetches>>
    BY <1>2 DEF Found
  <2>2. \A u \in Threads : pc'[u] # "idle" <=> pc[u] # "idle"
    BY <1>0, <1>2 DEF Found
  <2>. QED  BY <2>1, <2>2 DEF UniqueInv, DrawnInv, UniqueUntilWrap, Unique
<1>3. ASSUME NEW t \in Threads, OpenConn(t), fetches < HalfRange PROVE DrawnInv' /\ UniqueUntilWrap'
  <2>. DEFINE g == handle[t]
  <2>1. /\ g \in Handles /\ pc[t] = "found" /\ pc' = [pc EXCEPT ![t] = "idle"]
        /\ conns' = [conns EXCEPT ![g] = @ + 1]
        /\ UNCHANGED <<allocator, handle, listeners, fetches>>
    BY <1>0, <1>3 DEF OpenConn, Open
  <2>2. /\ conns[g] = 0 /\ g \notin listeners /\ g <= fetches
        /\ \A u \in Threads \ {t} : pc[u] # "idle" => handle[u] # g
    BY <1>3, <2>1 DEF UniqueInv, UniqueUntilWrap, DrawnInv
  <2>3. /\ conns'[g] = 1 /\ \A h \in Handles : h # g => conns'[h] = conns[h]
        /\ \A u \in Threads : pc'[u] # "idle" => u # t /\ pc[u] # "idle" /\ handle[u] # g /\ handle[u] \in Handles
    BY <1>0, <2>1, <2>2
  <2>. HIDE DEF g
  <2>4. DrawnInv'
    BY <1>3, <2>1, <2>2, <2>3 DEF UniqueInv, DrawnInv
  <2>5. Unique'
    BY <1>3, <2>1, <2>2, <2>3 DEF UniqueInv, UniqueUntilWrap, Unique
  <2>6. UniqueUntilWrap'
    BY <1>3, <2>1, <2>3, <2>5 DEF UniqueInv, UniqueUntilWrap
  <2>. QED  BY <2>4, <2>6
<1>4. ASSUME StartListen, fetches < HalfRange PROVE DrawnInv' /\ UniqueUntilWrap'
  <2>. DEFINE g == handle[Main]
  <2>1. /\ g \in Handles /\ pc[Main] = "found" /\ pc' = [pc EXCEPT ![Main] = "idle"]
        /\ listeners' = listeners \cup {g}
        /\ UNCHANGED <<allocator, handle, conns, fetches>>
    BY <1>0, <1>4 DEF StartListen, Open
  <2>2. /\ conns[g] = 0 /\ g <= fetches
        /\ \A u \in Threads \ {Main} : pc[u] # "idle" => handle[u] # g
    BY <1>0, <1>4, <2>1 DEF UniqueInv, UniqueUntilWrap, DrawnInv
  <2>3. \A u \in Threads : pc'[u] # "idle" => u # Main /\ pc[u] # "idle" /\ handle[u] # g
    BY <1>0, <2>1, <2>2
  <2>. HIDE DEF g
  <2>4. DrawnInv'
    BY <1>4, <2>1, <2>2, <2>3 DEF UniqueInv, DrawnInv
  <2>5. Unique'
    BY <1>4, <2>1, <2>2 DEF UniqueInv, UniqueUntilWrap, Unique
  <2>6. UniqueUntilWrap'
    BY <1>4, <2>1, <2>3, <2>5 DEF UniqueInv, UniqueUntilWrap
  <2>. QED  BY <2>4, <2>6
<1>5. ASSUME NEW g \in Handles, CloseConn(g), fetches < HalfRange PROVE DrawnInv' /\ UniqueUntilWrap'
  <2>1. /\ conns[g] > 0 /\ conns' = [conns EXCEPT ![g] = @ - 1]
        /\ UNCHANGED <<allocator, pc, handle, listeners, fetches>>
    BY <1>5 DEF CloseConn
  <2>2. conns'[g] = conns[g] - 1 /\ \A h \in Handles : h # g => conns'[h] = conns[h]
    BY <1>0, <2>1
  <2>3. DrawnInv'
    BY <1>0, <1>5, <2>1, <2>2 DEF UniqueInv, DrawnInv
  <2>4. Unique'
    BY <1>0, <1>5, <2>1, <2>2 DEF UniqueInv, UniqueUntilWrap, Unique
  <2>5. \A u \in Threads : conns[handle[u]] = 0 => conns'[handle[u]] = 0
    BY <1>0, <2>1, <2>2
  <2>6. UniqueUntilWrap'
    BY <1>5, <2>1, <2>4, <2>5 DEF UniqueInv, UniqueUntilWrap
  <2>. QED  BY <2>3, <2>6
<1>6. ASSUME ~(fetches < HalfRange), fetches' = fetches PROVE DrawnInv' /\ UniqueUntilWrap'
  BY <1>6 DEF DrawnInv, UniqueUntilWrap
<1>7. CASE UNCHANGED vars
  BY <1>7 DEF vars, UniqueInv, DrawnInv, UniqueUntilWrap, Unique
<1>. QED
  BY <1>1, <1>2, <1>3, <1>4, <1>5, <1>6, <1>7
  DEF Next, Create, OpenConn, StartListen, CloseConn

\* However threads that construct sockets at once interleave on the atomic
\* counter, no two open sockets have the same handle, and none in the making
\* that of another, until the counter has wrapped (BaseSocket's constructor).
THEOREM HandlesUnique == Spec => []UniqueUntilWrap
<1>1. Init => UniqueInv
  <2>. SUFFICES ASSUME Init PROVE UniqueInv
    OBVIOUS
  <2>1. TypeOK
    BY InitHandles DEF HandleInv
  <2>2. DrawnInv
    BY AllocatorAssumption DEF Init, DrawnInv, Wrap, Handles
  <2>3. UniqueUntilWrap
    BY DEF Init, UniqueUntilWrap, Unique
  <2>. QED  BY <2>1, <2>2, <2>3 DEF UniqueInv
<1>2. UniqueInv => UniqueUntilWrap
  BY DEF UniqueInv
<1>. QED  BY <1>1, <1>2, StepUnique, HandlesCorrect, PTL DEF Spec

-----------------------------------------------------------------------------
(***************************************************************************)
(* The accept loop.                                                        *)
(***************************************************************************)

\* To the allocator the accept loop is a thread that creates sockets.
LEMMA AcceptStepsDraw == [AcceptNext]_<<vars, acceptVars>> => [Next]_vars
<1> SUFFICES ASSUME [AcceptNext]_<<vars, acceptVars>> PROVE [Next]_vars
  OBVIOUS
<1>1. CASE AcceptOne
  BY <1>1, AllocatorAssumption DEF AcceptOne, Next
<1>2. CASE Handover
  BY <1>2, AllocatorAssumption DEF Handover, Next, Create
<1>3. ASSUME NEW t \in Threads, OtherDraw(t) \/ DrawAgain(t) \/ Found(t) \/ OtherOpen(t)
      PROVE  Next
  BY <1>3 DEF OtherDraw, OtherOpen, Next, Create
<1>4. CASE Listen
  BY <1>4 DEF Listen, Next
<1>5. ASSUME NEW h \in Handles, CloseConn(h) PROVE Next
  BY <1>5 DEF Next
<1>6. CASE ClientConnects \/ AcceptEvent \/ AcceptEmpty \/ AcceptFails \/ AcceptAborted
  BY <1>6 DEF ClientConnects, AcceptEvent, AcceptEmpty, AcceptFails, AcceptAborted
<1>7. CASE UNCHANGED <<vars, acceptVars>>
  BY <1>7
<1> QED
  BY <1>1, <1>2, <1>3, <1>4, <1>5, <1>6, <1>7 DEF AcceptNext

\* The allocator's promises hold for the accept loop's sockets as well.
THEOREM AcceptImplementsAllocator == AcceptSpec => Spec
<1>1. AcceptInit => Init
  BY DEF AcceptInit
<1> QED
  BY <1>1, AcceptStepsDraw, PTL DEF AcceptSpec, Spec

\* The handles the accept loop gives out lead to IO threads and are never those
\* of listening sockets.
THEOREM AcceptedHandles == AcceptSpec => []HandleInv
BY AcceptImplementsAllocator, HandlesCorrect, PTL

\* Nor do two sockets the accept loop or Connect makes share a handle.
THEOREM AcceptedUnique == AcceptSpec => []UniqueUntilWrap
BY AcceptImplementsAllocator, HandlesUnique, PTL

\* Where the loop is when it is not left: the edge that started it stands for
\* all clients that came before, later ones raise their own.
LEMMA StepAccept ==
  NoClientForgotten /\ [AcceptNext]_<<vars, acceptVars>> => NoClientForgotten'
<1> SUFFICES ASSUME NoClientForgotten, [AcceptNext]_<<vars, acceptVars>>
             PROVE  NoClientForgotten'
  OBVIOUS
<1> USE DEF NoClientForgotten
<1>1. CASE ClientConnects
  BY <1>1 DEF ClientConnects
<1>2. CASE AcceptEvent
  BY <1>2 DEF AcceptEvent
<1>3. CASE AcceptOne
  BY <1>3 DEF AcceptOne, Accepting
<1>4. CASE Handover
  BY <1>4 DEF Handover, AfterAccept
<1>5. CASE AcceptEmpty
  BY <1>5 DEF AcceptEmpty, Accepting
<1>6. CASE AcceptFails \/ AcceptAborted
  BY <1>6 DEF AcceptFails, AcceptAborted
<1>7. CASE UNCHANGED acceptVars
  BY <1>7 DEF acceptVars
<1> QED
  BY <1>1, <1>2, <1>3, <1>4, <1>5, <1>6, <1>7 DEF AcceptNext

\* No client that has connected is left in the backlog without an event, except
\* by an accept that failed (_AcceptNewSocket ends on any error).
THEOREM ClientsAnnounced == AcceptSpec => []NoClientForgotten
<1>1. AcceptInit => NoClientForgotten
  BY DEF AcceptInit, NoClientForgotten
<1> QED
  BY <1>1, StepAccept, PTL DEF AcceptSpec

-----------------------------------------------------------------------------
(***************************************************************************)
(* The log.                                                                *)
(***************************************************************************)

\* The file is never of a day before the last message's, nor before that of a
\* thread that holds the mutex with the file chosen.
LogInv ==
  /\ day \in Nat \ {0} /\ file \in Nat /\ lastLog \in Nat
  /\ stamp \in [Loggers -> Nat] /\ logPc \in [Loggers -> {"out", "stamped", "opened"}]
  /\ lastLog <= file /\ file <= day
  /\ \A t \in Loggers : stamp[t] <= day
  /\ \A t \in Loggers : logPc[t] = "opened" => stamp[t] <= file
  /\ InDayFile

\* The invariant of the log holds at first.
LEMMA InitLogInv == LogInit => LogInv
BY DEF LogInit, LogInv, InDayFile, Never

\* Every step of the log keeps it.
LEMMA StepLogInv == LogInv /\ [LogNext]_logVars => LogInv'
<1>. SUFFICES ASSUME LogInv, [LogNext]_logVars PROVE LogInv'
  OBVIOUS
<1>. USE DEF LogInv
<1>1. CASE Midnight
  BY <1>1 DEF Midnight, InDayFile
<1>2. CASE InitLog
  <2>1. /\ day' \in Nat \ {0} /\ day <= day' /\ lastLog' = day /\ file' = day'
        /\ UNCHANGED <<logPc, stamp, written>> /\ \A t \in Loggers : logPc[t] = "out"
    BY <1>2 DEF InitLog
  <2>. QED  BY <2>1 DEF InDayFile
<1>3. ASSUME NEW t \in Loggers, TakeTime(t) PROVE LogInv'
  BY <1>3 DEF TakeTime, InDayFile
<1>4. ASSUME NEW t \in Loggers, LockAndOpen(t) PROVE LogInv'
  <2>1. file <= file' /\ file' <= day /\ file' \in Nat /\ stamp[t] <= file'
    BY <1>4 DEF LockAndOpen, IsNewDay
  <2>. QED  BY <1>4, <2>1 DEF LockAndOpen, InDayFile
<1>5. ASSUME NEW t \in Loggers, WriteLine(t) PROVE LogInv'
  <2>. DEFINE m == [by |-> t, nth |-> Nth(t), stamp |-> stamp[t], file |-> file, at |-> day]
  <2>1. /\ written' = written \cup {m} /\ lastLog' = stamp[t] /\ logPc[t] = "opened"
        /\ logPc' = [logPc EXCEPT ![t] = "out"] /\ UNCHANGED <<day, stamp, file>>
    BY <1>5 DEF WriteLine, LoggedAt
  <2>2. m.stamp <= m.file /\ m.file <= m.at
    BY <2>1
  <2>. HIDE DEF m
  <2>3. InDayFile'
    BY <2>1, <2>2 DEF InDayFile
  <2>. QED  BY <2>1, <2>3
<1>6. CASE UNCHANGED logVars
  BY <1>6 DEF logVars, InDayFile
<1>. QED  BY <1>1, <1>2, <1>3, <1>4, <1>5, <1>6 DEF LogNext

\* A message goes to a file of its own day or, when midnight passed while its
\* thread waited for mutex_, to that of a later day which has begun.
THEOREM LoggedInDay == LogSpec => []InDayFile
<1>1. LogInv => InDayFile
  BY DEF LogInv
<1>. QED  BY <1>1, InitLogInv, StepLogInv, PTL DEF LogSpec

-----------------------------------------------------------------------------
(***************************************************************************)
(* The blocking client: sequences of bytes.                                *)
(***************************************************************************)

\* A byte: the packet it is of and its place in it.
Byte == (Nat \ {0}) \X (1..PktLen)

\* The packets that bytes of s are of.
Nums(s) == {s[i][1] : i \in 1..Len(s)}

\* Bytes of earlier packets first, and those of one packet at least as far from
\* each other as they are in the packet.
Ordered(s) ==
  \A p, q \in 1..Len(s) :
    p < q => \/ s[p][1] < s[q][1]
             \/ s[p][1] = s[q][1] /\ s[q][2] - s[p][2] >= q - p

\* The concatenation u of s and t, element by element.
LEMMA CatIndex ==
  ASSUME NEW S, NEW s \in Seq(S), NEW t \in Seq(S), NEW u, u = s \o t
  PROVE  /\ u \in Seq(S) /\ Len(u) = Len(s) + Len(t) /\ Len(s) \in Nat /\ Len(t) \in Nat
         /\ \A i \in 1..(Len(s) + Len(t)) : u[i] = IF i <= Len(s) THEN s[i] ELSE t[i - Len(s)]
BY ConcatProperties, LenProperties

\* A sequence is what was cut off its front and the rest.
LEMMA Cut ==
  ASSUME NEW S, NEW t \in Seq(S), NEW n \in 0..Len(t)
  PROVE  LET a == SubSeq(t, 1, n)
             b == SubSeq(t, n + 1, Len(t))
         IN  a \in Seq(S) /\ b \in Seq(S) /\ Len(a) = n /\ Len(b) = Len(t) - n /\ t = a \o b
<1>. DEFINE a == SubSeq(t, 1, n)
            b == SubSeq(t, n + 1, Len(t))
<1>1. Len(t) \in Nat /\ n \in Int /\ \A i \in 1..Len(t) : t[i] \in S
  BY LenProperties, ElementOfSeq
<1>2. a \in Seq(S) /\ Len(a) = n
  <2>1. \A i \in 1..n : t[i] \in S
    BY <1>1
  <2>. QED  BY <1>1, <2>1, SubSeqProperties
<1>3. b \in Seq(S) /\ Len(b) = Len(t) - n
  <2>1. \A i \in (n + 1)..Len(t) : t[i] \in S
    BY <1>1
  <2>. QED  BY <1>1, <2>1, SubSeqProperties
<1>4. a \o b = SubSeq(t, 1, Len(t))
  <2>1. 1 \in 1..(Len(t) + 1) /\ n \in (1 - 1)..Len(t) /\ Len(t) \in n..Len(t)
    BY <1>1
  <2>. QED  BY <2>1, ConcatAdjacentSubSeq
<1>5. t = a \o b
  BY <1>4, SubSeqFull
<1>. QED  BY <1>2, <1>3, <1>5

\* Bytes moved from the front of t to the end of s.
LEMMA CutMoves ==
  ASSUME NEW S, NEW s \in Seq(S), NEW t \in Seq(S), NEW n \in 0..Len(t)
  PROVE  (s \o SubSeq(t, 1, n)) \o SubSeq(t, n + 1, Len(t)) = s \o t
<1>. DEFINE a == SubSeq(t, 1, n)
            b == SubSeq(t, n + 1, Len(t))
<1>1. a \in Seq(S) /\ b \in Seq(S) /\ t = a \o b
  BY Cut
<1>. HIDE DEF a, b
<1>2. (s \o a) \o b = s \o (a \o b)
  BY <1>1, ConcatAssociative
<1>. QED  BY <1>1, <1>2 DEF a, b

\* The packet numbers in two sequences joined.
LEMMA NumsCat ==
  ASSUME NEW S, NEW s \in Seq(S), NEW t \in Seq(S)
  PROVE  Nums(s \o t) = Nums(s) \cup Nums(t)
<1>. DEFINE u == s \o t
<1>1. /\ Len(u) = Len(s) + Len(t) /\ Len(s) \in Nat /\ Len(t) \in Nat
      /\ \A i \in 1..Len(s) + Len(t) : u[i] = IF i <= Len(s) THEN s[i] ELSE t[i - Len(s)]
  BY ConcatProperties, LenProperties
<1>. HIDE DEF u
<1>2. ASSUME NEW i \in 1..Len(u) PROVE u[i][1] \in Nums(s) \cup Nums(t)
  <2>1. CASE i <= Len(s)
    BY <1>1, <2>1 DEF Nums
  <2>2. CASE ~(i <= Len(s))
    <3>1. i - Len(s) \in 1..Len(t) /\ u[i] = t[i - Len(s)]
      BY <1>1, <2>2
    <3>. QED  BY <3>1 DEF Nums
  <2>. QED  BY <2>1, <2>2
<1>3. ASSUME NEW i \in 1..Len(s) PROVE s[i][1] \in Nums(u)
  <2>1. i \in 1..Len(u) /\ u[i] = s[i]
    BY <1>1
  <2>. QED  BY <2>1 DEF Nums
<1>4. ASSUME NEW i \in 1..Len(t) PROVE t[i][1] \in Nums(u)
  <2>1. i + Len(s) \in 1..Len(u) /\ ~(i + Len(s) <= Len(s)) /\ (i + Len(s)) - Len(s) = i
    BY <1>1
  <2>2. u[i + Len(s)] = t[i]
    BY <1>1, <2>1
  <2>. QED  BY <2>1, <2>2 DEF Nums
<1>. QED  BY <1>2, <1>3, <1>4 DEF Nums, u

\* The empty sequence has no number.
LEMMA NumsEmpty == Nums(<<>>) = {} /\ Ordered(<<>>)
BY DEF Nums, Ordered

\* The bytes of a packet are bytes.
LEMMA PktTyped ==
  ASSUME NEW n \in Nat \ {0}
  PROVE  /\ Pkt(n) \in Seq(Byte) /\ Len(Pkt(n)) = PktLen /\ PktLen \in Nat \ {0}
         /\ \A i \in 1..PktLen : Pkt(n)[i] = <<n, i>>
         /\ Nums(Pkt(n)) = {n} /\ Pkt(n) # <<>>
<1>1. PktLen \in Nat \ {0}
  BY ClientAssumption
<1>2. Pkt(n) \in [1..PktLen -> Byte]
  BY DEF Pkt, Byte
<1>3. Pkt(n) \in Seq(Byte) /\ Len(Pkt(n)) = PktLen
  BY <1>1, <1>2, SeqDef
<1>4. \A i \in 1..PktLen : Pkt(n)[i] = <<n, i>>
  BY DEF Pkt
<1>5. Nums(Pkt(n)) = {n}
  BY <1>1, <1>3, <1>4 DEF Nums
<1>6. Pkt(n) # <<>>
  BY <1>1, <1>3, EmptySeq
<1>. QED  BY <1>1, <1>3, <1>4, <1>5, <1>6

\* Each byte names a packet and a place in it.
LEMMA BytePair ==
  ASSUME NEW s \in Seq(Byte), NEW i \in 1..Len(s)
  PROVE  s[i][1] \in Nat \ {0} /\ s[i][2] \in 1..PktLen
<1>1. s[i] \in Byte
  BY ElementOfSeq
<1>. QED  BY <1>1 DEF Byte

\* The numbers in a sequence of bytes are packet numbers.
LEMMA NumsTyped ==
  ASSUME NEW s \in Seq(Byte)
  PROVE  Nums(s) \subseteq Nat \ {0}
BY BytePair DEF Nums

\* Leaving bytes out in the middle keeps the order of the others.
LEMMA OrderedDrop ==
  ASSUME NEW s \in Seq(Byte), NEW a \in Seq(Byte), NEW b \in Seq(Byte), Ordered(s \o (a \o b))
  PROVE  Ordered(s \o b)
<1>. DEFINE u == s \o (a \o b)
            v == s \o b
<1>1. a \o b \in Seq(Byte) /\ Len(a \o b) = Len(a) + Len(b) /\ Len(a) \in Nat /\ Len(b) \in Nat /\ Len(s) \in Nat
  BY ConcatProperties, LenProperties
<1>2. \A i \in 1..Len(b) : (a \o b)[Len(a) + i] = b[i]
  <2>. SUFFICES ASSUME NEW i \in 1..Len(b) PROVE (a \o b)[Len(a) + i] = b[i]
    OBVIOUS
  <2>1. Len(a) + i \in 1..(Len(a) + Len(b)) /\ ~(Len(a) + i <= Len(a)) /\ (Len(a) + i) - Len(a) = i
    BY <1>1
  <2>. QED  BY <1>1, <2>1, ConcatProperties
<1>. DEFINE m == a \o b
<1>3. m \in Seq(Byte) /\ Len(m) = Len(a) + Len(b) /\ \A i \in 1..Len(b) : m[Len(a) + i] = b[i]
  BY <1>1, <1>2
<1>. HIDE DEF m
<1>6. u = s \o m /\ v = s \o b /\ Ordered(u)
  BY DEF m
<1>. HIDE DEF u, v
<1>4. /\ Len(u) = Len(s) + Len(m)
      /\ \A i \in 1..(Len(s) + Len(m)) : u[i] = IF i <= Len(s) THEN s[i] ELSE m[i - Len(s)]
  <2>1. m \in Seq(Byte)
    BY <1>3
  <2>2. u = s \o m
    BY <1>6
  <2>. QED  BY <2>1, <2>2, CatIndex
<1>5. /\ v \in Seq(Byte) /\ Len(v) = Len(s) + Len(b)
      /\ \A i \in 1..(Len(s) + Len(b)) : v[i] = IF i <= Len(s) THEN s[i] ELSE b[i - Len(s)]
  BY <1>6, CatIndex
<1>. DEFINE f(i) == IF i <= Len(s) THEN i ELSE i + Len(a)
<1>7. \A i \in 1..Len(v) : f(i) \in 1..Len(u) /\ v[i] = u[f(i)]
  <2>. SUFFICES ASSUME NEW i \in 1..Len(v) PROVE f(i) \in 1..Len(u) /\ v[i] = u[f(i)]
    OBVIOUS
  <2>1. CASE i <= Len(s)
    BY <1>1, <1>3, <1>4, <1>5, <1>6, <2>1
  <2>2. CASE ~(i <= Len(s))
    <3>1. /\ i - Len(s) \in 1..Len(b) /\ v[i] = b[i - Len(s)] /\ f(i) = i + Len(a)
          /\ f(i) \in 1..(Len(s) + Len(m)) /\ ~(f(i) <= Len(s))
          /\ f(i) - Len(s) = Len(a) + (i - Len(s))
      BY <1>1, <1>3, <1>5, <2>2
    <3>2. u[f(i)] = m[f(i) - Len(s)]
      BY <1>4, <1>6, <3>1
    <3>3. m[Len(a) + (i - Len(s))] = b[i - Len(s)]
      BY <1>3, <3>1
    <3>4. f(i) \in 1..Len(u)
      BY <1>4, <1>6, <3>1
    <3>. HIDE DEF f
    <3>. QED  BY <3>1, <3>2, <3>3, <3>4
  <2>. QED  BY <2>1, <2>2
<1>8. \A p, q \in 1..Len(v) : p < q => f(p) < f(q) /\ f(q) - f(p) >= q - p
  BY <1>1, <1>5
<1>. HIDE DEF f
<1>9. SUFFICES ASSUME NEW p \in 1..Len(v), NEW q \in 1..Len(v), p < q
               PROVE  v[p][1] < v[q][1] \/ (v[p][1] = v[q][1] /\ v[q][2] - v[p][2] >= q - p)
  BY DEF Ordered, v
<1>10. /\ v[p][1] \in Nat /\ v[q][1] \in Nat /\ v[p][2] \in Int /\ v[q][2] \in Int
  <2>1. v \in Seq(Byte)
    BY <1>5
  <2>. QED  BY <2>1, BytePair
<1>11. f(p) \in 1..Len(u) /\ f(q) \in 1..Len(u) /\ f(p) < f(q) /\ v[p] = u[f(p)] /\ v[q] = u[f(q)]
       /\ f(q) - f(p) >= q - p
  BY <1>7, <1>8, <1>9
<1>12. v[p][1] < v[q][1] \/ (v[p][1] = v[q][1] /\ v[q][2] - v[p][2] >= f(q) - f(p))
  <2>1. \A i, j \in 1..Len(u) : i < j => u[i][1] < u[j][1] \/ (u[i][1] = u[j][1] /\ u[j][2] - u[i][2] >= j - i)
    BY <1>6 DEF Ordered
  <2>2. u[f(p)][1] < u[f(q)][1] \/ (u[f(p)][1] = u[f(q)][1] /\ u[f(q)][2] - u[f(p)][2] >= f(q) - f(p))
    BY <1>11, <2>1
  <2>. QED  BY <1>11, <2>2
<1>. QED  BY <1>10, <1>11, <1>12

\* What is at the front of an ordered sequence is ordered.
LEMMA OrderedPrefix ==
  ASSUME NEW s \in Seq(Byte), NEW t \in Seq(Byte), Ordered(s \o t)
  PROVE  Ordered(s)
<1>1. <<>> \in Seq(Byte) /\ t \o <<>> = t /\ s \o <<>> = s
  BY EmptySeq, ConcatEmptySeq
<1>. QED  BY <1>1, OrderedDrop

\* So is what is at its end.
LEMMA OrderedSuffix ==
  ASSUME NEW s \in Seq(Byte), NEW t \in Seq(Byte), Ordered(s \o t)
  PROVE  Ordered(t)
<1>. DEFINE e == <<>>
<1>1. e \in Seq(Byte) /\ e \o (s \o t) = s \o t /\ e \o t = t
  BY EmptySeq, ConcatEmptySeq, ConcatProperties
<1>. HIDE DEF e
<1>2. Ordered(e \o (s \o t))
  BY <1>1
<1>3. Ordered(e \o t)
  BY <1>1, <1>2, OrderedDrop
<1>. QED  BY <1>1, <1>3

\* A whole new packet behind older ones.
LEMMA OrderedPkt ==
  ASSUME NEW s \in Seq(Byte), Ordered(s), NEW n \in Nat \ {0}, \A x \in Nums(s) : x < n
  PROVE  Ordered(s \o Pkt(n)) /\ s \o Pkt(n) \in Seq(Byte) /\ Nums(s \o Pkt(n)) = Nums(s) \cup {n}
<1>. DEFINE t == Pkt(n)
            v == s \o t
<1>1. t \in Seq(Byte) /\ Len(t) = PktLen /\ Nums(t) = {n} /\ \A i \in 1..PktLen : t[i] = <<n, i>>
  BY PktTyped
<1>. HIDE DEF t
<1>2. /\ v \in Seq(Byte) /\ Len(v) = Len(s) + Len(t) /\ Len(s) \in Nat /\ Len(t) \in Nat
      /\ \A i \in 1..Len(s) + Len(t) : v[i] = IF i <= Len(s) THEN s[i] ELSE t[i - Len(s)]
  BY <1>1, ConcatProperties, LenProperties
<1>3. Nums(v) = Nums(s) \cup {n}
  BY <1>1, NumsCat
<1>. HIDE DEF v
<1>4. ASSUME NEW p \in 1..Len(v), NEW q \in 1..Len(v), p < q
      PROVE  v[p][1] < v[q][1] \/ (v[p][1] = v[q][1] /\ v[q][2] - v[p][2] >= q - p)
  <2>1. CASE q <= Len(s)
    <3>1. p \in 1..Len(s) /\ q \in 1..Len(s) /\ v[p] = s[p] /\ v[q] = s[q]
      BY <1>2, <1>4, <2>1
    <3>. QED  BY <1>4, <3>1 DEF Ordered
  <2>2. CASE p <= Len(s) /\ ~(q <= Len(s))
    <3>1. p \in 1..Len(s) /\ v[p] = s[p] /\ q - Len(s) \in 1..PktLen /\ v[q] = t[q - Len(s)]
      BY <1>1, <1>2, <2>2
    <3>2. v[p][1] \in Nums(s) /\ v[q] = <<n, q - Len(s)>>
      BY <1>1, <3>1 DEF Nums
    <3>. QED  BY <3>2
  <2>3. CASE ~(p <= Len(s))
    <3>1. p - Len(s) \in 1..PktLen /\ q - Len(s) \in 1..PktLen /\ v[p] = t[p - Len(s)] /\ v[q] = t[q - Len(s)]
      BY <1>1, <1>2, <1>4, <2>3
    <3>2. v[p] = <<n, p - Len(s)>> /\ v[q] = <<n, q - Len(s)>>
      BY <1>1, <3>1
    <3>3. (q - Len(s)) - (p - Len(s)) >= q - p
      BY <1>2
    <3>. QED  BY <3>2, <3>3
  <2>. QED  BY <2>1, <2>2, <2>3
<1>5. Ordered(v)
  BY <1>4 DEF Ordered
<1>. QED  BY <1>2, <1>3, <1>5 DEF v, t

\* PktLen bytes that begin with the first of packet n leave none of n, nor of an
\* earlier packet.
LEMMA WholePktGone ==
  ASSUME NEW a \in Seq(Byte), NEW b \in Seq(Byte), Ordered(a \o b), Len(a) = PktLen,
         NEW n, a[1] = <<n, 1>>
  PROVE  \A x \in Nums(b) : x > n
<1>. DEFINE u == a \o b
<1>2. Ordered(u) /\ u = a \o b
  OBVIOUS
<1>. HIDE DEF u
<1>1. /\ u \in Seq(Byte) /\ Len(u) = PktLen + Len(b) /\ Len(b) \in Nat /\ PktLen \in Nat \ {0}
      /\ \A i \in 1..(PktLen + Len(b)) : u[i] = IF i <= PktLen THEN a[i] ELSE b[i - PktLen]
  <2>1. PktLen \in Nat \ {0}
    BY ClientAssumption
  <2>2. u = a \o b
    BY <1>2
  <2>3. /\ u \in Seq(Byte) /\ Len(u) = Len(a) + Len(b) /\ Len(b) \in Nat
        /\ \A i \in 1..(Len(a) + Len(b)) : u[i] = IF i <= Len(a) THEN a[i] ELSE b[i - Len(a)]
    BY ONLY <2>2, a \in Seq(Byte), b \in Seq(Byte), CatIndex
  <2>. QED  BY <2>1, <2>3
<1>3. SUFFICES ASSUME NEW i \in 1..Len(b) PROVE b[i][1] > n
  BY DEF Nums
<1>4. /\ PktLen + i \in 1..Len(u) /\ 1 \in 1..Len(u) /\ 1 < PktLen + i
      /\ ~(PktLen + i <= PktLen) /\ (PktLen + i) - PktLen = i
  BY <1>1
<1>5. u[1] = <<n, 1>> /\ u[PktLen + i] = b[i]
  BY <1>1, <1>4
<1>6. u[1][1] < b[i][1] \/ (u[1][1] = b[i][1] /\ b[i][2] - u[1][2] >= (PktLen + i) - 1)
  <2>1. \A k, j \in 1..Len(u) : k < j => u[k][1] < u[j][1] \/ (u[k][1] = u[j][1] /\ u[j][2] - u[k][2] >= j - k)
    BY <1>2 DEF Ordered
  <2>2. u[1][1] < u[PktLen + i][1] \/ (u[1][1] = u[PktLen + i][1] /\ u[PktLen + i][2] - u[1][2] >= (PktLen + i) - 1)
    BY <1>4, <2>1
  <2>. QED  BY <1>5, <2>2
<1>7. b[i][1] \in Nat /\ b[i][2] \in 1..PktLen
  BY BytePair
<1>8. u[1][1] = n /\ u[1][2] = 1 /\ n \in Nat
  <2>1. u[1][1] \in Nat
    BY <1>1, <1>4, BytePair
  <2>. QED  BY <1>5, <2>1
<1>. QED  BY <1>1, <1>6, <1>7, <1>8

-----------------------------------------------------------------------------
(***************************************************************************)
(* The blocking client: its inductive invariant.                           *)
(***************************************************************************)

\* The bytes on their way to a caller of RecvPacket, and those on their way to
\* the server.
InFlow  == inBuf \o toClient
OutFlow == toServer \o unsent

ClientType ==
  /\ connected \in BOOLEAN /\ closed \in BOOLEAN /\ clean \in BOOLEAN
  /\ toServer \in Seq(Byte) /\ toClient \in Seq(Byte) /\ unsent \in Seq(Byte) /\ inBuf \in Seq(Byte)
  /\ request \in Nat /\ step \in {"idle", "send", "recv", "head", "body"}
  /\ answers \in Seq([reply : Nat, clean : BOOLEAN])

\* Both flows are in order, replies on their way answer earlier requests than
\* those on their way, and all are younger than what was returned.
FlowInv ==
  /\ Ordered(InFlow) /\ Ordered(OutFlow)
  /\ \A a \in Nums(InFlow) : a <= request /\ \A b \in Nums(OutFlow) : a < b
  /\ \A b \in Nums(OutFlow) : b <= request
  /\ \A k \in 1..Len(answers) : \A b \in Nums(InFlow) \cup Nums(OutFlow) : answers[k].reply < b

\* Where the caller is.
PlaceInv ==
  /\ step = "send" <=> unsent # <<>>
  /\ step \notin {"head", "body"} => inBuf = <<>>
  /\ Len(answers) = IF step = "idle" THEN request ELSE request - 1
  /\ step # "idle" => request > 0
  /\ step \in {"head", "body"} => Len(inBuf) < Wanted

\* A clean connection holds the request or its reply, whole, and nothing else.
CleanInv ==
  clean => /\ connected /\ ~closed
           /\ step = "idle" => InFlow = <<>> /\ OutFlow = <<>>
           /\ step = "send" => InFlow = <<>> /\ OutFlow = Pkt(request)
           /\ step \in {"recv", "head", "body"} =>
                \/ InFlow = <<>> /\ OutFlow = Pkt(request)
                \/ InFlow = Pkt(request) /\ OutFlow = <<>>

ClientInv == ClientType /\ FlowInv /\ PlaceInv /\ CleanInv /\ AnswersMatch

\* The invariant of the blocking client holds at first.
LEMMA InitClient == ClientInit => ClientInv
<1>. SUFFICES ASSUME ClientInit PROVE ClientInv
  OBVIOUS
<1>1. /\ toServer = <<>> /\ toClient = <<>> /\ unsent = <<>> /\ inBuf = <<>> /\ answers = <<>>
      /\ request = 0 /\ step = "idle" /\ connected = TRUE /\ closed = FALSE /\ clean = TRUE
  BY DEF ClientInit
<1>2. <<>> \in Seq(Byte) /\ <<>> \in Seq([reply : Nat, clean : BOOLEAN]) /\ Len(<<>>) = 0
  BY EmptySeq
<1>3. InFlow = <<>> /\ OutFlow = <<>>
  BY <1>1, <1>2, ConcatEmptySeq DEF InFlow, OutFlow
<1>4. ClientType
  BY <1>1, <1>2 DEF ClientType
<1>5. FlowInv
  BY <1>1, <1>2, <1>3, NumsEmpty DEF FlowInv
<1>6. PlaceInv /\ CleanInv /\ AnswersMatch
  BY <1>1, <1>2, <1>3 DEF PlaceInv, CleanInv, AnswersMatch
<1>. QED  BY <1>4, <1>5, <1>6 DEF ClientInv

\* What the flows are, in terms of sequences alone.
LEMMA FlowTyped ==
  ASSUME ClientType
  PROVE  /\ InFlow \in Seq(Byte) /\ OutFlow \in Seq(Byte)
         /\ Len(InFlow) = Len(inBuf) + Len(toClient) /\ Len(OutFlow) = Len(toServer) + Len(unsent)
         /\ Nums(InFlow) = Nums(inBuf) \cup Nums(toClient) /\ Nums(OutFlow) = Nums(toServer) \cup Nums(unsent)
         /\ Len(inBuf) \in Nat /\ Len(toClient) \in Nat /\ Len(toServer) \in Nat /\ Len(unsent) \in Nat
<1>1. inBuf \in Seq(Byte) /\ toClient \in Seq(Byte)
  BY DEF ClientType
<1>2. toServer \in Seq(Byte) /\ unsent \in Seq(Byte)
  BY DEF ClientType
<1>3. InFlow \in Seq(Byte) /\ Len(InFlow) = Len(inBuf) + Len(toClient) /\ Len(inBuf) \in Nat /\ Len(toClient) \in Nat
  BY <1>1, ConcatProperties, LenProperties DEF InFlow
<1>4. OutFlow \in Seq(Byte) /\ Len(OutFlow) = Len(toServer) + Len(unsent) /\ Len(toServer) \in Nat /\ Len(unsent) \in Nat
  BY <1>2, ConcatProperties, LenProperties DEF OutFlow
<1>5. Nums(InFlow) = Nums(inBuf) \cup Nums(toClient)
  BY <1>1, NumsCat DEF InFlow
<1>6. Nums(OutFlow) = Nums(toServer) \cup Nums(unsent)
  BY <1>2, NumsCat DEF OutFlow
<1>. QED  BY <1>3, <1>4, <1>5, <1>6

\* Bytes that are read, lost or given up leave the flows as they should be.
LEMMA FlowShrinks ==
  ASSUME FlowInv, request \in Nat, request' \in Nat, request <= request', answers' = answers,
         Ordered(InFlow'), Ordered(OutFlow'),
         Nums(InFlow') \subseteq Nums(InFlow), Nums(OutFlow') \subseteq Nums(OutFlow),
         Nums(InFlow) \subseteq Nat, Nums(OutFlow) \subseteq Nat
  PROVE  FlowInv'
<1>1. \A a \in Nums(InFlow') : a <= request' /\ \A b \in Nums(OutFlow') : a < b
  BY DEF FlowInv
<1>2. \A b \in Nums(OutFlow') : b <= request'
  BY DEF FlowInv
<1>3. \A k \in 1..Len(answers') : \A b \in Nums(InFlow') \cup Nums(OutFlow') : answers'[k].reply < b
  BY DEF FlowInv
<1>. QED  BY <1>1, <1>2, <1>3 DEF FlowInv

\* RecvPacket returns r, which is 0 or a reply that is no longer in the flows.
LEMMA Returned ==
  ASSUME ClientInv, step # "idle", NEW r \in Nat, NEW c \in BOOLEAN,
         answers' = Append(answers, [reply |-> r, clean |-> c]), UNCHANGED request,
         Ordered(InFlow'), Nums(InFlow') \subseteq Nums(InFlow), OutFlow' = OutFlow,
         c => r = request,
         r # 0 => r \in Nums(InFlow) /\ \A b \in Nums(InFlow') : r < b
  PROVE  /\ FlowInv' /\ AnswersMatch' /\ answers' \in Seq([reply : Nat, clean : BOOLEAN])
         /\ Len(answers') = request'
<1>. DEFINE x == [reply |-> r, clean |-> c]
            A == [reply : Nat, clean : BOOLEAN]
<1>1. x \in A /\ x.reply = r /\ x.clean = c /\ answers \in Seq(A) /\ request \in Nat
  BY DEF ClientInv, ClientType
<1>2. answers' = Append(answers, x)
  OBVIOUS
<1>. HIDE DEF x, A
<1>3. /\ answers' \in Seq(A) /\ Len(answers') = Len(answers) + 1 /\ answers'[Len(answers) + 1] = x
      /\ \A k \in 1..Len(answers) : answers'[k] = answers[k]
      /\ Len(answers) \in Nat
  BY <1>1, <1>2, AppendProperties, LenProperties
<1>4. Len(answers) = request - 1 /\ request > 0
  BY DEF ClientInv, PlaceInv
<1>5. Nums(InFlow) \subseteq Nat \ {0} /\ Nums(OutFlow) \subseteq Nat \ {0}
  <2>1. ClientType
    BY DEF ClientInv
  <2>2. InFlow \in Seq(Byte) /\ OutFlow \in Seq(Byte)
    BY <2>1, FlowTyped
  <2>. QED  BY <2>2, NumsTyped
<1>6. \A b \in Nums(InFlow') \cup Nums(OutFlow') : r < b
  BY <1>5 DEF ClientInv, FlowInv
<1>7. FlowInv'
  <2>1. \A k \in 1..Len(answers') : \A b \in Nums(InFlow') \cup Nums(OutFlow') : answers'[k].reply < b
    <3>. SUFFICES ASSUME NEW k \in 1..Len(answers'), NEW b \in Nums(InFlow') \cup Nums(OutFlow')
                  PROVE  answers'[k].reply < b
      OBVIOUS
    <3>1. CASE k \in 1..Len(answers)
      <4>1. answers'[k] = answers[k] /\ b \in Nums(InFlow) \cup Nums(OutFlow)
        BY <1>3, <3>1
      <4>. QED  BY <3>1, <4>1 DEF ClientInv, FlowInv
    <3>2. CASE k = Len(answers) + 1
      BY <1>1, <1>3, <1>6, <3>2
    <3>. QED  BY <1>3, <3>1, <3>2
  <2>. QED  BY <2>1 DEF ClientInv, FlowInv
<1>8. r <= request /\ (r # 0 => \A j \in 1..Len(answers) : answers[j].reply < r)
  BY <1>1 DEF ClientInv, FlowInv
<1>9. AnswersMatch'
  <2>. SUFFICES ASSUME NEW k \in 1..Len(answers')
                PROVE  /\ answers'[k].clean => answers'[k].reply = k
                       /\ answers'[k].reply <= k
                       /\ answers'[k].reply # 0 => \A j \in 1..(k - 1) : answers'[j].reply < answers'[k].reply
    BY DEF AnswersMatch
  <2>1. CASE k \in 1..Len(answers)
    <3>1. answers'[k] = answers[k] /\ \A j \in 1..(k - 1) : answers'[j] = answers[j]
      BY <1>3, <2>1
    <3>. QED  BY <2>1, <3>1 DEF ClientInv, AnswersMatch
  <2>2. CASE k = Len(answers) + 1
    <3>1. answers'[k] = x /\ k = request /\ \A j \in 1..(k - 1) : j \in 1..Len(answers) /\ answers'[j] = answers[j]
      BY <1>1, <1>3, <1>4, <2>2
    <3>. QED  BY <1>1, <1>8, <3>1
  <2>. QED  BY <1>3, <2>1, <2>2
<1>10. Len(answers') = request'
  BY <1>1, <1>3, <1>4
<1>. QED  BY <1>3, <1>7, <1>9, <1>10 DEF A

\* The server answers packet n: its bytes leave one flow for the other.
LEMMA AnswerFlows ==
  ASSUME ClientInv, ServerAnswers
  PROVE  ClientInv'
<1>. DEFINE n == toServer[1][1]
            a == SubSeq(toServer, 1, PktLen)
            b == SubSeq(toServer, PktLen + 1, Len(toServer))
<1>1. ClientType /\ FlowInv /\ PlaceInv /\ CleanInv /\ AnswersMatch
  BY DEF ClientInv
<1>2. /\ inBuf \in Seq(Byte) /\ toClient \in Seq(Byte) /\ toServer \in Seq(Byte) /\ unsent \in Seq(Byte)
      /\ InFlow \in Seq(Byte) /\ OutFlow \in Seq(Byte)
      /\ Len(OutFlow) = Len(toServer) + Len(unsent)
      /\ Nums(OutFlow) = Nums(toServer) \cup Nums(unsent)
      /\ Len(toServer) \in Nat /\ Len(unsent) \in Nat
  BY <1>1, FlowTyped DEF ClientType
<1>3. /\ PktLen \in Nat \ {0} /\ HeadLen \in Nat \ {0} /\ HeadLen < PktLen
  BY ClientAssumption
<1>4. /\ ~closed /\ Len(toServer) >= PktLen
      /\ SubSeq(toServer, 1, HeadLen) = SubSeq(Pkt(n), 1, HeadLen)
      /\ toClient' = toClient \o Pkt(n) /\ toServer' = b
      /\ UNCHANGED <<connected, closed, request, step, unsent, inBuf, clean, answers>>
  BY DEF ServerAnswers
<1>5. n \in Nat \ {0} /\ 1 \in 1..Len(toServer)
  BY <1>2, <1>3, <1>4, BytePair
<1>6. /\ Pkt(n) \in Seq(Byte) /\ Len(Pkt(n)) = PktLen /\ \A i \in 1..PktLen : Pkt(n)[i] = <<n, i>>
      /\ Nums(Pkt(n)) = {n}
  BY <1>5, PktTyped
<1>7. toServer[1] = <<n, 1>>
  <2>1. \A i \in 1..HeadLen : toServer[i] \in Byte
    BY <1>2, <1>3, <1>4, ElementOfSeq
  <2>2. SubSeq(toServer, 1, HeadLen)[1] = toServer[1]
    <3>1. \A i \in 1..(HeadLen - 1 + 1) : SubSeq(toServer, 1, HeadLen)[i] = toServer[1 + i - 1]
      BY <1>3, <2>1, SubSeqProperties
    <3>. QED  BY <1>3, <3>1
  <2>3. SubSeq(Pkt(n), 1, HeadLen)[1] = Pkt(n)[1]
    <3>1. \A i \in 1..HeadLen : Pkt(n)[i] \in Byte
      BY <1>3, <1>6, ElementOfSeq
    <3>2. \A i \in 1..(HeadLen - 1 + 1) : SubSeq(Pkt(n), 1, HeadLen)[i] = Pkt(n)[1 + i - 1]
      BY <1>3, <3>1, SubSeqProperties
    <3>. QED  BY <1>3, <3>2
  <2>4. Pkt(n)[1] = <<n, 1>>
    BY <1>3, <1>6
  <2>. QED  BY <1>4, <2>2, <2>3, <2>4
<1>8. /\ a \in Seq(Byte) /\ b \in Seq(Byte) /\ Len(a) = PktLen /\ Len(b) = Len(toServer) - PktLen
      /\ toServer = a \o b
  <2>1. PktLen \in 0..Len(toServer)
    BY <1>2, <1>3, <1>4
  <2>2. toServer \in Seq(Byte)
    BY <1>2
  <2>. QED  BY <2>1, <2>2, Cut
<1>9. a[1] = <<n, 1>>
  <2>1. toServer[1] = a[1]
    <3>1. toServer = a \o b /\ a \in Seq(Byte) /\ b \in Seq(Byte)
      BY <1>8
    <3>. HIDE DEF a, b
    <3>2. 1 \in 1..(Len(a) + Len(b)) /\ 1 <= Len(a)
      <4>1. Len(a) = PktLen /\ Len(b) \in Nat
        BY <1>8, LenProperties
      <4>. QED  BY <1>3, <4>1
    <3>3. \A i \in 1..(Len(a) + Len(b)) : toServer[i] = IF i <= Len(a) THEN a[i] ELSE b[i - Len(a)]
      BY <3>1, CatIndex
    <3>. QED  BY <3>2, <3>3
  <2>. QED  BY <1>7, <2>1
<1>. HIDE DEF a, b
<1>10. b \o unsent \in Seq(Byte) /\ OutFlow = a \o (b \o unsent) /\ OutFlow' = b \o unsent
       /\ Nums(b \o unsent) = Nums(b) \cup Nums(unsent) /\ Len(b \o unsent) = Len(b) + Len(unsent)
  <2>1. a \in Seq(Byte) /\ b \in Seq(Byte) /\ unsent \in Seq(Byte) /\ toServer = a \o b
    BY <1>2, <1>8
  <2>2. (a \o b) \o unsent = a \o (b \o unsent)
    BY <2>1, ConcatAssociative
  <2>3. b \o unsent \in Seq(Byte) /\ Len(b \o unsent) = Len(b) + Len(unsent)
    BY <2>1, ConcatProperties
  <2>4. Nums(b \o unsent) = Nums(b) \cup Nums(unsent)
    BY <2>1, NumsCat
  <2>5. OutFlow = a \o (b \o unsent)
    BY <2>1, <2>2 DEF OutFlow
  <2>6. OutFlow' = b \o unsent
    BY <1>4 DEF OutFlow
  <2>. QED  BY <2>3, <2>4, <2>5, <2>6
<1>11. InFlow' = InFlow \o Pkt(n)
  <2>1. (inBuf \o toClient) \o Pkt(n) = inBuf \o (toClient \o Pkt(n))
    <3>1. inBuf \in Seq(Byte) /\ toClient \in Seq(Byte) /\ Pkt(n) \in Seq(Byte)
      BY <1>2, <1>6
    <3>. QED  BY <3>1, ConcatAssociative
  <2>. QED  BY <1>4, <2>1 DEF InFlow
<1>. DEFINE o == b \o unsent
<1>12. o \in Seq(Byte) /\ OutFlow = a \o o /\ OutFlow' = o /\ Nums(o) = Nums(b) \cup Nums(unsent)
       /\ Len(o) = Len(b) + Len(unsent)
  BY <1>10
<1>. HIDE DEF o, n
<1>13. Ordered(a \o o)
  BY <1>1, <1>12 DEF FlowInv
<1>14. Ordered(OutFlow') /\ \A x \in Nums(OutFlow') : x > n
  <2>1. a \in Seq(Byte) /\ o \in Seq(Byte) /\ Len(a) = PktLen
    BY <1>8, <1>12
  <2>2. Ordered(o)
    BY <1>13, <2>1, OrderedSuffix
  <2>3. \A x \in Nums(o) : x > n
    BY <1>9, <1>13, <2>1, WholePktGone
  <2>. QED  BY <1>12, <2>2, <2>3
<1>15. n \in Nums(OutFlow) /\ Nums(OutFlow') \subseteq Nums(OutFlow)
  <2>1. n \in Nums(toServer)
    BY <1>5 DEF Nums, n
  <2>2. Nums(b) \subseteq Nums(toServer)
    <3>1. toServer = a \o b /\ a \in Seq(Byte) /\ b \in Seq(Byte)
      BY <1>8
    <3>. QED  BY <3>1, NumsCat
  <2>. QED  BY <1>2, <1>12, <2>1, <2>2
<1>16. \A x \in Nums(InFlow) : x < n
  BY <1>1, <1>15 DEF FlowInv
<1>17. Ordered(InFlow') /\ InFlow' \in Seq(Byte) /\ Nums(InFlow') = Nums(InFlow) \cup {n}
  <2>1. InFlow \in Seq(Byte) /\ Ordered(InFlow)
    BY <1>1, <1>2 DEF FlowInv
  <2>. QED  BY <1>5, <1>11, <1>16, <2>1, OrderedPkt
<1>18. FlowInv'
  <2>1. Nums(OutFlow) \subseteq Nat \ {0} /\ Nums(InFlow) \subseteq Nat \ {0}
    BY <1>2, NumsTyped
  <2>2. \A x \in Nums(InFlow') : x <= request' /\ \A y \in Nums(OutFlow') : x < y
    BY <1>1, <1>4, <1>14, <1>15, <1>17 DEF FlowInv
  <2>3. \A y \in Nums(OutFlow') : y <= request'
    BY <1>1, <1>4, <1>15 DEF FlowInv
  <2>4. \A k \in 1..Len(answers') : \A x \in Nums(InFlow') \cup Nums(OutFlow') : answers'[k].reply < x
    BY <1>1, <1>4, <1>15, <1>17 DEF FlowInv
  <2>. QED  BY <1>14, <1>17, <2>2, <2>3, <2>4 DEF FlowInv
<1>19. ClientType'
  <2>1. toClient' \in Seq(Byte)
    <3>1. toClient \in Seq(Byte) /\ Pkt(n) \in Seq(Byte) /\ toClient' = toClient \o Pkt(n)
      BY <1>2, <1>4, <1>6 DEF n
    <3>. QED  BY <3>1, ConcatProperties
  <2>2. toServer' \in Seq(Byte)
    BY <1>4, <1>8 DEF b
  <2>. QED  BY <1>1, <1>4, <2>1, <2>2 DEF ClientType
<1>20. CleanInv'
  <2>. SUFFICES ASSUME clean PROVE CleanInv'
    BY <1>4 DEF CleanInv
  <2>1. Len(OutFlow) >= PktLen
    BY <1>2, <1>3, <1>4
  <2>2. OutFlow # <<>>
    BY <1>2, <1>3, <2>1, EmptySeq
  <2>3. step # "idle"
    BY <1>1, <2>2 DEF CleanInv
  <2>4. InFlow = <<>> /\ OutFlow = Pkt(request) /\ request \in Nat \ {0}
    BY <1>1, <2>2, <2>3 DEF CleanInv, PlaceInv, ClientType
  <2>5. Len(OutFlow) = PktLen /\ Nums(OutFlow) = {request}
    BY <2>4, PktTyped
  <2>6. n = request
    BY <1>15, <2>5
  <2>7. Len(unsent) = 0 /\ Len(b) = 0
    <3>1. /\ Len(toServer) + Len(unsent) = PktLen /\ Len(toServer) >= PktLen /\ Len(b) = Len(toServer) - PktLen
          /\ Len(toServer) \in Nat /\ Len(unsent) \in Nat
      BY <1>2, <1>4, <1>8, <2>5
    <3>. QED  BY <1>3, <3>1
  <2>8. unsent = <<>>
    BY <1>2, <2>7, EmptySeq
  <2>9. step # "send"
    BY <1>1, <2>8 DEF PlaceInv
  <2>10. OutFlow' = <<>>
    <3>1. Len(o) = 0 /\ o \in Seq(Byte)
      BY <1>12, <2>7
    <3>. QED  BY <1>12, <3>1, EmptySeq
  <2>11. InFlow' = Pkt(request)
    <3>1. Pkt(request) \in Seq(Byte)
      BY <2>4, PktTyped
    <3>2. <<>> \o Pkt(request) = Pkt(request)
      BY <3>1, ConcatEmptySeq
    <3>. QED  BY <1>11, <2>4, <2>6, <3>2
  <2>12. connected' /\ ~closed' /\ step' \notin {"idle", "send"} /\ request' = request
    BY <1>1, <1>4, <2>3, <2>9 DEF CleanInv
  <2>. QED  BY <2>10, <2>11, <2>12 DEF CleanInv
<1>21. PlaceInv' /\ AnswersMatch'
  BY <1>1, <1>4 DEF PlaceInv, AnswersMatch, Wanted
<1>. QED  BY <1>18, <1>19, <1>20, <1>21 DEF ClientInv

\* SendPacket puts a new packet behind what is on its way.
LEMMA BeginSend ==
  ASSUME ClientInv, Begin("send"), unsent' = Pkt(request'), UNCHANGED <<inBuf, answers>>,
         connected' = TRUE,
         \/ UNCHANGED <<toServer, toClient, closed, clean>>
         \/ toServer' = <<>> /\ toClient' = <<>> /\ closed' = FALSE /\ clean' = TRUE
  PROVE  ClientInv'
<1>1. ClientType /\ FlowInv /\ PlaceInv /\ CleanInv /\ AnswersMatch
  BY DEF ClientInv
<1>. DEFINE m == request + 1
<1>2. step = "idle" /\ request' = m /\ step' = "send" /\ m \in Nat \ {0} /\ request \in Nat /\ m - 1 = request
  BY <1>1 DEF Begin, ClientType
<1>3. unsent = <<>> /\ inBuf = <<>> /\ Len(answers) = request
  BY <1>1, <1>2 DEF PlaceInv
<1>4. /\ Pkt(m) \in Seq(Byte) /\ Pkt(m) # <<>> /\ Nums(Pkt(m)) = {m}
  BY <1>2, PktTyped
<1>5. unsent' = Pkt(m)
  BY <1>2
<1>. HIDE DEF m
<1>6. InFlow \in Seq(Byte) /\ OutFlow \in Seq(Byte) /\ toServer \in Seq(Byte) /\ toClient \in Seq(Byte)
  BY <1>1, FlowTyped DEF ClientType
<1>7. OutFlow = toServer
  <2>1. toServer \o <<>> = toServer
    BY <1>6, ConcatEmptySeq
  <2>. QED  BY <1>3, <2>1 DEF OutFlow
<1>8. OutFlow' = toServer' \o Pkt(m)
  BY <1>5 DEF OutFlow
<1>9. /\ toServer' \in Seq(Byte) /\ toClient' \in Seq(Byte)
      /\ Ordered(toServer') /\ Nums(toServer') \subseteq Nums(OutFlow)
      /\ Ordered(InFlow') /\ Nums(InFlow') \subseteq Nums(InFlow)
  <2>1. CASE UNCHANGED <<toServer, toClient, closed, clean>>
    <3>1. InFlow' = InFlow
      BY <2>1 DEF InFlow
    <3>. QED  BY <1>1, <1>6, <1>7, <2>1, <3>1 DEF FlowInv
  <2>2. CASE toServer' = <<>> /\ toClient' = <<>>
    <3>1. <<>> \in Seq(Byte) /\ <<>> \o <<>> = <<>>
      BY EmptySeq, ConcatEmptySeq
    <3>2. InFlow' = <<>>
      BY <1>3, <2>2, <3>1 DEF InFlow
    <3>. QED  BY <2>2, <3>1, <3>2, NumsEmpty
  <2>. QED  BY <2>1, <2>2
<1>10. Nums(InFlow) \subseteq Nat \ {0} /\ Nums(OutFlow) \subseteq Nat \ {0}
  BY <1>6, NumsTyped
<1>11. \A x \in Nums(toServer') : x < m
  BY <1>1, <1>2, <1>9, <1>10 DEF FlowInv, m
<1>12. Ordered(OutFlow') /\ Nums(OutFlow') = Nums(toServer') \cup {m}
  BY <1>2, <1>8, <1>9, <1>11, OrderedPkt
<1>13. FlowInv'
  <2>1. \A x \in Nums(InFlow') : x <= request' /\ \A y \in Nums(OutFlow') : x < y
    BY <1>1, <1>2, <1>9, <1>10, <1>12 DEF FlowInv, m
  <2>2. \A y \in Nums(OutFlow') : y <= request'
    BY <1>2, <1>10, <1>11, <1>12, <1>9
  <2>3. \A k \in 1..Len(answers') : \A x \in Nums(InFlow') \cup Nums(OutFlow') : answers'[k].reply < x
    <3>. SUFFICES ASSUME NEW k \in 1..Len(answers), NEW x \in Nums(InFlow') \cup Nums(OutFlow')
                  PROVE  answers[k].reply < x
      OBVIOUS
    <3>1. CASE x = m
      <4>1. answers[k].reply <= k /\ answers[k].reply \in Nat
        <5>1. answers[k].reply <= k
          BY <1>1 DEF AnswersMatch
        <5>2. answers[k] \in [reply : Nat, clean : BOOLEAN]
          BY <1>1, ElementOfSeq DEF ClientType
        <5>. QED  BY <5>1, <5>2
      <4>2. k \in Nat /\ k <= request
        BY <1>2, <1>3
      <4>. QED  BY <1>2, <3>1, <4>1, <4>2 DEF m
    <3>2. CASE x \in Nums(InFlow) \cup Nums(OutFlow)
      BY <1>1, <3>2 DEF FlowInv
    <3>. QED  BY <1>9, <1>12, <3>1, <3>2
  <2>. QED  BY <1>9, <1>12, <2>1, <2>2, <2>3 DEF FlowInv
<1>14. ClientType'
  <2>1. clean' \in BOOLEAN /\ closed' \in BOOLEAN
    BY <1>1 DEF ClientType
  <2>2. unsent' \in Seq(Byte) /\ request' \in Nat /\ step' = "send"
    BY <1>2, <1>4, <1>5
  <2>. QED  BY <1>1, <1>9, <2>1, <2>2 DEF ClientType
<1>15. PlaceInv'
  BY <1>2, <1>3, <1>4, <1>5 DEF PlaceInv
<1>16. CleanInv'
  <2>. SUFFICES ASSUME clean' PROVE CleanInv'
    BY DEF CleanInv
  <2>1. toServer' = <<>> /\ toClient' = <<>> /\ ~closed'
    <3>1. CASE UNCHANGED <<toServer, toClient, closed, clean>>
      <4>1. InFlow = <<>> /\ OutFlow = <<>> /\ ~closed
        BY <1>1, <1>2, <3>1 DEF CleanInv
      <4>2. toClient = <<>>
        <5>1. <<>> \o toClient = toClient
          BY <1>6, ConcatEmptySeq
        <5>. QED  BY <1>3, <4>1, <5>1 DEF InFlow
      <4>. QED  BY <1>7, <3>1, <4>1, <4>2
    <3>. QED  BY <3>1
  <2>2. OutFlow' = Pkt(m)
    <3>1. <<>> \o Pkt(m) = Pkt(m)
      BY <1>4, ConcatEmptySeq
    <3>. QED  BY <1>8, <2>1, <3>1
  <2>3. InFlow' = <<>>
    <3>1. <<>> \o <<>> = <<>>
      BY EmptySeq, ConcatEmptySeq
    <3>. QED  BY <1>3, <2>1, <3>1 DEF InFlow
  <2>. QED  BY <1>2, <2>1, <2>2, <2>3 DEF CleanInv
<1>17. AnswersMatch'
  BY <1>1 DEF AnswersMatch
<1>. QED  BY <1>13, <1>14, <1>15, <1>16, <1>17 DEF ClientInv

\* Bytes go from the caller to the socket, or nowhere.
LEMMA SomeSent ==
  ASSUME ClientInv, SendSome
  PROVE  ClientInv'
<1>1. ClientType /\ FlowInv /\ PlaceInv /\ CleanInv /\ AnswersMatch
  BY DEF ClientInv
<1>2. PICK n \in 1..Len(unsent) :
        /\ toServer' = IF closed THEN toServer ELSE toServer \o SubSeq(unsent, 1, n)
        /\ unsent' = SubSeq(unsent, n + 1, Len(unsent))
  BY DEF SendSome
<1>3. /\ step = "send" /\ step' = IF unsent' = <<>> THEN "recv" ELSE "send"
      /\ UNCHANGED <<connected, toClient, closed, request, inBuf, clean, answers>>
  BY DEF SendSome
<1>. DEFINE a == SubSeq(unsent, 1, n)
            b == SubSeq(unsent, n + 1, Len(unsent))
<1>4. toServer \in Seq(Byte) /\ unsent \in Seq(Byte) /\ InFlow \in Seq(Byte) /\ OutFlow \in Seq(Byte)
  BY <1>1, FlowTyped DEF ClientType
<1>5. a \in Seq(Byte) /\ b \in Seq(Byte) /\ unsent = a \o b /\ (toServer \o a) \o b = toServer \o unsent
  <2>1. unsent \in Seq(Byte) /\ toServer \in Seq(Byte) /\ n \in 0..Len(unsent)
    BY <1>4
  <2>2. a \in Seq(Byte) /\ b \in Seq(Byte) /\ unsent = a \o b
    BY <2>1, Cut
  <2>3. (toServer \o a) \o b = toServer \o unsent
    BY <2>1, CutMoves
  <2>. QED  BY <2>2, <2>3
<1>6. unsent' = b /\ toServer' = IF closed THEN toServer ELSE toServer \o a
  BY <1>2
<1>. HIDE DEF a, b
<1>7. InFlow' = InFlow
  BY <1>3 DEF InFlow
<1>8. OutFlow' \in Seq(Byte) /\ toServer' \in Seq(Byte) /\ Ordered(OutFlow') /\ Nums(OutFlow') \subseteq Nums(OutFlow)
  <2>1. CASE closed
    <3>1. OutFlow' = toServer \o b
      BY <1>6, <2>1 DEF OutFlow
    <3>2. OutFlow = toServer \o (a \o b) /\ Ordered(OutFlow)
      BY <1>1, <1>5 DEF OutFlow, FlowInv
    <3>3. a \in Seq(Byte) /\ b \in Seq(Byte) /\ toServer \in Seq(Byte)
      BY <1>4, <1>5
    <3>4. Ordered(toServer \o b)
      <4>1. Ordered(toServer \o (a \o b))
        BY <3>2
      <4>. QED  BY <3>3, <4>1, OrderedDrop
    <3>5. toServer \o b \in Seq(Byte) /\ a \o b \in Seq(Byte)
      BY <3>3, ConcatProperties
    <3>6. Nums(toServer \o b) = Nums(toServer) \cup Nums(b) /\ Nums(a \o b) = Nums(a) \cup Nums(b)
      BY <3>3, NumsCat
    <3>7. Nums(toServer \o (a \o b)) = Nums(toServer) \cup Nums(a \o b)
      <4>1. toServer \in Seq(Byte)
        BY <3>3
      <4>2. a \o b \in Seq(Byte)
        BY <3>5
      <4>3. \A c, d \in Seq(Byte) : Nums(c \o d) = Nums(c) \cup Nums(d)
        BY NumsCat
      <4>. QED  BY <4>1, <4>2, <4>3, Zenon
    <3>8. Nums(OutFlow) = Nums(toServer) \cup Nums(a \o b)
      BY <3>2, <3>7
    <3>9. toServer' = toServer
      BY <1>6, <2>1
    <3>. QED  BY <3>1, <3>3, <3>4, <3>5, <3>6, <3>8, <3>9
  <2>2. CASE ~closed
    <3>1. toServer' = toServer \o a
      BY <1>6, <2>2
    <3>2. OutFlow' = OutFlow
      BY <1>5, <1>6, <3>1 DEF OutFlow
    <3>3. toServer \o a \in Seq(Byte)
      <4>1. toServer \in Seq(Byte) /\ a \in Seq(Byte)
        BY <1>4, <1>5
      <4>. QED  BY <4>1, ConcatProperties
    <3>. QED  BY <1>1, <1>4, <3>1, <3>2, <3>3 DEF FlowInv
  <2>. QED  BY <2>1, <2>2
<1>9. FlowInv'
  <2>1. Nums(InFlow) \subseteq Nat /\ Nums(OutFlow) \subseteq Nat
    BY <1>4, NumsTyped
  <2>2. request \in Nat /\ Ordered(InFlow)
    BY <1>1 DEF ClientType, FlowInv
  <2>. QED  BY <1>1, <1>3, <1>7, <1>8, <2>1, <2>2, FlowShrinks
<1>10. ClientType'
  <2>1. unsent' \in Seq(Byte) /\ toServer' \in Seq(Byte) /\ step' \in {"send", "recv"}
    BY <1>3, <1>5, <1>6, <1>8
  <2>. QED  BY <1>1, <1>3, <2>1 DEF ClientType
<1>11. PlaceInv'
  BY <1>1, <1>3 DEF PlaceInv
<1>12. CleanInv'
  <2>. SUFFICES ASSUME clean PROVE CleanInv'
    BY <1>3 DEF CleanInv
  <2>1. connected /\ ~closed /\ InFlow = <<>> /\ OutFlow = Pkt(request)
    BY <1>1, <1>3 DEF CleanInv
  <2>2. OutFlow' = OutFlow
    BY <1>5, <1>6, <2>1 DEF OutFlow
  <2>. QED  BY <1>3, <1>7, <2>1, <2>2 DEF CleanInv
<1>13. AnswersMatch'
  BY <1>1, <1>3 DEF AnswersMatch
<1>. QED  BY <1>9, <1>10, <1>11, <1>12, <1>13 DEF ClientInv

\* What is appended leaves the front as it is.
LEMMA CatPrefix ==
  ASSUME NEW S, NEW s \in Seq(S), NEW t \in Seq(S), s # <<>>
  PROVE  SubSeq(s \o t, 1, Len(s)) = s
<1>1. Len(s) \in Nat \ {0}
  BY EmptySeq, LenProperties
<1>2. 1 \in 1..Len(s) /\ Len(s) \in 1..Len(s)
  BY <1>1
<1>3. SubSeq(s \o t, 1, Len(s)) = SubSeq(s, 1, Len(s))
  BY <1>2, SubSeqOfConcat1
<1>. QED  BY <1>3, SubSeqFull

\* Bytes are read; the last of them make a packet, or none.
LEMMA SomeRead ==
  ASSUME ClientInv, RecvSome
  PROVE  ClientInv'
<1>1. ClientType /\ FlowInv /\ PlaceInv /\ CleanInv /\ AnswersMatch
  BY DEF ClientInv
<1>2. PICK n \in 1..(Wanted - Len(inBuf)) :
       /\ n <= Len(toClient)
       /\ toClient' = SubSeq(toClient, n + 1, Len(toClient))
       /\ LET read == inBuf \o SubSeq(toClient, 1, n)
          IN  \/ /\ RecvAgain(Len(read))
                 /\ inBuf' = read
                 /\ UNCHANGED <<step, clean, answers>>
              \/ /\ ~RecvAgain(Len(read)) /\ step = "head" /\ Len(read) = HeadLen
                 /\ inBuf' = read /\ step' = "body"
                 /\ UNCHANGED <<clean, answers>>
              \/ /\ ~RecvAgain(Len(read))
                 /\ step = "body" \/ ~IsHead(read)
                 /\ Return(IF IsPkt(read) THEN read[1][1] ELSE 0, clean)
  BY DEF RecvSome
<1>3. step \in {"head", "body"} /\ UNCHANGED <<connected, toServer, closed, request, unsent>>
  BY DEF RecvSome
<1>. DEFINE a == SubSeq(toClient, 1, n)
            b == SubSeq(toClient, n + 1, Len(toClient))
            read == inBuf \o a
<1>4. /\ inBuf \in Seq(Byte) /\ toClient \in Seq(Byte) /\ InFlow \in Seq(Byte) /\ OutFlow \in Seq(Byte)
      /\ Len(inBuf) \in Nat /\ Len(toClient) \in Nat
  BY <1>1, FlowTyped DEF ClientType
<1>5. HeadLen \in Nat \ {0} /\ PktLen \in Nat \ {0} /\ HeadLen < PktLen /\ Wanted \in Nat
  BY ClientAssumption DEF Wanted
<1>6. n \in 1..Len(toClient) /\ Len(inBuf) + n <= Wanted
  BY <1>2, <1>4, <1>5
<1>7. a \in Seq(Byte) /\ b \in Seq(Byte) /\ Len(a) = n /\ (inBuf \o a) \o b = inBuf \o toClient
  <2>1. inBuf \in Seq(Byte) /\ toClient \in Seq(Byte) /\ n \in 0..Len(toClient)
    BY <1>4, <1>6
  <2>2. a \in Seq(Byte) /\ b \in Seq(Byte) /\ Len(a) = n
    BY <2>1, Cut
  <2>3. (inBuf \o a) \o b = inBuf \o toClient
    BY <2>1, CutMoves
  <2>. QED  BY <2>2, <2>3
<1>8. read \in Seq(Byte) /\ Len(read) = Len(inBuf) + n
  <2>1. inBuf \in Seq(Byte) /\ a \in Seq(Byte) /\ Len(a) = n
    BY <1>4, <1>7
  <2>. HIDE DEF a
  <2>2. read \in Seq(Byte) /\ Len(read) = Len(inBuf) + Len(a)
    BY <2>1, ConcatProperties
  <2>. QED  BY <2>1, <2>2
<1>9. InFlow = read \o b /\ toClient' = b
  BY <1>2, <1>7 DEF InFlow
<1>10. \/ RecvAgain(Len(read)) /\ inBuf' = read /\ UNCHANGED <<step, clean, answers>>
       \/ step = "head" /\ Len(read) = HeadLen /\ inBuf' = read /\ step' = "body" /\ UNCHANGED <<clean, answers>>
       \/ /\ ~RecvAgain(Len(read)) /\ (step = "body" \/ ~IsHead(read))
          /\ Return(IF IsPkt(read) THEN read[1][1] ELSE 0, clean)
  BY <1>2
<1>. HIDE DEF a, b, read
<1>11. OutFlow' = OutFlow
  BY <1>3 DEF OutFlow
<1>12. b \in Seq(Byte) /\ read \in Seq(Byte) /\ Ordered(read \o b) /\ Len(read) \in Nat \ {0}
  <2>1. Ordered(InFlow) /\ b \in Seq(Byte)
    BY <1>1, <1>7 DEF FlowInv
  <2>. QED  BY <1>4, <1>6, <1>8, <1>9, <2>1
<1>13. CASE inBuf' = read /\ UNCHANGED <<clean, answers>> /\ step' \in {"head", "body"} /\ Len(read) < Wanted'
  <2>1. InFlow' = InFlow
    BY <1>9, <1>13 DEF InFlow
  <2>2. FlowInv' /\ AnswersMatch'
    BY <1>1, <1>3, <1>11, <1>13, <2>1 DEF FlowInv, AnswersMatch
  <2>3. ClientType'
    BY <1>1, <1>3, <1>9, <1>12, <1>13 DEF ClientType
  <2>4. PlaceInv'
    BY <1>1, <1>3, <1>13 DEF PlaceInv
  <2>5. CleanInv'
    BY <1>1, <1>3, <1>11, <1>13, <2>1 DEF CleanInv
  <2>. QED  BY <2>2, <2>3, <2>4, <2>5 DEF ClientInv
<1>14. CASE RecvAgain(Len(read)) /\ inBuf' = read /\ UNCHANGED <<step, clean, answers>>
  <2>1. Len(read) < Wanted /\ Wanted' = Wanted
    BY <1>5, <1>6, <1>8, <1>14, <1>12 DEF RecvAgain, Wanted
  <2>. QED  BY <1>3, <1>13, <1>14, <2>1
<1>15. CASE step = "head" /\ Len(read) = HeadLen /\ inBuf' = read /\ step' = "body" /\ UNCHANGED <<clean, answers>>
  <2>1. Wanted' = PktLen
    BY <1>15 DEF Wanted
  <2>. QED  BY <1>5, <1>13, <1>15, <2>1
<1>16. CASE /\ ~RecvAgain(Len(read)) /\ (step = "body" \/ ~IsHead(read))
            /\ Return(IF IsPkt(read) THEN read[1][1] ELSE 0, clean)
  <2>. DEFINE r == IF IsPkt(read) THEN read[1][1] ELSE 0
  <2>1. /\ answers' = Append(answers, [reply |-> r, clean |-> clean]) /\ clean' = clean
        /\ step' = "idle" /\ inBuf' = <<>> /\ Len(read) = Wanted
    BY <1>16 DEF Return, RecvAgain
  <2>2. InFlow' = b
    <3>1. <<>> \o b = b
      BY <1>12, ConcatEmptySeq
    <3>. QED  BY <1>9, <2>1, <3>1 DEF InFlow
  <2>3. Ordered(b) /\ Nums(b) \subseteq Nums(InFlow) /\ Nums(read) \subseteq Nums(InFlow)
    <3>1. b \in Seq(Byte) /\ read \in Seq(Byte)
      BY <1>12
    <3>2. Ordered(b)
      BY <1>12, <3>1, OrderedSuffix
    <3>3. Nums(read \o b) = Nums(read) \cup Nums(b)
      BY <3>1, NumsCat
    <3>. QED  BY <1>9, <3>2, <3>3
  <2>4. ASSUME IsPkt(read)
        PROVE  /\ read[1][1] \in Nat \ {0} /\ read[1][1] \in Nums(InFlow)
               /\ \A x \in Nums(b) : read[1][1] < x
    <3>1. PICK m \in 1..request : read = Pkt(m)
      BY <2>4 DEF IsPkt
    <3>2. m \in Nat \ {0}
      BY <1>1 DEF ClientType
    <3>3. Len(read) = PktLen /\ read[1] = <<m, 1>> /\ Nums(read) = {m}
      BY <1>5, <3>1, <3>2, PktTyped
    <3>4. read[1][1] = m
      BY <3>3
    <3>5. \A x \in Nums(b) : x > m
      <4>1. b \in Seq(Byte) /\ read \in Seq(Byte) /\ Ordered(read \o b)
        BY <1>12
      <4>. QED  BY <3>3, <4>1, WholePktGone
    <3>6. Nums(b) \subseteq Nat
      BY <1>12, NumsTyped
    <3>. QED  BY <2>3, <3>2, <3>3, <3>4, <3>5, <3>6
  <2>5. ASSUME clean
        PROVE  connected /\ ~closed /\ IsPkt(read) /\ read[1][1] = request /\ b = <<>> /\ OutFlow = <<>>
    <3>1. InFlow # <<>>
      <4>1. Len(InFlow) = Len(inBuf) + Len(toClient)
        BY <1>1, FlowTyped
      <4>2. Len(InFlow) # 0
        BY <1>4, <1>6, <4>1
      <4>. QED  BY <1>4, <4>2, EmptySeq
    <3>2. connected /\ ~closed /\ InFlow = Pkt(request) /\ OutFlow = <<>>
      BY <1>1, <1>3, <2>5, <3>1 DEF CleanInv
    <3>3. request \in Nat \ {0}
      BY <1>1, <1>3 DEF PlaceInv, ClientType
    <3>4. read \o b = Pkt(request) /\ Len(read \o b) = Len(read) + Len(b) /\ Len(b) \in Nat
      <4>1. b \in Seq(Byte) /\ read \in Seq(Byte)
        BY <1>12
      <4>2. Len(read \o b) = Len(read) + Len(b) /\ Len(b) \in Nat
        BY <4>1, ConcatProperties, LenProperties
      <4>. QED  BY <1>9, <3>2, <4>2
    <3>5. Len(Pkt(request)) = PktLen /\ Pkt(request)[1] = <<request, 1>>
      BY <1>5, <3>3, PktTyped
    <3>6. step = "body"
      <4>1. SUFFICES ASSUME step = "head" PROVE FALSE
        BY <1>3
      <4>2. Len(read) = HeadLen
        BY <2>1, <4>1 DEF Wanted
      <4>3. SubSeq(read \o b, 1, Len(read)) = read
        <5>1. b \in Seq(Byte) /\ read \in Seq(Byte) /\ read # <<>>
          BY <1>12, EmptySeq
        <5>. QED  BY <5>1, CatPrefix
      <4>4. IsHead(read)
        <5>1. read = SubSeq(Pkt(request), 1, HeadLen) /\ request \in 1..request
          BY <3>3, <3>4, <4>2, <4>3
        <5>. QED  BY <5>1 DEF IsHead
      <4>. QED  BY <1>16, <4>1, <4>4
    <3>7. Len(b) = 0
      <4>1. Len(read) = PktLen
        BY <2>1, <3>6 DEF Wanted
      <4>. QED  BY <1>5, <3>4, <3>5, <4>1
    <3>8. b = <<>>
      BY <1>12, <3>7, EmptySeq
    <3>9. read = Pkt(request)
      <4>1. read \o <<>> = read
        BY <1>12, ConcatEmptySeq
      <4>. QED  BY <3>4, <3>8, <4>1
    <3>10. IsPkt(read)
      BY <3>3, <3>9 DEF IsPkt
    <3>11. read[1][1] = request
      BY <3>5, <3>9
    <3>. QED  BY <3>2, <3>8, <3>10, <3>11
  <2>6. /\ r \in Nat /\ (clean => r = request)
        /\ r # 0 => r \in Nums(InFlow) /\ \A x \in Nums(InFlow') : r < x
    BY <2>2, <2>4, <2>5
  <2>. HIDE DEF r
  <2>7. /\ FlowInv' /\ AnswersMatch' /\ answers' \in Seq([reply : Nat, clean : BOOLEAN])
        /\ Len(answers') = request'
    <3>1. clean \in BOOLEAN
      BY <1>1 DEF ClientType
    <3>. QED  BY <1>3, <1>11, <2>1, <2>2, <2>3, <2>6, <3>1, Returned
  <2>8. ClientType'
    BY <1>1, <1>3, <1>9, <1>12, <2>1, <2>7, EmptySeq DEF ClientType
  <2>9. PlaceInv'
    <3>1. unsent = <<>>
      BY <1>1, <1>3 DEF PlaceInv
    <3>. QED  BY <1>3, <2>1, <2>7, <3>1 DEF PlaceInv
  <2>10. CleanInv'
    BY <1>3, <1>11, <2>1, <2>2, <2>5 DEF CleanInv
  <2>. QED  BY <2>7, <2>8, <2>9, <2>10 DEF ClientInv
<1>. QED  BY <1>10, <1>14, <1>15, <1>16

\* RecvPacket gives up: what it has read of a packet is lost.
LEMMA GivenUp ==
  ASSUME ClientInv, step # "idle", unsent = <<>>, Return(0, FALSE), inBuf = <<>> \/ toClient = <<>>,
         UNCHANGED <<connected, wireVars, request, unsent>>
  PROVE  ClientInv'
<1>1. ClientType /\ FlowInv /\ PlaceInv /\ CleanInv /\ AnswersMatch
  BY DEF ClientInv
<1>2. /\ answers' = Append(answers, [reply |-> 0, clean |-> FALSE]) /\ clean' = FALSE
      /\ step' = "idle" /\ inBuf' = <<>> /\ UNCHANGED <<toServer, toClient, closed>>
  BY DEF Return, wireVars
<1>3. InFlow \in Seq(Byte) /\ toClient \in Seq(Byte)
  BY <1>1, FlowTyped DEF ClientType
<1>4. OutFlow' = OutFlow
  BY <1>2 DEF OutFlow
<1>5. Ordered(InFlow') /\ Nums(InFlow') \subseteq Nums(InFlow)
  <2>1. CASE inBuf = <<>>
    <3>1. InFlow' = InFlow
      BY <1>2, <2>1 DEF InFlow
    <3>. QED  BY <1>1, <3>1 DEF FlowInv
  <2>2. CASE toClient = <<>>
    <3>1. <<>> \o <<>> = <<>>
      BY EmptySeq, ConcatEmptySeq
    <3>2. InFlow' = <<>>
      BY <1>2, <2>2, <3>1 DEF InFlow
    <3>. QED  BY <3>2, NumsEmpty
  <2>. QED  BY <2>1, <2>2
<1>6. /\ FlowInv' /\ AnswersMatch' /\ answers' \in Seq([reply : Nat, clean : BOOLEAN])
      /\ Len(answers') = request'
  BY <1>2, <1>4, <1>5, Returned
<1>7. ClientType'
  BY <1>1, <1>2, <1>3, <1>6, EmptySeq DEF ClientType
<1>8. PlaceInv' /\ CleanInv'
  BY <1>2, <1>6 DEF PlaceInv, CleanInv
<1>. QED  BY <1>6, <1>7, <1>8 DEF ClientInv

\* Every step of the client and of its server keeps it.
LEMMA StepClient == ClientInv /\ [ClientNext]_clientVars => ClientInv'
<1>. SUFFICES ASSUME ClientInv, [ClientNext]_clientVars PROVE ClientInv'
  OBVIOUS
<1>0. ClientType /\ FlowInv /\ PlaceInv /\ CleanInv /\ AnswersMatch
  BY DEF ClientInv
<1>. DEFINE Typed == /\ InFlow \in Seq(Byte) /\ OutFlow \in Seq(Byte) /\ inBuf \in Seq(Byte)
                     /\ toServer \in Seq(Byte) /\ toClient \in Seq(Byte) /\ unsent \in Seq(Byte)
                     /\ request \in Nat /\ Nums(InFlow) \subseteq Nat /\ Nums(OutFlow) \subseteq Nat
<1>1. Typed
  <2>1. InFlow \in Seq(Byte) /\ OutFlow \in Seq(Byte)
    BY <1>0, FlowTyped
  <2>2. Nums(InFlow) \subseteq Nat /\ Nums(OutFlow) \subseteq Nat
    BY <2>1, NumsTyped
  <2>. QED  BY <1>0, <2>1, <2>2 DEF ClientType
<1>2. CASE ServerAnswers
  BY <1>2, AnswerFlows
<1>3. CASE ServerCloses
  <2>1. /\ closed' = TRUE /\ toClient' \in {toClient, <<>>} /\ clean' = FALSE
        /\ UNCHANGED <<connected, toServer, request, step, unsent, inBuf, answers>>
    BY <1>3 DEF ServerCloses
  <2>2. toClient' \in Seq(Byte)
    BY <1>1, <2>1, EmptySeq
  <2>3. OutFlow' = OutFlow
    BY <2>1 DEF OutFlow
  <2>4. Ordered(InFlow') /\ Nums(InFlow') \subseteq Nums(InFlow)
    <3>1. CASE toClient' = toClient
      <4>1. InFlow' = InFlow
        BY <2>1, <3>1 DEF InFlow
      <4>. QED  BY <1>0, <4>1 DEF FlowInv
    <3>2. CASE toClient' = <<>>
      <4>1. inBuf \o <<>> = inBuf
        BY <1>1, ConcatEmptySeq
      <4>2. InFlow' = inBuf
        BY <2>1, <3>2, <4>1 DEF InFlow
      <4>3. inBuf \in Seq(Byte) /\ toClient \in Seq(Byte) /\ Ordered(inBuf \o toClient)
        BY <1>0, <1>1 DEF FlowInv, InFlow
      <4>4. Ordered(inBuf)
        BY <4>3, OrderedPrefix
      <4>5. Nums(inBuf) \subseteq Nums(InFlow)
        BY <1>0, FlowTyped
      <4>. QED  BY <4>2, <4>4, <4>5
    <3>. QED  BY <2>1, <3>1, <3>2
  <2>5. FlowInv'
    <3>1. Ordered(OutFlow)
      BY <1>0 DEF FlowInv
    <3>. QED  BY <1>0, <1>1, <2>1, <2>3, <2>4, <3>1, FlowShrinks
  <2>6. ClientType'
    BY <1>0, <2>1, <2>2 DEF ClientType
  <2>7. PlaceInv' /\ CleanInv' /\ AnswersMatch'
    BY <1>0, <2>1 DEF PlaceInv, CleanInv, AnswersMatch, Wanted
  <2>. QED  BY <2>5, <2>6, <2>7 DEF ClientInv
<1>4. CASE SendNowhere \/ ReconnectFails
  <2>1. /\ step = "idle" /\ request' = request + 1 /\ step' = "recv" /\ connected' = FALSE /\ ~clean
        /\ UNCHANGED <<toServer, toClient, closed, unsent, inBuf, clean, answers>>
    BY <1>0, <1>4 DEF SendNowhere, ReconnectFails, Begin, wireVars, IsSocketClosed, CleanInv, ClientType
  <2>2. InFlow' = InFlow /\ OutFlow' = OutFlow
    BY <2>1 DEF InFlow, OutFlow
  <2>3. FlowInv'
    <3>1. Ordered(InFlow) /\ Ordered(OutFlow) /\ request <= request' /\ request' \in Nat
      BY <1>0, <1>1, <2>1 DEF FlowInv
    <3>. QED  BY <1>0, <1>1, <2>1, <2>2, <3>1, FlowShrinks
  <2>4. ClientType'
    <3>1. request + 1 \in Nat /\ "recv" \in {"idle", "send", "recv", "head", "body"}
      BY <1>1
    <3>2. request' \in Nat /\ step' \in {"idle", "send", "recv", "head", "body"} /\ connected' \in BOOLEAN
      BY <2>1, <3>1, Zenon
    <3>. QED  BY <1>0, <2>1, <3>2, Zenon DEF ClientType
  <2>5. PlaceInv'
    <3>1. Len(answers) = request /\ unsent = <<>> /\ inBuf = <<>> /\ (request + 1) - 1 = request /\ request + 1 > 0
      BY <1>0, <1>1, <2>1 DEF PlaceInv
    <3>. QED  BY <2>1, <3>1 DEF PlaceInv
  <2>6. CleanInv' /\ AnswersMatch'
    BY <1>0, <2>1 DEF CleanInv, AnswersMatch
  <2>. QED  BY <2>3, <2>4, <2>5, <2>6 DEF ClientInv
<1>5. CASE SendPacket
  BY <1>0, <1>5, BeginSend DEF SendPacket, wireVars, ClientType
<1>6. CASE SendReconnected
  BY <1>6, BeginSend DEF SendReconnected, Fresh
<1>7. CASE SendSome
  BY <1>7, SomeSent
<1>8. CASE SendFails
  <2>1. /\ step = "send" /\ step' = "recv" /\ unsent' = <<>> /\ clean' = FALSE
        /\ UNCHANGED <<connected, toServer, toClient, closed, request, inBuf, answers>>
    BY <1>8 DEF SendFails, wireVars
  <2>2. OutFlow' = toServer /\ InFlow' = InFlow
    <3>1. toServer \o <<>> = toServer
      BY <1>1, ConcatEmptySeq
    <3>. QED  BY <2>1, <3>1 DEF InFlow, OutFlow
  <2>3. Ordered(toServer) /\ Nums(toServer) \subseteq Nums(OutFlow)
    <3>1. toServer \in Seq(Byte) /\ unsent \in Seq(Byte) /\ Ordered(toServer \o unsent)
      BY <1>0, <1>1 DEF FlowInv, OutFlow
    <3>2. Ordered(toServer)
      BY <3>1, OrderedPrefix
    <3>. QED  BY <1>0, <3>2, FlowTyped
  <2>4. FlowInv'
    <3>1. Ordered(InFlow)
      BY <1>0 DEF FlowInv
    <3>. QED  BY <1>0, <1>1, <2>1, <2>2, <2>3, <3>1, FlowShrinks
  <2>5. ClientType'
    BY <1>0, <2>1, EmptySeq DEF ClientType
  <2>6. PlaceInv' /\ CleanInv' /\ AnswersMatch'
    BY <1>0, <2>1 DEF PlaceInv, CleanInv, AnswersMatch
  <2>. QED  BY <2>4, <2>5, <2>6 DEF ClientInv
<1>9. CASE RecvNowhere
  <2>1. step = "recv" /\ inBuf = <<>> /\ unsent = <<>>
    BY <1>0, <1>9 DEF RecvNowhere, PlaceInv
  <2>. QED  BY <1>9, <2>1, GivenUp DEF RecvNowhere
<1>10. CASE RecvPacket
  <2>1. /\ step = "recv" /\ step' = "head"
        /\ UNCHANGED <<connected, toServer, toClient, closed, request, unsent, inBuf, clean, answers>>
    BY <1>10 DEF RecvPacket, wireVars
  <2>2. InFlow' = InFlow /\ OutFlow' = OutFlow
    BY <2>1 DEF InFlow, OutFlow
  <2>3. FlowInv' /\ AnswersMatch' /\ CleanInv'
    BY <1>0, <2>1, <2>2 DEF FlowInv, AnswersMatch, CleanInv
  <2>4. ClientType'
    BY <1>0, <2>1 DEF ClientType
  <2>5. PlaceInv'
    <3>1. inBuf = <<>> /\ Len(<<>>) = 0 /\ 0 < HeadLen
      BY <1>0, <2>1, ClientAssumption DEF PlaceInv
    <3>2. Wanted' = HeadLen
      BY <2>1 DEF Wanted
    <3>. QED  BY <1>0, <2>1, <3>1, <3>2 DEF PlaceInv
  <2>. QED  BY <2>3, <2>4, <2>5 DEF ClientInv
<1>11. CASE RecvSome
  BY <1>11, SomeRead
<1>12. CASE RecvFails
  <2>1. step \in {"head", "body"} /\ toClient = <<>> /\ unsent = <<>>
    BY <1>0, <1>12 DEF RecvFails, PlaceInv
  <2>. QED  BY <1>12, <2>1, GivenUp DEF RecvFails
<1>13. CASE UNCHANGED clientVars
  BY <1>0, <1>13 DEF ClientInv, ClientType, FlowInv, PlaceInv, CleanInv, AnswersMatch, InFlow, OutFlow, Wanted,
                     clientVars, wireVars
<1>. QED
  BY <1>2, <1>3, <1>4, <1>5, <1>6, <1>7, <1>8, <1>9, <1>10, <1>11, <1>12, <1>13 DEF ClientNext

\* RecvPacket returns the reply to the request before it on a connection on
\* which nothing failed, and on any connection no reply twice or out of order.
THEOREM AnswersAreOwn == ClientSpec => []AnswersMatch
<1>1. ClientInv => AnswersMatch
  BY DEF ClientInv
<1>. QED  BY <1>1, InitClient, StepClient, PTL DEF ClientSpec

=============================================================================
