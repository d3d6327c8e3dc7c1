-------------------------- MODULE HandleAllocator --------------------------
(***************************************************************************)
(* Handles of sockets: BaseSocket's constructor draws them from a signed   *)
(* atomic counter that wraps, and skips those in the socket map of the     *)
(* main event loop.  With IO threads that map holds the listening sockets  *)
(* only; with io_thread_num = 0 it holds every connection as well.         *)
(***************************************************************************)
EXTENDS Integers, FiniteSetsExt

CONSTANTS
  Threads,     \* threads that create sockets
  Main,        \* the thread of the main event loop
  IoThreads,   \* io_thread_num
  HalfRange,   \* 2^31: handles are -HalfRange .. HalfRange - 1
  LateListen,  \* start_listen may be called when there are connections already
  MaxListen,   \* bound: listening sockets
  MaxOpen,     \* bound: open connections when another is created
  MaxFetches   \* bound: fetches counts no further

ASSUME AllocatorAssumption ==
  /\ Main \in Threads
  /\ IoThreads \in Nat
  /\ HalfRange \in Nat /\ HalfRange > 2
  /\ LateListen \in BOOLEAN
  /\ MaxListen \in Nat /\ MaxOpen \in Nat
  /\ MaxFetches \in Nat /\ MaxFetches >= HalfRange

Handles == 0..(HalfRange - 1)

VARIABLES
  allocator,  \* g_handle_allocator
  pc,         \* "idle", "find": has drawn a handle and looks it up, "found": it is free
  handle,     \* m_handle of the socket the thread is constructing
  listeners,  \* handles of listening sockets
  conns,      \* for each handle the number of open connections that have it
  mainMap,    \* keys of the main loop's socket_map_
  fetches     \* history: draws so far

vars == <<allocator, pc, handle, listeners, conns, mainMap, fetches>>

Init ==
  /\ allocator = 1
  /\ pc = [t \in Threads |-> "idle"]
  /\ handle = [t \in Threads |-> 0]
  /\ listeners = {} /\ mainMap = {}
  /\ conns = [h \in Handles |-> 0]
  /\ fetches = 0

\* The counter is a signed atomic: it wraps.
Wrap(x) == IF x = HalfRange THEN -HalfRange ELSE x

Normalize(x) == IF x < 0 THEN 1 ELSE x

\* m_handle = g_handle_allocator++, in one atomic step.
FetchFaulty(t) ==
  /\ UNCHANGED allocator
  /\ handle' = [handle EXCEPT ![t] = Normalize(allocator)]
Fetch(t) ==
  /\ allocator' = Wrap(allocator + 1)
  /\ handle' = [handle EXCEPT ![t] = Normalize(allocator)]

Count == fetches' = IF fetches < MaxFetches THEN fetches + 1 ELSE fetches

Room == MapThenSumSet(LAMBDA h : conns[h], Handles) < MaxOpen

\* Without IO threads sockets are created by the main loop.
Draw(t) ==
  /\ pc[t] = "idle" /\ Room
  /\ IoThreads = 0 => t = Main
  /\ Fetch(t)
  /\ pc' = [pc EXCEPT ![t] = "find"]
  /\ Count
  /\ UNCHANGED <<listeners, conns, mainMap>>

\* FindBaseSocket reads the main loop's map from any thread.
UsedFaulty(h) == FALSE
Used(h) == h \in mainMap

DrawAgain(t) ==
  /\ pc[t] = "find" /\ Used(handle[t])
  /\ Fetch(t)
  /\ Count
  /\ UNCHANGED <<pc, listeners, conns, mainMap>>

Found(t) ==
  /\ pc[t] = "find" /\ ~Used(handle[t])
  /\ pc' = [pc EXCEPT ![t] = "found"]
  /\ UNCHANGED <<allocator, handle, listeners, conns, mainMap, fetches>>

Open(t) == pc[t] = "found" /\ pc' = [pc EXCEPT ![t] = "idle"]

\* No connection, and none being made.
NoConns == (\A h \in Handles : conns[h] = 0) /\ \A t \in Threads \ {Main} : pc[t] = "idle"

\* The socket listens: it enters the main loop's map.
StartListen ==
  /\ Open(Main)
  /\ Cardinality(listeners) < MaxListen
  /\ LateListen \/ NoConns
  /\ listeners' = listeners \cup {handle[Main]}
  /\ mainMap' = mainMap \cup {handle[Main]}
  /\ UNCHANGED <<allocator, handle, conns, fetches>>

\* The socket is accepted or connects: it enters the map of its own loop.
OpenConn(t) ==
  /\ Open(t)
  /\ conns' = [conns EXCEPT ![handle[t]] = @ + 1]
  /\ mainMap' = IF IoThreads = 0 THEN mainMap \cup {handle[t]} ELSE mainMap
  /\ UNCHANGED <<allocator, handle, listeners, fetches>>

CloseConn(h) ==
  /\ conns[h] > 0
  /\ conns' = [conns EXCEPT ![h] = @ - 1]
  /\ mainMap' = IF IoThreads = 0 THEN mainMap \ {h} ELSE mainMap
  /\ UNCHANGED <<allocator, pc, handle, listeners, fetches>>

Create(t) == DrawAgain(t) \/ Found(t) \/ OpenConn(t)

Next ==
  \/ \E t \in Threads : Draw(t) \/ Create(t)
  \/ StartListen
  \/ \E h \in Handles : CloseConn(h)

Spec == Init /\ [][Next]_vars

\* GetIOResource: which of the IO threads a handle belongs to.
IoThread(h) == h % IoThreads

-----------------------------------------------------------------------------

\* The handle a socket is given is never negative: handle % io_thread_num is
\* an index of an IO thread.
TypeOK ==
  /\ allocator \in -HalfRange..(HalfRange - 1)
  /\ pc \in [Threads -> {"idle", "find", "found"}]
  /\ handle \in [Threads -> Handles]
  /\ listeners \in SUBSET Handles /\ mainMap \in SUBSET Handles
  /\ conns \in [Handles -> Nat]
  /\ fetches \in Nat
  /\ IoThreads > 0 => \A t \in Threads : IoThread(handle[t]) \in 0..(IoThreads - 1)

\* No two open sockets have the same handle.
Unique == \A h \in Handles : conns[h] + (IF h \in listeners THEN 1 ELSE 0) <= 1

\* Two threads that create sockets at once are given different handles, and a
\* handle is never that of an open socket, until the counter wraps.
UniqueUntilWrap ==
  fetches < HalfRange =>
    /\ Unique
    /\ \A t \in Threads : pc[t] # "idle" =>
         /\ conns[handle[t]] = 0 /\ handle[t] \notin listeners
         /\ \A u \in Threads \ {t} : pc[u] # "idle" => handle[u] # handle[t]

\* No connection has the handle of a listening socket, or is about to get it.
ListenersKept ==
  /\ \A h \in listeners : conns[h] = 0
  /\ \A t \in Threads : pc[t] = "found" => handle[t] \notin listeners

\* Listening sockets can be found in the main loop's map: the search of any
\* thread sees them, and when the loop has the connections too, closing one
\* removes no listening socket.
ListenersSeen == listeners \subseteq mainMap

\* A connection never takes the handle of a listening socket, however often the
\* counter wraps, if listening begins before there are connections; and every
\* handle leads to an IO thread.
HandleInv == TypeOK /\ (~LateListen => ListenersSeen /\ ListenersKept)
=============================================================================
