# A TLA+ model of netter

netter is a C++ network library: a multi-threaded reactor (one event loop per
thread), connections that are referred to by handle, a packet format, timers, a
worker thread pool and a small HTTP layer. This directory holds TLA+ modules
for its components, TLC configurations that check them on small instances, and
machine-checked proofs of what matters most. `PROJECT.json` maps each
definition to the lines it models, lists the runs, the hazards of the code with
the properties that cover them, the findings and the theorems; the paths in it
start at the repository's root directory, called `src/` there.

Run a configuration with `tlc -config X.cfg M` (X and M as in the tables below)
and a proof with `tlapm MProofs.tla`.

## 1. The system

| component | state | operations | what makes it correct |
|---|---|---|---|
| `EventLoop` (event_loop.cpp) | `socket_map_`, `register_event_list_`, `timer_list_`, `loop_list_`, the epoll descriptor, a wakeup socketpair | `Start`: wait, dispatch events, `_CheckTimer`, `_CheckLoop`, `_RegiterEventList`; `AddEvent`, `RemoveEvent`, `Wakeup`, `AddTimer`, `RemoveTimer`, `AddLoop` | no pointer in an event, a map or a list is stale; no event or wakeup is lost; timers are called when they are due |
| `BaseSocket` (base_socket.cpp) | descriptor, `m_state`, handle, reference count; `g_handle_allocator` | `Listen`, `Connect`, `Send`, `Recv`, `Close`, `OnRead`, `OnWrite`, `OnClose`, `OnTimer`, `_AcceptNewSocket` | handles identify sockets; data before FIN; a connection is confirmed once |
| `BaseConn` (base_conn.cpp) | `m_handle`, `m_open`, `m_busy`, `m_in_buf`, `m_out_buf`, `m_wait_pkt_list`, `m_last_recv_tick`, reference count | `Connect`, `Close`, `Send`, `SendPkt`, `OnConnect`, `OnConfirm`, `OnRead`, `OnWrite`, `OnClose`, `OnTimer` | the byte streams are kept in order, packets are cut right, silent connections are closed and others are not |
| `PendingEventMgr` (base_conn.cpp) | per IO thread: `pkt_list` and `close_list` under a mutex, `conn_map` | static `SendPkt(handle)`, `CloseHandle(handle)`, `loop_callback` | packets reach the right connection in order, each is deleted once, close does not overtake |
| `IoThreadResource` (io_thread_resource.h) | one object per IO thread | `GetIOResource(handle)` = index `handle % n` | the index is valid, a connection always has the same thread |
| `SimpleBuffer` (simple_buffer.cpp) | cells, write and read offset | `Write`, `Read`, `Extend`, `ResetOffset` | bytes are kept, offsets stay inside |
| `PktBase`, `CByteStream` (pkt_base.cpp, byte_stream.cpp) | the packet's buffer and header, a stream position | integers and strings in and out, setters, `WriteHeader`, `ReadPacket`, `IsPktAvailable` | what is read is what was written, length and header on the wire agree with the object |
| `ThreadPool` (thread_pool.cpp) | per worker: task list, mutex and condition, stop flag | `AddTask`, `Execute`, `Stop`, `Destory` | every task is run once, no sleep on a task, `Destory` returns |
| HTTP (http_conn.cpp, http_handler_map.cpp, http_parser*.cpp) | the handler map, a parser and its wrapper per IO thread | `HttpConn::OnRead`, handlers, `ParseHttpContent`, `http_parser_execute` | a whole request is acted on once, with the URL and body its client sent, a malformed one never |
| Listeners (base_socket.cpp, base_listener.h) | the listening socket, the kernel's backlog | `Listen`, `_AcceptNewSocket` | no client is left in the backlog without an event |
| Blocking sockets (block_socket.cpp) with `ClientConn` of the examples | one descriptor, a receive buffer | `connect_with_timeout`, `block_send_all`, `block_recv_all`, `is_socket_closed` | an answer is that of its request |
| `SimpleLog` (simple_log.cpp) | the file of a day, the time of the last message | `Init`, `LogMessage` | a message is in the file of its day |
| utilities, example programs | - | - | - |

How they interact. The main thread runs an `EventLoop` for listeners; `n` IO
threads (or the main loop, `n = 0`) run one each for connections. A handle
belongs to IO thread `handle % n`. A thread hands a socket to a loop through
the mutex-protected register list, and a packet or a close request through
the pending lists, each followed by a byte into the loop's wakeup pair. Within a
loop everything is a callback: loop -> `BaseSocket` (a raw pointer in
`epoll_event.data.ptr`) -> `conn_callback` -> `BaseConn` -> the application's
`HandlePkt`, which may send and close. Two reference counts, one taken around
each event and one around each callback, keep socket and connection alive while
such a chain runs.

What is hard: the order of the phases of a pass, edge-triggered epoll (an event
that is not used up does not come back), pointers held across handlers that
close, lists filled by other threads, wakeups, the condition variable, wrapping
and drifting counters. Every such place is in `hazards` of PROJECT.json.

## 2. The modules

### ConnLifecycle - the objects of one IO thread

A connection `c` is a `BaseSocket` and its `BaseConn`. The kernel's side is
`tcp`, `inq`, `fin`, `epoll`, `ready` (edge triggered: `ready` is set by a
change and emptied by `epoll_wait`). `pc` follows `EventLoop::Start`:

| pc | code |
|---|---|
| `wait` | `epoll_wait` (event_loop.cpp:360) |
| `events`, `dispatch` | the loop over `events[]`, the three `if`s of an event (361-384) |
| `parse`, `afterRead` | `_ParsePkt`'s loop, the rest of `BaseSocket::OnRead` |
| `sweep` | `EventLoop::OnTimer` |
| `loop`, `closing` | `loop_callback`: swap, then one close request a step |
| `register`, `adding` | `_RegiterEventList`: swap, then one `AddEvent` a step |

`sref` and `cref` are the reference counts; an object with count 0 has been
deleted. `stage` is how far the creating thread is: `Connect` in a thread other
than the loop's is three steps (registered, `m_handle` assigned, in `conn_map`)
because no lock covers them. `Foreign` says which connections another thread
may make, `CloseOthers` whether a handler may close a connection that is not its
own. Using a deleted object does nothing in the model beyond what its memory,
still holding the old contents, would make it do; the properties say that it
does not happen.

### PendingEvents and Mailbox - requests to the IO thread

`pktList`, `closeList` with a `poster` per thread (`pushed`: between the mutex
and `Wakeup`), the wakeup pair (`wakeBytes`, at most `WakeCap`: a byte into a
full pair is lost, as `send` on a non-blocking socket; `wakeEdge`: it is on the
ready list), the loop (`pc`), the connection's `conn` state and its wait list.
`freed[p]` counts deletions of a packet. `Mailbox` is what the application is
promised: a packet sent by handle is delivered or dropped, once; delivered only
while the connection is open; in order for one thread and one connection.
`PendingEvents` implements it (`ImplementsMailbox`, with `fate` computed from
`freed` and `wire`).

### SimpleBuffer, SendPath, RecvPath - the byte streams

`SimpleBuffer` is a module of operators on the buffer's three fields.
`SendPath` is `Send` and `OnWrite`, one `send()` a step, over a kernel
buffer that takes what it has room for and announces room when it had turned
bytes away (`noSpace`, then `edge`). `RecvPath` is `OnRead`, one `recv()` and
one packet a step, over segments that arrive cut anywhere, with well-formed and
four kinds of malformed packets, a handler that may close, and the peer's FIN.
Bytes are identities (a position in the stream, or packet and place), so losing,
repeating and reordering them show.

### HttpParser, HttpConn - HTTP

`HttpParser` is `http_parser_execute` for requests, one operator per state, and
`After`, the parser behind each symbol of the buffer, with the two marks of URL and body, the callbacks of
`HttpParserWrapper` and the asserts (`asserts` collects their conditions). A
symbol is a byte, or one of the words the parser compares byte by byte (a
method, a version, a header's name or value), and counts as one. Numbers
have base 3 (lengths) and 4 (chunks) and a greatest value of 15, so that three
digits overflow; the limit on the header is 36 symbols.

`HttpConn` is a set of connections of one IO thread and the wrapper they share.
Each read parses all that has come again; a whole request goes to the handler of
its URL, who closes at once or answers later, or is answered by 404. A client
sends one script, cut into pieces, and may close at any point. A script says
whether it begins with a whole request, how long that is, and what must come of
it; the property compares this with what the parser made of the pieces.

### Acceptor - listening sockets

The accept loop of the main thread under edge triggering: `backlog` is the
kernel's queue, `ready` an edge not yet taken, `accepting` the loop. An accepted
socket is a new `BaseSocket`, so the module extends `HandleAllocator` and each
accept takes the allocator's steps; no descriptor left (`~Room`) and an aborted
client end the loop, as any error does.

### BlockClient, LogFile - outside the loops

`BlockClient` is `ClientConn` over the blocking calls, in the cycle of
`PressureTestThread` (src/test/client/main.cpp:100): send a packet, receive
one, whatever came of the first. `recv` and `send` take any part; a receive that
finds nothing may time out; the server answers late or closes. `clean` is a
history: no failure on this connection so far. `LogFile` is two threads that
log while days pass: the time is taken before the mutex, the file's name after it.

### PktCodec - packets

The writer's constructor puts integers (all widths, both signs, at the edges of
their range) and strings behind the header's room, setters change header and
buffer, `WriteHeader` completes it, and a reader parses what is then in the
buffer, expecting fewer or more fields if its version of the packet differs. A
byte has `Base` values instead of 256.

### Timers, ConnTimeout - time

`Timers` is the timer list with `_CheckTimer`'s iterator on it: handlers and
callbacks add, re-arm and remove; a node is an object of its own, so a removed
timer added again is another one. `ConnTimeout` is the one second timer and the
sweep that closes silent connections. Time is an explicit integer: passes sleep
for at most `WaitTimeout` and work for at most `MaxBusy` (`MaxGap` in Timers is
the sum of both). The clock does not jump, although `gettimeofday` may.

### HandleAllocator, ThreadPool

`HandleAllocator` is the atomic counter in `-HalfRange..HalfRange-1` (32 bits
in the code), the constructor's search, one look-up a step, and the maps it looks
into; `BaseSocket` objects that listen enter the main loop's map. `ThreadPool`
is `n` workers with `pc` in `Execute`, the mutex and the condition variable
with spurious wakeups; `Stop` stores and signals without the mutex, as the code
does, and a task may add another task.

A definition named `...Faulty` in a module is the definition below it with a
plausible mistake: the `mutants` of PROJECT.json put it in place, and the
property named there must then fail.

## 3. The runs

Every configuration lists the constants; what they bound is said in the module.
Parts that share no state are checked side by side in one run (MCRecvPath,
MCOutsideLoop): a variable `part`
says which of them a behaviour is of, and the others stay in their initial
state, so their states add up and do not multiply.

| run | module, cfg | shows | bounds and why |
|---|---|---|---|
| lifecycle | MCConnLifecycle, Lifecycle | counts and pointers (`LifetimeInv`), no lost edge, a closed connection is gone for good; a vanished peer is noticed and a connection confirmed without the inactivity timer | one outgoing connection of the loop, one accepted in the loop or by the main thread, close requests of other threads, two packets unread: the smallest with an event of another connection in the batch, a packet behind the one whose handler closes, and data together with FIN |
| lifecycle_any_use | LifecycleAnyUse | what holds however the library is used: nothing is leaked (`NoLeak`), FIN never overtakes data (`FinAfterData`) | as above, with `Connect` in any thread and handlers that close other connections |
| foreign_reg_list | ForeignRegList | violation, section 6 | one packet is enough |
| early_packet | EarlyPacket | violation, section 6 | one packet is enough |
| pending | MCPendingEvents, Pending | ownership, wakeups, close after send, requests carried out, refinement of Mailbox | two posting threads and the loop, three packets to one connection still to be confirmed, one close request, a pair of one byte (so that it is full) |
| send | MCSendPath, Send | order, queue and writable event, all arrives | chunks of 2 and a kernel buffer of 2 with sends of 1 and 3 bytes: sends below and above both |
| recv | MCRecvPath, Recv | packets: framing, bytes kept, nothing forgotten before FIN, every packet handled. HTTP: the request's URL and body are exact, it is acted on once, as soon as it is whole; the parser's asserts hold | header of 2, reads of 3: a read ends inside a header and covers two packets; three packets of any kind. 11 whole requests, one of each way to frame a body and to leave the URL, and 19 malformed ones, in two pieces cut anywhere, a second connection's request between them |
| outside_loop | MCOutsideLoop, OutsideLoop | packets: read = written, header on the wire, accepted iff whole. Log: `InDayFile`. Blocking client: `AnswersMatch`. Sockets: handles index a thread and listeners keep theirs for good (`HandleInv`), handles are unique before the wrap, the accept loop forgets no client | two fields, bytes of two bits, one setter call before or after `WriteHeader`; two threads with two messages each over three days; three requests of three bytes, two of them header: late replies, replies cut by a timeout and reconnects all occur; a backlog of two, handles of 3 bits, two creating threads, two open connections and a listener: draws are counted up to five but never stop, the counter goes round |
| timers | MCTimers, Timers | the walk (`WalkInv`), no due timer missed, none early or a round late (`OnTime`) | two callbacks, four nodes, time 6: each timer removed and added again in front of and behind the iterator |
| timeout | MCConnTimeout, Timeout | punctual kept, silent closed | timeout exactly heartbeat plus the longest pass, time 12: six timeouts |
| pool | MCThreadPool, Pool | once and in order, no sleep on a task, `delete []` of idle workers, added tasks run | two workers, three tasks, one added by another |
| pool_destory | PoolDestory | violation, section 6 | one worker, one task |

`CHECK_DEADLOCK FALSE` stands where the modelled part really comes to rest:
the stream, the clock or the packet has reached its end, or the pool has been
destroyed.

## 4. Fairness

- ConnLifecycle: `WF(Loop)`. The loop thread is scheduled, its handlers return,
  and `epoll_wait` returns, if only for its timeout. Such a pass handles no
  event, and nothing makes the inactivity timer fire, so neither helps a socket
  whose edge was lost.
- PendingEvents: `WF` of the loop's work, of `epoll_wait` when the wakeup pair
  is ready, and of `Wakeup` of a thread that has pushed: here the timeout would
  hide a lost wakeup, so nothing makes `epoll_wait` return for it.
- SendPath, RecvPath: `WF` of the loop and of the network (the peer reads;
  segments under way arrive). Nothing makes the peer send or close.
- ThreadPool: `WF` of each worker (`run()` returns) and of the steps of
  `Destory` once it is called.
Timers, ConnTimeout, HandleAllocator, Acceptor, HttpConn, PktCodec, LogFile and
BlockClient need no fairness: what they promise are bounds on time and
invariants.

## 5. Proofs

| module | theorems (the run's property in brackets) | from |
|---|---|---|
| ConnLifecycleProofs | `TypeCorrect`, `Lifetimes` (`LifetimeInv`), `EdgesKept` (`NoLostEdge`), `NothingLost` (`NoLeak`, and epoll's interest set is the socket map), `Final` (`ClosedForGood`) | `LifecycleAssumption` and `SafeUse`: outgoing connections are made in the loop thread, a handler closes only its own connection |
| | `FinLast` (`FinAfterData`) | no assumption on use |
| PendingEventsProofs | `TypeCorrect`, `WakeupKept` (`NoLostWakeup`), `PacketsOwned` (`PacketsInv`), `ClosesComeLast` (`SendThenClose`), `MailboxImplemented` (`ImplementsMailbox`) | any number of threads, packets, connections, any size of the wakeup pair |
| StreamProofs | `SentInOrder` (`InOrder`), `QueueNotForgotten` (`QueueInv`); SimpleBuffer's operators as lemmas | any sizes of sends, kernel buffer and `kMaxSendSize` |
| | `PacketsInOrder` (`HandledInOrder`), `NothingWaitsInBuffer` (`BufferInv`), `ClosingLast` (`ClosingIsLast`) | any header length and read size above 0, any number of packets, segments cut anywhere |
| OutsideLoopProofs | `HandlesCorrect`, `AcceptedHandles` (`HandleInv`), `HandlesUnique`, `AcceptedUnique` (`UniqueUntilWrap`), `AcceptImplementsAllocator`, `ClientsAnnounced` (`NoClientForgotten`) | `AllocatorAssumption`, `AcceptorAssumption`: any threads, handles, backlog; the wrap included |
| | `LoggedInDay` (`InDayFile`) | any threads and days |
| | `AnswersAreOwn` (`AnswersMatch`) | any number of requests, packets of any length |
| ThreadPoolProofs | `QueueSafe` (`QueueInv`), `NoWorkerSleepsOnTask` (`NoSleepOnTask`), `DeletedPoolIsIdle` (`DeletedIdle`) | any number of workers and tasks, spurious wakeups |
| TimersProofs | `CallsNeverEarly` | any number of timers, any use |
| | `WalkIsSafe` (`WalkInv`), `PassMissesNone` (`NoneMissed`) | callbacks remove no timer but their own (`~RemoveOthers`) |
| | `TimersOnTime` (`OnTime`) | that, and no interval below `MaxGap` |
| | `PunctualNeverClosed`, `SilentIsClosed` (of ConnTimeout) | the constants are natural numbers, the interval is not 0 |
| PktCodecProofs | `IntegersSurvive`: every integer of every width and sign, not only the edges the run puts, is read as it was written | `CodecAssumption`: `Base` an even number above 2 |
| | `PacketsSurvive` (`ValuesSurvive`), `PacketsAccepted` (`AcceptedIffWhole`), `HeadersAgree` (`HeaderOnWire`) | that, and `ShortPackets(n)`: no packet longer than its 32 bit length can say |
| HttpProofs | `ParserNeverAsserts` (`ParserAsserts`) | any texts of symbols, cut anywhere, any connections, any limits above 2 |
| | `RequestsExact` (`RequestExact`), `RequestsActedOnce` (`ActedOnce`), `RequestsServed` (`RequestServed`) | `AllFit`: what a script says of its text is what the parser makes of it in one piece |

The hypotheses `SafeUse`, `~RemoveOthers` and the bound on intervals say how the
library must be used; section 6 has what fails without each of them.
`ShortPackets(n)` keeps packets below `Base^4` bytes: `m_pos + len` is a 32 bit
sum (byte_stream.h:26), and what happens near the wrap is a hazard of the list, not
something proved away. `AllFit` is about the scripts, which are a constant: a
whole request is not whole one symbol earlier, from its end on the parser has the URL,
body and kind the script names, and a malformed text is no request at its end.
It speaks of the text read at once; the theorems say what follows when it comes
in pieces, between other connections' pieces. It holds for the scripts of
Recv.cfg. The other assumptions are those the modules declare of their constants.

ConnLifecycle. No pointer property is inductive: that `conn_map` holds live
connections depends on who holds references. `IInv` therefore gives both counts
exactly (one reference until `Close`, one for the event in progress, one for the
callback in progress), ties the maps, epoll and `m_handle` together
(`PlaceInv`), and says which events may still be in `events[]` for a connection
just closed (`EventInv`: only the rest of its own event, with the state CLOSING
and no IN). Under `SafeUse` the connection races of section 6 cannot start.
`FinLast` needs another, smaller invariant: a socket gets to PEER_CLOSING only by
a `recv` that returned 0. `EdgesKept` rests on both and on `EdgeInv`: for each
connection with a handle, whatever it has not read or confirmed is announced
by `ready`, by an event taken but not dispatched, or by the read in progress.

PendingEvents. `WakeInv` gives, for each program point of the loop, who will
announce a request in a list: an edge, a poster about to write, or the loop
itself, which drains the pair before it swaps. The ownership part counts the
occurrences of a packet in the lists (`Times`, with lemmas on `Append` and
`Tail`). For the order, `MailInv` compares all lists with the
history of calls: each list keeps it (`Sorted`), what waits in a connection is
ahead of `tmp_pkt_list`, and that ahead of `pkt_list` (`OrderInv`); a close
request that was taken leaves no earlier packet in `pkt_list` (`MarkInv`), because
one critical section swaps both lists. The refinement maps a connection's state
to `Gate` and the place of a packet to `Fate` (unsent, pending, delivered,
dropped); each step of the loop delivers or drops one packet, opens or shuts
one gate, or is a stutter.

SendPath and RecvPath (StreamProofs). `BufOK` and a lemma for each operator of SimpleBuffer say
what it does to what is readable: `Write` appends, `Read` cuts off the front,
`Extend` and `ResetOffset` keep it. With them `SentInOrder` comes from `Runs`: the
peer, the kernel, the rest of a `Send` and `m_out_buf` hold consecutive pieces of
the stream. In RecvPath the three places `m_in_buf`, kernel and flight,
joined, are the packets after the last one handled (`FlowFrom`). That the header
`_ParsePkt` looks at is a header, and the length in it that of its packet,
is a consequence (`FlowHead`), not an assumption. That a packet with a length
that never comes is never handled needs a count: all the peer may still send is
shorter (`FlowBound`), so `FlowFrom` says of any two bytes how many can be
between them (`Apart`).

OutsideLoop. A search looks a handle up in one step and opens it in another,
so that a listener's handle is not taken rests on `ListenersSeen` (what a search
cannot miss) and on `ListenersKept` reaching to sockets already `found`; while
listening begins before there are connections, no search is between the two
when a listener opens. `UniqueUntilWrap` rests on `DrawnInv`: before the wrap every
handle in use or found is below the counter. The accept loop's steps are steps
of the allocator (`AcceptStepsDraw`), so both carry over by the refinement. For
the blocking client the bytes to the server and those from it are two flows
(`InFlow`, `OutFlow`): both in order, with replies older than the requests
under way and younger than what was returned (`FlowInv`), and on a connection
without a failure holding the one request or its reply (`CleanInv`).

ThreadPool. What was pushed to a worker is what it ran, runs, took and has in its
list, joined in this order (`RunsInOrder`); from the test of the list to the
wakeup the list is empty (`SleepInv`), which is why no task is slept on although
`Stop`'s signals can be lost.

Timers. The walk is safe because a callback may remove only the timer it belongs
to, which the iterator has left (`CallbackInv`), and what was due and not yet
called lies ahead of the iterator (`DueInv`). For the precision `ArmedInv` ties
`next_tick` to when the timer was armed and how often it was called, and
`LateInv` to the time of the latest pass.

ConnTimeout. `Fresh` is the argument for punctual peers (a connection without an
event in this pass was heard of within one interval before the pass began),
`Since` and `Visited` that for silent ones (distance from the latest firing, phase by
phase, and what that firing left behind).

PktCodec. An integer's bytes are the digits of a number (`Pow`, `Assemble`), so
that reading assembles what writing took apart; a negative one comes back
because the sum wraps at its width. For whole packets the invariant is where
each field of the body starts (`Laid`): appending a field leaves the fields before it
laid, setters and `WriteHeader` touch only the header's room, and the reader, at
the start of a field, either reads that field or finds too little left. The
buffer itself is reasoned about with SimpleBuffer's lemmas, of StreamProofs.

HttpParser and HttpConn. `ParserInv` says, state by state, what the handlers'
asserts need: `nread` is 1 at the start of a chunk, `content_length` is
neither 0 nor the largest number inside a body, `header_state` fits the header
being read. One lemma for each handler (`...Makes`) shows that it is kept. The other
half is that every read parses all again: a handler reads nothing behind its own
symbol, because the marks lie in what has come, so the parser is the same behind
each symbol both buffers share (`AfterLocal`), and a request that was whole stays so with the
same URL and body (`WholeStays`). Both need induction over the symbols, which is
done on the least symbol of a set (`Climb`), as the library's induction theorem
cannot be used. `HttpInv` then adds what has come of each script
(`ArrivedInv`) and what was answered (`ServedInv`).

Only model-checked: liveness (`PeerGoneClosed`, `EstablishedConfirmed`,
`RequestsHandled`, `AllArrive`, `AllHandled`, `AddedRuns`), because fairness and
ENABLED are out of the prover's reach; and that `AllFit` holds, which is what the
parser computes of given texts: run recv would fail on a script that it reads
otherwise.

## 6. Findings

Runs whose property quotes what the code or its documentation says, and which
TLC refutes by what the code does. PROJECT.json has the lines.

- foreign_reg_list (`RegListAlive`): a connection made by `Connect` in another
  thread and closed by `CloseHandle` before its registration is registered after
  its deletion, because close requests run before the register list.
- early_packet (`HandledOpen`): a server's first packet that is there when
  `connect` is reported to have succeeded is handled before `OnConfirm`, and the
  answer is dropped by `Send`, because an event's read comes before its write.
- pool_destory (`JoinedIsAwake`): both signals of `Stop` can be lost, and
  `Destory` waits for ever.

The passing runs assume a use of the library that avoids other flaws of the
code. TLC shows each with the change in the first column:

| change | what then fails | because |
|---|---|---|
| `Foreign` with an outgoing connection | `ConnMapAlive`, `NoLostEdge` | `Connect` outside the IO thread inserts into `conn_map` (base_conn.cpp:155) after the loop may have closed and deleted the connection, and a close before `m_handle` is assigned does nothing |
| `CloseOthers = TRUE` | `EventPtrAlive` | a handler that closes another connection leaves a pointer to it in `events[]` (event_loop.cpp:362); the kqueue branch avoids just that |
| `RemoveOthers = TRUE` (Timers) | `IteratorAlive` | a callback removes the timer the walk has already moved to (event_loop.cpp:147) |
| an interval below `MaxGap` (Timers) | `Precision` (a half of `OnTime`) | `next_tick` moves by one interval a pass (event_loop.cpp:149): the timer falls behind, then fires in a burst |
| `LateListen = TRUE` (HandleAllocator), `ListenersKept` as an invariant | `ListenersKept` | only the main loop's map is searched for a listener's handle (base_socket.cpp:31): a connection of an IO thread may have it already |
| `Unique` as an invariant of OutsideLoop.cfg, without the premise of `UniqueUntilWrap` | `Unique` | once the counter is negative every draw gives handle 1 (base_socket.cpp:26) |

## 7. What is abstracted, and what is left out

- The epoll branch only; EPOLLPRI is never reported (peers send no urgent data).
- The application closes from `HandlePkt`; what it may do in `OnConfirm` and
  `OnClose` besides is left out.
- A critical section of a mutex is one step. Data races inside `std::map` and
  `std::list` are not modelled; what another thread can see between two
  statements is.
- `recv` returns what is there, up to the size asked for; `send` takes what
  there is room for. The kernel reports room at the latest when its buffer is empty.
- Handles are never reused in ConnLifecycle; HandleAllocator says when that is so.
- Connections of different loops share nothing but the allocator, so one loop is
  modelled. `EventLoop::Stop` and destructors of loops are left out.
- Threads that add tasks have stopped when the pool is deleted.
- A failing `malloc` or `realloc` is left out: the code does not test for it.
- HTTP: responses, `http_parser_parse_url`, `http_parser_pause` and a body that
  ends with the connection, none of which the library uses; `proxy-connection`
  (the same states as `connection`), version numbers above 999, what the header
  callbacks (they do nothing) and `GetContentLen` return. A handler that answers
  later and a client that sends more meanwhile lead to a second call of the
  handler, and a second request in the same buffer is appended to the first one's
  URL: the code expects one request on a connection (http_conn.cpp:39), and
  `ActedOnce` and the scripts keep to that.
- Log: the clock does not go back and `fopen` succeeds (an assert in the code).
- BlockClient: one thread uses the connection. Data of an unsolicited kind is
  not sent by the server.

### Not modelled

- Start-up (`init_thread_event_loops`, `init_thread_base_conn`): one thread in
  program order. Its one interleaving, an append to `loop_list_` of a loop that
  runs already (base_conn.cpp:112), is a data race on a `std::list`, whose outcomes
  cannot be enumerated.
- The kqueue branch: another platform's; it differs in how events find sockets.
- Formatting, string and file helpers, the parser's character tables: they
  keep no state.
- The non-blocking example programs: they use what is modelled.

## 8. Plan

Order of the modules: the most important behaviour first.

1. ConnLifecycle, 2. PendingEvents with Mailbox, 3. SendPath, 4. RecvPath and
SimpleBuffer, 5. ThreadPool, 6. HandleAllocator, 7. Timers, 8. ConnTimeout,
9. PktCodec, 10. HttpParser and HttpConn, 11. Acceptor, 12. BlockClient,
13. LogFile - written.

Next, modelling:

14. A composition of PendingEvents with SendPath: what is posted by handle, down
    to the bytes.
15. A clock with steps for ConnTimeout.

Next, proving:

- A grammar of requests, from which `AllFit` would follow for all of them.
- PktCodec beyond `ShortPackets`: which lengths the wrapped sum lets through.
- What is proved under `SafeUse` and `~RemoveOthers` with weaker hypotheses, part
  by part.
