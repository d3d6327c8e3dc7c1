--------------------------- MODULE PendingEvents ---------------------------
(***************************************************************************)
(* SendPkt(handle, pkt) and CloseHandle(handle) from any thread: the two   *)
(* lists of PendingEventMgr, the wakeup socket pair of the EventLoop, the  *)
(* loop callback that runs the lists in the IO thread, and the list of     *)
(* packets a connection keeps until it is confirmed.                       *)
(*                                                                         *)
(* A critical section of PendingEventMgr::mutex is one step.  A packet is  *)
(* an object on the heap: freed counts its deletions.                      *)
(***************************************************************************)
EXTENDS Integers, SequencesExt

CONSTANTS
  Conns,       \* handles of this IO thread
  Outgoing,    \* those made by Connect: open only once confirmed
  Threads,     \* the threads that post
  LoopThread,  \* the IO thread
  Packets,     \* packet objects
  From,        \* From[p]: the thread that sends p, possibly LoopThread
  To,          \* To[p]: the handle it sends p to
  WakeCap,     \* bytes the wakeup socket pair holds
  MaxClose     \* bound: close requests of other threads

ASSUME PendingAssumption ==
  /\ Conns # {} /\ Outgoing \subseteq Conns
  /\ LoopThread \notin Threads
  /\ From \in [Packets -> Threads \cup {LoopThread}]
  /\ To \in [Packets -> Conns]
  /\ WakeCap \in Nat \ {0}
  /\ MaxClose \in Nat

VARIABLES
  pktList,    \* pkt_list
  closeList,  \* close_list: the handle, and how many packets were sent before
  tmpPkts,    \* tmp_pkt_list
  tmpCloses,  \* tmp_close_list
  conn,       \* "none", "waiting" (in conn_map, not open), "open", "closed"
  waitPkts,   \* m_wait_pkt_list of each connection
  freed,      \* how many times each packet was deleted
  poster,     \* "idle", or "pushed": between the push and Wakeup()
  wakeBytes,  \* unread bytes in the wakeup socket pair
  wakeEdge,   \* its read end is on epoll's ready list
  woken,      \* its event is in events[], not handled yet
  pc,         \* the loop: "wait", "events", "flush", "loop", "run", "register"
  cur,        \* the connection OnConfirm is flushing
  \* history
  sent,       \* packets in the order they were sent by handle
  wire,       \* packets given to Send of each open connection
  requests    \* close requests made so far

lists    == <<pktList, closeList, tmpPkts, tmpCloses>>
connVars == <<conn, waitPkts, wire>>
wakeVars == <<wakeBytes, wakeEdge, woken>>
vars == <<lists, connVars, freed, poster, wakeVars, pc, cur, sent, requests>>

Init ==
  /\ pktList = <<>> /\ closeList = <<>> /\ tmpPkts = <<>> /\ tmpCloses = <<>>
  /\ conn = [c \in Conns |-> "none"]
  /\ waitPkts = [c \in Conns |-> <<>>]
  /\ freed = [p \in Packets |-> 0]
  /\ poster = [t \in Threads |-> "idle"]
  /\ wakeBytes = 0 /\ wakeEdge = FALSE /\ woken = FALSE
  /\ pc = "wait"
  /\ cur = CHOOSE c \in Conns : TRUE
  /\ sent = <<>> /\ wire = [c \in Conns |-> <<>>] /\ requests = 0

\* A handle is known to other threads and handlers once its connection exists.
Known(c) == conn[c] # "none"
InMap(c) == conn[c] \in {"waiting", "open"}
Unsent(p) == ~Contains(sent, p)
Times(p, s) == Cardinality({i \in 1..Len(s) : s[i] = p})

-----------------------------------------------------------------------------
(***************************************************************************)
(* The other threads.                                                      *)
(***************************************************************************)

PushPkt(p) == pktList' = Append(pktList, p)

\* SendPkt: push under the lock ...
PostPkt(t, p) ==
  /\ poster[t] = "idle" /\ From[p] = t /\ Unsent(p) /\ Known(To[p])
  /\ PushPkt(p)
  /\ sent' = Append(sent, p)
  /\ poster' = [poster EXCEPT ![t] = "pushed"]
  /\ UNCHANGED <<closeList, tmpPkts, tmpCloses, connVars, freed, wakeVars, pc, cur, requests>>

\* CloseHandle: push under the lock ...
PostClose(t, c) ==
  /\ poster[t] = "idle" /\ requests < MaxClose /\ Known(c)
  /\ closeList' = Append(closeList, [conn |-> c, mark |-> Len(sent)])
  /\ requests' = requests + 1
  /\ poster' = [poster EXCEPT ![t] = "pushed"]
  /\ UNCHANGED <<pktList, tmpPkts, tmpCloses, connVars, freed, wakeVars, pc, cur, sent>>

\* A byte that does not fit is lost, otherwise it raises an edge.
Fits == wakeBytes < WakeCap
\* As in ConnLifecycle, a definition named ...Faulty is a mutant of the one below.
SendWakeByteFaulty == UNCHANGED <<wakeBytes, wakeEdge>>
SendWakeByte ==
  IF Fits THEN wakeBytes' = wakeBytes + 1 /\ wakeEdge' = TRUE
          ELSE UNCHANGED <<wakeBytes, wakeEdge>>

\* ... then Wakeup.
Wakeup(t) ==
  /\ poster[t] = "pushed"
  /\ poster' = [poster EXCEPT ![t] = "idle"]
  /\ SendWakeByte
  /\ UNCHANGED <<woken, lists, connVars, freed, pc, cur, sent, requests>>

-----------------------------------------------------------------------------
(***************************************************************************)
(* The IO thread.                                                          *)
(***************************************************************************)

\* epoll_wait returns, for a wakeup, a socket event or the timeout.
EpollReturns ==
  /\ pc = "wait"
  /\ woken' = wakeEdge
  /\ wakeEdge' = FALSE
  /\ pc' = "events"
  /\ UNCHANGED <<wakeBytes, lists, connVars, freed, poster, cur, sent, requests>>

\* _ReadWakeupData reads until the pair is empty.
ReadWakeupData ==
  /\ pc = "events" /\ woken
  /\ woken' = FALSE
  /\ wakeBytes' = 0
  /\ UNCHANGED <<wakeEdge, lists, connVars, freed, poster, pc, cur, sent, requests>>

DeleteFaulty(p) == UNCHANGED freed
Delete(p) == freed' = [freed EXCEPT ![p] = @ + 1]

HandleFaulty(p) ==
  LET c == To[p] IN
  /\ wire' = IF conn[c] = "open" THEN [wire EXCEPT ![c] = Append(@, p)] ELSE wire
  /\ Delete(p)
  /\ UNCHANGED waitPkts

\* What becomes of a packet in the IO thread: written and deleted, kept until
\* the connection is open, or deleted.
Handle(p) ==
  LET c == To[p] IN
  \/ /\ conn[c] = "open"
     /\ wire' = [wire EXCEPT ![c] = Append(@, p)]
     /\ Delete(p)
     /\ UNCHANGED waitPkts
  \/ /\ conn[c] = "waiting"
     /\ waitPkts' = [waitPkts EXCEPT ![c] = Append(@, p)]
     /\ UNCHANGED <<wire, freed>>
  \/ /\ ~InMap(c)
     /\ Delete(p)
     /\ UNCHANGED <<wire, waitPkts>>

\* SendPkt called by a handler in the IO thread.
SendInLoop(p) ==
  /\ pc = "events" /\ From[p] = LoopThread /\ Unsent(p) /\ Known(To[p])
  /\ sent' = Append(sent, p)
  /\ Handle(p)
  /\ UNCHANGED <<lists, conn, poster, wakeVars, pc, cur, requests>>

\* Connect called by a handler in the IO thread.
Connect(c) ==
  /\ pc = "events" /\ c \in Outgoing /\ conn[c] = "none"
  /\ conn' = [conn EXCEPT ![c] = "waiting"]
  /\ UNCHANGED <<lists, waitPkts, wire, freed, poster, wakeVars, pc, cur, sent, requests>>

\* OnConfirm: the connection is open and its kept packets are sent, in order.
OnConfirm(c) ==
  /\ pc = "events" /\ conn[c] = "waiting"
  /\ conn' = [conn EXCEPT ![c] = "open"]
  /\ cur' = c
  /\ pc' = "flush"
  /\ UNCHANGED <<lists, waitPkts, wire, freed, poster, wakeVars, sent, requests>>

FlushOne ==
  /\ pc = "flush" /\ waitPkts[cur] # <<>>
  /\ wire' = [wire EXCEPT ![cur] = Append(@, Head(waitPkts[cur]))]
  /\ Delete(Head(waitPkts[cur]))
  /\ waitPkts' = [waitPkts EXCEPT ![cur] = Tail(@)]
  /\ UNCHANGED <<lists, conn, poster, wakeVars, pc, cur, sent, requests>>

EndFlush ==
  /\ pc = "flush" /\ waitPkts[cur] = <<>>
  /\ pc' = "events"
  /\ UNCHANGED <<lists, connVars, freed, poster, wakeVars, cur, sent, requests>>

\* ~BaseConn deletes the packets still kept.
FreeWaiting(c) ==
  /\ freed' = [p \in Packets |-> freed[p] + Times(p, waitPkts[c])]
  /\ waitPkts' = [waitPkts EXCEPT ![c] = <<>>]

\* Close gives up the last reference.
Close(c) ==
  /\ conn' = [conn EXCEPT ![c] = "closed"]
  /\ FreeWaiting(c)
  /\ UNCHANGED wire

\* The peer, an error, the inactivity timer or a handler closes a connection.
CloseInLoop(c) ==
  /\ pc = "events" /\ InMap(c)
  /\ Close(c)
  /\ UNCHANGED <<lists, poster, wakeVars, pc, cur, sent, requests>>

EndEvents ==
  /\ pc = "events" /\ ~woken
  /\ pc' = "loop"
  /\ UNCHANGED <<lists, connVars, freed, poster, wakeVars, cur, sent, requests>>

\* loop_callback takes both lists in one critical section ...
SwapLists ==
  /\ pc = "loop"
  /\ tmpPkts' = pktList /\ pktList' = <<>>
  /\ tmpCloses' = closeList /\ closeList' = <<>>
  /\ pc' = "run"
  /\ UNCHANGED <<connVars, freed, poster, wakeVars, cur, sent, requests>>

\* ... handles the packets, in order ...
RunPkt ==
  /\ pc = "run" /\ tmpPkts # <<>>
  /\ Handle(Head(tmpPkts))
  /\ tmpPkts' = Tail(tmpPkts)
  /\ UNCHANGED <<pktList, closeList, tmpCloses, conn, poster, wakeVars, pc, cur, sent, requests>>

PktsDoneFaulty == TRUE
PktsDone == tmpPkts = <<>>
CloseFoundFaulty(c) == conn[c] = "open"
CloseFound(c) == InMap(c)

\* ... and then the close requests.
RunClose ==
  /\ pc = "run" /\ PktsDone /\ tmpCloses # <<>>
  /\ IF CloseFound(Head(tmpCloses).conn)
     THEN Close(Head(tmpCloses).conn)
     ELSE UNCHANGED <<connVars, freed>>
  /\ tmpCloses' = Tail(tmpCloses)
  /\ UNCHANGED <<pktList, closeList, tmpPkts, poster, wakeVars, pc, cur, sent, requests>>

EndLoop ==
  /\ pc = "run" /\ tmpPkts = <<>> /\ tmpCloses = <<>>
  /\ pc' = "register"
  /\ UNCHANGED <<lists, connVars, freed, poster, wakeVars, cur, sent, requests>>

\* _RegiterEventList: an accepted connection enters conn_map, open.
RegisterAccepted(c) ==
  /\ pc = "register" /\ c \notin Outgoing /\ conn[c] = "none"
  /\ conn' = [conn EXCEPT ![c] = "open"]
  /\ UNCHANGED <<lists, waitPkts, wire, freed, poster, wakeVars, pc, cur, sent, requests>>

EndRegister ==
  /\ pc = "register"
  /\ pc' = "wait"
  /\ UNCHANGED <<lists, connVars, freed, poster, wakeVars, cur, sent, requests>>

LoopWork ==
  \/ ReadWakeupData \/ EndEvents \/ FlushOne \/ EndFlush
  \/ SwapLists \/ RunPkt \/ RunClose \/ EndLoop \/ EndRegister

Handlers ==
  \/ \E p \in Packets : SendInLoop(p)
  \/ \E c \in Conns : Connect(c) \/ OnConfirm(c) \/ CloseInLoop(c) \/ RegisterAccepted(c)

Posters ==
  \E t \in Threads :
    \/ \E p \in Packets : PostPkt(t, p)
    \/ \E c \in Conns : PostClose(t, c)
    \/ Wakeup(t)

Next == EpollReturns \/ LoopWork \/ Handlers \/ Posters

Spec == Init /\ [][Next]_vars

\* The IO thread runs when it has something to run and epoll_wait returns when
\* the wakeup pair is on the ready list; a thread that pushed calls Wakeup.
\* Nothing is assumed of the timeout or of socket events.
FairSpec ==
  /\ Spec
  /\ WF_vars(LoopWork)
  /\ WF_vars(EpollReturns /\ wakeEdge)
  /\ \A t \in Threads : WF_vars(Wakeup(t))

-----------------------------------------------------------------------------
(***************************************************************************)
(* Properties.                                                             *)
(***************************************************************************)

Requests == [conn : Conns, mark : Nat]

TypeOK ==
  /\ pktList \in Seq(Packets) /\ tmpPkts \in Seq(Packets) /\ sent \in Seq(Packets)
  /\ closeList \in Seq(Requests) /\ tmpCloses \in Seq(Requests)
  /\ conn \in [Conns -> {"none", "waiting", "open", "closed"}]
  /\ waitPkts \in [Conns -> Seq(Packets)] /\ wire \in [Conns -> Seq(Packets)]
  /\ freed \in [Packets -> Nat]
  /\ poster \in [Threads -> {"idle", "pushed"}]
  /\ wakeBytes \in 0..WakeCap /\ wakeEdge \in BOOLEAN /\ woken \in BOOLEAN
  /\ pc \in {"wait", "events", "flush", "loop", "run", "register"}
  /\ cur \in Conns /\ requests \in 0..MaxClose

\* Who has to delete a packet: the list it is in.  From the moment it is sent
\* it is in exactly one list, or has been deleted exactly once.
OwnedOnce ==
  \A p \in Packets :
    LET held == Times(p, pktList) + Times(p, tmpPkts) + Times(p, waitPkts[To[p]])
    IN  freed[p] + held = IF Unsent(p) THEN 0 ELSE 1

\* Packets wait only in a connection that is still to be confirmed (or whose
\* confirmation is sending them right now): none is stranded.
WaitingIsTemporary ==
  \A c \in Conns : waitPkts[c] # <<>> => conn[c] = "waiting" \/ (pc = "flush" /\ cur = c)

\* Every packet is in one place until it is deleted, and stays in none for good.
PacketsInv == OwnedOnce /\ WaitingIsTemporary

\* The loop does not go to sleep on work: whenever it is in epoll_wait with a
\* request in a list, the wakeup pair is ready or a poster is about to wake it.
NoLostWakeup ==
  pc = "wait" /\ (pktList # <<>> \/ closeList # <<>>)
    => wakeEdge \/ \E t \in Threads : poster[t] = "pushed"

\* A close request does not overtake packets sent before it, by any thread:
\* when it closes the connection none of them is still in a list.
SendThenClose ==
  [][\A c \in Conns :
       pc = "run" /\ conn[c] = "open" /\ conn'[c] = "closed"
       => \A i \in 1..Head(tmpCloses).mark :
            To[sent[i]] = c => freed[sent[i]] = 1]_vars

\* What is sent by handle leaves the lists: written, kept for a confirmation,
\* or deleted - by wakeups alone, without the timeout of epoll_wait.
PktsHandled ==
  \A p \in Packets : Contains(pktList, p) ~> ~(Contains(pktList, p) \/ Contains(tmpPkts, p))

\* A close request closes a connection that is in conn_map.
ClosesHandled ==
  \A c \in Conns :
    (InMap(c) /\ \E i \in 1..Len(closeList) : closeList[i].conn = c) ~> conn[c] = "closed"

\* What other threads ask of the IO thread is done.
RequestsHandled == PktsHandled /\ ClosesHandled

\* What a sender can tell of a connection and of a packet.
Gate ==
  [c \in Conns |-> CASE conn[c] = "open" -> "open"
                     [] conn[c] = "closed" -> "gone"
                     [] OTHER -> "shut"]

Fate ==
  [p \in Packets |-> IF Unsent(p) THEN "unsent"
                     ELSE IF freed[p] = 0 THEN "pending"
                     ELSE IF Contains(wire[To[p]], p) THEN "delivered" ELSE "dropped"]

Mbox == INSTANCE Mailbox WITH gate <- Gate, fate <- Fate

\* The lists, the wakeup and the wait list implement the promise of Mailbox.
ImplementsMailbox == Mbox!Spec
=============================================================================
