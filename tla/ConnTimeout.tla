---------------------------- MODULE ConnTimeout ----------------------------
(***************************************************************************)
(* The inactivity timer of connections: one loop thread whose timer of     *)
(* Interval ms makes EventLoop::OnTimer visit every connection, and        *)
(* BaseConn::OnTimer close those not heard of for m_conn_timeout.          *)
(*                                                                         *)
(* Time is explicit.  A pass of the loop sleeps in epoll_wait for at most  *)
(* WaitTimeout, less if there is something to read, and then works for at  *)
(* most MaxBusy, whatever its handlers do.                                 *)
(***************************************************************************)
EXTENDS Integers

CONSTANTS
  Conns,        \* connections
  Punctual,     \* those whose peer sends at least every SendEvery
  SendEvery,    \* the heartbeat interval of those peers
  Timeout,      \* m_conn_timeout
  Interval,     \* of the loop's own timer, 1000
  WaitTimeout,  \* wait_timeout of Start
  MaxBusy,      \* the longest a pass works
  MaxClock       \* bound: the clock stops there

ASSUME TimeoutAssumption ==
  /\ Punctual \subseteq Conns
  /\ SendEvery \in Nat /\ Timeout \in Nat
  /\ Interval \in Nat \ {0} /\ WaitTimeout \in Nat /\ MaxBusy \in Nat /\ MaxClock \in Nat

VARIABLES
  clock,     \* get_tick_count()
  conn,      \* "none", "open", "closed"
  unread,    \* connections with bytes in the kernel
  lastSent,  \* when the peer last sent, or the connection was made
  lastRecv,  \* m_last_recv_tick
  phase,     \* "wait", "events", "sweep", "rest"
  elapsed,   \* how long epoll_wait has slept, or the pass has worked
  batch,     \* events[] still to handle
  loopNextTick,  \* next_tick of the loop's timer
  loopCurrTick,  \* the curr_tick of the latest OnTimer
  sweep      \* connections it has still to visit

connVars == <<conn, unread, lastSent, lastRecv>>
loopVars == <<phase, elapsed, batch, loopNextTick, loopCurrTick, sweep>>
timeoutVars == <<clock, connVars, loopVars>>

IsOpen(c) == conn[c] = "open"

TimeoutInit ==
  /\ clock = 0
  /\ conn = [c \in Conns |-> "none"]
  /\ unread = {}
  /\ lastSent = [c \in Conns |-> 0] /\ lastRecv = [c \in Conns |-> 0]
  /\ phase = "wait" /\ elapsed = 0 /\ batch = {}
  /\ loopNextTick = Interval /\ loopCurrTick = 0 /\ sweep = {}

-----------------------------------------------------------------------------
(***************************************************************************)
(* Time and the peers.                                                     *)
(***************************************************************************)

\* epoll_wait does not sleep on readable sockets nor longer than it may.
MayPass ==
  \/ phase = "wait" /\ unread = {} /\ elapsed < WaitTimeout
  \/ phase # "wait" /\ elapsed < MaxBusy

ClockTick ==
  /\ clock < MaxClock /\ MayPass
  /\ \A c \in Punctual : IsOpen(c) => clock < lastSent[c] + SendEvery
  /\ clock' = clock + 1
  /\ elapsed' = elapsed + 1
  /\ UNCHANGED <<connVars, phase, batch, loopNextTick, loopCurrTick, sweep>>

\* Bytes of the peer arrive.
PeerSends(c) ==
  /\ IsOpen(c)
  /\ unread' = unread \cup {c}
  /\ lastSent' = [lastSent EXCEPT ![c] = clock]
  /\ UNCHANGED <<clock, conn, lastRecv, loopVars>>

-----------------------------------------------------------------------------
(***************************************************************************)
(* The loop thread.                                                        *)
(***************************************************************************)

\* BaseConn's constructor starts the clock of an accepted or connecting
\* connection, in an event or while sockets are registered.
NewConn(c) ==
  /\ phase \in {"events", "rest"} /\ conn[c] = "none"
  /\ conn' = [conn EXCEPT ![c] = "open"]
  /\ lastRecv' = [lastRecv EXCEPT ![c] = clock]
  /\ lastSent' = [lastSent EXCEPT ![c] = clock]
  /\ UNCHANGED <<clock, unread, loopVars>>

EpollReturns ==
  /\ phase = "wait"
  /\ phase' = "events" /\ elapsed' = 0
  /\ batch' = unread
  /\ UNCHANGED <<clock, connVars, loopNextTick, loopCurrTick, sweep>>

Stamp(c) == lastRecv' = [lastRecv EXCEPT ![c] = clock]

\* _RecvData reads all there is and notes the time.
RecvData(c) ==
  /\ phase = "events" /\ c \in batch
  /\ batch' = batch \ {c}
  /\ unread' = unread \ {c}
  /\ Stamp(c)
  /\ UNCHANGED <<clock, conn, lastSent, phase, elapsed, loopNextTick, loopCurrTick, sweep>>

\* As in ConnLifecycle, a definition named ...Faulty is a mutant of the one below.
TimerDueFaulty == clock > loopNextTick + Interval
TimerDue == clock >= loopNextTick

\* _CheckTimer: the timer fires, or not yet.
TimerFires ==
  /\ phase = "events" /\ batch = {} /\ TimerDue
  /\ loopNextTick' = loopNextTick + Interval
  /\ loopCurrTick' = clock
  /\ sweep' = {c \in Conns : IsOpen(c)}
  /\ phase' = "sweep"
  /\ UNCHANGED <<clock, connVars, elapsed, batch>>

TimerWaits ==
  /\ phase = "events" /\ batch = {} /\ ~TimerDue
  /\ phase' = "rest"
  /\ UNCHANGED <<clock, connVars, elapsed, batch, loopNextTick, loopCurrTick, sweep>>

ExpiredFaulty(c) == loopCurrTick > lastRecv[c] + Timeout - 1
Expired(c) == loopCurrTick > lastRecv[c] + Timeout

\* BaseConn::OnTimer; the bytes of a closed connection are lost.
OnTimer(c) ==
  /\ phase = "sweep" /\ c \in sweep
  /\ sweep' = sweep \ {c}
  /\ conn' = IF Expired(c) THEN [conn EXCEPT ![c] = "closed"] ELSE conn
  /\ unread' = IF Expired(c) THEN unread \ {c} ELSE unread
  /\ UNCHANGED <<clock, lastSent, lastRecv, phase, elapsed, batch, loopNextTick, loopCurrTick>>

EndSweep ==
  /\ phase = "sweep" /\ sweep = {}
  /\ phase' = "rest"
  /\ UNCHANGED <<clock, connVars, elapsed, batch, loopNextTick, loopCurrTick, sweep>>

\* _CheckLoop and _RegiterEventList end the pass.
EndPass ==
  /\ phase = "rest"
  /\ phase' = "wait" /\ elapsed' = 0
  /\ UNCHANGED <<clock, connVars, batch, loopNextTick, loopCurrTick, sweep>>

TimeoutNext ==
  \/ ClockTick \/ EpollReturns \/ TimerFires \/ TimerWaits \/ EndSweep \/ EndPass
  \/ \E c \in Conns : PeerSends(c) \/ NewConn(c) \/ RecvData(c) \/ OnTimer(c)

TimeoutSpec == TimeoutInit /\ [][TimeoutNext]_timeoutVars

-----------------------------------------------------------------------------
(***************************************************************************)
(* Properties.                                                             *)
(***************************************************************************)

TimeoutTypeOK ==
  /\ clock \in Nat /\ elapsed \in Nat /\ loopNextTick \in Nat /\ loopCurrTick \in 0..clock
  /\ conn \in [Conns -> {"none", "open", "closed"}]
  /\ unread \in SUBSET Conns /\ batch \in SUBSET Conns /\ sweep \in SUBSET Conns
  /\ lastSent \in [Conns -> 0..clock] /\ lastRecv \in [Conns -> 0..clock]
  /\ phase \in {"wait", "events", "sweep", "rest"}

\* A peer that sends in time is never taken for a silent one, although what it
\* sent may still be unread when the timer looks: as long as a pass of the loop
\* takes no longer than the timeout exceeds the heartbeat interval.
PunctualKept ==
  SendEvery + MaxBusy <= Timeout => \A c \in Punctual : conn[c] # "closed"

\* How long a silent connection can outlive its timeout: the timer may just
\* have passed, and it fires in the first pass that finds it due.
Grace == Interval + WaitTimeout + 2 * MaxBusy

\* A connection not heard of for longer than the timeout and that grace is
\* closed, although the timer falls behind when the loop is slow.
SilentClosed == \A c \in Conns : IsOpen(c) => clock < lastRecv[c] + Timeout + Grace
=============================================================================
