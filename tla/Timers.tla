------------------------------- MODULE Timers -------------------------------
(***************************************************************************)
(* EventLoop's timer list: AddTimer and RemoveTimer called by handlers     *)
(* between two passes and by the timer callbacks themselves, while         *)
(* _CheckTimer is walking the list with an iterator.                       *)
(*                                                                         *)
(* A node of the list is a heap object of its own: a timer removed and     *)
(* added again is another node.                                            *)
(***************************************************************************)
EXTENDS Integers, SequencesExt

CONSTANTS
  Callbacks,     \* pairs of callback and user data
  Intervals,     \* the intervals they are added with
  MaxGap,        \* the longest time between two passes: wait_timeout and work
  RemoveOthers,  \* TRUE: a callback may remove the timer of another one
  MaxNodes,      \* bound: timers ever created
  MaxTime        \* bound: the clock stops there

ASSUME TimersAssumption ==
  /\ Callbacks # {} /\ Intervals \subseteq Nat \ {0}
  /\ MaxGap \in Nat /\ MaxNodes \in Nat /\ MaxTime \in Nat
  /\ RemoveOthers \in BOOLEAN

Nodes == 1..MaxNodes
End   == 0            \* list<TimerItem*>::end()

VARIABLES
  list,      \* timer_list_: nodes in order
  cb, interval, nextTick,  \* the fields of each node
  created,   \* nodes created so far
  now,       \* get_tick_count()
  gap,       \* time since the latest pass began
  pc,        \* "idle", "check" in _CheckTimer, "callback"
  it,        \* its iterator
  cur,       \* the node whose callback runs
  currTick,
  \* history
  armed,     \* when each node was last given its interval
  calls,     \* how often it was called since then
  due        \* nodes due when the pass began and not dealt with yet

nodeVars == <<list, cb, interval, nextTick, created, armed>>
vars == <<nodeVars, now, gap, pc, it, cur, currTick, calls, due>>

Init ==
  /\ list = <<>> /\ created = 0
  /\ cb = [n \in Nodes |-> CHOOSE k \in Callbacks : TRUE]
  /\ interval = [n \in Nodes |-> 0] /\ nextTick = [n \in Nodes |-> 0]
  /\ armed = [n \in Nodes |-> 0] /\ calls = [n \in Nodes |-> 0]
  /\ now = 0 /\ gap = 0 /\ currTick = 0
  /\ pc = "idle" /\ it = End /\ cur = End /\ due = {}

Listed(n) == Contains(list, n)
Has(k)    == {n \in Nodes : Listed(n) /\ cb[n] = k}

Tick ==
  /\ pc # "check" /\ now < MaxTime /\ gap < MaxGap
  /\ now' = now + 1 /\ gap' = gap + 1
  /\ UNCHANGED <<nodeVars, pc, it, cur, currTick, calls, due>>

-----------------------------------------------------------------------------
(***************************************************************************)
(* AddTimer and RemoveTimer.                                               *)
(***************************************************************************)

\* Handlers call them between passes, callbacks while they run.
MayCall == pc \in {"idle", "callback"}

Arm(n, d) ==
  /\ interval' = [interval EXCEPT ![n] = d]
  /\ nextTick' = [nextTick EXCEPT ![n] = now + d]
  /\ armed' = [armed EXCEPT ![n] = now]
  /\ calls' = [calls EXCEPT ![n] = 0]
  /\ due' = due \ {n}

\* A timer already there is only given its new interval.
AddAgain(k, d) ==
  /\ MayCall
  /\ \E n \in Has(k) : Arm(n, d)
  /\ UNCHANGED <<list, cb, created, now, gap, pc, it, cur, currTick>>

Absent(k) == Has(k) = {}

AddNew(k, d) ==
  /\ MayCall /\ Absent(k) /\ created < MaxNodes
  /\ created' = created + 1
  /\ list' = Append(list, created')
  /\ cb' = [cb EXCEPT ![created'] = k]
  /\ Arm(created', d)
  /\ UNCHANGED <<now, gap, pc, it, cur, currTick>>

AddTimer(k, d) == AddAgain(k, d) \/ AddNew(k, d)

\* Off the list and deleted; what the fields held is gone.
RemoveTimer(k) ==
  /\ MayCall
  /\ pc = "callback" => RemoveOthers \/ k = cb[cur]
  /\ \E i \in 1..Len(list) : LET n == list[i] IN
       /\ cb[n] = k
       /\ list' = RemoveAt(list, i)
       /\ interval' = [interval EXCEPT ![n] = 0]
       /\ nextTick' = [nextTick EXCEPT ![n] = 0]
       /\ armed' = [armed EXCEPT ![n] = 0]
       /\ calls' = [calls EXCEPT ![n] = 0]
       /\ due' = due \ {n}
  /\ UNCHANGED <<cb, created, now, gap, pc, it, cur, currTick>>

-----------------------------------------------------------------------------
(***************************************************************************)
(* _CheckTimer.                                                            *)
(***************************************************************************)

First == IF list = <<>> THEN End ELSE Head(list)

\* it++
Successor(n) ==
  LET i == CHOOSE j \in 1..Len(list) : list[j] = n
  IN  IF i = Len(list) THEN End ELSE list[i + 1]

StartCheck ==
  /\ pc = "idle"
  /\ pc' = "check" /\ gap' = 0
  /\ currTick' = now
  /\ it' = First
  /\ due' = {n \in Nodes : Listed(n) /\ now >= nextTick[n]}
  /\ UNCHANGED <<nodeVars, now, cur, calls>>

\* As in ConnLifecycle, a definition named ...Faulty is a mutant of the one below.
LateAdvanceFaulty(n) == it' = IF currTick >= nextTick[n] THEN n ELSE Successor(n)
SkipFaulty(n) == it' = IF Successor(n) = End THEN End ELSE Successor(Successor(n))
\* The iterator moves on before the callback runs.
Advance(n) == it' = Successor(n)

Due(n) == currTick >= nextTick[n]

PassOver(n) ==
  /\ pc = "check" /\ it = n /\ Listed(n)
  /\ ~Due(n)
  /\ Advance(n)
  /\ UNCHANGED <<nodeVars, now, gap, pc, cur, currTick, calls, due>>

RearmFaulty(n) == UNCHANGED nextTick
Rearm(n) == nextTick' = [nextTick EXCEPT ![n] = @ + interval[n]]

Fire(n) ==
  /\ pc = "check" /\ it = n /\ Listed(n)
  /\ Due(n)
  /\ Advance(n)
  /\ Rearm(n)
  /\ cur' = n /\ pc' = "callback"
  /\ calls' = [calls EXCEPT ![n] = @ + 1]
  /\ due' = due \ {n}
  /\ UNCHANGED <<list, cb, interval, created, armed, now, gap, currTick>>

EndCallback ==
  /\ pc = "callback"
  /\ pc' = "check" /\ cur' = End
  /\ UNCHANGED <<nodeVars, now, gap, it, currTick, calls, due>>

EndCheck ==
  /\ pc = "check" /\ it = End
  /\ pc' = "idle"
  /\ UNCHANGED <<nodeVars, now, gap, it, cur, currTick, calls, due>>

Next ==
  \/ Tick \/ StartCheck \/ EndCallback \/ EndCheck
  \/ \E n \in Nodes : PassOver(n) \/ Fire(n)
  \/ \E k \in Callbacks : RemoveTimer(k) \/ \E d \in Intervals : AddTimer(k, d)

Spec == Init /\ [][Next]_vars

-----------------------------------------------------------------------------
(***************************************************************************)
(* Properties.                                                             *)
(***************************************************************************)

\* Types, and AddTimer's search: one node at most for a callback.
TypeOK ==
  /\ list \in Seq(1..created) /\ created \in 0..MaxNodes
  /\ \A i, j \in 1..Len(list) : i # j => cb[list[i]] # cb[list[j]]
  /\ cb \in [Nodes -> Callbacks] /\ interval \in [Nodes -> Intervals \cup {0}]
  /\ nextTick \in [Nodes -> Nat] /\ armed \in [Nodes -> 0..now] /\ calls \in [Nodes -> Nat]
  /\ now \in Nat /\ gap \in 0..MaxGap /\ currTick \in 0..now
  /\ pc \in {"idle", "check", "callback"}
  /\ it \in Nodes \cup {End} /\ cur \in Nodes \cup {End} /\ due \in SUBSET Nodes

\* The iterator of the walk never points to a deleted node, whatever the
\* callback did to the list.
IteratorAlive == pc # "idle" /\ it # End => Listed(it)

\* The list and the walk on it.
WalkInv == TypeOK /\ IteratorAlive

\* A timer is not called more often than the time since it was added allows.
NeverEarly == \A n \in Nodes : Listed(n) => calls[n] * interval[n] <= now - armed[n]

\* A pass calls every timer that was due when it began, unless a callback of
\* the same pass removed it or added it anew: no change of the list makes the
\* walk miss one.
NoneMissed == [][EndCheck => due = {}]_vars

\* "The precision of the timer is the wait_timeout of Start": no timer gets
\* later than one round of the loop.
Precision == pc = "idle" => \A n \in Nodes : Listed(n) => now <= nextTick[n] + MaxGap

\* A timer keeps to its interval, neither ahead of it nor behind.
OnTime == NeverEarly /\ Precision
=============================================================================
