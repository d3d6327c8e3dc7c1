----------------------------- MODULE ThreadPool -----------------------------
(***************************************************************************)
(* The pool of work threads: AddTask from any thread, and from the tasks   *)
(* themselves, one list, mutex and condition variable per WorkerThread,    *)
(* and Destory, whose Stop() sets m_stop and signals without the mutex.    *)
(*                                                                         *)
(* PushTask is one step, its critical section; a worker holds its own      *)
(* mutex exactly while it is at "test" or "towait".                        *)
(***************************************************************************)
EXTENDS Integers, SequencesExt

CONSTANTS
  ThreadNum,  \* m_thread_num
  Tasks,      \* Task objects
  Parent,     \* Parent[k]: the task whose run() adds k, or None
  None

ASSUME PoolAssumption ==
  /\ ThreadNum \in Nat \ {0}
  /\ None \notin Tasks
  /\ Parent \in [Tasks -> Tasks \cup {None}]

Workers == 0..(ThreadNum - 1)

VARIABLES
  list,     \* m_task_list of each worker
  taken,    \* its tmp_task_list
  running,  \* the task whose run() it is in, or None
  stop,     \* m_stop
  pc,       \* "check", "lock", "test", "towait", "wait", "run", "done"
  lost,     \* tasks AddTask(task, idx) returned without adding
  main,     \* Destory: "idle", "stop", "signal", "stop2", "signal2", "join", "deleted"
  idx,      \* its loop variable
  \* history
  added,    \* tasks pushed to each worker, in order
  ran       \* tasks each worker has run and deleted, in order

poolVars == <<list, taken, running, stop, pc>>
vars == <<poolVars, lost, main, idx, added, ran>>

Init ==
  /\ list = [w \in Workers |-> <<>>] /\ taken = [w \in Workers |-> <<>>]
  /\ running = [w \in Workers |-> None]
  /\ stop = [w \in Workers |-> FALSE]
  /\ pc = [w \in Workers |-> "check"]
  /\ lost = {} /\ main = "idle" /\ idx = 0
  /\ added = [w \in Workers |-> <<>>] /\ ran = [w \in Workers |-> <<>>]

Holds(w) == pc[w] \in {"test", "towait"}
IsNew(k) == k \notin lost /\ \A w \in Workers : ~Contains(added[w], k)

\* k's creator: a thread of the application, or a task that is running.
CanAdd(k) == IsNew(k) /\ (Parent[k] = None \/ \E w \in Workers : running[w] = Parent[k])

\* pthread_cond_signal: a waiting thread has to get the mutex again.
SignalFaulty(w) == pc' = pc
Signal(w) == pc' = IF pc[w] = "wait" THEN [pc EXCEPT ![w] = "lock"] ELSE pc

-----------------------------------------------------------------------------
(***************************************************************************)
(* Any thread, until the pool is deleted.                                  *)
(***************************************************************************)

\* Both AddTask, one with an index drawn by random(); PushTask.
AddTask(k, w) ==
  /\ CanAdd(k) /\ main # "deleted" /\ ~Holds(w)
  /\ list' = [list EXCEPT ![w] = Append(@, k)]
  /\ added' = [added EXCEPT ![w] = Append(@, k)]
  /\ Signal(w)
  /\ UNCHANGED <<taken, running, stop, lost, main, idx, ran>>

\* AddTask with an index that is no thread's returns, and nobody owns the task.
AddTaskBadIndex(k) ==
  /\ CanAdd(k) /\ main # "deleted"
  /\ lost' = lost \cup {k}
  /\ UNCHANGED <<poolVars, main, idx, added, ran>>

-----------------------------------------------------------------------------
(***************************************************************************)
(* WorkerThread::Execute.                                                  *)
(***************************************************************************)

At(w, from, to) == pc[w] = from /\ pc' = [pc EXCEPT ![w] = to]

CheckStop(w) ==
  /\ At(w, "check", IF stop[w] THEN "done" ELSE "lock")
  /\ UNCHANGED <<list, taken, running, stop, lost, main, idx, added, ran>>

Lock(w) ==
  /\ At(w, "lock", "test")
  /\ UNCHANGED <<list, taken, running, stop, lost, main, idx, added, ran>>

MustWaitFaulty(w) == ~stop[w]
MustWait(w) == list[w] = <<>> /\ ~stop[w]

\* The condition of the inner while, m_stop read without any protection.
Test(w) ==
  /\ MustWait(w)
  /\ At(w, "test", "towait")
  /\ UNCHANGED <<list, taken, running, stop, lost, main, idx, added, ran>>

\* pthread_cond_wait gives the mutex back and waits, in one step.
Wait(w) ==
  /\ At(w, "towait", "wait")
  /\ UNCHANGED <<list, taken, running, stop, lost, main, idx, added, ran>>

SpuriousWakeup(w) ==
  /\ At(w, "wait", "lock")
  /\ UNCHANGED <<list, taken, running, stop, lost, main, idx, added, ran>>

TakeListFaulty(w) == taken' = [taken EXCEPT ![w] = list[w]] /\ UNCHANGED list
TakeList(w) ==
  /\ taken' = [taken EXCEPT ![w] = list[w]]
  /\ list' = [list EXCEPT ![w] = <<>>]

\* Out of the inner while: swap the lists and unlock.
Swap(w) ==
  /\ ~MustWait(w)
  /\ At(w, "test", "run")
  /\ TakeList(w)
  /\ UNCHANGED <<running, stop, lost, main, idx, added, ran>>

StartTask(w) ==
  /\ pc[w] = "run" /\ running[w] = None /\ taken[w] # <<>>
  /\ running' = [running EXCEPT ![w] = Head(taken[w])]
  /\ taken' = [taken EXCEPT ![w] = Tail(@)]
  /\ UNCHANGED <<list, stop, pc, lost, main, idx, added, ran>>

\* run() returns and the task is deleted.
EndTask(w) ==
  /\ pc[w] = "run" /\ running[w] # None
  /\ ran' = [ran EXCEPT ![w] = Append(@, running[w])]
  /\ running' = [running EXCEPT ![w] = None]
  /\ UNCHANGED <<list, taken, stop, pc, lost, main, idx, added>>

EndRun(w) ==
  /\ running[w] = None /\ taken[w] = <<>>
  /\ At(w, "run", "check")
  /\ UNCHANGED <<list, taken, running, stop, lost, main, idx, added, ran>>

WorkerStep(w) ==
  \/ CheckStop(w) \/ Lock(w) \/ Test(w) \/ Wait(w) \/ Swap(w)
  \/ StartTask(w) \/ EndTask(w) \/ EndRun(w)

-----------------------------------------------------------------------------
(***************************************************************************)
(* Destory: Stop every worker, then Stop and join one after the other.     *)
(***************************************************************************)

Destory ==
  /\ main = "idle"
  /\ main' = "stop" /\ idx' = 0
  /\ UNCHANGED <<poolVars, lost, added, ran>>

\* Stop(): m_stop = true, then Signal(), neither under the mutex.
StopStore ==
  /\ \/ main = "stop" /\ main' = "signal"
     \/ main = "stop2" /\ main' = "signal2"
  /\ stop' = [stop EXCEPT ![idx] = TRUE]
  /\ UNCHANGED <<list, taken, running, pc, lost, idx, added, ran>>

IsLast == idx = ThreadNum - 1

StopSignal ==
  /\ \/ /\ main = "signal"
        /\ main' = IF IsLast THEN "stop2" ELSE "stop"
        /\ idx' = IF IsLast THEN 0 ELSE idx + 1
     \/ /\ main = "signal2" /\ main' = "join" /\ UNCHANGED idx
  /\ Signal(idx)
  /\ UNCHANGED <<list, taken, running, stop, lost, added, ran>>

CanJoinFaulty == TRUE
CanJoin == pc[idx] = "done"

\* pthread_join, and delete [] after the last one.
Join ==
  /\ main = "join" /\ CanJoin
  /\ main' = IF IsLast THEN "deleted" ELSE "stop2"
  /\ idx' = IF IsLast THEN idx ELSE idx + 1
  /\ UNCHANGED <<poolVars, lost, added, ran>>

DestoryStep == StopStore \/ StopSignal \/ Join

Next ==
  \/ \E k \in Tasks : AddTaskBadIndex(k) \/ \E w \in Workers : AddTask(k, w)
  \/ \E w \in Workers : WorkerStep(w) \/ SpuriousWakeup(w)
  \/ Destory \/ DestoryStep

Spec == Init /\ [][Next]_vars

\* Every thread is scheduled and every run() returns; nothing is assumed of
\* spurious wakeups, of the threads that add tasks or of a call of Destory.
FairSpec ==
  /\ Spec
  /\ \A w \in Workers : WF_vars(WorkerStep(w))
  /\ WF_vars(DestoryStep)

-----------------------------------------------------------------------------
(***************************************************************************)
(* Properties.                                                             *)
(***************************************************************************)

TypeOK ==
  /\ list \in [Workers -> Seq(Tasks)] /\ taken \in [Workers -> Seq(Tasks)]
  /\ added \in [Workers -> Seq(Tasks)] /\ ran \in [Workers -> Seq(Tasks)]
  /\ running \in [Workers -> Tasks \cup {None}]
  /\ stop \in [Workers -> BOOLEAN]
  /\ pc \in [Workers -> {"check", "lock", "test", "towait", "wait", "run", "done"}]
  /\ lost \in SUBSET Tasks
  /\ main \in {"idle", "stop", "signal", "stop2", "signal2", "join", "deleted"}
  /\ idx \in Workers

\* A worker runs what was pushed to it in the order of PushTask, each task
\* once, and nothing gets lost between the list, the swap and run().
RunsInOrder ==
  \A w \in Workers :
    added[w] = ran[w] \o (IF running[w] = None THEN <<>> ELSE <<running[w]>>)
                      \o taken[w] \o list[w]

\* The queues of the workers: types and contents.
QueueInv == TypeOK /\ RunsInOrder

\* No worker sleeps on a task, whatever the order of PushTask, spurious
\* wakeups and the unprotected signals of Stop.
NoSleepOnTask == \A w \in Workers : pc[w] = "wait" => list[w] = <<>>

\* delete [] frees no worker that could still use its mutex and lists: a
\* task that adds tasks to another, already joined worker included.
DeletedIdle ==
  main = "deleted" =>
    \A w \in Workers : pc[w] = "done" /\ running[w] = None /\ taken[w] = <<>>

\* A task is run unless its worker is stopped before it gets to it.
AddedRuns ==
  \A k \in Tasks, w \in Workers :
    Contains(added[w], k) ~> Contains(ran[w], k) \/ stop[w]

\* The signal of Stop is not lost: while Destory waits in pthread_join, the
\* worker it waits for is not asleep.
JoinedIsAwake == main = "join" => pc[idx] # "wait"
=============================================================================
