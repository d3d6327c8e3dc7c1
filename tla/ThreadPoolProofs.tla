-------------------------- MODULE ThreadPoolProofs --------------------------
(***************************************************************************)
(* The order of the tasks, no worker asleep on a task, and no worker left  *)
(* when the pool is freed, for any number of workers and tasks.            *)
(***************************************************************************)
EXTENDS ThreadPool, SequenceTheorems, TLAPS

-----------------------------------------------------------------------------
(***************************************************************************)
(* A worker's tasks in four pieces: run, running, taken and listed.        *)
(***************************************************************************)

Current(w) == IF running[w] = None THEN <<>> ELSE <<running[w]>>
Pieces(s, t, u, v) == s \o t \o u \o v
Push(s, k) == Append(s, k)

\* A task pushed to the last piece is pushed to the whole.
LEMMA PiecesPush ==
  ASSUME NEW S, NEW s \in Seq(S), NEW t \in Seq(S), NEW u \in Seq(S), NEW v \in Seq(S), NEW k \in S
  PROVE  Push(Pieces(s, t, u, v), k) = Pieces(s, t, u, Push(v, k))
<1>. DEFINE a == s \o t \o u
<1>1. a \in Seq(S) /\ <<k>> \in Seq(S)
  BY ConcatProperties
<1>2. Append(a \o v, k) = (a \o v) \o <<k>>
  BY <1>1, ConcatProperties, AppendIsConcat
<1>3. (a \o v) \o <<k>> = a \o (v \o <<k>>)
  BY <1>1, ConcatAssociative
<1>4. v \o <<k>> = Append(v, k)
  BY AppendIsConcat
<1>. QED  BY <1>2, <1>3, <1>4 DEF Pieces, Push

\* The swap of an empty temporary list with m_task_list moves no task.
LEMMA PiecesSwap ==
  ASSUME NEW S, NEW s \in Seq(S), NEW t \in Seq(S), NEW v \in Seq(S)
  PROVE  Pieces(s, t, <<>>, v) = Pieces(s, t, v, <<>>)
<1>1. s \o t \in Seq(S) /\ (s \o t) \o v \in Seq(S)
  BY ConcatProperties
<1>2. (s \o t) \o <<>> = s \o t /\ ((s \o t) \o v) \o <<>> = (s \o t) \o v
  BY <1>1, ConcatEmptySeq
<1>. QED  BY <1>2 DEF Pieces

\* The head of the temporary list becomes the running task ...
LEMMA PiecesStart ==
  ASSUME NEW S, NEW s \in Seq(S), NEW u \in Seq(S), u # <<>>, NEW v \in Seq(S)
  PROVE  Pieces(s, <<>>, u, v) = Pieces(s, <<Head(u)>>, Tail(u), v)
<1>1. /\ Head(u) \in S /\ Tail(u) \in Seq(S) /\ Len(Tail(u)) = Len(u) - 1
      /\ \A i \in 1..Len(Tail(u)) : Tail(u)[i] = u[i + 1]
      /\ Len(u) \in Nat \ {0} /\ Head(u) = u[1]
  BY HeadTailProperties, EmptySeq
<1>2. <<Head(u)>> \in Seq(S) /\ Len(<<Head(u)>>) = 1 /\ <<Head(u)>>[1] = Head(u)
  BY <1>1
<1>3. <<Head(u)>> \o Tail(u) = u
  <2>1. /\ <<Head(u)>> \o Tail(u) \in Seq(S) /\ Len(<<Head(u)>> \o Tail(u)) = Len(u)
        /\ \A i \in 1..Len(u) : (<<Head(u)>> \o Tail(u))[i]
                                  = IF i <= 1 THEN <<Head(u)>>[i] ELSE Tail(u)[i - 1]
    BY <1>1, <1>2, ConcatProperties
  <2>2. ASSUME NEW i \in 1..Len(u)
        PROVE  (<<Head(u)>> \o Tail(u))[i] = u[i]
    <3>1. CASE i = 1
      BY <1>1, <1>2, <2>1, <3>1
    <3>2. CASE i # 1
      <4>1. i - 1 \in 1..Len(Tail(u)) /\ (i - 1) + 1 = i /\ ~(i <= 1)
        BY <1>1, <3>2
      <4>. QED  BY <1>1, <2>1, <4>1
    <3>. QED  BY <3>1, <3>2
  <2>. QED  BY <2>1, <2>2, SeqEqual
<1>4. s \o <<>> = s /\ (s \o <<Head(u)>>) \o Tail(u) = s \o (<<Head(u)>> \o Tail(u))
  BY <1>1, <1>2, ConcatEmptySeq, ConcatAssociative
<1>. QED  BY <1>3, <1>4 DEF Pieces

\* ... and then the last one that was run.
LEMMA PiecesEnd ==
  ASSUME NEW S, NEW s \in Seq(S), NEW k \in S, NEW u, NEW v
  PROVE  Pieces(s, <<k>>, u, v) = Pieces(Append(s, k), <<>>, u, v)
<1>1. s \o <<k>> = Append(s, k) /\ Append(s, k) \in Seq(S)
  BY AppendIsConcat, AppendProperties
<1>2. Append(s, k) \o <<>> = Append(s, k)
  BY <1>1, ConcatEmptySeq
<1>. QED  BY <1>1, <1>2 DEF Pieces

-----------------------------------------------------------------------------
(***************************************************************************)
(* The inductive invariant.                                                *)
(***************************************************************************)

\* A worker has tasks in hand only in its run loop.
IdleInv == \A w \in Workers : pc[w] # "run" => running[w] = None /\ taken[w] = <<>>

\* From the test of the inner while to the wakeup the list is empty: until
\* the wait begins nobody gets the mutex, and afterwards a push wakes.
SleepInv == \A w \in Workers : pc[w] \in {"towait", "wait"} => list[w] = <<>>

\* Destory has joined the workers in front of its loop variable.
JoinedInv ==
  \A w \in Workers :
    main = "deleted" \/ (main \in {"stop2", "signal2", "join"} /\ w < idx) => pc[w] = "done"

IInv == TypeOK /\ RunsInOrder /\ IdleInv /\ SleepInv /\ JoinedInv

\* What Signal does to a worker: only a waiting one changes.
LEMMA SignalStep ==
  ASSUME NEW w \in Workers, Signal(w), TypeOK
  PROVE  /\ pc' \in [Workers -> {"check", "lock", "test", "towait", "wait", "run", "done"}]
         /\ \A v \in Workers : pc'[v] = IF v = w /\ pc[v] = "wait" THEN "lock" ELSE pc[v]
BY DEF Signal, TypeOK

\* And what the worker's own steps do to it.
LEMMA AtStep ==
  ASSUME NEW w \in Workers, NEW from, NEW to, At(w, from, to), TypeOK,
         to \in {"check", "lock", "test", "towait", "wait", "run", "done"}
  PROVE  /\ pc' \in [Workers -> {"check", "lock", "test", "towait", "wait", "run", "done"}]
         /\ pc[w] = from
         /\ \A v \in Workers : pc'[v] = IF v = w THEN to ELSE pc[v]
BY DEF At, TypeOK

\* The invariant holds at first.
LEMMA InitInv == Init => IInv
<1>. SUFFICES ASSUME Init PROVE IInv
  OBVIOUS
<1>1. <<>> \in Seq(Tasks) /\ 0 \in Workers
  BY PoolAssumption, EmptySeq DEF Workers
<1>2. TypeOK
  BY <1>1 DEF Init, TypeOK
<1>3. RunsInOrder
  <2>1. <<>> \o <<>> = <<>>
    BY <1>1, ConcatEmptySeq
  <2>. QED  BY <2>1 DEF Init, RunsInOrder
<1>. QED  BY <1>2, <1>3 DEF Init, IInv, IdleInv, SleepInv, JoinedInv

\* A step that moves a worker from one place to another and touches no task.
LEMMA MoveStep ==
  ASSUME IInv, NEW w \in Workers, NEW from, NEW to, At(w, from, to),
         to \in {"check", "lock", "test", "towait", "wait", "run", "done"},
         from # "done",
         to # "run" => from # "run" \/ (running[w] = None /\ taken[w] = <<>>),
         to \in {"towait", "wait"} => list[w] = <<>>,
         UNCHANGED <<list, taken, running, stop, lost, main, idx, added, ran>>
  PROVE  IInv'
<1>1. /\ pc' \in [Workers -> {"check", "lock", "test", "towait", "wait", "run", "done"}]
      /\ pc[w] = from
      /\ \A v \in Workers : pc'[v] = IF v = w THEN to ELSE pc[v]
  BY AtStep DEF IInv
<1>2. TypeOK' /\ RunsInOrder'
  BY <1>1 DEF IInv, TypeOK, RunsInOrder
<1>3. IdleInv' /\ SleepInv' /\ JoinedInv'
  BY <1>1 DEF IInv, IdleInv, SleepInv, JoinedInv
<1>. QED  BY <1>2, <1>3 DEF IInv

\* Signal in a step that touches no task and no worker otherwise.
LEMMA SignalKeeps ==
  ASSUME IInv, NEW w \in Workers, Signal(w), UNCHANGED <<list, taken, running, ran, added>>
  PROVE  /\ pc' \in [Workers -> {"check", "lock", "test", "towait", "wait", "run", "done"}]
         /\ \A v \in Workers : pc[v] = "done" => pc'[v] = "done"
         /\ RunsInOrder' /\ IdleInv' /\ SleepInv'
<1>1. /\ pc' \in [Workers -> {"check", "lock", "test", "towait", "wait", "run", "done"}]
      /\ \A v \in Workers : pc'[v] = IF v = w /\ pc[v] = "wait" THEN "lock" ELSE pc[v]
  BY SignalStep DEF IInv
<1>. QED  BY <1>1 DEF IInv, RunsInOrder, IdleInv, SleepInv

\* Pushing a task and signalling keeps it.
LEMMA AddTaskInv ==
  ASSUME IInv, NEW k \in Tasks, NEW w \in Workers, AddTask(k, w)
  PROVE  IInv'
<1>1. /\ pc' \in [Workers -> {"check", "lock", "test", "towait", "wait", "run", "done"}]
      /\ \A v \in Workers : pc'[v] = IF v = w /\ pc[v] = "wait" THEN "lock" ELSE pc[v]
  BY SignalStep DEF AddTask, IInv
<1>2. /\ list' = [list EXCEPT ![w] = Append(@, k)] /\ added' = [added EXCEPT ![w] = Append(@, k)]
      /\ UNCHANGED <<taken, running, stop, lost, main, idx, ran>>
      /\ pc[w] \notin {"test", "towait"}
  BY DEF AddTask, Holds
<1>3. TypeOK'
  <2>1. Append(list[w], k) \in Seq(Tasks) /\ Append(added[w], k) \in Seq(Tasks)
    BY AppendProperties DEF IInv, TypeOK
  <2>. QED  BY <1>1, <1>2, <2>1 DEF IInv, TypeOK
<1>4. RunsInOrder'
  <2>. SUFFICES ASSUME NEW v \in Workers
                PROVE  added'[v] = Pieces(ran[v], Current(v), taken[v], list'[v])
    BY <1>2 DEF RunsInOrder, Pieces, Current
  <2>1. added[v] = Pieces(ran[v], Current(v), taken[v], list[v])
    BY DEF IInv, RunsInOrder, Pieces, Current
  <2>2. /\ ran[v] \in Seq(Tasks) /\ Current(v) \in Seq(Tasks)
        /\ taken[v] \in Seq(Tasks) /\ list[v] \in Seq(Tasks)
    BY EmptySeq DEF IInv, TypeOK, Current
  <2>3. CASE v = w
    <3>1. added'[v] = Append(added[v], k) /\ list'[v] = Append(list[v], k)
      BY <1>2, <2>3 DEF IInv, TypeOK
    <3>2. Push(added[v], k) = Pieces(ran[v], Current(v), taken[v], Push(list[v], k))
      BY <2>1, <2>2, PiecesPush
    <3>. QED  BY <3>1, <3>2 DEF Push
  <2>4. CASE v # w
    BY <1>2, <2>1, <2>4 DEF IInv, TypeOK
  <2>. QED  BY <2>3, <2>4
<1>5. IdleInv' /\ JoinedInv'
  BY <1>1, <1>2 DEF IInv, IdleInv, JoinedInv
<1>6. SleepInv'
  BY <1>1, <1>2 DEF IInv, SleepInv, TypeOK
<1>. QED  BY <1>3, <1>4, <1>5, <1>6 DEF IInv

\* So does taking the whole list.
LEMMA SwapInv ==
  ASSUME IInv, NEW w \in Workers, Swap(w)
  PROVE  IInv'
<1>1. /\ pc' \in [Workers -> {"check", "lock", "test", "towait", "wait", "run", "done"}]
      /\ pc[w] = "test"
      /\ \A v \in Workers : pc'[v] = IF v = w THEN "run" ELSE pc[v]
  BY AtStep DEF Swap, IInv
<1>2. /\ taken' = [taken EXCEPT ![w] = list[w]] /\ list' = [list EXCEPT ![w] = <<>>]
      /\ UNCHANGED <<running, stop, lost, main, idx, added, ran>>
  BY DEF Swap, TakeList
<1>3. TypeOK'
  BY <1>1, <1>2, EmptySeq DEF IInv, TypeOK
<1>4. RunsInOrder'
  <2>. SUFFICES ASSUME NEW v \in Workers
                PROVE  added[v] = Pieces(ran[v], Current(v), taken'[v], list'[v])
    BY <1>2 DEF RunsInOrder, Pieces, Current
  <2>1. added[v] = Pieces(ran[v], Current(v), taken[v], list[v])
    BY DEF IInv, RunsInOrder, Pieces, Current
  <2>2. CASE v = w
    <3>1. taken[v] = <<>> /\ taken'[v] = list[v] /\ list'[v] = <<>>
      BY <1>1, <1>2, <2>2 DEF IInv, TypeOK, IdleInv
    <3>2. ran[v] \in Seq(Tasks) /\ Current(v) \in Seq(Tasks) /\ list[v] \in Seq(Tasks)
      BY EmptySeq DEF IInv, TypeOK, Current
    <3>. QED  BY <2>1, <3>1, <3>2, PiecesSwap
  <2>3. CASE v # w
    BY <1>2, <2>1, <2>3 DEF IInv, TypeOK
  <2>. QED  BY <2>2, <2>3
<1>5. IdleInv' /\ SleepInv' /\ JoinedInv'
  BY <1>1, <1>2 DEF IInv, TypeOK, IdleInv, SleepInv, JoinedInv
<1>. QED  BY <1>3, <1>4, <1>5 DEF IInv

\* So does starting a task.
LEMMA StartTaskInv ==
  ASSUME IInv, NEW w \in Workers, StartTask(w)
  PROVE  IInv'
<1>1. /\ pc[w] = "run" /\ running[w] = None /\ taken[w] # <<>>
      /\ running' = [running EXCEPT ![w] = Head(taken[w])] /\ taken' = [taken EXCEPT ![w] = Tail(taken[w])]
      /\ UNCHANGED <<list, stop, pc, lost, main, idx, added, ran>>
  BY DEF StartTask
<1>2. /\ taken[w] \in Seq(Tasks) /\ Head(taken[w]) \in Tasks /\ Tail(taken[w]) \in Seq(Tasks)
      /\ Head(taken[w]) # None
  BY <1>1, HeadTailProperties, PoolAssumption DEF IInv, TypeOK
<1>3. TypeOK'
  BY <1>1, <1>2 DEF IInv, TypeOK
<1>4. RunsInOrder'
  <2>. SUFFICES ASSUME NEW v \in Workers
                PROVE  added[v] = Pieces(ran[v], Current(v)', taken'[v], list[v])
    BY <1>1 DEF RunsInOrder, Pieces, Current
  <2>1. added[v] = Pieces(ran[v], Current(v), taken[v], list[v])
    BY DEF IInv, RunsInOrder, Pieces, Current
  <2>2. CASE v = w
    <3>1. Current(v) = <<>> /\ Current(v)' = <<Head(taken[v])>> /\ taken'[v] = Tail(taken[v])
      BY <1>1, <1>2, <2>2 DEF IInv, TypeOK, Current
    <3>2. ran[v] \in Seq(Tasks) /\ list[v] \in Seq(Tasks)
      BY DEF IInv, TypeOK
    <3>. QED  BY <1>1, <1>2, <2>1, <2>2, <3>1, <3>2, PiecesStart
  <2>3. CASE v # w
    BY <1>1, <2>1, <2>3 DEF IInv, TypeOK, Current
  <2>. QED  BY <2>2, <2>3
<1>5. IdleInv' /\ SleepInv' /\ JoinedInv'
  BY <1>1 DEF IInv, TypeOK, IdleInv, SleepInv, JoinedInv
<1>. QED  BY <1>3, <1>4, <1>5 DEF IInv

\* So does ending one.
LEMMA EndTaskInv ==
  ASSUME IInv, NEW w \in Workers, EndTask(w)
  PROVE  IInv'
<1>1. /\ pc[w] = "run" /\ running[w] # None
      /\ ran' = [ran EXCEPT ![w] = Append(ran[w], running[w])] /\ running' = [running EXCEPT ![w] = None]
      /\ UNCHANGED <<list, taken, stop, pc, lost, main, idx, added>>
  BY DEF EndTask
<1>2. ran[w] \in Seq(Tasks) /\ running[w] \in Tasks /\ Append(ran[w], running[w]) \in Seq(Tasks)
  BY <1>1, AppendProperties DEF IInv, TypeOK
<1>3. TypeOK'
  BY <1>1, <1>2 DEF IInv, TypeOK
<1>4. RunsInOrder'
  <2>. SUFFICES ASSUME NEW v \in Workers
                PROVE  added[v] = Pieces(ran'[v], Current(v)', taken[v], list[v])
    BY <1>1 DEF RunsInOrder, Pieces, Current
  <2>1. added[v] = Pieces(ran[v], Current(v), taken[v], list[v])
    BY DEF IInv, RunsInOrder, Pieces, Current
  <2>2. CASE v = w
    <3>1. Current(v) = <<running[v]>> /\ Current(v)' = <<>> /\ ran'[v] = Append(ran[v], running[v])
      BY <1>1, <2>2 DEF IInv, TypeOK, Current
    <3>. QED  BY <1>2, <2>1, <2>2, <3>1, PiecesEnd
  <2>3. CASE v # w
    BY <1>1, <2>1, <2>3 DEF IInv, TypeOK, Current
  <2>. QED  BY <2>2, <2>3
<1>5. IdleInv' /\ SleepInv' /\ JoinedInv'
  BY <1>1 DEF IInv, TypeOK, IdleInv, SleepInv, JoinedInv
<1>. QED  BY <1>3, <1>4, <1>5 DEF IInv

\* So does the signal to stop.
LEMMA StopSignalInv ==
  ASSUME IInv, StopSignal
  PROVE  IInv'
<1>1. /\ idx \in Workers /\ Signal(idx) /\ ThreadNum \in Nat \ {0}
      /\ UNCHANGED <<list, taken, running, stop, lost, added, ran>>
  BY PoolAssumption DEF StopSignal, IInv, TypeOK
<1>2. /\ pc' \in [Workers -> {"check", "lock", "test", "towait", "wait", "run", "done"}]
      /\ \A v \in Workers : pc[v] = "done" => pc'[v] = "done"
      /\ RunsInOrder' /\ IdleInv' /\ SleepInv'
  BY <1>1, SignalKeeps
<1>3. main' \in {"stop", "stop2", "join"} /\ idx' \in Workers
  BY <1>1 DEF StopSignal, IsLast, Workers
<1>4. TypeOK'
  BY <1>1, <1>2, <1>3 DEF IInv, TypeOK
<1>5. JoinedInv'
  <2>1. main = "signal" => main' = "stop" \/ (main' = "stop2" /\ idx' = 0)
    BY DEF StopSignal
  <2>2. main # "signal" => main = "signal2" /\ main' = "join" /\ idx' = idx
    BY DEF StopSignal
  <2>. QED  BY <1>2, <2>1, <2>2 DEF IInv, JoinedInv, Workers
<1>. QED  BY <1>2, <1>4, <1>5 DEF IInv

\* So does joining a worker.
LEMMA JoinInv ==
  ASSUME IInv, Join
  PROVE  IInv'
<1>1. /\ main = "join" /\ pc[idx] = "done" /\ UNCHANGED <<list, taken, running, stop, pc, lost, added, ran>>
      /\ main' = IF IsLast THEN "deleted" ELSE "stop2"
      /\ idx' = IF IsLast THEN idx ELSE idx + 1
      /\ idx \in Workers /\ ThreadNum \in Nat \ {0}
  BY PoolAssumption DEF Join, CanJoin, poolVars, IInv, TypeOK
<1>2. TypeOK'
  <2>1. idx' \in Workers
    BY <1>1 DEF IsLast, Workers
  <2>. QED  BY <1>1, <2>1 DEF IInv, TypeOK
<1>3. JoinedInv'
  BY <1>1 DEF IInv, JoinedInv, IsLast, Workers
<1>. QED  BY <1>1, <1>2, <1>3 DEF IInv, RunsInOrder, IdleInv, SleepInv

\* Every step keeps the invariant.
LEMMA StepInv ==
  ASSUME IInv, [Next]_vars
  PROVE  IInv'
<1>1. ASSUME NEW k \in Tasks, AddTaskBadIndex(k) PROVE IInv'
  BY <1>1 DEF AddTaskBadIndex, poolVars, IInv, TypeOK, RunsInOrder, IdleInv, SleepInv, JoinedInv
<1>2. ASSUME NEW k \in Tasks, NEW w \in Workers, AddTask(k, w) PROVE IInv'
  BY <1>2, AddTaskInv
<1>3. ASSUME NEW w \in Workers, CheckStop(w) PROVE IInv'
  <2>1. At(w, "check", "done") \/ At(w, "check", "lock")
    BY <1>3 DEF CheckStop
  <2>2. pc[w] = "check" /\ UNCHANGED <<list, taken, running, stop, lost, main, idx, added, ran>>
    BY <1>3 DEF CheckStop, At
  <2>3. CASE At(w, "check", "done")
    BY <2>2, <2>3, MoveStep
  <2>4. CASE At(w, "check", "lock")
    BY <2>2, <2>4, MoveStep
  <2>. QED  BY <2>1, <2>3, <2>4
<1>4. ASSUME NEW w \in Workers, Lock(w) PROVE IInv'
  BY <1>4, MoveStep DEF Lock
<1>5. ASSUME NEW w \in Workers, Test(w) PROVE IInv'
  BY <1>5, MoveStep DEF Test, MustWait
<1>6. ASSUME NEW w \in Workers, Wait(w) PROVE IInv'
  <2>1. list[w] = <<>>
    BY <1>6 DEF Wait, At, IInv, SleepInv
  <2>. QED  BY <1>6, <2>1, MoveStep DEF Wait
<1>7. ASSUME NEW w \in Workers, SpuriousWakeup(w) PROVE IInv'
  BY <1>7, MoveStep DEF SpuriousWakeup
<1>8. ASSUME NEW w \in Workers, Swap(w) PROVE IInv'
  BY <1>8, SwapInv
<1>9. ASSUME NEW w \in Workers, StartTask(w) PROVE IInv'
  BY <1>9, StartTaskInv
<1>10. ASSUME NEW w \in Workers, EndTask(w) PROVE IInv'
  BY <1>10, EndTaskInv
<1>11. ASSUME NEW w \in Workers, EndRun(w) PROVE IInv'
  BY <1>11, MoveStep DEF EndRun
<1>12. CASE Destory
  <2>1. 0 \in Workers
    BY PoolAssumption DEF Workers
  <2>. QED  BY <1>12, <2>1 DEF Destory, poolVars, IInv, TypeOK, RunsInOrder, IdleInv, SleepInv, JoinedInv
<1>13. CASE StopStore
  <2>1. /\ \/ main = "stop" /\ main' = "signal"
           \/ main = "stop2" /\ main' = "signal2"
        /\ UNCHANGED <<list, taken, running, pc, lost, idx, added, ran>>
    BY <1>13 DEF StopStore
  <2>2. TypeOK'
    BY <1>13, <2>1 DEF StopStore, IInv, TypeOK
  <2>3. JoinedInv'
    BY <2>1 DEF IInv, JoinedInv
  <2>. QED  BY <2>1, <2>2, <2>3 DEF IInv, RunsInOrder, IdleInv, SleepInv
<1>14. CASE StopSignal
  BY <1>14, StopSignalInv
<1>15. CASE Join
  BY <1>15, JoinInv
<1>16. CASE UNCHANGED vars
  BY <1>16 DEF vars, poolVars, IInv, TypeOK, RunsInOrder, IdleInv, SleepInv, JoinedInv
<1>. QED
  BY <1>1, <1>2, <1>3, <1>4, <1>5, <1>6, <1>7, <1>8, <1>9, <1>10, <1>11, <1>12, <1>13, <1>14, <1>15, <1>16
  DEF Next, WorkerStep, DestoryStep

-----------------------------------------------------------------------------
(***************************************************************************)
(* The theorems.                                                           *)
(***************************************************************************)

\* Every reachable state satisfies the inductive invariant.
THEOREM Invariance == Spec => []IInv
<1>1. Init => IInv
  BY InitInv
<1>2. IInv /\ [Next]_vars => IInv'
  BY StepInv
<1>. QED  BY <1>1, <1>2, PTL DEF Spec

\* PushTask, the swap and the run loop: each worker runs what was pushed to it
\* in that order, and every task not run yet is in one of its three places.
THEOREM QueueSafe == Spec => []QueueInv
<1>1. IInv => QueueInv
  BY DEF IInv, QueueInv
<1>. QED  BY <1>1, Invariance, PTL

\* The inner while of Execute: no worker waits with a task in its list, for
\* any interleaving of PushTask, Stop's unprotected signals and spurious wakeups.
THEOREM NoWorkerSleepsOnTask == Spec => []NoSleepOnTask
<1>1. IInv => NoSleepOnTask
  BY DEF IInv, SleepInv, NoSleepOnTask
<1>. QED  BY <1>1, Invariance, PTL

\* Destory: when delete [] frees the workers each has left Execute and holds
\* no task.
THEOREM DeletedPoolIsIdle == Spec => []DeletedIdle
<1>1. IInv => DeletedIdle
  BY DEF IInv, JoinedInv, IdleInv, DeletedIdle
<1>. QED  BY <1>1, Invariance, PTL
=============================================================================
