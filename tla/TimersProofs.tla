---------------------------- MODULE TimersProofs ----------------------------
(***************************************************************************)
(* The walk of _CheckTimer on a list that its callbacks change, for any    *)
(* number of timers, and how close a timer keeps to its interval.          *)
(***************************************************************************)
EXTENDS Timers, ConnTimeout, SequenceTheorems, TLAPS

-----------------------------------------------------------------------------
(***************************************************************************)
(* The inductive invariant, in three parts that rest on each other.        *)
(***************************************************************************)

\* The fields of a listed timer tell how often it was called: after each call
\* its next tick is one interval further from when it was armed, and no
\* more than one interval away.
ArmedInv ==
  \A n \in Nodes : Listed(n) =>
    /\ interval[n] \in Intervals
    /\ nextTick[n] = armed[n] + calls[n] * interval[n] + interval[n]
    /\ nextTick[n] <= now + interval[n]

FieldsInv == TypeOK /\ ArmedInv

\* The walk has still to come to node n.
Ahead(n) == \E i, j \in 1..Len(list) : i <= j /\ list[i] = it /\ list[j] = n

\* What a callback may remove is not what the iterator points to.
CallbackInv ==
  pc = "callback" => cur \in 1..created /\ (it # End => cb[it] # cb[cur])

\* What was due when the pass began and is not dealt with yet lies ahead.
DueInv ==
  /\ pc = "idle" => due = {}
  /\ \A n \in due : Ahead(n) /\ nextTick[n] <= currTick

PassInv == IteratorAlive /\ CallbackInv /\ DueInv

\* The latest pass began gap ago; it leaves no timer due, and the next pass
\* finds none that is later than the time between the two.
LateInv ==
  /\ now = currTick + gap
  /\ \A n \in Nodes : Listed(n) =>
       IF n \in due THEN currTick <= nextTick[n] + MaxGap ELSE currTick <= nextTick[n]

-----------------------------------------------------------------------------
(***************************************************************************)
(* The list and its operations.                                            *)
(***************************************************************************)

\* A sequence without one of its elements.
LEMMA RemoveAtProperties ==
  ASSUME NEW S, NEW s \in Seq(S), NEW i \in 1..Len(s)
  PROVE  /\ RemoveAt(s, i) \in Seq(S)
         /\ Len(RemoveAt(s, i)) = Len(s) - 1
         /\ \A j \in 1..(Len(s) - 1) : RemoveAt(s, i)[j] = IF j < i THEN s[j] ELSE s[j + 1]
<1>. DEFINE a == SubSeq(s, 1, i - 1)
            b == SubSeq(s, i + 1, Len(s))
<1>1. Len(s) \in Nat /\ \A j \in 1..Len(s) : s[j] \in S
  BY LenProperties, ElementOfSeq
<1>2. /\ a \in Seq(S) /\ Len(a) = i - 1
      /\ \A j \in 1..(i - 1) : a[j] = s[j]
  <2>1. \A j \in 1..(i - 1) : s[j] \in S
    BY <1>1
  <2>2. /\ a \in Seq(S) /\ Len(a) = IF 1 <= i - 1 THEN (i - 1) - 1 + 1 ELSE 0
        /\ \A j \in 1..((i - 1) - 1 + 1) : a[j] = s[1 + j - 1]
    BY <1>1, <2>1, SubSeqProperties
  <2>. HIDE DEF a
  <2>. QED  BY <1>1, <2>2
<1>3. /\ b \in Seq(S) /\ Len(b) = Len(s) - i
      /\ \A j \in 1..(Len(s) - i) : b[j] = s[i + j]
  <2>1. \A j \in (i + 1)..Len(s) : s[j] \in S
    BY <1>1
  <2>2. /\ b \in Seq(S) /\ Len(b) = IF i + 1 <= Len(s) THEN Len(s) - (i + 1) + 1 ELSE 0
        /\ \A j \in 1..(Len(s) - (i + 1) + 1) : b[j] = s[(i + 1) + j - 1]
    BY <1>1, <2>1, SubSeqProperties
  <2>. HIDE DEF b
  <2>. QED  BY <1>1, <2>2
<1>4. RemoveAt(s, i) = a \o b
  BY DEF RemoveAt
<1>. HIDE DEF a, b
<1>5. /\ a \o b \in Seq(S) /\ Len(a \o b) = Len(a) + Len(b)
      /\ \A j \in 1..(Len(a) + Len(b)) : (a \o b)[j] = IF j <= Len(a) THEN a[j] ELSE b[j - Len(a)]
  BY <1>2, <1>3, ConcatProperties
<1>6. ASSUME NEW j \in 1..(Len(s) - 1)
      PROVE  (a \o b)[j] = IF j < i THEN s[j] ELSE s[j + 1]
  <2>1. CASE j < i
    BY <1>1, <1>2, <1>3, <1>5, <2>1
  <2>2. CASE ~(j < i)
    <3>1. j - Len(a) \in 1..(Len(s) - i) /\ i + (j - Len(a)) = j + 1 /\ ~(j <= Len(a))
      BY <1>1, <1>2, <2>2
    <3>2. (a \o b)[j] = b[j - Len(a)]
      BY <1>1, <1>2, <1>3, <1>5, <3>1
    <3>3. b[j - Len(a)] = s[i + (j - Len(a))]
      BY <1>3, <3>1
    <3>. QED  BY <2>2, <3>1, <3>2, <3>3
  <2>. QED  BY <2>1, <2>2
<1>. QED  BY <1>1, <1>2, <1>3, <1>4, <1>5, <1>6

\* The list holds created nodes, each once.
LEMMA ListFacts ==
  ASSUME TypeOK
  PROVE  /\ Len(list) \in Nat /\ created \in 0..MaxNodes /\ MaxNodes \in Nat
         /\ \A i \in 1..Len(list) : list[i] \in 1..created /\ list[i] \in Nodes /\ list[i] # End
         /\ \A i, j \in 1..Len(list) : list[i] = list[j] => i = j
<1>1. list \in Seq(1..created) /\ created \in 0..MaxNodes /\ MaxNodes \in Nat
  BY TimersAssumption DEF TypeOK
<1>2. Len(list) \in Nat /\ \A i \in 1..Len(list) : list[i] \in 1..created
  BY <1>1, LenProperties, ElementOfSeq
<1>3. \A i, j \in 1..Len(list) : list[i] = list[j] => i = j
  BY DEF TypeOK
<1>. QED  BY <1>1, <1>2, <1>3 DEF Nodes, End

\* The element after a place in the list.
LEMMA SuccessorIs ==
  ASSUME TypeOK, NEW i \in 1..Len(list)
  PROVE  Successor(list[i]) = IF i = Len(list) THEN End ELSE list[i + 1]
<1>1. \A j \in 1..Len(list) : list[j] = list[i] => j = i
  BY ListFacts
<1>2. (CHOOSE j \in 1..Len(list) : list[j] = list[i]) = i
  BY <1>1
<1>. QED  BY <1>2 DEF Successor

\* It is a timer or the end.
LEMMA SuccessorType ==
  ASSUME TypeOK, NEW n, Listed(n)
  PROVE  Successor(n) \in Nodes \cup {End}
<1>1. PICK i \in 1..Len(list) : list[i] = n
  BY DEF Listed, Contains
<1>2. Successor(n) = IF i = Len(list) THEN End ELSE list[i + 1]
  BY <1>1, SuccessorIs
<1>3. i # Len(list) => i + 1 \in 1..Len(list)
  BY ListFacts
<1>. QED  BY <1>2, <1>3, ListFacts

-----------------------------------------------------------------------------
(***************************************************************************)
(* FieldsInv.                                                              *)
(***************************************************************************)

\* The invariant holds at first.
LEMMA InitFields == Init => FieldsInv
<1>. SUFFICES ASSUME Init PROVE FieldsInv
  OBVIOUS
<1>1. <<>> \in Seq(1..0) /\ Len(<<>>) = 0
  BY EmptySeq
<1>2. (CHOOSE k \in Callbacks : TRUE) \in Callbacks
  BY TimersAssumption
<1>3. TypeOK
  BY <1>1, <1>2, TimersAssumption DEF Init, TypeOK, Nodes, End
<1>4. \A n : ~Listed(n)
  BY <1>1 DEF Init, Listed, Contains
<1>. QED  BY <1>3, <1>4 DEF FieldsInv, ArmedInv

\* What Arm does to the fields, for a node listed afterwards.
LEMMA ArmFields ==
  ASSUME FieldsInv, NEW n \in Nodes, NEW d \in Intervals, Arm(n, d), now' = now
  PROVE  /\ interval' \in [Nodes -> Intervals \cup {0}] /\ nextTick' \in [Nodes -> Nat]
         /\ armed' \in [Nodes -> 0..now] /\ calls' \in [Nodes -> Nat] /\ due' \in SUBSET Nodes
         /\ interval'[n] \in Intervals /\ nextTick'[n] <= now + interval'[n]
         /\ nextTick'[n] = armed'[n] + calls'[n] * interval'[n] + interval'[n]
         /\ \A m \in Nodes \ {n} : /\ interval'[m] = interval[m] /\ nextTick'[m] = nextTick[m]
                                   /\ armed'[m] = armed[m] /\ calls'[m] = calls[m]
<1>1. /\ interval \in [Nodes -> Intervals \cup {0}] /\ nextTick \in [Nodes -> Nat]
      /\ armed \in [Nodes -> 0..now] /\ calls \in [Nodes -> Nat] /\ due \in SUBSET Nodes
      /\ now \in Nat /\ d \in Nat
  BY TimersAssumption DEF FieldsInv, TypeOK
<1>2. /\ interval' = [interval EXCEPT ![n] = d] /\ nextTick' = [nextTick EXCEPT ![n] = now + d]
      /\ armed' = [armed EXCEPT ![n] = now] /\ calls' = [calls EXCEPT ![n] = 0] /\ due' = due \ {n}
  BY DEF Arm
<1>3. interval'[n] = d /\ nextTick'[n] = now + d /\ armed'[n] = now /\ calls'[n] = 0
  BY <1>1, <1>2
<1>4. 0 * d = 0 /\ now + 0 + d = now + d /\ now + d \in Nat /\ now \in 0..now
  BY <1>1
<1>. QED  BY <1>1, <1>2, <1>3, <1>4

\* Every step keeps it.
LEMMA StepFields ==
  ASSUME FieldsInv, [Next]_vars
  PROVE  FieldsInv'
<1>. USE TimersAssumption
<1>1. CASE Tick
  <2>1. /\ now' = now + 1 /\ gap' = gap + 1 /\ gap < MaxGap
        /\ UNCHANGED <<list, cb, interval, nextTick, created, armed, pc, it, cur, currTick, calls, due>>
    BY <1>1 DEF Tick, nodeVars
  <2>2. now \in Nat /\ gap \in 0..MaxGap
    BY DEF FieldsInv, TypeOK
  <2>3. now' \in Nat /\ gap' \in 0..MaxGap /\ 0..now \subseteq 0..now'
    BY <2>1, <2>2
  <2>4. armed' \in [Nodes -> 0..now'] /\ currTick' \in 0..now'
    BY <2>1, <2>3 DEF FieldsInv, TypeOK
  <2>5. TypeOK'
    BY <2>1, <2>3, <2>4 DEF FieldsInv, TypeOK
  <2>6. ArmedInv'
    <3>. SUFFICES ASSUME NEW n \in Nodes, Listed(n)
                  PROVE  /\ interval[n] \in Intervals /\ nextTick[n] <= now' + interval[n]
                         /\ nextTick[n] = armed[n] + calls[n] * interval[n] + interval[n]
      BY <2>1 DEF ArmedInv, Listed
    <3>1. /\ interval[n] \in Intervals /\ interval[n] \in Nat /\ nextTick[n] <= now + interval[n]
          /\ nextTick[n] = armed[n] + calls[n] * interval[n] + interval[n]
      BY DEF FieldsInv, ArmedInv
    <3>2. nextTick[n] \in Nat
      BY DEF FieldsInv, TypeOK
    <3>. QED  BY <2>1, <2>2, <3>1, <3>2
  <2>. QED  BY <2>5, <2>6 DEF FieldsInv
<1>2. ASSUME NEW k \in Callbacks, NEW d \in Intervals, AddAgain(k, d) PROVE FieldsInv'
  <2>1. PICK n \in Nodes : Listed(n) /\ Arm(n, d)
    BY <1>2 DEF AddAgain, Has
  <2>2. UNCHANGED <<list, cb, created, now, gap, pc, it, cur, currTick>>
    BY <1>2 DEF AddAgain
  <2>. QED  BY <2>1, <2>2, ArmFields DEF FieldsInv, TypeOK, ArmedInv, Listed
<1>3. ASSUME NEW k \in Callbacks, NEW d \in Intervals, AddNew(k, d) PROVE FieldsInv'
  <2>. DEFINE n == created + 1
  <2>1. /\ Absent(k) /\ created < MaxNodes /\ created' = n /\ list' = Append(list, n)
        /\ cb' = [cb EXCEPT ![n] = k] /\ Arm(n, d)
        /\ UNCHANGED <<now, gap, pc, it, cur, currTick>>
    BY <1>3 DEF AddNew
  <2>2. n \in Nodes /\ n \notin 1..created /\ created' \in 0..MaxNodes /\ 1..created \subseteq 1..n /\ n \in 1..n
    BY <2>1, ListFacts DEF FieldsInv, Nodes
  <2>3. list \in Seq(1..n) /\ list' \in Seq(1..n) /\ Len(list') = Len(list) + 1 /\ list'[Len(list) + 1] = n
        /\ \A i \in 1..Len(list) : list'[i] = list[i]
    <3>1. list \in Seq(1..n)
      BY <2>2, SeqMonotonic DEF FieldsInv, TypeOK
    <3>. QED  BY <2>1, <2>2, <3>1, AppendProperties
  <2>4. \A i \in 1..Len(list) : list[i] # n /\ cb'[list[i]] = cb[list[i]] /\ cb[list[i]] # k
    BY <2>1, <2>2, ListFacts DEF FieldsInv, TypeOK, Absent, Has, Listed, Contains
  <2>5. cb' \in [Nodes -> Callbacks] /\ cb'[n] = k
    BY <2>1, <2>2 DEF FieldsInv, TypeOK
  <2>. HIDE DEF n
  <2>6. \A i, j \in 1..Len(list') : i # j => cb'[list'[i]] # cb'[list'[j]]
    <3>. SUFFICES ASSUME NEW i \in 1..Len(list'), NEW j \in 1..Len(list'), i # j
                  PROVE  cb'[list'[i]] # cb'[list'[j]]
      OBVIOUS
    <3>1. \A m \in 1..Len(list') : m \in 1..Len(list) \/ m = Len(list) + 1
      BY <2>3, ListFacts DEF FieldsInv
    <3>2. \A m \in 1..Len(list) : cb'[list'[m]] = cb[list[m]] /\ cb[list[m]] # k
      BY <2>3, <2>4
    <3>3. cb'[list'[Len(list) + 1]] = k
      BY <2>3, <2>5
    <3>4. i \in 1..Len(list) /\ j \in 1..Len(list) => cb[list[i]] # cb[list[j]]
      BY DEF FieldsInv, TypeOK
    <3>. QED  BY <3>1, <3>2, <3>3, <3>4
  <2>7. \A m : Listed(m)' => Listed(m) \/ m = n
    BY <2>3, ListFacts DEF FieldsInv, Listed, Contains
  <2>8. /\ interval' \in [Nodes -> Intervals \cup {0}] /\ nextTick' \in [Nodes -> Nat]
        /\ armed' \in [Nodes -> 0..now] /\ calls' \in [Nodes -> Nat] /\ due' \in SUBSET Nodes
        /\ interval'[n] \in Intervals /\ nextTick'[n] <= now + interval'[n]
        /\ nextTick'[n] = armed'[n] + calls'[n] * interval'[n] + interval'[n]
        /\ \A m \in Nodes \ {n} : /\ interval'[m] = interval[m] /\ nextTick'[m] = nextTick[m]
                                  /\ armed'[m] = armed[m] /\ calls'[m] = calls[m]
    BY <2>1, <2>2, ArmFields
  <2>9. TypeOK'
    BY <2>1, <2>2, <2>3, <2>5, <2>6, <2>8 DEF FieldsInv, TypeOK
  <2>10. ArmedInv'
    BY <2>1, <2>7, <2>8 DEF FieldsInv, ArmedInv
  <2>. QED  BY <2>9, <2>10 DEF FieldsInv
<1>4. ASSUME NEW k \in Callbacks, RemoveTimer(k) PROVE FieldsInv'
  <2>1. PICK i \in 1..Len(list) :
          /\ list' = RemoveAt(list, i)
          /\ interval' = [interval EXCEPT ![list[i]] = 0] /\ nextTick' = [nextTick EXCEPT ![list[i]] = 0]
          /\ armed' = [armed EXCEPT ![list[i]] = 0] /\ calls' = [calls EXCEPT ![list[i]] = 0]
          /\ due' = due \ {list[i]}
    BY <1>4 DEF RemoveTimer
  <2>2. UNCHANGED <<cb, created, now, gap, pc, it, cur, currTick>>
    BY <1>4 DEF RemoveTimer
  <2>3. /\ list' \in Seq(1..created) /\ Len(list') = Len(list) - 1
        /\ \A j \in 1..(Len(list) - 1) : list'[j] = IF j < i THEN list[j] ELSE list[j + 1]
    BY <2>1, RemoveAtProperties DEF FieldsInv, TypeOK
  <2>4. ASSUME NEW j \in 1..Len(list')
        PROVE  \E m \in 1..Len(list) : m # i /\ list'[j] = list[m] /\ m = IF j < i THEN j ELSE j + 1
    BY <2>3, ListFacts DEF FieldsInv
  <2>5. \A j, m \in 1..Len(list') : j # m => cb'[list'[j]] # cb'[list'[m]]
    <3>. SUFFICES ASSUME NEW j \in 1..Len(list'), NEW m \in 1..Len(list'), j # m
                  PROVE  cb[list'[j]] # cb[list'[m]]
      BY <2>2
    <3>1. PICK a \in 1..Len(list) : list'[j] = list[a] /\ a = IF j < i THEN j ELSE j + 1
      BY <2>4
    <3>2. PICK b \in 1..Len(list) : list'[m] = list[b] /\ b = IF m < i THEN m ELSE m + 1
      BY <2>4
    <3>3. a # b
      BY <2>3, <3>1, <3>2
    <3>. QED  BY <3>1, <3>2, <3>3 DEF FieldsInv, TypeOK
  <2>6. \A n : Listed(n)' => Listed(n) /\ n # list[i]
    <3>. SUFFICES ASSUME NEW j \in 1..Len(list') PROVE Listed(list'[j]) /\ list'[j] # list[i]
      BY DEF Listed, Contains
    <3>1. PICK m \in 1..Len(list) : m # i /\ list'[j] = list[m]
      BY <2>4
    <3>. QED  BY <3>1, ListFacts DEF FieldsInv, Listed, Contains
  <2>7. list[i] \in Nodes /\ 0 \in 0..now
    BY ListFacts DEF FieldsInv, TypeOK
  <2>8. TypeOK'
    BY <2>1, <2>2, <2>3, <2>5, <2>7 DEF FieldsInv, TypeOK
  <2>9. ArmedInv'
    BY <2>1, <2>2, <2>6, <2>7 DEF FieldsInv, TypeOK, ArmedInv
  <2>. QED  BY <2>8, <2>9 DEF FieldsInv
<1>5. CASE StartCheck
  <2>1. First \in Nodes \cup {End}
    <3>1. list # <<>> => Len(list) \in Nat \ {0} /\ Head(list) = list[1]
      BY EmptySeq DEF FieldsInv, TypeOK
    <3>. QED  BY <3>1, ListFacts DEF First, FieldsInv
  <2>2. TypeOK'
    BY <1>5, <2>1 DEF StartCheck, nodeVars, FieldsInv, TypeOK
  <2>. QED  BY <1>5, <2>2 DEF StartCheck, nodeVars, FieldsInv, ArmedInv, Listed
<1>6. ASSUME NEW n \in Nodes, PassOver(n) PROVE FieldsInv'
  <2>1. Successor(n) \in Nodes \cup {End}
    BY <1>6, SuccessorType DEF PassOver, FieldsInv
  <2>. QED  BY <1>6, <2>1 DEF PassOver, Advance, nodeVars, FieldsInv, TypeOK, ArmedInv, Listed
<1>7. ASSUME NEW n \in Nodes, Fire(n) PROVE FieldsInv'
  <2>1. /\ it' = Successor(n) /\ nextTick' = [nextTick EXCEPT ![n] = @ + interval[n]]
        /\ calls' = [calls EXCEPT ![n] = @ + 1] /\ cur' = n /\ pc' = "callback" /\ due' = due \ {n}
        /\ currTick >= nextTick[n] /\ Listed(n)
        /\ UNCHANGED <<list, cb, interval, created, armed, now, gap, currTick>>
    BY <1>7 DEF Fire, Advance, Rearm, Due
  <2>2. it' \in Nodes \cup {End}
    BY <2>1, SuccessorType DEF FieldsInv
  <2>3. /\ now \in Nat /\ currTick \in 0..now /\ armed[n] \in Nat /\ calls[n] \in Nat /\ nextTick[n] \in Nat
        /\ interval[n] \in Intervals /\ interval[n] \in Nat
        /\ nextTick[n] = armed[n] + calls[n] * interval[n] + interval[n]
    <3>1. /\ now \in Nat /\ currTick \in 0..now /\ armed[n] \in 0..now
          /\ calls[n] \in Nat /\ nextTick[n] \in Nat
      BY DEF FieldsInv, TypeOK
    <3>2. interval[n] \in Intervals
      BY <2>1 DEF FieldsInv, ArmedInv
    <3>3. nextTick[n] = armed[n] + calls[n] * interval[n] + interval[n]
      BY <2>1 DEF FieldsInv, ArmedInv
    <3>4. interval[n] \in Nat
      BY <3>2
    <3>5. armed[n] \in Nat
      BY <3>1
    <3>. QED  BY <3>1, <3>2, <3>3, <3>4, <3>5
  <2>4. TypeOK'
    <3>1. nextTick[n] + interval[n] \in Nat /\ calls[n] + 1 \in Nat
      BY <2>3
    <3>2. nextTick' \in [Nodes -> Nat] /\ calls' \in [Nodes -> Nat]
      BY <2>1, <3>1 DEF FieldsInv, TypeOK
    <3>3. /\ cur' \in Nodes \cup {End} /\ due' \in SUBSET Nodes
          /\ pc' \in {"idle", "check", "callback"}
      BY <2>1 DEF FieldsInv, TypeOK
    <3>4. UNCHANGED <<list, cb, interval, created, armed, now, gap, currTick>>
      BY <2>1
    <3>. QED  BY <2>2, <3>2, <3>3, <3>4 DEF FieldsInv, TypeOK
  <2>5. /\ nextTick'[n] = nextTick[n] + interval[n] /\ calls'[n] = calls[n] + 1
        /\ \A m \in Nodes \ {n} : nextTick'[m] = nextTick[m] /\ calls'[m] = calls[m]
    BY <2>1 DEF FieldsInv, TypeOK
  <2>6. (calls[n] + 1) * interval[n] = calls[n] * interval[n] + interval[n] /\ calls[n] * interval[n] \in Nat
    BY <2>3
  <2>7. nextTick'[n] = armed[n] + calls'[n] * interval[n] + interval[n]
    <3>. DEFINE product == calls[n] * interval[n]
    <3>1. product \in Nat /\ calls'[n] * interval[n] = product + interval[n]
      BY <2>5, <2>6
    <3>2. nextTick[n] = armed[n] + product + interval[n]
      BY <2>3
    <3>. HIDE DEF product
    <3>. QED  BY <2>3, <2>5, <3>1, <3>2
  <2>8. nextTick'[n] <= now + interval[n]
    BY <2>1, <2>3, <2>5
  <2>9. ArmedInv'
    BY <2>1, <2>3, <2>5, <2>7, <2>8 DEF FieldsInv, ArmedInv, Listed
  <2>. QED  BY <2>4, <2>9 DEF FieldsInv
<1>8. CASE EndCallback
  BY <1>8 DEF EndCallback, nodeVars, FieldsInv, TypeOK, ArmedInv, Listed
<1>9. CASE EndCheck
  BY <1>9 DEF EndCheck, nodeVars, FieldsInv, TypeOK, ArmedInv, Listed
<1>10. CASE UNCHANGED vars
  BY <1>10 DEF vars, nodeVars, FieldsInv, TypeOK, ArmedInv, Listed
<1>. QED
  BY <1>1, <1>2, <1>3, <1>4, <1>5, <1>6, <1>7, <1>8, <1>9, <1>10 DEF Next, AddTimer

-----------------------------------------------------------------------------
(***************************************************************************)
(* PassInv: the walk, when callbacks remove no timer but their own.        *)
(***************************************************************************)

\* What the pass has still to visit is in the list, and the pass is not over.
LEMMA AheadIsListed ==
  ASSUME TypeOK, NEW n, Ahead(n)
  PROVE  Listed(n) /\ it # End
BY ListFacts DEF Ahead, Listed, Contains

\* The iterator moves on: what it pointed to is all that is left behind.
LEMMA AdvanceStep ==
  ASSUME TypeOK, NEW n, Listed(n), it = n, Advance(n), UNCHANGED <<list, cb>>
  PROVE  /\ it' # End => Listed(it)' /\ cb'[it'] # cb[n]
         /\ \A m : m # n /\ Ahead(m) => Ahead(m)'
<1>1. PICK i \in 1..Len(list) : list[i] = n
  BY DEF Listed, Contains
<1>2. it' = IF i = Len(list) THEN End ELSE list[i + 1]
  BY <1>1, SuccessorIs DEF Advance
<1>3. ASSUME it' # End PROVE Listed(it)' /\ cb'[it'] # cb[n]
  <2>1. i + 1 \in 1..Len(list) /\ it' = list[i + 1] /\ i + 1 # i
    BY <1>2, <1>3, ListFacts
  <2>2. cb[list[i + 1]] # cb[list[i]]
    BY <2>1 DEF TypeOK
  <2>. QED  BY <1>1, <2>1, <2>2 DEF Listed, Contains
<1>4. ASSUME NEW m, m # n, Ahead(m) PROVE Ahead(m)'
  <2>1. PICK a \in 1..Len(list), b \in 1..Len(list) : a <= b /\ list[a] = n /\ list[b] = m
    BY <1>4 DEF Ahead
  <2>2. a = i /\ a # b
    BY <1>1, <1>4, <2>1, ListFacts
  <2>3. i + 1 \in 1..Len(list) /\ i + 1 <= b /\ i # Len(list)
    BY <2>1, <2>2, ListFacts
  <2>4. it' = list[i + 1]
    BY <1>2, <2>3
  <2>. QED  BY <2>1, <2>3, <2>4 DEF Ahead
<1>. QED  BY <1>3, <1>4

\* A node taken off the list is gone; the order of the others stays.
LEMMA RemoveStep ==
  ASSUME FieldsInv, NEW k, RemoveTimer(k)
  PROVE  \E n \in Nodes :
           /\ cb[n] = k /\ nextTick' = [nextTick EXCEPT ![n] = 0] /\ due' = due \ {n}
           /\ \A m : Listed(m)' <=> Listed(m) /\ m # n
           /\ \A m : m # n /\ it # n /\ Ahead(m) => Ahead(m)'
<1>1. PICK i \in 1..Len(list) :
        /\ cb[list[i]] = k /\ list' = RemoveAt(list, i) /\ nextTick' = [nextTick EXCEPT ![list[i]] = 0]
        /\ due' = due \ {list[i]}
  BY DEF RemoveTimer
<1>2. it' = it
  BY DEF RemoveTimer
<1>3. /\ Len(list') = Len(list) - 1 /\ Len(list) \in Nat
      /\ \A j \in 1..(Len(list) - 1) : list'[j] = IF j < i THEN list[j] ELSE list[j + 1]
  BY <1>1, RemoveAtProperties, ListFacts DEF FieldsInv, TypeOK
<1>4. ASSUME NEW j \in 1..Len(list')
      PROVE  \E m \in 1..Len(list) : m # i /\ list'[j] = list[m]
  <2>1. IF j < i THEN j \in 1..Len(list) /\ j # i ELSE j + 1 \in 1..Len(list) /\ j + 1 # i
    BY <1>3
  <2>. QED  BY <1>3, <2>1
<1>. DEFINE At(j) == IF j < i THEN j ELSE j - 1
<1>5. ASSUME NEW j \in 1..Len(list), j # i
      PROVE  At(j) \in 1..Len(list') /\ list'[At(j)] = list[j]
  <2>1. CASE j < i
    BY <1>3, <2>1
  <2>2. CASE ~(j < i)
    <3>1. At(j) = j - 1 /\ j - 1 \in 1..(Len(list) - 1) /\ ~(j - 1 < i) /\ (j - 1) + 1 = j
      BY <1>3, <1>5, <2>2
    <3>2. list'[j - 1] = list[(j - 1) + 1]
      BY <1>3, <3>1
    <3>. QED  BY <1>3, <3>1, <3>2
  <2>. QED  BY <2>1, <2>2
<1>6. ASSUME NEW m PROVE Listed(m)' <=> Listed(m) /\ m # list[i]
  <2>1. ASSUME Listed(m)' PROVE Listed(m) /\ m # list[i]
    <3>1. PICK j \in 1..Len(list') : list'[j] = m
      BY <2>1 DEF Listed, Contains
    <3>2. PICK a \in 1..Len(list) : a # i /\ m = list[a]
      BY <1>4, <3>1
    <3>. QED  BY <3>2, ListFacts DEF FieldsInv, Listed, Contains
  <2>2. ASSUME Listed(m), m # list[i] PROVE Listed(m)'
    <3>1. PICK j \in 1..Len(list) : list[j] = m
      BY <2>2 DEF Listed, Contains
    <3>2. At(j) \in 1..Len(list') /\ list'[At(j)] = m
      BY <1>5, <2>2, <3>1
    <3>. HIDE DEF At
    <3>. QED  BY <3>2 DEF Listed, Contains
  <2>. QED  BY <2>1, <2>2
<1>7. ASSUME NEW m, m # list[i], it # list[i], Ahead(m) PROVE Ahead(m)'
  <2>1. PICK a \in 1..Len(list), b \in 1..Len(list) : a <= b /\ list[a] = it /\ list[b] = m
    BY <1>7 DEF Ahead
  <2>2. /\ At(a) \in 1..Len(list') /\ list'[At(a)] = it
        /\ At(b) \in 1..Len(list') /\ list'[At(b)] = m
    BY <1>5, <1>7, <2>1
  <2>3. At(a) <= At(b)
    BY <1>7, <2>1
  <2>. HIDE DEF At
  <2>. QED  BY <1>2, <2>2, <2>3 DEF Ahead
<1>8. list[i] \in Nodes
  BY ListFacts DEF FieldsInv
<1>. QED  BY <1>1, <1>6, <1>7, <1>8

\* A node put at the end of the list changes nothing in front of it.
LEMMA AppendStep ==
  ASSUME FieldsInv, NEW k, NEW d, AddNew(k, d)
  PROVE  /\ created' = created + 1 /\ created + 1 \in Nodes /\ created \in Nat
         /\ \A m : Listed(m) => Listed(m)' /\ m \in 1..created
         /\ \A m : Listed(m)' => Listed(m) \/ m = created + 1
         /\ \A m : Ahead(m) => Ahead(m)'
<1>. DEFINE n == created + 1
<1>1. created < MaxNodes /\ created' = n /\ list' = Append(list, n) /\ it' = it
  BY DEF AddNew
<1>2. n \in Nodes /\ 1..created \subseteq 1..n /\ n \in 1..n /\ created \in Nat /\ Len(list) \in Nat
  BY <1>1, ListFacts DEF FieldsInv, Nodes
<1>3. list \in Seq(1..n)
  BY <1>2, SeqMonotonic DEF FieldsInv, TypeOK
<1>4. /\ Len(list') = Len(list) + 1 /\ list'[Len(list) + 1] = n
      /\ \A i \in 1..Len(list) : list'[i] = list[i] /\ i \in 1..Len(list')
  BY <1>1, <1>2, <1>3, AppendProperties
<1>. HIDE DEF n
<1>5. \A m : Listed(m) => Listed(m)' /\ m \in 1..created
  BY <1>4, ListFacts DEF FieldsInv, Listed, Contains
<1>6. \A m : Listed(m)' => Listed(m) \/ m = n
  BY <1>2, <1>4 DEF Listed, Contains
<1>7. \A m : Ahead(m) => Ahead(m)'
  <2>. SUFFICES ASSUME NEW m, Ahead(m) PROVE Ahead(m)'
    OBVIOUS
  <2>1. PICK i \in 1..Len(list), j \in 1..Len(list) : i <= j /\ list[i] = it /\ list[j] = m
    BY DEF Ahead
  <2>. QED  BY <1>1, <1>4, <2>1 DEF Ahead
<1>. QED  BY <1>1, <1>2, <1>5, <1>6, <1>7 DEF n

\* The invariant of the pass holds at first.
LEMMA InitPass == Init => PassInv
BY DEF Init, PassInv, IteratorAlive, CallbackInv, DueInv

\* Every step keeps it.
LEMMA StepPass ==
  ASSUME ~RemoveOthers, FieldsInv, PassInv, [Next]_vars
  PROVE  PassInv'
<1>. USE DEF PassInv
<1>1. CASE Tick \/ EndCallback \/ UNCHANGED vars
  BY <1>1 DEF Tick, EndCallback, vars, nodeVars, IteratorAlive, CallbackInv, DueInv, Ahead, Listed
<1>2. ASSUME NEW k \in Callbacks, NEW d \in Intervals, AddAgain(k, d) PROVE PassInv'
  <2>1. PICK n \in Nodes : Listed(n) /\ Arm(n, d)
    BY <1>2 DEF AddAgain, Has
  <2>2. UNCHANGED <<list, cb, created, now, gap, pc, it, cur, currTick>>
    BY <1>2 DEF AddAgain
  <2>3. due' = due \ {n} /\ \A m \in Nodes \ {n} : nextTick'[m] = nextTick[m]
    BY <2>1 DEF Arm, FieldsInv, TypeOK
  <2>4. \A m \in due' : m \in due /\ m \in Nodes \ {n}
    BY <2>3 DEF FieldsInv, TypeOK
  <2>. QED  BY <2>2, <2>3, <2>4 DEF IteratorAlive, CallbackInv, DueInv, Ahead, Listed
<1>3. ASSUME NEW k \in Callbacks, NEW d \in Intervals, AddNew(k, d) PROVE PassInv'
  <2>1. /\ created' = created + 1 /\ created + 1 \in Nodes /\ created \in Nat
        /\ \A m : Listed(m) => Listed(m)' /\ m \in 1..created
        /\ \A m : Ahead(m) => Ahead(m)'
    BY <1>3, AppendStep
  <2>2. /\ cb' = [cb EXCEPT ![created + 1] = k] /\ nextTick' = [nextTick EXCEPT ![created + 1] = now + d]
        /\ due' = due \ {created + 1} /\ UNCHANGED <<pc, it, cur, currTick>>
    BY <1>3 DEF AddNew, Arm
  <2>3. \A m \in 1..created : m # created + 1 /\ m \in 1..(created + 1)
    BY <2>1
  <2>4. cb \in [Nodes -> Callbacks] /\ nextTick \in [Nodes -> Nat] /\ due \subseteq Nodes
    BY DEF FieldsInv, TypeOK
  <2>5. \A m : m # created + 1 => cb'[m] = cb[m] /\ nextTick'[m] = nextTick[m]
    BY <2>2, <2>4
  <2>6. IteratorAlive'
    BY <2>1, <2>2 DEF IteratorAlive, Listed
  <2>7. CallbackInv'
    BY <2>1, <2>2, <2>3, <2>5 DEF IteratorAlive, CallbackInv
  <2>8. DueInv'
    BY <2>1, <2>2, <2>5 DEF DueInv
  <2>. QED  BY <2>6, <2>7, <2>8
<1>4. ASSUME NEW k \in Callbacks, RemoveTimer(k) PROVE PassInv'
  <2>1. PICK n \in Nodes :
          /\ cb[n] = k /\ nextTick' = [nextTick EXCEPT ![n] = 0] /\ due' = due \ {n}
          /\ \A m : Listed(m)' <=> Listed(m) /\ m # n
          /\ \A m : m # n /\ it # n /\ Ahead(m) => Ahead(m)'
    BY <1>4, RemoveStep
  <2>2. /\ pc \in {"idle", "callback"} /\ (pc = "callback" => k = cb[cur])
        /\ UNCHANGED <<cb, created, pc, it, cur, currTick>>
    BY <1>4 DEF RemoveTimer, MayCall
  <2>3. pc = "callback" /\ it # End => it # n
    BY <2>1, <2>2 DEF CallbackInv
  <2>4. \A m \in due' : m \in due /\ m # n /\ nextTick'[m] = nextTick[m]
    BY <2>1 DEF FieldsInv, TypeOK
  <2>5. \A m \in due : pc = "callback" /\ it # End
    BY <2>2, AheadIsListed DEF DueInv, FieldsInv
  <2>. QED  BY <2>1, <2>2, <2>3, <2>4, <2>5 DEF IteratorAlive, CallbackInv, DueInv, Listed
<1>5. CASE StartCheck
  <2>1. /\ pc' = "check" /\ it' = First /\ currTick' = now
        /\ due' = {n \in Nodes : Listed(n) /\ now >= nextTick[n]}
        /\ UNCHANGED <<list, nextTick>>
    BY <1>5 DEF StartCheck, nodeVars
  <2>2. Len(list) \in Nat /\ (list # <<>> => 1 \in 1..Len(list) /\ First = list[1])
    <3>1. list # <<>> => Len(list) \in Nat \ {0} /\ Head(list) = list[1]
      BY EmptySeq DEF FieldsInv, TypeOK
    <3>. QED  BY <3>1, ListFacts DEF First, FieldsInv
  <2>3. IteratorAlive'
    BY <2>1, <2>2 DEF IteratorAlive, First, Listed, Contains
  <2>4. ASSUME NEW n \in due' PROVE Ahead(n)' /\ nextTick'[n] <= currTick'
    <3>1. Listed(n) /\ n \in Nodes /\ now >= nextTick[n]
      BY <2>1, <2>4
    <3>2. PICK j \in 1..Len(list) : list[j] = n
      BY <3>1 DEF Listed, Contains
    <3>3. list # <<>> /\ 1 <= j
      BY <2>2, <3>2
    <3>4. nextTick[n] \in Nat /\ now \in Nat
      BY <3>1 DEF FieldsInv, TypeOK
    <3>. QED  BY <2>1, <2>2, <3>1, <3>2, <3>3, <3>4 DEF Ahead
  <2>. QED  BY <2>1, <2>3, <2>4 DEF CallbackInv, DueInv
<1>6. ASSUME NEW n \in Nodes, PassOver(n) PROVE PassInv'
  <2>1. /\ pc = "check" /\ it = n /\ Listed(n) /\ Advance(n) /\ ~(currTick >= nextTick[n])
        /\ UNCHANGED <<list, cb, nextTick, pc, currTick, due>>
    BY <1>6 DEF PassOver, Due, nodeVars
  <2>2. /\ it' # End => Listed(it)' /\ cb'[it'] # cb[n]
        /\ \A m : m # n /\ Ahead(m) => Ahead(m)'
    BY <2>1, AdvanceStep DEF FieldsInv
  <2>3. n \notin due
    BY <2>1 DEF DueInv, FieldsInv, TypeOK
  <2>. QED  BY <2>1, <2>2, <2>3 DEF IteratorAlive, CallbackInv, DueInv, Listed
<1>7. ASSUME NEW n \in Nodes, Fire(n) PROVE PassInv'
  <2>1. /\ pc = "check" /\ it = n /\ Listed(n) /\ Advance(n) /\ cur' = n /\ pc' = "callback"
        /\ nextTick' = [nextTick EXCEPT ![n] = @ + interval[n]] /\ due' = due \ {n}
        /\ UNCHANGED <<list, cb, created, currTick>>
    BY <1>7 DEF Fire, Rearm
  <2>2. /\ it' # End => Listed(it)' /\ cb'[it'] # cb[n]
        /\ \A m : m # n /\ Ahead(m) => Ahead(m)'
    BY <2>1, AdvanceStep DEF FieldsInv
  <2>3. \A m \in due' : m \in due /\ m # n /\ nextTick'[m] = nextTick[m]
    BY <2>1 DEF FieldsInv, TypeOK
  <2>4. n \in 1..created
    BY <2>1, ListFacts DEF Listed, Contains, FieldsInv
  <2>. QED  BY <2>1, <2>2, <2>3, <2>4 DEF IteratorAlive, CallbackInv, DueInv, Listed
<1>8. CASE EndCheck
  <2>1. pc = "check" /\ it = End /\ pc' = "idle" /\ UNCHANGED <<due, it, list, nextTick, currTick>>
    BY <1>8 DEF EndCheck, nodeVars
  <2>2. due = {}
    BY <2>1, AheadIsListed DEF DueInv, FieldsInv
  <2>. QED  BY <2>1, <2>2 DEF IteratorAlive, CallbackInv, DueInv
<1>. QED
  BY <1>1, <1>2, <1>3, <1>4, <1>5, <1>6, <1>7, <1>8 DEF Next, AddTimer

-----------------------------------------------------------------------------
(***************************************************************************)
(* LateInv: precision, when no interval is shorter than a round of the     *)
(* loop.  A shorter one falls behind for good, for a pass calls a timer    *)
(* once.                                                                   *)
(***************************************************************************)

\* No timer is late at first.
LEMMA InitLate == Init => LateInv
<1>1. Init => \A n : ~Listed(n)
  BY EmptySeq DEF Init, Listed, Contains
<1>. QED  BY <1>1 DEF Init, LateInv

\* Every step keeps that none is later than a gap.
LEMMA StepLate ==
  ASSUME \A d \in Intervals : MaxGap <= d, FieldsInv, PassInv, LateInv, [Next]_vars
  PROVE  LateInv'
<1>1. /\ now \in Nat /\ gap \in Nat /\ gap <= MaxGap /\ MaxGap \in Nat /\ currTick \in Nat
      /\ currTick <= now /\ now = currTick + gap
      /\ nextTick \in [Nodes -> Nat] /\ due \subseteq Nodes /\ Intervals \subseteq Nat \ {0}
  <2>1. currTick \in 0..now /\ now \in Nat
    BY DEF FieldsInv, TypeOK
  <2>. QED  BY <2>1, TimersAssumption DEF FieldsInv, TypeOK, LateInv
<1>2. CASE Tick \/ EndCallback \/ EndCheck \/ UNCHANGED vars \/ \E n \in Nodes : PassOver(n)
  <2>1. /\ UNCHANGED <<list, nextTick, currTick, due>>
        /\ \/ now' = now + 1 /\ gap' = gap + 1
           \/ UNCHANGED <<now, gap>>
    BY <1>2 DEF Tick, EndCallback, EndCheck, PassOver, vars, nodeVars
  <2>2. now' = currTick' + gap'
    BY <1>1, <2>1
  <2>. QED  BY <2>1, <2>2 DEF LateInv, Listed
<1>3. ASSUME NEW k \in Callbacks, NEW d \in Intervals, AddAgain(k, d) PROVE LateInv'
  <2>1. PICK n \in Nodes : Listed(n) /\ Arm(n, d)
    BY <1>3 DEF AddAgain, Has
  <2>2. UNCHANGED <<list, now, gap, currTick>>
    BY <1>3 DEF AddAgain
  <2>3. /\ nextTick'[n] = now + d /\ d \in Nat /\ due' = due \ {n}
        /\ \A m \in Nodes \ {n} : nextTick'[m] = nextTick[m]
    BY <1>1, <2>1 DEF Arm
  <2>. QED  BY <1>1, <2>2, <2>3 DEF LateInv, Listed
<1>4. ASSUME NEW k \in Callbacks, NEW d \in Intervals, AddNew(k, d) PROVE LateInv'
  <2>. DEFINE n == created + 1
  <2>1. n \in Nodes /\ \A m : Listed(m)' => Listed(m) \/ m = n
    BY <1>4, AppendStep
  <2>2. nextTick' = [nextTick EXCEPT ![n] = now + d] /\ due' = due \ {n} /\ UNCHANGED <<now, gap, currTick>>
    BY <1>4 DEF AddNew, Arm
  <2>3. nextTick'[n] = now + d /\ d \in Nat /\ \A m \in Nodes \ {n} : nextTick'[m] = nextTick[m]
    BY <1>1, <2>1, <2>2
  <2>. HIDE DEF n
  <2>. QED  BY <1>1, <2>1, <2>2, <2>3 DEF LateInv
<1>5. ASSUME NEW k \in Callbacks, RemoveTimer(k) PROVE LateInv'
  <2>1. PICK n \in Nodes :
          /\ nextTick' = [nextTick EXCEPT ![n] = 0] /\ due' = due \ {n}
          /\ \A m : Listed(m)' <=> Listed(m) /\ m # n
    BY <1>5, RemoveStep
  <2>2. UNCHANGED <<now, gap, currTick>>
    BY <1>5 DEF RemoveTimer
  <2>3. \A m \in Nodes \ {n} : nextTick'[m] = nextTick[m]
    BY <1>1, <2>1
  <2>. QED  BY <2>1, <2>2, <2>3 DEF LateInv
<1>6. CASE StartCheck
  <2>1. /\ pc = "idle" /\ gap' = 0 /\ currTick' = now
        /\ due' = {n \in Nodes : Listed(n) /\ now >= nextTick[n]}
        /\ UNCHANGED <<list, nextTick, now>>
    BY <1>6 DEF StartCheck, nodeVars
  <2>2. due = {}
    BY <2>1 DEF PassInv, DueInv
  <2>3. ASSUME NEW n \in Nodes, Listed(n)
        PROVE  IF n \in due' THEN now <= nextTick[n] + MaxGap ELSE now <= nextTick[n]
    <3>1. nextTick[n] \in Nat /\ currTick <= nextTick[n]
      BY <1>1, <2>2, <2>3 DEF LateInv
    <3>2. n \in due' <=> now >= nextTick[n]
      BY <2>1, <2>3
    <3>3. now <= nextTick[n] + MaxGap
      BY <1>1, <3>1
    <3>4. ~(now >= nextTick[n]) => now <= nextTick[n]
      BY <1>1, <3>1
    <3>. QED  BY <3>2, <3>3, <3>4
  <2>. QED  BY <1>1, <2>1, <2>3 DEF LateInv, Listed
<1>7. ASSUME NEW n \in Nodes, Fire(n) PROVE LateInv'
  <2>1. /\ Listed(n) /\ nextTick' = [nextTick EXCEPT ![n] = @ + interval[n]] /\ due' = due \ {n}
        /\ UNCHANGED <<list, now, gap, currTick>>
    BY <1>7 DEF Fire, Rearm
  <2>2. /\ nextTick'[n] = nextTick[n] + interval[n]
        /\ \A m \in Nodes \ {n} : nextTick'[m] = nextTick[m]
    BY <1>1, <2>1
  <2>3. interval[n] \in Intervals
    BY <2>1 DEF FieldsInv, ArmedInv
  <2>4. interval[n] \in Nat /\ MaxGap <= interval[n] /\ nextTick[n] \in Nat
    BY <1>1, <2>3
  <2>5. currTick <= nextTick[n] + MaxGap
    BY <1>1, <2>1, <2>4 DEF LateInv
  <2>6. currTick <= nextTick'[n]
    BY <1>1, <2>2, <2>4, <2>5
  <2>. QED  BY <2>1, <2>2, <2>6 DEF LateInv, Listed
<1>. QED
  BY <1>2, <1>3, <1>4, <1>5, <1>6, <1>7 DEF Next, AddTimer

-----------------------------------------------------------------------------
(***************************************************************************)
(* The theorems.                                                           *)
(***************************************************************************)

\* The fields of a timer account for its calls, whatever callbacks do.
THEOREM FieldsInvariant == Spec => []FieldsInv
<1>1. Init => FieldsInv
  BY InitFields
<1>2. FieldsInv /\ [Next]_vars => FieldsInv'
  BY StepFields
<1>. QED  BY <1>1, <1>2, PTL DEF Spec

\* A timer was called no more often than its interval allows.
LEMMA CallsFit == FieldsInv => NeverEarly
<1>. SUFFICES ASSUME FieldsInv, NEW n \in Nodes, Listed(n)
              PROVE  calls[n] * interval[n] <= now - armed[n]
  BY DEF NeverEarly
<1>1. interval[n] \in Intervals
  BY DEF FieldsInv, ArmedInv
<1>2. nextTick[n] = armed[n] + calls[n] * interval[n] + interval[n] /\ nextTick[n] <= now + interval[n]
  BY DEF FieldsInv, ArmedInv
<1>3. armed[n] \in 0..now /\ now \in Nat /\ calls[n] \in Nat /\ nextTick[n] \in Nat
  BY DEF FieldsInv, TypeOK
<1>4. interval[n] \in Nat
  BY <1>1, TimersAssumption
<1>. DEFINE product == calls[n] * interval[n]
<1>5. product \in Nat
  BY <1>3, <1>4
<1>6. nextTick[n] = armed[n] + product + interval[n]
  BY <1>2
<1>. HIDE DEF product
<1>7. product <= now - armed[n]
  BY <1>2, <1>3, <1>4, <1>5, <1>6
<1>. QED  BY <1>7 DEF product

\* nNextTick += interval: a timer is never called more often than its interval
\* allows, even by callbacks that remove and add the timers of others.
THEOREM CallsNeverEarly == Spec => []NeverEarly
BY FieldsInvariant, CallsFit, PTL

\* The iterator of _CheckTimer points to a live node after any callback that
\* removes, adds or rearms its own timer or adds others.
THEOREM WalkIsSafe ==
  ASSUME ~RemoveOthers
  PROVE  Spec => []WalkInv
<1>1. Init => PassInv
  BY InitPass
<1>2. FieldsInv /\ PassInv /\ [Next]_vars => PassInv'
  BY StepPass
<1>3. FieldsInv /\ PassInv => WalkInv
  BY DEF FieldsInv, PassInv, WalkInv
<1>. QED  BY <1>1, <1>2, <1>3, FieldsInvariant, PTL DEF Spec

\* And such callbacks make no pass miss a timer that was due when it began.
THEOREM PassMissesNone ==
  ASSUME ~RemoveOthers
  PROVE  Spec => NoneMissed
<1>1. Init => PassInv
  BY InitPass
<1>2. FieldsInv /\ PassInv /\ [Next]_vars => PassInv'
  BY StepPass
<1>3. FieldsInv /\ PassInv /\ [Next]_vars => [EndCheck => due = {}]_vars
  <2>. SUFFICES ASSUME FieldsInv, PassInv, EndCheck PROVE due = {}
    OBVIOUS
  <2>. QED  BY AheadIsListed DEF EndCheck, PassInv, DueInv, FieldsInv
<1>. QED  BY <1>1, <1>2, <1>3, FieldsInvariant, PTL DEF Spec, NoneMissed

\* The precision documented for Start: a timer is called at most one round of
\* the loop late, when its interval is not shorter than such a round.
THEOREM TimersOnTime ==
  ASSUME ~RemoveOthers, \A d \in Intervals : MaxGap <= d
  PROVE  Spec => []OnTime
<1>1. Init => PassInv /\ LateInv
  BY InitPass, InitLate
<1>2. FieldsInv /\ PassInv /\ LateInv /\ [Next]_vars => PassInv' /\ LateInv'
  BY StepPass, StepLate
<1>3. FieldsInv /\ PassInv /\ LateInv => OnTime
  <2>. SUFFICES ASSUME FieldsInv, PassInv, LateInv, pc = "idle", NEW n \in Nodes, Listed(n)
                PROVE  now <= nextTick[n] + MaxGap
    BY CallsFit DEF OnTime, Precision
  <2>1. currTick <= nextTick[n] /\ now = currTick + gap
    BY DEF PassInv, DueInv, LateInv
  <2>2. now \in Nat /\ gap \in 0..MaxGap /\ nextTick[n] \in Nat /\ currTick \in 0..now /\ MaxGap \in Nat
    BY TimersAssumption DEF FieldsInv, TypeOK
  <2>3. currTick \in Nat /\ gap \in Nat /\ gap <= MaxGap
    BY <2>2
  <2>. QED  BY <2>1, <2>2, <2>3
<1>. QED  BY <1>1, <1>2, <1>3, FieldsInvariant, PTL DEF Spec

-----------------------------------------------------------------------------
(***************************************************************************)
(* ConnTimeout: the two promises of the inactivity timer, for every number *)
(* of connections and all values of the times.                             *)
(***************************************************************************)

\* How far a phase of the loop has come, and what the phases keep empty.
Phases ==
  /\ phase = "wait" => elapsed <= WaitTimeout
  /\ phase # "wait" => elapsed <= MaxBusy
  /\ phase # "events" => batch = {}
  /\ phase # "sweep" => sweep = {}
  /\ \A c \in sweep : IsOpen(c)

\* What is not waiting in the kernel has been read and stamped.
Stamped == \A c \in Conns : IsOpen(c) /\ c \notin unread => lastSent[c] <= lastRecv[c]

Heard == \A c \in Punctual : IsOpen(c) => clock <= lastSent[c] + SendEvery

\* In a pass, a punctual connection with no event to handle was heard of within
\* one heartbeat interval before the pass began.
Fresh ==
  phase # "wait" =>
    \A c \in Punctual :
      IsOpen(c) /\ c \notin batch => clock - elapsed <= lastRecv[c] + SendEvery

\* The distance from the latest firing of the timer, phase by phase.
Since ==
  /\ loopNextTick <= loopCurrTick + Interval
  /\ phase = "wait" => clock < loopCurrTick + Interval + MaxBusy + elapsed
  /\ phase = "events" => clock < loopCurrTick + Interval + WaitTimeout + MaxBusy + elapsed
  /\ phase \in {"sweep", "rest"} => clock < loopCurrTick + Interval + elapsed

\* The latest firing found a connection in time, or has still to look at it.
Visited ==
  /\ \A c \in Conns \ sweep : IsOpen(c) => loopCurrTick <= lastRecv[c] + Timeout
  /\ \A c \in sweep : clock < lastRecv[c] + Timeout + Interval + WaitTimeout + MaxBusy + elapsed

TimeoutInv ==
  TimeoutTypeOK /\ Phases /\ Stamped /\ Heard /\ Fresh /\ Since /\ Visited /\ PunctualKept

-----------------------------------------------------------------------------
\* The invariant holds initially.
LEMMA TimeoutInitInv == TimeoutInit => TimeoutInv
  BY TimeoutAssumption, SMT
  DEF TimeoutInit, TimeoutInv, TimeoutTypeOK, Phases, Stamped, Heard, Fresh, Since, Visited,
      PunctualKept, IsOpen

\* Every step of the loop, of time and of the peers keeps it.
LEMMA TimeoutNextInv == TimeoutInv /\ [TimeoutNext]_timeoutVars => TimeoutInv'
<1> SUFFICES ASSUME TimeoutInv, [TimeoutNext]_timeoutVars PROVE TimeoutInv'
  OBVIOUS
<1> USE TimeoutAssumption DEF TimeoutInv, TimeoutTypeOK, Phases, Stamped, Heard, Fresh, Since, Visited,
        PunctualKept, IsOpen, connVars, loopVars
<1>1. CASE ClockTick
  BY <1>1, SMT DEF ClockTick, MayPass
<1>2. CASE EpollReturns
  BY <1>2, SMT DEF EpollReturns
<1>3. CASE TimerFires
  BY <1>3, SMT DEF TimerFires, TimerDue
<1>4. CASE TimerWaits
  BY <1>4, SMT DEF TimerWaits, TimerDue
<1>5. CASE EndSweep
  BY <1>5, SMT DEF EndSweep
<1>6. CASE EndPass
  BY <1>6, SMT DEF EndPass
<1>7. ASSUME NEW c \in Conns, PeerSends(c) PROVE TimeoutInv'
  BY <1>7, SMT DEF PeerSends
<1>8. ASSUME NEW c \in Conns, NewConn(c) PROVE TimeoutInv'
  BY <1>8, SMT DEF NewConn
<1>9. ASSUME NEW c \in Conns, RecvData(c) PROVE TimeoutInv'
  BY <1>9, SMT DEF RecvData, Stamp
<1>10. ASSUME NEW c \in Conns, OnTimer(c) PROVE TimeoutInv'
  BY <1>10, SMT DEF OnTimer, Expired
<1>11. CASE UNCHANGED timeoutVars
  BY <1>11, SMT DEF timeoutVars
<1> QED
  BY <1>1, <1>2, <1>3, <1>4, <1>5, <1>6, <1>7, <1>8, <1>9, <1>10, <1>11 DEF TimeoutNext

\* IInv is an invariant of the specification.
THEOREM TimeoutInductive == TimeoutSpec => []TimeoutInv
  BY TimeoutInitInv, TimeoutNextInv, PTL DEF TimeoutSpec

\* A connection whose peer sends every SendEvery is not closed by the timer if
\* SendEvery and the longest pass of the loop fit into its timeout.
THEOREM PunctualNeverClosed == TimeoutSpec => []PunctualKept
<1>1. TimeoutInv => PunctualKept
  BY DEF TimeoutInv
<1> QED
  BY TimeoutInductive, <1>1, PTL

\* A connection not heard of is closed within the timeout and the grace.
THEOREM SilentIsClosed == TimeoutSpec => []SilentClosed
<1>1. TimeoutInv => SilentClosed
  BY TimeoutAssumption, SMT
  DEF TimeoutInv, TimeoutTypeOK, Phases, Since, Visited, SilentClosed, Grace, IsOpen
<1> QED
  BY TimeoutInductive, <1>1, PTL
=============================================================================
