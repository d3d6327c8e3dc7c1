------------------------ MODULE PendingEventsProofs ------------------------
(***************************************************************************)
(* No lost wakeup, every packet deleted exactly once, close requests that  *)
(* do not overtake packets, and the promise of Mailbox, for any number of  *)
(* threads, packets and connections and any size of the wakeup pair.       *)
(***************************************************************************)
EXTENDS PendingEvents, FiniteSetTheorems, SequenceTheorems, TLAPS

-----------------------------------------------------------------------------
(***************************************************************************)
(* Times(p, s), the number of occurrences of p in s.                       *)
(***************************************************************************)

\* Times is a number.
LEMMA TimesType ==
  ASSUME NEW S, NEW s \in Seq(S), NEW p
  PROVE  /\ IsFiniteSet({i \in 1..Len(s) : s[i] = p})
         /\ Times(p, s) \in Nat
<1>1. IsFiniteSet(1..Len(s))
  BY FS_Interval
<1>2. IsFiniteSet({i \in 1..Len(s) : s[i] = p})
  BY <1>1, FS_Subset
<1>. QED  BY <1>2, FS_CardinalityType DEF Times

\* It is zero for what the queue does not contain.
LEMMA TimesNone ==
  ASSUME NEW s, NEW p, \A i \in 1..Len(s) : s[i] # p
  PROVE  Times(p, s) = 0
<1>1. {i \in 1..Len(s) : s[i] = p} = {}
  OBVIOUS
<1>. QED  BY <1>1, FS_EmptySet DEF Times

\* An empty queue has nothing in it.
LEMMA TimesEmpty == \A p : Times(p, <<>>) = 0
<1>. SUFFICES ASSUME NEW p PROVE Times(p, <<>>) = 0
  OBVIOUS
<1>. QED  BY TimesNone

\* Appending an event adds one to its own count only.
LEMMA TimesAppend ==
  ASSUME NEW S, NEW s \in Seq(S), NEW q \in S, NEW p
  PROVE  Times(p, Append(s, q)) = Times(p, s) + (IF p = q THEN 1 ELSE 0)
<1>. DEFINE A == {i \in 1..Len(s) : s[i] = p}
            B == {i \in 1..Len(Append(s, q)) : Append(s, q)[i] = p}
<1>1. /\ Len(Append(s, q)) = Len(s) + 1 /\ Append(s, q)[Len(s) + 1] = q
      /\ \A i \in 1..Len(s) : Append(s, q)[i] = s[i]
      /\ Len(s) \in Nat
  BY AppendProperties
<1>2. B = IF p = q THEN A \cup {Len(s) + 1} ELSE A
  BY <1>1
<1>3. IsFiniteSet(A) /\ Cardinality(A) \in Nat
  BY TimesType, FS_CardinalityType
<1>4. Len(s) + 1 \notin A
  BY <1>1
<1>5. Times(p, s) = Cardinality(A) /\ Times(p, Append(s, q)) = Cardinality(B)
  BY DEF Times
<1>. HIDE DEF A, B
<1>6. Cardinality(A \cup {Len(s) + 1}) = Cardinality(A) + 1
  BY <1>3, <1>4, FS_AddElement
<1>. QED  BY <1>2, <1>3, <1>5, <1>6

\* Taking the first event off takes one off its count only.
LEMMA TimesTail ==
  ASSUME NEW S, NEW s \in Seq(S), s # <<>>, NEW p
  PROVE  Times(p, s) = Times(p, Tail(s)) + (IF p = Head(s) THEN 1 ELSE 0)
<1>. DEFINE A == {i \in 1..Len(Tail(s)) : Tail(s)[i] = p}
            B == {i \in 1..Len(s) : s[i] = p}
            C == {i \in 2..Len(s) : s[i] = p}
            f == [i \in A |-> i + 1]
<1>1. /\ Tail(s) \in Seq(S) /\ Len(Tail(s)) = Len(s) - 1 /\ Len(s) \in Nat \ {0}
      /\ \A i \in 1..Len(Tail(s)) : Tail(s)[i] = s[i + 1]
      /\ Head(s) = s[1]
  BY HeadTailProperties, EmptySeq
<1>2. f \in Bijection(A, C)
  <2>1. f \in [A -> C]
    BY <1>1
  <2>2. \A i, j \in A : f[i] = f[j] => i = j
    BY <1>1
  <2>3. \A k \in C : \E i \in A : f[i] = k
    <3>. SUFFICES ASSUME NEW k \in C PROVE \E i \in A : f[i] = k
      OBVIOUS
    <3>1. k - 1 \in A /\ (k - 1) + 1 = k
      BY <1>1
    <3>. QED  BY <3>1
  <2>. QED  BY <2>1, <2>2, <2>3 DEF Bijection, Injection, Surjection, IsInjective
<1>3. IsFiniteSet(A) /\ Cardinality(A) \in Nat
  <2>1. Tail(s) \in Seq(S)
    BY <1>1
  <2>2. IsFiniteSet(A)
    BY <2>1, TimesType
  <2>. QED  BY <2>2, FS_CardinalityType
<1>4. IsFiniteSet(C) /\ Cardinality(C) = Cardinality(A)
  BY <1>2, <1>3, FS_Bijection DEF ExistsBijection
<1>5. B = IF p = Head(s) THEN C \cup {1} ELSE C
  BY <1>1
<1>6. 1 \notin C
  BY <1>1
<1>7. Times(p, Tail(s)) = Cardinality(A) /\ Times(p, s) = Cardinality(B)
  BY DEF Times
<1>. HIDE DEF A, B, C
<1>8. Cardinality(C \cup {1}) = Cardinality(C) + 1
  BY <1>4, <1>6, FS_AddElement
<1>. QED  BY <1>3, <1>4, <1>5, <1>7, <1>8

\* What a queue contains after an append.
LEMMA ContainsAppend ==
  ASSUME NEW S, NEW s \in Seq(S), NEW q \in S, NEW p
  PROVE  Contains(Append(s, q), p) <=> Contains(s, p) \/ p = q
BY AppendProperties, LenProperties DEF Contains

-----------------------------------------------------------------------------
(***************************************************************************)
(* The inductive invariant.                                                *)
(***************************************************************************)

\* Bytes in the wakeup pair have been noticed or will be, and a request in a
\* list is announced: by the edge, by a poster about to wake the loop, or by
\* the loop not having reached loop_callback yet.
WakeInv ==
  /\ wakeBytes > 0 => wakeEdge \/ woken
  /\ woken => pc \in {"events", "flush"}
  /\ pktList # <<>> \/ closeList # <<>> =>
       \/ wakeEdge
       \/ \E t \in Threads : poster[t] = "pushed"
       \/ pc \in {"events", "flush", "loop"}

\* A connection keeps only packets sent to it.
KeptInv == \A c \in Conns : \A i \in 1..Len(waitPkts[c]) : To[waitPkts[c][i]] = c

\* The temporary lists belong to loop_callback.
TmpInv == pc # "run" => tmpPkts = <<>> /\ tmpCloses = <<>>

IInv == TypeOK /\ WakeInv /\ KeptInv /\ TmpInv /\ OwnedOnce /\ WaitingIsTemporary

\* The invariant holds before the first post.
LEMMA InitInv == Init => IInv
<1>. SUFFICES ASSUME Init PROVE IInv
  OBVIOUS
<1>. USE PendingAssumption
<1>1. TypeOK
  <2>1. cur \in Conns
    BY DEF Init
  <2>2. <<>> \in Seq(Packets) /\ <<>> \in Seq(Requests)
    BY EmptySeq
  <2>3. /\ pktList \in Seq(Packets) /\ tmpPkts \in Seq(Packets) /\ sent \in Seq(Packets)
        /\ closeList \in Seq(Requests) /\ tmpCloses \in Seq(Requests)
    BY <2>2 DEF Init
  <2>4. waitPkts \in [Conns -> Seq(Packets)] /\ wire \in [Conns -> Seq(Packets)]
    BY <2>2 DEF Init
  <2>5. /\ conn \in [Conns -> {"none", "waiting", "open", "closed"}]
        /\ freed \in [Packets -> Nat] /\ poster \in [Threads -> {"idle", "pushed"}]
    BY DEF Init
  <2>6. /\ wakeEdge \in BOOLEAN /\ woken \in BOOLEAN
        /\ pc \in {"wait", "events", "flush", "loop", "run", "register"}
    BY DEF Init
  <2>7. wakeBytes \in 0..WakeCap /\ requests \in 0..MaxClose
    <3>1. WakeCap \in Nat /\ MaxClose \in Nat
      OBVIOUS
    <3>2. wakeBytes = 0 /\ requests = 0
      BY DEF Init
    <3>. QED  BY <3>1, <3>2
  <2>. QED  BY <2>1, <2>3, <2>4, <2>5, <2>6, <2>7 DEF TypeOK
<1>2. WakeInv /\ KeptInv /\ TmpInv /\ WaitingIsTemporary
  BY DEF Init, WakeInv, KeptInv, TmpInv, WaitingIsTemporary
<1>3. OwnedOnce
  <2>. SUFFICES ASSUME NEW p \in Packets
                PROVE  freed[p] + (Times(p, pktList) + Times(p, tmpPkts) + Times(p, waitPkts[To[p]]))
                         = IF Unsent(p) THEN 0 ELSE 1
    BY DEF OwnedOnce
  <2>1. pktList = <<>> /\ tmpPkts = <<>> /\ waitPkts[To[p]] = <<>> /\ freed[p] = 0 /\ sent = <<>>
    BY DEF Init
  <2>2. Unsent(p)
    BY <2>1 DEF Unsent, Contains
  <2>. QED  BY <2>1, <2>2, TimesEmpty
<1>. QED  BY <1>1, <1>2, <1>3 DEF IInv

\* Handling p adds one to where p is counted in the IO thread, and to nothing else.
LEMMA HandleOwned ==
  ASSUME TypeOK, KeptInv, WaitingIsTemporary, NEW p \in Packets, Handle(p), UNCHANGED <<conn, pc, cur>>
  PROVE  /\ waitPkts' \in [Conns -> Seq(Packets)] /\ wire' \in [Conns -> Seq(Packets)]
         /\ freed' \in [Packets -> Nat]
         /\ KeptInv' /\ WaitingIsTemporary'
         /\ \A q \in Packets :
              freed'[q] + Times(q, waitPkts'[To[q]])
                = freed[q] + Times(q, waitPkts[To[q]]) + (IF q = p THEN 1 ELSE 0)
<1>. USE PendingAssumption
<1>. DEFINE c == To[p]
<1>0. /\ c \in Conns /\ conn[c] \in {"none", "waiting", "open", "closed"}
      /\ waitPkts[c] \in Seq(Packets) /\ wire[c] \in Seq(Packets) /\ freed[p] \in Nat
  BY DEF TypeOK
<1>1. \A q \in Packets : /\ To[q] \in Conns
                         /\ Times(q, waitPkts[To[q]]) \in Nat /\ freed[q] \in Nat
  BY TimesType DEF TypeOK
<1>2. CASE Delete(p) /\ UNCHANGED waitPkts /\ (wire' = wire \/ wire' = [wire EXCEPT ![c] = Append(@, p)])
  <2>1. Append(wire[c], p) \in Seq(Packets)
    BY <1>0, AppendProperties
  <2>2. /\ wire' \in [Conns -> Seq(Packets)]
        /\ freed' \in [Packets -> Nat]
        /\ waitPkts' \in [Conns -> Seq(Packets)]
    <3>1. wire' \in [Conns -> Seq(Packets)]
      BY <1>0, <1>2, <2>1 DEF TypeOK
    <3>2. freed' = [freed EXCEPT ![p] = @ + 1]
      BY <1>2 DEF Delete
    <3>. QED  BY <1>0, <1>2, <3>1, <3>2 DEF TypeOK
  <2>3. \A q \in Packets : freed'[q] = freed[q] + (IF q = p THEN 1 ELSE 0)
    BY <1>1, <1>2 DEF Delete, TypeOK
  <2>. QED  BY <1>1, <1>2, <2>2, <2>3 DEF KeptInv, WaitingIsTemporary
<1>3. CASE conn[c] = "waiting" /\ waitPkts' = [waitPkts EXCEPT ![c] = Append(@, p)] /\ UNCHANGED <<wire, freed>>
  <2>1. /\ Append(waitPkts[c], p) \in Seq(Packets) /\ Len(Append(waitPkts[c], p)) = Len(waitPkts[c]) + 1
        /\ \A i \in 1..Len(waitPkts[c]) : Append(waitPkts[c], p)[i] = waitPkts[c][i]
        /\ Append(waitPkts[c], p)[Len(waitPkts[c]) + 1] = p
        /\ Len(waitPkts[c]) \in Nat
    BY <1>0, AppendProperties
  <2>2. waitPkts' \in [Conns -> Seq(Packets)]
    BY <1>0, <1>3, <2>1 DEF TypeOK
  <2>3. KeptInv'
    <3>. SUFFICES ASSUME NEW d \in Conns, NEW i \in 1..Len(waitPkts'[d])
                  PROVE  To[waitPkts'[d][i]] = d
      BY DEF KeptInv
    <3>1. CASE d = c
      <4>1. waitPkts'[d] = Append(waitPkts[c], p)
        BY <1>0, <1>3, <3>1 DEF TypeOK
      <4>. QED  BY <1>0, <2>1, <3>1, <4>1 DEF KeptInv
    <3>2. CASE d # c
      <4>1. waitPkts'[d] = waitPkts[d]
        BY <1>3, <3>2 DEF TypeOK
      <4>. QED  BY <4>1 DEF KeptInv
    <3>. QED  BY <3>1, <3>2
  <2>4. ASSUME NEW q \in Packets
        PROVE  Times(q, waitPkts'[To[q]]) = Times(q, waitPkts[To[q]]) + (IF q = p THEN 1 ELSE 0)
    <3>1. CASE To[q] = c
      <4>1. waitPkts'[To[q]] = Append(waitPkts[c], p)
        BY <1>0, <1>3, <3>1 DEF TypeOK
      <4>2. Times(q, Append(waitPkts[c], p)) = Times(q, waitPkts[c]) + (IF q = p THEN 1 ELSE 0)
        BY <1>0, TimesAppend
      <4>. QED  BY <3>1, <4>1, <4>2
    <3>2. CASE To[q] # c
      <4>1. waitPkts'[To[q]] = waitPkts[To[q]] /\ q # p
        BY <1>1, <1>3, <3>2 DEF TypeOK
      <4>. QED  BY <1>1, <4>1
    <3>. QED  BY <3>1, <3>2
  <2>5. WaitingIsTemporary'
    BY <1>3 DEF WaitingIsTemporary, TypeOK
  <2>6. wire' \in [Conns -> Seq(Packets)] /\ freed' \in [Packets -> Nat]
    BY <1>3 DEF TypeOK
  <2>7. ASSUME NEW q \in Packets
        PROVE  freed'[q] + Times(q, waitPkts'[To[q]])
                 = freed[q] + Times(q, waitPkts[To[q]]) + (IF q = p THEN 1 ELSE 0)
    BY <1>1, <1>3, <2>4
  <2>. QED  BY <2>2, <2>3, <2>5, <2>6, <2>7
<1>. QED  BY <1>2, <1>3 DEF Handle

\* Closing moves what the connection keeps from kept to deleted.
LEMMA CloseOwned ==
  ASSUME TypeOK, KeptInv, WaitingIsTemporary, NEW c \in Conns, Close(c), UNCHANGED <<pc, cur>>,
         pc # "flush"
  PROVE  /\ waitPkts' \in [Conns -> Seq(Packets)] /\ wire' \in [Conns -> Seq(Packets)]
         /\ freed' \in [Packets -> Nat]
         /\ conn' \in [Conns -> {"none", "waiting", "open", "closed"}]
         /\ KeptInv' /\ WaitingIsTemporary'
         /\ \A q \in Packets :
              freed'[q] + Times(q, waitPkts'[To[q]]) = freed[q] + Times(q, waitPkts[To[q]])
<1>. USE PendingAssumption
<1>1. /\ conn' = [conn EXCEPT ![c] = "closed"] /\ waitPkts' = [waitPkts EXCEPT ![c] = <<>>]
      /\ freed' = [p \in Packets |-> freed[p] + Times(p, waitPkts[c])] /\ wire' = wire
  BY DEF Close, FreeWaiting
<1>2. \A q \in Packets : /\ freed[q] \in Nat /\ To[q] \in Conns
                         /\ Times(q, waitPkts[c]) \in Nat /\ Times(q, waitPkts[To[q]]) \in Nat
  BY TimesType DEF TypeOK
<1>3. <<>> \in Seq(Packets) /\ Len(<<>>) = 0
  BY EmptySeq
<1>4. /\ waitPkts' \in [Conns -> Seq(Packets)] /\ wire' \in [Conns -> Seq(Packets)]
      /\ freed' \in [Packets -> Nat] /\ conn' \in [Conns -> {"none", "waiting", "open", "closed"}]
  BY <1>1, <1>2, <1>3 DEF TypeOK
<1>5. KeptInv' /\ WaitingIsTemporary'
  <2>1. waitPkts'[c] = <<>> /\ \A d \in Conns \ {c} : waitPkts'[d] = waitPkts[d]
    BY <1>1 DEF TypeOK
  <2>2. \A d \in Conns \ {c} : conn'[d] = conn[d]
    BY <1>1 DEF TypeOK
  <2>3. KeptInv'
    BY <1>3, <2>1 DEF KeptInv
  <2>. QED  BY <2>1, <2>2, <2>3 DEF WaitingIsTemporary
<1>6. ASSUME NEW q \in Packets
      PROVE  freed'[q] + Times(q, waitPkts'[To[q]]) = freed[q] + Times(q, waitPkts[To[q]])
  <2>1. freed'[q] = freed[q] + Times(q, waitPkts[c])
    BY <1>1
  <2>2. CASE To[q] = c
    <3>1. waitPkts'[To[q]] = <<>>
      BY <1>1, <2>2 DEF TypeOK
    <3>2. Times(q, <<>>) = 0
      BY TimesEmpty
    <3>. QED  BY <1>2, <2>1, <2>2, <3>1, <3>2
  <2>3. CASE To[q] # c
    <3>1. waitPkts'[To[q]] = waitPkts[To[q]]
      BY <1>1, <1>2, <2>3 DEF TypeOK
    <3>2. Times(q, waitPkts[c]) = 0
      BY <2>3, TimesNone DEF KeptInv
    <3>. QED  BY <1>2, <2>1, <3>1, <3>2
  <2>. QED  BY <2>2, <2>3
<1>. QED  BY <1>4, <1>5, <1>6

\* OwnedOnce', from what one step does to the count of each packet.
LEMMA OwnedStep ==
  ASSUME OwnedOnce,
         \A q \in Packets :
           /\ freed'[q] + (Times(q, pktList') + Times(q, tmpPkts') + Times(q, waitPkts'[To[q]]))
                = freed[q] + (Times(q, pktList) + Times(q, tmpPkts) + Times(q, waitPkts[To[q]]))
           /\ Unsent(q)' <=> Unsent(q)
  PROVE  OwnedOnce'
BY DEF OwnedOnce

\* A send that is posted gets exactly one owner for its packet.
LEMMA OwnedSend ==
  ASSUME OwnedOnce, NEW p \in Packets, Unsent(p),
         \A q \in Packets :
           /\ freed'[q] + (Times(q, pktList') + Times(q, tmpPkts') + Times(q, waitPkts'[To[q]]))
                = freed[q] + (Times(q, pktList) + Times(q, tmpPkts) + Times(q, waitPkts[To[q]]))
                    + (IF q = p THEN 1 ELSE 0)
           /\ Unsent(q)' <=> Unsent(q) /\ q # p
  PROVE  OwnedOnce'
<1>. SUFFICES ASSUME NEW q \in Packets
              PROVE  freed'[q] + (Times(q, pktList') + Times(q, tmpPkts') + Times(q, waitPkts'[To[q]]))
                       = IF Unsent(q)' THEN 0 ELSE 1
  BY DEF OwnedOnce
<1>1. freed[q] + (Times(q, pktList) + Times(q, tmpPkts) + Times(q, waitPkts[To[q]]))
        = IF Unsent(q) THEN 0 ELSE 1
  BY DEF OwnedOnce
<1>2. CASE q = p
  BY <1>1, <1>2
<1>3. CASE q # p
  <2>1. 0 + 0 = 0 /\ 1 + 0 = 1
    OBVIOUS
  <2>. QED  BY <1>1, <1>3, <2>1
<1>. QED  BY <1>2, <1>3

\* Every step keeps the invariant.
LEMMA StepInv ==
  ASSUME IInv, [Next]_vars
  PROVE  IInv'
<1> USE PendingAssumption DEF IInv, lists, connVars, wakeVars
<1>0. /\ <<>> \in Seq(Packets) /\ <<>> \in Seq(Requests) /\ Len(sent) \in Nat
      /\ \A q \in Packets : /\ freed[q] \in Nat /\ Times(q, pktList) \in Nat /\ Times(q, tmpPkts) \in Nat
                            /\ Times(q, waitPkts[To[q]]) \in Nat
                            /\ Times(q, <<>>) = 0
  <2>1. <<>> \in Seq(Packets) /\ <<>> \in Seq(Requests) /\ Len(sent) \in Nat
    BY EmptySeq, LenProperties DEF TypeOK
  <2>2. ASSUME NEW q \in Packets
        PROVE  /\ freed[q] \in Nat /\ Times(q, pktList) \in Nat /\ Times(q, tmpPkts) \in Nat
               /\ Times(q, waitPkts[To[q]]) \in Nat
    <3>1. pktList \in Seq(Packets) /\ tmpPkts \in Seq(Packets) /\ waitPkts[To[q]] \in Seq(Packets)
      BY DEF TypeOK
    <3>. QED  BY <3>1, TimesType DEF TypeOK
  <2>. QED  BY <2>1, <2>2, TimesEmpty
<1>1. ASSUME NEW t \in Threads, NEW p \in Packets, PostPkt(t, p) PROVE IInv'
  <2>1. Append(pktList, p) \in Seq(Packets) /\ Append(sent, p) \in Seq(Packets)
    BY AppendProperties DEF TypeOK
  <2>2. TypeOK'
    BY <1>1, <2>1 DEF PostPkt, PushPkt, TypeOK
  <2>3. WakeInv'
    BY <1>1 DEF PostPkt, WakeInv, TypeOK
  <2>4. \A q \in Packets : Times(q, pktList') = Times(q, pktList) + (IF q = p THEN 1 ELSE 0)
    BY <1>1, TimesAppend DEF PostPkt, PushPkt, TypeOK
  <2>5. \A q \in Packets : Unsent(q)' <=> Unsent(q) /\ q # p
    BY <1>1, ContainsAppend DEF PostPkt, Unsent, TypeOK
  <2>6. OwnedOnce'
    <3>1. UNCHANGED <<freed, tmpPkts, waitPkts>> /\ Unsent(p)
      BY <1>1 DEF PostPkt
    <3>2. ASSUME NEW q \in Packets
          PROVE  freed'[q] + (Times(q, pktList') + Times(q, tmpPkts') + Times(q, waitPkts'[To[q]]))
                   = freed[q] + (Times(q, pktList) + Times(q, tmpPkts) + Times(q, waitPkts[To[q]]))
                       + (IF q = p THEN 1 ELSE 0)
      <4>1. /\ freed[q] \in Nat /\ Times(q, pktList) \in Nat /\ Times(q, tmpPkts) \in Nat
            /\ Times(q, waitPkts[To[q]]) \in Nat
        BY <1>0
      <4>2. Times(q, pktList') = Times(q, pktList) + (IF q = p THEN 1 ELSE 0)
        BY <2>4
      <4>3. /\ freed'[q] = freed[q] /\ Times(q, tmpPkts') = Times(q, tmpPkts)
            /\ Times(q, waitPkts'[To[q]]) = Times(q, waitPkts[To[q]])
        BY <3>1
      <4>. QED  BY <4>1, <4>2, <4>3
    <3>. QED  BY <2>5, <3>1, <3>2, OwnedSend
  <2>. QED  BY <1>1, <2>2, <2>3, <2>6 DEF PostPkt, KeptInv, TmpInv, WaitingIsTemporary
<1>2. ASSUME NEW t \in Threads, NEW c \in Conns, PostClose(t, c) PROVE IInv'
  <2>1. Append(closeList, [conn |-> c, mark |-> Len(sent)]) \in Seq(Requests)
    BY <1>0, AppendProperties DEF TypeOK, Requests
  <2>2. TypeOK'
    BY <1>2, <2>1 DEF PostClose, TypeOK
  <2>3. WakeInv'
    BY <1>2 DEF PostClose, WakeInv, TypeOK
  <2>. QED  BY <1>2, <2>2, <2>3 DEF PostClose, KeptInv, TmpInv, WaitingIsTemporary, OwnedOnce, Unsent
<1>3. ASSUME NEW t \in Threads, Wakeup(t) PROVE IInv'
  <2>1. TypeOK'
    <3>1. wakeBytes' \in 0..WakeCap /\ wakeEdge' \in BOOLEAN
      <4>1. WakeCap \in Nat
        OBVIOUS
      <4>2. wakeBytes \in 0..WakeCap /\ wakeEdge \in BOOLEAN
        BY DEF TypeOK
      <4>3. \/ wakeBytes < WakeCap /\ wakeBytes' = wakeBytes + 1 /\ wakeEdge' = TRUE
            \/ UNCHANGED <<wakeBytes, wakeEdge>>
        BY <1>3 DEF Wakeup, SendWakeByte, Fits
      <4>4. CASE wakeBytes < WakeCap /\ wakeBytes' = wakeBytes + 1 /\ wakeEdge' = TRUE
        <5>1. wakeBytes + 1 \in 0..WakeCap
          BY <4>1, <4>2, <4>4
        <5>. QED  BY <4>4, <5>1
      <4>5. CASE UNCHANGED <<wakeBytes, wakeEdge>>
        BY <4>2, <4>5
      <4>. QED  BY <4>3, <4>4, <4>5
    <3>2. poster' \in [Threads -> {"idle", "pushed"}]
      BY <1>3 DEF Wakeup, TypeOK
    <3>. QED  BY <1>3, <3>1, <3>2 DEF Wakeup, TypeOK
  <2>2. WakeInv'
    BY <1>3 DEF Wakeup, SendWakeByte, Fits, WakeInv, TypeOK
  <2>. QED  BY <1>3, <2>1, <2>2 DEF Wakeup, KeptInv, TmpInv, WaitingIsTemporary, OwnedOnce, Unsent
<1>4. CASE EpollReturns
  <2>1. TypeOK' /\ WakeInv'
    BY <1>4 DEF EpollReturns, TypeOK, WakeInv
  <2>. QED  BY <1>4, <2>1 DEF EpollReturns, KeptInv, TmpInv, WaitingIsTemporary, OwnedOnce, Unsent
<1>5. CASE ReadWakeupData
  <2>1. TypeOK'
    <3>1. WakeCap \in Nat /\ wakeBytes' = 0
      BY <1>5 DEF ReadWakeupData
    <3>2. wakeBytes' \in 0..WakeCap
      BY <3>1
    <3>. QED  BY <1>5, <3>2 DEF ReadWakeupData, TypeOK
  <2>2. WakeInv'
    BY <1>5 DEF ReadWakeupData, WakeInv
  <2>. QED  BY <1>5, <2>1, <2>2 DEF ReadWakeupData, KeptInv, TmpInv, WaitingIsTemporary, OwnedOnce, Unsent
<1>6. ASSUME NEW p \in Packets, SendInLoop(p) PROVE IInv'
  <2>1. Append(sent, p) \in Seq(Packets)
    BY AppendProperties DEF TypeOK
  <2>2. /\ waitPkts' \in [Conns -> Seq(Packets)] /\ wire' \in [Conns -> Seq(Packets)]
        /\ freed' \in [Packets -> Nat] /\ KeptInv' /\ WaitingIsTemporary'
        /\ \A q \in Packets : freed'[q] + Times(q, waitPkts'[To[q]])
                                = freed[q] + Times(q, waitPkts[To[q]]) + (IF q = p THEN 1 ELSE 0)
    BY <1>6, HandleOwned DEF SendInLoop
  <2>3. \A q \in Packets : Unsent(q)' <=> Unsent(q) /\ q # p
    BY <1>6, ContainsAppend DEF SendInLoop, Unsent, TypeOK
  <2>4. \A q \in Packets : freed'[q] \in Nat /\ Times(q, waitPkts'[To[q]]) \in Nat
    <3>1. \A q \in Packets : waitPkts'[To[q]] \in Seq(Packets)
      BY <2>2
    <3>. QED  BY <2>2, <3>1, TimesType
  <2>5. OwnedOnce'
    <3>1. UNCHANGED <<pktList, tmpPkts>> /\ Unsent(p)
      BY <1>6 DEF SendInLoop
    <3>2. ASSUME NEW q \in Packets
          PROVE  freed'[q] + (Times(q, pktList') + Times(q, tmpPkts') + Times(q, waitPkts'[To[q]]))
                   = freed[q] + (Times(q, pktList) + Times(q, tmpPkts) + Times(q, waitPkts[To[q]]))
                       + (IF q = p THEN 1 ELSE 0)
      <4>1. /\ freed[q] \in Nat /\ Times(q, pktList) \in Nat /\ Times(q, tmpPkts) \in Nat
            /\ Times(q, waitPkts[To[q]]) \in Nat
            /\ freed'[q] \in Nat /\ Times(q, waitPkts'[To[q]]) \in Nat
        BY <1>0, <2>4
      <4>2. freed'[q] + Times(q, waitPkts'[To[q]]) = freed[q] + Times(q, waitPkts[To[q]]) + (IF q = p THEN 1 ELSE 0)
        BY <2>2
      <4>3. Times(q, pktList') = Times(q, pktList) /\ Times(q, tmpPkts') = Times(q, tmpPkts)
        BY <3>1
      <4>. QED  BY <4>1, <4>2, <4>3
    <3>. QED  BY <2>3, <3>1, <3>2, OwnedSend
  <2>6. TypeOK'
    BY <1>6, <2>1, <2>2 DEF SendInLoop, TypeOK
  <2>. QED  BY <1>6, <2>2, <2>5, <2>6 DEF SendInLoop, WakeInv, TmpInv
<1>7. ASSUME NEW c \in Conns, Connect(c) PROVE IInv'
  <2>1. TypeOK'
    BY <1>7 DEF Connect, TypeOK
  <2>. QED  BY <1>7, <2>1 DEF Connect, WakeInv, KeptInv, TmpInv, WaitingIsTemporary, OwnedOnce, Unsent, TypeOK
<1>8. ASSUME NEW c \in Conns, OnConfirm(c) PROVE IInv'
  <2>1. TypeOK'
    BY <1>8 DEF OnConfirm, TypeOK
  <2>. QED  BY <1>8, <2>1 DEF OnConfirm, WakeInv, KeptInv, TmpInv, WaitingIsTemporary, OwnedOnce, Unsent, TypeOK
<1>9. CASE FlushOne
  <2>. DEFINE p == Head(waitPkts[cur])
  <2>1. /\ cur \in Conns /\ waitPkts[cur] \in Seq(Packets) /\ waitPkts[cur] # <<>>
        /\ wire[cur] \in Seq(Packets) /\ pc = "flush"
    BY <1>9 DEF FlushOne, TypeOK
  <2>2. /\ p \in Packets /\ p = waitPkts[cur][1] /\ Len(waitPkts[cur]) \in Nat \ {0}
        /\ Tail(waitPkts[cur]) \in Seq(Packets) /\ Len(Tail(waitPkts[cur])) = Len(waitPkts[cur]) - 1
        /\ \A i \in 1..Len(Tail(waitPkts[cur])) : Tail(waitPkts[cur])[i] = waitPkts[cur][i + 1]
    BY <2>1, HeadTailProperties, EmptySeq
  <2>3. To[p] = cur
    BY <2>1, <2>2 DEF KeptInv
  <2>4. /\ waitPkts' = [waitPkts EXCEPT ![cur] = Tail(@)] /\ wire' = [wire EXCEPT ![cur] = Append(@, p)]
        /\ freed' = [freed EXCEPT ![p] = @ + 1] /\ UNCHANGED <<lists, conn, pc, cur, sent>>
    BY <1>9 DEF FlushOne, Delete
  <2>5. waitPkts'[cur] = Tail(waitPkts[cur]) /\ \A d \in Conns \ {cur} : waitPkts'[d] = waitPkts[d]
    BY <2>1, <2>4 DEF TypeOK
  <2>6. TypeOK'
    <3>1. Append(wire[cur], p) \in Seq(Packets)
      BY <2>1, <2>2, AppendProperties
    <3>2. waitPkts' \in [Conns -> Seq(Packets)] /\ wire' \in [Conns -> Seq(Packets)]
      BY <2>1, <2>2, <2>4, <3>1 DEF TypeOK
    <3>3. freed' \in [Packets -> Nat]
      <4>1. freed \in [Packets -> Nat] /\ freed[p] + 1 \in Nat
        <5>1. freed \in [Packets -> Nat] /\ p \in Packets
          BY <2>2 DEF TypeOK
        <5>. HIDE DEF p
        <5>. QED  BY <5>1
      <4>. QED  BY <2>2, <2>4, <4>1
    <3>. QED  BY <1>9, <3>2, <3>3 DEF FlushOne, TypeOK
  <2>7. KeptInv'
    <3>. SUFFICES ASSUME NEW d \in Conns, NEW i \in 1..Len(waitPkts'[d]) PROVE To[waitPkts'[d][i]] = d
      BY DEF KeptInv
    <3>1. CASE d = cur
      <4>1. waitPkts'[d] = Tail(waitPkts[cur]) /\ i \in 1..Len(Tail(waitPkts[cur]))
        BY <2>5, <3>1
      <4>2. waitPkts'[d][i] = waitPkts[cur][i + 1] /\ i + 1 \in 1..Len(waitPkts[cur])
        BY <2>2, <4>1
      <4>. QED  BY <2>1, <3>1, <4>2 DEF KeptInv
    <3>2. CASE d # cur
      BY <2>5, <3>2 DEF KeptInv
    <3>. QED  BY <3>1, <3>2
  <2>8. WaitingIsTemporary'
    BY <2>1, <2>4, <2>5 DEF WaitingIsTemporary
  <2>9. OwnedOnce'
    <3>1. ASSUME NEW q \in Packets
          PROVE  freed'[q] + (Times(q, pktList') + Times(q, tmpPkts') + Times(q, waitPkts'[To[q]]))
                   = freed[q] + (Times(q, pktList) + Times(q, tmpPkts) + Times(q, waitPkts[To[q]]))
      <4>1. freed'[q] = freed[q] + (IF q = p THEN 1 ELSE 0)
        <5>1. freed \in [Packets -> Nat] /\ freed[q] \in Nat /\ p \in Packets
          BY <1>0, <2>2 DEF TypeOK
        <5>2. freed' = [freed EXCEPT ![p] = @ + 1]
          BY <2>4
        <5>. HIDE DEF p
        <5>. QED  BY <5>1, <5>2
      <4>2. /\ Times(q, Tail(waitPkts[cur])) \in Nat
            /\ Times(q, waitPkts[cur]) = Times(q, Tail(waitPkts[cur])) + (IF q = p THEN 1 ELSE 0)
        BY <2>1, <2>2, TimesTail, TimesType
      <4>3. CASE To[q] = cur
        BY <1>0, <2>4, <2>5, <4>1, <4>2, <4>3
      <4>4. CASE To[q] # cur
        <5>1. q # p /\ To[q] \in Conns \ {cur}
          BY <2>3, <4>4
        <5>. QED  BY <1>0, <2>4, <2>5, <4>1, <5>1
      <4>. QED  BY <4>3, <4>4
    <3>2. \A q \in Packets : Unsent(q)' <=> Unsent(q)
      BY <2>4 DEF Unsent
    <3>. QED  BY <3>1, <3>2, OwnedStep
  <2>. QED  BY <1>9, <2>6, <2>7, <2>8, <2>9 DEF FlushOne, WakeInv, TmpInv
<1>10. CASE EndFlush
  <2>1. TypeOK'
    BY <1>10 DEF EndFlush, TypeOK
  <2>. QED  BY <1>10, <2>1 DEF EndFlush, WakeInv, KeptInv, TmpInv, WaitingIsTemporary, OwnedOnce, Unsent
<1>11. ASSUME NEW c \in Conns, CloseInLoop(c) PROVE IInv'
  <2>1. /\ waitPkts' \in [Conns -> Seq(Packets)] /\ wire' \in [Conns -> Seq(Packets)]
        /\ freed' \in [Packets -> Nat] /\ conn' \in [Conns -> {"none", "waiting", "open", "closed"}]
        /\ KeptInv' /\ WaitingIsTemporary'
        /\ \A q \in Packets : freed'[q] + Times(q, waitPkts'[To[q]]) = freed[q] + Times(q, waitPkts[To[q]])
    BY <1>11, CloseOwned DEF CloseInLoop
  <2>2. \A q \in Packets : freed'[q] \in Nat /\ Times(q, waitPkts'[To[q]]) \in Nat
    <3>1. \A q \in Packets : waitPkts'[To[q]] \in Seq(Packets)
      BY <2>1
    <3>. QED  BY <2>1, <3>1, TimesType
  <2>3. OwnedOnce'
    <3>1. UNCHANGED <<pktList, tmpPkts, sent>>
      BY <1>11 DEF CloseInLoop
    <3>2. ASSUME NEW q \in Packets
          PROVE  freed'[q] + (Times(q, pktList') + Times(q, tmpPkts') + Times(q, waitPkts'[To[q]]))
                   = freed[q] + (Times(q, pktList) + Times(q, tmpPkts) + Times(q, waitPkts[To[q]]))
      <4>1. /\ freed[q] \in Nat /\ Times(q, pktList) \in Nat /\ Times(q, tmpPkts) \in Nat
            /\ Times(q, waitPkts[To[q]]) \in Nat
            /\ freed'[q] \in Nat /\ Times(q, waitPkts'[To[q]]) \in Nat
        BY <1>0, <2>2
      <4>2. freed'[q] + Times(q, waitPkts'[To[q]]) = freed[q] + Times(q, waitPkts[To[q]])
        BY <2>1
      <4>3. Times(q, pktList') = Times(q, pktList) /\ Times(q, tmpPkts') = Times(q, tmpPkts)
        BY <3>1
      <4>. QED  BY <4>1, <4>2, <4>3
    <3>3. \A q \in Packets : Unsent(q)' <=> Unsent(q)
      BY <3>1 DEF Unsent
    <3>. QED  BY <3>2, <3>3, OwnedStep
  <2>4. TypeOK'
    BY <1>11, <2>1 DEF CloseInLoop, TypeOK
  <2>. QED  BY <1>11, <2>1, <2>3, <2>4 DEF CloseInLoop, WakeInv, TmpInv
<1>12. CASE EndEvents
  <2>1. TypeOK' /\ WakeInv'
    BY <1>12 DEF EndEvents, TypeOK, WakeInv
  <2>. QED  BY <1>12, <2>1 DEF EndEvents, KeptInv, TmpInv, WaitingIsTemporary, OwnedOnce, Unsent
<1>13. CASE SwapLists
  <2>1. TypeOK'
    BY <1>0, <1>13 DEF SwapLists, TypeOK
  <2>2. OwnedOnce'
    BY <1>0, <1>13 DEF SwapLists, OwnedOnce, Unsent, TmpInv
  <2>. QED  BY <1>13, <2>1, <2>2 DEF SwapLists, WakeInv, KeptInv, TmpInv, WaitingIsTemporary
<1>14. CASE RunPkt
  <2>. DEFINE p == Head(tmpPkts)
  <2>1. /\ tmpPkts \in Seq(Packets) /\ tmpPkts # <<>> /\ pc = "run" /\ tmpPkts' = Tail(tmpPkts) /\ Handle(p)
        /\ UNCHANGED <<pktList, closeList, tmpCloses, conn, pc, cur, sent>>
    BY <1>14 DEF RunPkt, TypeOK
  <2>2. p \in Packets /\ Tail(tmpPkts) \in Seq(Packets)
    BY <2>1, HeadTailProperties
  <2>3. /\ waitPkts' \in [Conns -> Seq(Packets)] /\ wire' \in [Conns -> Seq(Packets)]
        /\ freed' \in [Packets -> Nat] /\ KeptInv' /\ WaitingIsTemporary'
        /\ \A q \in Packets : freed'[q] + Times(q, waitPkts'[To[q]])
                                = freed[q] + Times(q, waitPkts[To[q]]) + (IF q = p THEN 1 ELSE 0)
    BY <2>1, <2>2, HandleOwned
  <2>4. \A q \in Packets : freed'[q] \in Nat /\ Times(q, waitPkts'[To[q]]) \in Nat
    <3>1. \A q \in Packets : waitPkts'[To[q]] \in Seq(Packets)
      BY <2>3
    <3>. QED  BY <2>3, <3>1, TimesType
  <2>5. \A q \in Packets : /\ Times(q, Tail(tmpPkts)) \in Nat
                           /\ Times(q, tmpPkts) = Times(q, Tail(tmpPkts)) + (IF q = p THEN 1 ELSE 0)
    BY <2>1, <2>2, TimesTail, TimesType
  <2>6. OwnedOnce'
    <3>1. ASSUME NEW q \in Packets
          PROVE  freed'[q] + (Times(q, pktList') + Times(q, tmpPkts') + Times(q, waitPkts'[To[q]]))
                   = freed[q] + (Times(q, pktList) + Times(q, tmpPkts) + Times(q, waitPkts[To[q]]))
      <4>1. /\ freed[q] \in Nat /\ Times(q, pktList) \in Nat /\ Times(q, tmpPkts) \in Nat
            /\ Times(q, waitPkts[To[q]]) \in Nat
            /\ freed'[q] \in Nat /\ Times(q, waitPkts'[To[q]]) \in Nat
        BY <1>0, <2>4
      <4>2. freed'[q] + Times(q, waitPkts'[To[q]]) = freed[q] + Times(q, waitPkts[To[q]]) + (IF q = p THEN 1 ELSE 0)
        BY <2>3
      <4>3. /\ Times(q, pktList') = Times(q, pktList) /\ Times(q, tmpPkts') \in Nat
            /\ Times(q, tmpPkts) = Times(q, tmpPkts') + (IF q = p THEN 1 ELSE 0)
        BY <2>1, <2>5
      <4>. QED  BY <4>1, <4>2, <4>3
    <3>2. \A q \in Packets : Unsent(q)' <=> Unsent(q)
      BY <2>1 DEF Unsent
    <3>. QED  BY <3>1, <3>2, OwnedStep
  <2>7. TypeOK'
    BY <1>14, <2>2, <2>3 DEF RunPkt, TypeOK
  <2>. QED  BY <1>14, <2>1, <2>3, <2>6, <2>7 DEF RunPkt, WakeInv, TmpInv
<1>15. CASE RunClose
  <2>. DEFINE c == Head(tmpCloses).conn
  <2>1. /\ tmpCloses \in Seq(Requests) /\ tmpCloses # <<>> /\ pc = "run" /\ tmpCloses' = Tail(tmpCloses)
        /\ UNCHANGED <<pktList, closeList, tmpPkts, pc, cur, sent, poster, wakeVars, requests>>
    BY <1>15 DEF RunClose, TypeOK
  <2>2. c \in Conns /\ Tail(tmpCloses) \in Seq(Requests)
    <3>1. Head(tmpCloses) \in Requests /\ Tail(tmpCloses) \in Seq(Requests)
      BY <2>1, HeadTailProperties
    <3>. QED  BY <3>1 DEF Requests
  <2>3. /\ waitPkts' \in [Conns -> Seq(Packets)] /\ wire' \in [Conns -> Seq(Packets)]
        /\ freed' \in [Packets -> Nat] /\ conn' \in [Conns -> {"none", "waiting", "open", "closed"}]
        /\ KeptInv' /\ WaitingIsTemporary'
        /\ \A q \in Packets : freed'[q] + Times(q, waitPkts'[To[q]]) = freed[q] + Times(q, waitPkts[To[q]])
    <3>1. CASE Close(c)
      BY <2>1, <2>2, <3>1, CloseOwned
    <3>2. CASE UNCHANGED <<conn, waitPkts, wire, freed>>
      BY <2>1, <3>2 DEF TypeOK, KeptInv, WaitingIsTemporary
    <3>. QED  BY <1>15, <3>1, <3>2 DEF RunClose
  <2>4. \A q \in Packets : freed'[q] \in Nat /\ Times(q, waitPkts'[To[q]]) \in Nat
    <3>1. \A q \in Packets : waitPkts'[To[q]] \in Seq(Packets)
      BY <2>3
    <3>. QED  BY <2>3, <3>1, TimesType
  <2>5. OwnedOnce'
    <3>1. ASSUME NEW q \in Packets
          PROVE  freed'[q] + (Times(q, pktList') + Times(q, tmpPkts') + Times(q, waitPkts'[To[q]]))
                   = freed[q] + (Times(q, pktList) + Times(q, tmpPkts) + Times(q, waitPkts[To[q]]))
      <4>1. /\ freed[q] \in Nat /\ Times(q, pktList) \in Nat /\ Times(q, tmpPkts) \in Nat
            /\ Times(q, waitPkts[To[q]]) \in Nat
            /\ freed'[q] \in Nat /\ Times(q, waitPkts'[To[q]]) \in Nat
        BY <1>0, <2>4
      <4>2. freed'[q] + Times(q, waitPkts'[To[q]]) = freed[q] + Times(q, waitPkts[To[q]])
        BY <2>3
      <4>3. Times(q, pktList') = Times(q, pktList) /\ Times(q, tmpPkts') = Times(q, tmpPkts)
        BY <2>1
      <4>. QED  BY <4>1, <4>2, <4>3
    <3>2. \A q \in Packets : Unsent(q)' <=> Unsent(q)
      BY <2>1 DEF Unsent
    <3>. QED  BY <3>1, <3>2, OwnedStep
  <2>6. TypeOK'
    BY <2>1, <2>2, <2>3 DEF TypeOK
  <2>. QED  BY <2>1, <2>3, <2>5, <2>6 DEF WakeInv, TmpInv
<1>16. CASE EndLoop
  <2>1. TypeOK' /\ WakeInv'
    BY <1>16 DEF EndLoop, TypeOK, WakeInv
  <2>. QED  BY <1>16, <2>1 DEF EndLoop, KeptInv, TmpInv, WaitingIsTemporary, OwnedOnce, Unsent
<1>17. ASSUME NEW c \in Conns, RegisterAccepted(c) PROVE IInv'
  <2>1. TypeOK'
    BY <1>17 DEF RegisterAccepted, TypeOK
  <2>. QED  BY <1>17, <2>1 DEF RegisterAccepted, WakeInv, KeptInv, TmpInv, WaitingIsTemporary, OwnedOnce, Unsent, TypeOK
<1>18. CASE EndRegister
  <2>1. TypeOK' /\ WakeInv'
    BY <1>18 DEF EndRegister, TypeOK, WakeInv
  <2>. QED  BY <1>18, <2>1 DEF EndRegister, KeptInv, TmpInv, WaitingIsTemporary, OwnedOnce, Unsent
<1>19. CASE UNCHANGED vars
  BY <1>19 DEF vars, TypeOK, WakeInv, KeptInv, TmpInv, WaitingIsTemporary, OwnedOnce, Unsent
<1>. QED
  BY <1>1, <1>2, <1>3, <1>4, <1>5, <1>6, <1>7, <1>8, <1>9, <1>10, <1>11, <1>12, <1>13, <1>14, <1>15,
     <1>16, <1>17, <1>18, <1>19 DEF Next, LoopWork, Handlers, Posters

\* The invariant of the hand-over to the IO thread: no post is left without a
\* wakeup or a turn of the loop, and each packet has one owner at each step.
THEOREM Inductive == Spec => []IInv
<1>1. Init => IInv
  BY InitInv
<1>2. IInv /\ [Next]_vars => IInv'
  BY StepInv
<1>. QED  BY <1>1, <1>2, PTL DEF Spec

\* The values of the variables of SendPkt, CloseHandle and loop_callback.
THEOREM TypeCorrect == Spec => []TypeOK
<1>1. IInv => TypeOK
  BY DEF IInv
<1>. QED  BY <1>1, Inductive, PTL

\* The IO thread never sleeps in epoll_wait on a request: the order "push,
\* then Wakeup" and the drain of the pair before the swap of the lists suffice,
\* also when the pair is full and the byte is lost.
THEOREM WakeupKept == Spec => []NoLostWakeup
<1>1. IInv => NoLostWakeup
  BY DEF IInv, WakeInv, NoLostWakeup
<1>. QED  BY <1>1, Inductive, PTL

\* A packet is deleted once, whichever of the five ways it takes, and never
\* while a list still holds it; none is stranded in the wait list of a
\* connection that was confirmed or closed.
THEOREM PacketsOwned == Spec => []PacketsInv
<1>1. IInv => PacketsInv
  BY DEF IInv, PacketsInv
<1>. QED  BY <1>1, Inductive, PTL

-----------------------------------------------------------------------------
(***************************************************************************)
(* Where a packet is, in words: what OwnedOnce says without counting.      *)
(***************************************************************************)

\* A count above zero means the event is in the queue.
LEMMA TimesContains ==
  ASSUME NEW S, NEW s \in Seq(S), NEW p
  PROVE  Times(p, s) \in Nat /\ (Times(p, s) = 0 <=> ~Contains(s, p))
<1>. DEFINE A == {i \in 1..Len(s) : s[i] = p}
<1>1. IsFiniteSet(A) /\ Times(p, s) \in Nat
  BY TimesType
<1>2. Cardinality(A) = 0 <=> A = {}
  BY <1>1, FS_EmptySet
<1>3. A = {} <=> ~Contains(s, p)
  BY DEF Contains
<1>. QED  BY <1>1, <1>2, <1>3 DEF Times

\* What a queue contains after its first event was taken.
LEMMA ContainsTail ==
  ASSUME NEW S, NEW s \in Seq(S), s # <<>>, NEW p
  PROVE  Contains(s, p) <=> p = Head(s) \/ Contains(Tail(s), p)
<1>1. /\ Len(Tail(s)) = Len(s) - 1 /\ Len(s) \in Nat \ {0} /\ Head(s) = s[1]
      /\ \A i \in 1..Len(Tail(s)) : Tail(s)[i] = s[i + 1]
  BY HeadTailProperties, EmptySeq
<1>2. ASSUME NEW i \in 1..Len(s), s[i] = p PROVE p = Head(s) \/ Contains(Tail(s), p)
  <2>1. CASE i = 1
    BY <1>1, <1>2, <2>1
  <2>2. CASE i # 1
    <3>1. i - 1 \in 1..Len(Tail(s)) /\ (i - 1) + 1 = i
      BY <1>1, <2>2
    <3>2. Tail(s)[i - 1] = p
      BY <1>1, <1>2, <3>1
    <3>. QED  BY <3>1, <3>2 DEF Contains
  <2>. QED  BY <2>1, <2>2
<1>3. ASSUME NEW i \in 1..Len(Tail(s)), Tail(s)[i] = p PROVE Contains(s, p)
  <2>1. i + 1 \in 1..Len(s) /\ s[i + 1] = p
    BY <1>1, <1>3
  <2>. QED  BY <2>1 DEF Contains
<1>4. p = Head(s) => Contains(s, p)
  BY <1>1 DEF Contains
<1>. QED  BY <1>2, <1>3, <1>4 DEF Contains

\* A list contains only what its type allows.
LEMMA ContainsIn ==
  ASSUME NEW S, NEW s \in Seq(S), NEW p, Contains(s, p)
  PROVE  p \in S
BY DEF Contains

\* An empty queue contains nothing.
LEMMA ContainsEmpty == \A p : ~Contains(<<>>, p)
BY DEF Contains

\* The lists that hold p.
Held(p) == Contains(pktList, p) \/ Contains(tmpPkts, p) \/ Contains(waitPkts[To[p]], p)

\* What OwnedOnce says: a packet is freed or held, and held in one list.
LEMMA Owned ==
  ASSUME IInv, NEW p \in Packets
  PROVE  /\ freed[p] \in Nat
         /\ Unsent(p) => freed[p] = 0 /\ ~Held(p)
         /\ ~Unsent(p) => (freed[p] = 0 <=> Held(p)) /\ (freed[p] # 0 <=> freed[p] = 1)
         /\ Contains(pktList, p) => ~Contains(tmpPkts, p) /\ ~Contains(waitPkts[To[p]], p)
         /\ Contains(tmpPkts, p) => ~Contains(waitPkts[To[p]], p)
<1>1. /\ pktList \in Seq(Packets) /\ tmpPkts \in Seq(Packets) /\ waitPkts[To[p]] \in Seq(Packets)
      /\ freed[p] \in Nat
  BY PendingAssumption DEF IInv, TypeOK
<1>2. /\ Times(p, pktList) \in Nat /\ (Times(p, pktList) = 0 <=> ~Contains(pktList, p))
      /\ Times(p, tmpPkts) \in Nat /\ (Times(p, tmpPkts) = 0 <=> ~Contains(tmpPkts, p))
      /\ Times(p, waitPkts[To[p]]) \in Nat /\ (Times(p, waitPkts[To[p]]) = 0 <=> ~Contains(waitPkts[To[p]], p))
  BY <1>1, TimesContains
<1>3. freed[p] + (Times(p, pktList) + Times(p, tmpPkts) + Times(p, waitPkts[To[p]])) = IF Unsent(p) THEN 0 ELSE 1
  BY DEF IInv, OwnedOnce
<1>. DEFINE a == Times(p, pktList)
            b == Times(p, tmpPkts)
            d == Times(p, waitPkts[To[p]])
<1>4. a \in Nat /\ b \in Nat /\ d \in Nat /\ freed[p] \in Nat
  BY <1>1, <1>2
<1>5. freed[p] + (a + b + d) = IF Unsent(p) THEN 0 ELSE 1
  BY <1>3
<1>6. /\ a = 0 <=> ~Contains(pktList, p)
      /\ b = 0 <=> ~Contains(tmpPkts, p)
      /\ d = 0 <=> ~Contains(waitPkts[To[p]], p)
  BY <1>2
<1>. HIDE DEF a, b, d
<1>7. Unsent(p) => freed[p] = 0 /\ a = 0 /\ b = 0 /\ d = 0
  BY <1>4, <1>5
<1>8. ~Unsent(p) => /\ freed[p] = 0 <=> ~(a = 0 /\ b = 0 /\ d = 0)
                    /\ freed[p] # 0 <=> freed[p] = 1
  BY <1>4, <1>5
<1>9. (a # 0 => b = 0 /\ d = 0) /\ (b # 0 => d = 0)
  BY <1>4, <1>5
<1>. QED  BY <1>4, <1>6, <1>7, <1>8, <1>9 DEF Held

-----------------------------------------------------------------------------
(***************************************************************************)
(* The order in which one thread sent to one connection.                   *)
(***************************************************************************)

\* In the order u, q comes before p, of the same thread and to the same connection.
Ahead(u, q, p) ==
  /\ From[q] = From[p] /\ To[q] = To[p]
  /\ \E i, j \in 1..Len(u) : i < j /\ u[i] = q /\ u[j] = p

Sorted(u, s) == \A a, b \in 1..Len(s) : Ahead(u, s[a], s[b]) => a < b

\* Ahead relates packets of the list.
LEMMA AheadContains ==
  ASSUME NEW u, NEW q, NEW p, Ahead(u, q, p)
  PROVE  Contains(u, q) /\ Contains(u, p)
BY DEF Ahead, Contains

\* An append puts what is there ahead of it, and changes nothing else.
LEMMA AheadAppend ==
  ASSUME NEW S, NEW u \in Seq(S), NEW x \in S, ~Contains(u, x), NEW q, NEW p
  PROVE  /\ Ahead(u, q, p) => Ahead(Append(u, x), q, p)
         /\ Ahead(Append(u, x), q, p) => Ahead(u, q, p) \/ (p = x /\ q # x /\ From[q] = From[p] /\ To[q] = To[p])
<1>1. /\ Len(Append(u, x)) = Len(u) + 1 /\ Append(u, x)[Len(u) + 1] = x /\ Len(u) \in Nat
      /\ \A i \in 1..Len(u) : Append(u, x)[i] = u[i]
  BY AppendProperties
<1>. DEFINE v == Append(u, x)
<1>2. \A i \in 1..Len(u) : u[i] # x
  BY DEF Contains
<1>. HIDE DEF v
<1>3. Len(v) = Len(u) + 1 /\ v[Len(u) + 1] = x /\ \A i \in 1..Len(u) : v[i] = u[i]
  BY <1>1 DEF v
<1>4. Ahead(u, q, p) => Ahead(v, q, p)
  BY <1>1, <1>3 DEF Ahead
<1>5. ASSUME Ahead(v, q, p) PROVE Ahead(u, q, p) \/ (p = x /\ q # x /\ From[q] = From[p] /\ To[q] = To[p])
  <2>1. PICK i \in 1..Len(v), j \in 1..Len(v) : i < j /\ v[i] = q /\ v[j] = p
    BY <1>5 DEF Ahead
  <2>2. i \in 1..Len(u) /\ v[i] = u[i] /\ q # x
    BY <1>1, <1>2, <1>3, <2>1
  <2>3. CASE j \in 1..Len(u)
    BY <1>3, <1>5, <2>1, <2>2, <2>3 DEF Ahead
  <2>4. CASE j \notin 1..Len(u)
    <3>1. j = Len(u) + 1
      BY <1>1, <1>3, <2>4
    <3>. QED  BY <1>3, <1>5, <2>1, <2>2, <3>1 DEF Ahead
  <2>. QED  BY <2>3, <2>4
<1>. QED  BY <1>4, <1>5 DEF v

\* An empty queue is sorted.
LEMMA SortedEmpty == \A u : Sorted(u, <<>>)
BY DEF Sorted

\* It stays sorted when a packet is appended that goes ahead of none in it.
LEMMA SortedAppend ==
  ASSUME NEW S, NEW s \in Seq(S), NEW p \in S, NEW u, Sorted(u, s),
         ~Ahead(u, p, p), \A q : Contains(s, q) => ~Ahead(u, p, q)
  PROVE  Sorted(u, Append(s, p))
<1>. DEFINE t == Append(s, p)
<1>1. /\ Len(t) = Len(s) + 1 /\ t[Len(s) + 1] = p /\ Len(s) \in Nat
      /\ \A i \in 1..Len(s) : t[i] = s[i]
  BY AppendProperties
<1>. HIDE DEF t
<1>2. SUFFICES ASSUME NEW a \in 1..Len(t), NEW b \in 1..Len(t), Ahead(u, t[a], t[b]) PROVE a < b
  BY DEF Sorted, t
<1>3. CASE a \in 1..Len(s) /\ b \in 1..Len(s)
  BY <1>1, <1>2, <1>3 DEF Sorted
<1>4. CASE a = Len(s) + 1 /\ b \in 1..Len(s)
  <2>1. Contains(s, t[b])
    BY <1>1, <1>4 DEF Contains
  <2>. QED  BY <1>1, <1>2, <1>4, <2>1
<1>5. CASE a = Len(s) + 1 /\ b = Len(s) + 1
  BY <1>1, <1>2, <1>5
<1>6. CASE a \in 1..Len(s) /\ b = Len(s) + 1
  BY <1>1, <1>6
<1>. QED  BY <1>1, <1>3, <1>4, <1>5, <1>6

\* It stays sorted without its first packet, which none in it goes ahead of.
LEMMA SortedTail ==
  ASSUME NEW S, NEW s \in Seq(S), s # <<>>, NEW u, Sorted(u, s)
  PROVE  /\ Sorted(u, Tail(s))
         /\ ~Ahead(u, Head(s), Head(s))
         /\ \A q : Contains(Tail(s), q) => ~Ahead(u, q, Head(s))
<1>. DEFINE t == Tail(s)
<1>1. /\ Len(t) = Len(s) - 1 /\ Len(s) \in Nat \ {0} /\ Head(s) = s[1]
      /\ \A i \in 1..Len(t) : t[i] = s[i + 1]
  BY HeadTailProperties, EmptySeq
<1>. HIDE DEF t
<1>2. Sorted(u, t)
  <2>. SUFFICES ASSUME NEW a \in 1..Len(t), NEW b \in 1..Len(t), Ahead(u, t[a], t[b]) PROVE a < b
    BY DEF Sorted
  <2>1. a + 1 \in 1..Len(s) /\ b + 1 \in 1..Len(s) /\ Ahead(u, s[a + 1], s[b + 1])
    BY <1>1
  <2>2. a + 1 < b + 1
    BY <2>1 DEF Sorted
  <2>. QED  BY <2>2
<1>3. ~Ahead(u, Head(s), Head(s))
  BY <1>1 DEF Sorted
<1>4. ASSUME NEW q, Contains(t, q) PROVE ~Ahead(u, q, Head(s))
  <2>1. PICK i \in 1..Len(t) : t[i] = q
    BY <1>4 DEF Contains
  <2>2. i + 1 \in 1..Len(s) /\ 1 \in 1..Len(s) /\ s[i + 1] = q /\ ~(i + 1 < 1)
    BY <1>1, <2>1
  <2>. QED  BY <1>1, <2>2 DEF Sorted
<1>. QED  BY <1>2, <1>3, <1>4 DEF t

\* It stays sorted when a packet is appended that the list does not hold.
LEMMA SortedGrow ==
  ASSUME NEW S, NEW u \in Seq(S), NEW x \in S, ~Contains(u, x),
         NEW s, Sorted(u, s), ~Contains(s, x)
  PROVE  Sorted(Append(u, x), s)
<1>. SUFFICES ASSUME NEW a \in 1..Len(s), NEW b \in 1..Len(s), Ahead(Append(u, x), s[a], s[b])
              PROVE  a < b
  BY DEF Sorted
<1>1. s[b] # x
  BY DEF Contains
<1>2. Ahead(u, s[a], s[b])
  BY <1>1, AheadAppend
<1>. QED  BY <1>2 DEF Sorted

-----------------------------------------------------------------------------
(***************************************************************************)
(* The invariant behind SendThenClose and the promise of Mailbox.          *)
(***************************************************************************)

\* The lists keep the order of the sender, and so do they together: what waits
\* in a connection is ahead of tmp_pkt_list, and that ahead of pkt_list.
OrderInv ==
  /\ Sorted(sent, pktList) /\ Sorted(sent, tmpPkts)
  /\ \A c \in Conns : Sorted(sent, waitPkts[c])
  /\ \A p, q \in Packets : Ahead(sent, q, p) =>
       /\ Contains(waitPkts[To[p]], p) => ~Contains(tmpPkts, q) /\ ~Contains(pktList, q)
       /\ Contains(tmpPkts, p) => ~Contains(pktList, q)

\* A close request that loop_callback has taken found every packet sent before
\* it taken as well.
MarkInv ==
  /\ \A k \in 1..Len(closeList) : closeList[k].mark <= Len(sent)
  /\ \A k \in 1..Len(tmpCloses) :
       /\ tmpCloses[k].mark <= Len(sent)
       /\ \A i \in 1..tmpCloses[k].mark : ~Contains(pktList, sent[i])

FlushInv == pc = "flush" => conn[cur] = "open"

\* The IO thread puts nothing in its own lists.
ForeignInv ==
  \A p \in Packets : From[p] = LoopThread => ~Contains(pktList, p) /\ ~Contains(tmpPkts, p)

KnownInv == \A p \in Packets : ~Unsent(p) => Known(To[p])

\* What was given to Send is deleted at once.
WireInv == \A p \in Packets : Contains(wire[To[p]], p) => freed[p] # 0

MailInv == OrderInv /\ MarkInv /\ FlushInv /\ ForeignInv /\ KnownInv /\ WireInv

\* The mailbox invariant holds at first.
LEMMA MailInit == Init => MailInv
<1>. SUFFICES ASSUME Init PROVE MailInv
  OBVIOUS
<1>. USE PendingAssumption
<1>1. /\ pktList = <<>> /\ tmpPkts = <<>> /\ closeList = <<>> /\ tmpCloses = <<>> /\ sent = <<>>
      /\ pc = "wait" /\ \A c \in Conns : waitPkts[c] = <<>> /\ wire[c] = <<>>
  BY DEF Init
<1>2. \A p \in Packets : To[p] \in Conns
  OBVIOUS
<1>3. OrderInv
  BY <1>1, <1>2, SortedEmpty, ContainsEmpty DEF OrderInv
<1>4. MarkInv /\ FlushInv
  BY <1>1 DEF MarkInv, FlushInv
<1>5. ForeignInv /\ KnownInv /\ WireInv
  BY <1>1, <1>2, ContainsEmpty DEF ForeignInv, KnownInv, WireInv, Unsent
<1>. QED  BY <1>3, <1>4, <1>5 DEF MailInv

\* What handling p changes, by the state of its connection.
LEMMA HandleEffect ==
  ASSUME IInv, NEW p \in Packets, Handle(p)
  PROVE  LET c == To[p] IN
         /\ c \in Conns
         /\ \A d \in Conns : waitPkts'[d] = IF d = c /\ conn[c] = "waiting"
                                            THEN Append(waitPkts[c], p) ELSE waitPkts[d]
         /\ \A q \in Packets : freed'[q] = IF q = p /\ conn[c] # "waiting" THEN freed[q] + 1 ELSE freed[q]
         /\ \A q \in Packets : Contains(wire'[To[q]], q) <=> \/ Contains(wire[To[q]], q)
                                                             \/ q = p /\ conn[c] = "open"
         /\ wire' = IF conn[c] = "open" THEN [wire EXCEPT ![c] = Append(@, p)] ELSE wire
<1>. DEFINE c == To[p]
<1>1. /\ c \in Conns /\ wire \in [Conns -> Seq(Packets)] /\ waitPkts \in [Conns -> Seq(Packets)]
      /\ freed \in [Packets -> Nat] /\ \A q \in Packets : To[q] \in Conns
      /\ wire[c] \in Seq(Packets)
  BY PendingAssumption DEF IInv, TypeOK
<1>2. \A q : Contains(Append(wire[c], p), q) <=> Contains(wire[c], q) \/ q = p
  BY <1>1, ContainsAppend
<1>. DEFINE w == Append(wire[c], p)
            k == Append(waitPkts[c], p)
<1>3. CASE conn[c] = "open"
  <2>1. wire' = [wire EXCEPT ![c] = w] /\ freed' = [freed EXCEPT ![p] = @ + 1] /\ waitPkts' = waitPkts
    BY <1>3 DEF Handle, Delete, InMap
  <2>2. \A q : Contains(w, q) <=> Contains(wire[c], q) \/ q = p
    BY <1>2
  <2>. HIDE DEF w, k, c
  <2>3. \A q \in Packets : Contains(wire'[To[q]], q) <=> Contains(wire[To[q]], q) \/ q = p
    <3>. SUFFICES ASSUME NEW q \in Packets
                  PROVE  Contains(wire'[To[q]], q) <=> Contains(wire[To[q]], q) \/ q = p
      OBVIOUS
    <3>1. CASE To[q] = c
      <4>1. wire'[To[q]] = w
        BY <1>1, <2>1, <3>1
      <4>. QED  BY <2>2, <3>1, <4>1
    <3>2. CASE To[q] # c
      <4>1. wire'[To[q]] = wire[To[q]] /\ q # p
        BY <1>1, <2>1, <3>2 DEF c
      <4>. QED  BY <4>1
    <3>. QED  BY <3>1, <3>2
  <2>4. \A q \in Packets : freed'[q] = IF q = p THEN freed[q] + 1 ELSE freed[q]
    BY <1>1, <2>1
  <2>. QED  BY <1>1, <1>3, <2>1, <2>3, <2>4 DEF c, w, k
<1>4. CASE conn[c] = "waiting"
  <2>1. waitPkts' = [waitPkts EXCEPT ![c] = k] /\ wire' = wire /\ freed' = freed
    BY <1>4 DEF Handle, InMap
  <2>. HIDE DEF w, k, c
  <2>2. \A d \in Conns : waitPkts'[d] = IF d = c THEN k ELSE waitPkts[d]
    BY <1>1, <2>1
  <2>. QED  BY <1>1, <1>4, <2>1, <2>2 DEF c, k
<1>5. CASE ~InMap(c)
  <2>1. freed' = [freed EXCEPT ![p] = @ + 1] /\ wire' = wire /\ waitPkts' = waitPkts
    BY <1>5 DEF Handle, Delete, InMap
  <2>. HIDE DEF w, k
  <2>2. \A q \in Packets : freed'[q] = IF q = p THEN freed[q] + 1 ELSE freed[q]
    BY <1>1, <2>1
  <2>. QED  BY <1>1, <1>5, <2>1, <2>2 DEF InMap
<1>. QED  BY <1>3, <1>4, <1>5 DEF InMap

\* Closing c, which is not being flushed.
LEMMA CloseEffect ==
  ASSUME IInv, NEW c \in Conns, InMap(c), Close(c), pc # "flush"
  PROVE  /\ conn' = [conn EXCEPT ![c] = "closed"] /\ wire' = wire
         /\ \A d \in Conns : waitPkts'[d] = IF d = c THEN <<>> ELSE waitPkts[d]
         /\ \A q \in Packets : IF Contains(waitPkts[c], q)
                               THEN To[q] = c /\ conn[c] = "waiting" /\ freed[q] = 0 /\ freed'[q] = 1 /\ ~Unsent(q)
                               ELSE freed'[q] = freed[q]
<1>1. /\ conn' = [conn EXCEPT ![c] = "closed"] /\ waitPkts' = [waitPkts EXCEPT ![c] = <<>>]
      /\ freed' = [p \in Packets |-> freed[p] + Times(p, waitPkts[c])] /\ wire' = wire
  BY DEF Close, FreeWaiting
<1>2. /\ waitPkts \in [Conns -> Seq(Packets)] /\ freed \in [Packets -> Nat] /\ waitPkts[c] \in Seq(Packets)
  BY DEF IInv, TypeOK
<1>3. ASSUME NEW q \in Packets, Contains(waitPkts[c], q)
      PROVE  To[q] = c /\ conn[c] = "waiting" /\ freed[q] = 0 /\ freed'[q] = 1 /\ ~Unsent(q)
  <2>1. To[q] = c /\ waitPkts[c] # <<>>
    BY <1>3 DEF IInv, KeptInv, Contains
  <2>2. conn[c] = "waiting"
    BY <2>1 DEF IInv, WaitingIsTemporary
  <2>3. freed[q] = 0 /\ ~Unsent(q)
    BY <1>3, <2>1, Owned DEF Held
  <2>4. Times(q, pktList) = 0 /\ Times(q, tmpPkts) = 0
    <3>1. ~Contains(pktList, q) /\ ~Contains(tmpPkts, q)
      BY <1>3, <2>1, Owned
    <3>. QED  BY <3>1, TimesContains DEF IInv, TypeOK
  <2>5. Times(q, waitPkts[c]) \in Nat
    BY <1>2, TimesContains
  <2>6. Times(q, waitPkts[c]) = 1
    <3>1. freed[q] + (Times(q, pktList) + Times(q, tmpPkts) + Times(q, waitPkts[To[q]])) = 1
      BY <2>3 DEF IInv, OwnedOnce
    <3>. QED  BY <2>1, <2>3, <2>4, <2>5, <3>1
  <2>. QED  BY <1>1, <2>1, <2>2, <2>3, <2>6
<1>4. ASSUME NEW q \in Packets, ~Contains(waitPkts[c], q) PROVE freed'[q] = freed[q]
  <2>1. Times(q, waitPkts[c]) = 0
    BY <1>2, <1>4, TimesContains
  <2>2. freed'[q] = freed[q] + Times(q, waitPkts[c]) /\ freed[q] \in Nat
    BY <1>1, <1>2
  <2>. QED  BY <2>1, <2>2
<1>. QED  BY <1>1, <1>2, <1>3, <1>4

\* A new packet is in no list, and behind all that its thread sent.
LEMMA NewPkt ==
  ASSUME IInv, MailInv, NEW p \in Packets, Unsent(p)
  PROVE  /\ ~Contains(sent, p) /\ ~Contains(pktList, p) /\ ~Contains(tmpPkts, p)
         /\ \A c \in Conns : ~Contains(waitPkts[c], p)
         /\ Sorted(Append(sent, p), pktList) /\ Sorted(Append(sent, p), tmpPkts)
         /\ \A c \in Conns : Sorted(Append(sent, p), waitPkts[c])
         /\ \A q \in Packets : ~Ahead(Append(sent, p), p, q)
         /\ \A q, r \in Packets : Ahead(Append(sent, p), q, r) =>
              Ahead(sent, q, r) \/ (r = p /\ q # p /\ From[q] = From[p] /\ To[q] = To[p])
<1>1. sent \in Seq(Packets) /\ \A c \in Conns : waitPkts[c] \in Seq(Packets)
  BY DEF IInv, TypeOK
<1>2. ~Contains(sent, p) /\ ~Contains(pktList, p) /\ ~Contains(tmpPkts, p) /\ ~Contains(waitPkts[To[p]], p)
  BY Owned DEF Held, Unsent
<1>3. ASSUME NEW c \in Conns PROVE ~Contains(waitPkts[c], p)
  BY <1>2 DEF IInv, KeptInv, Contains
<1>4. /\ Sorted(Append(sent, p), pktList) /\ Sorted(Append(sent, p), tmpPkts)
      /\ \A c \in Conns : Sorted(Append(sent, p), waitPkts[c])
  BY <1>1, <1>2, <1>3, SortedGrow DEF MailInv, OrderInv
<1>5. \A q, r \in Packets : Ahead(Append(sent, p), q, r) =>
              Ahead(sent, q, r) \/ (r = p /\ q # p /\ From[q] = From[p] /\ To[q] = To[p])
  BY <1>1, <1>2, AheadAppend
<1>6. \A q \in Packets : ~Ahead(Append(sent, p), p, q)
  BY <1>2, <1>5, AheadContains
<1>. QED  BY <1>2, <1>3, <1>4, <1>5, <1>6

\* Sending does not disturb the marks of close requests.
LEMMA MarksKept ==
  ASSUME IInv, MarkInv, NEW p \in Packets, sent' = Append(sent, p), UNCHANGED <<closeList, tmpCloses>>,
         \A q : Contains(sent, q) /\ ~Contains(pktList, q) => ~Contains(pktList', q)
  PROVE  MarkInv'
<1>1. /\ Len(sent') = Len(sent) + 1 /\ Len(sent) \in Nat
      /\ \A i \in 1..Len(sent) : sent'[i] = sent[i]
  BY AppendProperties DEF IInv, TypeOK
<1>2. ASSUME NEW k \in 1..Len(closeList) PROVE closeList'[k].mark <= Len(sent')
  <2>1. closeList[k] \in Requests
    BY DEF IInv, TypeOK
  <2>. QED  BY <1>1, <2>1 DEF MarkInv, Requests
<1>3. ASSUME NEW k \in 1..Len(tmpCloses)
      PROVE  /\ tmpCloses'[k].mark <= Len(sent')
             /\ \A i \in 1..tmpCloses'[k].mark : ~Contains(pktList', sent'[i])
  <2>1. tmpCloses[k] \in Requests
    BY DEF IInv, TypeOK
  <2>2. tmpCloses[k].mark \in Nat /\ tmpCloses[k].mark <= Len(sent) /\ tmpCloses' = tmpCloses
    BY <2>1 DEF MarkInv, Requests
  <2>3. ASSUME NEW i \in 1..tmpCloses[k].mark PROVE ~Contains(pktList', sent'[i])
    <3>1. i \in 1..Len(sent) /\ sent'[i] = sent[i]
      BY <1>1, <2>2
    <3>2. Contains(sent, sent[i]) /\ ~Contains(pktList, sent[i])
      BY <3>1 DEF Contains, MarkInv
    <3>. QED  BY <3>1, <3>2
  <2>. QED  BY <1>1, <2>2, <2>3
<1>. QED  BY <1>2, <1>3 DEF MarkInv

\* Every step keeps it.
LEMMA MailStep == IInv /\ MailInv /\ [Next]_vars => MailInv'
<1>. SUFFICES ASSUME IInv, MailInv, [Next]_vars PROVE MailInv'
  OBVIOUS
<1>. USE PendingAssumption
<1>0. /\ \A p \in Packets : To[p] \in Conns
      /\ pktList \in Seq(Packets) /\ tmpPkts \in Seq(Packets) /\ sent \in Seq(Packets)
      /\ closeList \in Seq(Requests) /\ tmpCloses \in Seq(Requests)
      /\ waitPkts \in [Conns -> Seq(Packets)] /\ wire \in [Conns -> Seq(Packets)]
      /\ conn \in [Conns -> {"none", "waiting", "open", "closed"}] /\ freed \in [Packets -> Nat]
      /\ cur \in Conns
  BY DEF IInv, TypeOK
<1>1. ASSUME NEW t \in Threads, NEW p \in Packets, PostPkt(t, p) PROVE MailInv'
  <2>1. /\ Unsent(p) /\ From[p] = t /\ Known(To[p])
        /\ pktList' = Append(pktList, p) /\ sent' = Append(sent, p)
        /\ UNCHANGED <<closeList, tmpPkts, tmpCloses, waitPkts, conn, wire, freed, pc, cur>>
    BY <1>1 DEF PostPkt, PushPkt, connVars
  <2>2. \A q : Contains(pktList', q) <=> Contains(pktList, q) \/ q = p
    BY <1>0, <2>1, ContainsAppend
  <2>3. \A q : Contains(sent', q) <=> Contains(sent, q) \/ q = p
    BY <1>0, <2>1, ContainsAppend
  <2>. DEFINE u == Append(sent, p)
  <2>4. /\ ~Contains(sent, p) /\ ~Contains(tmpPkts, p) /\ ~Contains(waitPkts[To[p]], p)
        /\ Sorted(u, pktList) /\ Sorted(u, tmpPkts) /\ \A c \in Conns : Sorted(u, waitPkts[c])
        /\ \A q \in Packets : ~Ahead(u, p, q)
        /\ \A q, r \in Packets : Ahead(u, q, r) => Ahead(sent, q, r) \/ (r = p /\ q # p)
    BY <1>0, <2>1, NewPkt
  <2>5. Sorted(u, Append(pktList, p))
    <3>1. \A q : Contains(pktList, q) => q \in Packets
      BY <1>0 DEF Contains
    <3>. QED  BY <1>0, <2>4, <3>1, SortedAppend
  <2>6. OrderInv'
    <3>1. sent' = u
      BY <2>1
    <3>. HIDE DEF u
    <3>2. Sorted(u, pktList')
      BY <2>1, <2>5
    <3>3. ASSUME NEW r \in Packets, NEW q \in Packets, Ahead(u, q, r)
          PROVE  /\ Contains(waitPkts'[To[r]], r) => ~Contains(tmpPkts', q) /\ ~Contains(pktList', q)
                 /\ Contains(tmpPkts', r) => ~Contains(pktList', q)
      <4>1. CASE r = p
        BY <2>1, <2>4, <4>1
      <4>2. CASE Ahead(sent, q, r)
        <5>1. q # p
          BY <2>4, <4>2, AheadContains
        <5>. QED  BY <2>1, <2>2, <4>2, <5>1 DEF MailInv, OrderInv
      <4>. QED  BY <2>4, <3>3, <4>1, <4>2
    <3>. QED  BY <2>1, <2>4, <3>1, <3>2, <3>3 DEF OrderInv
  <2>7. MarkInv'
    <3>1. \A q : Contains(sent, q) /\ ~Contains(pktList, q) => ~Contains(pktList', q)
      BY <2>2, <2>4
    <3>. QED  BY <2>1, <3>1, MarksKept DEF MailInv
  <2>8. ForeignInv'
    BY <2>1, <2>2 DEF MailInv, ForeignInv
  <2>9. KnownInv'
    BY <2>1, <2>3 DEF MailInv, KnownInv, Unsent, Known
  <2>. QED  BY <2>1, <2>6, <2>7, <2>8, <2>9 DEF MailInv, FlushInv, WireInv
<1>2. ASSUME NEW t \in Threads, NEW c \in Conns, PostClose(t, c) PROVE MailInv'
  <2>1. /\ closeList' = Append(closeList, [conn |-> c, mark |-> Len(sent)])
        /\ UNCHANGED <<pktList, tmpPkts, tmpCloses, conn, waitPkts, wire, freed, pc, cur, sent>>
    BY <1>2 DEF PostClose, connVars
  <2>2. MarkInv'
    <3>. DEFINE m == [conn |-> c, mark |-> Len(sent)]
    <3>1. m \in Requests /\ m.mark = Len(sent) /\ Len(sent) \in Nat
      BY <1>0 DEF Requests
    <3>. HIDE DEF m
    <3>2. /\ Len(Append(closeList, m)) = Len(closeList) + 1 /\ Append(closeList, m)[Len(closeList) + 1] = m
          /\ \A k \in 1..Len(closeList) : Append(closeList, m)[k] = closeList[k]
          /\ Len(closeList) \in Nat
      BY <1>0, <3>1, AppendProperties
    <3>3. closeList' = Append(closeList, m)
      BY <2>1 DEF m
    <3>4. ASSUME NEW k \in 1..Len(closeList') PROVE closeList'[k].mark <= Len(sent')
      <4>1. CASE k = Len(closeList) + 1
        BY <2>1, <3>1, <3>2, <3>3, <4>1
      <4>2. CASE k # Len(closeList) + 1
        <5>1. k \in 1..Len(closeList) /\ closeList'[k] = closeList[k]
          BY <3>2, <3>3, <4>2
        <5>. QED  BY <2>1, <5>1 DEF MailInv, MarkInv
      <4>. QED  BY <4>1, <4>2
    <3>. QED  BY <2>1, <3>4 DEF MailInv, MarkInv
  <2>. QED  BY <2>1, <2>2 DEF MailInv, OrderInv, FlushInv, ForeignInv, KnownInv, WireInv, Unsent, Known
<1>3. ASSUME UNCHANGED <<lists, waitPkts, wire, freed, sent>>, \A c \in Conns : Known(c) => Known(c)', FlushInv'
      PROVE  MailInv'
  BY <1>0, <1>3 DEF MailInv, OrderInv, MarkInv, ForeignInv, KnownInv, WireInv, Unsent, lists
<1>4. ASSUME NEW t \in Threads, Wakeup(t) PROVE MailInv'
  BY <1>3, <1>4 DEF Wakeup, connVars, MailInv, FlushInv, Known
<1>5. CASE EpollReturns \/ ReadWakeupData \/ EndFlush \/ EndEvents \/ EndLoop \/ EndRegister
  BY <1>3, <1>5 DEF EpollReturns, ReadWakeupData, EndFlush, EndEvents, EndLoop, EndRegister, connVars,
                    MailInv, FlushInv, Known
<1>6. ASSUME NEW c \in Conns, Connect(c) \/ RegisterAccepted(c) PROVE MailInv'
  <2>1. FlushInv' /\ \A d \in Conns : Known(d) => Known(d)'
    BY <1>0, <1>6 DEF Connect, RegisterAccepted, FlushInv, Known
  <2>. QED  BY <1>3, <1>6, <2>1 DEF Connect, RegisterAccepted
<1>7. ASSUME NEW c \in Conns, OnConfirm(c) PROVE MailInv'
  <2>1. FlushInv' /\ \A d \in Conns : Known(d) => Known(d)'
    BY <1>0, <1>7 DEF OnConfirm, FlushInv, Known
  <2>. QED  BY <1>3, <1>7, <2>1 DEF OnConfirm
<1>8. ASSUME NEW p \in Packets, SendInLoop(p) PROVE MailInv'
  <2>. DEFINE u == Append(sent, p)
              c == To[p]
  <2>1. /\ Unsent(p) /\ From[p] = LoopThread /\ Known(c) /\ sent' = u /\ Handle(p) /\ pc = "events"
        /\ UNCHANGED <<pktList, closeList, tmpPkts, tmpCloses, conn, pc, cur>>
    BY <1>8 DEF SendInLoop, lists
  <2>2. \A q : Contains(sent', q) <=> Contains(sent, q) \/ q = p
    BY <1>0, <2>1, ContainsAppend
  <2>3. /\ ~Contains(sent, p) /\ ~Contains(pktList, p) /\ ~Contains(tmpPkts, p)
        /\ Sorted(u, pktList) /\ Sorted(u, tmpPkts) /\ \A d \in Conns : Sorted(u, waitPkts[d])
        /\ \A q \in Packets : ~Ahead(u, p, q)
        /\ \A q, r \in Packets : Ahead(u, q, r) =>
             Ahead(sent, q, r) \/ (r = p /\ q # p /\ From[q] = From[p])
    BY <1>0, <2>1, NewPkt
  <2>4. /\ c \in Conns
        /\ \A d \in Conns : waitPkts'[d] = IF d = c /\ conn[c] = "waiting"
                                           THEN Append(waitPkts[c], p) ELSE waitPkts[d]
        /\ \A q \in Packets : freed'[q] = IF q = p /\ conn[c] # "waiting" THEN freed[q] + 1 ELSE freed[q]
        /\ \A q \in Packets : Contains(wire'[To[q]], q) <=> \/ Contains(wire[To[q]], q)
                                                            \/ q = p /\ conn[c] = "open"
    BY <2>1, HandleEffect
  <2>5. \A q : Contains(Append(waitPkts[c], p), q) <=> Contains(waitPkts[c], q) \/ q = p
    BY <1>0, <2>4, ContainsAppend
  <2>6. Sorted(u, Append(waitPkts[c], p))
    <3>1. \A q : Contains(waitPkts[c], q) => q \in Packets
      BY <1>0, <2>4, ContainsIn
    <3>. QED  BY <1>0, <2>3, <2>4, <3>1, SortedAppend
  <2>7. OrderInv'
    <3>. HIDE DEF u
    <3>1. Sorted(u, pktList') /\ Sorted(u, tmpPkts')
      BY <2>1, <2>3
    <3>2. \A d \in Conns : Sorted(u, waitPkts'[d])
      BY <2>3, <2>4, <2>6
    <3>3. ASSUME NEW r \in Packets, NEW q \in Packets, Ahead(u, q, r)
          PROVE  /\ Contains(waitPkts'[To[r]], r) => ~Contains(tmpPkts', q) /\ ~Contains(pktList', q)
                 /\ Contains(tmpPkts', r) => ~Contains(pktList', q)
      <4>1. CASE r = p /\ From[q] = From[p]
        BY <2>1, <2>3, <4>1 DEF MailInv, ForeignInv
      <4>2. CASE Ahead(sent, q, r)
        <5>1. q # p /\ r # p
          BY <2>3, <4>2, AheadContains
        <5>2. Contains(waitPkts'[To[r]], r) => Contains(waitPkts[To[r]], r)
          BY <1>0, <2>4, <2>5, <5>1
        <5>. QED  BY <2>1, <4>2, <5>2 DEF MailInv, OrderInv
      <4>. QED  BY <2>3, <3>3, <4>1, <4>2
    <3>. QED  BY <2>1, <3>1, <3>2, <3>3 DEF OrderInv
  <2>8. MarkInv'
    BY <2>1, MarksKept DEF MailInv
  <2>9. KnownInv'
    BY <1>0, <2>1, <2>2 DEF MailInv, KnownInv, Unsent, Known
  <2>10. WireInv'
    <3>. SUFFICES ASSUME NEW q \in Packets, Contains(wire'[To[q]], q) PROVE freed'[q] # 0
      BY DEF WireInv
    <3>1. freed[q] \in Nat /\ (Contains(wire[To[q]], q) => freed[q] # 0)
      BY <1>0 DEF MailInv, WireInv
    <3>2. freed'[q] = IF q = p /\ conn[c] # "waiting" THEN freed[q] + 1 ELSE freed[q]
      BY <2>4
    <3>3. Contains(wire[To[q]], q) \/ (q = p /\ conn[c] = "open")
      BY <2>4
    <3>. QED  BY <3>1, <3>2, <3>3
  <2>. QED  BY <2>1, <2>7, <2>8, <2>9, <2>10 DEF MailInv, FlushInv, ForeignInv
<1>9. CASE FlushOne
  <2>. DEFINE p == Head(waitPkts[cur])
              k == Tail(waitPkts[cur])
  <2>1. /\ pc = "flush" /\ waitPkts[cur] # <<>> /\ wire' = [wire EXCEPT ![cur] = Append(@, p)]
        /\ freed' = [freed EXCEPT ![p] = @ + 1] /\ waitPkts' = [waitPkts EXCEPT ![cur] = k]
        /\ UNCHANGED <<pktList, closeList, tmpPkts, tmpCloses, conn, pc, cur, sent>>
    BY <1>9 DEF FlushOne, Delete, lists
  <2>2. waitPkts[cur] \in Seq(Packets) /\ p \in Packets /\ wire[cur] \in Seq(Packets)
    BY <1>0, <2>1, HeadTailProperties
  <2>3. To[p] = cur
    <3>1. Contains(waitPkts[cur], p)
      BY <2>1, <2>2, ContainsTail
    <3>. QED  BY <1>0, <3>1 DEF IInv, KeptInv, Contains
  <2>4. \A q : Contains(waitPkts[cur], q) <=> q = p \/ Contains(k, q)
    BY <2>1, <2>2, ContainsTail
  <2>5. Sorted(sent, k)
    BY <1>0, <2>1, <2>2, SortedTail DEF MailInv, OrderInv
  <2>6. \A q : Contains(Append(wire[cur], p), q) <=> Contains(wire[cur], q) \/ q = p
    BY <2>2, ContainsAppend
  <2>. HIDE DEF k
  <2>7. \A d \in Conns : waitPkts'[d] = IF d = cur THEN k ELSE waitPkts[d]
    BY <1>0, <2>1
  <2>8. OrderInv'
    <3>1. \A d \in Conns : Sorted(sent, waitPkts'[d])
      BY <2>5, <2>7 DEF MailInv, OrderInv
    <3>2. \A r \in Packets : Contains(waitPkts'[To[r]], r) => Contains(waitPkts[To[r]], r)
      BY <1>0, <2>4, <2>7
    <3>. QED  BY <2>1, <3>1, <3>2 DEF MailInv, OrderInv
  <2>9. WireInv'
    <3>. SUFFICES ASSUME NEW q \in Packets, Contains(wire'[To[q]], q) PROVE freed'[q] # 0
      BY DEF WireInv
    <3>. HIDE DEF p
    <3>1. freed'[q] = IF q = p THEN freed[q] + 1 ELSE freed[q]
      BY <1>0, <2>1, <2>2
    <3>2. CASE q = p
      <4>1. freed[q] \in Nat /\ freed'[q] = freed[q] + 1
        BY <1>0, <3>1, <3>2
      <4>. QED  BY <4>1
    <3>3. CASE q # p
      <4>. DEFINE w == Append(wire[cur], p)
      <4>1. \A r : Contains(w, r) <=> Contains(wire[cur], r) \/ r = p
        BY <2>6
      <4>2. wire' = [wire EXCEPT ![cur] = w]
        BY <2>1
      <4>. HIDE DEF w
      <4>3. wire'[To[q]] = IF To[q] = cur THEN w ELSE wire[To[q]]
        BY <1>0, <4>2
      <4>4. Contains(wire[To[q]], q)
        BY <3>3, <4>1, <4>3
      <4>. QED  BY <3>1, <3>3, <4>4 DEF MailInv, WireInv
    <3>. QED  BY <3>2, <3>3
  <2>. QED  BY <2>1, <2>8, <2>9 DEF MailInv, MarkInv, FlushInv, ForeignInv, KnownInv, Unsent, Known
<1>10. ASSUME NEW c \in Conns, InMap(c), Close(c), pc # "flush",
              UNCHANGED <<pktList, closeList, tmpPkts, pc, cur, sent>>,
              tmpCloses' = tmpCloses \/ (tmpCloses # <<>> /\ tmpCloses' = Tail(tmpCloses))
       PROVE  MailInv'
  <2>1. /\ conn' = [conn EXCEPT ![c] = "closed"] /\ wire' = wire
        /\ \A d \in Conns : waitPkts'[d] = IF d = c THEN <<>> ELSE waitPkts[d]
        /\ \A q \in Packets : freed[q] # 0 => freed'[q] # 0
    <3>1. \A q \in Packets : IF Contains(waitPkts[c], q) THEN freed[q] = 0 ELSE freed'[q] = freed[q]
      BY <1>10, CloseEffect
    <3>. QED  BY <1>10, <3>1, CloseEffect
  <2>2. OrderInv'
    <3>1. \A d \in Conns : Sorted(sent, waitPkts'[d])
      BY <2>1, SortedEmpty DEF MailInv, OrderInv
    <3>2. \A r \in Packets : Contains(waitPkts'[To[r]], r) => Contains(waitPkts[To[r]], r)
      BY <1>0, <2>1, ContainsEmpty
    <3>. QED  BY <1>10, <3>1, <3>2 DEF MailInv, OrderInv
  <2>3. MarkInv'
    <3>1. ASSUME tmpCloses # <<>>, tmpCloses' = Tail(tmpCloses) PROVE MarkInv'
      <4>1. /\ Len(Tail(tmpCloses)) = Len(tmpCloses) - 1 /\ Len(tmpCloses) \in Nat
            /\ \A i \in 1..Len(Tail(tmpCloses)) : Tail(tmpCloses)[i] = tmpCloses[i + 1]
        BY <1>0, <3>1, HeadTailProperties
      <4>2. \A k \in 1..Len(tmpCloses') : k + 1 \in 1..Len(tmpCloses) /\ tmpCloses'[k] = tmpCloses[k + 1]
        BY <3>1, <4>1
      <4>. QED  BY <1>10, <4>2 DEF MailInv, MarkInv
    <3>2. ASSUME tmpCloses' = tmpCloses PROVE MarkInv'
      BY <1>10, <3>2 DEF MailInv, MarkInv
    <3>. QED  BY <1>10, <3>1, <3>2
  <2>4. FlushInv' /\ KnownInv'
    BY <1>0, <1>10, <2>1 DEF FlushInv, MailInv, KnownInv, Unsent, Known
  <2>. QED  BY <1>10, <2>1, <2>2, <2>3, <2>4 DEF MailInv, ForeignInv, WireInv
<1>11. ASSUME NEW c \in Conns, CloseInLoop(c) PROVE MailInv'
  BY <1>10, <1>11 DEF CloseInLoop, lists
<1>12. CASE SwapLists
  <2>1. /\ pc = "loop" /\ tmpPkts' = pktList /\ pktList' = <<>> /\ tmpCloses' = closeList /\ closeList' = <<>>
        /\ pc' = "run" /\ UNCHANGED <<conn, waitPkts, wire, freed, cur, sent>>
    BY <1>12 DEF SwapLists, connVars
  <2>2. OrderInv'
    BY <2>1, SortedEmpty, ContainsEmpty DEF MailInv, OrderInv
  <2>3. MarkInv'
    BY <2>1, ContainsEmpty DEF MailInv, MarkInv
  <2>4. FlushInv' /\ ForeignInv' /\ KnownInv' /\ WireInv'
    BY <2>1, ContainsEmpty DEF MailInv, FlushInv, ForeignInv, KnownInv, WireInv, Unsent, Known
  <2>. QED  BY <2>2, <2>3, <2>4 DEF MailInv
<1>13. CASE RunPkt
  <2>. DEFINE p == Head(tmpPkts)
              c == To[p]
              k == Tail(tmpPkts)
  <2>1. /\ pc = "run" /\ tmpPkts # <<>> /\ Handle(p) /\ tmpPkts' = k
        /\ UNCHANGED <<pktList, closeList, tmpCloses, conn, pc, cur, sent>>
    BY <1>13 DEF RunPkt
  <2>2. p \in Packets
    BY <1>0, <2>1, HeadTailProperties
  <2>3. \A q : Contains(tmpPkts, q) <=> q = p \/ Contains(k, q)
    BY <1>0, <2>1, ContainsTail
  <2>4. /\ Sorted(sent, k) /\ ~Ahead(sent, p, p)
        /\ \A q : Contains(k, q) => ~Ahead(sent, q, p)
    BY <1>0, <2>1, SortedTail DEF MailInv, OrderInv
  <2>. HIDE DEF k
  <2>5. /\ c \in Conns
        /\ \A d \in Conns : waitPkts'[d] = IF d = c /\ conn[c] = "waiting"
                                           THEN Append(waitPkts[c], p) ELSE waitPkts[d]
        /\ \A q \in Packets : freed'[q] = IF q = p /\ conn[c] # "waiting" THEN freed[q] + 1 ELSE freed[q]
        /\ \A q \in Packets : Contains(wire'[To[q]], q) <=> \/ Contains(wire[To[q]], q)
                                                            \/ q = p /\ conn[c] = "open"
    BY <2>1, <2>2, HandleEffect
  <2>6. \A q : Contains(Append(waitPkts[c], p), q) <=> Contains(waitPkts[c], q) \/ q = p
    BY <1>0, <2>2, <2>5, ContainsAppend
  <2>7. \A q \in Packets : Contains(waitPkts[c], q) => ~Ahead(sent, p, q)
    BY <2>2, <2>3 DEF Ahead, MailInv, OrderInv
  <2>8. Sorted(sent, Append(waitPkts[c], p))
    <3>1. \A q : Contains(waitPkts[c], q) => q \in Packets
      BY <1>0, <2>5, ContainsIn
    <3>. QED  BY <1>0, <2>2, <2>4, <2>5, <2>7, <3>1, SortedAppend DEF MailInv, OrderInv
  <2>9. OrderInv'
    <3>1. \A d \in Conns : Sorted(sent, waitPkts'[d])
      BY <2>5, <2>8 DEF MailInv, OrderInv
    <3>2. ASSUME NEW r \in Packets, NEW q \in Packets, Ahead(sent, q, r)
          PROVE  /\ Contains(waitPkts'[To[r]], r) => ~Contains(tmpPkts', q) /\ ~Contains(pktList', q)
                 /\ Contains(tmpPkts', r) => ~Contains(pktList', q)
      <4>1. Contains(waitPkts'[To[r]], r) => Contains(waitPkts[To[r]], r) \/ r = p
        BY <1>0, <2>5, <2>6
      <4>2. CASE Contains(waitPkts[To[r]], r)
        BY <2>1, <2>3, <3>2, <4>2 DEF MailInv, OrderInv
      <4>3. CASE r = p
        BY <2>1, <2>3, <2>4, <3>2, <4>3 DEF MailInv, OrderInv
      <4>4. Contains(tmpPkts', r) => ~Contains(pktList', q)
        BY <2>1, <2>3, <3>2 DEF MailInv, OrderInv
      <4>. QED  BY <4>1, <4>2, <4>3, <4>4
    <3>. QED  BY <2>1, <2>4, <3>1, <3>2 DEF MailInv, OrderInv
  <2>10. WireInv'
    <3>. SUFFICES ASSUME NEW q \in Packets, Contains(wire'[To[q]], q) PROVE freed'[q] # 0
      BY DEF WireInv
    <3>1. freed[q] \in Nat /\ (Contains(wire[To[q]], q) => freed[q] # 0)
      BY <1>0 DEF MailInv, WireInv
    <3>2. freed'[q] = IF q = p /\ conn[c] # "waiting" THEN freed[q] + 1 ELSE freed[q]
      BY <2>5
    <3>3. Contains(wire[To[q]], q) \/ (q = p /\ conn[c] = "open")
      BY <2>5
    <3>. QED  BY <3>1, <3>2, <3>3
  <2>. QED  BY <2>1, <2>3, <2>9, <2>10 DEF MailInv, MarkInv, FlushInv, ForeignInv, KnownInv, Unsent, Known
<1>14. CASE RunClose
  <2>. DEFINE c == Head(tmpCloses).conn
  <2>1. /\ pc = "run" /\ tmpCloses # <<>> /\ tmpCloses' = Tail(tmpCloses)
        /\ UNCHANGED <<pktList, closeList, tmpPkts, pc, cur, sent>>
    BY <1>14 DEF RunClose
  <2>2. c \in Conns
    <3>1. Head(tmpCloses) \in Requests
      BY <1>0, <2>1, HeadTailProperties
    <3>. QED  BY <3>1 DEF Requests
  <2>3. CASE InMap(c) /\ Close(c)
    BY <1>10, <2>1, <2>2, <2>3
  <2>4. CASE UNCHANGED <<conn, waitPkts, wire, freed>>
    <3>1. MarkInv'
      <4>1. /\ Len(Tail(tmpCloses)) = Len(tmpCloses) - 1 /\ Len(tmpCloses) \in Nat
            /\ \A i \in 1..Len(Tail(tmpCloses)) : Tail(tmpCloses)[i] = tmpCloses[i + 1]
        BY <1>0, <2>1, HeadTailProperties
      <4>2. \A k \in 1..Len(tmpCloses') : k + 1 \in 1..Len(tmpCloses) /\ tmpCloses'[k] = tmpCloses[k + 1]
        BY <2>1, <4>1
      <4>. QED  BY <2>1, <4>2 DEF MailInv, MarkInv
    <3>. QED  BY <2>1, <2>4, <3>1 DEF MailInv, OrderInv, FlushInv, ForeignInv, KnownInv, WireInv, Unsent, Known
  <2>. QED  BY <1>14, <2>3, <2>4 DEF RunClose, CloseFound, connVars
<1>15. CASE UNCHANGED vars
  BY <1>3, <1>15 DEF vars, connVars, MailInv, FlushInv, Known
<1>. QED
  BY <1>1, <1>2, <1>4, <1>5, <1>6, <1>7, <1>8, <1>9, <1>11, <1>12, <1>13, <1>14, <1>15
  DEF Next, LoopWork, Handlers, Posters

-----------------------------------------------------------------------------
(***************************************************************************)
(* The promise of Mailbox, step by step.                                   *)
(***************************************************************************)

\* What a step that decides one packet does to Fate.
LEMMA FateSet ==
  ASSUME NEW p \in Packets, NEW v, Fate'[p] = v, \A q \in Packets \ {p} : Fate'[q] = Fate[q]
  PROVE  Fate' = [Fate EXCEPT ![p] = v]
<1>1. Fate = [q \in Packets |-> Fate[q]]
  BY DEF Fate
<1>2. Fate' = [q \in Packets |-> Fate'[q]]
  BY DEF Fate
<1>. QED  BY <1>1, <1>2

\* The fate of q depends on this only.
LEMMA FateSame ==
  ASSUME NEW q \in Packets, Unsent(q)' <=> Unsent(q), freed'[q] = freed[q],
         Contains(wire'[To[q]], q) <=> Contains(wire[To[q]], q)
  PROVE  Fate'[q] = Fate[q]
BY DEF Fate

\* A step that sends, frees and writes nothing is a stutter of the mailbox.
LEMMA NothingSeen ==
  ASSUME UNCHANGED <<sent, freed, wire, Gate>>
  PROVE  UNCHANGED Mbox!mboxVars
<1>1. Fate' = Fate
  BY DEF Fate, Unsent
<1>. QED  BY <1>1 DEF Mbox!mboxVars

\* What a step that changes one connection does to Gate.
LEMMA GateSet ==
  ASSUME conn \in [Conns -> {"none", "waiting", "open", "closed"}],
         NEW c \in Conns, NEW v \in {"waiting", "open", "closed"}, conn' = [conn EXCEPT ![c] = v]
  PROVE  /\ v = "open" => Gate' = [Gate EXCEPT ![c] = "open"]
         /\ v = "closed" => Gate' = [Gate EXCEPT ![c] = "gone"]
         /\ v = "waiting" /\ conn[c] = "none" => Gate' = Gate
<1>1. Gate = [d \in Conns |-> Gate[d]] /\ Gate' = [d \in Conns |-> Gate'[d]]
  BY DEF Gate
<1>2. \A d \in Conns \ {c} : Gate'[d] = Gate[d]
  BY DEF Gate
<1>3. /\ v = "open" => Gate'[c] = "open"
      /\ v = "closed" => Gate'[c] = "gone"
      /\ v = "waiting" /\ conn[c] = "none" => Gate'[c] = Gate[c]
  BY DEF Gate
<1>. QED  BY <1>1, <1>2, <1>3

\* After one more post only that packet is no longer unsent.
LEMMA SentAppend ==
  ASSUME IInv, NEW p \in Packets, Unsent(p), sent' = Append(sent, p)
  PROVE  \A q : Unsent(q)' <=> Unsent(q) /\ q # p
BY ContainsAppend DEF IInv, TypeOK, Unsent

\* Handling a packet of a list: nothing is seen of it, or it is delivered or dropped.
LEMMA RunPktPromised ==
  ASSUME IInv, IInv', MailInv, RunPkt
  PROVE  Mbox!Next \/ UNCHANGED Mbox!mboxVars
<1>. DEFINE p == Head(tmpPkts)
            c == To[p]
<1>1. /\ pc = "run" /\ tmpPkts # <<>> /\ Handle(p) /\ tmpPkts' = Tail(tmpPkts)
      /\ UNCHANGED <<pktList, conn, sent>> /\ tmpPkts \in Seq(Packets)
  BY DEF RunPkt, IInv, TypeOK
<1>2. p \in Packets /\ Contains(tmpPkts, p)
  BY <1>1, HeadTailProperties, ContainsTail
<1>3. /\ c \in Conns
      /\ \A q \in Packets : freed'[q] = IF q = p /\ conn[c] # "waiting" THEN freed[q] + 1 ELSE freed[q]
      /\ \A q \in Packets : Contains(wire'[To[q]], q) <=> \/ Contains(wire[To[q]], q)
                                                          \/ q = p /\ conn[c] = "open"
      /\ wire' = IF conn[c] = "open" THEN [wire EXCEPT ![c] = Append(@, p)] ELSE wire
  BY <1>1, <1>2, HandleEffect
<1>4. ~Unsent(p) /\ freed[p] = 0 /\ ~Contains(wire[c], p)
  BY <1>2, Owned DEF Held, MailInv, WireInv
<1>5. \A q : Unsent(q)' <=> Unsent(q)
  BY <1>1 DEF Unsent
<1>6. Gate' = Gate
  BY <1>1 DEF Gate
<1>. HIDE DEF p
<1>7. \A q \in Packets \ {p} : Fate'[q] = Fate[q]
  BY <1>3, <1>5, FateSame
<1>8. Fate[p] = "pending"
  BY <1>2, <1>4 DEF Fate
<1>9. CASE conn[c] = "open"
  <2>1. Fate'[p] = "delivered"
    <3>1. freed'[p] = 1 /\ Contains(wire'[c], p)
      BY <1>2, <1>3, <1>4, <1>9
    <3>. QED  BY <1>2, <1>4, <1>5, <3>1 DEF Fate
  <2>2. Fate' = [Fate EXCEPT ![p] = "delivered"]
    BY <1>2, <1>7, <2>1, FateSet
  <2>3. Gate[c] = "open"
    BY <1>3, <1>9 DEF Gate
  <2>4. Mbox!FirstOfItsThread(p)
    <3>1. SUFFICES ASSUME NEW i \in 1..Len(sent), NEW j \in 1..Len(sent), i < j, sent[j] = p,
                          From[sent[i]] = From[p], To[sent[i]] = To[p], Fate[sent[i]] = "pending"
                   PROVE  FALSE
      BY DEF Mbox!FirstOfItsThread
    <3>. DEFINE q == sent[i]
    <3>2. Ahead(sent, q, p) /\ q \in Packets
      <4>1. sent \in Seq(Packets)
        BY DEF IInv, TypeOK
      <4>2. q \in Packets
        BY <4>1
      <4>3. Ahead(sent, q, p)
        BY <3>1 DEF Ahead
      <4>. QED  BY <4>2, <4>3
    <3>3. ~Unsent(q) /\ freed[q] = 0
      BY <3>1, <3>2 DEF Fate
    <3>4. Held(q)
      BY <3>2, <3>3, Owned
    <3>5. ~Contains(pktList, q)
      BY <1>2, <3>2 DEF MailInv, OrderInv
    <3>6. ~Contains(tmpPkts, q)
      BY <1>1, <3>2, SortedTail, ContainsTail DEF MailInv, OrderInv, p
    <3>7. waitPkts[To[q]] = <<>>
      BY <1>1, <1>3, <1>9, <3>1 DEF IInv, WaitingIsTemporary
    <3>. QED  BY <3>4, <3>5, <3>6, <3>7, ContainsEmpty DEF Held
  <2>5. Mbox!Deliver(p)
    BY <1>1, <1>3, <1>6, <1>8, <1>9, <2>2, <2>3, <2>4 DEF Mbox!Deliver
  <2>. QED  BY <1>2, <2>5 DEF Mbox!Next
<1>10. CASE conn[c] = "waiting"
  <2>1. wire' = wire /\ \A q \in Packets : Fate'[q] = Fate[q]
    <3>1. freed'[p] = freed[p] /\ wire' = wire
      BY <1>2, <1>3, <1>10
    <3>. QED  BY <1>2, <1>5, <1>7, <3>1, FateSame
  <2>2. Fate' = Fate
    <3>1. Fate = [q \in Packets |-> Fate[q]] /\ Fate' = [q \in Packets |-> Fate'[q]]
      BY DEF Fate
    <3>. QED  BY <2>1, <3>1
  <2>. QED  BY <1>1, <1>6, <2>1, <2>2 DEF Mbox!mboxVars
<1>11. CASE ~InMap(c)
  <2>1. conn[c] # "open" /\ conn[c] # "waiting" /\ conn[c] # "none"
    BY <1>2, <1>4, <1>11 DEF InMap, MailInv, KnownInv, Known
  <2>2. Gate[c] = "gone"
    <3>1. conn[c] = "closed"
      BY <1>3, <2>1 DEF IInv, TypeOK
    <3>. QED  BY <1>3, <3>1 DEF Gate
  <2>3. Fate'[p] = "dropped"
    <3>1. freed'[p] = 1 /\ ~Contains(wire'[c], p)
      BY <1>2, <1>3, <1>4, <2>1
    <3>. QED  BY <1>2, <1>4, <1>5, <3>1 DEF Fate
  <2>4. Fate' = [Fate EXCEPT ![p] = "dropped"]
    BY <1>2, <1>7, <2>3, FateSet
  <2>5. Mbox!Drop(p)
    BY <1>1, <1>3, <1>6, <1>8, <2>1, <2>2, <2>4 DEF Mbox!Drop
  <2>. QED  BY <1>2, <2>5 DEF Mbox!Next
<1>. QED  BY <1>9, <1>10, <1>11 DEF InMap

\* A packet sent by a handler is settled at once, or kept.
LEMMA SendInLoopPromised ==
  ASSUME IInv, MailInv, NEW p \in Packets, SendInLoop(p)
  PROVE  Mbox!Next
<1>. DEFINE c == To[p]
<1>1. /\ pc = "events" /\ From[p] = LoopThread /\ Unsent(p) /\ Known(c) /\ Handle(p)
      /\ sent' = Append(sent, p) /\ UNCHANGED <<pktList, tmpPkts, conn>>
  BY DEF SendInLoop, lists
<1>2. /\ c \in Conns
      /\ \A q \in Packets : freed'[q] = IF q = p /\ conn[c] # "waiting" THEN freed[q] + 1 ELSE freed[q]
      /\ \A q \in Packets : Contains(wire'[To[q]], q) <=> \/ Contains(wire[To[q]], q)
                                                          \/ q = p /\ conn[c] = "open"
      /\ wire' = IF conn[c] = "open" THEN [wire EXCEPT ![c] = Append(@, p)] ELSE wire
  BY <1>1, HandleEffect
<1>3. \A q : Unsent(q)' <=> Unsent(q) /\ q # p
  BY <1>1, SentAppend
<1>4. freed[p] = 0 /\ ~Contains(wire[c], p)
  BY <1>1, Owned DEF MailInv, WireInv
<1>5. Gate' = Gate
  BY <1>1 DEF Gate
<1>6. \A q \in Packets \ {p} : Fate'[q] = Fate[q]
  BY <1>2, <1>3, FateSame
<1>7. Fate[p] = "unsent"
  BY <1>1 DEF Fate
<1>8. CASE conn[c] = "open"
  <2>1. Fate' = [Fate EXCEPT ![p] = "delivered"]
    <3>1. freed'[p] = 1 /\ Contains(wire'[c], p) /\ ~Unsent(p)'
      BY <1>2, <1>3, <1>4, <1>8
    <3>2. Fate'[p] = "delivered"
      BY <3>1 DEF Fate
    <3>. QED  BY <1>6, <3>2, FateSet
  <2>2. ASSUME NEW q \in Packets, From[q] = From[p], To[q] = To[p], Fate[q] = "pending" PROVE FALSE
    <3>1. ~Unsent(q) /\ freed[q] = 0
      BY <2>2 DEF Fate
    <3>2. Held(q)
      BY <3>1, Owned
    <3>3. ~Contains(pktList, q) /\ ~Contains(tmpPkts, q)
      BY <1>1, <2>2 DEF MailInv, ForeignInv
    <3>4. waitPkts[To[q]] = <<>>
      BY <1>1, <1>2, <1>8, <2>2 DEF IInv, WaitingIsTemporary
    <3>. QED  BY <3>2, <3>3, <3>4, ContainsEmpty DEF Held
  <2>3. Gate[c] = "open"
    BY <1>2, <1>8 DEF Gate
  <2>4. Mbox!SendNow(p)
    BY <1>1, <1>2, <1>5, <1>7, <1>8, <2>1, <2>2, <2>3 DEF Mbox!SendNow
  <2>. QED  BY <2>4 DEF Mbox!Next
<1>9. CASE conn[c] = "waiting"
  <2>1. Fate'[p] = "pending"
    <3>1. freed'[p] = 0 /\ ~Unsent(p)'
      BY <1>2, <1>3, <1>4, <1>9
    <3>. QED  BY <3>1 DEF Fate
  <2>2. Fate' = [Fate EXCEPT ![p] = "pending"]
    BY <1>6, <2>1, FateSet
  <2>3. Mbox!Send(p)
    BY <1>1, <1>2, <1>5, <1>7, <1>9, <2>2 DEF Mbox!Send
  <2>. QED  BY <2>3 DEF Mbox!Next
<1>10. CASE ~InMap(c)
  <2>1. conn[c] = "closed"
    BY <1>1, <1>2, <1>10 DEF InMap, Known, IInv, TypeOK
  <2>2. Gate[c] = "gone"
    BY <1>2, <2>1 DEF Gate
  <2>3. Fate' = [Fate EXCEPT ![p] = "dropped"]
    <3>1. freed'[p] = 1 /\ ~Contains(wire'[c], p) /\ ~Unsent(p)'
      BY <1>2, <1>3, <1>4, <2>1
    <3>2. Fate'[p] = "dropped"
      BY <3>1 DEF Fate
    <3>. QED  BY <1>6, <3>2, FateSet
  <2>4. Mbox!SendNow(p)
    BY <1>1, <1>2, <1>5, <1>7, <2>1, <2>2, <2>3 DEF Mbox!SendNow
  <2>. QED  BY <2>4 DEF Mbox!Next
<1>. QED  BY <1>8, <1>9, <1>10 DEF InMap

\* The flush of a confirmed connection delivers the oldest packet it kept.
LEMMA FlushPromised ==
  ASSUME IInv, MailInv, FlushOne
  PROVE  Mbox!Next
<1>. DEFINE p == Head(waitPkts[cur])
<1>1. /\ pc = "flush" /\ waitPkts[cur] # <<>> /\ wire' = [wire EXCEPT ![cur] = Append(@, p)]
      /\ freed' = [freed EXCEPT ![p] = @ + 1] /\ UNCHANGED <<conn, sent>>
      /\ cur \in Conns /\ waitPkts[cur] \in Seq(Packets) /\ wire \in [Conns -> Seq(Packets)]
      /\ freed \in [Packets -> Nat]
  BY DEF FlushOne, Delete, IInv, TypeOK
<1>2. p \in Packets /\ Contains(waitPkts[cur], p)
  BY <1>1, HeadTailProperties, ContainsTail
<1>3. To[p] = cur
  BY <1>1, <1>2 DEF IInv, KeptInv, Contains
<1>4. ~Unsent(p) /\ freed[p] = 0
  BY <1>2, <1>3, Owned DEF Held
<1>5. \A q : Contains(Append(wire[cur], p), q) <=> Contains(wire[cur], q) \/ q = p
  <2>1. wire[cur] \in Seq(Packets)
    BY <1>1
  <2>. QED  BY <1>2, <2>1, ContainsAppend
<1>. DEFINE w == Append(wire[cur], p)
<1>6. wire' = [wire EXCEPT ![cur] = w] /\ \A q : Contains(w, q) <=> Contains(wire[cur], q) \/ q = p
  BY <1>1, <1>5
<1>7. \A q : Contains(waitPkts[cur], q) <=> q = p \/ Contains(Tail(waitPkts[cur]), q)
  BY <1>1, ContainsTail
<1>8. \A q : Contains(Tail(waitPkts[cur]), q) => ~Ahead(sent, q, p)
  BY <1>1, SortedTail DEF MailInv, OrderInv
<1>9. ~Ahead(sent, p, p)
  BY <1>1, SortedTail DEF MailInv, OrderInv
<1>. HIDE DEF p, w
<1>10. Gate' = Gate /\ Gate[To[p]] = "open"
  <2>1. conn[cur] = "open"
    BY <1>1 DEF MailInv, FlushInv
  <2>. QED  BY <1>1, <1>3, <2>1 DEF Gate
<1>11. \A q \in Packets \ {p} : Fate'[q] = Fate[q]
  <2>. SUFFICES ASSUME NEW q \in Packets \ {p} PROVE Fate'[q] = Fate[q]
    OBVIOUS
  <2>1. Unsent(q)' <=> Unsent(q)
    BY <1>1 DEF Unsent
  <2>2. freed'[q] = freed[q]
    BY <1>1, <1>2
  <2>3. wire'[To[q]] = IF To[q] = cur THEN w ELSE wire[To[q]]
    <3>1. To[q] \in Conns
      BY PendingAssumption
    <3>. QED  BY <1>1, <1>6, <3>1
  <2>4. Contains(wire'[To[q]], q) <=> Contains(wire[To[q]], q)
    BY <1>6, <2>3
  <2>. QED  BY <2>1, <2>2, <2>4, FateSame
<1>12. Fate[p] = "pending"
  BY <1>2, <1>4 DEF Fate
<1>13. Fate'[p] = "delivered"
  <2>1. freed'[p] = 1 /\ ~Unsent(p) /\ \A q : Unsent(q)' <=> Unsent(q)
    BY <1>1, <1>2, <1>4 DEF Unsent
  <2>2. Contains(wire'[To[p]], p)
    BY <1>1, <1>3, <1>6
  <2>. QED  BY <1>2, <2>1, <2>2 DEF Fate
<1>14. Fate' = [Fate EXCEPT ![p] = "delivered"]
  BY <1>2, <1>11, <1>13, FateSet
<1>15. Mbox!FirstOfItsThread(p)
  <2>1. SUFFICES ASSUME NEW i \in 1..Len(sent), NEW j \in 1..Len(sent), i < j, sent[j] = p,
                        From[sent[i]] = From[p], To[sent[i]] = To[p], Fate[sent[i]] = "pending"
                 PROVE  FALSE
    BY DEF Mbox!FirstOfItsThread
  <2>. DEFINE q == sent[i]
  <2>2. Ahead(sent, q, p) /\ q \in Packets
    BY <2>1 DEF Ahead, IInv, TypeOK
  <2>3. ~Unsent(q) /\ freed[q] = 0
    BY <2>1, <2>2 DEF Fate
  <2>4. Held(q)
    BY <2>2, <2>3, Owned
  <2>5. ~Contains(pktList, q) /\ ~Contains(tmpPkts, q)
    BY <1>2, <1>3, <2>2 DEF MailInv, OrderInv
  <2>6. ~Contains(waitPkts[To[q]], q)
    BY <1>3, <1>7, <1>8, <1>9, <2>1, <2>2
  <2>. QED  BY <2>4, <2>5, <2>6 DEF Held
<1>16. Mbox!Deliver(p)
  BY <1>1, <1>3, <1>10, <1>12, <1>14, <1>15 DEF Mbox!Deliver
<1>. QED  BY <1>2, <1>16 DEF Mbox!Next

\* A close drops what the connection kept, and keeps nothing once it was open.
LEMMA ClosePromised ==
  ASSUME IInv, MailInv, NEW c \in Conns, InMap(c), Close(c), pc # "flush", UNCHANGED sent
  PROVE  Mbox!Next
<1>. DEFINE S == {p \in Packets : Contains(waitPkts[c], p)}
<1>1. /\ conn' = [conn EXCEPT ![c] = "closed"] /\ wire' = wire
      /\ \A q \in Packets : IF Contains(waitPkts[c], q)
                            THEN To[q] = c /\ conn[c] = "waiting" /\ freed[q] = 0 /\ freed'[q] = 1 /\ ~Unsent(q)
                            ELSE freed'[q] = freed[q]
  BY CloseEffect
<1>2. \A q : Unsent(q)' <=> Unsent(q)
  BY DEF Unsent
<1>3. Gate' = [Gate EXCEPT ![c] = "gone"]
  BY <1>1, GateSet DEF IInv, TypeOK
<1>4. Gate[c] # "gone" /\ (Gate[c] = "open" => conn[c] = "open")
  BY DEF Gate, InMap
<1>5. \A q \in Packets \ S : Fate'[q] = Fate[q]
  BY <1>1, <1>2, FateSame
<1>6. \A q \in S : Fate[q] = "pending" /\ To[q] = c /\ Fate'[q] = "dropped"
  <2>. SUFFICES ASSUME NEW q \in S PROVE Fate[q] = "pending" /\ To[q] = c /\ Fate'[q] = "dropped"
    OBVIOUS
  <2>1. q \in Packets /\ To[q] = c /\ freed[q] = 0 /\ freed'[q] = 1 /\ ~Unsent(q) /\ ~Unsent(q)'
    BY <1>1, <1>2
  <2>2. ~Contains(wire'[To[q]], q)
    BY <1>1, <2>1 DEF MailInv, WireInv
  <2>. QED  BY <2>1, <2>2 DEF Fate
<1>7. Gate[c] = "open" => S = {}
  BY <1>1, <1>4
<1>. HIDE DEF S
<1>8. Fate' = [q \in Packets |-> IF q \in S THEN "dropped" ELSE Fate[q]]
  <2>1. Fate' = [q \in Packets |-> Fate'[q]]
    BY DEF Fate
  <2>. QED  BY <1>5, <1>6, <2>1
<1>9. S \in SUBSET {p \in Packets : Fate[p] = "pending" /\ To[p] = c}
  <2>1. S \subseteq Packets
    BY DEF S
  <2>. QED  BY <1>6, <2>1
<1>10. Mbox!Close(c)
  BY <1>1, <1>3, <1>4, <1>7, <1>8, <1>9 DEF Mbox!Close
<1>. QED  BY <1>10 DEF Mbox!Next

\* Every step of the queue is a step of the mailbox or none.
LEMMA StepPromised ==
  ASSUME IInv, IInv', MailInv, [Next]_vars
  PROVE  Mbox!Next \/ UNCHANGED Mbox!mboxVars
<1>0. conn \in [Conns -> {"none", "waiting", "open", "closed"}] /\ tmpCloses \in Seq(Requests)
  BY DEF IInv, TypeOK
<1>1. ASSUME NEW t \in Threads, NEW p \in Packets, PostPkt(t, p) PROVE Mbox!Next
  <2>1. Unsent(p) /\ sent' = Append(sent, p) /\ UNCHANGED <<conn, wire, freed>>
    BY <1>1 DEF PostPkt, connVars
  <2>2. \A q : Unsent(q)' <=> Unsent(q) /\ q # p
    BY <2>1, SentAppend
  <2>3. Gate' = Gate
    BY <2>1 DEF Gate
  <2>4. Fate[p] = "unsent"
    BY <2>1 DEF Fate
  <2>5. Fate' = [Fate EXCEPT ![p] = "pending"]
    <3>1. freed[p] = 0
      BY <2>1, Owned
    <3>2. Fate'[p] = "pending"
      BY <2>1, <2>2, <3>1 DEF Fate
    <3>3. \A q \in Packets \ {p} : Fate'[q] = Fate[q]
      BY <2>1, <2>2, FateSame
    <3>. QED  BY <3>2, <3>3, FateSet
  <2>6. Mbox!Send(p)
    BY <2>1, <2>3, <2>4, <2>5 DEF Mbox!Send
  <2>. QED  BY <2>6 DEF Mbox!Next
<1>2. CASE UNCHANGED <<conn, wire, freed, sent>>
  <2>1. Gate' = Gate
    BY <1>2 DEF Gate
  <2>. QED  BY <1>2, <2>1, NothingSeen
<1>3. ASSUME NEW t \in Threads, Wakeup(t) \/ \E c \in Conns : PostClose(t, c) PROVE UNCHANGED <<conn, wire, freed, sent>>
  BY <1>3 DEF Wakeup, PostClose, connVars
<1>4. CASE EpollReturns \/ ReadWakeupData \/ EndFlush \/ EndEvents \/ SwapLists \/ EndLoop \/ EndRegister
  BY <1>2, <1>4 DEF EpollReturns, ReadWakeupData, EndFlush, EndEvents, SwapLists, EndLoop, EndRegister, connVars
<1>5. ASSUME NEW c \in Conns, Connect(c) PROVE UNCHANGED Mbox!mboxVars
  <2>1. Gate' = Gate
    BY <1>0, <1>5, GateSet DEF Connect
  <2>. QED  BY <1>5, <2>1, NothingSeen DEF Connect
<1>6. ASSUME NEW c \in Conns, OnConfirm(c) \/ RegisterAccepted(c) PROVE Mbox!Next
  <2>1. conn' = [conn EXCEPT ![c] = "open"] /\ conn[c] \in {"none", "waiting"} /\ UNCHANGED <<freed, sent, wire>>
    BY <1>6 DEF OnConfirm, RegisterAccepted
  <2>2. Gate' = [Gate EXCEPT ![c] = "open"]
    BY <1>0, <2>1, GateSet
  <2>3. Gate[c] = "shut"
    BY <2>1 DEF Gate
  <2>4. Fate' = Fate
    BY <2>1 DEF Fate, Unsent
  <2>5. Mbox!Open(c)
    BY <2>1, <2>2, <2>3, <2>4 DEF Mbox!Open
  <2>. QED  BY <2>5 DEF Mbox!Next
<1>7. ASSUME NEW c \in Conns, CloseInLoop(c) PROVE Mbox!Next
  BY <1>7, ClosePromised DEF CloseInLoop
<1>8. CASE RunClose
  <2>. DEFINE c == Head(tmpCloses).conn
  <2>1. pc = "run" /\ tmpCloses # <<>> /\ UNCHANGED sent
    BY <1>8 DEF RunClose
  <2>2. c \in Conns
    <3>1. Head(tmpCloses) \in Requests
      BY <1>0, <2>1, HeadTailProperties
    <3>. QED  BY <3>1 DEF Requests
  <2>3. CASE InMap(c) /\ Close(c)
    BY <2>1, <2>2, <2>3, ClosePromised
  <2>4. CASE UNCHANGED <<conn, wire, freed>>
    BY <1>2, <2>1, <2>4
  <2>. QED  BY <1>8, <2>3, <2>4 DEF RunClose, CloseFound, connVars
<1>9. CASE UNCHANGED vars
  BY <1>2, <1>9 DEF vars, connVars
<1>. QED
  BY <1>1, <1>2, <1>3, <1>4, <1>5, <1>6, <1>7, <1>8, <1>9, RunPktPromised, SendInLoopPromised, FlushPromised
  DEF Next, LoopWork, Handlers, Posters

\* The lists of PendingEventMgr keep each caller's packets of one connection in
\* the order of its calls, from SendPkt to the wire.
THEOREM MailInductive == Spec => [](IInv /\ MailInv)
<1>1. Init => MailInv
  BY MailInit
<1>2. IInv /\ MailInv /\ [Next]_vars => MailInv'
  BY MailStep
<1>. QED  BY <1>1, <1>2, Inductive, PTL DEF Spec

\* The IO thread and the posting threads keep the promise of Mailbox: a packet
\* is delivered or dropped, once, only while its connection is open, and the
\* packets of one thread to one connection in order.
THEOREM MailboxImplemented == Spec => ImplementsMailbox
<1>1. Init => Mbox!Init
  <2>. SUFFICES ASSUME Init PROVE Mbox!Init
    OBVIOUS
  <2>1. Gate = [c \in Conns |-> "shut"]
    BY DEF Init, Gate
  <2>2. Fate = [p \in Packets |-> "unsent"]
    BY DEF Init, Fate, Unsent, Contains
  <2>. QED  BY <2>1, <2>2 DEF Init, Mbox!Init
<1>2. IInv /\ IInv' /\ MailInv /\ [Next]_vars => [Mbox!Next]_(Mbox!mboxVars)
  BY StepPromised
<1>. QED  BY <1>1, <1>2, MailInductive, PTL DEF Spec, ImplementsMailbox, Mbox!Spec

\* A close request does not overtake a packet: when loop_callback closes an open
\* connection, every packet sent to it before the request, by any thread, has
\* been given to Send and deleted.
THEOREM ClosesComeLast == Spec => SendThenClose
<1>. DEFINE Closing == \A c \in Conns :
                      pc = "run" /\ conn[c] = "open" /\ conn'[c] = "closed"
                      => \A i \in 1..Head(tmpCloses).mark : To[sent[i]] = c => freed[sent[i]] = 1
<1>1. ASSUME IInv, MailInv, [Next]_vars PROVE [Closing]_vars
  <2>1. SUFFICES ASSUME NEW c \in Conns, pc = "run", conn[c] = "open", conn'[c] = "closed",
                        NEW i \in 1..Head(tmpCloses).mark, To[sent[i]] = c
                 PROVE  freed[sent[i]] = 1
    OBVIOUS
  <2>2. RunClose
    BY <1>1, <2>1 DEF Next, LoopWork, Handlers, Posters, vars, connVars, EpollReturns, ReadWakeupData, EndEvents,
       FlushOne, EndFlush, SwapLists, RunPkt, EndLoop, EndRegister, SendInLoop, Connect, OnConfirm, CloseInLoop,
       RegisterAccepted, PostPkt, PostClose, Wakeup
  <2>3. /\ tmpPkts = <<>> /\ tmpCloses # <<>> /\ tmpCloses \in Seq(Requests)
        /\ waitPkts[c] = <<>> /\ sent \in Seq(Packets)
    BY <1>1, <2>1, <2>2 DEF RunClose, PktsDone, IInv, TypeOK, WaitingIsTemporary
  <2>4. Head(tmpCloses) = tmpCloses[1] /\ 1 \in 1..Len(tmpCloses) /\ Head(tmpCloses) \in Requests
    BY <2>3, HeadTailProperties, EmptySeq
  <2>5. tmpCloses[1].mark <= Len(sent) /\ ~Contains(pktList, sent[i])
    BY <1>1, <2>4 DEF MailInv, MarkInv
  <2>6. i \in 1..Len(sent)
    BY <2>3, <2>4, <2>5 DEF Requests
  <2>7. sent[i] \in Packets /\ ~Unsent(sent[i])
    BY <2>3, <2>6 DEF Unsent, Contains
  <2>8. ~Held(sent[i])
    BY <2>1, <2>3, <2>5, ContainsEmpty DEF Held
  <2>. QED  BY <1>1, <2>7, <2>8, Owned
<1>. QED  BY <1>1, MailInductive, PTL DEF Spec, SendThenClose
=============================================================================
