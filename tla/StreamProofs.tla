---------------------------- MODULE StreamProofs ----------------------------
(***************************************************************************)
(* The two directions of a connection's bytes.                             *)
(*                                                                         *)
(* Sending: the operators of SimpleBuffer, and with them that the two ways *)
(* of a byte to the kernel keep the stream in order and forget nothing,    *)
(* for any sizes of sends, of the kernel's buffer and of kMaxSendSize.     *)
(*                                                                         *)
(* Receiving: what the peer sent is handed over, for every HeaderLen,      *)
(* ReadBufSize, set of kinds and number of packets, and however the        *)
(* segments split.  The inductive invariant says that while the connection *)
(* is open, what is in m_in_buf, in the kernel and in flight, one after    *)
(* the other, is the peer's packets after the last one handled: FlowFrom.  *)
(* That the parser finds a packet's border follows from it, and so does    *)
(* that a length which never comes keeps it waiting: all that the peer may *)
(* still send is shorter (FlowBound, for which Apart counts the bytes      *)
(* between two).                                                           *)
(***************************************************************************)
EXTENDS SendPath, RecvPath, SequenceTheorems, TLAPS

-----------------------------------------------------------------------------
(***************************************************************************)
(* Sequences.                                                              *)
(***************************************************************************)

\* The elements of s are the positions after base, one by one.
Run(s, base) == s \in Seq(Nat) /\ \A i \in 1..Len(s) : s[i] = base + i

\* A function on 1..n is a sequence.
LEMMA FcnIsSeq ==
  ASSUME NEW S, NEW n \in Nat, NEW f \in [1..n -> S]
  PROVE  f \in Seq(S) /\ Len(f) = n
BY SeqDef

\* The empty sequence continues any stream.
LEMMA RunEmpty ==
  ASSUME NEW base \in Nat
  PROVE  Run(<<>>, base) /\ Len(<<>>) = 0
BY EmptySeq DEF Run

\* Stream is the bytes from one number to another.
LEMMA RunStream ==
  ASSUME NEW m \in Nat, NEW n \in Nat
  PROVE  Run(Stream(m + 1, m + n), m) /\ Len(Stream(m + 1, m + n)) = n
<1>. DEFINE f == [i \in 1..n |-> m + i]
<1>1. (m + n) - (m + 1) + 1 = n /\ \A i \in 1..n : (m + 1) + i - 1 = m + i
  OBVIOUS
<1>2. Stream(m + 1, m + n) = f
  BY <1>1 DEF Stream
<1>3. f \in [1..n -> Nat]
  OBVIOUS
<1>4. f \in Seq(Nat) /\ Len(f) = n
  BY <1>3, FcnIsSeq
<1>5. \A i \in 1..n : f[i] = m + i
  OBVIOUS
<1>. HIDE DEF f
<1>. QED  BY <1>2, <1>4, <1>5 DEF Run

\* A run is known by its base and its length.
LEMMA RunIsStream ==
  ASSUME NEW s, Run(s, 0)
  PROVE  s = Stream(1, Len(s))
<1>1. s \in Seq(Nat) /\ Len(s) \in Nat /\ \A i \in 1..Len(s) : s[i] = i
  BY LenProperties DEF Run
<1>. DEFINE t == Stream(1, Len(s))
<1>2. Run(t, 0) /\ Len(t) = Len(s)
  <2>1. 0 + 1 = 1 /\ 0 + Len(s) = Len(s)
    BY <1>1
  <2>. QED  BY <1>1, <2>1, RunStream
<1>. HIDE DEF t
<1>3. t \in Seq(Nat) /\ \A i \in 1..Len(s) : t[i] = s[i]
  BY <1>1, <1>2 DEF Run
<1>4. s = t
  BY <1>1, <1>2, <1>3, SeqEqual
<1>. QED  BY <1>4 DEF t

\* A run and the run that follows it.
LEMMA RunCat ==
  ASSUME NEW base \in Nat, NEW s, NEW t, Run(s, base), Run(t, base + Len(s))
  PROVE  Run(s \o t, base) /\ Len(s \o t) = Len(s) + Len(t)
<1>1. /\ s \in Seq(Nat) /\ t \in Seq(Nat) /\ Len(s) \in Nat /\ Len(t) \in Nat
      /\ \A i \in 1..Len(s) : s[i] = base + i
      /\ \A i \in 1..Len(t) : t[i] = (base + Len(s)) + i
  BY LenProperties DEF Run
<1>. DEFINE u == s \o t
<1>2. /\ u \in Seq(Nat) /\ Len(u) = Len(s) + Len(t)
      /\ \A i \in 1..(Len(s) + Len(t)) : u[i] = IF i <= Len(s) THEN s[i] ELSE t[i - Len(s)]
  BY <1>1, ConcatProperties
<1>. HIDE DEF u
<1>3. ASSUME NEW i \in 1..Len(u) PROVE u[i] = base + i
  <2>1. CASE i <= Len(s)
    BY <1>1, <1>2, <2>1
  <2>2. CASE ~(i <= Len(s))
    <3>1. i - Len(s) \in 1..Len(t) /\ (base + Len(s)) + (i - Len(s)) = base + i
      BY <1>1, <1>2, <2>2
    <3>. QED  BY <1>1, <1>2, <2>2, <3>1
  <2>. QED  BY <2>1, <2>2
<1>4. Run(u, base) /\ Len(u) = Len(s) + Len(t)
  BY <1>2, <1>3 DEF Run
<1>. QED  BY <1>4 DEF u

\* A run cut in two.
LEMMA RunCut ==
  ASSUME NEW base \in Nat, NEW s, Run(s, base), NEW n \in 0..Len(s)
  PROVE  /\ Run(SubSeq(s, 1, n), base) /\ Len(SubSeq(s, 1, n)) = n
         /\ Run(SubSeq(s, n + 1, Len(s)), base + n) /\ Len(SubSeq(s, n + 1, Len(s))) = Len(s) - n
<1>1. /\ s \in Seq(Nat) /\ Len(s) \in Nat /\ \A i \in 1..Len(s) : s[i] \in Nat
      /\ \A i \in 1..Len(s) : s[i] = base + i
  BY LenProperties, ElementOfSeq DEF Run
<1>. DEFINE a == SubSeq(s, 1, n)
            b == SubSeq(s, n + 1, Len(s))
<1>2. Run(a, base) /\ Len(a) = n
  <2>1. \A i \in 1..n : s[i] \in Nat
    BY <1>1
  <2>2. /\ a \in Seq(Nat) /\ Len(a) = IF 1 <= n THEN n - 1 + 1 ELSE 0
        /\ \A i \in 1..(n - 1 + 1) : a[i] = s[1 + i - 1]
    BY <1>1, <2>1, SubSeqProperties
  <2>. HIDE DEF a
  <2>. QED  BY <1>1, <2>2 DEF Run
<1>3. Run(b, base + n) /\ Len(b) = Len(s) - n
  <2>1. \A i \in (n + 1)..Len(s) : s[i] \in Nat
    BY <1>1
  <2>2. /\ b \in Seq(Nat) /\ Len(b) = IF n + 1 <= Len(s) THEN Len(s) - (n + 1) + 1 ELSE 0
        /\ \A i \in 1..(Len(s) - (n + 1) + 1) : b[i] = s[(n + 1) + i - 1]
    BY <1>1, <2>1, SubSeqProperties
  <2>. HIDE DEF b
  <2>3. Len(b) = Len(s) - n
    BY <1>1, <2>2
  <2>4. ASSUME NEW i \in 1..Len(b) PROVE b[i] = (base + n) + i
    <3>1. i \in 1..(Len(s) - (n + 1) + 1) /\ (n + 1) + i - 1 = n + i /\ n + i \in 1..Len(s)
      BY <1>1, <2>3
    <3>. QED  BY <1>1, <2>2, <3>1
  <2>. QED  BY <2>2, <2>3, <2>4 DEF Run
<1>. QED  BY <1>2, <1>3

\* A run without its first element, and with one more.
LEMMA RunTail ==
  ASSUME NEW base \in Nat, NEW s, Run(s, base), s # <<>>
  PROVE  Head(s) = base + 1 /\ Run(Tail(s), base + 1) /\ Len(Tail(s)) = Len(s) - 1 /\ Len(s) \in Nat \ {0}
<1>1. /\ s \in Seq(Nat) /\ Len(s) \in Nat \ {0} /\ \A i \in 1..Len(s) : s[i] = base + i
  BY LenProperties, EmptySeq DEF Run
<1>. DEFINE t == Tail(s)
<1>2. /\ Head(s) = s[1] /\ t \in Seq(Nat) /\ Len(t) = Len(s) - 1
      /\ \A i \in 1..Len(t) : t[i] = s[i + 1]
  BY <1>1, HeadTailProperties
<1>. HIDE DEF t
<1>3. Run(t, base + 1)
  BY <1>1, <1>2 DEF Run
<1>. QED  BY <1>1, <1>2, <1>3 DEF t

\* The next byte may be appended.
LEMMA RunAppend ==
  ASSUME NEW base \in Nat, NEW s, Run(s, base)
  PROVE  /\ Run(Append(s, base + Len(s) + 1), base)
         /\ Len(Append(s, base + Len(s) + 1)) = Len(s) + 1 /\ Len(s) \in Nat
<1>1. s \in Seq(Nat) /\ Len(s) \in Nat /\ \A i \in 1..Len(s) : s[i] = base + i
  BY LenProperties DEF Run
<1>. DEFINE e == base + Len(s) + 1
            t == Append(s, e)
<1>2. e \in Nat
  BY <1>1
<1>. HIDE DEF e
<1>3. /\ t \in Seq(Nat) /\ Len(t) = Len(s) + 1
      /\ \A i \in 1..Len(s) : t[i] = s[i]
      /\ t[Len(s) + 1] = e
  BY <1>1, <1>2, AppendProperties
<1>. HIDE DEF t
<1>4. Run(t, base)
  BY <1>1, <1>3 DEF Run, e
<1>. QED  BY <1>1, <1>3, <1>4 DEF t, e

\* The elements after the m-th up to the n-th.
LEMMA SliceIs ==
  ASSUME NEW S, NEW s \in Seq(S), NEW m \in Nat, NEW n \in Nat, m <= n, n <= Len(s)
  PROVE  /\ SubSeq(s, m + 1, n) \in Seq(S) /\ Len(SubSeq(s, m + 1, n)) = n - m
         /\ \A i \in 1..(n - m) : SubSeq(s, m + 1, n)[i] = s[m + i]
<1>1. Len(s) \in Nat /\ \A i \in 1..Len(s) : s[i] \in S
  BY LenProperties, ElementOfSeq
<1>2. \A i \in (m + 1)..n : s[i] \in S
  BY <1>1
<1>. DEFINE q == SubSeq(s, m + 1, n)
<1>3. /\ q \in Seq(S) /\ Len(q) = IF m + 1 <= n THEN n - (m + 1) + 1 ELSE 0
      /\ \A i \in 1..(n - (m + 1) + 1) : q[i] = s[(m + 1) + i - 1]
  BY <1>2, SubSeqProperties
<1>. HIDE DEF q
<1>4. Len(q) = n - m
  BY <1>3
<1>5. ASSUME NEW i \in 1..(n - m) PROVE q[i] = s[m + i]
  <2>1. i \in 1..(n - (m + 1) + 1) /\ (m + 1) + i - 1 = m + i
    OBVIOUS
  <2>. QED  BY <1>3, <2>1
<1>. QED  BY <1>3, <1>4, <1>5 DEF q

-----------------------------------------------------------------------------
(***************************************************************************)
(* SimpleBuffer.                                                           *)
(***************************************************************************)

BufOK(S, b) == b \in [cells : Seq(S), w : Nat, r : Nat] /\ Sound(b)

\* What is readable starts at the read offset.
LEMMA ReadableIs ==
  ASSUME NEW S, NEW b, BufOK(S, b)
  PROVE  /\ Readable(b) \in Seq(S) /\ Len(Readable(b)) = ReadableLen(b) /\ ReadableLen(b) \in Nat
         /\ \A i \in 1..ReadableLen(b) : Readable(b)[i] = b.cells[b.r + i]
<1>1. /\ b.cells \in Seq(S) /\ b.w \in Nat /\ b.r \in Nat /\ b.r <= b.w /\ b.w <= Len(b.cells)
  BY DEF BufOK, Sound, AllocSize
<1>. DEFINE cells == b.cells
            w == b.w
            r == b.r
<1>2. cells \in Seq(S) /\ w \in Nat /\ r \in Nat /\ r <= w /\ w <= Len(cells)
  BY <1>1
<1>3. Readable(b) = SubSeq(cells, r + 1, w) /\ ReadableLen(b) = w - r
  BY DEF Readable, ReadableLen
<1>. HIDE DEF cells, w, r
<1>4. w - r \in Nat
  BY <1>2
<1>5. /\ SubSeq(cells, r + 1, w) \in Seq(S) /\ Len(SubSeq(cells, r + 1, w)) = w - r
      /\ \A i \in 1..(w - r) : SubSeq(cells, r + 1, w)[i] = cells[r + i]
  BY <1>2, SliceIs
<1>. QED  BY <1>3, <1>4, <1>5 DEF cells, w, r

\* Extend makes room and keeps what was there.
LEMMA ExtendKeeps ==
  ASSUME NEW S, Junk \in S, NEW b, BufOK(S, b), NEW len \in Nat, NeedsRoom(b, len)
  PROVE  /\ BufOK(S, Extend(b, len)) /\ Extend(b, len).w = b.w /\ Extend(b, len).r = b.r
         /\ b.w + len <= Len(Extend(b, len).cells)
         /\ \A i \in 1..Len(b.cells) : Extend(b, len).cells[i] = b.cells[i]
<1>1. /\ b.cells \in Seq(S) /\ b.w \in Nat /\ b.r \in Nat /\ b.r <= b.w /\ b.w <= Len(b.cells)
      /\ Len(b.cells) \in Nat /\ \A i \in 1..Len(b.cells) : b.cells[i] \in S
      /\ b = [cells |-> b.cells, w |-> b.w, r |-> b.r]
  BY LenProperties, ElementOfSeq DEF BufOK, Sound, AllocSize
<1>. DEFINE n == ExtendSize(b, len)
            c == [i \in 1..n |-> IF i <= Len(b.cells) THEN b.cells[i] ELSE Junk]
<1>2. n \in Nat /\ b.w + len <= n /\ Len(b.cells) <= n
  BY <1>1 DEF ExtendSize, NeedsRoom, AllocSize
<1>. HIDE DEF n
<1>3. c \in [1..n -> S] /\ \A i \in 1..Len(b.cells) : c[i] = b.cells[i]
  BY <1>1, <1>2
<1>4. c \in Seq(S) /\ Len(c) = n
  BY <1>2, <1>3, FcnIsSeq
<1>5. Extend(b, len) = [b EXCEPT !.cells = c]
  BY DEF Extend, AllocSize, n
<1>. HIDE DEF c
<1>6. Extend(b, len) = [cells |-> c, w |-> b.w, r |-> b.r]
  BY <1>1, <1>5
<1>. QED  BY <1>1, <1>2, <1>3, <1>4, <1>6 DEF BufOK, Sound, AllocSize

\* memcpy to the write offset, within the allocation, and IncWriteOffset.
LEMMA StoreAppends ==
  ASSUME NEW S, NEW b, BufOK(S, b), NEW data \in Seq(S), b.w + Len(data) <= Len(b.cells)
  PROVE  LET c == IncWriteOffset(Store(b, data), Len(data))
         IN  /\ BufOK(S, c) /\ ReadableLen(c) = ReadableLen(b) + Len(data)
             /\ \A i \in 1..ReadableLen(b) : Readable(c)[i] = Readable(b)[i]
             /\ \A i \in 1..Len(data) : Readable(c)[ReadableLen(b) + i] = data[i]
<1>. DEFINE f == [i \in DOMAIN b.cells |->
                    IF i \in (b.w + 1)..(b.w + Len(data)) THEN data[i - b.w] ELSE b.cells[i]]
            c == IncWriteOffset(Store(b, data), Len(data))
<1>1. /\ b.cells \in Seq(S) /\ b.w \in Nat /\ b.r \in Nat /\ b.r <= b.w /\ b.w <= Len(b.cells)
      /\ Len(b.cells) \in Nat /\ DOMAIN b.cells = 1..Len(b.cells)
      /\ \A i \in 1..Len(b.cells) : b.cells[i] \in S
      /\ b = [cells |-> b.cells, w |-> b.w, r |-> b.r]
  BY LenProperties, ElementOfSeq DEF BufOK, Sound, AllocSize
<1>2. Len(data) \in Nat /\ \A i \in 1..Len(data) : data[i] \in S
  BY LenProperties, ElementOfSeq
<1>3. f \in [1..Len(b.cells) -> S]
  <2>. SUFFICES ASSUME NEW i \in 1..Len(b.cells) PROVE f[i] \in S
    BY <1>1
  <2>1. CASE i \in (b.w + 1)..(b.w + Len(data))
    <3>1. i - b.w \in 1..Len(data)
      BY <1>1, <1>2, <2>1
    <3>. QED  BY <1>1, <1>2, <2>1, <3>1
  <2>2. CASE i \notin (b.w + 1)..(b.w + Len(data))
    BY <1>1, <2>2
  <2>. QED  BY <2>1, <2>2
<1>4. f \in Seq(S) /\ Len(f) = Len(b.cells)
  BY <1>1, <1>3, FcnIsSeq
<1>5. c = [cells |-> f, w |-> b.w + Len(data), r |-> b.r]
  <2>1. Store(b, data) = [b EXCEPT !.cells = f]
    BY DEF Store
  <2>. HIDE DEF f
  <2>2. Store(b, data) = [cells |-> f, w |-> b.w, r |-> b.r]
    BY <1>1, <2>1
  <2>. QED  BY <2>2 DEF IncWriteOffset
<1>6. /\ \A i \in 1..b.w : f[i] = b.cells[i]
      /\ \A i \in 1..Len(data) : f[b.w + i] = data[i]
  <2>1. ASSUME NEW i \in 1..b.w PROVE f[i] = b.cells[i]
    BY <1>1, <1>2
  <2>2. ASSUME NEW i \in 1..Len(data) PROVE f[b.w + i] = data[i]
    <3>1. /\ b.w + i \in 1..Len(b.cells) /\ b.w + i \in (b.w + 1)..(b.w + Len(data))
          /\ (b.w + i) - b.w = i
      BY <1>1, <1>2
    <3>. QED  BY <1>1, <3>1
  <2>. QED  BY <2>1, <2>2
<1>. HIDE DEF f
<1>7. BufOK(S, c) /\ ReadableLen(c) = ReadableLen(b) + Len(data)
  BY <1>1, <1>2, <1>4, <1>5 DEF BufOK, Sound, AllocSize, ReadableLen
<1>8. c.r = b.r /\ c.cells = f
  BY <1>5
<1>. HIDE DEF c
<1>9. /\ \A i \in 1..ReadableLen(b) : Readable(c)[i] = Readable(b)[i]
      /\ \A i \in 1..Len(data) : Readable(c)[ReadableLen(b) + i] = data[i]
  <2>1. /\ Readable(c) \in Seq(S) /\ Len(Readable(c)) = ReadableLen(c)
        /\ \A i \in 1..ReadableLen(c) : Readable(c)[i] = f[b.r + i]
    BY <1>7, <1>8, ReadableIs
  <2>2. /\ Readable(b) \in Seq(S) /\ Len(Readable(b)) = b.w - b.r /\ b.w - b.r \in Nat
        /\ \A i \in 1..(b.w - b.r) : Readable(b)[i] = b.cells[b.r + i]
    BY ReadableIs DEF ReadableLen
  <2>3. ReadableLen(c) = (b.w - b.r) + Len(data)
    BY <1>7 DEF ReadableLen
  <2>4. ASSUME NEW i \in 1..(b.w - b.r) PROVE Readable(c)[i] = Readable(b)[i]
    <3>1. i \in 1..ReadableLen(c) /\ b.r + i \in 1..b.w
      BY <1>1, <1>2, <2>3
    <3>. QED  BY <1>6, <2>1, <2>2, <3>1
  <2>5. ASSUME NEW i \in 1..Len(data) PROVE Readable(c)[(b.w - b.r) + i] = data[i]
    <3>1. (b.w - b.r) + i \in 1..ReadableLen(c) /\ b.r + ((b.w - b.r) + i) = b.w + i
      BY <1>1, <1>2, <2>2, <2>3
    <3>. QED  BY <1>6, <2>1, <3>1
  <2>. QED  BY <2>4, <2>5 DEF ReadableLen
<1>. QED  BY <1>7, <1>9 DEF c

\* Write, with or without a larger allocation, appends.
LEMMA WriteAppends ==
  ASSUME NEW S, Junk \in S, NEW b, BufOK(S, b), NEW data \in Seq(S)
  PROVE  /\ BufOK(S, Write(b, data)) /\ ReadableLen(Write(b, data)) = ReadableLen(b) + Len(data)
         /\ \A i \in 1..ReadableLen(b) : Readable(Write(b, data))[i] = Readable(b)[i]
         /\ \A i \in 1..Len(data) : Readable(Write(b, data))[ReadableLen(b) + i] = data[i]
<1>. DEFINE room == IF NeedsRoom(b, Len(data)) THEN Extend(b, Len(data)) ELSE b
<1>1. Write(b, data) = IncWriteOffset(Store(room, data), Len(data))
  BY DEF Write
<1>2. Len(data) \in Nat
  BY LenProperties
<1>3. /\ BufOK(S, room) /\ room.w = b.w /\ room.r = b.r /\ room.w + Len(data) <= Len(room.cells)
      /\ \A i \in 1..Len(b.cells) : room.cells[i] = b.cells[i]
  <2>1. CASE NeedsRoom(b, Len(data))
    BY <1>2, <2>1, ExtendKeeps
  <2>2. CASE ~NeedsRoom(b, Len(data))
    <3>1. b.cells \in Seq(S) /\ b.w \in Nat /\ room = b
      BY <2>2 DEF BufOK
    <3>2. Len(b.cells) \in Nat
      BY <3>1, LenProperties
    <3>. QED  BY <1>2, <2>2, <3>1, <3>2 DEF NeedsRoom, AllocSize
  <2>. QED  BY <2>1, <2>2
<1>. HIDE DEF room
<1>4. /\ b.w \in Nat /\ b.r \in Nat /\ b.r <= b.w /\ b.w <= Len(b.cells) /\ Len(b.cells) \in Nat
  <2>1. b.cells \in Seq(S) /\ b.w \in Nat /\ b.r \in Nat /\ b.r <= b.w /\ b.w <= Len(b.cells)
    BY DEF BufOK, Sound, AllocSize
  <2>. QED  BY <2>1, LenProperties
<1>5. ReadableLen(room) = ReadableLen(b) /\ \A i \in 1..ReadableLen(b) : Readable(room)[i] = Readable(b)[i]
  <2>1. ReadableLen(room) = ReadableLen(b) /\ ReadableLen(b) = b.w - b.r
    BY <1>3 DEF ReadableLen
  <2>2. \A i \in 1..ReadableLen(b) : Readable(b)[i] = b.cells[b.r + i] /\ Readable(room)[i] = room.cells[b.r + i]
    BY <1>3, <2>1, ReadableIs
  <2>3. \A i \in 1..ReadableLen(b) : b.r + i \in 1..Len(b.cells)
    BY <1>4, <2>1
  <2>. QED  BY <1>3, <2>1, <2>2, <2>3
<1>6. LET c == IncWriteOffset(Store(room, data), Len(data))
      IN  /\ BufOK(S, c) /\ ReadableLen(c) = ReadableLen(room) + Len(data)
          /\ \A i \in 1..ReadableLen(room) : Readable(c)[i] = Readable(room)[i]
          /\ \A i \in 1..Len(data) : Readable(c)[ReadableLen(room) + i] = data[i]
  BY <1>3, StoreAppends
<1>. QED  BY <1>1, <1>5, <1>6

\* Read leaves what follows the bytes it consumes.
LEMMA ReadConsumes ==
  ASSUME NEW S, NEW b, BufOK(S, b), NEW n \in 0..ReadableLen(b)
  PROVE  /\ BufOK(S, Read(b, n)) /\ ReadableLen(Read(b, n)) = ReadableLen(b) - n
         /\ \A i \in 1..(ReadableLen(b) - n) : Readable(Read(b, n))[i] = Readable(b)[n + i]
<1>1. /\ b.cells \in Seq(S) /\ b.w \in Nat /\ b.r \in Nat /\ b.r <= b.w /\ b.w <= Len(b.cells)
      /\ b = [cells |-> b.cells, w |-> b.w, r |-> b.r]
  BY DEF BufOK, Sound, AllocSize
<1>2. ReadableLen(b) = b.w - b.r /\ n \in Nat /\ n <= b.w - b.r
  BY <1>1 DEF ReadableLen
<1>3. Read(b, n) = [cells |-> b.cells, w |-> b.w, r |-> b.r + n]
  <2>1. ~(n > ReadableLen(b))
    BY <1>1, <1>2
  <2>. QED  BY <1>1, <2>1 DEF Read
<1>. DEFINE c == Read(b, n)
<1>4. c.cells = b.cells /\ c.w = b.w /\ c.r = b.r + n
  BY <1>3
<1>5. BufOK(S, c) /\ ReadableLen(c) = ReadableLen(b) - n
  BY <1>1, <1>2, <1>3 DEF BufOK, Sound, AllocSize, ReadableLen
<1>. HIDE DEF c
<1>6. ASSUME NEW i \in 1..(ReadableLen(b) - n) PROVE Readable(c)[i] = Readable(b)[n + i]
  <2>1. i \in 1..ReadableLen(c) /\ n + i \in 1..ReadableLen(b) /\ b.r + (n + i) = (b.r + n) + i
    BY <1>1, <1>2, <1>5
  <2>2. Readable(c)[i] = c.cells[c.r + i] /\ Readable(b)[n + i] = b.cells[b.r + (n + i)]
    BY <1>5, <2>1, ReadableIs
  <2>. QED  BY <1>4, <2>1, <2>2
<1>. QED  BY <1>5, <1>6 DEF c

\* ResetOffset moves what is readable and changes none of it.
LEMMA ResetKeeps ==
  ASSUME NEW S, NEW b, BufOK(S, b)
  PROVE  /\ BufOK(S, ResetOffset(b)) /\ ReadableLen(ResetOffset(b)) = ReadableLen(b)
         /\ \A i \in 1..ReadableLen(b) : Readable(ResetOffset(b))[i] = Readable(b)[i]
<1>1. CASE b.r = 0
  BY <1>1 DEF ResetOffset
<1>2. CASE b.r # 0
  <2>1. /\ b.cells \in Seq(S) /\ b.w \in Nat /\ b.r \in Nat /\ b.r <= b.w /\ b.w <= Len(b.cells)
    BY DEF BufOK, Sound, AllocSize
  <2>2. Len(b.cells) \in Nat /\ DOMAIN b.cells = 1..Len(b.cells) /\ \A i \in 1..Len(b.cells) : b.cells[i] \in S
    BY <2>1, LenProperties, ElementOfSeq
  <2>3. ReadableLen(b) = b.w - b.r
    BY DEF ReadableLen
  <2>. DEFINE f == [i \in 1..Len(b.cells) |-> IF i <= b.w - b.r THEN b.cells[b.r + i] ELSE b.cells[i]]
              cells == IF b.r < b.w THEN Move(b) ELSE b.cells
  <2>4. f \in [1..Len(b.cells) -> S]
    <3>. SUFFICES ASSUME NEW i \in 1..Len(b.cells)
                  PROVE  (IF i <= b.w - b.r THEN b.cells[b.r + i] ELSE b.cells[i]) \in S
      OBVIOUS
    <3>1. CASE i <= b.w - b.r
      <4>1. b.r + i \in 1..Len(b.cells)
        BY <2>1, <2>2, <3>1
      <4>. QED  BY <2>2, <3>1, <4>1
    <3>2. CASE ~(i <= b.w - b.r)
      BY <2>2, <3>2
    <3>. QED  BY <3>1, <3>2
  <2>5. f \in Seq(S) /\ Len(f) = Len(b.cells)
    BY <2>2, <2>4, FcnIsSeq
  <2>6. \A i \in 1..(b.w - b.r) : f[i] = b.cells[b.r + i]
    BY <2>1, <2>2
  <2>7. Move(b) = f
    BY <2>2, <2>3 DEF Move
  <2>. HIDE DEF f
  <2>8. /\ cells \in Seq(S) /\ Len(cells) = Len(b.cells)
        /\ \A i \in 1..(b.w - b.r) : cells[i] = b.cells[b.r + i]
    <3>1. CASE b.r < b.w
      BY <2>5, <2>6, <2>7, <3>1
    <3>2. CASE ~(b.r < b.w)
      BY <2>1, <3>2
    <3>. QED  BY <3>1, <3>2
  <2>9. ResetOffset(b) = [cells |-> cells, w |-> b.w - b.r, r |-> 0]
    BY <1>2, <2>3 DEF ResetOffset
  <2>. HIDE DEF cells
  <2>. DEFINE c == ResetOffset(b)
  <2>10. c.cells = cells /\ c.w = b.w - b.r /\ c.r = 0
    BY <2>9
  <2>11. BufOK(S, c) /\ ReadableLen(c) = ReadableLen(b)
    BY <2>1, <2>2, <2>8, <2>9 DEF BufOK, Sound, AllocSize, ReadableLen
  <2>. HIDE DEF c
  <2>12. ASSUME NEW i \in 1..ReadableLen(b) PROVE Readable(c)[i] = Readable(b)[i]
    <3>1. Readable(c)[i] = c.cells[c.r + i] /\ Readable(b)[i] = b.cells[b.r + i] /\ 0 + i = i
      BY <2>11, ReadableIs
    <3>. QED  BY <2>3, <2>8, <2>10, <3>1
  <2>. QED  BY <2>11, <2>12 DEF c
<1>. QED  BY <1>1, <1>2

-----------------------------------------------------------------------------
(***************************************************************************)
(* m_out_buf: its readable bytes are the positions after base.             *)
(***************************************************************************)

Cell == Nat \union {Junk}

Queued(b, base) == BufOK(Cell, b) /\ \A i \in 1..ReadableLen(b) : Readable(b)[i] = base + i

\* A new buffer has nothing queued.
LEMMA EmptyQueued ==
  ASSUME NEW base
  PROVE  Queued(Empty, base) /\ ReadableLen(Empty) = 0
<1>1. Empty.cells \in Seq(Cell) /\ Len(Empty.cells) = 0
  BY EmptySeq DEF Empty
<1>2. BufOK(Cell, Empty) /\ ReadableLen(Empty) = 0
  BY <1>1 DEF BufOK, Sound, AllocSize, Empty, ReadableLen
<1>. QED  BY <1>2 DEF Queued

\* What SimpleBuffer's operators do to a run that is queued.
LEMMA QueuedIsRun ==
  ASSUME NEW base \in Nat, NEW b, Queued(b, base)
  PROVE  Run(Readable(b), base) /\ Len(Readable(b)) = ReadableLen(b) /\ ReadableLen(b) \in Nat
<1>. DEFINE s == Readable(b)
            n == ReadableLen(b)
<1>1. s \in Seq(Cell) /\ Len(s) = n /\ n \in Nat /\ \A i \in 1..n : s[i] = base + i
  BY ReadableIs DEF Queued
<1>. HIDE DEF s, n
<1>2. s \in [1..n -> Nat]
  <2>1. s \in [1..n -> Cell]
    BY <1>1, LenProperties
  <2>. QED  BY <1>1, <2>1
<1>3. s \in Seq(Nat)
  BY <1>1, <1>2, FcnIsSeq
<1>. QED  BY <1>1, <1>3 DEF Run, s, n

\* Write appends to what is queued.
LEMMA WriteQueues ==
  ASSUME NEW base \in Nat, NEW b, Queued(b, base), NEW data, Run(data, base + ReadableLen(b))
  PROVE  Queued(Write(b, data), base) /\ ReadableLen(Write(b, data)) = ReadableLen(b) + Len(data)
<1>. DEFINE c == Write(b, data)
            n == ReadableLen(b)
<1>1. Junk \in Cell /\ data \in Seq(Cell) /\ Len(data) \in Nat /\ n \in Nat
  BY SeqMonotonic, LenProperties, ReadableIs DEF Cell, Run, Queued
<1>2. /\ BufOK(Cell, c) /\ ReadableLen(c) = n + Len(data)
      /\ \A i \in 1..n : Readable(c)[i] = Readable(b)[i]
      /\ \A i \in 1..Len(data) : Readable(c)[n + i] = data[i]
  BY <1>1, WriteAppends DEF Queued
<1>3. /\ \A i \in 1..n : Readable(b)[i] = base + i
      /\ \A i \in 1..Len(data) : data[i] = (base + n) + i
  BY DEF Queued, Run
<1>. HIDE DEF c, n
<1>4. ASSUME NEW i \in 1..ReadableLen(c) PROVE Readable(c)[i] = base + i
  <2>1. CASE i <= n
    BY <1>1, <1>2, <1>3, <2>1
  <2>2. CASE ~(i <= n)
    <3>1. i - n \in 1..Len(data) /\ n + (i - n) = i /\ (base + n) + (i - n) = base + i
      BY <1>1, <1>2, <2>2
    <3>2. Readable(c)[n + (i - n)] = data[i - n]
      BY <1>2, <3>1
    <3>. QED  BY <1>3, <3>1, <3>2
  <2>. QED  BY <2>1, <2>2
<1>. QED  BY <1>2, <1>4 DEF Queued, c, n

\* Read takes from its front.
LEMMA ReadQueues ==
  ASSUME NEW base \in Nat, NEW b, Queued(b, base), NEW n \in 0..ReadableLen(b)
  PROVE  Queued(Read(b, n), base + n) /\ ReadableLen(Read(b, n)) = ReadableLen(b) - n
<1>. DEFINE c == Read(b, n)
            m == ReadableLen(b)
<1>1. m \in Nat /\ \A i \in 1..m : Readable(b)[i] = base + i
  BY ReadableIs DEF Queued
<1>2. /\ BufOK(Cell, c) /\ ReadableLen(c) = m - n
      /\ \A i \in 1..(m - n) : Readable(c)[i] = Readable(b)[n + i]
  BY ReadConsumes DEF Queued
<1>. HIDE DEF c
<1>3. \A i \in 1..(m - n) : n + i \in 1..m /\ base + (n + i) = (base + n) + i
  BY <1>1
<1>. HIDE DEF m
<1>. QED  BY <1>1, <1>2, <1>3 DEF Queued, c, m

\* ResetOffset changes nothing of it.
LEMMA ResetQueues ==
  ASSUME NEW base, NEW b, Queued(b, base)
  PROVE  Queued(ResetOffset(b), base) /\ ReadableLen(ResetOffset(b)) = ReadableLen(b)
BY ResetKeeps DEF Queued

-----------------------------------------------------------------------------
(***************************************************************************)
(* Sending, the inductive invariant: the peer, the kernel, the rest of a   *)
(* Send and m_out_buf hold consecutive runs of the stream, and where the   *)
(* IO thread is says which of the last two can hold anything.              *)
(***************************************************************************)

Runs ==
  /\ Run(peer, 0)
  /\ Run(kernel, Len(peer))
  /\ Run(rest, Len(peer) + Len(kernel))
  /\ Queued(out, Len(peer) + Len(kernel) + Len(rest))

AllHere == open # "closed" => Len(peer) + Len(kernel) + Len(rest) + ReadableLen(out) = sent

PcInv ==
  /\ pc = "idle" => rest = <<>>
  /\ pc = "send" => open = "open" /\ ~busy /\ rest # <<>>
  /\ pc = "write" => open = "open" /\ busy /\ rest = <<>>
  /\ open = "confirming" => ~busy

IInv == TypeOK /\ Runs /\ AllHere /\ PcInv /\ BusyIffQueued /\ NoStuckBytes

\* The lengths of the four pieces, which nothing else says are numbers.
LEMMA Lengths ==
  ASSUME Runs
  PROVE  /\ Len(peer) \in Nat /\ Len(kernel) \in Nat /\ Len(rest) \in Nat
         /\ ReadableLen(out) \in Nat /\ Sound(out)
BY LenProperties, ReadableIs DEF Runs, Run, Queued, BufOK

\* What the kernel takes of a run that follows its own extends its own.
LEMMA TakesExtends ==
  ASSUME Len(peer) \in Nat, Len(kernel) \in Nat, Run(kernel, Len(peer)),
         NEW s, Run(s, Len(peer) + Len(kernel)), NEW n, Takes(Chunk(s), n)
  PROVE  /\ n \in 1..Len(s) /\ Len(s) \in Nat
         /\ Run(kernel', Len(peer)) /\ Len(kernel') = Len(kernel) + n /\ Len(kernel') <= SndBuf
         /\ UNCHANGED <<noSpace, edge, reset, peer>> /\ ~reset
<1>. DEFINE base == Len(peer) + Len(kernel)
            c == IF Len(s) > MaxSendSize THEN MaxSendSize ELSE Len(s)
            chunk == SubSeq(s, 1, c)
            part == SubSeq(chunk, 1, n)
<1>1. base \in Nat /\ Len(s) \in Nat /\ c \in 0..Len(s)
  BY LenProperties, SendAssumption DEF Run
<1>2. Run(chunk, base) /\ Len(chunk) = c
  BY <1>1, RunCut
<1>3. n \in 1..Len(chunk) /\ n <= SndBuf - Len(kernel) /\ kernel' = kernel \o part
      /\ UNCHANGED <<noSpace, edge, reset, peer>> /\ ~reset
  BY DEF Takes, Chunk, Room
<1>. HIDE DEF base, c, chunk
<1>4. n \in 0..Len(chunk) /\ n \in 1..Len(s) /\ n \in Nat
  BY <1>1, <1>2, <1>3
<1>5. Run(part, base) /\ Len(part) = n
  BY <1>1, <1>2, <1>4, RunCut
<1>. HIDE DEF part
<1>6. Run(kernel \o part, Len(peer)) /\ Len(kernel \o part) = Len(kernel) + n
  BY <1>5, RunCat DEF base
<1>. QED  BY <1>1, <1>3, <1>4, <1>6, SendAssumption

\* The invariant holds at first.
LEMMA InitIInv == Init => IInv
<1>. SUFFICES ASSUME Init PROVE IInv
  OBVIOUS
<1>1. Run(<<>>, 0) /\ Len(<<>>) = 0 /\ 0 \in Nat /\ 0 + 0 = 0
  BY RunEmpty
<1>2. Queued(out, 0) /\ ReadableLen(out) = 0
  BY EmptyQueued DEF Init
<1>3. Runs
  BY <1>1, <1>2 DEF Init, Runs
<1>4. TypeOK
  <2>1. Sound(out)
    BY <1>3, Lengths
  <2>2. Len(kernel) <= SndBuf /\ sent \in 0..MaxBytes
    BY <1>1, SendAssumption DEF Init
  <2>. QED  BY <2>1, <2>2 DEF Init, TypeOK
<1>5. AllHere
  BY <1>1, <1>2 DEF Init, AllHere
<1>6. PcInv /\ NoStuckBytes
  <2>1. PcInv
    BY DEF Init, PcInv
  <2>2. NoStuckBytes
    BY DEF Init, NoStuckBytes
  <2>. QED  BY <2>1, <2>2
<1>7. BusyIffQueued
  <2>1. ~(ReadableLen(out) > 0)
    BY <1>2
  <2>. QED  BY <2>1 DEF Init, BusyIffQueued
<1>. QED  BY <1>3, <1>4, <1>5, <1>6, <1>7 DEF IInv

\* Every step keeps it.
LEMMA StepIInv == IInv /\ [Next]_vars => IInv'
<1>. SUFFICES ASSUME IInv, [Next]_vars PROVE IInv'
  OBVIOUS
<1>. USE SendAssumption
<1>0. /\ Len(peer) \in Nat /\ Len(kernel) \in Nat /\ Len(rest) \in Nat /\ ReadableLen(out) \in Nat
      /\ Len(peer) + Len(kernel) \in Nat /\ Len(peer) + Len(kernel) + Len(rest) \in Nat
      /\ (rest = <<>> => Len(rest) = 0) /\ (rest # <<>> => Len(rest) > 0)
  BY Lengths, EmptySeq DEF IInv, Runs, Run
<1>1. CASE KernelDrains
  <2>1. /\ Head(kernel) = Len(peer) + 1 /\ Run(Tail(kernel), Len(peer) + 1)
        /\ Len(Tail(kernel)) = Len(kernel) - 1
    BY <1>0, <1>1, RunTail DEF IInv, Runs, KernelDrains
  <2>2. 0 \in Nat /\ 0 + Len(peer) + 1 = Len(peer) + 1
    BY <1>0
  <2>3. Run(Append(peer, 0 + Len(peer) + 1), 0) /\ Len(Append(peer, 0 + Len(peer) + 1)) = Len(peer) + 1
    BY <2>2, RunAppend DEF IInv, Runs
  <2>4. Run(peer', 0) /\ Len(peer') = Len(peer) + 1
    BY <1>1, <2>1, <2>2, <2>3 DEF KernelDrains
  <2>5. Run(kernel', Len(peer')) /\ Len(kernel') = Len(kernel) - 1
    BY <1>1, <2>1, <2>4 DEF KernelDrains
  <2>6. Len(peer') + Len(kernel') = Len(peer) + Len(kernel)
    BY <1>0, <2>4, <2>5
  <2>7. UNCHANGED <<open, busy, out, pc, rest, reset, sent>>
    BY <1>1 DEF KernelDrains
  <2>8. Runs' /\ AllHere' /\ PcInv' /\ BusyIffQueued'
    BY <2>4, <2>5, <2>6, <2>7 DEF IInv, Runs, AllHere, PcInv, BusyIffQueued
  <2>9. \/ noSpace /\ noSpace' = FALSE /\ edge' = TRUE
        \/ UNCHANGED <<noSpace, edge>>
    BY <1>1 DEF KernelDrains
  <2>10. NoStuckBytes'
    BY <2>7, <2>9 DEF IInv, NoStuckBytes
  <2>11. TypeOK'
    <3>1. Len(kernel') <= SndBuf
      BY <1>0, <2>5 DEF IInv, TypeOK
    <3>2. noSpace' \in BOOLEAN /\ edge' \in BOOLEAN
      BY <2>9 DEF IInv, TypeOK
    <3>. QED  BY <2>7, <3>1, <3>2 DEF IInv, TypeOK
  <2>. QED  BY <2>8, <2>10, <2>11 DEF IInv
<1>2. CASE OtherEvent \/ KernelReset \/ OnConfirm
  <2>1. UNCHANGED <<busy, out, pc, rest, kernel, noSpace, sent, peer>>
    BY <1>2 DEF OtherEvent, KernelReset, OnConfirm, kernelVars
  <2>2. Runs'
    BY <2>1 DEF IInv, Runs
  <2>. QED  BY <1>2, <2>1, <2>2
            DEF IInv, TypeOK, AllHere, PcInv, BusyIffQueued, NoStuckBytes,
                OtherEvent, KernelReset, OnConfirm, kernelVars
<1>3. ASSUME NEW n \in Lens, Send(n) PROVE IInv'
  <2>1. n \in Nat \ {0} /\ sent \in Nat /\ sent' = sent + n /\ sent' \in 0..MaxBytes
    BY <1>3 DEF IInv, TypeOK, Send
  <2>2. Run(Stream(sent + 1, sent + n), sent) /\ Len(Stream(sent + 1, sent + n)) = n
    BY <2>1, RunStream
  <2>3. /\ UNCHANGED <<open, busy, kernelVars>> /\ open = "open" /\ pc = "idle"
        /\ rest = <<>> /\ Len(rest) = 0
    BY <1>0, <1>3 DEF Send, IInv, PcInv
  <2>4. sent = Len(peer) + Len(kernel) + Len(rest) + ReadableLen(out)
    BY <2>3 DEF IInv, AllHere
  <2>5. CASE busy
    <3>1. out' = Write(out, Stream(sent + 1, sent + n)) /\ UNCHANGED <<pc, rest>>
      BY <1>3, <2>5 DEF Send, MustQueue
    <3>2. /\ Queued(out', Len(peer) + Len(kernel) + Len(rest))
          /\ ReadableLen(out') = ReadableLen(out) + n
      BY <1>0, <2>2, <2>4, <3>1, WriteQueues DEF IInv, Runs
    <3>3. Runs'
      BY <2>3, <3>1, <3>2 DEF IInv, Runs, kernelVars
    <3>4. AllHere'
      BY <1>0, <2>1, <2>3, <2>4, <3>1, <3>2 DEF AllHere, kernelVars
    <3>5. PcInv' /\ BusyIffQueued' /\ NoStuckBytes'
      BY <1>0, <2>1, <2>3, <2>5, <3>1, <3>2 DEF IInv, PcInv, BusyIffQueued, NoStuckBytes, kernelVars
    <3>6. Sound(out')
      BY <3>2 DEF Queued, BufOK
    <3>7. TypeOK'
      BY <2>1, <2>3, <3>1, <3>6 DEF IInv, TypeOK, kernelVars
    <3>. QED  BY <3>3, <3>4, <3>5, <3>7 DEF IInv
  <2>6. CASE ~busy
    <3>1. pc' = "send" /\ rest' = Stream(sent + 1, sent + n) /\ UNCHANGED out
      BY <1>3, <2>6 DEF Send, MustQueue
    <3>2. ReadableLen(out) = 0 /\ sent = Len(peer) + Len(kernel)
      BY <1>0, <2>3, <2>4, <2>6 DEF IInv, BusyIffQueued
    <3>3. Run(rest', Len(peer) + Len(kernel)) /\ Len(rest') = n
      BY <2>2, <3>1, <3>2
    <3>4. BufOK(Cell, out)
      BY DEF IInv, Runs, Queued
    <3>5. Queued(out', Len(peer) + Len(kernel) + Len(rest'))
      BY <3>1, <3>2, <3>4 DEF Queued
    <3>6. Runs'
      BY <2>3, <3>3, <3>5 DEF IInv, Runs, kernelVars
    <3>7. AllHere'
      BY <1>0, <2>1, <2>3, <3>1, <3>2, <3>3 DEF AllHere, kernelVars
    <3>8. rest' # <<>>
      <4>1. Run(<<>>, 0) /\ Len(<<>>) = 0
        BY RunEmpty
      <4>. QED  BY <2>1, <3>3, <4>1
    <3>9. PcInv' /\ BusyIffQueued' /\ NoStuckBytes'
      BY <2>3, <2>6, <3>1, <3>2, <3>8 DEF IInv, PcInv, BusyIffQueued, NoStuckBytes, kernelVars
    <3>10. TypeOK'
      BY <2>1, <2>3, <3>1 DEF IInv, TypeOK, kernelVars
    <3>. QED  BY <3>6, <3>7, <3>9, <3>10 DEF IInv
  <2>. QED  BY <2>5, <2>6 DEF IInv, TypeOK
<1>4. CASE SendTaken
  <2>1. PICK n \in 1..Len(rest) :
          /\ Takes(Chunk(rest), n)
          /\ rest' = SubSeq(rest, n + 1, Len(rest))
          /\ pc' = IF n = Len(rest) THEN "idle" ELSE "send"
    BY <1>4 DEF SendTaken
  <2>2. pc = "send" /\ open = "open" /\ ~busy /\ UNCHANGED <<open, busy, out, sent>>
    BY <1>4 DEF SendTaken, IInv, PcInv
  <2>3. /\ Run(kernel', Len(peer)) /\ Len(kernel') = Len(kernel) + n /\ Len(kernel') <= SndBuf
        /\ UNCHANGED <<noSpace, edge, reset, peer>>
    BY <1>0, <2>1, TakesExtends DEF IInv, Runs
  <2>4. n \in 0..Len(rest) /\ n \in Nat
    BY <1>0
  <2>5. Run(rest', Len(peer) + Len(kernel) + n) /\ Len(rest') = Len(rest) - n
    BY <1>0, <2>1, <2>4, RunCut DEF IInv, Runs
  <2>6. /\ Len(peer) + Len(kernel) + n = Len(peer) + Len(kernel')
        /\ Len(peer) + Len(kernel') + Len(rest') = Len(peer) + Len(kernel) + Len(rest)
    BY <1>0, <2>3, <2>4, <2>5
  <2>7. Runs'
    BY <2>2, <2>3, <2>5, <2>6 DEF IInv, Runs
  <2>8. AllHere'
    BY <2>2, <2>3, <2>6 DEF IInv, AllHere
  <2>9. ReadableLen(out') = 0 /\ ReadableLen(out) = 0
    BY <1>0, <2>2 DEF IInv, BusyIffQueued
  <2>10. /\ n = Len(rest) => rest' = <<>>
         /\ n # Len(rest) => rest' # <<>>
    <3>1. (Len(rest') = 0 => rest' = <<>>) /\ (rest' = <<>> => Len(rest') = 0)
      BY <2>5, EmptySeq DEF Run
    <3>. QED  BY <1>0, <2>5, <3>1
  <2>11. PcInv' /\ BusyIffQueued' /\ NoStuckBytes'
    BY <2>1, <2>2, <2>9, <2>10 DEF PcInv, BusyIffQueued, NoStuckBytes
  <2>12. TypeOK'
    BY <2>1, <2>2, <2>3 DEF IInv, TypeOK
  <2>. QED  BY <2>7, <2>8, <2>11, <2>12 DEF IInv
<1>5. CASE SendRefused
  <2>1. /\ pc = "send" /\ open = "open" /\ ~busy /\ rest # <<>> /\ UNCHANGED <<open, sent, kernel, edge, reset, peer>>
        /\ out' = Write(out, rest) /\ busy' = TRUE /\ rest' = <<>> /\ pc' = "idle"
        /\ (noSpace' \/ reset') /\ noSpace' \in BOOLEAN
    BY <1>5 DEF SendRefused, Refuses, MarkBusy, kernelVars, IInv, PcInv, TypeOK
  <2>2. ReadableLen(out) = 0 /\ Len(rest) > 0
    BY <1>0, <2>1 DEF IInv, BusyIffQueued
  <2>3. Queued(out, Len(peer) + Len(kernel)) /\ Run(rest, Len(peer) + Len(kernel) + ReadableLen(out))
    BY <1>0, <2>2 DEF IInv, Runs, Queued
  <2>4. /\ Queued(out', Len(peer) + Len(kernel))
        /\ ReadableLen(out') = Len(rest)
    BY <1>0, <2>1, <2>2, <2>3, WriteQueues
  <2>5. Run(rest', Len(peer) + Len(kernel)) /\ Len(rest') = 0
    BY <1>0, <2>1, RunEmpty
  <2>6. Runs'
    BY <1>0, <2>1, <2>4, <2>5 DEF IInv, Runs
  <2>7. AllHere'
    BY <1>0, <2>1, <2>2, <2>4, <2>5 DEF IInv, AllHere
  <2>8. PcInv' /\ BusyIffQueued' /\ NoStuckBytes'
    BY <2>1, <2>2, <2>4 DEF IInv, PcInv, BusyIffQueued, NoStuckBytes
  <2>9. Sound(out')
    BY <2>4 DEF Queued, BufOK
  <2>10. TypeOK'
    BY <2>1, <2>9 DEF IInv, TypeOK
  <2>. QED  BY <2>6, <2>7, <2>8, <2>10 DEF IInv
<1>6. CASE OnWrite
  <2>1. UNCHANGED <<open, busy, out, rest, kernel, noSpace, reset, sent, peer>>
    BY <1>6 DEF OnWrite
  <2>2. Runs'
    BY <2>1 DEF IInv, Runs
  <2>3. AllHere'
    BY <2>1 DEF IInv, AllHere
  <2>4. pc = "idle" /\ open = "open" /\ edge' = FALSE /\ pc' = IF busy THEN "write" ELSE "idle"
    BY <1>6 DEF OnWrite
  <2>5. CASE busy
    BY <2>1, <2>2, <2>3, <2>4, <2>5 DEF IInv, TypeOK, PcInv, BusyIffQueued, NoStuckBytes
  <2>6. CASE ~busy
    <3>1. ~(ReadableLen(out) > 0)
      BY <2>4, <2>6 DEF IInv, BusyIffQueued
    <3>. QED  BY <2>1, <2>2, <2>3, <2>4, <2>6, <3>1 DEF IInv, TypeOK, PcInv, BusyIffQueued, NoStuckBytes
  <2>. QED  BY <2>5, <2>6
<1>7. CASE WriteTaken
  <2>1. PICK n \in 1..ReadableLen(out) : Takes(Chunk(Readable(out)), n) /\ out' = Read(out, n)
    BY <1>7 DEF WriteTaken
  <2>2. /\ pc = "write" /\ rest = <<>> /\ Len(rest) = 0 /\ UNCHANGED <<open, busy, pc, rest, sent>>
    BY <1>0, <1>7 DEF WriteTaken, IInv, PcInv
  <2>3. Queued(out, Len(peer) + Len(kernel)) /\ Len(peer) + Len(kernel) + Len(rest) = Len(peer) + Len(kernel)
    BY <1>0, <2>2 DEF IInv, Runs
  <2>4. Run(Readable(out), Len(peer) + Len(kernel))
    BY <1>0, <2>3, QueuedIsRun
  <2>5. /\ Run(kernel', Len(peer)) /\ Len(kernel') = Len(kernel) + n /\ Len(kernel') <= SndBuf
        /\ UNCHANGED <<noSpace, edge, reset, peer>>
    BY <1>0, <2>1, <2>4, TakesExtends DEF IInv, Runs
  <2>6. n \in 0..ReadableLen(out) /\ n \in Nat
    BY <1>0
  <2>7. Queued(out', Len(peer) + Len(kernel) + n) /\ ReadableLen(out') = ReadableLen(out) - n
    BY <1>0, <2>1, <2>3, <2>6, ReadQueues
  <2>8. Len(peer) + Len(kernel) + n = Len(peer) + Len(kernel') + Len(rest)
        /\ Len(peer) + Len(kernel') \in Nat
    BY <1>0, <2>2, <2>5, <2>6
  <2>9. Run(rest, Len(peer) + Len(kernel'))
    BY <2>2, <2>8, RunEmpty
  <2>10. Runs'
    BY <2>2, <2>5, <2>7, <2>8, <2>9 DEF IInv, Runs
  <2>11. AllHere'
    BY <1>0, <2>2, <2>5, <2>6, <2>7 DEF IInv, AllHere
  <2>12. Sound(out')
    BY <2>7 DEF Queued, BufOK
  <2>13. TypeOK' /\ PcInv' /\ BusyIffQueued' /\ NoStuckBytes'
    BY <2>2, <2>5, <2>12 DEF IInv, TypeOK, PcInv, BusyIffQueued, NoStuckBytes
  <2>. QED  BY <2>10, <2>11, <2>13 DEF IInv
<1>8. CASE WriteRefused \/ WriteAll
  <2>1. /\ pc = "write" /\ open = "open" /\ busy /\ UNCHANGED <<open, rest, sent, kernel, edge, reset, peer>>
        /\ out' = ResetOffset(out) /\ busy' = (busy /\ ReadableLen(out') # 0) /\ pc' = "idle"
        /\ (noSpace' \/ reset' \/ ReadableLen(out) = 0) /\ noSpace' \in BOOLEAN
    BY <1>8 DEF WriteRefused, WriteAll, Refuses, Emptied, EndWrite, kernelVars, IInv, PcInv, TypeOK
  <2>2. /\ Queued(out', Len(peer) + Len(kernel) + Len(rest))
        /\ ReadableLen(out') = ReadableLen(out)
    BY <2>1, ResetQueues DEF IInv, Runs
  <2>3. Runs'
    BY <2>1, <2>2 DEF IInv, Runs
  <2>4. AllHere'
    BY <2>1, <2>2 DEF IInv, AllHere
  <2>5. PcInv' /\ BusyIffQueued' /\ NoStuckBytes'
    <3>1. ReadableLen(out') # 0 <=> ReadableLen(out') > 0
      BY <1>0, <2>2
    <3>2. busy' <=> ReadableLen(out') > 0
      BY <2>1, <3>1
    <3>3. ReadableLen(out') > 0 => noSpace' \/ reset'
      BY <2>1, <2>2
    <3>. QED  BY <2>1, <3>2, <3>3 DEF IInv, PcInv, BusyIffQueued, NoStuckBytes
  <2>6. Sound(out')
    BY <2>2 DEF Queued, BufOK
  <2>7. TypeOK'
    BY <2>1, <2>6 DEF IInv, TypeOK
  <2>. QED  BY <2>3, <2>4, <2>5, <2>7 DEF IInv
<1>9. CASE Close
  <2>1. /\ pc = "idle" /\ open' = "closed" /\ out' = Empty /\ busy' = FALSE
        /\ UNCHANGED <<pc, rest, kernelVars, sent>> /\ rest = <<>>
    BY <1>9 DEF Close, IInv, PcInv
  <2>2. Queued(out', Len(peer) + Len(kernel) + Len(rest)) /\ ReadableLen(out') = 0
    BY <2>1, EmptyQueued
  <2>3. Runs'
    BY <2>1, <2>2 DEF IInv, Runs, kernelVars
  <2>4. Sound(out')
    BY <2>2 DEF Queued, BufOK
  <2>5. ~(ReadableLen(out') > 0)
    BY <2>2
  <2>6. TypeOK'
    BY <2>1, <2>4 DEF IInv, TypeOK, kernelVars
  <2>. QED  BY <2>1, <2>3, <2>5, <2>6 DEF IInv, AllHere, PcInv, BusyIffQueued, NoStuckBytes
<1>10. CASE UNCHANGED vars
  <2>1. Runs'
    BY <1>10 DEF IInv, Runs, vars, kernelVars
  <2>. QED  BY <1>10, <2>1
            DEF vars, kernelVars, IInv, TypeOK, AllHere, PcInv, BusyIffQueued, NoStuckBytes
<1>. QED  BY <1>1, <1>2, <1>3, <1>4, <1>5, <1>6, <1>7, <1>8, <1>9, <1>10 DEF Next, LoopStep, OnClose

\* The invariant of the four places a byte can be in, from Send to the peer.
THEOREM Invariance == Spec => []IInv
<1>. QED  BY InitIInv, StepIInv, PTL DEF Spec

-----------------------------------------------------------------------------
(***************************************************************************)
(* Sending, the theorems.                                                  *)
(***************************************************************************)

\* Consecutive runs of the stream make up the stream.
LEMMA RunsInOrder == IInv => InOrder
<1>. SUFFICES ASSUME IInv PROVE InOrder
  OBVIOUS
<1>1. Len(peer) \in Nat /\ Len(kernel) \in Nat /\ Len(rest) \in Nat
  BY Lengths DEF IInv
<1>. DEFINE m == Len(peer)
            n == m + Len(kernel)
            k == n + Len(rest)
            a == peer \o kernel
            b == a \o rest
            q == Readable(out)
            c == b \o q
<1>2. /\ m \in Nat /\ n \in Nat /\ k \in Nat /\ 0 \in Nat
      /\ 0 + m = m /\ 0 + n = n /\ 0 + k = k
  BY <1>1
<1>3. Run(a, 0) /\ Len(a) = n
  <2>1. Run(peer, 0) /\ Run(kernel, 0 + Len(peer))
    BY <1>2 DEF IInv, Runs
  <2>. QED  BY <1>2, <2>1, RunCat
<1>4. Run(b, 0) /\ Len(b) = k
  <2>1. Run(rest, 0 + n)
    BY <1>2 DEF IInv, Runs
  <2>. HIDE DEF a, n
  <2>2. Run(rest, 0 + Len(a)) /\ Len(b) = Len(a) + Len(rest)
    BY <1>2, <1>3, <2>1, RunCat
  <2>. QED  BY <1>2, <1>3, <2>2, RunCat
<1>5. Run(c, 0) /\ Len(c) = k + ReadableLen(out)
  <2>1. Run(q, k) /\ Len(q) = ReadableLen(out)
    BY <1>2, QueuedIsRun DEF IInv, Runs
  <2>. HIDE DEF b, k, q
  <2>2. Run(q, 0 + Len(b))
    BY <1>2, <1>4, <2>1
  <2>3. Run(c, 0) /\ Len(c) = Len(b) + Len(q)
    BY <1>2, <1>4, <2>2, RunCat
  <2>. QED  BY <1>4, <2>1, <2>3
<1>. HIDE DEF c
<1>6. a = Stream(1, Len(a)) /\ c = Stream(1, Len(c))
  <2>. HIDE DEF a
  <2>. QED  BY <1>3, <1>5, RunIsStream
<1>7. open = "open" => Len(c) = sent
  BY <1>5 DEF IInv, AllHere
<1>8. (open = "open" => c = Stream(1, sent)) /\ a = Stream(1, Len(a))
  BY <1>6, <1>7
<1>. QED  BY <1>8 DEF InOrder, c

\* The peer receives a prefix of the stream the application sent, and while
\* the connection is open the kernel, the rest of a Send and m_out_buf hold
\* all that follows, in order: the direct send and OnWrite never overtake,
\* lose or repeat a byte.
THEOREM SentInOrder == Spec => []InOrder
<1>. QED  BY Invariance, RunsInOrder, PTL

\* m_busy is set exactly when m_out_buf has something, and then the kernel
\* has reported room, will report it, or the connection is broken: no byte is
\* left in the queue without an event to come for it.
THEOREM QueueNotForgotten == Spec => []QueueInv
<1>1. IInv => QueueInv
  BY DEF IInv, QueueInv
<1>. QED  BY <1>1, Invariance, PTL

-----------------------------------------------------------------------------
(***************************************************************************)
(* Receiving: what is at hand, as a sequence of packets' bytes.            *)
(***************************************************************************)

Byte == Nat \X Nat

\* b follows a by d places: exactly in the same packet, and at most by what is
\* left of a's packet, the longest packets between, and b's place in its own.
Apart(s, a, b, d) ==
  \/ a[1] = b[1] /\ d = b[2] - a[2]
  \/ a[1] < b[1] /\ d <= (BytesOf(s[a[1]]) - a[2]) + b[2] + (b[1] - a[1] - 1) * (HeaderLen + 1)

\* t has the bytes of the packets of s after the h-th, in order.
FlowFrom(s, t, h) ==
  /\ t \in Seq(Byte) /\ h \in 0..Len(s)
  /\ \A p \in 1..Len(t) : t[p][1] \in (h + 1)..Len(s) /\ t[p][2] \in 1..BytesOf(s[t[p][1]])
  /\ \A p, q \in 1..Len(t) : p < q => Apart(s, t[p], t[q], q - p)
  /\ \A n \in (h + 1)..Len(s) : \A i \in 1..BytesOf(s[n]) : \E p \in 1..Len(t) : t[p] = <<n, i>>

\* A packet is a header long, or one byte more.
LEMMA BytesBound ==
  ASSUME NEW kind
  PROVE  BytesOf(kind) \in Nat \ {0} /\ BytesOf(kind) \in HeaderLen..(HeaderLen + 1)
BY RecvAssumption DEF BytesOf

\* The bytes of a packet, as a sequence.
LEMMA PacketTyped ==
  ASSUME NEW n \in Nat, NEW kind
  PROVE  /\ Packet(n, kind) \in Seq(Byte) /\ Len(Packet(n, kind)) = BytesOf(kind)
         /\ \A i \in 1..BytesOf(kind) : Packet(n, kind)[i] = <<n, i>>
<1>. DEFINE f == [i \in 1..BytesOf(kind) |-> <<n, i>>]
<1>1. BytesOf(kind) \in Nat
  BY BytesBound
<1>2. f \in [1..BytesOf(kind) -> Byte]
  BY <1>1 DEF Byte
<1>3. f \in Seq(Byte) /\ Len(f) = BytesOf(kind)
  BY <1>1, <1>2, FcnIsSeq
<1>4. \A i \in 1..BytesOf(kind) : f[i] = <<n, i>>
  OBVIOUS
<1>. QED  BY <1>3, <1>4 DEF Packet

\* Multiplication keeps the order of the integers.
LEMMA Longer ==
  ASSUME NEW x \in Int, NEW y \in Int, x <= y, NEW k \in Nat
  PROVE  x * k <= y * k
OBVIOUS

\* The first byte at hand begins the packet after the last one handled, and the
\* rest of that packet follows.
LEMMA FlowHead ==
  ASSUME NEW s \in Seq(AllKinds), NEW t, NEW h, FlowFrom(s, t, h), t # <<>>
  PROVE  /\ h + 1 \in 1..Len(s)
         /\ \A i \in 1..BytesOf(s[h + 1]) : i \in 1..Len(t) /\ t[i] = <<h + 1, i>>
<1>1. t \in Seq(Byte) /\ h \in 0..Len(s) /\ Len(s) \in Nat
  BY LenProperties DEF FlowFrom
<1>2. Len(t) \in Nat \ {0}
  BY <1>1, LenProperties, EmptySeq
<1>3. t[1][1] \in (h + 1)..Len(s) /\ t[1][2] \in 1..BytesOf(s[t[1][1]])
  BY <1>2 DEF FlowFrom
<1>4. h + 1 \in 1..Len(s)
  BY <1>1, <1>3
<1>5. t[1] \in Byte
  BY <1>1, <1>2, ElementOfSeq
<1>6. ASSUME NEW i \in 1..BytesOf(s[h + 1]), NEW p \in 1..Len(t), t[p] = <<h + 1, i>>
      PROVE  t[1][1] = h + 1 /\ p - 1 = i - t[1][2]
  <2>0. BytesOf(s[h + 1]) \in Nat /\ p \in Nat
    BY BytesBound, <1>2
  <2>1. CASE p = 1
    BY <1>6, <2>0, <2>1
  <2>2. CASE p # 1
    <3>1. 1 < p /\ 1 \in 1..Len(t)
      BY <1>2, <2>2
    <3>2. Apart(s, t[1], t[p], p - 1)
      BY <3>1 DEF FlowFrom
    <3>3. t[p][1] = h + 1 /\ t[p][2] = i
      BY <1>6
    <3>4. ~(t[1][1] < h + 1)
      BY <1>1, <1>3
    <3>. QED  BY <3>2, <3>3, <3>4 DEF Apart
  <2>. QED  BY <2>1, <2>2
<1>7. 1 \in 1..BytesOf(s[h + 1]) /\ h + 1 \in (h + 1)..Len(s)
  BY <1>1, <1>4, BytesBound
<1>8. t[1][2] = 1
  <2>1. PICK p \in 1..Len(t) : t[p] = <<h + 1, 1>>
    BY <1>7 DEF FlowFrom
  <2>2. p - 1 = 1 - t[1][2] /\ t[1][1] = h + 1
    BY <1>6, <1>7, <2>1
  <2>. QED  BY <1>2, <1>3, <2>2, BytesBound
<1>9. ASSUME NEW i \in 1..BytesOf(s[h + 1])
      PROVE  i \in 1..Len(t) /\ t[i] = <<h + 1, i>>
  <2>1. PICK p \in 1..Len(t) : t[p] = <<h + 1, i>>
    BY <1>7 DEF FlowFrom
  <2>2. p - 1 = i - 1
    BY <1>6, <1>8, <2>1
  <2>3. p = i
    BY <1>2, <2>2, BytesBound
  <2>. QED  BY <2>1, <2>3
<1>. QED  BY <1>4, <1>9

\* Nothing is at hand only when everything was handled.
LEMMA FlowNone ==
  ASSUME NEW s \in Seq(AllKinds), NEW h, FlowFrom(s, <<>>, h)
  PROVE  h = Len(s)
<1>1. h \in 0..Len(s) /\ Len(s) \in Nat /\ Len(<<>>) = 0
  BY LenProperties, EmptySeq DEF FlowFrom
<1>2. ASSUME h # Len(s) PROVE FALSE
  <2>1. h + 1 \in (h + 1)..Len(s) /\ 1 \in 1..BytesOf(s[h + 1])
    BY <1>1, <1>2, BytesBound
  <2>2. \E p \in 1..Len(<<>>) : <<>>[p] = <<h + 1, 1>>
    BY <2>1 DEF FlowFrom
  <2>. QED  BY <1>1, <2>2
<1>. QED  BY <1>2

\* What follows the first packet at hand.
LEMMA FlowDrop ==
  ASSUME NEW s \in Seq(AllKinds), NEW h, NEW a \in Seq(Byte), NEW b \in Seq(Byte), a \o b # <<>>,
         FlowFrom(s, a \o b, h), Len(a) = BytesOf(s[h + 1])
  PROVE  FlowFrom(s, b, h + 1)
<1>. DEFINE t == a \o b
            B == BytesOf(s[h + 1])
<1>1. /\ t \in Seq(Byte) /\ Len(t) = Len(a) + Len(b) /\ Len(a) \in Nat /\ Len(b) \in Nat
      /\ \A i \in 1..(Len(a) + Len(b)) : t[i] = IF i <= Len(a) THEN a[i] ELSE b[i - Len(a)]
  BY ConcatProperties, LenProperties
<1>2. h \in 0..Len(s) /\ Len(s) \in Nat
  BY LenProperties DEF FlowFrom
<1>3. h + 1 \in 1..Len(s) /\ \A i \in 1..B : i \in 1..Len(t) /\ t[i] = <<h + 1, i>>
  BY FlowHead
<1>4. B \in Nat \ {0} /\ Len(a) = B
  BY BytesBound
<1>5. FlowFrom(s, t, h)
  OBVIOUS
<1>. HIDE DEF t, B
<1>6. ASSUME NEW i \in 1..Len(b) PROVE B + i \in 1..Len(t) /\ t[B + i] = b[i]
  <2>1. B + i \in 1..(Len(a) + Len(b)) /\ ~(B + i <= Len(a)) /\ (B + i) - Len(a) = i
    BY <1>1, <1>4
  <2>. QED  BY <1>1, <2>1
<1>7. ASSUME NEW i \in 1..Len(b)
      PROVE  b[i][1] \in (h + 2)..Len(s) /\ b[i][2] \in 1..BytesOf(s[b[i][1]])
  <2>1. b[i][1] \in (h + 1)..Len(s) /\ b[i][2] \in 1..BytesOf(s[b[i][1]])
    BY <1>5, <1>6 DEF FlowFrom
  <2>2. ASSUME b[i][1] = h + 1 PROVE FALSE
    <3>1. b[i][2] \in 1..B
      BY <2>1, <2>2 DEF B
    <3>2. 1 \in 1..B /\ t[1] = <<h + 1, 1>> /\ 1 < B + i /\ 1 \in 1..Len(t) /\ B + i \in 1..Len(t)
      BY <1>3, <1>4, <1>6
    <3>3. Apart(s, t[1], t[B + i], (B + i) - 1)
      BY <1>5, <3>2 DEF FlowFrom
    <3>4. t[1][1] = h + 1 /\ t[1][2] = 1 /\ t[B + i] = b[i]
      BY <1>6, <3>2
    <3>5. (B + i) - 1 = b[i][2] - 1
      BY <1>2, <2>2, <3>3, <3>4 DEF Apart
    <3>. QED  BY <1>4, <3>1, <3>5
  <2>. QED  BY <1>2, <2>1, <2>2
<1>8. \A p, q \in 1..Len(b) : p < q => Apart(s, b[p], b[q], q - p)
  <2>. SUFFICES ASSUME NEW p \in 1..Len(b), NEW q \in 1..Len(b), p < q PROVE Apart(s, b[p], b[q], q - p)
    OBVIOUS
  <2>1. B + p < B + q /\ (B + q) - (B + p) = q - p
    BY <1>4
  <2>2. B + p \in 1..Len(t) /\ B + q \in 1..Len(t) /\ t[B + p] = b[p] /\ t[B + q] = b[q]
    BY <1>6
  <2>3. Apart(s, t[B + p], t[B + q], (B + q) - (B + p))
    BY <1>5, <2>1, <2>2 DEF FlowFrom
  <2>. QED  BY <2>1, <2>2, <2>3
<1>9. ASSUME NEW n \in (h + 2)..Len(s), NEW i \in 1..BytesOf(s[n])
      PROVE  \E p \in 1..Len(b) : b[p] = <<n, i>>
  <2>1. n \in (h + 1)..Len(s)
    BY <1>2
  <2>2. PICK p \in 1..Len(t) : t[p] = <<n, i>>
    BY <1>5, <2>1 DEF FlowFrom
  <2>3. ~(p <= B)
    <3>. SUFFICES ASSUME p <= B PROVE FALSE
      OBVIOUS
    <3>1. t[p] = <<h + 1, p>>
      BY <1>1, <1>3, <1>4
    <3>2. n = h + 1
      BY <2>2, <3>1
    <3>. QED  BY <1>2, <3>2
  <2>4. p - B \in 1..Len(b) /\ B + (p - B) = p
    BY <1>1, <1>4, <2>3
  <2>. QED  BY <1>6, <2>2, <2>4
<1>10. h + 1 \in 0..Len(s) /\ (h + 1) + 1 = h + 2
  BY <1>2, <1>3
<1>. QED  BY <1>7, <1>8, <1>9, <1>10 DEF FlowFrom

\* A packet whose length is never reached: all that can follow is shorter.
LEMMA FlowBound ==
  ASSUME NEW s \in Seq(AllKinds), NEW t, NEW h, FlowFrom(s, t, h), t # <<>>, Len(s) <= MaxPkts,
         s[h + 1] = "huge"
  PROVE  Len(t) < Claims("huge")
<1>. DEFINE L == Len(t)
            M == MaxPkts
            K == HeaderLen + 1
<1>1. h + 1 \in 1..Len(s) /\ 1 \in 1..L /\ t[1] = <<h + 1, 1>>
  <2>1. 1 \in 1..BytesOf(s[h + 1])
    BY BytesBound
  <2>. QED  BY <2>1, FlowHead
<1>2. /\ HeaderLen \in Nat \ {0} /\ M \in Nat \ {0} /\ L \in Nat \ {0} /\ Len(s) \in 1..M
      /\ h \in Nat /\ K \in Nat
  <2>1. Len(s) \in Nat /\ t \in Seq(Byte) /\ h \in 0..Len(s)
    BY LenProperties DEF FlowFrom
  <2>2. L \in Nat
    BY <2>1, LenProperties
  <2>. QED  BY <1>1, <2>1, <2>2, RecvAssumption
<1>3. t[1][1] = h + 1 /\ t[1][2] = 1
  BY <1>1
<1>4. L \in 1..Len(t) /\ t[L][1] \in (h + 1)..Len(s) /\ t[L][2] \in 1..BytesOf(s[t[L][1]])
  <2>1. L \in 1..Len(t)
    BY <1>2
  <2>. QED  BY <2>1 DEF FlowFrom
<1>5. BytesOf(s[h + 1]) = HeaderLen
  BY DEF BytesOf
<1>6. t[L][2] <= HeaderLen + 1 /\ t[L][2] \in Nat
  <2>1. BytesOf(s[t[L][1]]) \in Nat /\ BytesOf(s[t[L][1]]) <= HeaderLen + 1
    BY <1>2, BytesBound
  <2>. QED  BY <1>2, <1>4, <2>1
<1>7. CASE L = 1
  <2>1. 2 * M * HeaderLen = 2 * (M * HeaderLen) /\ M * HeaderLen \in Nat /\ 1 * HeaderLen <= M * HeaderLen
    BY <1>2, Longer
  <2>2. L < 2 * M * HeaderLen
    BY <1>2, <1>7, <2>1
  <2>. QED  BY <2>2 DEF Claims
<1>8. CASE L # 1
  <2>1. Apart(s, t[1], t[L], L - 1)
    <3>1. \A p, q \in 1..Len(t) : p < q => Apart(s, t[p], t[q], q - p)
      BY DEF FlowFrom
    <3>2. L \in Nat \ {0} /\ L # 1
      BY <1>2, <1>8
    <3>. HIDE DEF L
    <3>3. 1 \in 1..L /\ L \in 1..L /\ 1 < L
      BY <3>2
    <3>. QED  BY <3>1, <3>3 DEF L
  <2>2. 2 * M * HeaderLen = 2 * (M * HeaderLen) /\ M * HeaderLen \in Nat /\ 1 * HeaderLen <= M * HeaderLen
    BY <1>2, Longer
  <2>3. CASE t[L][1] = h + 1
    <3>1. L - 1 = t[L][2] - 1 /\ t[L][2] <= HeaderLen
      BY <1>2, <1>3, <1>4, <1>5, <2>1, <2>3 DEF Apart
    <3>2. L < 2 * M * HeaderLen
      <4>1. L <= HeaderLen /\ L \in Nat /\ HeaderLen \in Nat \ {0} /\ 1 * HeaderLen = HeaderLen
        BY <1>2, <1>6, <3>1
      <4>. HIDE DEF L, M
      <4>. QED  BY <2>2, <4>1
    <3>. QED  BY <3>2 DEF Claims
  <2>4. CASE t[L][1] # h + 1
    <3>. DEFINE d == t[L][1] - (h + 1) - 1
    <3>1. L - 1 <= (HeaderLen - 1) + t[L][2] + d * K
      BY <1>3, <1>5, <2>1, <2>4 DEF Apart
    <3>2. d \in Nat /\ d <= M - 2 /\ M - 2 \in Nat
      <4>. DEFINE m == t[L][1]
                  x == Len(s)
      <4>1. m \in (h + 1)..x /\ m # h + 1 /\ x \in 1..M /\ M \in Nat /\ h \in Nat
        BY <1>2, <1>4, <2>4
      <4>2. d = m - (h + 1) - 1
        OBVIOUS
      <4>. HIDE DEF m, x, d, M
      <4>. QED  BY <4>1, <4>2
    <3>. HIDE DEF d
    <3>3. d * K <= (M - 2) * K /\ d * K \in Nat
      BY <1>2, <3>2, Longer
    <3>4. (M - 2) * K = M * HeaderLen + M - 2 * HeaderLen - 2
      BY <1>2
    <3>5. M <= M * HeaderLen
      <4>1. 1 * M <= HeaderLen * M /\ HeaderLen * M = M * HeaderLen
        BY <1>2, Longer
      <4>. QED  BY <1>2, <4>1
    <3>. HIDE DEF M, K, L
    <3>6. L <= HeaderLen + HeaderLen + 1 + d * K
      BY <1>2, <1>6, <3>1, <3>3
    <3>7. L < 2 * M * HeaderLen
      BY <1>2, <2>2, <3>3, <3>4, <3>5, <3>6
    <3>. QED  BY <3>7 DEF Claims, L, M
  <2>. QED  BY <2>3, <2>4
<1>. QED  BY <1>7, <1>8

\* The bytes up to a packet are at most those up to a later one.
LEMMA SpanGrows ==
  ASSUME NEW n \in Int, NEW m \in Int, NEW x \in Int, n < m, m <= x, NEW k \in Nat,
         NEW d \in Int, NEW r \in Int, NEW j \in Int, j <= k, d <= r + j + (m - n - 1) * k
  PROVE  d <= r + (x - n) * k
<1>. DEFINE a == (m - n - 1) * k
            b == (x - n - 1) * k
            c == (x - n) * k
<1>1. a \in Int /\ b \in Int /\ c \in Int
  OBVIOUS
<1>2. a <= b
  BY Longer
<1>3. c = b + k
  OBVIOUS
<1>4. d <= r + j + a
  OBVIOUS
<1>. HIDE DEF a, b, c
<1>5. d <= r + c
  BY <1>1, <1>2, <1>3, <1>4
<1>. QED  BY <1>5 DEF c

\* The last byte at hand is not further than its place says.
LEMMA FlowLast ==
  ASSUME NEW s \in Seq(AllKinds), NEW t, NEW h, FlowFrom(s, t, h), NEW p \in 1..Len(t)
  PROVE  /\ t[p][1] \in 1..Len(s) /\ t[p][2] \in 1..BytesOf(s[t[p][1]])
         /\ Len(t) - p <= (BytesOf(s[t[p][1]]) - t[p][2]) + (Len(s) - t[p][1]) * (HeaderLen + 1)
<1>. DEFINE L == Len(t)
            n == t[p][1]
            m == t[L][1]
            B == BytesOf(s[n])
            K == HeaderLen + 1
            i == t[p][2]
            j == t[L][2]
<1>1. L \in Nat /\ Len(s) \in Nat /\ h \in Nat /\ p \in 1..L
  <2>1. t \in Seq(Byte) /\ h \in 0..Len(s)
    BY DEF FlowFrom
  <2>. QED  BY <2>1, LenProperties
<1>2. L \in 1..L /\ K \in Nat
  BY <1>1, RecvAssumption
<1>3. n \in (h + 1)..Len(s) /\ i \in 1..B
  BY DEF FlowFrom
<1>4. m \in (h + 1)..Len(s) /\ j \in 1..BytesOf(s[m])
  BY <1>2 DEF FlowFrom
<1>5. B \in Nat /\ BytesOf(s[m]) \in Nat /\ BytesOf(s[m]) <= K
  BY BytesBound, RecvAssumption
<1>6. p = L \/ Apart(s, t[p], t[L], L - p)
  <2>1. \A q, r \in 1..Len(t) : q < r => Apart(s, t[q], t[r], r - q)
    BY DEF FlowFrom
  <2>2. CASE p # L
    <3>. HIDE DEF L
    <3>1. p < L
      BY <1>1, <2>2
    <3>. QED  BY <1>2, <2>1, <3>1 DEF L
  <2>. QED  BY <2>2
<1>7. \/ p = L
      \/ n = m /\ L - p = j - i /\ j <= B
      \/ n < m /\ L - p <= (B - i) + j + (m - n - 1) * K
  <2>1. n = m => j \in 1..B
    BY <1>4
  <2>2. \/ p = L
        \/ n = m /\ L - p = j - i
        \/ n < m /\ L - p <= (B - i) + j + (m - n - 1) * K
    BY <1>6 DEF Apart
  <2>3. j \in 1..B => j <= B
    BY <1>5
  <2>. QED  BY <2>1, <2>2, <2>3, Zenon
<1>. HIDE DEF L, n, m, B, K, i, j
<1>8. /\ n \in Int /\ m \in Int /\ m <= Len(s) /\ n <= Len(s) /\ i \in Int /\ j \in Int /\ i <= B /\ j <= K
      /\ L - p \in Int /\ B - i \in Int
  BY <1>1, <1>2, <1>3, <1>4, <1>5
<1>9. L - p <= (B - i) + (Len(s) - n) * K
  <2>1. 0 * K <= (Len(s) - n) * K /\ 0 * K = 0
    BY <1>1, <1>2, <1>8, Longer
  <2>. DEFINE y == (Len(s) - n) * K
  <2>2. y \in Int /\ 0 <= y
    BY <1>1, <1>2, <1>8, <2>1
  <2>3. CASE p = L \/ (L - p = j - i /\ j <= B)
    <3>. HIDE DEF y
    <3>1. L - p <= (B - i) + y
      BY <1>1, <1>5, <1>8, <2>2, <2>3
    <3>. QED  BY <3>1 DEF y
  <2>4. CASE n < m /\ L - p <= (B - i) + j + (m - n - 1) * K
    <3>. DEFINE d == L - p
                r == B - i
                x == Len(s)
    <3>1. /\ n \in Int /\ m \in Int /\ x \in Int /\ n < m /\ m <= x /\ K \in Nat
          /\ d \in Int /\ r \in Int /\ j \in Int /\ j <= K
      BY <1>1, <1>2, <1>8, <2>4
    <3>2. d <= r + j + (m - n - 1) * K
      BY <2>4
    <3>. HIDE DEF d, r, x, y
    <3>3. d <= r + (x - n) * K
      BY <3>1, <3>2, SpanGrows
    <3>. QED  BY <3>3 DEF d, r, x
  <2>. QED  BY <1>7, <2>3, <2>4
<1>10. n \in 1..Len(s)
  BY <1>1, <1>3
<1>. QED  BY <1>3, <1>9, <1>10 DEF L, n, B, K, i

\* What the peer sends follows what is at hand.
LEMMA FlowAppend ==
  ASSUME NEW s \in Seq(AllKinds), NEW t, NEW h, FlowFrom(s, t, h), NEW kind \in AllKinds
  PROVE  FlowFrom(Append(s, kind), t \o Packet(Len(s) + 1, kind), h)
<1>. DEFINE z == Append(s, kind)
            m == Len(s) + 1
            c == Packet(m, kind)
            u == t \o c
<1>1. /\ t \in Seq(Byte) /\ h \in 0..Len(s) /\ Len(s) \in Nat /\ Len(t) \in Nat /\ m \in Nat
      /\ Len(z) = m /\ z[m] = kind /\ \A n \in 1..Len(s) : z[n] = s[n]
  <2>1. t \in Seq(Byte) /\ h \in 0..Len(s)
    BY DEF FlowFrom
  <2>2. Len(s) \in Nat /\ Len(t) \in Nat
    BY <2>1, LenProperties
  <2>3. Len(z) = Len(s) + 1 /\ z[Len(s) + 1] = kind /\ \A n \in 1..Len(s) : z[n] = s[n]
    BY AppendProperties
  <2>. QED  BY <2>1, <2>2, <2>3
<1>2. /\ c \in Seq(Byte) /\ Len(c) = BytesOf(kind) /\ BytesOf(kind) \in Nat
      /\ \A i \in 1..BytesOf(kind) : c[i] = <<m, i>>
  BY <1>1, PacketTyped, BytesBound
<1>3. FlowFrom(s, t, h)
  OBVIOUS
<1>. HIDE DEF z, c, m
<1>4. /\ u \in Seq(Byte) /\ Len(u) = Len(t) + BytesOf(kind)
      /\ \A p \in 1..(Len(t) + BytesOf(kind)) : u[p] = IF p <= Len(t) THEN t[p] ELSE c[p - Len(t)]
  BY <1>1, <1>2, ConcatProperties
<1>. HIDE DEF u
<1>5. ASSUME NEW p \in 1..Len(t) PROVE p \in 1..Len(u) /\ u[p] = t[p]
  BY <1>1, <1>2, <1>4
<1>6. ASSUME NEW i \in 1..BytesOf(kind) PROVE Len(t) + i \in 1..Len(u) /\ u[Len(t) + i] = <<m, i>>
  <2>1. Len(t) + i \in 1..(Len(t) + BytesOf(kind)) /\ ~(Len(t) + i <= Len(t)) /\ (Len(t) + i) - Len(t) = i
    BY <1>1, <1>2
  <2>. QED  BY <1>2, <1>4, <2>1
<1>7. ASSUME NEW p \in 1..Len(u), ~(p \in 1..Len(t))
      PROVE  p - Len(t) \in 1..BytesOf(kind) /\ p = Len(t) + (p - Len(t)) /\ u[p] = <<m, p - Len(t)>>
  <2>1. p - Len(t) \in 1..BytesOf(kind) /\ p = Len(t) + (p - Len(t))
    BY <1>1, <1>2, <1>4, <1>7
  <2>. QED  BY <1>6, <2>1
<1>8. ASSUME NEW p \in 1..Len(u)
      PROVE  u[p][1] \in (h + 1)..Len(z) /\ u[p][2] \in 1..BytesOf(z[u[p][1]])
  <2>1. CASE p \in 1..Len(t)
    <3>1. t[p][1] \in (h + 1)..Len(s) /\ t[p][2] \in 1..BytesOf(s[t[p][1]])
      BY <1>3, <2>1 DEF FlowFrom
    <3>2. t[p][1] \in 1..Len(s) /\ t[p][1] \in (h + 1)..Len(z)
      BY <1>1, <3>1 DEF m
    <3>. QED  BY <1>1, <1>5, <2>1, <3>1, <3>2
  <2>2. CASE ~(p \in 1..Len(t))
    <3>1. u[p][1] = m /\ u[p][2] = p - Len(t)
      BY <1>7, <2>2
    <3>2. m \in (h + 1)..Len(z)
      BY <1>1 DEF m
    <3>. QED  BY <1>1, <1>7, <2>2, <3>1, <3>2
  <2>. QED  BY <2>1, <2>2
<1>9. \A p, q \in 1..Len(u) : p < q => Apart(z, u[p], u[q], q - p)
  <2>. SUFFICES ASSUME NEW p \in 1..Len(u), NEW q \in 1..Len(u), p < q PROVE Apart(z, u[p], u[q], q - p)
    OBVIOUS
  <2>1. CASE q \in 1..Len(t)
    <3>1. p \in 1..Len(t)
      BY <1>1, <1>4, <2>1
    <3>2. Apart(s, t[p], t[q], q - p)
      BY <1>3, <2>1, <3>1 DEF FlowFrom
    <3>3. t[p][1] \in 1..Len(s)
      BY <1>3, <3>1, FlowLast
    <3>. QED  BY <1>1, <1>5, <2>1, <3>1, <3>2, <3>3 DEF Apart
  <2>2. CASE ~(q \in 1..Len(t)) /\ p \in 1..Len(t)
    <3>. DEFINE n == t[p][1]
                i == t[p][2]
                j == q - Len(t)
                K == HeaderLen + 1
    <3>1. /\ n \in 1..Len(s) /\ i \in 1..BytesOf(s[n])
          /\ Len(t) - p <= (BytesOf(s[n]) - i) + (Len(s) - n) * K
      BY <1>3, <2>2, FlowLast
    <3>2. j \in 1..BytesOf(kind) /\ u[q][1] = m /\ u[q][2] = j
      BY <1>7, <2>2
    <3>3. u[p][1] = n /\ u[p][2] = i /\ z[n] = s[n]
      BY <1>1, <1>5, <2>2, <3>1
    <3>4. BytesOf(s[n]) \in Nat /\ K \in Nat
      BY BytesBound, RecvAssumption
    <3>. DEFINE B == BytesOf(s[n])
                y == (Len(s) - n) * K
    <3>5. BytesOf(z[n]) = B /\ Len(t) - p <= (B - i) + y /\ i \in 1..B
      BY <3>1, <3>3
    <3>6. y \in Int /\ n < m /\ m - n - 1 = Len(s) - n
      <4>. DEFINE x == Len(s)
      <4>1. x \in Nat /\ n \in 1..x /\ m = x + 1
        BY <1>1, <3>1 DEF m
      <4>. HIDE DEF n, K, x, y
      <4>2. x - n \in Int /\ (x - n) * K \in Int
        BY <3>4, <4>1
      <4>3. y = (x - n) * K
        BY DEF y, x
      <4>4. n < m /\ m - n - 1 = x - n
        BY <4>1
      <4>. QED  BY <4>2, <4>3, <4>4 DEF x
    <3>7. q - p <= (BytesOf(z[n]) - i) + j + (m - n - 1) * K
      <4>. HIDE DEF n, i, K, y, B
      <4>0. Len(t) - p \in Int /\ j \in Int /\ B - i \in Int /\ y \in Int
        BY <1>1, <3>2, <3>4, <3>5, <3>6 DEF B
      <4>1. (Len(t) - p) + j <= (B - i) + j + y
        BY <3>5, <4>0
      <4>2. q - p = (Len(t) - p) + j
        BY <1>1
      <4>3. q - p <= (B - i) + j + y
        BY <4>1, <4>2, Zenon
      <4>. QED  BY <3>5, <3>6, <4>3 DEF y
    <3>. HIDE DEF n, i, j, K
    <3>. QED  BY <3>2, <3>3, <3>6, <3>7 DEF Apart, K
  <2>3. CASE ~(q \in 1..Len(t)) /\ ~(p \in 1..Len(t))
    <3>1. u[q][1] = m /\ u[q][2] = q - Len(t) /\ u[p][1] = m /\ u[p][2] = p - Len(t)
      BY <1>7, <2>3
    <3>2. q - p = (q - Len(t)) - (p - Len(t))
      BY <1>1, <1>4
    <3>. QED  BY <3>1, <3>2 DEF Apart
  <2>. QED  BY <2>1, <2>2, <2>3
<1>10. ASSUME NEW n \in (h + 1)..Len(z), NEW i \in 1..BytesOf(z[n])
       PROVE  \E p \in 1..Len(u) : u[p] = <<n, i>>
  <2>1. CASE n = m
    <3>1. i \in 1..BytesOf(kind)
      BY <1>1, <2>1
    <3>. QED  BY <1>6, <2>1, <3>1
  <2>2. CASE n # m
    <3>1. n \in (h + 1)..Len(s) /\ n \in 1..Len(s)
      BY <1>1, <2>2 DEF m
    <3>2. i \in 1..BytesOf(s[n])
      BY <1>1, <3>1
    <3>3. PICK p \in 1..Len(t) : t[p] = <<n, i>>
      BY <1>3, <3>1, <3>2 DEF FlowFrom
    <3>. QED  BY <1>5, <3>3
  <2>. QED  BY <2>1, <2>2
<1>11. h \in 0..Len(z)
  BY <1>1 DEF m
<1>12. FlowFrom(z, u, h)
  BY <1>4, <1>8, <1>9, <1>10, <1>11 DEF FlowFrom
<1>. QED  BY <1>12 DEF z, u, c, m

\* Which bytes those are, and that they are in order.
LEMMA FlowKept ==
  ASSUME NEW s \in Seq(AllKinds), NEW t, NEW h, FlowFrom(s, t, h)
  PROVE  /\ Range(t) = UNION {Range(Packet(n, s[n])) : n \in (h + 1)..Len(s)}
         /\ \A i, j \in 1..Len(t) : i < j => Before(t[i], t[j])
<1>1. t \in Seq(Byte) /\ h \in 0..Len(s) /\ Len(s) \in Nat
  BY LenProperties DEF FlowFrom
<1>2. DOMAIN t = 1..Len(t)
  BY <1>1, LenProperties
<1>3. ASSUME NEW n \in (h + 1)..Len(s) PROVE Range(Packet(n, s[n])) = {<<n, i>> : i \in 1..BytesOf(s[n])}
  BY DEF Range, Packet
<1>4. ASSUME NEW p \in 1..Len(t)
      PROVE  t[p] \in UNION {Range(Packet(n, s[n])) : n \in (h + 1)..Len(s)}
  <2>1. t[p][1] \in (h + 1)..Len(s) /\ t[p][2] \in 1..BytesOf(s[t[p][1]])
    BY DEF FlowFrom
  <2>2. t[p] \in Byte
    BY <1>1, ElementOfSeq
  <2>3. t[p] = <<t[p][1], t[p][2]>>
    BY <2>2 DEF Byte
  <2>4. t[p] \in Range(Packet(t[p][1], s[t[p][1]]))
    BY <1>3, <2>1, <2>3
  <2>. QED  BY <2>1, <2>4
<1>5. ASSUME NEW n \in (h + 1)..Len(s), NEW x \in Range(Packet(n, s[n])) PROVE x \in Range(t)
  <2>1. PICK i \in 1..BytesOf(s[n]) : x = <<n, i>>
    BY <1>3
  <2>2. PICK p \in 1..Len(t) : t[p] = <<n, i>>
    BY DEF FlowFrom
  <2>. QED  BY <1>2, <2>1, <2>2 DEF Range
<1>6. Range(t) = UNION {Range(Packet(n, s[n])) : n \in (h + 1)..Len(s)}
  <2>1. ASSUME NEW x \in Range(t) PROVE x \in UNION {Range(Packet(n, s[n])) : n \in (h + 1)..Len(s)}
    <3>1. PICK p \in 1..Len(t) : x = t[p]
      BY <1>2 DEF Range
    <3>. QED  BY <1>4, <3>1
  <2>2. ASSUME NEW x \in UNION {Range(Packet(n, s[n])) : n \in (h + 1)..Len(s)} PROVE x \in Range(t)
    BY <1>5
  <2>. QED  BY <2>1, <2>2
<1>7. ASSUME NEW i \in 1..Len(t), NEW j \in 1..Len(t), i < j PROVE Before(t[i], t[j])
  <2>1. Apart(s, t[i], t[j], j - i)
    BY <1>7 DEF FlowFrom
  <2>2. t[i] \in Byte /\ t[j] \in Byte
    BY <1>1, ElementOfSeq
  <2>3. t[i][2] \in Nat /\ t[j][2] \in Nat /\ i \in Nat /\ j \in Nat
    <3>1. Len(t) \in Nat
      BY <1>1, LenProperties
    <3>. QED  BY <2>2, <3>1 DEF Byte
  <2>4. CASE t[i][1] < t[j][1]
    BY <2>4 DEF Before
  <2>5. CASE t[i][1] = t[j][1] /\ j - i = t[j][2] - t[i][2]
    BY <1>7, <2>3, <2>5 DEF Before
  <2>. QED  BY <2>1, <2>4, <2>5 DEF Apart
<1>. QED  BY <1>6, <1>7

-----------------------------------------------------------------------------
(***************************************************************************)
(* The receive buffer, as a sequence.                                      *)
(***************************************************************************)

\* A sequence over a set is one over any larger set.
LEMMA SeqWider ==
  ASSUME NEW S, NEW T, S \subseteq T, NEW s \in Seq(S)
  PROVE  s \in Seq(T)
<1>1. Len(s) \in Nat /\ s \in [1..Len(s) -> S]
  BY LenProperties
<1>2. s \in [1..Len(s) -> T]
  BY <1>1
<1>. QED  BY <1>1, <1>2, FcnIsSeq

\* A sequence is what was cut off its front and the rest.
LEMMA CutAt ==
  ASSUME NEW S, NEW t \in Seq(S), NEW n \in 0..Len(t)
  PROVE  /\ SubSeq(t, 1, n) \in Seq(S) /\ SubSeq(t, n + 1, Len(t)) \in Seq(S)
         /\ Len(SubSeq(t, 1, n)) = n /\ t = SubSeq(t, 1, n) \o SubSeq(t, n + 1, Len(t))
<1>1. Len(t) \in Nat /\ n \in Nat /\ n <= Len(t)
  BY LenProperties
<1>2. SubSeq(t, 1, n) \in Seq(S) /\ Len(SubSeq(t, 1, n)) = n
  <2>1. SubSeq(t, 0 + 1, n) \in Seq(S) /\ Len(SubSeq(t, 0 + 1, n)) = n - 0
    BY <1>1, SliceIs
  <2>2. 0 + 1 = 1 /\ n - 0 = n
    BY <1>1
  <2>. QED  BY <2>1, <2>2
<1>3. SubSeq(t, n + 1, Len(t)) \in Seq(S)
  BY <1>1, SliceIs
<1>4. SubSeq(t, 1, n) \o SubSeq(t, n + 1, Len(t)) = SubSeq(t, 1, Len(t))
  <2>1. 1 \in 1..(Len(t) + 1) /\ n \in (1 - 1)..Len(t) /\ Len(t) \in n..Len(t)
    BY <1>1
  <2>. QED  BY <2>1, ConcatAdjacentSubSeq
<1>5. SubSeq(t, 1, Len(t)) = t
  BY SubSeqFull
<1>6. t = SubSeq(t, 1, n) \o SubSeq(t, n + 1, Len(t))
  BY <1>4, <1>5, Zenon
<1>. QED  BY <1>2, <1>3, <1>6

\* Extend leaves room for a whole read and what is readable as it is.
LEMMA MakeRoomKeeps ==
  ASSUME NEW S, Junk \in S, NEW b, BufOK(S, b)
  PROVE  /\ BufOK(S, MakeRoom(b)) /\ Readable(MakeRoom(b)) = Readable(b)
         /\ MakeRoom(b).w + ReadBufSize <= Len(MakeRoom(b).cells) /\ WritableLen(MakeRoom(b)) > 0
<1>. DEFINE c == MakeRoom(b)
<1>1. /\ b.cells \in Seq(S) /\ b.w \in Nat /\ b.r \in Nat /\ b.r <= b.w /\ b.w <= Len(b.cells)
  BY DEF BufOK, Sound, AllocSize
<1>2. Len(b.cells) \in Nat /\ ReadBufSize \in Nat \ {0}
  BY <1>1, LenProperties, RecvAssumption
<1>3. /\ BufOK(S, c) /\ c.w = b.w /\ c.r = b.r /\ c.w + ReadBufSize <= Len(c.cells)
      /\ \A i \in 1..Len(b.cells) : c.cells[i] = b.cells[i]
  <2>1. CASE WritableLen(b) < ReadBufSize
    <3>1. NeedsRoom(b, ReadBufSize) /\ c = Extend(b, ReadBufSize) /\ ReadBufSize \in Nat
      BY <1>1, <1>2, <2>1 DEF NeedsRoom, WritableLen, AllocSize, MakeRoom
    <3>. HIDE DEF c
    <3>. QED  BY <3>1, ExtendKeeps
  <2>2. CASE ~(WritableLen(b) < ReadBufSize)
    <3>1. c = b
      BY <2>2 DEF MakeRoom
    <3>2. b.w + ReadBufSize <= Len(b.cells)
      BY <1>1, <1>2, <2>2 DEF WritableLen, AllocSize
    <3>. QED  BY <3>1, <3>2
  <2>. QED  BY <2>1, <2>2
<1>. HIDE DEF c
<1>4. ReadableLen(c) = ReadableLen(b)
  BY <1>3 DEF ReadableLen
<1>5. /\ Readable(b) \in Seq(S) /\ Len(Readable(b)) = ReadableLen(b)
      /\ \A i \in 1..ReadableLen(b) : Readable(b)[i] = b.cells[b.r + i]
  BY ReadableIs
<1>6. /\ Readable(c) \in Seq(S) /\ Len(Readable(c)) = ReadableLen(c)
      /\ \A i \in 1..ReadableLen(c) : Readable(c)[i] = c.cells[c.r + i]
  BY <1>3, ReadableIs
<1>7. \A i \in 1..ReadableLen(b) : b.r + i \in 1..Len(b.cells)
  BY <1>1, <1>2 DEF ReadableLen
<1>8. \A i \in 1..ReadableLen(b) : Readable(c)[i] = Readable(b)[i]
  BY <1>3, <1>4, <1>5, <1>6, <1>7
<1>9. Readable(c) = Readable(b)
  BY <1>4, <1>5, <1>6, <1>8, SeqEqual
<1>10. WritableLen(c) > 0
  <2>1. c.w \in Nat /\ c.cells \in Seq(S)
    BY <1>3 DEF BufOK
  <2>2. Len(c.cells) \in Nat
    BY <2>1, LenProperties
  <2>. QED  BY <1>2, <1>3, <2>1, <2>2 DEF WritableLen, AllocSize
<1>. QED  BY <1>3, <1>9, <1>10 DEF c

\* recv() into the write buffer appends.
LEMMA ReceiveAppends ==
  ASSUME NEW S, Junk \in S, NEW b, BufOK(S, b), NEW data \in Seq(S), Len(data) <= ReadBufSize
  PROVE  LET c == IncWriteOffset(Store(MakeRoom(b), data), Len(data))
         IN  BufOK(S, c) /\ Readable(c) = Readable(b) \o data
<1>. DEFINE m == MakeRoom(b)
            c == IncWriteOffset(Store(m, data), Len(data))
            u == Readable(m) \o data
<1>1. BufOK(S, m) /\ Readable(m) = Readable(b) /\ m.w + ReadBufSize <= Len(m.cells)
  BY MakeRoomKeeps
<1>. HIDE DEF m
<1>2. m.w + Len(data) <= Len(m.cells)
  <2>1. m.w \in Nat /\ m.cells \in Seq(S)
    BY <1>1 DEF BufOK
  <2>2. Len(m.cells) \in Nat /\ Len(data) \in Nat /\ ReadBufSize \in Nat
    BY <2>1, LenProperties, RecvAssumption
  <2>. QED  BY <1>1, <2>1, <2>2
<1>3. /\ BufOK(S, c) /\ ReadableLen(c) = ReadableLen(m) + Len(data)
      /\ \A i \in 1..ReadableLen(m) : Readable(c)[i] = Readable(m)[i]
      /\ \A i \in 1..Len(data) : Readable(c)[ReadableLen(m) + i] = data[i]
  BY <1>1, <1>2, StoreAppends
<1>. HIDE DEF c
<1>4. Readable(m) \in Seq(S) /\ Len(Readable(m)) = ReadableLen(m) /\ ReadableLen(m) \in Nat
  BY <1>1, ReadableIs
<1>5. Readable(c) \in Seq(S) /\ Len(Readable(c)) = ReadableLen(c)
  BY <1>3, ReadableIs
<1>6. Len(data) \in Nat
  BY LenProperties
<1>7. /\ u \in Seq(S) /\ Len(u) = ReadableLen(m) + Len(data)
      /\ \A i \in 1..(ReadableLen(m) + Len(data)) :
           u[i] = IF i <= ReadableLen(m) THEN Readable(m)[i] ELSE data[i - ReadableLen(m)]
  <2>. DEFINE a == Readable(m)
  <2>1. a \in Seq(S) /\ Len(a) = ReadableLen(m)
    BY <1>4
  <2>. HIDE DEF a
  <2>2. /\ a \o data \in Seq(S) /\ Len(a \o data) = Len(a) + Len(data)
        /\ \A i \in 1..(Len(a) + Len(data)) : (a \o data)[i] = IF i <= Len(a) THEN a[i] ELSE data[i - Len(a)]
    BY <2>1, ConcatProperties
  <2>. QED  BY <2>1, <2>2 DEF a
<1>. HIDE DEF u
<1>8. ASSUME NEW i \in 1..Len(u) PROVE Readable(c)[i] = u[i]
  <2>1. CASE i <= ReadableLen(m)
    BY <1>3, <1>4, <1>6, <1>7, <2>1
  <2>2. CASE ~(i <= ReadableLen(m))
    <3>1. i - ReadableLen(m) \in 1..Len(data) /\ ReadableLen(m) + (i - ReadableLen(m)) = i
      BY <1>4, <1>6, <1>7, <2>2
    <3>2. Readable(c)[i] = data[i - ReadableLen(m)]
      BY <1>3, <3>1
    <3>. QED  BY <1>7, <2>2, <3>2
  <2>. QED  BY <2>1, <2>2
<1>9. Readable(c) = u
  BY <1>3, <1>5, <1>7, <1>8, SeqEqual
<1>. QED  BY <1>1, <1>3, <1>9 DEF c, m, u

\* Read takes bytes off the front of what is readable.
LEMMA ReadCuts ==
  ASSUME NEW S, NEW b, BufOK(S, b), NEW n \in 0..ReadableLen(b)
  PROVE  /\ BufOK(S, Read(b, n)) /\ WritableLen(Read(b, n)) = WritableLen(b)
         /\ Readable(Read(b, n)) = SubSeq(Readable(b), n + 1, Len(Readable(b)))
<1>. DEFINE c == Read(b, n)
            s == Readable(b)
            v == SubSeq(s, n + 1, Len(s))
<1>1. s \in Seq(S) /\ Len(s) = ReadableLen(b) /\ ReadableLen(b) \in Nat
  BY ReadableIs
<1>2. /\ BufOK(S, c) /\ ReadableLen(c) = ReadableLen(b) - n
      /\ \A i \in 1..(ReadableLen(b) - n) : Readable(c)[i] = s[n + i]
  BY ReadConsumes
<1>3. WritableLen(c) = WritableLen(b)
  <2>1. b \in [cells : Seq(S), w : Nat, r : Nat]
    BY DEF BufOK
  <2>2. c.cells = b.cells /\ c.w = b.w
    BY <2>1 DEF Read
  <2>. QED  BY <2>2 DEF WritableLen, AllocSize
<1>. HIDE DEF s, c
<1>4. v \in Seq(S) /\ Len(v) = Len(s) - n /\ \A i \in 1..(Len(s) - n) : v[i] = s[n + i]
  <2>1. n \in Nat /\ Len(s) \in Nat /\ n <= Len(s)
    BY <1>1
  <2>. QED  BY <1>1, <2>1, SliceIs
<1>5. Readable(c) \in Seq(S) /\ Len(Readable(c)) = ReadableLen(c)
  BY <1>2, ReadableIs
<1>. HIDE DEF v
<1>6. Readable(c) = v
  BY <1>1, <1>2, <1>4, <1>5, SeqEqual
<1>. QED  BY <1>2, <1>3, <1>6 DEF s, c, v

\* ResetOffset changes where what is readable is, and nothing else.
LEMMA ResetIs ==
  ASSUME NEW S, NEW b, BufOK(S, b)
  PROVE  BufOK(S, ResetOffset(b)) /\ Readable(ResetOffset(b)) = Readable(b) /\ ResetOffset(b).r = 0
<1>. DEFINE c == ResetOffset(b)
<1>1. c.r = 0
  BY DEF ResetOffset
<1>2. /\ BufOK(S, c) /\ ReadableLen(c) = ReadableLen(b)
      /\ \A i \in 1..ReadableLen(b) : Readable(c)[i] = Readable(b)[i]
  BY ResetKeeps
<1>. HIDE DEF c
<1>3. Readable(b) \in Seq(S) /\ Len(Readable(b)) = ReadableLen(b)
  BY ReadableIs
<1>4. Readable(c) \in Seq(S) /\ Len(Readable(c)) = ReadableLen(c)
  BY <1>2, ReadableIs
<1>5. Readable(c) = Readable(b)
  BY <1>2, <1>3, <1>4, SeqEqual
<1>. QED  BY <1>1, <1>2, <1>5 DEF c

-----------------------------------------------------------------------------
(***************************************************************************)
(* Receiving, the inductive invariant.                                     *)
(***************************************************************************)

\* While the connection is open, the three places together hold what the peer
\* sent and no handler got.
FlowInv ==
  Open => /\ Readable(inBuf) \in Seq(Byte) /\ rcvBuf \in Seq(Byte) /\ flight \in Seq(Byte)
          /\ FlowFrom(stream, AtHand, Len(handled))

HandledInv == handled \in Seq(Seq(Byte)) /\ Len(handled) <= Len(stream) /\ HandledInOrder

\* What is announced, read and parsed at each point of OnRead.
ParseInv ==
  /\ fin => flight = <<>>
  /\ readPc \in {"recv", "parse"} => Open
  /\ state = "peer_closing" => fin /\ rcvBuf = <<>> /\ readPc \in {"parse", "end"}
  /\ Open /\ readPc # "recv" => /\ rcvBuf # <<>> => rcvEdge
                                /\ fin => rcvEdge \/ state = "peer_closing"
  /\ Open /\ readPc \in {"idle", "end"} => ~Whole /\ ~WrongLen /\ inBuf.r = 0
  /\ RoomBehind

RecvInv == RecvTypeOK /\ BufOK(Byte \cup {Junk}, inBuf) /\ FlowInv /\ HandledInv /\ ParseInv

-----------------------------------------------------------------------------
(***************************************************************************)
(* The invariant holds at first, and every step keeps it.                  *)
(***************************************************************************)

\* Three sequences joined: the association, the length, and the front.
LEMMA ThreeParts ==
  ASSUME NEW a \in Seq(Byte), NEW b \in Seq(Byte), NEW c \in Seq(Byte)
  PROVE  /\ a \o b \o c \in Seq(Byte) /\ a \o b \o c = a \o (b \o c) /\ b \o c \in Seq(Byte)
         /\ Len(a) \in Nat /\ Len(b \o c) \in Nat /\ Len(a \o b \o c) = Len(a) + Len(b \o c)
         /\ \A i \in 1..Len(a) : (a \o b \o c)[i] = a[i]
<1>1. b \o c \in Seq(Byte) /\ a \o b \o c = a \o (b \o c)
  BY ConcatProperties, ConcatAssociative
<1>. DEFINE d == b \o c
            t == a \o d
<1>2. Len(a) \in Nat /\ Len(d) \in Nat
  BY <1>1, LenProperties
<1>3. t \in Seq(Byte) /\ Len(t) = Len(a) + Len(d)
  BY <1>1, ConcatProperties
<1>4. \A i \in 1..(Len(a) + Len(d)) : t[i] = IF i <= Len(a) THEN a[i] ELSE d[i - Len(a)]
  BY <1>1, ConcatProperties
<1>. HIDE DEF t, d
<1>5. \A i \in 1..Len(a) : t[i] = a[i]
  BY <1>2, <1>4
<1>. QED  BY <1>1, <1>2, <1>3, <1>5 DEF t, d

\* What the parser sees of the next packet is the peer's.
LEMMA NextSeen ==
  ASSUME RecvInv, Open, HasHeader
  PROVE  /\ AtHand # <<>> /\ Len(handled) + 1 \in 1..Len(stream)
         /\ Readable(inBuf)[1][1] = Len(handled) + 1 /\ NextKind = stream[Len(handled) + 1]
         /\ NextKind \in AllKinds
         /\ ReadableLen(inBuf) \in HeaderLen..Len(AtHand) /\ Len(Readable(inBuf)) = ReadableLen(inBuf)
         /\ \A i \in 1..HeaderLen : Readable(inBuf)[i] = <<Len(handled) + 1, i>>
<1>. DEFINE R == Readable(inBuf)
            L == ReadableLen(inBuf)
            h == Len(handled)
<1>1. /\ R \in Seq(Byte) /\ rcvBuf \in Seq(Byte) /\ flight \in Seq(Byte) /\ FlowFrom(stream, AtHand, h)
      /\ stream \in Seq(AllKinds)
  BY DEF RecvInv, FlowInv, RecvTypeOK
<1>2. /\ AtHand \in Seq(Byte) /\ Len(AtHand) = Len(R) + Len(rcvBuf \o flight)
      /\ Len(rcvBuf \o flight) \in Nat /\ \A i \in 1..Len(R) : AtHand[i] = R[i]
  BY <1>1, ThreeParts DEF AtHand
<1>3. Len(R) = L /\ L \in Nat
  BY ReadableIs DEF RecvInv
<1>4. HeaderLen \in Nat \ {0} /\ L >= HeaderLen
  BY RecvAssumption DEF HasHeader
<1>. HIDE DEF R, L, h
<1>5. Len(AtHand) \in Nat \ {0} /\ L \in HeaderLen..Len(AtHand) /\ 1 \in 1..HeaderLen
  BY <1>2, <1>3, <1>4
<1>6. AtHand # <<>>
  BY <1>5, EmptySeq
<1>7. h + 1 \in 1..Len(stream) /\ \A i \in 1..BytesOf(stream[h + 1]) : AtHand[i] = <<h + 1, i>>
  BY <1>1, <1>6, FlowHead
<1>8. \A i \in 1..HeaderLen : i \in 1..Len(R) /\ i \in 1..BytesOf(stream[h + 1])
  <2>1. BytesOf(stream[h + 1]) \in HeaderLen..(HeaderLen + 1)
    BY BytesBound
  <2>. QED  BY <1>3, <1>4, <2>1
<1>9. \A i \in 1..HeaderLen : R[i] = <<h + 1, i>>
  BY <1>2, <1>7, <1>8
<1>10. R[1][1] = h + 1
  BY <1>5, <1>9
<1>11. NextKind = stream[h + 1] /\ stream[h + 1] \in AllKinds
  BY <1>1, <1>7, <1>10, ElementOfSeq DEF NextKind, R
<1>. QED  BY <1>3, <1>5, <1>6, <1>7, <1>9, <1>10, <1>11 DEF R, L, h

\* The packet _ParsePkt hands over is whole and well-formed, and the next.
LEMMA WholeIsOk ==
  ASSUME RecvInv, Open, Whole, NextKind \notin {"unknown", "body"}
  PROVE  NextKind = "ok" /\ Claims(NextKind) = HeaderLen
<1>1. HasHeader /\ ~WrongLen /\ Claims(NextKind) <= ReadableLen(inBuf)
  BY DEF Whole
<1>2. /\ AtHand # <<>> /\ NextKind = stream[Len(handled) + 1] /\ NextKind \in AllKinds
      /\ ReadableLen(inBuf) \in HeaderLen..Len(AtHand)
  BY <1>1, NextSeen
<1>3. NextKind # "short"
  <2>1. HeaderLen \in Nat /\ Claims("short") = HeaderLen - 1
    BY RecvAssumption DEF Claims
  <2>2. ~(Claims(NextKind) < HeaderLen)
    BY <1>1 DEF WrongLen
  <2>. QED  BY <2>1, <2>2
<1>4. NextKind # "huge"
  <2>. SUFFICES ASSUME NextKind = "huge" PROVE FALSE
    OBVIOUS
  <2>1. FlowFrom(stream, AtHand, Len(handled)) /\ stream \in Seq(AllKinds) /\ Len(stream) <= MaxPkts
    BY DEF RecvInv, FlowInv, RecvTypeOK
  <2>2. Len(AtHand) < Claims("huge")
    BY <1>2, <2>1, FlowBound
  <2>3. Claims("huge") <= ReadableLen(inBuf) /\ Claims("huge") \in Int /\ Len(AtHand) \in Int
    <3>1. AtHand \in Seq(Byte)
      BY <2>1 DEF FlowFrom
    <3>2. Len(AtHand) \in Nat
      BY <3>1, LenProperties
    <3>3. Claims("huge") \in Int
      BY RecvAssumption DEF Claims
    <3>. QED  BY <1>1, <3>2, <3>3
  <2>. QED  BY <1>2, <2>2, <2>3
<1>5. NextKind = "ok"
  BY <1>2, <1>3, <1>4 DEF AllKinds
<1>6. Claims("ok") = HeaderLen
  BY DEF Claims, BytesOf
<1>. QED  BY <1>5, <1>6

\* A step that leaves the bytes where they are.
LEMMA SameBytes ==
  ASSUME RecvInv, UNCHANGED <<stream, flight, rcvBuf, inBuf, handled>>, Open' => Open
  PROVE  /\ BufOK(Byte \cup {Junk}, inBuf)' /\ FlowInv' /\ HandledInv'
         /\ (Whole <=> Whole') /\ (WrongLen <=> WrongLen')
         /\ stream' \in Seq(AllKinds) /\ Len(stream') <= MaxPkts /\ Sound(inBuf)'
<1>1. BufOK(Byte \cup {Junk}, inBuf)'
  BY DEF RecvInv
<1>2. AtHand' = AtHand /\ Readable(inBuf)' = Readable(inBuf)
  BY DEF AtHand
<1>3. FlowInv'
  BY <1>2 DEF RecvInv, FlowInv
<1>4. HandledInv'
  BY DEF RecvInv, HandledInv, HandledInOrder, Packets
<1>5. (Whole <=> Whole') /\ (WrongLen <=> WrongLen')
  BY DEF Whole, WrongLen, HasHeader, NextKind
<1>6. stream' \in Seq(AllKinds) /\ Len(stream') <= MaxPkts /\ Sound(inBuf)'
  BY DEF RecvInv, RecvTypeOK
<1>. QED  BY <1>1, <1>3, <1>4, <1>5, <1>6

\* The invariant holds at first.
LEMMA InitRecv ==
  RecvInit => RecvInv
<1>. SUFFICES ASSUME RecvInit PROVE RecvInv
  OBVIOUS
<1>0. Open /\ handled = <<>> /\ stream = <<>> /\ rcvBuf = <<>> /\ flight = <<>> /\ inBuf = Empty
  BY DEF RecvInit, Open
<1>1. BufOK(Byte \cup {Junk}, inBuf) /\ ReadableLen(inBuf) = 0 /\ inBuf.r = 0
  <2>1. /\ <<>> \in Seq(Byte \cup {Junk}) /\ Len(<<>>) = 0
        /\ Empty.cells = <<>> /\ Empty.w = 0 /\ Empty.r = 0
    BY EmptySeq DEF Empty
  <2>2. Empty \in [cells : Seq(Byte \cup {Junk}), w : Nat, r : Nat] /\ Sound(Empty) /\ ReadableLen(Empty) = 0
    BY <2>1 DEF Empty, Sound, AllocSize, ReadableLen
  <2>. QED  BY <1>0, <2>1, <2>2 DEF BufOK
<1>2. Readable(inBuf) = <<>>
  <2>1. Readable(inBuf) \in Seq(Byte \cup {Junk}) /\ Len(Readable(inBuf)) = 0
    BY <1>1, ReadableIs
  <2>. QED  BY <2>1, EmptySeq
<1>3. AtHand = <<>> /\ <<>> \in Seq(Byte)
  BY <1>0, <1>2, ConcatEmptySeq, EmptySeq DEF AtHand
<1>4. Len(<<>>) = 0
  BY EmptySeq
<1>5. FlowFrom(<<>>, <<>>, 0)
  BY <1>3, <1>4 DEF FlowFrom
<1>6. FlowInv
  BY <1>0, <1>2, <1>3, <1>4, <1>5 DEF FlowInv
<1>7. HandledInv
  <2>1. <<>> \in Seq(Seq(Byte)) /\ <<>> \in Seq(AllKinds)
    BY EmptySeq
  <2>2. Packets(0) = <<>>
    BY DEF Packets
  <2>. QED  BY <1>0, <1>4, <2>1, <2>2 DEF HandledInv, HandledInOrder
<1>8. RecvTypeOK
  <2>1. <<>> \in Seq(AllKinds) /\ 0 <= MaxPkts
    BY EmptySeq, RecvAssumption
  <2>2. Sound(inBuf)
    BY <1>1 DEF BufOK
  <2>. QED  BY <1>0, <1>4, <2>1, <2>2 DEF RecvTypeOK, RecvInit
<1>9. ParseInv
  <2>1. ~HasHeader
    BY <1>1, RecvAssumption DEF HasHeader
  <2>. QED  BY <1>1, <2>1 DEF ParseInv, Whole, WrongLen, RoomBehind, RecvInit
<1>. QED  BY <1>1, <1>6, <1>7, <1>8, <1>9 DEF RecvInv

\* The peer's next packet is behind what is at hand, and behind what is parsed.
LEMMA SendKeeps ==
  ASSUME RecvInv, NEW kind \in Kinds, PeerSends(kind)
  PROVE  RecvInv'
<1>. DEFINE c == Packet(Len(stream) + 1, kind)
            h == Len(handled)
<1>1. /\ ~fin /\ Len(stream) < MaxPkts /\ stream' = Append(stream, kind) /\ flight' = flight \o c
      /\ UNCHANGED <<rcvBuf, fin, rcvEdge, inBuf, readPc, state, handled>>
  BY DEF PeerSends
<1>2. kind \in AllKinds /\ stream \in Seq(AllKinds) /\ Len(stream) \in Nat
  BY RecvAssumption, LenProperties DEF RecvInv, RecvTypeOK
<1>3. /\ stream' \in Seq(AllKinds) /\ Len(stream') = Len(stream) + 1
      /\ \A n \in 1..Len(stream) : stream'[n] = stream[n]
  BY <1>1, <1>2, AppendProperties
<1>4. c \in Seq(Byte) /\ (Open' <=> Open)
  BY <1>1, <1>2, PacketTyped DEF Open
<1>. HIDE DEF c
<1>5. RecvTypeOK'
  <2>1. Len(stream') <= MaxPkts
    BY <1>1, <1>2, <1>3, RecvAssumption
  <2>. QED  BY <1>1, <1>3, <2>1 DEF RecvInv, RecvTypeOK
<1>6. BufOK(Byte \cup {Junk}, inBuf)' /\ Readable(inBuf)' = Readable(inBuf)
  BY <1>1 DEF RecvInv
<1>7. FlowInv'
  <2>. SUFFICES ASSUME Open
                PROVE  /\ Readable(inBuf) \in Seq(Byte) /\ rcvBuf \in Seq(Byte) /\ flight' \in Seq(Byte)
                       /\ FlowFrom(stream', AtHand', h)
    BY <1>1, <1>4, <1>6 DEF FlowInv
  <2>. DEFINE R == Readable(inBuf)
              p == R \o rcvBuf
  <2>1. R \in Seq(Byte) /\ rcvBuf \in Seq(Byte) /\ flight \in Seq(Byte) /\ FlowFrom(stream, AtHand, h)
    BY DEF RecvInv, FlowInv
  <2>2. p \in Seq(Byte) /\ flight' \in Seq(Byte)
    BY <1>1, <1>4, <2>1, ConcatProperties
  <2>3. AtHand = p \o flight /\ AtHand' = p \o (flight \o c)
    BY <1>1, <1>6 DEF AtHand
  <2>. HIDE DEF R, p
  <2>4. AtHand' = AtHand \o c
    <3>1. p \in Seq(Byte) /\ flight \in Seq(Byte) /\ c \in Seq(Byte)
      BY <1>4, <2>1, <2>2
    <3>2. (p \o flight) \o c = p \o (flight \o c)
      BY <3>1, ConcatAssociative
    <3>. QED  BY <2>3, <3>2, Zenon
  <2>5. FlowFrom(stream', AtHand', h)
    BY <1>1, <1>2, <2>1, <2>4, FlowAppend DEF c
  <2>. QED  BY <2>1, <2>2, <2>5 DEF R
<1>8. HandledInv'
  <2>1. handled \in Seq(Seq(Byte)) /\ h <= Len(stream) /\ handled = Packets(h) /\ \A i \in 1..h : stream[i] = "ok"
    BY DEF RecvInv, HandledInv, HandledInOrder
  <2>2. h \in Nat
    BY <2>1, LenProperties
  <2>3. \A i \in 1..h : i \in 1..Len(stream) /\ stream'[i] = stream[i]
    BY <1>2, <1>3, <2>1, <2>2
  <2>. DEFINE f == [i \in 1..h |-> Packet(i, stream'[i])]
  <2>4. f = [i \in 1..h |-> Packet(i, stream[i])]
    BY <2>3
  <2>5. handled = f
    BY <2>1, <2>4 DEF Packets
  <2>6. handled' = Packets(h)'
    BY <1>1, <2>5 DEF Packets
  <2>7. Len(handled') = h /\ h <= Len(stream') /\ \A i \in 1..h : stream'[i] = "ok"
    BY <1>1, <1>2, <1>3, <2>1, <2>2, <2>3
  <2>. QED  BY <1>1, <2>1, <2>6, <2>7 DEF HandledInv, HandledInOrder
<1>9. ASSUME Open PROVE (Whole' => Whole) /\ (WrongLen' => WrongLen)
  <2>1. HasHeader' <=> HasHeader
    BY <1>1 DEF HasHeader
  <2>2. HasHeader => NextKind' = NextKind
    <3>1. HasHeader => h + 1 \in 1..Len(stream) /\ Readable(inBuf)[1][1] = h + 1
      BY <1>9, NextSeen
    <3>. QED  BY <1>3, <1>6, <3>1 DEF NextKind
  <2>. QED  BY <1>1, <2>1, <2>2 DEF Whole, WrongLen
<1>10. ParseInv'
  <2>1. RoomBehind'
    BY <1>1 DEF RecvInv, ParseInv, RoomBehind
  <2>. QED  BY <1>1, <1>4, <1>9, <2>1 DEF RecvInv, ParseInv
<1>. QED  BY <1>5, <1>6, <1>7, <1>8, <1>10 DEF RecvInv

\* A segment moves to the kernel's buffer: what is at hand stays.
LEMMA ArriveKeeps ==
  ASSUME RecvInv, KernelGets
  PROVE  RecvInv'
<1>. DEFINE R == Readable(inBuf)
            h == Len(handled)
<1>1. Open /\ flight # <<>> /\ rcvEdge' = TRUE /\ UNCHANGED <<stream, fin, inBuf, readPc, state, handled>>
  BY DEF KernelGets
<1>2. PICK n \in 1..Len(flight) :
        /\ rcvBuf' = rcvBuf \o SubSeq(flight, 1, n) /\ flight' = SubSeq(flight, n + 1, Len(flight))
  BY DEF KernelGets
<1>. DEFINE a == SubSeq(flight, 1, n)
            b == SubSeq(flight, n + 1, Len(flight))
<1>3. R \in Seq(Byte) /\ rcvBuf \in Seq(Byte) /\ flight \in Seq(Byte) /\ FlowFrom(stream, AtHand, h)
  BY <1>1 DEF RecvInv, FlowInv
<1>4. a \in Seq(Byte) /\ b \in Seq(Byte) /\ flight = a \o b
  <2>1. n \in 0..Len(flight)
    OBVIOUS
  <2>. QED  BY <1>3, <2>1, CutAt
<1>. HIDE DEF a, b
<1>5. rcvBuf' = rcvBuf \o a /\ flight' = b /\ rcvBuf' \in Seq(Byte)
  BY <1>2, <1>3, <1>4, ConcatProperties DEF a, b
<1>6. Readable(inBuf)' = R /\ (Open' <=> Open)
  BY <1>1 DEF Open
<1>. HIDE DEF R
<1>7. AtHand' = AtHand
  <2>. DEFINE p == R \o rcvBuf
  <2>1. p \in Seq(Byte)
    BY <1>3, ConcatProperties
  <2>2. AtHand' = R \o (rcvBuf \o a) \o b
    BY <1>5, <1>6 DEF AtHand
  <2>3. R \o (rcvBuf \o a) = p \o a
    <3>1. R \in Seq(Byte) /\ rcvBuf \in Seq(Byte) /\ a \in Seq(Byte)
      BY <1>3, <1>4
    <3>2. (R \o rcvBuf) \o a = R \o (rcvBuf \o a)
      BY <3>1, ConcatAssociative
    <3>. QED  BY <3>2, Zenon
  <2>4. AtHand = p \o (a \o b)
    BY <1>4 DEF AtHand, R
  <2>. HIDE DEF p
  <2>5. (p \o a) \o b = p \o (a \o b)
    BY <1>4, <2>1, ConcatAssociative
  <2>. QED  BY <2>2, <2>3, <2>4, <2>5
<1>8. FlowInv'
  BY <1>1, <1>3, <1>4, <1>5, <1>6, <1>7 DEF FlowInv
<1>9. HandledInv'
  BY <1>1 DEF RecvInv, HandledInv, HandledInOrder, Packets
<1>10. RecvTypeOK' /\ BufOK(Byte \cup {Junk}, inBuf)'
  BY <1>1 DEF RecvInv, RecvTypeOK
<1>11. ParseInv'
  <2>1. (Whole' <=> Whole) /\ (WrongLen' <=> WrongLen)
    BY <1>1 DEF Whole, WrongLen, HasHeader, NextKind
  <2>2. RoomBehind'
    BY <1>1 DEF RecvInv, ParseInv, RoomBehind
  <2>3. ~fin
    BY <1>1 DEF RecvInv, ParseInv
  <2>. QED  BY <1>1, <1>6, <2>1, <2>2, <2>3 DEF RecvInv, ParseInv
<1>. QED  BY <1>8, <1>9, <1>10, <1>11 DEF RecvInv

\* recv() moves bytes to m_in_buf: what is at hand stays.
LEMMA RecvSomeKeeps ==
  ASSUME RecvInv, RecvSome
  PROVE  RecvInv'
<1>. DEFINE R == Readable(inBuf)
            h == Len(handled)
            n == IF Len(rcvBuf) < ReadBufSize THEN Len(rcvBuf) ELSE ReadBufSize
            a == Received
            b == SubSeq(rcvBuf, Len(a) + 1, Len(rcvBuf))
            S == Byte \cup {Junk}
<1>1. /\ readPc = "recv" /\ readPc' = "recv" /\ rcvBuf # <<>> /\ rcvBuf' = b
      /\ UNCHANGED <<stream, flight, fin, rcvEdge, state, handled>>
      /\ inBuf' = IncWriteOffset(Store(MakeRoom(inBuf), a), Len(a))
  BY DEF RecvSome, LoopAgain
<1>2. Open /\ BufOK(S, inBuf) /\ Junk \in S
  BY <1>1 DEF RecvInv, ParseInv
<1>3. R \in Seq(Byte) /\ rcvBuf \in Seq(Byte) /\ flight \in Seq(Byte) /\ FlowFrom(stream, AtHand, h)
  BY <1>2 DEF RecvInv, FlowInv
<1>4. n \in 0..Len(rcvBuf) /\ n \in 0..ReadBufSize
  <2>1. Len(rcvBuf) \in Nat
    BY <1>3, LenProperties
  <2>. QED  BY <2>1, RecvAssumption
<1>5. a = SubSeq(rcvBuf, 1, n)
  BY DEF Received
<1>. HIDE DEF n
<1>6. a \in Seq(Byte) /\ b \in Seq(Byte) /\ rcvBuf = a \o b /\ Len(a) <= ReadBufSize
  <2>1. /\ SubSeq(rcvBuf, 1, n) \in Seq(Byte) /\ SubSeq(rcvBuf, n + 1, Len(rcvBuf)) \in Seq(Byte)
        /\ Len(SubSeq(rcvBuf, 1, n)) = n
        /\ rcvBuf = SubSeq(rcvBuf, 1, n) \o SubSeq(rcvBuf, n + 1, Len(rcvBuf))
    BY <1>3, <1>4, CutAt
  <2>2. Len(a) = n /\ n <= ReadBufSize
    BY <1>4, <1>5, <2>1, RecvAssumption
  <2>. QED  BY <1>5, <2>1, <2>2
<1>7. a \in Seq(S)
  BY <1>6, SeqWider
<1>. HIDE DEF a, b
<1>8. BufOK(S, inBuf') /\ Readable(inBuf') = R \o a
  <2>1. LET c == IncWriteOffset(Store(MakeRoom(inBuf), a), Len(a))
        IN  BufOK(S, c) /\ Readable(c) = Readable(inBuf) \o a
    <3>. HIDE DEF S
    <3>. QED  BY <1>2, <1>6, <1>7, ReceiveAppends
  <2>. QED  BY <1>1, <2>1
<1>9. Readable(inBuf)' = R \o a /\ BufOK(S, inBuf)' /\ (Open' <=> Open) /\ R \o a \in Seq(Byte)
  BY <1>1, <1>3, <1>6, <1>8, ConcatProperties DEF Open
<1>. HIDE DEF R
<1>10. AtHand' = AtHand
  <2>1. AtHand' = (R \o a) \o b \o flight
    BY <1>1, <1>9 DEF AtHand
  <2>2. (R \o a) \o b = R \o (a \o b)
    BY <1>3, <1>6, ConcatAssociative
  <2>3. AtHand = R \o (a \o b) \o flight
    BY <1>6 DEF AtHand, R
  <2>. QED  BY <2>1, <2>2, <2>3
<1>11. FlowInv'
  BY <1>1, <1>3, <1>6, <1>9, <1>10 DEF FlowInv
<1>12. HandledInv'
  BY <1>1 DEF RecvInv, HandledInv, HandledInOrder, Packets
<1>13. RecvTypeOK'
  BY <1>1, <1>9 DEF RecvInv, RecvTypeOK, BufOK
<1>14. ParseInv'
  <2>1. (fin => flight = <<>>) /\ state # "peer_closing" /\ Open
    BY <1>1, <1>2 DEF RecvInv, ParseInv
  <2>. QED  BY <1>1, <1>9, <2>1 DEF ParseInv, RoomBehind
<1>. QED  BY <1>9, <1>11, <1>12, <1>13, <1>14 DEF RecvInv

\* HandlePkt gets the next packet, which leaves the buffer.
LEMMA ParseKeeps ==
  ASSUME RecvInv, NEW closes \in BOOLEAN, ParsePkt(closes)
  PROVE  RecvInv'
<1>. DEFINE R == Readable(inBuf)
            h == Len(handled)
            P == SubSeq(R, 1, HeaderLen)
            r == SubSeq(R, HeaderLen + 1, Len(R))
            after == Read(inBuf, HeaderLen)
            S == Byte \cup {Junk}
<1>1. /\ readPc = "parse" /\ Whole /\ NextKind \notin {"unknown", "body"}
      /\ UNCHANGED <<stream, flight, rcvBuf, fin>>
  BY DEF ParsePkt, peerVars
<1>2. Open /\ BufOK(S, inBuf) /\ Junk \in S /\ WritableLen(inBuf) > 0
  BY <1>1 DEF RecvInv, ParseInv, RoomBehind
<1>3. NextKind = "ok" /\ Claims(NextKind) = HeaderLen
  BY <1>1, <1>2, WholeIsOk
<1>4. /\ handled' = Append(handled, P)
      /\ IF closes THEN inBuf' = ResetOffset(after) /\ readPc' = "end" /\ state' = "closing" /\ rcvEdge' = FALSE
                   ELSE inBuf' = after /\ readPc' = "parse" /\ UNCHANGED <<state, rcvEdge>>
  BY <1>3 DEF ParsePkt, GoesOn, Consume, CloseConn
<1>5. /\ AtHand # <<>> /\ h + 1 \in 1..Len(stream) /\ stream[h + 1] = "ok"
      /\ ReadableLen(inBuf) \in HeaderLen..Len(AtHand) /\ Len(R) = ReadableLen(inBuf)
      /\ \A i \in 1..HeaderLen : R[i] = <<h + 1, i>>
  BY <1>1, <1>2, <1>3, NextSeen DEF Whole
<1>6. R \in Seq(Byte) /\ rcvBuf \in Seq(Byte) /\ flight \in Seq(Byte) /\ FlowFrom(stream, AtHand, h)
  BY <1>2 DEF RecvInv, FlowInv
<1>7. HeaderLen \in 0..Len(R) /\ HeaderLen \in 0..ReadableLen(inBuf) /\ HeaderLen \in Nat
  <2>1. Len(R) \in Nat
    BY <1>6, LenProperties
  <2>. QED  BY <1>5, <2>1, RecvAssumption
<1>8. P \in Seq(Byte) /\ r \in Seq(Byte) /\ Len(P) = HeaderLen /\ R = P \o r
  <2>. HIDE DEF R
  <2>. QED  BY <1>6, <1>7, CutAt
<1>9. BytesOf("ok") = HeaderLen
  BY DEF BytesOf
<1>10. P = Packet(h + 1, "ok")
  <2>1. h + 1 \in Nat
    <3>1. handled \in Seq(Seq(Byte))
      BY DEF RecvInv, HandledInv
    <3>2. h \in Nat
      BY <3>1, LenProperties
    <3>. QED  BY <3>2
  <2>. DEFINE Q == Packet(h + 1, "ok")
  <2>2. Q \in Seq(Byte) /\ Len(Q) = HeaderLen /\ \A i \in 1..HeaderLen : Q[i] = <<h + 1, i>>
    BY <1>9, <2>1, PacketTyped
  <2>3. \A i \in 1..HeaderLen : P[i] = R[i]
    <3>1. \A i \in 1..HeaderLen : (P \o r)[i] = P[i]
      <4>. HIDE DEF P, r
      <4>1. Len(P) \in Nat /\ Len(r) \in Nat
        BY <1>8, LenProperties
      <4>2. \A i \in 1..(Len(P) + Len(r)) : (P \o r)[i] = IF i <= Len(P) THEN P[i] ELSE r[i - Len(P)]
        BY <1>8, ConcatProperties
      <4>. QED  BY <1>8, <4>1, <4>2
    <3>. QED  BY <1>8, <3>1
  <2>4. \A i \in 1..HeaderLen : P[i] = Q[i]
    BY <1>5, <2>2, <2>3
  <2>. HIDE DEF P, Q
  <2>5. P = Q
    BY <1>8, <2>2, <2>4, SeqEqual
  <2>. QED  BY <2>5 DEF Q
<1>11. BufOK(S, after) /\ WritableLen(after) = WritableLen(inBuf) /\ Readable(after) = r
  <2>. HIDE DEF S
  <2>. QED  BY <1>2, <1>7, ReadCuts
<1>12. BufOK(S, inBuf') /\ Readable(inBuf') = r /\ (~closes => inBuf' = after)
  <2>. HIDE DEF S, after, r
  <2>1. BufOK(S, ResetOffset(after)) /\ Readable(ResetOffset(after)) = Readable(after)
    BY <1>11, ResetIs
  <2>. QED  BY <1>4, <1>11, <2>1
<1>13. BufOK(S, inBuf)' /\ Readable(inBuf)' = r
  BY <1>12
<1>14. FlowFrom(stream, r \o rcvBuf \o flight, h + 1)
  <2>. HIDE DEF P, r, R
  <2>. DEFINE q == r \o rcvBuf
  <2>0. P \in Seq(Byte) /\ r \in Seq(Byte) /\ rcvBuf \in Seq(Byte) /\ flight \in Seq(Byte)
    BY <1>6, <1>8
  <2>1. q \in Seq(Byte) /\ q \o flight \in Seq(Byte)
    <3>1. q \in Seq(Byte)
      BY <2>0, ConcatProperties
    <3>. HIDE DEF q
    <3>. QED  BY <2>0, <3>1, ConcatProperties
  <2>2. (P \o r) \o rcvBuf = P \o q
    BY <2>0, ConcatAssociative
  <2>3. (P \o q) \o flight = P \o (q \o flight)
    <3>. HIDE DEF q
    <3>. QED  BY <2>0, <2>1, ConcatAssociative
  <2>4. AtHand = P \o (r \o rcvBuf \o flight)
    BY <1>8, <2>2, <2>3, Zenon DEF AtHand, R
  <2>5. Len(P) = BytesOf(stream[h + 1]) /\ stream \in Seq(AllKinds)
    BY <1>5, <1>8, <1>9 DEF RecvInv, RecvTypeOK
  <2>. DEFINE b == r \o rcvBuf \o flight
  <2>6. P \o b # <<>> /\ FlowFrom(stream, P \o b, h) /\ b \in Seq(Byte)
    BY <1>5, <1>6, <2>1, <2>4
  <2>. HIDE DEF b
  <2>7. FlowFrom(stream, b, h + 1)
    BY <1>8, <2>5, <2>6, FlowDrop
  <2>. QED  BY <2>7 DEF b
<1>15. /\ handled' \in Seq(Seq(Byte)) /\ Len(handled') = h + 1 /\ h \in Nat
       /\ (\A i \in 1..h : handled'[i] = handled[i]) /\ handled'[h + 1] = P
  <2>1. handled \in Seq(Seq(Byte))
    BY DEF RecvInv, HandledInv
  <2>2. h \in Nat
    BY <2>1, LenProperties
  <2>. HIDE DEF P
  <2>3. handled' = Append(handled, P)
    BY <1>4
  <2>. QED  BY <1>8, <2>1, <2>2, <2>3, AppendProperties
<1>16. FlowInv'
  <2>1. AtHand' = r \o rcvBuf \o flight
    BY <1>1, <1>13 DEF AtHand
  <2>. HIDE DEF r
  <2>. QED  BY <1>1, <1>6, <1>8, <1>13, <1>14, <1>15, <2>1 DEF FlowInv
<1>17. HandledInv'
  <2>1. handled = Packets(h) /\ \A i \in 1..h : stream[i] = "ok"
    BY DEF RecvInv, HandledInv, HandledInOrder
  <2>. DEFINE g == [i \in 1..(h + 1) |-> Packet(i, stream[i])]
  <2>2. \A i \in 1..h : handled[i] = Packet(i, stream[i])
    <3>1. \A i \in 1..h : Packets(h)[i] = Packet(i, stream[i])
      BY DEF Packets
    <3>. QED  BY <2>1, <3>1
  <2>3. \A i \in 1..(h + 1) : i \in 1..h \/ i = h + 1
    BY <1>15
  <2>4. \A i \in 1..(h + 1) : handled'[i] = g[i] /\ stream[i] = "ok"
    BY <1>5, <1>10, <1>15, <2>1, <2>2, <2>3
  <2>5. DOMAIN handled' = 1..(h + 1) /\ handled' = [i \in DOMAIN handled' |-> handled'[i]]
    BY <1>15, LenProperties
  <2>6. handled' = g
    BY <2>4, <2>5
  <2>7. handled' = Packets(Len(handled))'
    BY <1>1, <1>15, <2>6 DEF Packets
  <2>8. Len(handled') <= Len(stream')
    BY <1>1, <1>5, <1>15
  <2>9. \A i \in 1..Len(handled') : stream'[i] = "ok"
    BY <1>1, <1>15, <2>4
  <2>. QED  BY <1>15, <2>7, <2>8, <2>9 DEF HandledInv, HandledInOrder
<1>18. RecvTypeOK'
  BY <1>1, <1>4, <1>13 DEF RecvInv, RecvTypeOK, BufOK
<1>19. ParseInv'
  <2>1. CASE closes
    <3>1. readPc' = "end" /\ state' = "closing"
      BY <1>4, <2>1
    <3>. QED  BY <1>1, <3>1 DEF RecvInv, ParseInv, Open, RoomBehind
  <2>2. CASE ~closes
    <3>1. readPc' = "parse" /\ UNCHANGED <<state, rcvEdge>> /\ inBuf' = after
      BY <1>4, <2>2
    <3>2. RoomBehind'
      BY <1>2, <1>11, <3>1 DEF RoomBehind
    <3>. QED  BY <1>1, <3>1, <3>2 DEF RecvInv, ParseInv, Open
  <2>. QED  BY <2>1, <2>2
<1>. QED  BY <1>13, <1>16, <1>17, <1>18, <1>19 DEF RecvInv

\* The other steps of the IO thread change no byte that is at hand; those that
\* make or move room in the buffer keep what is readable.
LEMMA RoomKeeps ==
  ASSUME RecvInv, RecvEnd
  PROVE  RecvInv'
<1>. DEFINE S == Byte \cup {Junk}
<1>1. /\ readPc = "recv" /\ readPc' = "parse" /\ rcvBuf = <<>> /\ inBuf' = MakeRoom(inBuf)
      /\ state' = (IF fin THEN "peer_closing" ELSE state)
      /\ UNCHANGED <<stream, flight, rcvBuf, fin, rcvEdge, handled>>
  BY DEF RecvEnd, peerVars
<1>2. Open /\ Open' /\ BufOK(S, inBuf) /\ Junk \in S
  BY <1>1 DEF RecvInv, ParseInv, Open
<1>3. BufOK(S, inBuf)' /\ Readable(inBuf)' = Readable(inBuf) /\ WritableLen(inBuf)' > 0
  <2>. HIDE DEF S
  <2>1. BufOK(S, MakeRoom(inBuf)) /\ Readable(MakeRoom(inBuf)) = Readable(inBuf) /\ WritableLen(MakeRoom(inBuf)) > 0
    BY <1>2, MakeRoomKeeps
  <2>. QED  BY <1>1, <2>1
<1>4. AtHand' = AtHand
  BY <1>1, <1>3 DEF AtHand
<1>5. FlowInv'
  BY <1>1, <1>2, <1>3, <1>4 DEF RecvInv, FlowInv
<1>6. HandledInv'
  BY <1>1 DEF RecvInv, HandledInv, HandledInOrder, Packets
<1>7. RecvTypeOK'
  BY <1>1, <1>3 DEF RecvInv, RecvTypeOK, BufOK
<1>8. ParseInv'
  BY <1>1, <1>2, <1>3 DEF RecvInv, ParseInv, RoomBehind
<1>. QED  BY <1>3, <1>5, <1>6, <1>7, <1>8 DEF RecvInv

\* ResetOffset moves what is readable and nothing else is seen of it.
LEMMA ParseEndKeeps ==
  ASSUME RecvInv, ParseEnd
  PROVE  RecvInv'
<1>. DEFINE S == Byte \cup {Junk}
<1>1. /\ readPc = "parse" /\ ~WrongLen /\ ~Whole /\ inBuf' = ResetOffset(inBuf) /\ readPc' = "end"
      /\ UNCHANGED <<stream, flight, rcvBuf, fin, rcvEdge, state, handled>>
  BY DEF ParseEnd, peerVars
<1>2. Open /\ Open' /\ BufOK(S, inBuf)
  BY <1>1 DEF RecvInv, ParseInv, Open
<1>3. BufOK(S, inBuf)' /\ Readable(inBuf)' = Readable(inBuf) /\ inBuf'.r = 0
  <2>. HIDE DEF S
  <2>1. BufOK(S, ResetOffset(inBuf)) /\ Readable(ResetOffset(inBuf)) = Readable(inBuf) /\ ResetOffset(inBuf).r = 0
    BY <1>2, ResetIs
  <2>. QED  BY <1>1, <2>1
<1>4. AtHand' = AtHand
  BY <1>1, <1>3 DEF AtHand
<1>5. FlowInv'
  BY <1>1, <1>2, <1>3, <1>4 DEF RecvInv, FlowInv
<1>6. HandledInv'
  BY <1>1 DEF RecvInv, HandledInv, HandledInOrder, Packets
<1>7. RecvTypeOK'
  BY <1>1, <1>3 DEF RecvInv, RecvTypeOK, BufOK
<1>8. ~Whole' /\ ~WrongLen'
  <2>1. ReadableLen(inBuf)' = ReadableLen(inBuf)
    <3>. HIDE DEF S
    <3>1. Len(Readable(inBuf)) = ReadableLen(inBuf)
      BY <1>2, ReadableIs
    <3>2. Len(Readable(inBuf')) = ReadableLen(inBuf')
      BY <1>3, ReadableIs
    <3>. QED  BY <1>3, <3>1, <3>2
  <2>2. (HasHeader' <=> HasHeader) /\ NextKind' = NextKind
    BY <1>1, <1>3, <2>1 DEF HasHeader, NextKind
  <2>. QED  BY <1>1, <2>1, <2>2 DEF Whole, WrongLen
<1>9. ParseInv'
  BY <1>1, <1>2, <1>3, <1>8 DEF RecvInv, ParseInv, RoomBehind
<1>. QED  BY <1>3, <1>5, <1>6, <1>7, <1>9 DEF RecvInv

\* Every step keeps the invariant.
LEMMA StepRecv ==
  RecvInv /\ [RecvNext]_recvVars => RecvInv'
<1>. SUFFICES ASSUME RecvInv, [RecvNext]_recvVars PROVE RecvInv'
  OBVIOUS
<1>1. ASSUME NEW kind \in Kinds, PeerSends(kind) PROVE RecvInv'
  BY <1>1, SendKeeps
<1>2. CASE KernelGets
  BY <1>2, ArriveKeeps
<1>3. CASE RecvSome
  BY <1>3, RecvSomeKeeps
<1>4. CASE RecvEnd
  BY <1>4, RoomKeeps
<1>5. ASSUME NEW closes \in BOOLEAN, ParsePkt(closes) PROVE RecvInv'
  BY <1>5, ParseKeeps
<1>6. CASE ParseEnd
  BY <1>6, ParseEndKeeps
<1>7. ASSUME UNCHANGED <<stream, flight, rcvBuf, inBuf, handled>>, Open' => Open,
             fin' \in BOOLEAN, rcvEdge' \in BOOLEAN, readPc' \in {"idle", "recv", "parse", "end"},
             state' \in {"connected", "peer_closing", "closing"},
             (Whole <=> Whole') /\ (WrongLen <=> WrongLen') => ParseInv'
      PROVE  RecvInv'
  <2>1. /\ BufOK(Byte \cup {Junk}, inBuf)' /\ FlowInv' /\ HandledInv'
        /\ (Whole <=> Whole') /\ (WrongLen <=> WrongLen')
        /\ stream' \in Seq(AllKinds) /\ Len(stream') <= MaxPkts /\ Sound(inBuf)'
    BY <1>7, SameBytes
  <2>2. RecvTypeOK'
    BY <1>7, <2>1 DEF RecvTypeOK
  <2>. QED  BY <1>7, <2>1, <2>2 DEF RecvInv
<1>. USE DEF RecvInv, RecvTypeOK, ParseInv, RoomBehind, Open, peerVars
<1>8. CASE PeerCloses
  BY <1>7, <1>8 DEF PeerCloses
<1>9. CASE TakeEvent
  BY <1>7, <1>9 DEF TakeEvent
<1>10. CASE OnReadEof
  BY <1>7, <1>10 DEF OnReadEof, CloseConn
<1>11. CASE OnRead
  BY <1>7, <1>11 DEF OnRead
<1>12. CASE ParseThrows
  BY <1>7, <1>12 DEF ParseThrows, CloseConn
<1>13. CASE EndRead
  BY <1>7, <1>13 DEF EndRead, CloseConn
<1>14. CASE OtherClose
  BY <1>7, <1>14 DEF OtherClose, CloseConn
<1>15. CASE UNCHANGED recvVars
  BY <1>7, <1>15 DEF recvVars
<1>. QED
  BY <1>1, <1>2, <1>3, <1>4, <1>5, <1>6, <1>8, <1>9, <1>10, <1>11, <1>12, <1>13, <1>14, <1>15
  DEF RecvNext, ReadStep

-----------------------------------------------------------------------------
(***************************************************************************)
(* Receiving, the theorems.                                                *)
(***************************************************************************)

\* Every behaviour of the receiving side keeps the inductive invariant.
THEOREM RecvInductive == RecvSpec => []RecvInv
<1>1. RecvInit => RecvInv
  BY InitRecv
<1>2. RecvInv /\ [RecvNext]_recvVars => RecvInv'
  BY StepRecv
<1>. QED  BY <1>1, <1>2, PTL DEF RecvSpec

\* OnRead and _ParsePkt give the handlers whole packets, in the order and with
\* the borders the peer sent, however the segments are split and wherever
\* m_in_buf grows or is moved to its start; and none after a malformed one.
THEOREM PacketsInOrder == RecvSpec => []HandledInOrder
<1>1. RecvInv => HandledInOrder
  BY DEF RecvInv, HandledInv
<1>. QED  BY <1>1, RecvInductive, PTL

\* m_in_buf stays inside its allocation, loses and repeats no byte, has room for
\* the '\0' behind what was received, and between events holds no packet that
\* could be handled while epoll says nothing.
THEOREM NothingWaitsInBuffer == RecvSpec => []BufferInv
<1>1. RecvInv => BufferInv
  <2>. SUFFICES ASSUME RecvInv PROVE BufferInv
    OBVIOUS
  <2>1. BytesKept
    <3>. SUFFICES ASSUME Open
                  PROVE  /\ Range(AtHand) = UNION {Range(Packet(n, stream[n])) : n \in (Len(handled) + 1)..Len(stream)}
                         /\ \A i, j \in 1..Len(AtHand) : i < j => Before(AtHand[i], AtHand[j])
      BY DEF BytesKept
    <3>1. FlowFrom(stream, AtHand, Len(handled)) /\ stream \in Seq(AllKinds)
      BY DEF RecvInv, FlowInv, RecvTypeOK
    <3>. QED  BY <3>1, FlowKept
  <2>2. NothingForgotten
    BY DEF RecvInv, ParseInv, NothingForgotten
  <2>. QED  BY <2>1, <2>2 DEF BufferInv, RecvInv, ParseInv
<1>. QED  BY <1>1, RecvInductive, PTL

\* When nothing more can come and _ParsePkt found no whole packet, all was
\* handled or the peer announced more than it sent.
LEMMA AllOrHuge ==
  ASSUME RecvInv, Open, rcvBuf = <<>>, flight = <<>>, ~Whole, ~WrongLen
  PROVE  handled = Packets(Len(stream)) \/ \E i \in 1..Len(stream) : stream[i] = "huge"
<1>. DEFINE R == Readable(inBuf)
            h == Len(handled)
<1>1. R \in Seq(Byte) /\ FlowFrom(stream, AtHand, h) /\ stream \in Seq(AllKinds)
  BY DEF RecvInv, FlowInv, RecvTypeOK
<1>2. AtHand = R
  BY <1>1, ConcatEmptySeq DEF AtHand
<1>3. CASE R = <<>>
  <2>1. h = Len(stream)
    BY <1>1, <1>2, <1>3, FlowNone
  <2>. QED  BY <2>1 DEF RecvInv, HandledInv, HandledInOrder
<1>4. CASE R # <<>>
  <2>. DEFINE kind == stream[h + 1]
              B == BytesOf(kind)
              L == ReadableLen(inBuf)
  <2>1. h + 1 \in 1..Len(stream) /\ \A i \in 1..B : i \in 1..Len(AtHand)
    BY <1>1, <1>2, <1>4, FlowHead
  <2>2. L \in Nat /\ Len(AtHand) = L
    BY <1>2, ReadableIs DEF RecvInv
  <2>3. HeaderLen \in Nat \ {0} /\ B \in Nat \ {0} /\ B >= HeaderLen
    BY BytesBound, RecvAssumption
  <2>. HIDE DEF B, L
  <2>4. B <= L /\ HeaderLen <= L
    <3>1. B \in 1..B
      BY <2>3
    <3>2. B \in 1..L
      BY <2>1, <2>2, <3>1
    <3>. QED  BY <2>2, <2>3, <3>2
  <2>5. HasHeader
    BY <2>2, <2>3, <2>4 DEF HasHeader, L
  <2>6. NextKind = kind /\ kind \in AllKinds
    BY <2>5, NextSeen
  <2>7. ~(Claims(kind) < HeaderLen) /\ ~(Claims(kind) <= L)
    BY <2>5, <2>6 DEF Whole, WrongLen, L
  <2>. HIDE DEF kind
  <2>8. kind = "huge"
    <3>1. kind = "short" => Claims(kind) = HeaderLen - 1
      BY DEF Claims
    <3>2. kind \in {"ok", "unknown", "body"} => Claims(kind) = B
      BY DEF Claims, B
    <3>3. kind \in {"short", "ok", "unknown", "body", "huge"}
      BY <2>6 DEF AllKinds
    <3>4. kind # "short"
      BY <2>3, <2>7, <3>1
    <3>5. kind \notin {"ok", "unknown", "body"}
      BY <2>4, <2>7, <3>2
    <3>. QED  BY <3>3, <3>4, <3>5
  <2>. QED  BY <2>1, <2>8 DEF kind
<1>. QED  BY <1>3, <1>4

\* No handler is called once one has closed the connection, and a close for the
\* peer's FIN (OnReadEof, EndRead) comes after every packet the peer completed.
THEOREM ClosingLast == RecvSpec => ClosingIsLast
<1>1. RecvInv /\ [RecvNext]_recvVars => [handled' # handled => Open]_recvVars
  <2>. SUFFICES ASSUME RecvInv, RecvNext, handled' # handled PROVE Open
    BY DEF recvVars, peerVars
  <2>1. \E closes \in BOOLEAN : ParsePkt(closes)
    BY DEF RecvNext, ReadStep, PeerSends, KernelGets, PeerCloses, TakeEvent, OnReadEof, OnRead, RecvSome,
           RecvEnd, ParseThrows, ParseEnd, EndRead, OtherClose
  <2>. QED  BY <2>1 DEF ParsePkt, RecvInv, ParseInv
<1>2. RecvInv /\ [RecvNext]_recvVars =>
        [(OnReadEof \/ EndRead) /\ Open /\ ~Open' =>
           handled = Packets(Len(stream)) \/ \E i \in 1..Len(stream) : stream[i] = "huge"]_recvVars
  <2>. SUFFICES ASSUME RecvInv, OnReadEof \/ EndRead, Open, ~Open'
                PROVE  handled = Packets(Len(stream)) \/ \E i \in 1..Len(stream) : stream[i] = "huge"
    BY DEF recvVars, peerVars
  <2>1. readPc \in {"idle", "end"} /\ rcvBuf = <<>> /\ fin
    <3>1. CASE OnReadEof
      BY <3>1 DEF OnReadEof, NothingToRead
    <3>2. CASE EndRead
      <4>1. readPc = "end" /\ state = "peer_closing"
        BY <3>2 DEF EndRead, Open
      <4>. QED  BY <4>1 DEF RecvInv, ParseInv
    <3>. QED  BY <3>1, <3>2
  <2>2. flight = <<>> /\ ~Whole /\ ~WrongLen
    BY <2>1 DEF RecvInv, ParseInv
  <2>. QED  BY <2>1, <2>2, AllOrHuge
<1>. QED  BY <1>1, <1>2, RecvInductive, PTL DEF RecvSpec, ClosingIsLast, NoPktAfterClose, PeerCloseLast
=============================================================================
