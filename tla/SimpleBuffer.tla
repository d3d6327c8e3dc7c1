---------------------------- MODULE SimpleBuffer ----------------------------
(***************************************************************************)
(* SimpleBuffer as operators on its three fields: the allocated cells, the *)
(* write offset and the read offset.  A cell that was allocated and never  *)
(* written, or left behind by a move, has the value it happens to have:    *)
(* Junk, or the old one.                                                   *)
(***************************************************************************)
EXTENDS Integers, SequencesExt

CONSTANT Junk

Empty == [cells |-> <<>>, w |-> 0, r |-> 0]

AllocSize(b)   == Len(b.cells)
ReadableLen(b) == b.w - b.r
WritableLen(b) == AllocSize(b) - b.w
Readable(b)    == SubSeq(b.cells, b.r + 1, b.w)

\* The size Extend asks realloc for: a quarter more than it needs.
ExtendSize(b, len) == (b.w + len) + (b.w + len) \div 4

\* realloc keeps the cells both sizes have.
Extend(b, len) ==
  [b EXCEPT !.cells = [i \in 1..ExtendSize(b, len) |->
                         IF i <= AllocSize(b) THEN b.cells[i] ELSE Junk]]

\* memcpy to the write offset; Store also stands for recv() into GetWriteBuffer().
Store(b, data) ==
  [b EXCEPT !.cells = [i \in DOMAIN b.cells |->
                         IF i \in (b.w + 1)..(b.w + Len(data)) THEN data[i - b.w] ELSE b.cells[i]]]

IncWriteOffset(b, len) == [b EXCEPT !.w = @ + len]

NeedsRoom(b, len) == b.w + len > AllocSize(b)

Write(b, data) ==
  LET room == IF NeedsRoom(b, Len(data)) THEN Extend(b, Len(data)) ELSE b
  IN  IncWriteOffset(Store(room, data), Len(data))

Read(b, len) ==
  [b EXCEPT !.r = @ + (IF len > ReadableLen(b) THEN ReadableLen(b) ELSE len)]

\* memmove of what is readable to the start.
MoveFaulty(b) == b.cells
Move(b) ==
  [i \in DOMAIN b.cells |-> IF i <= ReadableLen(b) THEN b.cells[b.r + i] ELSE b.cells[i]]

ResetOffset(b) ==
  IF b.r = 0 THEN b
  ELSE [cells |-> IF b.r < b.w THEN Move(b) ELSE b.cells, w |-> ReadableLen(b), r |-> 0]

\* The offsets are in order and inside the allocation.
Sound(b) == 0 <= b.r /\ b.r <= b.w /\ b.w <= AllocSize(b)
=============================================================================
