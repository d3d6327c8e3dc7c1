------------------------------ MODULE PktCodec ------------------------------
(***************************************************************************)
(* A packet from the constructor that fills it to the constructor that     *)
(* reads it: CByteStream's integers (big endian, two's complement) and     *)
(* strings, the header PktBase keeps in front of the body, its setters,    *)
(* and the checks with which the reader rejects what does not fit.         *)
(*                                                                         *)
(* Bytes are digits of base Base, 256 in the code.                         *)
(***************************************************************************)
EXTENDS SimpleBuffer

CONSTANTS
  Base,       \* values of a byte
  Ints,       \* integer types in use: w bytes, signed or not
  Strings,    \* strings in use: sequences of bytes
  PktId,      \* the packet's id
  MaxFields,  \* bound: fields of the body
  MaxSets     \* bound: calls of SetVersion, SetFlag and SetSeqNo

ASSUME CodecAssumption ==
  /\ Base \in Nat /\ Base > 2 /\ Base % 2 = 0
  /\ Ints \subseteq [w : {1, 2, 4, 8}, signed : BOOLEAN, text : {FALSE}]
  /\ Strings \subseteq Seq(0..(Base - 1))
  /\ PktId \in 1..(Base * Base * Base * Base - 1)
  /\ MaxFields \in Nat /\ MaxSets \in Nat

-----------------------------------------------------------------------------
(***************************************************************************)
(* CByteStream.                                                            *)
(***************************************************************************)

\* 1 << 8 * k
Pow[k \in 0..8] == IF k = 0 THEN 1 ELSE Base * Pow[k - 1]

Unsigned(w) == [w |-> w, signed |-> FALSE, text |-> FALSE]

\* A string is its length, an unsigned integer of 4 bytes, and its bytes.
StringType == [w |-> 4, signed |-> FALSE, text |-> TRUE]

\* data >> 8 * (w - i), cut to a byte: \div rounds down, as the shift of a
\* negative number does.
Encode(w, x) == [i \in 1..w |-> (x \div Pow[w - i]) % Base]

\* The bytes put together: shifted to their places and or-ed.
Assemble(w, s) ==
  CASE w = 1 -> s[1]
    [] w = 2 -> s[1] * Pow[1] + s[2]
    [] w = 4 -> s[1] * Pow[3] + s[2] * Pow[2] + s[3] * Pow[1] + s[4]
    [] w = 8 -> s[1] * Pow[7] + s[2] * Pow[6] + s[3] * Pow[5] + s[4] * Pow[4]
                + s[5] * Pow[3] + s[6] * Pow[2] + s[7] * Pow[1] + s[8]

\* What they are once assigned to a signed or unsigned integer.
DecodeFaulty(t, s) == Assemble(t.w, s)
Decode(t, s) ==
  LET x == Assemble(t.w, s)
  IN  IF t.signed /\ x >= Pow[t.w] \div 2 THEN x - Pow[t.w] ELSE x

\* The values at the edges of a type.
Edges(t) ==
  IF t.signed THEN {-(Pow[t.w] \div 2), -1, 0, 1, Pow[t.w] \div 2 - 1}
              ELSE {0, 1, Pow[t.w] \div 2, Pow[t.w] - 1}

\* operator<<, WriteString and WriteData.
EncodeField(f) ==
  IF f.type.text THEN Encode(f.type.w, Len(f.value)) \o f.value
                 ELSE Encode(f.type.w, f.value)

\* A reading stream is the bytes and m_pos, 32 bits wide. _ReadByte and Skip
\* throw when they would pass the end.
Fits(s, pos, len) == (pos + len) % Pow[4] <= Len(s)
ReadInt(t, s, pos) == Decode(t, SubSeq(s, pos + 1, pos + t.w))

\* operator>>, ReadString and ReadData: whether they throw, the value and the
\* position behind it.
Thrown == [ok |-> FALSE]
ReadField(t, s, pos) ==
  LET x     == ReadInt(t, s, pos)
      start == pos + t.w
  IN  IF ~Fits(s, pos, t.w) \/ (t.text /\ ~Fits(s, start, x)) THEN Thrown
      ELSE IF t.text
      THEN [ok |-> TRUE, value |-> SubSeq(s, start + 1, start + x), pos |-> start + x]
      ELSE [ok |-> TRUE, value |-> x, pos |-> start]

-----------------------------------------------------------------------------
(***************************************************************************)
(* PktBase.                                                                *)
(***************************************************************************)

PktHeaderLen == 16
Setters   == {"version", "flag", "seq_no"}
Offset    == [length |-> 0, version |-> 4, flag |-> 6, pkt_id |-> 8, seq_no |-> 12]
Width     == [length |-> 4, version |-> 2, flag |-> 2, pkt_id |-> 4, seq_no |-> 4]

VARIABLES
  buf,      \* m_buf of the packet written
  header,   \* its m_pkt_header, but for length
  body,     \* history: the fields put into the body
  sets,     \* history: calls of the setters
  phase,    \* "fill", "ready", then "parse", "parsed" or "thrown"
  expect,   \* how many fields the reader takes the body to have
  got,      \* the values read
  pos       \* m_pos of the reading stream

codecVars == <<buf, header, body, sets, phase, expect, got, pos>>

\* SETUP_PKT_HEADER leaves room for a header not written yet.
CodecInit ==
  /\ buf = Write(Empty, [i \in 1..PktHeaderLen |-> Junk])
  /\ header = [version |-> 1, flag |-> 0, pkt_id |-> PktId, seq_no |-> 0]
  /\ body = <<>> /\ sets = 0
  /\ phase = "fill" /\ expect = 0 /\ got = <<>> /\ pos = 0

Patch(b, offset, bytes) ==
  [b EXCEPT !.cells = [i \in DOMAIN b.cells |->
     IF i \in (offset + 1)..(offset + Len(bytes)) THEN bytes[i - offset] ELSE b.cells[i]]]

PatchField(b, name, x) == Patch(b, Offset[name], Encode(Width[name], x))

PutField(t, x) ==
  LET f == [type |-> t, value |-> x] IN
  /\ phase = "fill" /\ Len(body) < MaxFields
  /\ buf' = Write(buf, EncodeField(f))
  /\ body' = Append(body, f)
  /\ UNCHANGED <<header, sets, phase, expect, got, pos>>

\* SetVersion, SetFlag, SetSeqNo: the bytes and the copy, header written or not.
SetFieldFaulty(name, x) ==
  /\ buf' = PatchField(buf, name, x)
  /\ UNCHANGED header
SetField(name, x) ==
  /\ buf' = PatchField(buf, name, x)
  /\ header' = [header EXCEPT ![name] = x]

Set(name) ==
  /\ phase \in {"fill", "ready"} /\ sets < MaxSets
  /\ \E x \in Edges(Unsigned(Width[name])) : SetField(name, x)
  /\ sets' = sets + 1
  /\ UNCHANGED <<body, phase, expect, got, pos>>

WrittenLength == buf.w

\* The last statement of a packet's constructor.
WriteHeader ==
  /\ phase = "fill"
  /\ LET length  == PatchField(buf, "length", WrittenLength)
         version == PatchField(length, "version", header.version)
         flag    == PatchField(version, "flag", header.flag)
         pkt_id  == PatchField(flag, "pkt_id", header.pkt_id)
     IN  buf' = PatchField(pkt_id, "seq_no", header.seq_no)
  /\ phase' = "ready"
  /\ UNCHANGED <<header, body, sets, expect, got, pos>>

Incoming  == SubSeq(buf.cells, 1, buf.w)
Body      == SubSeq(Incoming, PktHeaderLen + 1, Len(Incoming))

\* ReadPktHeader: the header fields at their offsets.
ReadPktHeader(s) ==
  [name \in DOMAIN Offset |-> ReadInt(Unsigned(Width[name]), s, Offset[name])]

\* The reader's constructor starts with the fields it knows of, some of them
\* or one more than the writer knew.
StartParse ==
  /\ phase = "ready"
  /\ phase' = "parse"
  /\ expect' \in 0..(Len(body) + 1)
  /\ UNCHANGED <<buf, header, body, sets, got, pos>>

\* What the reader takes its next field for: as written, or one nobody wrote.
NextType ==
  IF Len(got) < Len(body) THEN {body[Len(got) + 1].type} ELSE Ints \cup {StringType}

ParseField ==
  /\ phase = "parse" /\ Len(got) < expect
  /\ \E t \in NextType :
       LET r == ReadField(t, Body, pos) IN
       \/ r.ok /\ got' = Append(got, r.value) /\ pos' = r.pos /\ UNCHANGED phase
       \/ ~r.ok /\ phase' = "thrown" /\ UNCHANGED <<got, pos>>
  /\ UNCHANGED <<buf, header, body, sets, expect>>

AllReadFaulty == TRUE
AllRead == pos = Len(Body)

\* PARSE_PACKET_ASSERT.
EndParse ==
  /\ phase = "parse" /\ Len(got) = expect
  /\ phase' = IF AllRead THEN "parsed" ELSE "thrown"
  /\ UNCHANGED <<buf, header, body, sets, expect, got, pos>>

CodecNext ==
  \/ \E t \in Ints : \E x \in Edges(t) : PutField(t, x)
  \/ \E x \in Strings : PutField(StringType, x)
  \/ \E name \in Setters : Set(name)
  \/ WriteHeader \/ StartParse \/ ParseField \/ EndParse

CodecSpec == CodecInit /\ [][CodecNext]_codecVars

-----------------------------------------------------------------------------
(***************************************************************************)
(* Properties.                                                             *)
(***************************************************************************)

\* The reader gets the values the writer put in, whatever their types, and the
\* buffer having grown under the header in between.
ValuesSurvive == \A i \in 1..Len(got) : i <= Len(body) => got[i] = body[i].value

\* A packet is accepted only by a reader that reads all of it and nothing
\* else, and it is never refused by one that knows its fields.
AcceptedIffWhole ==
  /\ phase = "parsed" => Len(got) = Len(body)
  /\ phase = "thrown" => expect # Len(body)

\* From WriteHeader on the bytes of the header say what the header says, the
\* length of the whole packet included, whatever is set before or after.
HeaderOnWire ==
  phase # "fill" =>
    ReadPktHeader(Incoming) =
      [name \in DOMAIN Offset |-> IF name = "length" THEN Len(Incoming) ELSE header[name]]
=============================================================================
