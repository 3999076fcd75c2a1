--------------------------------- MODULE Codec ---------------------------------
(***************************************************************************)
(* internal/teltonika/codec: what the decoder of AVL packets computes, and *)
(* what internal/parser makes of a record.  A byte is a number, a field    *)
(* the sequence of its bytes, and a word of the checksum the set of its    *)
(* bits.  Encode is the device's side, which is not in the repository.     *)
(***************************************************************************)
EXTENDS Integers, Sequences, SequencesExt, TLC

LOCAL INSTANCE FiniteSetsExt

-----------------------------------------------------------------------------
(* CRC16IBM *)

Bits(byte) == {i \in 0..7 : (byte \div 2^i) % 2 = 1}
ShiftRight(word) == {i - 1 : i \in word \ {0}}
Polynomial == {0, 13, 15}  \* 0xA001

CRCStep(crc) ==
  IF 0 \in crc THEN SymDiff(ShiftRight(crc), Polynomial) ELSE ShiftRight(crc)

\* The inner loop: n more steps
CRCSteps[crc \in SUBSET (0..15), n \in 0..8] ==
  IF n = 0 THEN crc ELSE CRCSteps[CRCStep(crc), n - 1]

CRCByte(crc, byte) == CRCSteps[SymDiff(crc, Bits(byte)), 8]

\* The outer loop: what is left of the data after n bytes
CRC16IBM(data) ==
  LET Rest[crc \in SUBSET (0..15), n \in 0..Len(data)] ==
        IF n = Len(data) THEN crc ELSE Rest[CRCByte(crc, data[n + 1]), n + 1]
  IN Rest[{}, 0]

-----------------------------------------------------------------------------
(* Records *)

\* Mutation of LayoutForCodec: ids of one byte throughout.
LayoutNarrowIds(codec) ==
  CASE codec = 8   -> [event |-> 1, count |-> 1, id |-> 1, generation |-> 0, variable |-> FALSE]
    [] codec = 142 -> [event |-> 2, count |-> 2, id |-> 1, generation |-> 0, variable |-> TRUE]
    [] codec = 16  -> [event |-> 2, count |-> 1, id |-> 1, generation |-> 1, variable |-> FALSE]

\* The widths of codecs 8, 8 Extended and 16.
LayoutForCodec(codec) ==
  CASE codec = 8   -> [event |-> 1, count |-> 1, id |-> 1, generation |-> 0, variable |-> FALSE]
    [] codec = 142 -> [event |-> 2, count |-> 2, id |-> 2, generation |-> 0, variable |-> TRUE]
    [] codec = 16  -> [event |-> 2, count |-> 1, id |-> 2, generation |-> 1, variable |-> FALSE]

Codecs == {8, 142, 16}

\* binary.BigEndian, for counts, ids and lengths
BigEndian(bytes) == FoldLeft(LAMBDA n, b : 256 * n + b, 0, bytes)

\* Of a value only its number counts, whatever its width.
Value(bytes) ==
  LET digits == SelectInSeq(bytes, LAMBDA b : b # 0) IN
  IF digits = 0 THEN <<>> ELSE SubSeq(bytes, digits, Len(bytes))

\* A reader of buf: what it has consumed and the IO values it has found.
Field(buf, r, width) == SubSeq(buf, r.off + 1, r.off + width)
Skip(buf, r, width) ==
  IF r.ok /\ r.off + width <= Len(buf) THEN [r EXCEPT !.off = @ + width] ELSE [r EXCEPT !.ok = FALSE]

\* An id and a value of the size of the group
ReadIO(buf, layout, size, r) ==
  LET after == Skip(buf, r, layout.id + size) IN
  IF ~after.ok THEN after
  ELSE [after EXCEPT !.ios =
          (BigEndian(Field(buf, r, layout.id)) :>
             Value(SubSeq(buf, r.off + layout.id + 1, after.off))) @@ @]

\* An id, a length and a value of that length, of which 8 bytes are kept.
ReadVariableIO(buf, layout, r) ==
  LET head == Skip(buf, r, layout.id + 2)
      length == BigEndian(SubSeq(buf, r.off + layout.id + 1, head.off))
      after == Skip(buf, head, length)
  IN IF ~head.ok \/ ~after.ok THEN [r EXCEPT !.ok = FALSE]
     ELSE [after EXCEPT !.ios =
             (BigEndian(Field(buf, r, layout.id)) :>
                Value(Field(buf, head, IF length < 8 THEN length ELSE 8))) @@ @]

\* The size that stands for values that bring their own length
OwnLength == 0

\* parseGroup, and the loop over the values with a length of their own:
\* readIOCount, then as many elements
ReadCounted(buf, layout, size, r) ==
  LET after == Skip(buf, r, layout.count)
      Element(s, i) ==
        IF size = OwnLength THEN ReadVariableIO(buf, layout, s) ELSE ReadIO(buf, layout, size, s)
  IN IF after.ok
     THEN FoldLeft(Element, after, [i \in 1..BigEndian(Field(buf, r, layout.count)) |-> i])
     ELSE after

\* parseIOBlock; the total count is read and not compared with anything.
ParseIOBlock(buf, off, layout) ==
  LET start == [ok |-> TRUE, off |-> off, ios |-> <<>>]
      sizes == <<1, 2, 4, 8>> \o IF layout.variable THEN <<OwnLength>> ELSE <<>>
  IN FoldLeft(LAMBDA r, size : ReadCounted(buf, layout, size, r),
              Skip(buf, start, layout.event + layout.generation + layout.count), sizes)

Error == [ok |-> FALSE, panics |-> FALSE]
Panic == [ok |-> FALSE, panics |-> TRUE]

\* The record of a buffer whose IO values have been read
RecordOf(buf, io) ==
  IF ~io.ok THEN Error
  ELSE [ok |-> TRUE, used |-> io.off, record |->
         [time |-> SubSeq(buf, 1, 8), priority |-> buf[9],
          lon |-> SubSeq(buf, 10, 13), lat |-> SubSeq(buf, 14, 17),
          altitude |-> SubSeq(buf, 18, 19), angle |-> SubSeq(buf, 20, 21),
          satellites |-> buf[22], speed |-> SubSeq(buf, 23, 24), ios |-> io.ios]]

\* decodeRecord.  From 9 bytes on it slices the 15 of the position as far as the
\* packet reaches, 5 bytes further; where they are not enough it panics.
DecodeRecord(buf, codec) ==
  IF Len(buf) < 9 THEN Error
  ELSE IF Len(buf) < 19 THEN Panic
  ELSE IF codec \notin Codecs THEN Error
  ELSE RecordOf(buf, ParseIOBlock(buf, 24, LayoutForCodec(codec)))

-----------------------------------------------------------------------------
(* ParsePacket *)

MaxDataFieldLength == 2048

\* Lengths that are too large are all alike.
DataFieldLength(data) ==
  IF data[5] # 0 \/ data[6] # 0 THEN MaxDataFieldLength + 1
  ELSE BigEndian(SubSeq(data, 7, 8))

\* The checksum as it is sent, in the lower half of four bytes
Word(bits, from) == MapThenSumSet(LAMBDA i : 2^(i - from), bits \cap from..(from + 7))
Checksum(payload) == LET crc == CRC16IBM(payload) IN <<0, 0, Word(crc, 8), Word(crc, 0)>>

\* The records of a payload, one after the other up to the trailing count.
ParseRecords(payload) ==
  LET end == Len(payload) - 1
      With(found, rec) ==
        IF ~rec.ok THEN rec
        ELSE [found EXCEPT !.off = @ + rec.used, !.records = Append(@, rec.record)]
      One(found, i) ==
        IF ~found.ok THEN found
        ELSE IF found.off >= end THEN Error
        ELSE With(found, DecodeRecord(SubSeq(payload, found.off + 1, end), payload[1]))
      Complete(found) == IF found.ok /\ found.off # end THEN Error ELSE found
  IN Complete(FoldLeft(One, [ok |-> TRUE, off |-> 2, records |-> <<>>],
                       [i \in 1..payload[2] |-> i]))

\* Mutation of ChecksumMatches: the lower byte decides.
ChecksumMatchesLow(payload, received) == received[4] = Checksum(payload)[4]

ChecksumMatches(payload, received) == received = Checksum(payload)

ParsePacket(data) ==
  IF Len(data) < 12 \/ SubSeq(data, 1, 4) # <<0, 0, 0, 0>> THEN Error
  ELSE LET length == DataFieldLength(data)
           payload == SubSeq(data, 9, 8 + length)
       IN IF length \notin 1..MaxDataFieldLength \/ Len(data) < 8 + length + 4
             \/ ~ChecksumMatches(payload, SubSeq(data, 9 + length, 12 + length))
             \/ length < 3 \/ payload[2] # payload[length]
          THEN Error
          ELSE ParseRecords(payload)

-----------------------------------------------------------------------------
(* internal/parser *)

Negative(bytes) == bytes[1] >= 128

\* teltonikaRecordToParsed, but for the formats of time and coordinates
ToParsed(record) ==
  [time |-> record.time, speed |-> Value(record.speed),
   ew |-> IF Negative(record.lon) THEN 0 ELSE 1,
   ns |-> IF Negative(record.lat) THEN 0 ELSE 1,
   status |-> IF 239 \in DOMAIN record.ios /\ record.ios[239] = <<1>> THEN 1 ELSE 0]

-----------------------------------------------------------------------------
(* What a device sends *)

Wide(n, width) == IF width = 1 THEN <<n>> ELSE <<n \div 256, n % 256>>

\* A record: what it says, and its IO values as sets of pairs by width.
EncodeRecord(said, layout) ==
  LET Pairs(ios) ==
        FlattenSeq([i \in DOMAIN ios |-> Wide(ios[i].id, layout.id) \o ios[i].bytes])
      Group(size) ==
        LET ios == SelectSeq(said.ios, LAMBDA io : ~io.variable /\ Len(io.bytes) = size)
        IN Wide(Len(ios), layout.count) \o Pairs(ios)
      own == SelectSeq(said.ios, LAMBDA io : io.variable)
      Variable ==
        Wide(Len(own), layout.count)
          \o FlattenSeq([i \in DOMAIN own |->
               Wide(own[i].id, layout.id) \o Wide(Len(own[i].bytes), 2) \o own[i].bytes])
  IN said.time \o <<1>>
       \o (IF said.east THEN <<30, 186, 0, 0>> ELSE <<225, 70, 0, 0>>)
       \o (IF said.north THEN <<21, 40, 0, 1>> ELSE <<234, 216, 0, 1>>)
       \o <<4, 176>> \o <<0, 90>> \o <<9>> \o said.speed
       \o Wide(0, layout.event) \o [i \in 1..layout.generation |-> 5]
       \o Wide(Len(said.ios), layout.count)
       \o Group(1) \o Group(2) \o Group(4) \o Group(8)
       \o IF layout.variable THEN Variable ELSE <<>>

Encode(codec, layout, saying) ==
  LET payload == <<codec, Len(saying)>>
                   \o FlattenSeq([i \in DOMAIN saying |-> EncodeRecord(saying[i], layout)])
                   \o <<Len(saying)>>
  IN <<0, 0, 0, 0, 0, 0>> \o Wide(Len(payload), 2) \o payload \o Checksum(payload)
=============================================================================
