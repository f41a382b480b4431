-------------------------- MODULE WireFormatProofs --------------------------
(***************************************************************************)
(* Proofs about the messages on the wire, for every list of at most five    *)
(* fields and every value.  A serializer puts one part of the buffer behind *)
(* the other; each part stays where it was put (Holds), which is where the  *)
(* running offset of the deserializer looks for it.                        *)
(***************************************************************************)
EXTENDS WireFormat, SequenceTheorems, TLAPS

-----------------------------------------------------------------------------
(* Sequences.                                                              *)

\* What a part of a sequence is made of: SubSeq, for the bounds a reader uses.
LEMMA PartOfSequence ==
    ASSUME NEW S, NEW q \in Seq(S), NEW m \in 1 .. Len(q) + 1, NEW n \in m - 1 .. Len(q)
    PROVE  /\ SubSeq(q, m, n) \in Seq(S)
           /\ Len(SubSeq(q, m, n)) = n - m + 1
           /\ \A i \in 1 .. n - m + 1 : SubSeq(q, m, n)[i] = q[m + i - 1]
<1>1. Len(q) \in Nat
  BY LenProperties
<1>2. m \in Int /\ n \in Int /\ \A i \in m .. n : i \in 1 .. Len(q)
  BY <1>1
<1>3. \A i \in m .. n : q[i] \in S
  BY <1>2, ElementOfSeq
<1>4. /\ SubSeq(q, m, n) \in Seq(S)
      /\ Len(SubSeq(q, m, n)) = IF m <= n THEN n - m + 1 ELSE 0
      /\ \A i \in 1 .. n - m + 1 : SubSeq(q, m, n)[i] = q[m + i - 1]
  BY <1>2, <1>3, SubSeqProperties
<1> QED
  BY <1>1, <1>2, <1>4

\* The bytes of p lie in the buffer b behind its first o bytes.
Holds(b, o, p) == /\ o \in Nat /\ o + Len(p) <= Len(b)
                  /\ \A i \in 1 .. Len(p) : b[o + i] = p[i]

\* What is appended lies at the end,
LEMMA AppendedLast ==
    ASSUME NEW S, NEW b \in Seq(S), NEW p \in Seq(S)
    PROVE  b \o p \in Seq(S) /\ Len(b \o p) = Len(b) + Len(p) /\ Holds(b \o p, Len(b), p)
<1>1. Len(b) \in Nat /\ Len(p) \in Nat
  BY LenProperties
<1>2. /\ b \o p \in Seq(S) /\ Len(b \o p) = Len(b) + Len(p)
      /\ \A i \in 1 .. Len(b) + Len(p) : (b \o p)[i] = IF i <= Len(b) THEN b[i] ELSE p[i - Len(b)]
  BY ConcatProperties
<1>3. ASSUME NEW i \in 1 .. Len(p) PROVE (b \o p)[Len(b) + i] = p[i]
  <2>1. /\ Len(b) + i \in 1 .. Len(b) + Len(p) /\ ~(Len(b) + i <= Len(b))
        /\ Len(b) + i - Len(b) = i
    BY <1>1
  <2> QED
    BY <1>2, <2>1
<1> QED
  BY <1>1, <1>2, <1>3 DEF Holds

\* and nothing that is appended behind it moves it.
LEMMA AppendingMovesNothing ==
    ASSUME NEW S, NEW b \in Seq(S), NEW r \in Seq(S), NEW o, NEW p \in Seq(S), Holds(b, o, p)
    PROVE  Holds(b \o r, o, p)
<1>1. Len(b) \in Nat /\ Len(r) \in Nat /\ Len(p) \in Nat
  BY LenProperties
<1>2. /\ Len(b \o r) = Len(b) + Len(r)
      /\ \A i \in 1 .. Len(b) + Len(r) : (b \o r)[i] = IF i <= Len(b) THEN b[i] ELSE r[i - Len(b)]
  BY ConcatProperties
<1>3. ASSUME NEW i \in 1 .. Len(p) PROVE (b \o r)[o + i] = p[i]
  <2>1. o + i \in 1 .. Len(b) + Len(r) /\ o + i <= Len(b) /\ b[o + i] = p[i]
    BY <1>1 DEF Holds
  <2> QED
    BY <1>2, <2>1
<1> QED
  BY <1>1, <1>2, <1>3 DEF Holds

\* A memcpy of as many bytes from that place yields them.
LEMMA HeldIsCopied ==
    ASSUME NEW S, NEW b \in Seq(S), NEW o, NEW p \in Seq(S), Holds(b, o, p)
    PROVE  o + Len(p) <= Len(b) /\ SubSeq(b, o + 1, o + Len(p)) = p
<1>1. Len(b) \in Nat /\ Len(p) \in Nat /\ o \in Nat /\ o + Len(p) <= Len(b)
  BY LenProperties DEF Holds
<1> DEFINE m == o + 1
           n == o + Len(p)
           q == SubSeq(b, m, n)
<1>2. m \in 1 .. Len(b) + 1 /\ n \in m - 1 .. Len(b) /\ n - m + 1 = Len(p)
  BY <1>1
<1>3. \A i \in 1 .. Len(p) : m + i - 1 = o + i
  BY <1>1
<1> HIDE DEF m, n
<1>4. /\ q \in Seq(S) /\ Len(q) = Len(p)
      /\ \A i \in 1 .. Len(p) : q[i] = p[i]
  <2>1. /\ q \in Seq(S) /\ Len(q) = n - m + 1
        /\ \A i \in 1 .. n - m + 1 : q[i] = b[m + i - 1]
    BY <1>2, PartOfSequence
  <2> HIDE DEF q
  <2> QED
    BY <1>2, <1>3, <2>1 DEF Holds
<1> HIDE DEF q
<1>5. q = p
  BY <1>4, SeqEqual
<1> QED
  BY <1>1, <1>5 DEF q, m, n

-----------------------------------------------------------------------------
(* Fields.                                                                 *)

Field == [name : DOMAIN SizeOf, order : {"host", "network"}]

\* What a serializer is given: at most five fields, and a value for each of them.
Layout(fields) == fields \in Seq(Field) /\ Len(fields) <= 5

Valued(fields, values) == \A name \in Names(fields) : values[name] \in Int

\* Every field has between 1 and 64 bytes.
LEMMA Widths == \A name \in DOMAIN SizeOf : SizeOf[name] \in 1 .. 64
BY DEF SizeOf

\* A value is stored in as many bytes as its field has, and loaded from them whatever the
\* byte order, as long as both sides agree on it.
LEMMA StoredIsLoaded ==
    ASSUME NEW field \in Field, NEW value \in Int
    PROVE  /\ Store(field, value) \in Seq(Byte)
           /\ Len(Store(field, value)) = SizeOf[field.name]
           /\ Load(field, Store(field, value)) = value
<1> DEFINE n == SizeOf[field.name]
           b == Store(field, value)
<1>1. n \in 1 .. 64
  BY Widths DEF Field
<1>2. \A i \in 1 .. n : HostByte(field, i) \in 1 .. 64
  BY <1>1 DEF HostByte
<1>3. b = [i \in 1 .. n |-> [at |-> HostByte(field, i), value |-> value]]
  BY DEF Store
<1> HIDE DEF n, b
<1>4. b \in [1 .. n -> Byte]
  <2>1. \A i \in 1 .. n : [at |-> HostByte(field, i), value |-> value] \in Byte
    BY <1>2 DEF Byte
  <2> QED
    BY <1>3, <2>1
<1>5. b \in Seq(Byte) /\ Len(b) = n
  BY <1>1, <1>4
<1>6. b[1].value = value
  BY <1>1, <1>3
<1>7. \A i \in 1 .. n : b[i] = [at |-> HostByte(field, i), value |-> b[1].value]
  BY <1>3, <1>6
<1>8. Load(field, b) = value
  BY <1>5, <1>6, <1>7 DEF Load, n
<1> QED
  BY <1>5, <1>8 DEF n, b

-----------------------------------------------------------------------------
(* Buffers: what Encode appends and where Decode looks for it.             *)

Part(fields, values, k) ==
    IF k \in DOMAIN fields THEN Store(fields[k], values[fields[k].name]) ELSE <<>>

Width(fields, k) == IF k \in DOMAIN fields THEN SizeOf[fields[k].name] ELSE 0

Total(fields) ==
    Width(fields, 1) + Width(fields, 2) + Width(fields, 3) + Width(fields, 4) + Width(fields, 5)

\* A part has as many bytes as its field is wide.
LEMMA PartOfField ==
    ASSUME NEW fields, NEW values, Layout(fields), Valued(fields, values), NEW k
    PROVE  /\ Part(fields, values, k) \in Seq(Byte)
           /\ Len(Part(fields, values, k)) = Width(fields, k)
           /\ Width(fields, k) \in Nat
<1>1. CASE k \in DOMAIN fields
  <2>1. fields[k] \in Field
    BY <1>1, LenProperties, ElementOfSeq DEF Layout
  <2>2. values[fields[k].name] \in Int
    BY <1>1 DEF Names, Valued
  <2>3. SizeOf[fields[k].name] \in Nat
    BY <2>1, Widths DEF Field
  <2> QED
    BY <1>1, <2>1, <2>2, <2>3, StoredIsLoaded DEF Part, Width
<1>2. CASE k \notin DOMAIN fields
  BY <1>2, EmptySeq DEF Part, Width
<1> QED
  BY <1>1, <1>2

\* Each part lies behind the widths of those before it.
LEMMA PartsInOrder ==
    ASSUME NEW fields, NEW values, Layout(fields), Valued(fields, values)
    PROVE  LET b    == Encode(fields, values)
               w(k) == Width(fields, k)
               p(k) == Part(fields, values, k)
           IN  /\ b \in Seq(Byte) /\ Len(b) = Total(fields)
               /\ Holds(b, 0, p(1))
               /\ Holds(b, w(1), p(2))
               /\ Holds(b, w(1) + w(2), p(3))
               /\ Holds(b, w(1) + w(2) + w(3), p(4))
               /\ Holds(b, w(1) + w(2) + w(3) + w(4), p(5))
<1> DEFINE p1 == Part(fields, values, 1)
           p2 == Part(fields, values, 2)
           p3 == Part(fields, values, 3)
           p4 == Part(fields, values, 4)
           p5 == Part(fields, values, 5)
           b2 == p1 \o p2
           b3 == b2 \o p3
           b4 == b3 \o p4
           b5 == b4 \o p5
<1>1. Encode(fields, values) = b5
  BY DEF Encode, Part
<1>2. /\ p1 \in Seq(Byte) /\ Len(p1) = Width(fields, 1) /\ Width(fields, 1) \in Nat
      /\ p2 \in Seq(Byte) /\ Len(p2) = Width(fields, 2) /\ Width(fields, 2) \in Nat
      /\ p3 \in Seq(Byte) /\ Len(p3) = Width(fields, 3) /\ Width(fields, 3) \in Nat
      /\ p4 \in Seq(Byte) /\ Len(p4) = Width(fields, 4) /\ Width(fields, 4) \in Nat
      /\ p5 \in Seq(Byte) /\ Len(p5) = Width(fields, 5) /\ Width(fields, 5) \in Nat
  BY PartOfField
<1> HIDE DEF p1, p2, p3, p4, p5
<1>3. Holds(p1, 0, p1)
  BY <1>2 DEF Holds
<1>4. /\ b2 \in Seq(Byte) /\ Len(b2) = Len(p1) + Len(p2)
      /\ Holds(b2, 0, p1) /\ Holds(b2, Len(p1), p2)
  BY <1>2, <1>3, AppendedLast, AppendingMovesNothing
<1> HIDE DEF b2
<1>5. /\ b3 \in Seq(Byte) /\ Len(b3) = Len(b2) + Len(p3)
      /\ Holds(b3, 0, p1) /\ Holds(b3, Len(p1), p2) /\ Holds(b3, Len(b2), p3)
  BY <1>2, <1>4, AppendedLast, AppendingMovesNothing
<1> HIDE DEF b3
<1>6. /\ b4 \in Seq(Byte) /\ Len(b4) = Len(b3) + Len(p4)
      /\ Holds(b4, 0, p1) /\ Holds(b4, Len(p1), p2) /\ Holds(b4, Len(b2), p3)
      /\ Holds(b4, Len(b3), p4)
  BY <1>2, <1>5, AppendedLast, AppendingMovesNothing
<1> HIDE DEF b4
<1>7. /\ b5 \in Seq(Byte) /\ Len(b5) = Len(b4) + Len(p5)
      /\ Holds(b5, 0, p1) /\ Holds(b5, Len(p1), p2) /\ Holds(b5, Len(b2), p3)
      /\ Holds(b5, Len(b3), p4) /\ Holds(b5, Len(b4), p5)
  BY <1>2, <1>6, AppendedLast, AppendingMovesNothing
<1> HIDE DEF b5
<1> QED
  BY <1>1, <1>2, <1>4, <1>5, <1>6, <1>7 DEF Total, p1, p2, p3, p4, p5

\* The running offset of the deserializer is where the serializer put the field.
LEMMA FieldAtItsOffset ==
    ASSUME NEW fields, NEW values, Layout(fields), Valued(fields, values),
           NEW k \in DOMAIN fields
    PROVE  Holds(Encode(fields, values), Offset(fields, k), Part(fields, values, k))
<1> DEFINE w(j) == Width(fields, j)
<1>1. Len(fields) \in Nat /\ Len(fields) <= 5 /\ DOMAIN fields = 1 .. Len(fields)
  BY LenProperties DEF Layout
<1>2. k \in 1 .. 5 /\ \A j \in 1 .. 5 : j < k => j \in DOMAIN fields
  BY <1>1
<1>3. \A j \in 1 .. 5 : w(j) \in Nat
  BY PartOfField
<1>4. \A j \in 1 .. 5 : j < k => SizeOf[fields[j].name] = w(j)
  BY <1>2 DEF Width
<1> HIDE DEF w
<1>5. Offset(fields, k) =
        (IF 1 < k THEN w(1) ELSE 0) + (IF 2 < k THEN w(2) ELSE 0)
          + (IF 3 < k THEN w(3) ELSE 0) + (IF 4 < k THEN w(4) ELSE 0)
  BY <1>2, <1>4 DEF Offset
<1>6. /\ k = 1 => Offset(fields, k) = 0
      /\ k = 2 => Offset(fields, k) = w(1)
      /\ k = 3 => Offset(fields, k) = w(1) + w(2)
      /\ k = 4 => Offset(fields, k) = w(1) + w(2) + w(3)
      /\ k = 5 => Offset(fields, k) = w(1) + w(2) + w(3) + w(4)
  BY <1>2, <1>3, <1>5
<1> QED
  BY <1>2, <1>6, PartsInOrder DEF w

\* Whatever follows in the buffer, a deserializer that knows the fields finds each value.
LEMMA EncodedIsDecoded ==
    ASSUME NEW fields, NEW values, Layout(fields), Valued(fields, values),
           NEW rest \in Seq(Byte)
    PROVE  Decode(fields, Encode(fields, values) \o rest)
               = [name \in Names(fields) |-> values[name]]
<1> DEFINE b == Encode(fields, values) \o rest
<1>1. Encode(fields, values) \in Seq(Byte)
  BY PartsInOrder
<1>2. b \in Seq(Byte)
  BY <1>1, AppendedLast
<1>3. ASSUME NEW k \in DOMAIN fields
      PROVE  CopyOut(fields, k, b) = values[fields[k].name]
  <2> DEFINE p == Store(fields[k], values[fields[k].name])
             o == Offset(fields, k)
  <2>1. fields[k] \in Field /\ values[fields[k].name] \in Int
    BY <1>3, LenProperties, ElementOfSeq DEF Layout, Names, Valued
  <2>2. /\ p \in Seq(Byte) /\ Len(p) = SizeOf[fields[k].name]
        /\ Load(fields[k], p) = values[fields[k].name]
    BY <2>1, StoredIsLoaded
  <2>3. Holds(Encode(fields, values), o, p)
    BY <1>3, FieldAtItsOffset DEF Part
  <2> HIDE DEF p, o
  <2>4. Holds(b, o, p)
    BY <1>1, <2>2, <2>3, AppendingMovesNothing
  <2> HIDE DEF b
  <2>5. o + Len(p) <= Len(b) /\ SubSeq(b, o + 1, o + Len(p)) = p
    BY <1>2, <2>2, <2>4, HeldIsCopied
  <2>6. o \in Nat /\ Len(b) \in Nat /\ Len(p) \in Nat
    BY <1>2, <2>2, <2>4, LenProperties DEF Holds
  <2>7. ~(o + Len(p) > Len(b))
    BY <2>5, <2>6
  <2>8. CopyOut(fields, k, b) = IF o + Len(p) > Len(b) THEN Garbage
                                ELSE Load(fields[k], SubSeq(b, o + 1, o + Len(p)))
    BY <2>2 DEF CopyOut, o
  <2> QED
    BY <2>2, <2>5, <2>7, <2>8
<1> HIDE DEF b
<1>4. ASSUME NEW name \in Names(fields)
      PROVE  CopyOut(fields, CHOOSE k \in DOMAIN fields : fields[k].name = name, b)
                 = values[name]
  <2> DEFINE k == CHOOSE j \in DOMAIN fields : fields[j].name = name
  <2>1. k \in DOMAIN fields /\ fields[k].name = name
    BY <1>4 DEF Names
  <2> HIDE DEF k
  <2>2. CopyOut(fields, k, b) = values[name]
    BY <1>3, <2>1
  <2> QED
    BY <2>2 DEF k
<1>5. Decode(fields, b) = [name \in Names(fields) |-> values[name]]
  BY <1>4 DEF Decode
<1> QED
  BY <1>5 DEF b

-----------------------------------------------------------------------------
(* The messages.                                                           *)

\* The fields of a message, in the order in which both of its functions name them.
LEMMA MessageLayouts ==
    \A message \in Messages : /\ Layout(message.written)
                              /\ message.read = message.written
                              /\ message.length = Total(message.written)
                              /\ message.length \in Nat \ {0}
                              /\ message.type \in Nat
<1> DEFINE Good(m) == /\ Layout(m.written) /\ m.read = m.written
                      /\ m.length = Total(m.written) /\ m.length \in Nat \ {0}
                      /\ m.type \in Nat
<1>1. Good(DataStreamSample)
  BY DEF DataStreamSample, Raw, Net, Layout, Field, Total, Width, SizeOf
<1>2. Good(HeartbeatMessage)
  BY DEF HeartbeatMessage, Raw, Net, Layout, Field, Total, Width, SizeOf
<1>3. Good(RegisterRequest)
  BY DEF RegisterRequest, Raw, Net, Layout, Field, Total, Width, SizeOf
<1>4. Good(RegisterAck)
  BY DEF RegisterAck, AckLength, Raw, Net, Layout, Field, Total, Width, SizeOf
<1>5. Good(ConsumptionReport)
  BY DEF ConsumptionReport, WrittenReport, ReadReport,
         Raw, Net, Layout, Field, Total, Width, SizeOf
<1>6. Good(ConsumptionAck)
  BY DEF ConsumptionAck, AckLength, Raw, Net, Layout, Field, Total, Width, SizeOf
<1>7. Good(RegionSync)
  BY DEF RegionSync, Raw, Net, Layout, Field, Total, Width, SizeOf
<1>8. Good(RegionSyncAck)
  BY DEF RegionSyncAck, Raw, Net, Layout, Field, Total, Width, SizeOf
<1>9. Good(ReduceConsumptionCommand)
  BY DEF ReduceConsumptionCommand, Raw, Net, Layout, Field, Total, Width, SizeOf
<1>10. Good(CommandAck)
  BY DEF CommandAck, Raw, Net, Layout, Field, Total, Width, SizeOf
<1>11. Good(TariffUpdate)
  BY DEF TariffUpdate, Raw, Net, Layout, Field, Total, Width, SizeOf
<1> HIDE DEF Good
<1>12. \A message \in Messages : Good(message)
  BY <1>1, <1>2, <1>3, <1>4, <1>5, <1>6, <1>7, <1>8, <1>9, <1>10, <1>11 DEF Messages
<1> QED
  BY <1>12 DEF Good

\* The type in the header tells which message follows: no two share a code.
LEMMA OneTypeEach ==
    ASSUME NEW m1 \in Messages, NEW m2 \in Messages, m1.type = m2.type
    PROVE  m1 = m2
<1>1. /\ DataStreamSample.type = 10 /\ HeartbeatMessage.type = 8
      /\ RegisterRequest.type = 1 /\ RegisterAck.type = 2
      /\ ConsumptionReport.type = 3 /\ ConsumptionAck.type = 4
      /\ RegionSync.type = 32 /\ RegionSyncAck.type = 33
      /\ ReduceConsumptionCommand.type = 6 /\ CommandAck.type = 7 /\ TariffUpdate.type = 5
  BY DEF DataStreamSample, HeartbeatMessage, RegisterRequest, RegisterAck, ConsumptionReport,
         ConsumptionAck, RegionSync, RegionSyncAck, ReduceConsumptionCommand, CommandAck,
         TariffUpdate
<1> QED
  BY <1>1 DEF Messages

HeaderValues(message) ==
    [version |-> 1, type |-> message.type, payload_length |-> message.length]

\* The header is four bytes, and says the type and the length, whatever follows it.
LEMMA HeaderIsDecoded ==
    ASSUME NEW message \in Messages, NEW rest \in Seq(Byte)
    PROVE  LET h == Encode(Header, HeaderValues(message))
               d == Decode(Header, h \o rest)
           IN  /\ h \in Seq(Byte) /\ Len(h) = HeaderSize
               /\ d.type = message.type /\ d.payload_length = message.length
<1> DEFINE values == HeaderValues(message)
           h == Encode(Header, values)
           d == Decode(Header, h \o rest)
<1>1. Layout(Header) /\ Total(Header) = HeaderSize
  BY DEF Header, Raw, Net, Layout, Field, Total, Width, SizeOf, HeaderSize
<1>2. Names(Header) = {"version", "type", "payload_length"}
  BY DEF Names, Header, Raw, Net
<1>3. /\ values["type"] = message.type /\ values["payload_length"] = message.length
      /\ values["version"] = 1
  BY DEF HeaderValues
<1>4. message.type \in Int /\ message.length \in Int
  BY MessageLayouts
<1> HIDE DEF values
<1>5. Valued(Header, values)
  BY <1>2, <1>3, <1>4 DEF Valued
<1>6. h \in Seq(Byte) /\ Len(h) = HeaderSize
  BY <1>1, <1>5, PartsInOrder
<1>7. d = [name \in Names(Header) |-> values[name]]
  BY <1>1, <1>5, EncodedIsDecoded
<1> HIDE DEF d
<1>8. d["type"] = message.type /\ d["payload_length"] = message.length
  BY <1>2, <1>3, <1>7
<1> QED
  BY <1>6, <1>8 DEF d, h, values

\* What a serializer writes: its header, the announced number of bytes behind it, and in
\* them the values that the deserializer returns.
THEOREM SerializedMessage ==
    ASSUME NEW message \in Messages, NEW values, Valued(message.written, values)
    PROVE  LET bytes  == Serialize(message, values)
               header == Decode(Header, bytes)
               first  == Decode(Header, SubSeq(bytes, 1, HeaderSize))
           IN  /\ bytes \in Seq(Byte)
               /\ Len(bytes) = HeaderSize + message.length
               /\ header.type = message.type /\ header.payload_length = message.length
               /\ first.type = message.type /\ first.payload_length = message.length
               /\ Deserialize(message, Payload(bytes))
                      = [name \in Names(message.written) |-> values[name]]
<1> DEFINE h == Encode(Header, HeaderValues(message))
           b == Encode(message.written, values)
           bytes == h \o b
<1>1. Serialize(message, values) = bytes
  BY DEF Serialize, HeaderValues
<1>2. /\ Layout(message.written) /\ message.read = message.written
      /\ message.length = Total(message.written) /\ message.length \in Nat
  BY MessageLayouts
<1>3. b \in Seq(Byte) /\ Len(b) = message.length
  BY <1>2, PartsInOrder
<1>4. Decode(message.written, b \o <<>>) = [name \in Names(message.written) |-> values[name]]
  <2> DEFINE nothing == <<>>
  <2>1. nothing \in Seq(Byte)
    BY EmptySeq
  <2> HIDE DEF nothing
  <2>2. Decode(message.written, b \o nothing) = [name \in Names(message.written) |-> values[name]]
    BY <1>2, <2>1, EncodedIsDecoded
  <2> QED
    BY <2>2 DEF nothing
<1> HIDE DEF b
<1>5. /\ h \in Seq(Byte) /\ Len(h) = HeaderSize
      /\ Decode(Header, bytes).type = message.type
      /\ Decode(Header, bytes).payload_length = message.length
  BY <1>3, HeaderIsDecoded
<1>6. /\ Decode(Header, h \o <<>>).type = message.type
      /\ Decode(Header, h \o <<>>).payload_length = message.length
  BY EmptySeq, HeaderIsDecoded
<1> HIDE DEF h
<1>7. /\ bytes \in Seq(Byte) /\ Len(bytes) = HeaderSize + message.length
      /\ Holds(bytes, Len(h), b)
  BY <1>3, <1>5, AppendedLast
<1>8. Holds(bytes, 0, h)
  <2>1. Holds(h, 0, h)
    BY <1>5 DEF Holds, HeaderSize
  <2> QED
    BY <1>3, <1>5, <2>1, AppendingMovesNothing
<1> HIDE DEF bytes
<1>9. SubSeq(bytes, 1, HeaderSize) = h /\ h \o <<>> = h
  <2>1. SubSeq(bytes, 0 + 1, 0 + HeaderSize) = h
    BY <1>5, <1>7, <1>8, HeldIsCopied
  <2> QED
    BY <1>5, <2>1, ConcatEmptySeq DEF HeaderSize
<1>10. Payload(bytes) = b /\ b \o <<>> = b
  <2>1. Len(h) + Len(b) = Len(bytes)
    BY <1>3, <1>5, <1>7
  <2>2. SubSeq(bytes, Len(h) + 1, Len(h) + Len(b)) = b
    BY <1>3, <1>7, HeldIsCopied
  <2>3. SubSeq(bytes, HeaderSize + 1, Len(bytes)) = b
    BY <1>5, <2>1, <2>2
  <2> QED
    BY <1>3, <2>3, ConcatEmptySeq DEF Payload
<1>11. Deserialize(message, Payload(bytes))
          = [name \in Names(message.written) |-> values[name]]
  BY <1>2, <1>4, <1>10 DEF Deserialize
<1> QED
  BY <1>1, <1>5, <1>6, <1>7, <1>9, <1>11 DEF bytes

\* The sample of a message gives each of its fields a number.
LEMMA SampleValues ==
    ASSUME NEW message \in Messages
    PROVE  /\ Valued(message.written, Sample(message))
           /\ Sample(message) = [name \in Names(message.written) |-> Sample(message)[name]]
<1>1. DOMAIN message.written = 1 .. Len(message.written) /\ Len(message.written) \in Nat
  BY MessageLayouts, LenProperties DEF Layout
<1>2. ASSUME NEW name \in Names(message.written)
      PROVE  Sample(message)[name] \in Int
  <2> DEFINE k == CHOOSE j \in DOMAIN message.written : message.written[j].name = name
  <2>1. k \in DOMAIN message.written
    BY <1>2 DEF Names
  <2>2. Sample(message)[name] = k
    BY <1>2 DEF Sample
  <2> HIDE DEF k
  <2> QED
    BY <1>1, <2>1, <2>2
<1>3. Sample(message) = [name \in Names(message.written) |-> Sample(message)[name]]
  BY DEF Sample
<1> QED
  BY <1>2, <1>3 DEF Valued

\* For every message of the header: the deserializer returns what the serializer was given.
THEOREM EveryMessageSurvives == RoundTrip
<1>1. ASSUME NEW message \in Messages
      PROVE  Deserialize(message, Payload(Wire(message))) = Sample(message)
  <2> DEFINE bytes == Serialize(message, Sample(message))
  <2>1. Deserialize(message, Payload(bytes))
            = [name \in Names(message.written) |-> Sample(message)[name]]
    BY SampleValues, SerializedMessage
  <2> QED
    BY <2>1, SampleValues DEF Wire
<1> QED
  BY <1>1 DEF RoundTrip

\* For every message of the header: it is as long as it announces, and its type is its own.
THEOREM EveryMessageDelimitsItself == SelfDelimiting
<1>1. ASSUME NEW message \in Messages
      PROVE  LET header == Decode(Header, Wire(message)) IN
             /\ HeaderSize + header.payload_length = Len(Wire(message))
             /\ {other \in Messages : other.type = header.type} = {message}
  <2> DEFINE header == Decode(Header, Wire(message))
  <2>1. /\ Len(Wire(message)) = HeaderSize + message.length
        /\ header.type = message.type /\ header.payload_length = message.length
    BY SampleValues, SerializedMessage DEF Wire
  <2> HIDE DEF header
  <2>2. {other \in Messages : other.type = header.type} = {message}
    BY <2>1, OneTypeEach
  <2> QED
    BY <2>1, <2>2 DEF header
<1> QED
  BY <1>1 DEF SelfDelimiting

=============================================================================
