--------------------------- MODULE BasicPairProofs ---------------------------
(***************************************************************************)
(* Proofs about the basic pair, for every number of clients and every way   *)
(* in which TCP cuts the streams.  A client and the server it talks to hold *)
(* at most one message between them, so an unread stream is empty, a whole  *)
(* message, or a payload whose header was read (Unread).  The inductive     *)
(* invariant PairInv says for every client what each side finds before it   *)
(* (ClientView, ServerView) and which of the two has the turn (Together).   *)
(***************************************************************************)
EXTENDS BasicPair, WireFormatProofs

-----------------------------------------------------------------------------
(* Sequences.                                                              *)

\* The first n elements are taken from a sequence with more behind it: they are the
\* first n of the whole, and what is left is the rest of the whole.
LEMMA ConcatenationDropsFirst ==
    ASSUME NEW S, NEW a \in Seq(S), NEW f \in Seq(S), NEW n \in 0 .. Len(a)
    PROVE  /\ SubSeq(a, n + 1, Len(a)) \in Seq(S)
           /\ SubSeq(a, 1, n) = SubSeq(a \o f, 1, n)
           /\ SubSeq(a, n + 1, Len(a)) \o f = SubSeq(a \o f, n + 1, Len(a \o f))
<1> DEFINE b == a \o f
           r == SubSeq(a, n + 1, Len(a))
           t == SubSeq(b, n + 1, Len(b))
<1>1. Len(a) \in Nat /\ Len(f) \in Nat
  BY LenProperties
<1>2. /\ b \in Seq(S) /\ Len(b) = Len(a) + Len(f)
      /\ \A i \in 1 .. Len(a) + Len(f) : b[i] = IF i <= Len(a) THEN a[i] ELSE f[i - Len(a)]
  BY ConcatProperties
<1> HIDE DEF b
<1>3. /\ r \in Seq(S) /\ Len(r) = Len(a) - n
      /\ \A i \in 1 .. Len(a) - n : r[i] = a[n + i]
  <2>1. n + 1 \in 1 .. Len(a) + 1 /\ Len(a) \in n + 1 - 1 .. Len(a)
    BY <1>1
  <2>2. /\ r \in Seq(S) /\ Len(r) = Len(a) - (n + 1) + 1
        /\ \A i \in 1 .. Len(a) - (n + 1) + 1 : r[i] = a[n + 1 + i - 1]
    BY <2>1, PartOfSequence
  <2> HIDE DEF r
  <2> QED
    BY <1>1, <2>2
<1>4. /\ t \in Seq(S) /\ Len(t) = Len(b) - n
      /\ \A i \in 1 .. Len(b) - n : t[i] = b[n + i]
  <2>1. n + 1 \in 1 .. Len(b) + 1 /\ Len(b) \in n + 1 - 1 .. Len(b)
    BY <1>1, <1>2
  <2>2. /\ t \in Seq(S) /\ Len(t) = Len(b) - (n + 1) + 1
        /\ \A i \in 1 .. Len(b) - (n + 1) + 1 : t[i] = b[n + 1 + i - 1]
    BY <1>2, <2>1, PartOfSequence
  <2> HIDE DEF t
  <2> QED
    BY <1>1, <1>2, <2>2
<1> HIDE DEF r, t
<1>5. /\ r \o f \in Seq(S) /\ Len(r \o f) = Len(r) + Len(f)
      /\ \A i \in 1 .. Len(r) + Len(f) :
            (r \o f)[i] = IF i <= Len(r) THEN r[i] ELSE f[i - Len(r)]
  BY <1>3, ConcatProperties
<1>6. Len(r \o f) = Len(t)
  BY <1>1, <1>2, <1>3, <1>4, <1>5
<1>7. ASSUME NEW i \in 1 .. Len(r \o f) PROVE (r \o f)[i] = t[i]
  <2>1. i \in 1 .. Len(r) + Len(f) /\ i \in 1 .. Len(b) - n /\ n + i \in 1 .. Len(a) + Len(f)
    BY <1>1, <1>2, <1>3, <1>5
  <2>2. t[i] = b[n + i]
    BY <1>4, <2>1
  <2>3. CASE i <= Len(r)
    <3>1. i \in 1 .. Len(a) - n /\ n + i <= Len(a)
      BY <1>1, <1>3, <2>1, <2>3
    <3> QED
      BY <1>2, <1>3, <1>5, <2>1, <2>2, <2>3, <3>1
  <2>4. CASE ~(i <= Len(r))
    <3>1. ~(n + i <= Len(a)) /\ i - Len(r) = n + i - Len(a)
      BY <1>1, <1>3, <2>1, <2>4
    <3> QED
      BY <1>2, <1>5, <2>1, <2>2, <2>4, <3>1
  <2> QED
    BY <2>3, <2>4
<1>8. r \o f = t
  BY <1>4, <1>5, <1>6, <1>7, SeqEqual
<1>9. SubSeq(a, 1, n) = SubSeq(b, 1, n)
  <2>1. CASE n = 0
    BY <2>1, SubSeqEmpty
  <2>2. CASE n # 0
    <3>1. 1 \in 1 .. Len(a) /\ n \in 1 .. Len(a)
      BY <1>1, <2>2
    <3> QED
      BY <3>1, SubSeqOfConcat1 DEF b
  <2> QED
    BY <2>1, <2>2
<1> QED
  BY <1>3, <1>8, <1>9 DEF b, r, t

-----------------------------------------------------------------------------
(* Streams: only the bytes under way and arrived together matter.          *)

All(s) == s.arrived \o s.flight

Streams == [flight : Seq(Byte), arrived : Seq(Byte)]

Stream(f, a) == [flight |-> f, arrived |-> a]

\* The two fields of a stream.
LEMMA StreamParts ==
    /\ \A f, a : Stream(f, a).flight = f /\ Stream(f, a).arrived = a
    /\ \A f, a \in Seq(Byte) : Stream(f, a) \in Streams
BY DEF Stream, Streams

\* A stream that loses or gains bytes, field by field.
LEMMA StreamUpdates ==
    ASSUME NEW s \in Streams, NEW x
    PROVE  /\ s = Stream(s.flight, s.arrived)
           /\ [s EXCEPT !.flight = x] = Stream(x, s.arrived)
           /\ [s EXCEPT !.arrived = x] = Stream(s.flight, x)
BY DEF Streams, Stream

\* The bytes of a stream are those that arrived and those under way.
LEMMA AllIsSequence ==
    ASSUME NEW s \in Streams
    PROVE  /\ s.arrived \in Seq(Byte) /\ s.flight \in Seq(Byte)
           /\ All(s) \in Seq(Byte)
           /\ Len(All(s)) = Len(s.arrived) + Len(s.flight)
           /\ Len(s.arrived) \in Nat /\ Len(s.flight) \in Nat
<1>1. s.arrived \in Seq(Byte) /\ s.flight \in Seq(Byte)
  BY DEF Streams
<1> QED
  BY <1>1, ConcatProperties, LenProperties DEF All

\* TCP delivers without loss, doubling or reordering: Filled keeps the bytes.
LEMMA DeliveryKeepsBytes ==
    ASSUME NEW s \in Streams, NEW n \in Nat
    PROVE  Filled(s, n) \in Streams /\ All(Filled(s, n)) = All(s)
<1> DEFINE b == All(s)
           m == IF n < Len(b) THEN n ELSE Len(b)
<1>1. b \in Seq(Byte) /\ Len(b) \in Nat
  BY AllIsSequence, LenProperties
<1>2. Filled(s, n) = Stream(SubSeq(b, n + 1, Len(b)), SubSeq(b, 1, m))
  BY DEF Filled, All, Stream
<1> HIDE DEF b
<1>3. m \in 0 .. Len(b)
  BY <1>1
<1>4. SubSeq(b, n + 1, Len(b)) = SubSeq(b, m + 1, Len(b))
  <2>1. CASE n < Len(b)
    BY <2>1
  <2>2. CASE ~(n < Len(b))
    <3>1. m = Len(b) /\ Len(b) < n + 1 /\ Len(b) < m + 1
      BY <1>1, <2>2
    <3> HIDE DEF m
    <3> QED
      BY <1>1, <3>1, SubSeqEmpty
  <2> QED
    BY <2>1, <2>2
<1> HIDE DEF m
<1>5. SubSeq(b, 1, m) \in Seq(Byte) /\ SubSeq(b, m + 1, Len(b)) \in Seq(Byte)
  BY <1>1, <1>3, PartOfSequence
<1>6. SubSeq(b, 1, m) \o SubSeq(b, m + 1, Len(b)) = b
  <2>1. 1 \in 1 .. Len(b) + 1 /\ m \in 1 - 1 .. Len(b) /\ Len(b) \in m .. Len(b)
    BY <1>1, <1>3
  <2>2. SubSeq(b, 1, m) \o SubSeq(b, m + 1, Len(b)) = SubSeq(b, 1, Len(b))
    BY <1>1, <2>1, ConcatAdjacentSubSeq
  <2> QED
    BY <1>1, <2>2, SubSeqFull
<1>7. Filled(s, n) \in Streams /\ All(Filled(s, n)) = b
  <2>1. Filled(s, n) = Stream(SubSeq(b, m + 1, Len(b)), SubSeq(b, 1, m))
    BY <1>2, <1>4
  <2> QED
    BY <1>5, <1>6, <2>1, StreamParts DEF All
<1> QED
  BY <1>7 DEF b

\* n bytes are read: they are the first n, and the others stay.
LEMMA ReadTakesTheFirst ==
    ASSUME NEW s \in Streams, NEW n \in Nat, Readable(s, n)
    PROVE  /\ Taken(s, n) = SubSeq(All(s), 1, n)
           /\ After(s, n) \in Streams
           /\ All(After(s, n)) = SubSeq(All(s), n + 1, Len(All(s)))
           /\ n <= Len(All(s))
<1>1. /\ s.arrived \in Seq(Byte) /\ s.flight \in Seq(Byte)
      /\ Len(s.arrived) \in Nat /\ Len(s.flight) \in Nat
      /\ Len(All(s)) = Len(s.arrived) + Len(s.flight)
  BY AllIsSequence
<1>2. n \in 0 .. Len(s.arrived)
  BY <1>1 DEF Readable
<1>3. After(s, n) = Stream(s.flight, SubSeq(s.arrived, n + 1, Len(s.arrived)))
  BY StreamUpdates DEF After
<1>4. /\ SubSeq(s.arrived, n + 1, Len(s.arrived)) \in Seq(Byte)
      /\ SubSeq(s.arrived, 1, n) = SubSeq(All(s), 1, n)
      /\ SubSeq(s.arrived, n + 1, Len(s.arrived)) \o s.flight
            = SubSeq(All(s), n + 1, Len(All(s)))
  BY <1>1, <1>2, ConcatenationDropsFirst DEF All
<1>5. All(After(s, n)) = SubSeq(s.arrived, n + 1, Len(s.arrived)) \o s.flight
  BY <1>3, StreamParts DEF All
<1>6. After(s, n) \in Streams
  BY <1>1, <1>3, <1>4, StreamParts
<1>7. Taken(s, n) = SubSeq(s.arrived, 1, n)
  BY DEF Taken
<1>8. n <= Len(All(s))
  <2> DEFINE a == Len(s.arrived)
             f == Len(s.flight)
  <2>1. Len(All(s)) = a + f /\ a \in Nat /\ f \in Nat /\ a >= n
    BY <1>1 DEF Readable
  <2> HIDE DEF a, f
  <2> QED
    BY <2>1
<1> QED
  BY <1>4, <1>5, <1>6, <1>7, <1>8

\* What is written to an empty stream is all there is in it.
LEMMA WriteAppends ==
    ASSUME NEW s \in Streams, NEW bytes \in Seq(Byte)
    PROVE  /\ Written(s, bytes) \in Streams
           /\ All(s) = <<>> => All(Written(s, bytes)) = bytes
<1>1. Written(s, bytes) = Stream(s.flight \o bytes, s.arrived)
  BY StreamUpdates DEF Written
<1>2. s.arrived \in Seq(Byte) /\ s.flight \in Seq(Byte)
  BY AllIsSequence
<1>3. s.flight \o bytes \in Seq(Byte)
  BY <1>2, ConcatProperties
<1>4. ASSUME All(s) = <<>> PROVE All(Written(s, bytes)) = bytes
  <2>1. s.arrived = <<>> /\ s.flight = <<>>
    BY <1>2, <1>4, ConcatEqualIffEmpty DEF All
  <2>2. /\ Written(s, bytes).arrived = <<>>
        /\ Written(s, bytes).flight = <<>> \o bytes
    BY <1>1, <2>1, StreamParts
  <2> QED
    BY <2>2, ConcatEmptySeq DEF All
<1>5. Written(s, bytes) \in Streams
  BY <1>1, <1>2, <1>3, StreamParts
<1> QED
  BY <1>4, <1>5

\* A reader whose peer has gone throws only when bytes are missing.
LEMMA StarvedLacksBytes ==
    ASSUME NEW s \in Streams, NEW n \in Nat, Starved(s, n)
    PROVE  Len(All(s)) < n
<1>1. s.flight = <<>> /\ ~(Len(s.arrived) >= n)
  BY DEF Starved, Readable
<1>2. Len(s.flight) = 0
  BY <1>1, EmptySeq
<1>3. Len(All(s)) = Len(s.arrived) + Len(s.flight) /\ Len(s.arrived) \in Nat
  BY AllIsSequence
<1> QED
  BY <1>1, <1>2, <1>3

\* The stream of a fresh connection, or of a peer that has gone.
LEMMA SilentIsEmpty ==
    /\ Silent \in Streams /\ All(Silent) = <<>>
    /\ \A s \in Streams : All(s) = <<>> => s = Silent
<1>1. <<>> \in Seq(Byte) /\ <<>> \o <<>> = <<>>
  BY EmptySeq, ConcatEmptySeq
<1>2. Silent = Stream(<<>>, <<>>)
  BY DEF Silent, Stream
<1>4. Silent \in Streams /\ All(Silent) = <<>>
  BY <1>1, <1>2, StreamParts DEF All
<1>3. ASSUME NEW s \in Streams, All(s) = <<>> PROVE s = Silent
  <2>1. s.arrived = <<>> /\ s.flight = <<>>
    BY <1>3, AllIsSequence, ConcatEqualIffEmpty DEF All
  <2> QED
    BY <1>2, <2>1, StreamUpdates
<1> QED
  BY <1>3, <1>4
-----------------------------------------------------------------------------
(* Messages: what is left of one that is being read.                       *)

HeaderOf(message) == [type |-> message.type, payload_length |-> message.length]

\* A reader whose header is h has all of a message before it, or its payload.
Unread(h, b, bytes, message) ==
    \/ h = NoHeader /\ b = bytes
    \/ h = HeaderOf(message) /\ b = Payload(bytes)

\* It has nothing before it: the message was taken from it, or never came.
Nothing(h, b)       == h = NoHeader /\ b = <<>>
Lost(h, b, message) == h \in {NoHeader, HeaderOf(message)} /\ b = <<>>

\* What Serialize writes is a message of its type.
LEMMA SerializedIsFramed ==
    ASSUME NEW message \in Messages, NEW values, Valued(message.written, values)
    PROVE  Framed(Serialize(message, values), message)
BY SerializedMessage, MessageLayouts DEF Framed

\* The bytes of the whole conversation are messages, and are read for what they are.
THEOREM ConversationIsFramed == Formats
<1>1. /\ RegisterRequest \in Messages /\ RegisterAck \in Messages
      /\ ConsumptionReport \in Messages /\ ConsumptionAck \in Messages
  BY DEF Messages
<1>2. /\ Names(RegisterRequest.written) = {"device_uri", "region_id", "user_type"}
      /\ Names(RegisterAck.written) = {"status"} /\ Names(ConsumptionAck.written) = {"status"}
      /\ Names(ConsumptionReport.written)
           = {"device_uri", "timestamp", "consumption_kwh", "current_power_kw"}
  BY DEF Names, RegisterRequest, RegisterAck, ConsumptionAck, ConsumptionReport,
         WrittenReport, Raw, Net
<1>3. /\ Framed(RequestBytes, RegisterRequest)
      /\ RegisterRequest.length <= ConsumptionReport.length
  <2>1. Valued(RegisterRequest.written, [device_uri |-> 0, region_id |-> 1, user_type |-> 1])
    BY <1>2 DEF Valued
  <2>2. RegisterRequest.length <= ConsumptionReport.length
    BY DEF RegisterRequest, ConsumptionReport, SizeOf
  <2> QED
    BY <1>1, <2>1, <2>2, SerializedIsFramed DEF RequestBytes
<1>4. /\ Framed(RegisterAckBytes, RegisterAck) /\ Framed(ConsumptionAckBytes, ConsumptionAck)
      /\ Deserialize(RegisterAck, Payload(RegisterAckBytes)).status = 1
  <2> DEFINE values == [status |-> 1]
  <2>1. /\ Valued(RegisterAck.written, values) /\ Valued(ConsumptionAck.written, values)
    BY <1>2 DEF Valued
  <2>2. Deserialize(RegisterAck, Payload(RegisterAckBytes))
          = [name \in Names(RegisterAck.written) |-> values[name]]
    BY <1>1, <2>1, SerializedMessage DEF RegisterAckBytes
  <2>3. Deserialize(RegisterAck, Payload(RegisterAckBytes))["status"] = 1
    BY <1>2, <2>2
  <2> QED
    BY <1>1, <2>1, <2>3, SerializedIsFramed DEF RegisterAckBytes, ConsumptionAckBytes
<1>5. ASSUME NEW i \in DOMAIN ReportBytes
      PROVE  /\ Framed(ReportBytes[i], ConsumptionReport)
             /\ Deserialize(ConsumptionReport, Payload(ReportBytes[i])) = ReportOf(i)
  <2>1. i \in Int /\ ReportBytes[i] = Serialize(ConsumptionReport, ReportOf(i))
    BY DEF ReportBytes, ClientReports
  <2>2. Valued(ConsumptionReport.written, ReportOf(i))
    BY <1>2, <2>1 DEF Valued, ReportOf
  <2>3. Deserialize(ConsumptionReport, Payload(ReportBytes[i]))
          = [name \in Names(ConsumptionReport.written) |-> ReportOf(i)[name]]
    BY <1>1, <2>1, <2>2, SerializedMessage
  <2>4. ReportOf(i) = [name \in Names(ConsumptionReport.written) |-> ReportOf(i)[name]]
    BY <1>2 DEF ReportOf
  <2> QED
    BY <1>1, <2>1, <2>2, <2>3, <2>4, SerializedIsFramed
<1> QED
  BY <1>3, <1>4, <1>5 DEF Formats

\* The programs are compiled with formats that survive: what any serializer writes, the
\* deserializer of the same type reads back, in every state of the pair.
THEOREM CompiledFormatsSurvive == Spec => []MessagesSurvive
<1>1. MessagesSurvive
  BY EveryMessageSurvives DEF MessagesSurvive
<1> QED
  BY <1>1, PTL

\* and delimit themselves: no reader takes a byte of the next message or leaves one behind.
THEOREM CompiledFormatsDelimit == Spec => []MessagesDelimited
<1>1. MessagesDelimited
  BY EveryMessageDelimitsItself, ConversationIsFramed DEF MessagesDelimited
<1> QED
  BY <1>1, PTL

\* A message is its four header bytes and at least one byte of payload.
LEMMA FramedParts ==
    ASSUME NEW bytes, NEW message, Framed(bytes, message)
    PROVE  /\ bytes \in Seq(Byte) /\ bytes # <<>>
           /\ Payload(bytes) \in Seq(Byte) /\ Payload(bytes) # <<>>
           /\ Len(Payload(bytes)) = message.length /\ message.length \in Nat \ {0}
           /\ Len(bytes) = HeaderSize + message.length
<1>1. /\ bytes \in Seq(Byte) /\ message.length \in Nat \ {0}
      /\ Len(bytes) = HeaderSize + message.length
  BY DEF Framed
<1>2. Len(bytes) # 0 /\ Len(bytes) \in Nat
  BY <1>1 DEF HeaderSize
<1>3. HeaderSize + 1 \in 1 .. Len(bytes) + 1 /\ Len(bytes) \in HeaderSize + 1 - 1 .. Len(bytes)
  BY <1>1 DEF HeaderSize
<1>4. /\ Payload(bytes) \in Seq(Byte)
      /\ Len(Payload(bytes)) = Len(bytes) - (HeaderSize + 1) + 1
  BY <1>1, <1>3, PartOfSequence DEF Payload
<1>5. Len(Payload(bytes)) = message.length
  BY <1>1, <1>4 DEF HeaderSize
<1> QED
  BY <1>1, <1>2, <1>4, <1>5, EmptySeq

\* A reader that finds a header finds this message's, and then has its payload before it.
LEMMA HeaderRead ==
    ASSUME NEW bytes, NEW message, Framed(bytes, message), NEW s \in Streams, NEW h,
           Unread(h, All(s), bytes, message) \/ Lost(h, All(s), message),
           h = NoHeader, HeaderOf(message) # NoHeader, Readable(s, HeaderSize)
    PROVE  /\ All(s) = bytes
           /\ HeaderIn(s) = HeaderOf(message)
           /\ After(s, HeaderSize) \in Streams
           /\ All(After(s, HeaderSize)) = Payload(bytes)
<1>1. /\ Taken(s, HeaderSize) = SubSeq(All(s), 1, HeaderSize)
      /\ After(s, HeaderSize) \in Streams
      /\ All(After(s, HeaderSize)) = SubSeq(All(s), HeaderSize + 1, Len(All(s)))
      /\ HeaderSize <= Len(All(s))
  BY ReadTakesTheFirst DEF HeaderSize
<1>2. All(s) = bytes
  <2>1. All(s) # <<>>
    BY <1>1, EmptySeq DEF HeaderSize
  <2> QED
    BY <2>1 DEF Unread, Lost
<1>3. HeaderIn(s) = HeaderOf(message)
  <2> DEFINE d == Decode(Header, SubSeq(bytes, 1, HeaderSize))
  <2>1. HeaderIn(s) = [type |-> d.type, payload_length |-> d.payload_length]
    BY <1>1, <1>2 DEF HeaderIn
  <2>2. d.type = message.type /\ d.payload_length = message.length
    BY DEF Framed
  <2> QED
    BY <2>1, <2>2 DEF HeaderOf
<1> QED
  BY <1>1, <1>2, <1>3 DEF Payload

\* A reader that finds a payload finds this message's, and nothing behind it.
LEMMA PayloadRead ==
    ASSUME NEW bytes, NEW message, Framed(bytes, message), NEW s \in Streams, NEW h,
           Unread(h, All(s), bytes, message) \/ Lost(h, All(s), message),
           h # NoHeader, Readable(s, h.payload_length)
    PROVE  /\ h = HeaderOf(message) /\ h.type = message.type
           /\ Taken(s, h.payload_length) = Payload(bytes)
           /\ All(s) = Payload(bytes)
           /\ After(s, h.payload_length) \in Streams
           /\ All(After(s, h.payload_length)) = <<>>
<1> DEFINE n == message.length
<1>1. h = HeaderOf(message) /\ h.type = message.type /\ h.payload_length = n
  BY DEF Unread, Lost, HeaderOf
<1>2. /\ Payload(bytes) \in Seq(Byte) /\ Len(Payload(bytes)) = n /\ n \in Nat \ {0}
  BY FramedParts
<1> HIDE DEF n
<1>3. /\ Taken(s, n) = SubSeq(All(s), 1, n)
      /\ After(s, n) \in Streams
      /\ All(After(s, n)) = SubSeq(All(s), n + 1, Len(All(s)))
      /\ n <= Len(All(s))
  BY <1>1, <1>2, ReadTakesTheFirst
<1>4. All(s) = Payload(bytes)
  <2>1. All(s) # <<>>
    BY <1>2, <1>3, EmptySeq
  <2> QED
    BY <1>1, <2>1 DEF Unread, Lost
<1>5. SubSeq(Payload(bytes), 1, n) = Payload(bytes)
  BY <1>2, SubSeqFull
<1>6. SubSeq(Payload(bytes), n + 1, n) = <<>>
  BY <1>2, SubSeqEmpty
<1> QED
  BY <1>1, <1>2, <1>3, <1>4, <1>5, <1>6

\* A reader is not starved of a message that is on its way.
LEMMA UnreadIsReadable ==
    ASSUME NEW bytes, NEW message, Framed(bytes, message), NEW s \in Streams, NEW p,
           Unread(p.header, All(s), bytes, message), HeaderOf(message) # NoHeader
    PROVE  ~Starved(s, Wanted(p))
<1>1. /\ message.length \in Nat \ {0} /\ Len(Payload(bytes)) = message.length
      /\ Len(bytes) = HeaderSize + message.length
  BY FramedParts
<1>2. CASE p.header = NoHeader
  <2>1. Wanted(p) = HeaderSize /\ All(s) = bytes
    BY <1>2 DEF Wanted, AtHeader, Unread
  <2> QED
    BY <1>1, <2>1, StarvedLacksBytes DEF HeaderSize
<1>3. CASE p.header # NoHeader
  <2>1. Wanted(p) = message.length /\ All(s) = Payload(bytes)
    BY <1>3 DEF Wanted, AtHeader, Unread, HeaderOf
  <2> QED
    BY <1>1, <2>1, StarvedLacksBytes
<1> QED
  BY <1>2, <1>3

\* No message of the conversation has the type by which NoHeader is known.
LEMMA MessageHeaders ==
    /\ HeaderOf(RegisterRequest) # NoHeader /\ HeaderOf(RegisterAck) # NoHeader
    /\ HeaderOf(ConsumptionReport) # NoHeader /\ HeaderOf(ConsumptionAck) # NoHeader
<1>1. /\ RegisterRequest.type # 0 /\ RegisterAck.type # 0
      /\ ConsumptionReport.type # 0 /\ ConsumptionAck.type # 0
  BY DEF RegisterRequest, RegisterAck, ConsumptionReport, ConsumptionAck
<1> QED
  BY <1>1 DEF HeaderOf, NoHeader

-----------------------------------------------------------------------------
(* The conversation, for one client: k is the client, u and d are the bytes *)
(* from and to it, v is the server, x says whether its connection was cut.  *)

Alive(k) == k.stage \notin Ended

\* What a client finds before it.
ClientView(k, d) ==
    /\ k.stage \notin {"registering", "reporting"} => Nothing(k.header, d)
    /\ k.stage = "registering" => \/ Unread(k.header, d, RegisterAckBytes, RegisterAck)
                                  \/ Lost(k.header, d, RegisterAck)
    /\ k.stage = "reporting" => \/ Unread(k.header, d, ConsumptionAckBytes, ConsumptionAck)
                                \/ Lost(k.header, d, ConsumptionAck)
    /\ k.stage \in {"connected", "registering"} => k.i = 0

\* What the server finds of its client, dead or alive.
ServerView(v, u) ==
    /\ v.stage = "request" =>
          /\ v.i = 0
          /\ \/ Unread(v.header, u, RequestBytes, RegisterRequest)
             \/ Lost(v.header, u, RegisterRequest)
    /\ v.stage = "report" =>
          \/ Unread(v.header, u, ReportBytes[v.i], ConsumptionReport)
          \/ Lost(v.header, u, ConsumptionReport)

\* Both are there: one message is between them, or one of them is about to write.
Requested(v, k, u, d) ==
    /\ v.stage = "request" /\ Unread(v.header, u, RequestBytes, RegisterRequest)
    /\ Nothing(k.header, d)
Accepted(v, k, u, d) ==
    /\ v.stage = "report" /\ v.i = 0 /\ Nothing(v.header, u)
    /\ Unread(k.header, d, RegisterAckBytes, RegisterAck)
Reported(v, k, u, d) ==
    /\ v.stage = "report" /\ v.i = k.i
    /\ Unread(v.header, u, ReportBytes[k.i], ConsumptionReport)
    /\ Nothing(k.header, d)
Acknowledged(v, k, u, d) ==
    /\ v.stage = "report" /\ v.i = k.i + 1 /\ Nothing(v.header, u)
    /\ Unread(k.header, d, ConsumptionAckBytes, ConsumptionAck)

Together(v, k, u, d) ==
    /\ k.stage = "connected"   => v.stage = "request" /\ Nothing(v.header, u)
    /\ k.stage = "registering" => Requested(v, k, u, d) \/ Accepted(v, k, u, d)
    /\ k.stage = "registered"  => v.stage = "report" /\ v.i = k.i /\ Nothing(v.header, u)
    /\ k.stage = "reporting"   => Reported(v, k, u, d) \/ Acknowledged(v, k, u, d)
    /\ k.stage = "sleeping"    => v.stage = "report" /\ v.i = k.i + 1 /\ Nothing(v.header, u)

\* In the backlog a client has written its request, at most.
Queued(k, u, d) ==
    /\ k.stage \in Ended \cup {"connected", "registering"}
    /\ k.stage = "connected" => u = <<>>
    /\ k.stage = "registering" => u = RequestBytes /\ Nothing(k.header, d)
    /\ k.stage \in Ended => u \in {<<>>, RequestBytes}

\* The server has let go of a client: it was cut, or has all its answers.
Away(k, u, d, x) ==
    /\ u = <<>>
    /\ Alive(k) /\ ~x =>
          /\ k.i + 1 = ClientReports
          /\ \/ k.stage = "sleeping"
             \/ /\ k.stage = "reporting"
                /\ Unread(k.header, d, ConsumptionAckBytes, ConsumptionAck)

\* The acknowledgement of report i is there, or was taken.
HasAck(k, d) == k.stage = "sleeping" \/ (k.stage = "reporting" /\ d # <<>>)

Sees(c, place, v, k, u, d, x) ==
    /\ ClientView(k, d)
    /\ k.stage = "failed" => x
    /\ v.peer = c /\ HasAck(k, d) => Len(v.printed) = k.i + 1
    /\ place = "served" => v.peer = c /\ ServerView(v, u) /\ (Alive(k) => Together(v, k, u, d))
    /\ place = "queued" => Queued(k, u, d)
    /\ place = "away" => Away(k, u, d, x)

Place(c) ==
    IF Serving /\ server.peer = c THEN "served"
    ELSE IF c \in Waiting THEN "queued" ELSE "away"

View(c) ==
    Sees(c, Place(c), server, client[c], All(up[c]), All(down[c]), cut[c])

Headers ==
    {NoHeader, HeaderOf(RegisterRequest), HeaderOf(RegisterAck),
     HeaderOf(ConsumptionReport), HeaderOf(ConsumptionAck)}

Reports == {ReportOf(i) : i \in 0 .. ClientReports - 1}

Servers ==
    [stage : {"off", "accepting", "request", "report"}, peer : Clients \cup {Nobody},
     i : 0 .. ServerReports - 1, header : Headers, printed : Seq(Reports)]

Processes ==
    [stage : Ended \cup {"connected", "registering", "registered", "reporting", "sleeping"},
     i : 0 .. ClientReports - 1, header : Headers]

PairTypes ==
    /\ server \in Servers
    /\ backlog \in Seq(Clients)
    /\ client \in [Clients -> Processes]
    /\ up \in [Clients -> Streams]
    /\ down \in [Clients -> Streams]
    /\ cut \in [Clients -> BOOLEAN]

\* A process that serves nobody is as it started, or as it ended.
ServerInv ==
    /\ server.stage = "off" => backlog = <<>> /\ server.header = NoHeader
    /\ server.stage = "accepting" => server = Starting
    /\ Serving => server.peer \in Clients /\ Len(server.printed) = server.i
    /\ ReportsIntact

\* A client is in the backlog once, and not while it is served.
BacklogInv ==
    /\ \A i, j \in 1 .. Len(backlog) : backlog[i] = backlog[j] => i = j
    /\ Serving => server.peer \notin Waiting

PairInv == PairTypes /\ ServerInv /\ BacklogInv /\ \A c \in Clients : View(c)
-----------------------------------------------------------------------------
(* What the steps of a client do to the conversation.                      *)

\* The client registers (SendRequest): if anyone is there, the request is all they find.
LEMMA ClientRequests ==
    ASSUME NEW c, NEW place \in {"served", "queued", "away"},
           NEW v \in Servers, NEW k \in Processes, NEW u, NEW d, NEW x \in BOOLEAN,
           Sees(c, place, v, k, u, d, x), k.stage = "connected",
           NEW k2, k2.stage = "registering", k2.i = k.i, k2.header = k.header
    PROVE  /\ place # "away" =>
                 /\ u = <<>>
                 /\ Sees(c, place, v, k2, RequestBytes, d, x)
           /\ place = "away" =>
                 Sees(c, place, v, k2, u, d, x)
<1>1. k2.stage = "registering" /\ k2.i = k.i /\ k2.header = k.header
  OBVIOUS
<1>2. ClientView(k2, d) /\ ~HasAck(k2, d) /\ Nothing(k.header, d) /\ Nothing(k2.header, d)
  BY <1>1 DEF Sees, ClientView, Lost, Nothing, HasAck
<1>3. ASSUME place = "away" PROVE Sees(c, place, v, k2, u, d, x)
  BY <1>1, <1>2, <1>3 DEF Sees, Away, Alive, Ended
<1>4. ASSUME place = "queued" PROVE u = <<>> /\ Sees(c, place, v, k2, RequestBytes, d, x)
  BY <1>1, <1>2, <1>4 DEF Sees, Queued, Ended
<1>5. ASSUME place = "served" PROVE u = <<>> /\ Sees(c, place, v, k2, RequestBytes, d, x)
  BY <1>1, <1>2, <1>5 DEF Sees, ServerView, Together, Requested, Nothing, Unread, Alive, Ended
<1> QED
  BY <1>3, <1>4, <1>5

\* The client reads the header of an acknowledgement: its payload is left.
LEMMA ClientReadsHeader ==
    ASSUME NEW c, NEW place \in {"served", "queued", "away"},
           NEW v \in Servers, NEW k \in Processes, NEW u, NEW d, NEW x \in BOOLEAN,
           NEW bytes, NEW message,
           Sees(c, place, v, k, u, d, x), k.header = NoHeader, d = bytes,
           bytes # <<>>, Payload(bytes) # <<>>, HeaderOf(message) \in Headers,
           \/ k.stage = "registering" /\ bytes = RegisterAckBytes /\ message = RegisterAck
           \/ k.stage = "reporting" /\ bytes = ConsumptionAckBytes /\ message = ConsumptionAck,
           NEW k2, k2.stage = k.stage, k2.i = k.i, k2.header = HeaderOf(message)
    PROVE  Sees(c, place, v, k2, u, Payload(bytes), x)
<1> DEFINE d2 == Payload(bytes)
<1>1. k2.stage = k.stage /\ k2.i = k.i /\ k2.header = HeaderOf(message)
  OBVIOUS
<1> HIDE DEF d2
<1>2. Unread(k2.header, d2, bytes, message)
  BY <1>1 DEF Unread, d2
<1>3. /\ ClientView(k2, d2)
      /\ HasAck(k2, d2) => HasAck(k, d)
  BY <1>1, <1>2 DEF Sees, ClientView, HasAck
<1>4. place = "queued" => Queued(k2, u, d2)
  BY <1>1 DEF Sees, Queued, Nothing, Ended
<1>5. place = "away" => Away(k2, u, d2, x)
  BY <1>1, <1>2 DEF Sees, Away, Alive
<1>6. place = "served" => (Alive(k2) => Together(v, k2, u, d2))
  BY <1>1, <1>2
  DEF Sees, Together, Alive, Ended, Requested, Reported, Accepted, Acknowledged, Nothing
<1> QED
  BY <1>1, <1>3, <1>4, <1>5, <1>6 DEF Sees, d2

\* The client reads a REGISTER_ACK: it has the turn.
LEMMA ClientIsAccepted ==
    ASSUME NEW c, NEW place \in {"served", "queued", "away"},
           NEW v \in Servers, NEW k \in Processes, NEW u, NEW d, NEW x \in BOOLEAN,
           Sees(c, place, v, k, u, d, x), k.header # NoHeader, d # <<>>,
           k.stage = "registering",
           NEW k2, k2.stage = "registered", k2.i = k.i, k2.header = NoHeader
    PROVE  Sees(c, place, v, k2, u, <<>>, x)
<1>1. k2.stage = "registered" /\ k2.i = k.i /\ k2.header = NoHeader /\ k.i = 0
  BY DEF Sees, ClientView
<1>2. ClientView(k2, <<>>) /\ ~HasAck(k2, <<>>)
  BY <1>1 DEF ClientView, Nothing, HasAck
<1>3. place # "queued"
  BY DEF Sees, Queued, Nothing, Ended
<1>4. place = "away" => Away(k2, u, <<>>, x)
  BY <1>1 DEF Sees, Away, Alive, Ended
<1>5. place = "served" => Together(v, k2, u, <<>>)
  BY <1>1 DEF Sees, Together, Alive, Ended, Requested, Accepted, Nothing
<1> QED
  BY <1>1, <1>2, <1>3, <1>4, <1>5 DEF Sees

\* The client reports: if the server is there, the report is all it finds.
LEMMA ClientSendsReport ==
    ASSUME NEW c, NEW place \in {"served", "queued", "away"},
           NEW v \in Servers, NEW k \in Processes, NEW u, NEW d, NEW x \in BOOLEAN,
           Sees(c, place, v, k, u, d, x), k.stage = "registered",
           NEW k2, k2.stage = "reporting", k2.i = k.i, k2.header = k.header
    PROVE  /\ place # "queued"
           /\ place = "served" =>
                 /\ u = <<>>
                 /\ Sees(c, place, v, k2, ReportBytes[k.i], d, x)
           /\ place = "away" =>
                 Sees(c, place, v, k2, u, d, x)
<1>1. k2.stage = "reporting" /\ k2.i = k.i /\ k2.header = k.header
  OBVIOUS
<1>2. /\ ClientView(k2, d) /\ ~HasAck(k2, d)
      /\ Nothing(k.header, d) /\ Nothing(k2.header, d)
  BY <1>1 DEF Sees, ClientView, Lost, Nothing, HasAck
<1>3. place # "queued"
  BY DEF Sees, Queued, Ended
<1>4. ASSUME place = "away" PROVE Sees(c, place, v, k2, u, d, x)
  BY <1>1, <1>2, <1>4 DEF Sees, Away, Alive, Ended
<1>5. ASSUME place = "served" PROVE u = <<>> /\ Sees(c, place, v, k2, ReportBytes[k.i], d, x)
  BY <1>1, <1>2, <1>5
  DEF Sees, ServerView, Together, Reported, Nothing, Unread, Alive, Ended
<1> QED
  BY <1>3, <1>4, <1>5

\* The client reads the acknowledgement of its report: LockStep at work.
LEMMA ClientIsAcknowledged ==
    ASSUME NEW c, NEW place \in {"served", "queued", "away"},
           NEW v \in Servers, NEW k \in Processes, NEW u, NEW d, NEW x \in BOOLEAN,
           Sees(c, place, v, k, u, d, x), k.header # NoHeader, d # <<>>,
           k.stage = "reporting",
           NEW k2, k2.stage = "sleeping", k2.i = k.i, k2.header = NoHeader
    PROVE  Sees(c, place, v, k2, u, <<>>, x)
<1>1. k2.stage = "sleeping" /\ k2.i = k.i /\ k2.header = NoHeader
  OBVIOUS
<1>2. ClientView(k2, <<>>) /\ HasAck(k, d)
  BY <1>1 DEF ClientView, Nothing, HasAck
<1>3. place # "queued"
  BY DEF Sees, Queued, Ended
<1>4. place = "away" => Away(k2, u, <<>>, x)
  BY <1>1 DEF Sees, Away, Alive, Ended
<1>5. place = "served" => Together(v, k2, u, <<>>)
  BY <1>1 DEF Sees, Together, Alive, Ended, Reported, Acknowledged, Nothing
<1> QED
  BY <1>1, <1>2, <1>3, <1>4, <1>5 DEF Sees

\* The client wakes up for the next report.
LEMMA ClientGoesOn ==
    ASSUME NEW c, NEW place \in {"served", "queued", "away"},
           NEW v \in Servers, NEW k \in Processes, NEW u, NEW d, NEW x \in BOOLEAN,
           Sees(c, place, v, k, u, d, x), k.stage = "sleeping", k.i + 1 < ClientReports,
           NEW k2, k2.stage = "registered", k2.i = k.i + 1, k2.header = k.header
    PROVE  Sees(c, place, v, k2, u, d, x)
<1>1. k2.stage = "registered" /\ k2.i = k.i + 1 /\ k2.header = k.header
  OBVIOUS
<1>2. ClientView(k2, d) /\ ~HasAck(k2, d)
  BY <1>1 DEF Sees, ClientView, Nothing, HasAck
<1>3. place # "queued"
  BY DEF Sees, Queued, Ended
<1>4. place = "away" => Away(k2, u, d, x)
  BY <1>1 DEF Sees, Away, Alive, Ended, ClientReports
<1>5. place = "served" => Together(v, k2, u, d)
  BY <1>1 DEF Sees, Together, Alive, Ended, Nothing
<1> QED
  BY <1>1, <1>2, <1>3, <1>4, <1>5 DEF Sees

\* A client that ends, or is killed with what it wrote unread.
LEMMA ClientEndsAnyhow ==
    ASSUME NEW c, NEW place, NEW v, NEW k, NEW u, NEW d, NEW x,
           Sees(c, place, v, k, u, d, x), NEW u2, u2 = u \/ u2 = <<>>, NEW y,
           NEW k2, k2.stage \in Ended, k2.header = NoHeader, k2.stage = "failed" => y
    PROVE  Sees(c, place, v, k2, u2, <<>>, y)
<1>1. k2.stage \in Ended /\ k2.header = NoHeader /\ ~Alive(k2)
  BY DEF Alive
<1>2. ClientView(k2, <<>>) /\ ~HasAck(k2, <<>>)
  BY <1>1 DEF ClientView, Nothing, HasAck, Ended
<1>3. place = "queued" => Queued(k2, u2, <<>>)
  BY <1>1 DEF Sees, Queued, Ended
<1>4. place = "away" => Away(k2, u2, <<>>, y)
  BY <1>1 DEF Sees, Away
<1>5. place = "served" => v.peer = c /\ ServerView(v, u2)
  BY DEF Sees, ServerView, Lost, Unread
<1> QED
  BY <1>1, <1>2, <1>3, <1>4, <1>5 DEF Sees

-----------------------------------------------------------------------------
(* What the steps of the server do to it.                                  *)

\* The server reads the header of a request or a report: its payload is left.
LEMMA ServerReadsHeader ==
    ASSUME NEW c, NEW v \in Servers, NEW k \in Processes, NEW u, NEW d, NEW x \in BOOLEAN,
           NEW bytes, NEW message,
           Sees(c, "served", v, k, u, d, x), v.header = NoHeader, u = bytes, bytes # <<>>,
           \/ /\ v.stage = "request"
              /\ bytes = RequestBytes /\ message = RegisterRequest
           \/ /\ v.stage = "report"
              /\ bytes = ReportBytes[v.i] /\ message = ConsumptionReport,
           NEW v2, v2.stage = v.stage, v2.i = v.i, v2.header = HeaderOf(message),
           v2.printed = v.printed, v2.peer = v.peer
    PROVE  Sees(c, "served", v2, k,
                Payload(bytes), d, x)
<1> DEFINE u2 == Payload(bytes)
<1>1. /\ v2.stage = v.stage /\ v2.i = v.i /\ v2.header = HeaderOf(message)
      /\ v2.printed = v.printed /\ v2.peer = v.peer
  OBVIOUS
<1> HIDE DEF u2
<1>2. Unread(v2.header, u2, bytes, message)
  BY <1>1 DEF Unread, u2
<1>3. ServerView(v2, u2)
  BY <1>1, <1>2 DEF Sees, ServerView
<1>4. Alive(k) => Together(v2, k, u2, d)
  BY <1>1, <1>2
  DEF Sees, Together, Alive, Ended, Requested, Reported, Accepted, Acknowledged, Nothing
<1> QED
  BY <1>1, <1>3, <1>4 DEF Sees, u2

\* The server reads the request and answers: the client has its acknowledgement.
LEMMA ServerRegisters ==
    ASSUME NEW c, NEW v \in Servers, NEW k \in Processes, NEW u, NEW d, NEW x \in BOOLEAN,
           Sees(c, "served", v, k, u, d, x), v.stage = "request",
           v.header # NoHeader, u # <<>>,
           NEW v2, v2.stage = "report", v2.i = v.i, v2.header = NoHeader,
           v2.printed = v.printed, v2.peer = v.peer
    PROVE  /\ Alive(k) => d = <<>>
           /\ Sees(c, "served", v2, k,
                   <<>>, IF Alive(k) THEN RegisterAckBytes ELSE d, x)
<1> DEFINE d2 == IF Alive(k) THEN RegisterAckBytes ELSE d
<1>1. /\ v2.stage = "report" /\ v2.i = v.i /\ v2.header = NoHeader
      /\ v2.printed = v.printed /\ v2.peer = v.peer /\ v.i = 0
  BY DEF Sees, ServerView
<1>2. Alive(k) => Requested(v, k, u, d) /\ k.stage = "registering" /\ k.i = 0
  BY DEF Sees, Together, Processes, ClientView, Nothing, Alive, Accepted, Reported, Acknowledged
<1>3. ServerView(v2, <<>>)
  BY <1>1 DEF ServerView, Lost
<1>4. CASE Alive(k)
  <2>1. d2 = RegisterAckBytes
    BY <1>4
  <2> HIDE DEF d2
  <2>2. Unread(k.header, d2, RegisterAckBytes, RegisterAck)
    BY <1>2, <1>4, <2>1 DEF Requested, Nothing, Unread
  <2>3. ClientView(k, d2) /\ ~HasAck(k, d2) /\ Together(v2, k, <<>>, d2)
    BY <1>1, <1>2, <1>4, <2>2 DEF ClientView, HasAck, Together, Accepted, Nothing
  <2>4. d = <<>>
    BY <1>2, <1>4 DEF Requested, Nothing
  <2>5. Sees(c, "served", v2, k, <<>>, d2, x)
    BY <1>1, <1>3, <2>3 DEF Sees
  <2> QED
    BY <2>4, <2>5 DEF d2
<1>5. CASE ~Alive(k)
  <2>1. Sees(c, "served", v2, k, <<>>, d, x)
    BY <1>1, <1>3, <1>5 DEF Sees
  <2> QED
    BY <1>5, <2>1
<1> QED
  BY <1>4, <1>5

\* A report that is read: its client waits for the acknowledgement.
LEMMA ServerPrints ==
    ASSUME NEW c, NEW v \in Servers, NEW k \in Processes, NEW u, NEW d, NEW x \in BOOLEAN,
           Sees(c, "served", v, k, u, d, x), v.stage = "report",
           v.header # NoHeader, u # <<>>, Alive(k)
    PROVE  /\ d = <<>> /\ k.stage = "reporting" /\ k.i = v.i
           /\ Unread(k.header, ConsumptionAckBytes, ConsumptionAckBytes, ConsumptionAck)
           /\ ClientView(k, ConsumptionAckBytes)
<1>1. Reported(v, k, u, d) /\ k.stage = "reporting"
  BY DEF Sees, Together, Processes, Nothing, Alive, Requested, Accepted, Acknowledged
<1> QED
  BY <1>1 DEF Reported, Nothing, Unread, ClientView

\* The server reads a report, answers and waits for the next one.
LEMMA ServerGoesOn ==
    ASSUME NEW c, NEW v \in Servers, NEW k \in Processes, NEW u, NEW d, NEW x \in BOOLEAN,
           Sees(c, "served", v, k, u, d, x), v.stage = "report",
           v.header # NoHeader, u # <<>>, NEW printed, Len(printed) = v.i + 1,
           NEW v2, v2.stage = v.stage, v2.i = v.i + 1, v2.header = NoHeader,
           v2.printed = printed, v2.peer = v.peer
    PROVE  /\ Alive(k) => d = <<>>
           /\ Sees(c, "served", v2, k, <<>>, IF Alive(k) THEN ConsumptionAckBytes ELSE d, x)
<1> DEFINE d2 == IF Alive(k) THEN ConsumptionAckBytes ELSE d
<1>1. /\ v2.stage = "report" /\ v2.i = v.i + 1 /\ v2.header = NoHeader
      /\ v2.printed = printed /\ v2.peer = v.peer
  OBVIOUS
<1>2. ServerView(v2, <<>>)
  BY <1>1 DEF ServerView, Lost
<1>3. CASE Alive(k)
  <2>1. d2 = ConsumptionAckBytes
    BY <1>3
  <2> HIDE DEF d2
  <2>5. /\ d = <<>> /\ k.stage = "reporting" /\ k.i = v.i
        /\ Unread(k.header, ConsumptionAckBytes, ConsumptionAckBytes, ConsumptionAck)
        /\ ClientView(k, ConsumptionAckBytes)
    BY <1>3, ServerPrints
  <2>2. /\ d = <<>> /\ k.stage = "reporting" /\ k.i = v.i /\ ClientView(k, d2)
        /\ Unread(k.header, d2, ConsumptionAckBytes, ConsumptionAck)
        /\ Len(printed) = k.i + 1
    BY <2>1, <2>5
  <2>3. Together(v2, k, <<>>, d2)
    BY <1>1, <2>2 DEF Together, Acknowledged, Nothing
  <2>4. Sees(c, "served", v2, k, <<>>, d2, x)
    BY <1>1, <1>2, <2>2, <2>3 DEF Sees
  <2> QED
    BY <2>2, <2>4 DEF d2
<1>4. CASE ~Alive(k)
  <2>1. ~HasAck(k, d)
    BY <1>4 DEF HasAck, Alive, Ended
  <2>2. Sees(c, "served", v2, k, <<>>, d, x)
    BY <1>1, <1>2, <1>4, <2>1 DEF Sees
  <2> QED
    BY <1>4, <2>2
<1> QED
  BY <1>3, <1>4

\* The server reads the last report, answers and ends: the client is not cut, for all
\* it still needs is there.
LEMMA ServerIsDone ==
    ASSUME NEW c, NEW v \in Servers, NEW k \in Processes, NEW u, NEW d, NEW x \in BOOLEAN,
           Sees(c, "served", v, k, u, d, x), v.stage = "report", v.i + 1 = ServerReports,
           v.header # NoHeader, u # <<>>, NEW v2, Len(v2.printed) = v.i + 1
    PROVE  /\ Alive(k) => d = <<>>
           /\ Sees(c, "away", v2, k,
                   <<>>, IF Alive(k) THEN ConsumptionAckBytes ELSE d, x)
<1> DEFINE d2 == IF Alive(k) THEN ConsumptionAckBytes ELSE d
<1>1. CASE Alive(k)
  <2>1. d2 = ConsumptionAckBytes
    BY <1>1
  <2> HIDE DEF d2
  <2>5. /\ d = <<>> /\ k.stage = "reporting" /\ k.i = v.i
        /\ Unread(k.header, ConsumptionAckBytes, ConsumptionAckBytes, ConsumptionAck)
        /\ ClientView(k, ConsumptionAckBytes)
    BY <1>1, ServerPrints
  <2>2. /\ d = <<>> /\ k.stage = "reporting" /\ k.i = v.i /\ ClientView(k, d2)
        /\ Unread(k.header, d2, ConsumptionAckBytes, ConsumptionAck)
        /\ Len(v2.printed) = k.i + 1
    BY <2>1, <2>5
  <2>3. Away(k, <<>>, d2, x)
    BY <2>2 DEF Away, ClientReports, ServerReports
  <2>4. Sees(c, "away", v2, k, <<>>, d2, x)
    BY <2>2, <2>3 DEF Sees
  <2> QED
    BY <2>2, <2>4 DEF d2
<1>2. CASE ~Alive(k)
  <2>1. ~HasAck(k, d)
    BY <1>2 DEF HasAck, Alive, Ended
  <2>2. Sees(c, "away", v2, k, <<>>, d, x)
    BY <1>2, <2>1 DEF Sees, Away
  <2> QED
    BY <1>2, <2>2
<1> QED
  BY <1>1, <1>2

\* The server accepts the first client of its backlog, which may have ended since.
LEMMA ServerAccepts ==
    ASSUME NEW v, NEW k \in Processes, NEW u, NEW d, NEW x \in BOOLEAN, NEW c,
           Sees(c, "queued", v, k, u, d, x), v = Starting,
           NEW v2, v2.stage = "request", v2.peer = c, v2.i = v.i, v2.header = v.header
    PROVE  Sees(c, "served", v2, k, u, d, x)
<1>1. v2.stage = "request" /\ v2.i = 0 /\ v2.header = NoHeader /\ v2.peer = c
  BY DEF Starting
<1>2. ~HasAck(k, d)
  BY DEF Sees, Queued, HasAck, Ended
<1>3. ServerView(v2, u)
  BY <1>1 DEF Sees, Queued, ServerView, Unread, Lost, Processes, Ended
<1>4. Alive(k) => Together(v2, k, u, d)
  BY <1>1 DEF Sees, Queued, Together, Requested, Nothing, Unread, Alive, Ended
<1> QED
  BY <1>2, <1>3, <1>4 DEF Sees

\* The server ends: a connection that it leaves is cut, unless its client has ended.
LEMMA ServerLeaves ==
    ASSUME NEW c, NEW place, NEW v, NEW v2, NEW k, NEW u, NEW d, NEW x, NEW y,
           Sees(c, place, v, k, u, d, x), v2.printed = v.printed, v2.peer = v.peer,
           NEW d2, d2 = d \/ d2 = <<>>,
           x => y, y \/ ~Alive(k), y \in BOOLEAN
    PROVE  Sees(c, "away", v2, k, <<>>, d2, y)
<1>1. ClientView(k, d2) /\ (HasAck(k, d2) => HasAck(k, d))
  BY DEF Sees, ClientView, Nothing, Lost, Unread, HasAck
<1> QED
  BY <1>1 DEF Sees, Away

-----------------------------------------------------------------------------
(* Steps that concern one client, or the server and the client it serves.  *)

\* A client is served, queued or away.
LEMMA PlaceIsOne == \A c : Place(c) \in {"served", "queued", "away"}
BY DEF Place

\* A step that touches neither a client nor its streams leaves its view as it is.
LEMMA ViewKept ==
    ASSUME NEW c \in Clients, View(c),
           client'[c] = client[c], cut'[c] = cut[c],
           All(up'[c]) = All(up[c]), All(down'[c]) = All(down[c]),
           Place(c)' = Place(c),
           \/ server' = server
           \/ server.peer # c /\ server'.peer # c
           \/ Place(c) # "served" /\ server'.peer # c
    PROVE  View(c)'
<1> DEFINE k == client[c]
           u == All(up[c])
           d == All(down[c])
           x == cut[c]
           p == Place(c)
<1>1. Sees(c, p, server, k, u, d, x)
  BY DEF View
<1>2. View(c)' <=> Sees(c, Place(c)', server', client'[c], All(up'[c]), All(down'[c]),
                        cut'[c])
  BY DEF View
<1>3. View(c)' <=> Sees(c, p, server', k, u, d, x)
  BY <1>2
<1> HIDE DEF k, u, d, x, p
<1>4. CASE server' = server
  BY <1>1, <1>3, <1>4
<1>5. CASE server.peer # c /\ server'.peer # c
  BY <1>1, <1>3, <1>5 DEF Sees
<1>6. CASE p # "served" /\ server'.peer # c
  BY <1>1, <1>3, <1>6 DEF Sees
<1> QED
  BY <1>4, <1>5, <1>6 DEF p

\* A step of a client changes its own record, streams and cut, and nothing else.
LEMMA ClientMoves ==
    ASSUME PairInv, NEW c \in Clients, server' = server, backlog' = backlog,
           NEW k2 \in Processes, client' = [client EXCEPT ![c] = k2],
           NEW u2 \in Streams, up' = [up EXCEPT ![c] = u2],
           NEW d2 \in Streams, down' = [down EXCEPT ![c] = d2],
           NEW y \in BOOLEAN, cut' = [cut EXCEPT ![c] = y],
           Sees(c, Place(c), server, k2, All(u2), All(d2), y)
    PROVE  PairInv'
<1>1. PairTypes /\ ServerInv /\ BacklogInv /\ \A d \in Clients : View(d)
  BY DEF PairInv
<1>2. PairTypes'
  BY <1>1 DEF PairTypes
<1>3. ServerInv' /\ BacklogInv'
  BY <1>1 DEF ServerInv, BacklogInv, Serving, Waiting, ReportsIntact
<1>4. \A d : Place(d)' = Place(d)
  BY DEF Place, Serving, Waiting
<1>5. /\ client'[c] = k2 /\ up'[c] = u2 /\ down'[c] = d2 /\ cut'[c] = y
      /\ \A d \in Clients : d # c => /\ client'[d] = client[d] /\ up'[d] = up[d]
                                     /\ down'[d] = down[d] /\ cut'[d] = cut[d]
  BY <1>1 DEF PairTypes
<1>6. View(c)'
  BY <1>4, <1>5 DEF View
<1>7. ASSUME NEW d \in Clients, d # c PROVE View(d)'
  BY <1>1, <1>4, <1>5, <1>7, ViewKept
<1> QED
  BY <1>2, <1>3, <1>6, <1>7 DEF PairInv

\* A server that goes on serving changes its record and its client's streams.
LEMMA ServerMoves ==
    ASSUME PairInv, NEW c \in Clients, Serving, server.peer = c,
           UNCHANGED <<backlog, client, cut>>,
           NEW v2 \in Servers, server' = v2, v2.peer = c, v2.stage \in {"request", "report"},
           Len(v2.printed) = v2.i,
           \A j \in DOMAIN v2.printed : v2.printed[j] = ReportOf(j - 1),
           NEW u2 \in Streams, up' = [up EXCEPT ![c] = u2],
           NEW d2 \in Streams, down' = [down EXCEPT ![c] = d2],
           Sees(c, "served", v2, client[c], All(u2), All(d2), cut[c])
    PROVE  PairInv'
<1>1. PairTypes /\ ServerInv /\ BacklogInv /\ \A d \in Clients : View(d)
  BY DEF PairInv
<1>2. PairTypes'
  BY <1>1 DEF PairTypes
<1>3. ServerInv' /\ BacklogInv'
  BY <1>1 DEF ServerInv, BacklogInv, Serving, Waiting, ReportsIntact
<1>4. /\ Place(c)' = "served"
      /\ \A d : d # c => Place(d)' = Place(d)
  BY DEF Place, Serving, Waiting
<1>5. /\ up'[c] = u2 /\ down'[c] = d2
      /\ \A d \in Clients : d # c => up'[d] = up[d] /\ down'[d] = down[d]
  BY <1>1 DEF PairTypes
<1>6. View(c)'
  <2>1. View(c)' <=> Sees(c, Place(c)', v2, client[c], All(u2), All(d2), cut[c])
    BY <1>5 DEF View
  <2> QED
    BY <1>4, <2>1
<1>7. ASSUME NEW d \in Clients, d # c PROVE View(d)'
  BY <1>1, <1>4, <1>5, <1>7, ViewKept
<1> QED
  BY <1>2, <1>3, <1>6, <1>7 DEF PairInv

\* What the end of the server means for the clients that it does not serve.
LEMMA OthersLeft ==
    ASSUME PairInv, NEW d \in Clients, server.stage # "off", ~(Serving /\ server.peer = d),
           server'.stage = "off", server'.peer = server.peer,
           backlog' = <<>>, up'[d] = Silent, client'[d] = client[d], down'[d] = down[d],
           cut'[d] = (cut[d] \/ d \in Waiting)
    PROVE  View(d)'
<1> DEFINE k == client[d]
           u == All(up[d])
           b == All(down[d])
           x == cut[d]
           y == cut'[d]
<1>1. server.peer # d /\ server'.peer # d
  BY ClientsAssumption DEF PairInv, PairTypes, Servers, ServerInv, Serving, Starting, Nobody
<1>2. Sees(d, Place(d), server, k, u, b, x) /\ x \in BOOLEAN
  BY <1>1 DEF View, PairInv, PairTypes
<1>3. Place(d)' = "away" /\ All(up'[d]) = <<>>
  BY SilentIsEmpty DEF Place, Serving, Waiting
<1>4. View(d)' <=> Sees(d, "away", server', k, <<>>, b, y)
  BY <1>1, <1>3 DEF View
<1>5. Place(d) = IF d \in Waiting THEN "queued" ELSE "away"
  BY DEF Place
<1>6. y = (x \/ d \in Waiting)
  OBVIOUS
<1> HIDE DEF k, u, b, x, y
<1>7. CASE d \in Waiting
  <2>1. y = TRUE
    BY <1>6, <1>7
  <2> QED
    BY <1>1, <1>2, <1>4, <1>5, <1>7, <2>1 DEF Sees, Away
<1>8. CASE d \notin Waiting
  <2>1. y = x
    BY <1>2, <1>6, <1>8
  <2> QED
    BY <1>1, <1>2, <1>4, <1>5, <1>8, <2>1 DEF Sees, Away
<1> QED
  BY <1>7, <1>8

-----------------------------------------------------------------------------
(* Every step keeps the conversation.                                      *)

\* What the invariant says of one client.
LEMMA ClientFacts ==
    ASSUME PairInv, NEW c \in Clients
    PROVE  /\ server \in Servers /\ client[c] \in Processes /\ cut[c] \in BOOLEAN
           /\ up[c] \in Streams /\ down[c] \in Streams
           /\ Sees(c, Place(c), server, client[c], All(up[c]), All(down[c]),
                   cut[c])
           /\ Place(c) \in {"served", "queued", "away"}
           /\ c \in Connected <=> Place(c) # "away"
           /\ client = [client EXCEPT ![c] = client[c]]
           /\ up = [up EXCEPT ![c] = up[c]] /\ down = [down EXCEPT ![c] = down[c]]
           /\ cut = [cut EXCEPT ![c] = cut[c]]
<1>1. PairTypes /\ View(c)
  BY DEF PairInv
<1>2. c \in Connected <=> Place(c) # "away"
  BY DEF Connected, Place
<1>3. /\ server \in Servers /\ client[c] \in Processes /\ cut[c] \in BOOLEAN
      /\ up[c] \in Streams /\ down[c] \in Streams
      /\ client = [client EXCEPT ![c] = client[c]]
      /\ up = [up EXCEPT ![c] = up[c]] /\ down = [down EXCEPT ![c] = down[c]]
      /\ cut = [cut EXCEPT ![c] = cut[c]]
  BY <1>1 DEF PairTypes
<1> QED
  BY <1>1, <1>2, <1>3, PlaceIsOne DEF View

\* The steps of a client keep the invariant; here the request.
LEMMA SendRequestKeeps ==
    ASSUME PairInv, NEW c \in Clients, SendRequest(c)
    PROVE  PairInv'
<1> DEFINE k2 == [client[c] EXCEPT !.stage = "registering"]
           u2 == IF c \in Connected THEN Written(up[c], RequestBytes) ELSE up[c]
<1>0. /\ client[c] \in Processes /\ cut[c] \in BOOLEAN /\ server \in Servers
      /\ up[c] \in Streams /\ down[c] \in Streams
      /\ Sees(c, Place(c), server, client[c], All(up[c]), All(down[c]), cut[c])
      /\ Place(c) \in {"served", "queued", "away"}
      /\ c \in Connected <=> Place(c) # "away"
  BY ClientFacts
<1>1. /\ client[c].stage = "connected" /\ server' = server /\ backlog' = backlog
      /\ client' = [client EXCEPT ![c] = k2] /\ cut' = [cut EXCEPT ![c] = cut[c]]
      /\ up' = [up EXCEPT ![c] = u2] /\ down' = [down EXCEPT ![c] = down[c]]
  BY ClientFacts DEF SendRequest, Send, Advance
<1>2. /\ k2 \in Processes /\ k2.stage = "registering" /\ k2.i = client[c].i
      /\ k2.header = client[c].header
  BY <1>0 DEF Processes
<1> HIDE DEF k2
<1>3. /\ Place(c) # "away" =>
            /\ All(up[c]) = <<>>
            /\ Sees(c, Place(c), server, k2, RequestBytes, All(down[c]), cut[c])
      /\ Place(c) = "away" => Sees(c, Place(c), server, k2, All(up[c]), All(down[c]), cut[c])
  BY <1>0, <1>1, <1>2, ClientRequests
<1>4. u2 \in Streams /\ Sees(c, Place(c), server, k2, All(u2), All(down[c]), cut[c])
  <2>1. CASE c \in Connected
    <3>1. u2 \in Streams /\ All(u2) = RequestBytes
      BY <1>0, <1>3, <2>1, WriteAppends, FramedParts, ConversationIsFramed DEF Formats
    <3> QED
      BY <1>0, <1>3, <2>1, <3>1
  <2>2. CASE c \notin Connected
    BY <1>0, <1>3, <2>2
  <2> QED
    BY <2>1, <2>2
<1> HIDE DEF u2
<1> QED
  BY <1>0, <1>1, <1>2, <1>4, ClientMoves

\* The header of an acknowledgement.
LEMMA ReadAckHeaderKeeps ==
    ASSUME PairInv, NEW c \in Clients, ReadAckHeader(c)
    PROVE  PairInv'
<1> DEFINE k2 == [client[c] EXCEPT !.header = HeaderIn(down[c])]
           d2 == After(down[c], HeaderSize)
           bytes == IF client[c].stage = "registering" THEN RegisterAckBytes
                                                       ELSE ConsumptionAckBytes
           message == IF client[c].stage = "registering" THEN RegisterAck ELSE ConsumptionAck
<1>0. /\ client[c] \in Processes /\ cut[c] \in BOOLEAN /\ server \in Servers
      /\ up[c] \in Streams /\ down[c] \in Streams
      /\ Sees(c, Place(c), server, client[c], All(up[c]), All(down[c]), cut[c])
      /\ Place(c) \in {"served", "queued", "away"}
      /\ c \in Connected <=> Place(c) # "away"
  BY ClientFacts
<1>1. /\ client[c].stage \in {"registering", "reporting"} /\ client[c].header = NoHeader
      /\ server' = server /\ backlog' = backlog /\ Readable(down[c], HeaderSize)
      /\ client' = [client EXCEPT ![c] = k2] /\ cut' = [cut EXCEPT ![c] = cut[c]]
      /\ up' = [up EXCEPT ![c] = up[c]] /\ down' = [down EXCEPT ![c] = d2]
  BY ClientFacts DEF ReadAckHeader, Advance, Reading, AtHeader
<1>2. /\ Framed(bytes, message) /\ HeaderOf(message) # NoHeader
      /\ HeaderOf(message) \in Headers
      /\ \/ client[c].stage = "registering" /\ bytes = RegisterAckBytes /\ message = RegisterAck
         \/ /\ client[c].stage = "reporting"
            /\ bytes = ConsumptionAckBytes /\ message = ConsumptionAck
  BY <1>1, MessageHeaders, ConversationIsFramed DEF Formats, Headers
<1> HIDE DEF bytes, message
<1>3. \/ Unread(client[c].header, All(down[c]), bytes, message)
      \/ Lost(client[c].header, All(down[c]), message)
  BY <1>0, <1>2 DEF Sees, ClientView
<1>4. /\ All(down[c]) = bytes /\ HeaderIn(down[c]) = HeaderOf(message)
      /\ d2 \in Streams /\ All(d2) = Payload(bytes)
  BY <1>0, <1>1, <1>2, <1>3, HeaderRead
<1> HIDE DEF d2
<1>5. /\ k2 \in Processes /\ k2.stage = client[c].stage /\ k2.i = client[c].i
      /\ k2.header = HeaderOf(message)
  BY <1>0, <1>2, <1>4 DEF Processes
<1> HIDE DEF k2
<1>6. bytes # <<>> /\ Payload(bytes) # <<>>
  BY <1>2, FramedParts
<1>7. Sees(c, Place(c), server, k2, All(up[c]), All(d2), cut[c])
  <2> DEFINE k == client[c]
             p == Place(c)
             u == All(up[c])
             d == All(down[c])
             x == cut[c]
  <2>1. /\ k \in Processes /\ x \in BOOLEAN /\ Sees(c, p, server, k, u, d, x)
        /\ p \in {"served", "queued", "away"} /\ server \in Servers
        /\ k.header = NoHeader /\ d = bytes /\ k2.stage = k.stage /\ k2.i = k.i
        /\ \/ k.stage = "registering" /\ bytes = RegisterAckBytes /\ message = RegisterAck
           \/ /\ k.stage = "reporting"
              /\ bytes = ConsumptionAckBytes /\ message = ConsumptionAck
    BY <1>0, <1>1, <1>2, <1>4, <1>5
  <2> HIDE DEF k, p, u, d, x
  <2>2. Sees(c, p, server, k2, u, Payload(bytes), x)
    BY <1>2, <1>5, <1>6, <2>1, ClientReadsHeader
  <2> QED
    BY <1>4, <2>2 DEF p, u, x
<1> QED
  BY <1>0, <1>1, <1>4, <1>5, <1>7, ClientMoves

\* What a client that has read a header finds: the payload of the acknowledgement.
LEMMA AckIsThere ==
    ASSUME PairInv, NEW c \in Clients, client[c].header # NoHeader,
           Readable(down[c], client[c].header.payload_length), NEW bytes, NEW message,
           \/ /\ client[c].stage = "registering"
              /\ bytes = RegisterAckBytes /\ message = RegisterAck
           \/ /\ client[c].stage = "reporting"
              /\ bytes = ConsumptionAckBytes /\ message = ConsumptionAck
    PROVE  /\ client[c].header.type = message.type
           /\ Taken(down[c], client[c].header.payload_length) = Payload(bytes)
           /\ All(down[c]) # <<>>
           /\ After(down[c], client[c].header.payload_length) \in Streams
           /\ All(After(down[c], client[c].header.payload_length)) = <<>>
<1>0. /\ client[c] \in Processes /\ cut[c] \in BOOLEAN /\ server \in Servers
      /\ up[c] \in Streams /\ down[c] \in Streams
      /\ Sees(c, Place(c), server, client[c], All(up[c]), All(down[c]), cut[c])
      /\ Place(c) \in {"served", "queued", "away"}
      /\ c \in Connected <=> Place(c) # "away"
  BY ClientFacts
<1>1. Framed(bytes, message) /\ Payload(bytes) # <<>>
  BY FramedParts, ConversationIsFramed DEF Formats
<1>2. \/ Unread(client[c].header, All(down[c]), bytes, message)
      \/ Lost(client[c].header, All(down[c]), message)
  BY <1>0 DEF Sees, ClientView
<1> QED
  BY <1>0, <1>1, <1>2, PayloadRead

\* The REGISTER_ACK: it has the type and the status that the client asks for.
LEMMA ReadRegisterAckKeeps ==
    ASSUME PairInv, NEW c \in Clients, ReadRegisterAck(c)
    PROVE  PairInv'
<1> DEFINE n  == client[c].header.payload_length
           k2 == [client[c] EXCEPT !.stage = "registered", !.header = NoHeader]
           d2 == After(down[c], n)
<1>0. /\ client[c] \in Processes /\ cut[c] \in BOOLEAN /\ server \in Servers
      /\ up[c] \in Streams /\ down[c] \in Streams
      /\ Sees(c, Place(c), server, client[c], All(up[c]), All(down[c]), cut[c])
      /\ Place(c) \in {"served", "queued", "away"}
      /\ c \in Connected <=> Place(c) # "away"
  BY ClientFacts
<1>1. /\ client[c].stage = "registering" /\ client[c].header # NoHeader
      /\ Wanted(client[c]) = n /\ Readable(down[c], n)
  BY DEF ReadRegisterAck, AtHeader, Wanted
<1>2. /\ client[c].header.type = RegisterAck.type
      /\ Taken(down[c], n) = Payload(RegisterAckBytes)
      /\ All(down[c]) # <<>> /\ d2 \in Streams /\ All(d2) = <<>>
  BY <1>1, AckIsThere
<1>3. /\ server' = server /\ backlog' = backlog
      /\ client' = [client EXCEPT ![c] = k2] /\ cut' = [cut EXCEPT ![c] = cut[c]]
      /\ up' = [up EXCEPT ![c] = up[c]] /\ down' = [down EXCEPT ![c] = d2]
  BY <1>1, <1>2, ClientFacts, ConversationIsFramed DEF ReadRegisterAck, Advance, Formats
<1> HIDE DEF d2, n
<1>4. /\ k2 \in Processes /\ k2.stage = "registered" /\ k2.i = client[c].i
      /\ k2.header = NoHeader
  BY <1>0 DEF Processes, Headers
<1> HIDE DEF k2
<1>5. Sees(c, Place(c), server, k2, All(up[c]), All(d2), cut[c])
  BY <1>0, <1>1, <1>2, <1>4, ClientIsAccepted
<1> QED
  BY <1>0, <1>2, <1>3, <1>4, <1>5, ClientMoves

\* A report.
LEMMA SendReportKeeps ==
    ASSUME PairInv, NEW c \in Clients, SendReport(c)
    PROVE  PairInv'
<1> DEFINE k2 == [client[c] EXCEPT !.stage = "reporting"]
           bytes == ReportBytes[client[c].i]
           u2 == IF c \in Connected THEN Written(up[c], bytes) ELSE up[c]
<1>0. /\ client[c] \in Processes /\ cut[c] \in BOOLEAN /\ server \in Servers
      /\ up[c] \in Streams /\ down[c] \in Streams
      /\ Sees(c, Place(c), server, client[c], All(up[c]), All(down[c]), cut[c])
      /\ Place(c) \in {"served", "queued", "away"}
      /\ c \in Connected <=> Place(c) # "away"
  BY ClientFacts
<1>1. /\ client[c].stage = "registered" /\ server' = server /\ backlog' = backlog
      /\ client' = [client EXCEPT ![c] = k2] /\ cut' = [cut EXCEPT ![c] = cut[c]]
      /\ up' = [up EXCEPT ![c] = u2] /\ down' = [down EXCEPT ![c] = down[c]]
  BY ClientFacts DEF SendReport, Send, Advance
<1>2. /\ k2 \in Processes /\ k2.stage = "reporting" /\ k2.i = client[c].i
      /\ k2.header = client[c].header
  BY <1>0 DEF Processes
<1> HIDE DEF k2
<1>3. /\ Place(c) # "away" =>
            /\ All(up[c]) = <<>>
            /\ Sees(c, Place(c), server, k2, bytes, All(down[c]), cut[c])
      /\ Place(c) = "away" => Sees(c, Place(c), server, k2, All(up[c]), All(down[c]), cut[c])
  BY <1>0, <1>1, <1>2, ClientSendsReport
<1>4. bytes \in Seq(Byte)
  <2>1. client[c].i \in DOMAIN ReportBytes
    BY <1>0 DEF Processes, ReportBytes
  <2> QED
    BY <2>1, FramedParts, ConversationIsFramed DEF Formats
<1> HIDE DEF bytes
<1>5. u2 \in Streams /\ Sees(c, Place(c), server, k2, All(u2), All(down[c]), cut[c])
  <2>1. CASE c \in Connected
    <3>1. u2 \in Streams /\ All(u2) = bytes
      BY <1>0, <1>3, <1>4, <2>1, WriteAppends
    <3> QED
      BY <1>0, <1>3, <2>1, <3>1
  <2>2. CASE c \notin Connected
    BY <1>0, <1>3, <2>2
  <2> QED
    BY <2>1, <2>2
<1> HIDE DEF u2
<1> QED
  BY <1>0, <1>1, <1>2, <1>5, ClientMoves

\* The acknowledgement of a report.
LEMMA ReadConsumptionAckKeeps ==
    ASSUME PairInv, NEW c \in Clients, ReadConsumptionAck(c)
    PROVE  PairInv'
<1> DEFINE n  == client[c].header.payload_length
           k2 == [client[c] EXCEPT !.stage = "sleeping", !.header = NoHeader]
           d2 == After(down[c], n)
<1>0. /\ client[c] \in Processes /\ cut[c] \in BOOLEAN /\ server \in Servers
      /\ up[c] \in Streams /\ down[c] \in Streams
      /\ Sees(c, Place(c), server, client[c], All(up[c]), All(down[c]), cut[c])
      /\ Place(c) \in {"served", "queued", "away"}
      /\ c \in Connected <=> Place(c) # "away"
  BY ClientFacts
<1>1. /\ client[c].stage = "reporting" /\ client[c].header # NoHeader
      /\ Wanted(client[c]) = n /\ Readable(down[c], n)
  BY DEF ReadConsumptionAck, AtHeader, Wanted
<1>2. All(down[c]) # <<>> /\ d2 \in Streams /\ All(d2) = <<>>
  BY <1>1, AckIsThere
<1>3. /\ server' = server /\ backlog' = backlog
      /\ client' = [client EXCEPT ![c] = k2] /\ cut' = [cut EXCEPT ![c] = cut[c]]
      /\ up' = [up EXCEPT ![c] = up[c]] /\ down' = [down EXCEPT ![c] = d2]
  BY <1>1, ClientFacts DEF ReadConsumptionAck, Advance
<1> HIDE DEF d2, n
<1>4. /\ k2 \in Processes /\ k2.stage = "sleeping" /\ k2.i = client[c].i
      /\ k2.header = NoHeader
  BY <1>0 DEF Processes, Headers
<1> HIDE DEF k2
<1>5. Sees(c, Place(c), server, k2, All(up[c]), All(d2), cut[c])
  BY <1>0, <1>1, <1>2, <1>4, ClientIsAcknowledged
<1> QED
  BY <1>0, <1>2, <1>3, <1>4, <1>5, ClientMoves

\* A client ends: killed, at the end of its loop, or because its connection was cut.
LEMMA EndsKeeps ==
    ASSUME PairInv, NEW c \in Clients, NEW how \in Ended, Ends(c, how),
           how = "failed" => cut[c], server' = server, backlog' = backlog,
           up' = up \/ up' = [up EXCEPT ![c] = Silent]
    PROVE  PairInv'
<1> DEFINE k2 == [Connecting EXCEPT !.stage = how]
           y  == cut[c] /\ how = "failed"
           u2 == IF up' = up THEN up[c] ELSE Silent
<1>0. /\ client[c] \in Processes /\ cut[c] \in BOOLEAN /\ server \in Servers
      /\ up[c] \in Streams /\ down[c] \in Streams
      /\ Sees(c, Place(c), server, client[c], All(up[c]), All(down[c]), cut[c])
      /\ Place(c) \in {"served", "queued", "away"}
      /\ c \in Connected <=> Place(c) # "away"
  BY ClientFacts
<1>1. /\ client' = [client EXCEPT ![c] = k2] /\ cut' = [cut EXCEPT ![c] = y]
      /\ down' = [down EXCEPT ![c] = Silent] /\ up' = [up EXCEPT ![c] = u2]
  BY ClientFacts DEF Ends
<1>2. /\ k2 \in Processes /\ k2.stage = how /\ k2.i = 0 /\ k2.header = NoHeader
  BY DEF Connecting, Processes, Headers, ClientReports
<1> HIDE DEF k2
<1>3. u2 \in Streams /\ All(u2) \in {All(up[c]), <<>>} /\ Silent \in Streams
  BY <1>0, SilentIsEmpty
<1> HIDE DEF u2
<1>4. y \in BOOLEAN /\ (how = "failed" => y)
  OBVIOUS
<1> HIDE DEF y
<1>5. Sees(c, Place(c), server, k2, All(u2), <<>>, y)
  <2> DEFINE k == client[c]
             p == Place(c)
             u == All(up[c])
             d == All(down[c])
             x == cut[c]
             b == All(u2)
  <2>1. /\ k \in Processes /\ x \in BOOLEAN /\ Sees(c, p, server, k, u, d, x)
        /\ p \in {"served", "queued", "away"} /\ server \in Servers
        /\ b = u \/ b = <<>>
        /\ y \in BOOLEAN
        /\ k2.stage \in Ended
        /\ k2.stage = "failed" => y
    BY <1>0, <1>2, <1>3, <1>4
  <2> HIDE DEF k, p, u, d, x, b
  <2>2. Sees(c, p, server, k2, b, <<>>, y)
    <3>1. Sees(c, p, server, k, u, d, x)
      BY <2>1
    <3>2. b = u \/ b = <<>>
      BY <2>1
    <3>3. k2.stage \in Ended /\ k2.header = NoHeader
      BY <1>2
    <3>4. k2.stage = "failed" => y
      BY <2>1
    <3> QED
      BY ONLY <3>1, <3>2, <3>3, <3>4, ClientEndsAnyhow
  <2> QED
    BY <2>2 DEF p, b
<1>6. Sees(c, Place(c), server, k2, All(u2), All(Silent), y)
  BY <1>5, SilentIsEmpty
<1>7. server' = server /\ backlog' = backlog
  OBVIOUS
<1> QED
  BY ONLY PairInv, c \in Clients, <1>1, <1>2, <1>3, <1>4, <1>6, <1>7, ClientMoves

\* The end of the pause between two reports.
LEMMA WakeKeeps ==
    ASSUME PairInv, NEW c \in Clients, Wake(c)
    PROVE  PairInv'
<1> DEFINE k2 == [client[c] EXCEPT !.stage = "registered", !.i = client[c].i + 1]
<1>0. /\ client[c] \in Processes /\ cut[c] \in BOOLEAN /\ server \in Servers
      /\ up[c] \in Streams /\ down[c] \in Streams
      /\ Sees(c, Place(c), server, client[c], All(up[c]), All(down[c]), cut[c])
      /\ Place(c) \in {"served", "queued", "away"}
      /\ c \in Connected <=> Place(c) # "away"
  BY ClientFacts
<1>1. client[c].stage = "sleeping" /\ server' = server /\ backlog' = backlog /\ up' = up
  BY DEF Wake
<1>4. server' = server /\ backlog' = backlog
  BY <1>1
<1>2. CASE client[c].i + 1 < ClientReports
  <2>1. /\ client' = [client EXCEPT ![c] = k2] /\ cut' = [cut EXCEPT ![c] = cut[c]]
        /\ up' = [up EXCEPT ![c] = up[c]] /\ down' = [down EXCEPT ![c] = down[c]]
    BY <1>2, ClientFacts DEF Wake, Advance
  <2>2. client[c].i + 1 \in 0 .. ClientReports - 1
    BY <1>0, <1>2 DEF Processes, ClientReports
  <2>3. /\ k2 \in Processes /\ k2.stage = "registered" /\ k2.i = client[c].i + 1
        /\ k2.header = client[c].header
    BY <1>0, <2>2 DEF Processes
  <2> HIDE DEF k2
  <2>4. Sees(c, Place(c), server, k2, All(up[c]), All(down[c]), cut[c])
    BY <1>0, <1>1, <1>2, <2>3, ClientGoesOn
  <2> QED
    BY ONLY PairInv, c \in Clients, <1>0, <1>4, <2>1, <2>3, <2>4, ClientMoves
<1>3. CASE ~(client[c].i + 1 < ClientReports)
  <2>1. Ends(c, "off") /\ "off" \in Ended
    BY <1>3 DEF Wake, Ended
  <2> QED
    BY <1>1, <2>1, EndsKeeps
<1> QED
  BY <1>2, <1>3

\* FailsOnlyWhenCut at work: a client that was not cut has an acknowledgement to read.
LEMMA AckThrowsKeeps ==
    ASSUME PairInv, NEW c \in Clients, AckThrows(c)
    PROVE  PairInv'
<1>0. /\ client[c] \in Processes /\ cut[c] \in BOOLEAN /\ server \in Servers
      /\ up[c] \in Streams /\ down[c] \in Streams
      /\ Sees(c, Place(c), server, client[c], All(up[c]), All(down[c]), cut[c])
      /\ Place(c) \in {"served", "queued", "away"}
      /\ c \in Connected <=> Place(c) # "away"
  BY ClientFacts
<1>1. /\ client[c].stage \in {"registering", "reporting"} /\ Place(c) = "away"
      /\ Starved(down[c], Wanted(client[c])) /\ Ends(c, "failed") /\ "failed" \in Ended
      /\ server' = server /\ backlog' = backlog /\ up' = up
  BY <1>0 DEF AckThrows, Reading, Ended
<1>2. cut[c]
  <2> SUFFICES ASSUME ~cut[c] PROVE FALSE
    OBVIOUS
  <2>1. Unread(client[c].header, All(down[c]), ConsumptionAckBytes, ConsumptionAck)
    BY <1>0, <1>1 DEF Sees, Away, Alive, Ended
  <2> QED
    BY <1>0, <1>1, <2>1, UnreadIsReadable, MessageHeaders, ConversationIsFramed DEF Formats
<1> QED
  BY <1>1, <1>2, EndsKeeps

\* A client is killed; what it wrote may be lost with it.
LEMMA KillClientKeeps ==
    ASSUME PairInv, NEW c \in Clients, KillClient(c)
    PROVE  PairInv'
<1>1. /\ Ends(c, "off") /\ "off" \in Ended /\ server' = server /\ backlog' = backlog
      /\ up' = up \/ up' = [up EXCEPT ![c] = Silent]
  BY DEF KillClient, Ended
<1> QED
  BY <1>1, EndsKeeps

-----------------------------------------------------------------------------
(* The steps of the server.                                                *)

\* What the invariant says of the server and the client it serves.
LEMMA ServedFacts ==
    ASSUME PairInv, Serving, NEW c, c = server.peer
    PROVE  /\ c \in Clients /\ server \in Servers /\ client[c] \in Processes
           /\ cut[c] \in BOOLEAN /\ up[c] \in Streams /\ down[c] \in Streams
           /\ Sees(c, "served", server, client[c], All(up[c]), All(down[c]), cut[c])
           /\ Len(server.printed) = server.i
           /\ \A j \in DOMAIN server.printed : server.printed[j] = ReportOf(j - 1)
           /\ down = [down EXCEPT ![c] = down[c]]
<1>1. c \in Clients /\ Place(c) = "served"
  BY DEF PairInv, ServerInv, Place
<1>2. PairTypes /\ ServerInv
  BY DEF PairInv
<1>3. /\ Sees(c, "served", server, client[c], All(up[c]), All(down[c]), cut[c])
      /\ server \in Servers /\ client[c] \in Processes
      /\ cut[c] \in BOOLEAN /\ up[c] \in Streams /\ down[c] \in Streams
      /\ down = [down EXCEPT ![c] = down[c]]
  BY <1>1, ClientFacts
<1> QED
  BY <1>1, <1>2, <1>3 DEF ServerInv, ReportsIntact

\* A server is started: no connection is left of the one before.
LEMMA StartServerKeeps ==
    ASSUME PairInv, StartServer
    PROVE  PairInv'
<1>1. /\ server.stage = "off" /\ server' = Starting /\ backlog' = backlog /\ backlog = <<>>
      /\ client' = client /\ up' = up /\ down' = down /\ cut' = cut
  BY DEF StartServer, PairInv, ServerInv
<1>2. PairTypes'
  <2>1. Starting \in Servers
    <3>1. <<>> \in Seq(Reports)
      BY EmptySeq
    <3> QED
      BY <3>1 DEF Starting, Servers, Headers, ServerReports
  <2> QED
    BY <1>1, <2>1 DEF PairInv, PairTypes
<1>3. ServerInv' /\ BacklogInv'
  <2>1. ~Serving' /\ server'.stage = "accepting" /\ server' = Starting
    BY <1>1 DEF Serving, Starting
  <2>2. ReportsIntact'
    <3>1. DOMAIN server'.printed = {}
      BY <1>1 DEF Starting
    <3> QED
      BY <3>1 DEF ReportsIntact
  <2> QED
    BY <1>1, <2>1, <2>2 DEF ServerInv, BacklogInv, PairInv
<1>4. ASSUME NEW c \in Clients PROVE View(c)'
  <2>1. Place(c) = "away" /\ Place(c)' = "away"
    BY <1>1 DEF Place, Serving, Waiting, Starting
  <2>2. server'.peer # c /\ View(c)
    BY <1>1, ClientsAssumption DEF Starting, Nobody, PairInv
  <2> QED
    BY <1>1, <2>1, <2>2, ViewKept
<1> QED
  BY <1>2, <1>3, <1>4 DEF PairInv

\* The first client of the backlog is accepted.
LEMMA AcceptKeeps ==
    ASSUME PairInv, Accept
    PROVE  PairInv'
<1> SUFFICES ASSUME NEW c, c = Head(backlog) PROVE PairInv'
  OBVIOUS
<1> DEFINE v2 == [server EXCEPT !.stage = "request", !.peer = c]
<1>1. /\ server = Starting /\ backlog # <<>> /\ server' = v2 /\ backlog' = Tail(backlog)
      /\ client' = client /\ up' = up /\ down' = down /\ cut' = cut
  BY DEF Accept, PairInv, ServerInv
<1>2. PairTypes /\ BacklogInv
  BY DEF PairInv
<1>3. /\ Tail(backlog) \in Seq(Clients) /\ Len(Tail(backlog)) = Len(backlog) - 1
      /\ \A i \in 1 .. Len(Tail(backlog)) : Tail(backlog)[i] = backlog[i + 1]
      /\ c \in Clients /\ c = backlog[1] /\ Len(backlog) \in Nat \ {0}
      /\ DOMAIN backlog = 1 .. Len(backlog)
      /\ DOMAIN Tail(backlog) = 1 .. Len(Tail(backlog))
  <2>1. backlog \in Seq(Clients)
    BY <1>2 DEF PairTypes
  <2> QED
    BY <1>1, <2>1, HeadTailProperties, EmptySeq, LenProperties
<1>4. /\ v2.stage = "request" /\ v2.peer = c /\ v2.i = 0 /\ v2.header = NoHeader
      /\ v2.printed = <<>> /\ v2 \in Servers
  <2>1. /\ server \in Servers /\ server.i = 0 /\ server.header = NoHeader
        /\ server.printed = <<>>
    BY <1>1, <1>2 DEF Starting, PairTypes
  <2> QED
    BY <1>3, <2>1 DEF Servers
<1> HIDE DEF v2
<1>5. PairTypes'
  BY <1>1, <1>2, <1>3, <1>4 DEF PairTypes
<1>6. /\ c \in Waiting /\ c \notin Waiting'
      /\ \A d : d # c => (d \in Waiting <=> d \in Waiting')
  <2>1. Waiting = {backlog[k] : k \in 1 .. Len(backlog)}
    BY <1>3 DEF Waiting
  <2>2. Waiting' = {backlog[k + 1] : k \in 1 .. Len(backlog) - 1}
    BY <1>1, <1>3 DEF Waiting
  <2>3. c \in Waiting
    BY <1>3, <2>1
  <2>4. ASSUME NEW k \in 1 .. Len(backlog) - 1, backlog[k + 1] = c PROVE FALSE
    <3>1. k + 1 \in 1 .. Len(backlog) /\ 1 \in 1 .. Len(backlog) /\ k + 1 # 1
      BY <1>3
    <3> QED
      BY <1>2, <1>3, <2>4, <3>1 DEF BacklogInv
  <2>5. ASSUME NEW d \in Waiting, d # c PROVE d \in Waiting'
    <3>1. PICK k \in 1 .. Len(backlog) : d = backlog[k]
      BY <2>1, <2>5
    <3>2. k # 1 /\ k - 1 \in 1 .. Len(backlog) - 1 /\ (k - 1) + 1 = k
      BY <1>3, <2>5, <3>1
    <3> QED
      BY <2>2, <3>1, <3>2
  <2>6. ASSUME NEW d \in Waiting' PROVE d \in Waiting
    <3>1. PICK k \in 1 .. Len(backlog) - 1 : d = backlog[k + 1]
      BY <2>2, <2>6
    <3>2. k + 1 \in 1 .. Len(backlog)
      BY <1>3
    <3> QED
      BY <2>1, <3>1, <3>2
  <2> QED
    BY <2>2, <2>3, <2>4, <2>5, <2>6
<1>7. ServerInv' /\ BacklogInv'
  <2>1. server'.stage = "request" /\ server'.peer = c /\ server'.i = 0 /\ server'.printed = <<>>
    BY <1>1, <1>4
  <2>2. ServerInv'
    BY <1>3, <2>1 DEF ServerInv, ReportsIntact
  <2>3. \A i, j \in 1 .. Len(backlog') : backlog'[i] = backlog'[j] => i = j
    <3> SUFFICES ASSUME NEW i \in 1 .. Len(backlog'), NEW j \in 1 .. Len(backlog'),
                        backlog'[i] = backlog'[j]
                 PROVE  i = j
      OBVIOUS
    <3>1. /\ i + 1 \in 1 .. Len(backlog) /\ j + 1 \in 1 .. Len(backlog)
          /\ backlog[i + 1] = backlog[j + 1]
      BY <1>1, <1>3
    <3>2. i + 1 = j + 1
      BY <1>2, <3>1 DEF BacklogInv
    <3> QED
      BY <3>2
  <2> QED
    BY <1>6, <2>1, <2>2, <2>3 DEF BacklogInv
<1>8. \A d \in Clients : Place(d) # "served" /\ d # c => Place(d)' = Place(d)
  BY <1>1, <1>4, <1>6 DEF Place, Serving, Starting
<1>9. View(c)'
  <2>1. Place(c) = "queued" /\ Place(c)' = "served"
    BY <1>1, <1>4, <1>6 DEF Place, Serving, Starting
  <2>2. /\ Sees(c, "queued", server, client[c], All(up[c]), All(down[c]), cut[c])
        /\ client[c] \in Processes /\ cut[c] \in BOOLEAN
    BY <1>2, <1>3, <2>1 DEF PairInv, View, PairTypes
  <2>3. v2.i = server.i /\ v2.header = server.header
    BY <1>1, <1>4 DEF Starting
  <2>4. Sees(c, "served", v2, client[c], All(up[c]), All(down[c]), cut[c])
    BY <1>1, <1>4, <2>2, <2>3, ServerAccepts
  <2> QED
    BY <1>1, <2>1, <2>4 DEF View
<1>10. ASSUME NEW d \in Clients, d # c PROVE View(d)'
  <2>1. Place(d) # "served" /\ server'.peer # d /\ View(d)
    BY <1>1, <1>4, <1>10 DEF Place, Serving, Starting, PairInv
  <2> QED
    BY <1>1, <1>8, <1>10, <2>1, ViewKept
<1> QED
  BY <1>5, <1>7, <1>9, <1>10 DEF PairInv

\* What the server finds before it is the message that its stage calls for.
LEMMA ServedMessage ==
    ASSUME PairInv, Serving, NEW c, c = server.peer, NEW bytes, NEW message,
           \/ /\ server.stage = "request"
              /\ bytes = RequestBytes /\ message = RegisterRequest
           \/ /\ server.stage = "report"
              /\ bytes = ReportBytes[server.i] /\ message = ConsumptionReport
    PROVE  /\ Framed(bytes, message) /\ HeaderOf(message) # NoHeader
           /\ HeaderOf(message) \in Headers
           /\ bytes # <<>> /\ Payload(bytes) # <<>>
           /\ \/ Unread(server.header, All(up[c]), bytes, message)
              \/ Lost(server.header, All(up[c]), message)
<1>1. server.i \in DOMAIN ReportBytes
  BY ServedFacts DEF Servers, ReportBytes, ServerReports, ClientReports
<1>2. Framed(bytes, message)
  BY <1>1, ConversationIsFramed DEF Formats
<1>3. HeaderOf(message) # NoHeader /\ HeaderOf(message) \in Headers
  BY MessageHeaders DEF Headers
<1>4. Sees(c, "served", server, client[c], All(up[c]), All(down[c]), cut[c])
  BY ServedFacts
<1> QED
  BY <1>2, <1>3, <1>4, FramedParts DEF Sees, ServerView

\* The server reads the header of the message that its stage calls for.
LEMMA ReadHeaderKeeps ==
    ASSUME PairInv, ReadHeader
    PROVE  PairInv'
<1> SUFFICES ASSUME NEW c, c = server.peer PROVE PairInv'
  OBVIOUS
<1> DEFINE v2 == [server EXCEPT !.header = HeaderIn(up[c])]
           u2 == After(up[c], HeaderSize)
           bytes == IF server.stage = "request" THEN RequestBytes ELSE ReportBytes[server.i]
           message == IF server.stage = "request" THEN RegisterRequest ELSE ConsumptionReport
<1>0. /\ c \in Clients /\ server \in Servers /\ client[c] \in Processes
      /\ cut[c] \in BOOLEAN /\ up[c] \in Streams /\ down[c] \in Streams
      /\ Sees(c, "served", server, client[c], All(up[c]), All(down[c]), cut[c])
      /\ Len(server.printed) = server.i
      /\ \A j \in DOMAIN server.printed : server.printed[j] = ReportOf(j - 1)
      /\ down = [down EXCEPT ![c] = down[c]] /\ Serving
  BY ServedFacts DEF ReadHeader
<1>1. /\ server.header = NoHeader /\ Readable(up[c], HeaderSize) /\ server' = v2
      /\ up' = [up EXCEPT ![c] = u2] /\ down' = [down EXCEPT ![c] = down[c]]
      /\ backlog' = backlog /\ client' = client /\ cut' = cut
  BY <1>0 DEF ReadHeader, AtHeader
<1>2. \/ /\ server.stage = "request"
         /\ bytes = RequestBytes /\ message = RegisterRequest
      \/ /\ server.stage = "report"
         /\ bytes = ReportBytes[server.i] /\ message = ConsumptionReport
  BY <1>0 DEF Serving
<1> HIDE DEF bytes, message
<1>3. /\ Framed(bytes, message) /\ HeaderOf(message) # NoHeader
      /\ HeaderOf(message) \in Headers /\ bytes # <<>> /\ Payload(bytes) # <<>>
      /\ \/ Unread(server.header, All(up[c]), bytes, message)
         \/ Lost(server.header, All(up[c]), message)
  BY <1>0, <1>2, ServedMessage
<1>4. /\ All(up[c]) = bytes /\ HeaderIn(up[c]) = HeaderOf(message)
      /\ u2 \in Streams /\ All(u2) = Payload(bytes)
  BY <1>0, <1>1, <1>3, HeaderRead
<1> HIDE DEF u2
<1>5. /\ v2 \in Servers /\ v2.stage = server.stage /\ v2.i = server.i
      /\ v2.header = HeaderOf(message) /\ v2.printed = server.printed
      /\ v2.peer = server.peer
  BY <1>0, <1>3, <1>4 DEF Servers
<1> HIDE DEF v2
<1>6. Sees(c, "served", v2, client[c], All(u2), All(down[c]), cut[c])
  <2> DEFINE k == client[c]
             u == All(up[c])
             d == All(down[c])
             x == cut[c]
  <2>1. /\ k \in Processes /\ x \in BOOLEAN /\ Sees(c, "served", server, k, u, d, x)
        /\ server \in Servers /\ server.header = NoHeader /\ u = bytes
    BY <1>0, <1>1, <1>4
  <2> HIDE DEF k, u, d, x
  <2>2. Sees(c, "served", v2, k, Payload(bytes), d, x)
    BY <1>2, <1>3, <1>5, <2>1, ServerReadsHeader
  <2> QED
    BY <1>4, <2>2 DEF k, d, x
<1>7. /\ v2.stage \in {"request", "report"} /\ v2.peer = c /\ Len(v2.printed) = v2.i
      /\ \A j \in DOMAIN v2.printed : v2.printed[j] = ReportOf(j - 1)
  BY <1>0, <1>5 DEF Serving
<1>8. server.peer = c /\ UNCHANGED <<backlog, client, cut>>
  BY <1>1
<1> QED
  BY ONLY PairInv, <1>0, <1>1, <1>4, <1>5, <1>6, <1>7, <1>8, ServerMoves

\* The payload of the message is read and an answer written, unless its client has ended.
LEMMA PayloadOfServed ==
    ASSUME PairInv, Serving, NEW c, c = server.peer, NEW bytes, NEW message,
           server.header # NoHeader, Readable(up[c], Wanted(server)),
           \/ /\ server.stage = "request"
              /\ bytes = RequestBytes /\ message = RegisterRequest
           \/ /\ server.stage = "report"
              /\ bytes = ReportBytes[server.i] /\ message = ConsumptionReport
    PROVE  /\ server.header.type = message.type
           /\ Taken(up[c], Wanted(server)) = Payload(bytes)
           /\ All(up[c]) # <<>>
           /\ After(up[c], Wanted(server)) \in Streams
           /\ All(After(up[c], Wanted(server))) = <<>>
<1>1. /\ Framed(bytes, message) /\ Payload(bytes) # <<>>
      /\ \/ Unread(server.header, All(up[c]), bytes, message)
         \/ Lost(server.header, All(up[c]), message)
  BY ServedMessage
<1>2. up[c] \in Streams /\ Wanted(server) = server.header.payload_length
  BY ServedFacts DEF Wanted, AtHeader
<1> QED
  BY <1>1, <1>2, PayloadRead

\* An answer is all that a living client finds, and lost on one that has ended.
LEMMA AnswerWritten ==
    ASSUME PairInv, NEW c \in Clients, NEW message \in Seq(Byte), Answer(c, message),
           Alive(client[c]) => All(down[c]) = <<>>
    PROVE  \E d2 \in Streams :
              /\ down' = [down EXCEPT ![c] = d2]
              /\ All(d2) = IF Alive(client[c]) THEN message ELSE All(down[c])
<1>1. down[c] \in Streams /\ down = [down EXCEPT ![c] = down[c]]
  BY ClientFacts
<1>2. CASE Alive(client[c])
  <2>1. down' = [down EXCEPT ![c] = Written(down[c], message)]
    BY <1>2 DEF Answer, Alive
  <2>2. /\ Written(down[c], message) \in Streams
        /\ All(Written(down[c], message)) = message
    BY <1>1, <1>2, WriteAppends
  <2> QED
    BY <1>2, <2>1, <2>2
<1>3. CASE ~Alive(client[c])
  <2>1. down' = [down EXCEPT ![c] = down[c]]
    BY <1>1, <1>3 DEF Answer, Alive
  <2> QED
    BY <1>1, <1>3, <2>1
<1> QED
  BY <1>2, <1>3

\* The request is read: it is a REGISTER_REQ, and the server goes on.
LEMMA RegisterKeeps ==
    ASSUME PairInv, Register
    PROVE  PairInv'
<1> SUFFICES ASSUME NEW c, c = server.peer PROVE PairInv'
  OBVIOUS
<1> DEFINE v2 == [server EXCEPT !.stage = "report", !.header = NoHeader]
           u2 == After(up[c], Wanted(server))
<1>0. /\ server.stage = "request" /\ server.header # NoHeader /\ Serving
      /\ Readable(up[c], Wanted(server))
  BY DEF Register, AtHeader, Serving
<1>1. /\ c \in Clients /\ server \in Servers /\ client[c] \in Processes
      /\ cut[c] \in BOOLEAN /\ up[c] \in Streams /\ down[c] \in Streams
      /\ Sees(c, "served", server, client[c], All(up[c]), All(down[c]), cut[c])
      /\ Len(server.printed) = server.i
      /\ \A j \in DOMAIN server.printed : server.printed[j] = ReportOf(j - 1)
  BY <1>0, ServedFacts
<1>2. /\ server.header.type = RegisterRequest.type
      /\ All(up[c]) # <<>> /\ u2 \in Streams /\ All(u2) = <<>>
  BY <1>0, PayloadOfServed
<1>3. /\ Answer(c, RegisterAckBytes)
      /\ GoOn([server EXCEPT !.stage = "report"], Wanted(server)) /\ client' = client
  BY <1>2 DEF Register
<1>4. /\ server' = v2 /\ up' = [up EXCEPT ![c] = u2] /\ UNCHANGED <<backlog, client, cut>>
  BY <1>1, <1>3 DEF GoOn, Servers
<1> HIDE DEF u2
<1>5. /\ v2 \in Servers /\ v2.stage = "report" /\ v2.i = server.i /\ v2.header = NoHeader
      /\ v2.printed = server.printed /\ v2.peer = c
  BY <1>1 DEF Servers, Headers
<1> HIDE DEF v2
<1>6. /\ Alive(client[c]) => All(down[c]) = <<>>
      /\ Sees(c, "served", v2, client[c], <<>>,
              IF Alive(client[c]) THEN RegisterAckBytes ELSE All(down[c]), cut[c])
  <2> DEFINE k == client[c]
             u == All(up[c])
             d == All(down[c])
             x == cut[c]
  <2>1. /\ k \in Processes /\ x \in BOOLEAN /\ Sees(c, "served", server, k, u, d, x)
        /\ server \in Servers /\ server.header # NoHeader /\ u # <<>>
        /\ v2.peer = server.peer
    BY <1>0, <1>1, <1>2, <1>5
  <2> HIDE DEF k, u, d, x
  <2>2. /\ Alive(k) => d = <<>>
        /\ Sees(c, "served", v2, k, <<>>, IF Alive(k) THEN RegisterAckBytes ELSE d, x)
    BY <1>0, <1>5, <2>1, ServerRegisters
  <2> QED
    BY <2>2 DEF k, d, x
<1>7. RegisterAckBytes \in Seq(Byte)
  BY FramedParts, ConversationIsFramed DEF Formats
<1>8. PICK d2 \in Streams :
         /\ down' = [down EXCEPT ![c] = d2]
         /\ All(d2) = IF Alive(client[c]) THEN RegisterAckBytes ELSE All(down[c])
  BY <1>1, <1>3, <1>6, <1>7, AnswerWritten
<1>9. /\ Sees(c, "served", v2, client[c], All(u2), All(d2), cut[c])
      /\ v2.stage \in {"request", "report"} /\ Len(v2.printed) = v2.i /\ server.peer = c
      /\ \A j \in DOMAIN v2.printed : v2.printed[j] = ReportOf(j - 1)
  BY <1>1, <1>2, <1>5, <1>6, <1>8
<1> QED
  BY ONLY PairInv, <1>0, <1>1, <1>2, <1>4, <1>5, <1>8, <1>9, ServerMoves

\* The server ends: all streams towards it are gone, and the backlog with them.
LEMMA ExitKeeps ==
    ASSUME PairInv, server.stage # "off", NEW v2 \in Servers, server' = v2,
           v2.stage = "off", v2.header = NoHeader, v2.peer = server.peer,
           \A j \in DOMAIN v2.printed : v2.printed[j] = ReportOf(j - 1),
           backlog' = <<>>, client' = client, up' = [d \in Clients |-> Silent],
           down' \in [Clients -> Streams],
           \A d \in Clients : d # server.peer => down'[d] = down[d],
           NEW broken \in {Waiting, Connected},
           cut' = [d \in Clients |-> cut[d] \/ d \in broken],
           Serving => Sees(server.peer, "away", v2, client[server.peer], <<>>,
                           All(down'[server.peer]), cut'[server.peer])
    PROVE  PairInv'
<1>1. PairTypes /\ ServerInv /\ BacklogInv /\ \A d \in Clients : View(d)
  BY DEF PairInv
<1>2. PairTypes'
  <2>1. /\ <<>> \in Seq(Clients)
        /\ up' \in [Clients -> Streams]
    BY SilentIsEmpty, EmptySeq
  <2>2. cut' \in [Clients -> BOOLEAN]
    OBVIOUS
  <2> QED
    BY <1>1, <2>1, <2>2 DEF PairTypes
<1>3. ServerInv' /\ BacklogInv'
  <2>1. ~Serving' /\ server'.stage = "off" /\ server'.header = NoHeader
    BY DEF Serving
  <2>2. Len(backlog') = 0
    BY EmptySeq
  <2> QED
    BY <2>1, <2>2 DEF ServerInv, BacklogInv, ReportsIntact
<1>4. ASSUME NEW d \in Clients, ~(Serving /\ server.peer = d) PROVE View(d)'
  <2>1. d # server.peer
    BY <1>1, <1>4, ClientsAssumption
    DEF PairTypes, Servers, ServerInv, Serving, Starting, Nobody
  <2>2. d \in broken <=> d \in Waiting
    BY <1>4 DEF Connected
  <2>3. /\ up'[d] = Silent /\ client'[d] = client[d] /\ down'[d] = down[d]
        /\ cut'[d] = (cut[d] \/ d \in Waiting)
    BY <2>1, <2>2
  <2> QED
    BY <1>4, <2>3, OthersLeft
<1>5. ASSUME NEW d \in Clients, Serving, server.peer = d PROVE View(d)'
  <2>1. Place(d)' = "away" /\ All(up'[d]) = <<>>
    BY SilentIsEmpty DEF Place, Serving, Waiting
  <2>2. Sees(d, "away", server', client'[d], <<>>, All(down'[d]), cut'[d])
    BY <1>5
  <2> QED
    BY <2>1, <2>2 DEF View
<1> QED
  BY <1>2, <1>3, <1>4, <1>5 DEF PairInv

\* A report is read and printed; after the fifth the server ends.
LEMMA ReportKeeps ==
    ASSUME PairInv, Report
    PROVE  PairInv'
<1> SUFFICES ASSUME NEW c, c = server.peer PROVE PairInv'
  OBVIOUS
<1> DEFINE printed == Append(server.printed, ReportOf(server.i))
           u2 == After(up[c], Wanted(server))
           sent == IF Alive(client[c]) THEN ConsumptionAckBytes ELSE All(down[c])
<1>0. /\ server.stage = "report" /\ server.header # NoHeader /\ Serving
      /\ Readable(up[c], Wanted(server))
  BY DEF Report, AtHeader, Serving
<1>1. /\ c \in Clients /\ server \in Servers /\ client[c] \in Processes
      /\ cut[c] \in BOOLEAN /\ up[c] \in Streams /\ down[c] \in Streams
      /\ Sees(c, "served", server, client[c], All(up[c]), All(down[c]), cut[c])
      /\ Len(server.printed) = server.i
      /\ \A j \in DOMAIN server.printed : server.printed[j] = ReportOf(j - 1)
  BY <1>0, ServedFacts
<1>2. /\ server.header.type = ConsumptionReport.type
      /\ Taken(up[c], Wanted(server)) = Payload(ReportBytes[server.i])
      /\ All(up[c]) # <<>> /\ u2 \in Streams /\ All(u2) = <<>>
  BY <1>0, PayloadOfServed
<1>3. /\ server.i \in 0 .. ServerReports - 1
      /\ Deserialize(ConsumptionReport, Payload(ReportBytes[server.i])) = ReportOf(server.i)
  BY <1>1, ConversationIsFramed DEF Formats, Servers, ReportBytes, ServerReports, ClientReports
<1>4. /\ printed \in Seq(Reports) /\ Len(printed) = server.i + 1
      /\ \A j \in DOMAIN printed : printed[j] = ReportOf(j - 1)
  <2>1. server.printed \in Seq(Reports) /\ ReportOf(server.i) \in Reports
    BY <1>1, <1>3 DEF Servers, Reports, ServerReports, ClientReports
  <2>2. /\ printed \in Seq(Reports) /\ Len(printed) = Len(server.printed) + 1
        /\ \A j \in 1 .. Len(server.printed) : printed[j] = server.printed[j]
        /\ printed[Len(server.printed) + 1] = ReportOf(server.i)
    BY <2>1, AppendProperties
  <2> HIDE DEF printed
  <2>3. /\ DOMAIN printed = 1 .. server.i + 1 /\ server.i \in Nat
        /\ DOMAIN server.printed = 1 .. server.i
    BY <1>1, <1>3, <2>1, <2>2, LenProperties
  <2>4. ASSUME NEW j \in 1 .. server.i + 1 PROVE printed[j] = ReportOf(j - 1)
    <3>1. CASE j = server.i + 1
      BY <1>1, <2>2, <2>3, <3>1
    <3>2. CASE j # server.i + 1
      <4>1. j \in 1 .. server.i
        BY <2>3, <3>2
      <4> QED
        BY <1>1, <2>2, <2>3, <4>1
    <3> QED
      BY <3>1, <3>2
  <2> QED
    BY <1>1, <2>2, <2>3, <2>4
<1>5. /\ Answer(c, ConsumptionAckBytes) /\ client' = client
      /\ IF server.i + 1 < ServerReports
         THEN GoOn([server EXCEPT !.i = @ + 1, !.printed = printed], Wanted(server))
         ELSE Exit([server EXCEPT !.printed = printed], Waiting)
  BY <1>2, <1>3 DEF Report
<1> HIDE DEF printed, u2
<1>6. ConsumptionAckBytes \in Seq(Byte)
  BY FramedParts, ConversationIsFramed DEF Formats
<1>7. CASE server.i + 1 < ServerReports
  <2> DEFINE v2 == [server EXCEPT !.i = server.i + 1, !.printed = printed,
                                  !.header = NoHeader]
  <2>1. /\ server' = v2 /\ up' = [up EXCEPT ![c] = u2]
        /\ UNCHANGED <<backlog, client, cut>>
    BY <1>1, <1>5, <1>7 DEF GoOn, Servers, u2
  <2>2. server.i + 1 \in 0 .. ServerReports - 1
    BY <1>3, <1>7 DEF ServerReports
  <2>3. /\ v2 \in Servers /\ v2.stage = "report" /\ v2.i = server.i + 1
        /\ v2.header = NoHeader /\ v2.printed = printed /\ v2.peer = c
    BY <1>0, <1>1, <1>4, <2>2 DEF Servers, Headers
  <2> HIDE DEF v2
  <2>4. /\ Alive(client[c]) => All(down[c]) = <<>>
        /\ Sees(c, "served", v2, client[c], <<>>, sent, cut[c])
    <3> DEFINE k == client[c]
               u == All(up[c])
               d == All(down[c])
               x == cut[c]
    <3>1. /\ k \in Processes /\ x \in BOOLEAN /\ Sees(c, "served", server, k, u, d, x)
          /\ server \in Servers /\ server.header # NoHeader /\ u # <<>>
          /\ v2.peer = server.peer /\ v2.stage = server.stage
          /\ sent = IF Alive(k) THEN ConsumptionAckBytes ELSE d
      BY <1>0, <1>1, <1>2, <2>3
    <3> HIDE DEF k, u, d, x, sent
    <3>2. /\ Alive(k) => d = <<>>
          /\ Sees(c, "served", v2, k, <<>>, IF Alive(k) THEN ConsumptionAckBytes ELSE d, x)
      BY <1>0, <1>4, <2>3, <3>1, ServerGoesOn
    <3> QED
      BY <3>1, <3>2 DEF k, d, x
  <2>5. PICK d2 \in Streams : down' = [down EXCEPT ![c] = d2] /\ All(d2) = sent
    BY <1>1, <1>5, <1>6, <2>4, AnswerWritten
  <2>6. /\ Sees(c, "served", v2, client[c], All(u2), All(d2), cut[c])
        /\ v2.stage \in {"request", "report"} /\ Len(v2.printed) = v2.i /\ server.peer = c
        /\ \A j \in DOMAIN v2.printed : v2.printed[j] = ReportOf(j - 1)
    BY <1>2, <1>4, <2>3, <2>4, <2>5
  <2> QED
    BY ONLY PairInv, <1>0, <1>1, <1>2, <2>1, <2>3, <2>5, <2>6, ServerMoves
<1>8. CASE ~(server.i + 1 < ServerReports)
  <2> DEFINE v2 == [server EXCEPT !.printed = printed, !.stage = "off",
                                  !.header = NoHeader]
  <2>1. /\ server' = v2 /\ backlog' = <<>> /\ up' = [d \in Clients |-> Silent]
        /\ cut' = [d \in Clients |-> cut[d] \/ d \in Waiting]
    BY <1>1, <1>5, <1>8 DEF Exit, Servers
  <2>2. server.i + 1 = ServerReports
    BY <1>3, <1>8 DEF ServerReports
  <2>3. /\ v2 \in Servers /\ v2.stage = "off" /\ v2.header = NoHeader
        /\ v2.printed = printed /\ v2.peer = server.peer
    BY <1>1, <1>4 DEF Servers, Headers
  <2> HIDE DEF v2
  <2>4. /\ Alive(client[c]) => All(down[c]) = <<>>
        /\ Sees(c, "away", v2, client[c], <<>>, sent, cut[c])
    <3> DEFINE k == client[c]
               u == All(up[c])
               d == All(down[c])
               x == cut[c]
    <3>1. /\ k \in Processes /\ x \in BOOLEAN /\ Sees(c, "served", server, k, u, d, x)
          /\ server \in Servers /\ server.header # NoHeader /\ u # <<>>
          /\ sent = IF Alive(k) THEN ConsumptionAckBytes ELSE d
          /\ Len(v2.printed) = server.i + 1
      BY <1>0, <1>1, <1>2, <1>4, <2>3
    <3> HIDE DEF k, u, d, x, sent
    <3>2. /\ Alive(k) => d = <<>>
          /\ Sees(c, "away", v2, k, <<>>, IF Alive(k) THEN ConsumptionAckBytes ELSE d, x)
      BY <1>0, <2>2, <3>1, ServerIsDone
    <3> QED
      BY <3>1, <3>2 DEF k, d, x
  <2>5. PICK d2 \in Streams : down' = [down EXCEPT ![c] = d2] /\ All(d2) = sent
    BY <1>1, <1>5, <1>6, <2>4, AnswerWritten
  <2>6. /\ down' \in [Clients -> Streams] /\ down'[c] = d2
        /\ \A d \in Clients : d # c => down'[d] = down[d]
    BY <1>1, <2>5 DEF PairInv, PairTypes
  <2>7. cut'[c] = cut[c]
    BY <1>0, <1>1, <2>1 DEF PairInv, BacklogInv
  <2>8. Sees(c, "away", v2, client[c], <<>>, All(down'[c]), cut'[c])
    BY <2>4, <2>5, <2>6, <2>7
  <2>9. /\ \A j \in DOMAIN v2.printed : v2.printed[j] = ReportOf(j - 1)
        /\ \A d \in Clients : d # server.peer => down'[d] = down[d]
        /\ Serving => Sees(server.peer, "away", v2, client[server.peer], <<>>,
                           All(down'[server.peer]), cut'[server.peer])
        /\ server.stage # "off" /\ Waiting \in {Waiting, Connected}
    BY <1>0, <1>4, <2>3, <2>6, <2>8
  <2> QED
    BY ONLY PairInv, <1>5, <2>1, <2>3, <2>6, <2>9, ExitKeeps
<1> QED
  BY <1>7, <1>8

\* The client of a server has ended before its report was there.
LEMMA ReadThrowsKeeps ==
    ASSUME PairInv, ReadThrows
    PROVE  PairInv'
<1> SUFFICES ASSUME NEW c, c = server.peer PROVE PairInv'
  OBVIOUS
<1> DEFINE v2 == [server EXCEPT !.stage = "off", !.header = NoHeader]
<1>0. /\ c \in Clients /\ server \in Servers /\ cut[c] \in BOOLEAN /\ Serving
      /\ Sees(c, "served", server, client[c], All(up[c]), All(down[c]), cut[c])
      /\ \A j \in DOMAIN server.printed : server.printed[j] = ReportOf(j - 1)
      /\ server.stage # "off" /\ ~Alive(client[c])
  BY ServedFacts DEF ReadThrows, Serving, Alive
<1>1. /\ server' = v2 /\ backlog' = <<>> /\ up' = [d \in Clients |-> Silent]
      /\ cut' = [d \in Clients |-> cut[d] \/ d \in Waiting]
      /\ client' = client /\ down' = down
  BY DEF ReadThrows, Exit
<1>2. /\ v2 \in Servers /\ v2.stage = "off" /\ v2.header = NoHeader
      /\ v2.printed = server.printed /\ v2.peer = server.peer
  BY <1>0 DEF Servers, Headers
<1> HIDE DEF v2
<1>3. (cut[c] => cut'[c]) /\ cut'[c] \in BOOLEAN
  BY <1>0, <1>1
<1>4. Sees(c, "away", v2, client[c], <<>>, All(down[c]), cut'[c])
  <2> DEFINE k == client[c]
             u == All(up[c])
             d == All(down[c])
             x == cut[c]
             y == cut'[c]
  <2>1. /\ Sees(c, "served", server, k, u, d, x) /\ ~Alive(k) /\ y \in BOOLEAN
        /\ x => y
    BY <1>0, <1>3
  <2> HIDE DEF k, u, d, x, y
  <2>2. Sees(c, "away", v2, k, <<>>, d, y)
    BY <1>2, <2>1, ServerLeaves
  <2> QED
    BY <2>2 DEF k, d, y
<1>5. /\ \A j \in DOMAIN v2.printed : v2.printed[j] = ReportOf(j - 1)
      /\ down' \in [Clients -> Streams]
      /\ \A d \in Clients : d # server.peer => down'[d] = down[d]
      /\ Serving => Sees(server.peer, "away", v2, client[server.peer], <<>>,
                         All(down'[server.peer]), cut'[server.peer])
      /\ server.stage # "off" /\ Waiting \in {Waiting, Connected}
  BY <1>0, <1>1, <1>2, <1>4 DEF PairInv, PairTypes
<1> QED
  BY ONLY PairInv, <1>1, <1>2, <1>5, ExitKeeps

\* The server is killed: every connection it had is cut.
LEMMA KillServerKeeps ==
    ASSUME PairInv, KillServer
    PROVE  PairInv'
<1> SUFFICES ASSUME NEW c, c = server.peer PROVE PairInv'
  OBVIOUS
<1> DEFINE v2 == [server EXCEPT !.stage = "off", !.header = NoHeader]
<1>0. /\ server \in Servers /\ server.stage # "off"
      /\ \A j \in DOMAIN server.printed : server.printed[j] = ReportOf(j - 1)
  BY DEF KillServer, PairInv, PairTypes, ServerInv, ReportsIntact
<1>1. /\ server' = v2 /\ backlog' = <<>> /\ up' = [d \in Clients |-> Silent]
      /\ cut' = [d \in Clients |-> cut[d] \/ d \in Connected]
      /\ client' = client
      /\ down' = down \/ (Serving /\ down' = [down EXCEPT ![c] = Silent])
  BY DEF KillServer, Exit
<1>2. /\ v2 \in Servers /\ v2.stage = "off" /\ v2.header = NoHeader
      /\ v2.printed = server.printed /\ v2.peer = server.peer
  BY <1>0 DEF Servers, Headers
<1> HIDE DEF v2
<1>3. /\ down' \in [Clients -> Streams]
      /\ \A d \in Clients : d # c => down'[d] = down[d]
      /\ \A d \in Clients : down'[d] = down[d] \/ down'[d] = Silent
  BY <1>1, SilentIsEmpty DEF PairInv, PairTypes
<1>4. ASSUME Serving
      PROVE  Sees(c, "away", v2, client[c], <<>>, All(down'[c]), cut'[c])
  <2> DEFINE k == client[c]
             u == All(up[c])
             d == All(down[c])
             b == All(down'[c])
             x == cut[c]
             y == cut'[c]
  <2>1. Sees(c, "served", server, k, u, d, x) /\ c \in Clients
    BY <1>4, ServedFacts
  <2>2. y = TRUE
    BY <1>1, <1>4, <2>1 DEF Connected
  <2>3. b = d \/ b = <<>>
    BY <1>3, <2>1, SilentIsEmpty
  <2> HIDE DEF k, u, d, b, x, y
  <2>4. Sees(c, "away", v2, k, <<>>, b, y)
    BY <1>2, <2>1, <2>2, <2>3, ServerLeaves
  <2> QED
    BY <2>4 DEF k, b, y
<1>5. /\ \A j \in DOMAIN v2.printed : v2.printed[j] = ReportOf(j - 1)
      /\ \A d \in Clients : d # server.peer => down'[d] = down[d]
      /\ Serving => Sees(server.peer, "away", v2, client[server.peer], <<>>,
                         All(down'[server.peer]), cut'[server.peer])
      /\ Connected \in {Waiting, Connected}
  BY <1>0, <1>2, <1>3, <1>4
<1> QED
  BY ONLY PairInv, <1>0, <1>1, <1>2, <1>3, <1>5, ExitKeeps

-----------------------------------------------------------------------------
(* TCP and the user.                                                       *)

\* Bytes arrive.
LEMMA DeliveryKeeps ==
    ASSUME PairInv, NEW c \in Clients, DeliverUp(c) \/ DeliverDown(c)
    PROVE  PairInv'
<1>0. /\ client[c] \in Processes /\ cut[c] \in BOOLEAN /\ server \in Servers
      /\ up[c] \in Streams /\ down[c] \in Streams
      /\ Sees(c, Place(c), server, client[c], All(up[c]), All(down[c]), cut[c])
      /\ client = [client EXCEPT ![c] = client[c]]
      /\ up = [up EXCEPT ![c] = up[c]] /\ down = [down EXCEPT ![c] = down[c]]
      /\ cut = [cut EXCEPT ![c] = cut[c]]
  BY ClientFacts
<1>1. /\ server' = server /\ backlog' = backlog
      /\ client' = [client EXCEPT ![c] = client[c]] /\ cut' = [cut EXCEPT ![c] = cut[c]]
  BY <1>0 DEF DeliverUp, DeliverDown
<1>2. CASE DeliverUp(c)
  <2>1. PICK n \in Nat : up' = [up EXCEPT ![c] = Filled(up[c], n)]
    BY <1>2, ArrivalsAssumption DEF DeliverUp
  <2>2. down' = [down EXCEPT ![c] = down[c]]
    BY <1>0, <1>2 DEF DeliverUp
  <2> DEFINE u2 == Filled(up[c], n)
  <2>3. u2 \in Streams /\ All(u2) = All(up[c]) /\ up' = [up EXCEPT ![c] = u2]
    BY <1>0, <2>1, DeliveryKeepsBytes
  <2> HIDE DEF u2
  <2>4. Sees(c, Place(c), server, client[c], All(u2), All(down[c]), cut[c])
    BY <1>0, <2>3
  <2>5. /\ client[c] \in Processes /\ cut[c] \in BOOLEAN /\ down[c] \in Streams
    BY <1>0
  <2> QED
    BY ONLY PairInv, c \in Clients, <1>1, <2>2, <2>3, <2>4, <2>5, ClientMoves
<1>3. CASE DeliverDown(c)
  <2>1. PICK n \in Nat : down' = [down EXCEPT ![c] = Filled(down[c], n)]
    BY <1>3, ArrivalsAssumption DEF DeliverDown
  <2>2. up' = [up EXCEPT ![c] = up[c]]
    BY <1>0, <1>3 DEF DeliverDown
  <2> DEFINE d2 == Filled(down[c], n)
  <2>3. d2 \in Streams /\ All(d2) = All(down[c]) /\ down' = [down EXCEPT ![c] = d2]
    BY <1>0, <2>1, DeliveryKeepsBytes
  <2> HIDE DEF d2
  <2>4. Sees(c, Place(c), server, client[c], All(up[c]), All(d2), cut[c])
    BY <1>0, <2>3
  <2>5. /\ client[c] \in Processes /\ cut[c] \in BOOLEAN /\ up[c] \in Streams
    BY <1>0
  <2> QED
    BY ONLY PairInv, c \in Clients, <1>1, <2>2, <2>3, <2>4, <2>5, ClientMoves
<1> QED
  BY <1>2, <1>3

\* A client is started: refused if there is no server, else it joins the backlog.
LEMMA ConnectKeeps ==
    ASSUME PairInv, NEW c \in Clients, Connect(c)
    PROVE  PairInv'
<1>0. /\ client[c] \in Processes /\ cut[c] \in BOOLEAN /\ server \in Servers
      /\ up[c] \in Streams /\ down[c] \in Streams
      /\ Sees(c, Place(c), server, client[c], All(up[c]), All(down[c]), cut[c])
      /\ up = [up EXCEPT ![c] = up[c]] /\ down = [down EXCEPT ![c] = down[c]]
      /\ c \in Connected <=> Place(c) # "away"
  BY ClientFacts
<1>1. /\ client[c].stage \in Ended /\ Place(c) = "away"
      /\ server' = server /\ up' = up /\ down' = down
  BY <1>0 DEF Connect
<1>2. All(up[c]) = <<>> /\ All(down[c]) = <<>>
  BY <1>0, <1>1 DEF Sees, Away, ClientView, Nothing, Ended
<1>3. CASE server.stage = "off"
  <2> DEFINE k2 == [Connecting EXCEPT !.stage = "failed"]
  <2>1. /\ client' = [client EXCEPT ![c] = k2] /\ cut' = [cut EXCEPT ![c] = TRUE]
        /\ server' = server /\ backlog' = backlog
        /\ up' = [up EXCEPT ![c] = up[c]] /\ down' = [down EXCEPT ![c] = down[c]]
    BY <1>0, <1>1, <1>3 DEF Connect
  <2>2. k2 \in Processes /\ k2.stage = "failed" /\ k2.header = NoHeader
    BY DEF Connecting, Processes, Headers, Ended, ClientReports
  <2> HIDE DEF k2
  <2>3. Sees(c, Place(c), server, k2, All(up[c]), All(down[c]), TRUE)
    <3>1. ClientView(k2, <<>>) /\ ~HasAck(k2, <<>>) /\ Away(k2, <<>>, <<>>, TRUE)
      BY <2>2 DEF ClientView, Nothing, HasAck, Away
    <3> QED
      BY <1>1, <1>2, <3>1 DEF Sees
  <2>4. TRUE \in BOOLEAN
    OBVIOUS
  <2> QED
    BY ONLY PairInv, c \in Clients, <1>0, <2>1, <2>2, <2>3, <2>4, ClientMoves
<1>4. CASE server.stage # "off"
  <2>1. /\ client' = [client EXCEPT ![c] = Connecting] /\ cut' = [cut EXCEPT ![c] = FALSE]
        /\ backlog' = Append(backlog, c)
    BY <1>4 DEF Connect
  <2>2. PairTypes /\ ServerInv /\ BacklogInv /\ backlog \in Seq(Clients)
    BY DEF PairInv, PairTypes
  <2>3. /\ backlog' \in Seq(Clients) /\ Len(backlog') = Len(backlog) + 1
        /\ \A i \in 1 .. Len(backlog) : backlog'[i] = backlog[i]
        /\ backlog'[Len(backlog) + 1] = c
        /\ Len(backlog) \in Nat /\ DOMAIN backlog = 1 .. Len(backlog)
        /\ DOMAIN backlog' = 1 .. Len(backlog) + 1
    <3>1. /\ Append(backlog, c) \in Seq(Clients)
          /\ Len(Append(backlog, c)) = Len(backlog) + 1
          /\ \A i \in 1 .. Len(backlog) : Append(backlog, c)[i] = backlog[i]
          /\ Append(backlog, c)[Len(backlog) + 1] = c
      BY <2>2, AppendProperties
    <3> QED
      BY <2>1, <2>2, <3>1, LenProperties
  <2>4. Connecting \in Processes /\ Connecting.stage = "connected" /\ Connecting.i = 0
        /\ Connecting.header = NoHeader
    BY DEF Connecting, Processes, Headers, ClientReports
  <2>5. PairTypes'
    BY <1>1, <2>1, <2>2, <2>3, <2>4 DEF PairTypes
  <2>6. c \notin Waiting /\ ~(Serving /\ server.peer = c)
    BY <1>1 DEF Place
  <2>7. \A d : d \in Waiting' <=> d \in Waiting \/ d = c
    <3>1. Waiting = {backlog[k] : k \in 1 .. Len(backlog)}
      BY <2>3 DEF Waiting
    <3>2. Waiting' = {backlog'[k] : k \in 1 .. Len(backlog) + 1}
      BY <2>3 DEF Waiting
    <3>3. c \in Waiting'
      BY <2>3, <3>2
    <3>4. ASSUME NEW d \in Waiting PROVE d \in Waiting'
      BY <2>3, <3>1, <3>2
    <3>5. ASSUME NEW d \in Waiting', d # c PROVE d \in Waiting
      BY <2>3, <3>1, <3>2, <3>5
    <3> QED
      BY <3>3, <3>4, <3>5
  <2>8. ServerInv' /\ BacklogInv'
    <3>1. ServerInv'
      BY <1>1, <1>4, <2>2 DEF ServerInv, Serving, ReportsIntact
    <3>2. \A i, j \in 1 .. Len(backlog') : backlog'[i] = backlog'[j] => i = j
      <4>1. \A i \in 1 .. Len(backlog) : backlog[i] # c
        BY <2>3, <2>6 DEF Waiting
      <4>2. \A i, j \in 1 .. Len(backlog) : backlog[i] = backlog[j] => i = j
        BY <2>2 DEF BacklogInv
      <4> QED
        BY <2>3, <4>1, <4>2
    <3>3. Serving' => server'.peer \notin Waiting'
      BY <1>1, <2>2, <2>6, <2>7 DEF BacklogInv, Serving
    <3> QED
      BY <3>1, <3>2, <3>3 DEF BacklogInv
  <2>9. /\ Place(c)' = "queued"
        /\ \A d : d # c => Place(d)' = Place(d)
    BY <1>1, <2>6, <2>7 DEF Place, Serving
  <2>10. View(c)'
    <3>1. client'[c] = Connecting /\ cut'[c] = FALSE
      BY <2>1, <2>2 DEF PairTypes
    <3>2. /\ ClientView(Connecting, <<>>) /\ ~HasAck(Connecting, <<>>)
          /\ Queued(Connecting, <<>>, <<>>)
      BY <2>4 DEF ClientView, Nothing, HasAck, Queued, Ended
    <3>3. Sees(c, "queued", server, Connecting, <<>>, <<>>, FALSE)
      BY <2>4, <3>2 DEF Sees
    <3> QED
      BY <1>1, <1>2, <2>9, <3>1, <3>3 DEF View
  <2>11. ASSUME NEW d \in Clients, d # c PROVE View(d)'
    <3>1. client'[d] = client[d] /\ cut'[d] = cut[d] /\ View(d)
      BY <2>1, <2>2, <2>11 DEF PairTypes, PairInv
    <3> QED
      BY <1>1, <2>9, <2>11, <3>1, ViewKept
  <2> QED
    BY <2>5, <2>8, <2>10, <2>11 DEF PairInv
<1> QED
  BY <1>3, <1>4

-----------------------------------------------------------------------------
(* The invariant of the pair, and the properties that follow from it.      *)

\* The invariant holds before anything was started.
LEMMA PairInvInit == Init => PairInv
<1> SUFFICES ASSUME Init PROVE PairInv
  OBVIOUS
<1> DEFINE k == [Connecting EXCEPT !.stage = "off"]
<1>1. /\ server = [Starting EXCEPT !.stage = "off"] /\ backlog = <<>>
      /\ client = [c \in Clients |-> k]
      /\ up = [c \in Clients |-> Silent] /\ down = [c \in Clients |-> Silent]
      /\ cut = [c \in Clients |-> FALSE]
  BY DEF Init
<1>2. k \in Processes /\ k.stage = "off" /\ k.header = NoHeader
  BY DEF Connecting, Processes, Headers, Ended, ClientReports
<1> HIDE DEF k
<1>3. /\ server.stage = "off" /\ server.peer = Nobody /\ server.header = NoHeader
      /\ server.printed = <<>> /\ server \in Servers
  <2>1. Starting \in Servers
    <3>1. <<>> \in Seq(Reports)
      BY EmptySeq
    <3> QED
      BY <3>1 DEF Starting, Servers, Headers, ServerReports
  <2>2. server \in Servers /\ server.stage = "off"
    BY <1>1, <2>1 DEF Servers
  <2>3. server.peer = Nobody /\ server.header = NoHeader /\ server.printed = <<>>
    BY <1>1 DEF Starting
  <2> QED
    BY <2>2, <2>3
<1>4. PairTypes
  <2>1. backlog \in Seq(Clients)
    BY <1>1, EmptySeq
  <2> QED
    BY <1>1, <1>2, <1>3, <2>1, SilentIsEmpty DEF PairTypes
<1>5. ServerInv /\ BacklogInv
  <2>1. Len(backlog) = 0 /\ ~Serving /\ DOMAIN server.printed = {}
    BY <1>1, <1>3, EmptySeq DEF Serving
  <2> QED
    BY <1>1, <1>3, <2>1 DEF ServerInv, BacklogInv, ReportsIntact
<1>6. ASSUME NEW c \in Clients PROVE View(c)
  <2>1. Place(c) = "away"
    BY <1>1, <1>3 DEF Place, Serving, Waiting
  <2>2. /\ client[c] = k /\ All(up[c]) = <<>> /\ All(down[c]) = <<>>
    BY <1>1, SilentIsEmpty
  <2>3. ClientView(k, <<>>) /\ ~HasAck(k, <<>>) /\ Away(k, <<>>, <<>>, cut[c])
    BY <1>2 DEF ClientView, Nothing, HasAck, Away, Alive, Ended
  <2> QED
    BY <1>2, <2>1, <2>2, <2>3 DEF View, Sees
<1> QED
  BY <1>4, <1>5, <1>6 DEF PairInv

\* Every step keeps it.
LEMMA PairInvStep ==
    ASSUME PairInv, [Next]_vars
    PROVE  PairInv'
<1>1. CASE ServerStep
  BY <1>1, AcceptKeeps, ReadHeaderKeeps, RegisterKeeps, ReportKeeps, ReadThrowsKeeps
  DEF ServerStep
<1>2. ASSUME NEW c \in Clients, ClientStep(c)
      PROVE  PairInv'
  BY <1>2, SendRequestKeeps, ReadAckHeaderKeeps, ReadRegisterAckKeeps, SendReportKeeps,
     ReadConsumptionAckKeeps, WakeKeeps, AckThrowsKeeps
  DEF ClientStep
<1>3. CASE UserStep
  BY <1>3, StartServerKeeps, KillServerKeeps, ConnectKeeps, KillClientKeeps DEF UserStep
<1>4. CASE UNCHANGED vars
  BY <1>4
  DEF vars, PairInv, PairTypes, ServerInv, BacklogInv, View, Place, Serving, Waiting,
      ReportsIntact
<1> QED
  BY <1>1, <1>2, <1>3, <1>4, DeliveryKeeps DEF Next

\* PairInv is an invariant of the pair, for every set of clients and every fragmentation.
THEOREM PairIsKept == Spec => []PairInv
<1>1. Init => PairInv
  BY PairInvInit
<1>2. PairInv /\ [Next]_vars => PairInv'
  BY PairInvStep
<1> QED
  BY <1>1, <1>2, PTL DEF Spec

\* What the invariant says of a client that sleeps or has failed.
LEMMA ThePairAgrees ==
    ASSUME PairInv, NEW c \in Clients
    PROVE  /\ client[c].stage = "failed" => cut[c]
           /\ client[c].stage = "sleeping" =>
                 /\ c = server.peer => Len(server.printed) = client[c].i + 1
                 /\ down[c] = Silent
<1>1. /\ Sees(c, Place(c), server, client[c], All(up[c]), All(down[c]), cut[c])
      /\ down[c] \in Streams
  BY ClientFacts
<1>2. ASSUME client[c].stage = "sleeping" PROVE down[c] = Silent
  <2>1. All(down[c]) = <<>>
    BY <1>1, <1>2 DEF Sees, ClientView, Nothing
  <2> QED
    BY <1>1, <2>1, SilentIsEmpty
<1>3. ASSUME client[c].stage = "sleeping", c = server.peer
      PROVE  Len(server.printed) = client[c].i + 1
  BY <1>1, <1>3 DEF Sees, HasAck
<1>4. client[c].stage = "failed" => cut[c]
  BY <1>1 DEF Sees
<1> QED
  BY <1>2, <1>3, <1>4

\* Whenever a client goes to sleep the server has printed exactly the reports of its
\* iterations so far, and no acknowledgement is left unread.
THEOREM ProgramsStayInLockStep == Spec => []LockStep
<1>1. PairInv => LockStep
  BY ThePairAgrees DEF LockStep
<1> QED
  BY <1>1, PairIsKept, PTL

\* The two loops of five stay together: a client whose connection was not cut by a kill, a
\* refusal or a reset never fails.
THEOREM NobodyFailsUncut == Spec => []FailsOnlyWhenCut
<1>1. PairInv => FailsOnlyWhenCut
  BY ThePairAgrees DEF FailsOnlyWhenCut
<1> QED
  BY <1>1, PairIsKept, PTL

\* The server prints the reports in the order and with the values in which they were sent,
\* however TCP cuts the stream.
THEOREM PrintedIsSent == Spec => []ReportsIntact
<1>1. PairInv => ReportsIntact
  BY DEF PairInv, ServerInv
<1> QED
  BY <1>1, PairIsKept, PTL

\* Both programs wait for bytes that nobody has written.
BothStarve(c) ==
    /\ Serving /\ server.peer = c /\ Reading(c)
    /\ Starved(up[c], Wanted(server))
    /\ Starved(down[c], Wanted(client[c]))

\* Both programs block in asio::read without a timeout; while both live, they never do so
\* for each other: one of them has all the bytes that it asked for arrived or under way.
THEOREM NeitherWaitsForTheOther == Spec => [](\A c \in Clients : ~BothStarve(c))
<1>1. ASSUME PairInv, NEW c \in Clients, Serving, server.peer = c, Reading(c)
      PROVE  \/ ~Starved(up[c], Wanted(server))
             \/ ~Starved(down[c], Wanted(client[c]))
  <2>1. Place(c) = "served" /\ Alive(client[c])
    BY <1>1 DEF Place, Reading, Alive, Ended
  <2>2. Together(server, client[c], All(up[c]), All(down[c]))
    BY <1>1, <2>1, ClientFacts DEF Sees
  <2>3. /\ up[c] \in Streams /\ down[c] \in Streams
        /\ client[c].i \in 0 .. ClientReports - 1
    BY <1>1, ClientFacts DEF Processes
  <2>4. /\ Framed(RequestBytes, RegisterRequest) /\ Framed(RegisterAckBytes, RegisterAck)
        /\ Framed(ConsumptionAckBytes, ConsumptionAck)
        /\ Framed(ReportBytes[client[c].i], ConsumptionReport)
    BY <2>3, ConversationIsFramed DEF Formats, ReportBytes
  <2>5. CASE client[c].stage = "registering"
    <3>1. CASE Requested(server, client[c], All(up[c]), All(down[c]))
      BY <2>3, <2>4, <3>1, UnreadIsReadable, MessageHeaders DEF Requested
    <3>2. CASE Accepted(server, client[c], All(up[c]), All(down[c]))
      BY <2>3, <2>4, <3>2, UnreadIsReadable, MessageHeaders DEF Accepted
    <3> QED
      BY <2>2, <2>5, <3>1, <3>2 DEF Together
  <2>6. CASE client[c].stage = "reporting"
    <3>1. CASE Reported(server, client[c], All(up[c]), All(down[c]))
      BY <2>3, <2>4, <3>1, UnreadIsReadable, MessageHeaders DEF Reported
    <3>2. CASE Acknowledged(server, client[c], All(up[c]), All(down[c]))
      BY <2>3, <2>4, <3>2, UnreadIsReadable, MessageHeaders DEF Acknowledged
    <3> QED
      BY <2>2, <2>6, <3>1, <3>2 DEF Together
  <2> QED
    BY <1>1, <2>5, <2>6 DEF Reading
<1>2. PairInv => \A c \in Clients : ~BothStarve(c)
  BY <1>1 DEF BothStarve
<1> QED
  BY <1>2, PairIsKept, PTL

\* The lengths of what is on its way: TypeOK bounds both streams by one message.
LEMMA OneMessageAtMost ==
    ASSUME PairInv, NEW c \in Clients
    PROVE  /\ Len(up[c].flight \o up[c].arrived) <= Len(ReportBytes[0])
           /\ Len(down[c].flight \o down[c].arrived) <= Len(ConsumptionAckBytes)
<1> DEFINE u == All(up[c])
           d == All(down[c])
           b == Len(ReportBytes[0])
           a == Len(ConsumptionAckBytes)
<1>0. /\ client[c] \in Processes /\ server \in Servers
      /\ up[c] \in Streams /\ down[c] \in Streams
      /\ Sees(c, Place(c), server, client[c], u, d, cut[c])
      /\ Place(c) \in {"served", "queued", "away"}
  BY ClientFacts
<1>1. /\ Len(up[c].flight \o up[c].arrived) = Len(u)
      /\ Len(down[c].flight \o down[c].arrived) = Len(d)
  <2>1. \A s \in Streams : Len(s.flight \o s.arrived) = Len(All(s))
    <3> SUFFICES ASSUME NEW s \in Streams
                 PROVE  Len(s.flight \o s.arrived) = Len(All(s))
      OBVIOUS
    <3>1. /\ s.arrived \in Seq(Byte) /\ s.flight \in Seq(Byte)
          /\ Len(All(s)) = Len(s.arrived) + Len(s.flight)
          /\ Len(s.arrived) \in Nat /\ Len(s.flight) \in Nat
      BY AllIsSequence
    <3>2. Len(s.flight \o s.arrived) = Len(s.flight) + Len(s.arrived)
      BY <3>1, ConcatProperties
    <3> DEFINE m == Len(s.arrived)
               n == Len(s.flight)
    <3>3. Len(All(s)) = m + n /\ Len(s.flight \o s.arrived) = n + m /\ m \in Nat /\ n \in Nat
      BY <3>1, <3>2
    <3> HIDE DEF m, n
    <3> QED
      BY <3>3
  <2> QED
    BY <1>0, <2>1
<1>2. 0 \in DOMAIN ReportBytes /\ server.i \in DOMAIN ReportBytes
  BY <1>0 DEF Servers, ReportBytes, ServerReports, ClientReports
<1>3. /\ b = HeaderSize + ConsumptionReport.length /\ ConsumptionReport.length \in Nat \ {0}
      /\ a = HeaderSize + ConsumptionAck.length /\ ConsumptionAck.length \in Nat \ {0}
  BY <1>2, FramedParts, ConversationIsFramed DEF Formats
<1>4. /\ Len(<<>>) = 0
      /\ Len(RequestBytes) <= b /\ Len(Payload(RequestBytes)) <= b
      /\ Len(ReportBytes[server.i]) <= b /\ Len(Payload(ReportBytes[server.i])) <= b
      /\ Len(RegisterAckBytes) <= a /\ Len(Payload(RegisterAckBytes)) <= a
      /\ Len(ConsumptionAckBytes) <= a /\ Len(Payload(ConsumptionAckBytes)) <= a
  <2>1. /\ Len(RequestBytes) = HeaderSize + RegisterRequest.length
        /\ Len(Payload(RequestBytes)) = RegisterRequest.length
        /\ RegisterRequest.length \in Nat /\ RegisterRequest.length <= ConsumptionReport.length
    BY FramedParts, ConversationIsFramed DEF Formats
  <2>2. /\ Len(ReportBytes[server.i]) = HeaderSize + ConsumptionReport.length
        /\ Len(Payload(ReportBytes[server.i])) = ConsumptionReport.length
    BY <1>2, FramedParts, ConversationIsFramed DEF Formats
  <2>3. /\ Len(RegisterAckBytes) = HeaderSize + RegisterAck.length
        /\ Len(Payload(RegisterAckBytes)) = RegisterAck.length
        /\ RegisterAck.length = ConsumptionAck.length
    BY FramedParts, ConversationIsFramed DEF Formats, RegisterAck, ConsumptionAck
  <2>4. Len(Payload(ConsumptionAckBytes)) = ConsumptionAck.length
    BY FramedParts, ConversationIsFramed DEF Formats
  <2>5. Len(<<>>) = 0
    BY EmptySeq
  <2> DEFINE m == RegisterRequest.length
             n == ConsumptionReport.length
             k == ConsumptionAck.length
  <2>6. /\ m \in Nat /\ m <= n /\ n \in Nat /\ k \in Nat /\ b = 4 + n /\ a = 4 + k
        /\ Len(RequestBytes) = 4 + m /\ Len(Payload(RequestBytes)) = m
        /\ Len(ReportBytes[server.i]) = 4 + n /\ Len(Payload(ReportBytes[server.i])) = n
        /\ Len(RegisterAckBytes) = 4 + k /\ Len(Payload(RegisterAckBytes)) = k
        /\ Len(ConsumptionAckBytes) = 4 + k /\ Len(Payload(ConsumptionAckBytes)) = k
    BY <1>3, <2>1, <2>2, <2>3, <2>4 DEF HeaderSize
  <2> HIDE DEF a, b, m, n, k
  <2> QED
    BY <2>5, <2>6
<1>5. u \in {<<>>, RequestBytes, Payload(RequestBytes), ReportBytes[server.i],
             Payload(ReportBytes[server.i])}
  <2>1. CASE Place(c) = "served"
    BY <1>0, <2>1 DEF Sees, ServerView, Place, Serving, Unread, Lost
  <2>2. CASE Place(c) = "queued"
    BY <1>0, <2>2 DEF Sees, Queued
  <2>3. CASE Place(c) = "away"
    BY <1>0, <2>3 DEF Sees, Away
  <2> QED
    BY <1>0, <2>1, <2>2, <2>3
<1>6. d \in {<<>>, RegisterAckBytes, Payload(RegisterAckBytes), ConsumptionAckBytes,
             Payload(ConsumptionAckBytes)}
  BY <1>0 DEF Sees, ClientView, Nothing, Unread, Lost
<1>7. a \in Nat /\ b \in Nat
  BY <1>3 DEF HeaderSize
<1> HIDE DEF a, b, u, d
<1> QED
  BY <1>1, <1>4, <1>5, <1>6, <1>7 DEF a, b

\* Types, and the bound on both streams: never more than one message is under way.
THEOREM PairTypesHold == Spec => []TypeOK
<1>1. ASSUME PairInv PROVE TypeOK
  <2>1. PairTypes
    BY <1>1 DEF PairInv
  <2>2. ASSUME NEW c \in Clients
        PROVE  /\ client[c].stage \in Ended \union {"connected", "registering",
                                       "registered", "reporting", "sleeping"}
               /\ client[c].i \in 0..(ClientReports - 1)
               /\ cut[c] \in BOOLEAN
    BY <2>1 DEF PairTypes, Processes
  <2>3. /\ server.stage \in {"off", "accepting", "request", "report"}
        /\ server.i \in 0..(ServerReports - 1)
        /\ server.peer \in Clients \union {Nobody}
    BY <2>1 DEF PairTypes, Servers
  <2> QED
    BY <1>1, <2>2, <2>3, OneMessageAtMost DEF TypeOK
<1> QED
  BY <1>1, PairIsKept, PTL
=============================================================================
