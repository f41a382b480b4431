----------------------------- MODULE WireFormat -----------------------------
(***************************************************************************)
(* The messages on the wire (src/protocol/smart_grid_protocol.hpp): what    *)
(* each serialize function writes and what each deserialize function reads  *)
(* back.  A buffer is a sequence of bytes; a byte is remembered as "byte    *)
(* number `at`, in host order, of the value `value`", which is all that     *)
(* memcpy, htons, htonl and htobe64 can confuse.  The host is little-endian *)
(* so a conversion to network order reverses the bytes; a double and a      *)
(* char array are copied as they lie in memory.  What a serializer          *)
(* announces, what it appends and what the deserializer copies out are      *)
(* transcribed from three different pieces of code.                         *)
(***************************************************************************)
EXTENDS Integers, Sequences

HeaderSize == 4

\* What a load yields when the bytes it copies are not the bytes of one value, or
\* lie behind the end of the buffer.
Garbage == -1

\* sizeof of the members of the message structures.
SizeOf ==
    [version |-> 1, type |-> 1, payload_length |-> 2,
     device_uri |-> 64, timestamp |-> 8, sequence_number |-> 4,
     consumption_kwh |-> 8, current_power_kw |-> 8, region_id |-> 4,
     user_type |-> 1, status |-> 1, target_power_kw |-> 8,
     price_per_kwh |-> 8, source_region |-> 4]

Raw(name) == [name |-> name, order |-> "host"]
Net(name) == [name |-> name, order |-> "network"]

Header == <<Raw("version"), Raw("type"), Net("payload_length")>>

-----------------------------------------------------------------------------
(* The messages.  type: the code the serializer puts into the header;       *)
(* length: the payload_length it announces; written: the fields it appends; *)
(* read: the fields the deserializer copies out, from offset 4 on.          *)

DataStreamSample ==
    [type    |-> 10,
     length  |-> SizeOf.device_uri + SizeOf.timestamp + SizeOf.sequence_number
                   + SizeOf.consumption_kwh + SizeOf.current_power_kw,
     written |-> <<Raw("device_uri"), Net("timestamp"), Net("sequence_number"),
                   Raw("consumption_kwh"), Raw("current_power_kw")>>,
     read    |-> <<Raw("device_uri"), Net("timestamp"), Net("sequence_number"),
                   Raw("consumption_kwh"), Raw("current_power_kw")>>]

HeartbeatMessage ==
    [type    |-> 8,
     length  |-> SizeOf.device_uri + SizeOf.timestamp,
     written |-> <<Raw("device_uri"), Net("timestamp")>>,
     read    |-> <<Raw("device_uri"), Net("timestamp")>>]

RegisterRequest ==
    [type    |-> 1,
     length  |-> SizeOf.device_uri + SizeOf.region_id + SizeOf.user_type,
     written |-> <<Raw("device_uri"), Net("region_id"), Raw("user_type")>>,
     read    |-> <<Raw("device_uri"), Net("region_id"), Raw("user_type")>>]

\* The report and the acknowledgements of registration and report have their
\* two functions apart.
TimestampAsIs ==                            \* mutant: htobe64 forgotten
    <<Raw("device_uri"), Raw("timestamp"), Raw("consumption_kwh"),
      Raw("current_power_kw")>>

WrittenReport ==
    <<Raw("device_uri"), Net("timestamp"), Raw("consumption_kwh"),
      Raw("current_power_kw")>>

PowerFirst ==                               \* mutant: two doubles swapped
    <<Raw("device_uri"), Net("timestamp"), Raw("current_power_kw"),
      Raw("consumption_kwh")>>

ReadReport ==
    <<Raw("device_uri"), Net("timestamp"), Raw("consumption_kwh"),
      Raw("current_power_kw")>>

ConsumptionReport ==
    [type    |-> 3,
     length  |-> SizeOf.device_uri + SizeOf.timestamp + SizeOf.consumption_kwh
                   + SizeOf.current_power_kw,
     written |-> WrittenReport,
     read    |-> ReadReport]

TwoBytes == 2                               \* mutant: more than is written

\* htons(1), in both.
AckLength == 1

RegisterAck ==
    [type |-> 2, length |-> AckLength,
     written |-> <<Raw("status")>>, read |-> <<Raw("status")>>]

ConsumptionAck ==
    [type |-> 4, length |-> AckLength,
     written |-> <<Raw("status")>>, read |-> <<Raw("status")>>]

RegionSync ==
    [type    |-> 32,
     length  |-> SizeOf.source_region + SizeOf.device_uri + SizeOf.timestamp
                   + SizeOf.consumption_kwh + SizeOf.current_power_kw,
     written |-> <<Net("source_region"), Raw("device_uri"), Net("timestamp"),
                   Raw("consumption_kwh"), Raw("current_power_kw")>>,
     read    |-> <<Net("source_region"), Raw("device_uri"), Net("timestamp"),
                   Raw("consumption_kwh"), Raw("current_power_kw")>>]

\* Has no deserializer: the regional servers take ackBuffer[4] themselves.
RegionSyncAck ==
    [type |-> 33, length |-> SizeOf.status,
     written |-> <<Raw("status")>>, read |-> <<Raw("status")>>]

ReduceConsumptionCommand ==
    [type    |-> 6,
     length  |-> SizeOf.device_uri + SizeOf.target_power_kw,
     written |-> <<Raw("device_uri"), Raw("target_power_kw")>>,
     read    |-> <<Raw("device_uri"), Raw("target_power_kw")>>]

CommandAck ==
    [type |-> 7, length |-> SizeOf.status,
     written |-> <<Raw("status")>>, read |-> <<Raw("status")>>]

TariffUpdate ==
    [type |-> 5, length |-> SizeOf.price_per_kwh,
     written |-> <<Raw("price_per_kwh")>>, read |-> <<Raw("price_per_kwh")>>]

Messages ==
    {DataStreamSample, HeartbeatMessage, RegisterRequest, RegisterAck,
     ConsumptionReport, ConsumptionAck, RegionSync, RegionSyncAck,
     ReduceConsumptionCommand, CommandAck, TariffUpdate}

-----------------------------------------------------------------------------
\* A byte is named by its place in the field it belongs to and by that field's value.
Byte == [at : 1..64, value : Int]

\* The byte of the value that comes to lie at place i of its field.
HostByte(field, i) == IF field.order = "network" THEN SizeOf[field.name] + 1 - i ELSE i

\* The bytes of a value as the serializer appends them, and the value a
\* deserializer makes of as many bytes.
Store(field, value) ==
    [i \in 1..SizeOf[field.name] |-> [at |-> HostByte(field, i), value |-> value]]

Load(field, bytes) ==
    IF /\ Len(bytes) = SizeOf[field.name]
       /\ \A i \in 1..Len(bytes) :
              bytes[i] = [at |-> HostByte(field, i), value |-> bytes[1].value]
    THEN bytes[1].value
    ELSE Garbage

Names(fields) == {fields[k].name : k \in DOMAIN fields}

\* One insert at the end of the buffer after the other; no message has more than
\* five fields.  values maps the name of each field to its value.
Encode(fields, values) ==
    LET Part(k) == IF k \in DOMAIN fields
                   THEN Store(fields[k], values[fields[k].name]) ELSE <<>>
    IN  Part(1) \o Part(2) \o Part(3) \o Part(4) \o Part(5)

\* The sum of the `offset += sizeof` before field k is copied out.
Offset(fields, k) ==
    LET Passed(j) == IF j < k THEN SizeOf[fields[j].name] ELSE 0
    IN  Passed(1) + Passed(2) + Passed(3) + Passed(4)

CopyOut(fields, k, bytes) ==
    LET first == Offset(fields, k) + 1
        last  == Offset(fields, k) + SizeOf[fields[k].name]
    IN  IF last > Len(bytes) THEN Garbage
        ELSE Load(fields[k], SubSeq(bytes, first, last))

Decode(fields, bytes) ==
    [name \in Names(fields) |->
        CopyOut(fields, CHOOSE k \in DOMAIN fields : fields[k].name = name, bytes)]

Serialize(message, values) ==
    Encode(Header, [version |-> 1, type |-> message.type,
                    payload_length |-> message.length])
      \o Encode(message.written, values)

\* What follows the header.
Payload(bytes) == SubSeq(bytes, HeaderSize + 1, Len(bytes))

\* Every deserializer skips the 4 bytes of the header.
Deserialize(message, payload) == Decode(message.read, payload)

-----------------------------------------------------------------------------
\* A message whose fields all hold different values, and what is on the wire.
Sample(message) ==
    [name \in Names(message.written) |->
        CHOOSE k \in DOMAIN message.written : message.written[k].name = name]

Wire(message) == Serialize(message, Sample(message))

\* Whatever a serialize function writes, the deserialize function of the same
\* type reads back field by field: the order of the fields, their widths and
\* their byte order are written down twice in the protocol header, once on
\* each side, and nothing in the code ties the two together.
RoundTrip ==
    \A message \in Messages :
        Deserialize(message, Payload(Wire(message))) = Sample(message)

\* Every reader takes a 4-byte header, then as many bytes as it announces:
\* the announced length is the number of bytes that follow, so that the next
\* header is read where the next message begins, and the type in it names that
\* message and no other.
SelfDelimiting ==
    \A message \in Messages :
        LET header == Decode(Header, Wire(message)) IN
        /\ HeaderSize + header.payload_length = Len(Wire(message))
        /\ {other \in Messages : other.type = header.type} = {message}
=============================================================================
