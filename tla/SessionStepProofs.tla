-------------------------- MODULE SessionStepProofs --------------------------
(***************************************************************************)
(* Meters and their regional server that count the same reports in a       *)
(* cycle.  Until a wait of the meter misses a message, the two stay in     *)
(* step, which makes the conversation a table: for each place of the       *)
(* meter, the stages the server can be in and the messages between them.   *)
(* No channel then holds more than two messages.                           *)
(***************************************************************************)
EXTENDS MeterSessionProofs

\* client_async_test.cpp:449 (i < 5) and server_async.cpp:546 (reportCount + 1 < 5).
SameCycle == ReportsSent = ReportsPerCycle

Alone(q, t)   == Len(q) = 1 /\ q[1].type = t
Pair(q, t, u) == Len(q) = 2 /\ q[1].type = t /\ q[2].type = u

\* The server waits for report n of a cycle.
Expects(k, n) == k.stage = "awaitReport" /\ k.count = n

\* A cycle is over; its tariff, if there is one, is being written or was written.
Priced(k) == k.stage = "writeTariff" \/ Expects(k, 0)

\* A command is being written, or its confirmation awaited.
Ordering(k) == k.stage \in {"writeCommand", "awaitCommandAck"}

\* The server expects report n, or will once its write is complete.
Ready(k, n) ==
    \/ Expects(k, n)
    \/ k.stage = "writeReportAck" /\ k.count + 1 = n
    \/ n = 0 /\ k.stage \in {"writeTariff", "writeRegisterAck"}

\* The meter waits for the answer to its REGISTER_REQ.
Registering(k, in, out) ==
    \/ /\ k.stage = "awaitRegister"
       /\ in = <<>> /\ Alone(out, "REGISTER_REQ")
    \/ /\ k.stage = "writeRegisterAck" \/ Expects(k, 0)
       /\ Alone(in, "REGISTER_ACK") /\ out = <<>>

\* The meter has sent report n and waits for its acknowledgement.
Reporting(k, n, in, out) ==
    \/ /\ Ready(k, n)
       /\ in = <<>> /\ Pair(out, "DATA_STREAM_SAMPLE", "CONSUMPTION_REPORT")
    \/ /\ Expects(k, n)
       /\ in = <<>> /\ Alone(out, "CONSUMPTION_REPORT")
    \/ /\ k.stage = "syncing" /\ k.count = n
       /\ in = <<>> /\ out = <<>>
    \/ /\ \/ k.stage = "writeReportAck" /\ k.count = n
          \/ n + 1 < ReportsPerCycle /\ Expects(k, n + 1)
          \/ n + 1 = ReportsPerCycle /\ Expects(k, 0)
       /\ Alone(in, "CONSUMPTION_ACK") /\ out = <<>>
    \/ /\ n + 1 = ReportsPerCycle /\ Ordering(k)
       /\ Pair(in, "CONSUMPTION_ACK", "REDUCE_CONSUMPTION_CMD") /\ out = <<>>
    \/ /\ n + 1 = ReportsPerCycle /\ Priced(k)
       /\ Pair(in, "CONSUMPTION_ACK", "TARIFF_UPDATE") /\ out = <<>>

\* The meter waits for what follows the last report.
Ending(k, in, out) ==
    \/ /\ \/ k.stage = "writeReportAck" /\ k.count + 1 = ReportsPerCycle
          \/ Expects(k, 0)
       /\ in = <<>> /\ out = <<>>
    \/ /\ Ordering(k)
       /\ Alone(in, "REDUCE_CONSUMPTION_CMD") /\ out = <<>>
    \/ /\ Priced(k)
       /\ Alone(in, "TARIFF_UPDATE") /\ out = <<>>

\* The meter has reduced and waits for the acknowledgement of the proof.
ProvingReduction(k, in, out) ==
    \/ /\ Ordering(k)
       /\ in = <<>> /\ Pair(out, "COMMAND_ACK", "CONSUMPTION_REPORT")
    \/ /\ k.stage = "awaitReducedReport"
       /\ in = <<>> /\ Alone(out, "CONSUMPTION_REPORT")
    \/ /\ k.stage = "syncingReduced"
       /\ in = <<>> /\ out = <<>>
    \/ /\ k.stage = "writeReducedAck" \/ Expects(k, 0)
       /\ Alone(in, "CONSUMPTION_ACK") /\ out = <<>>
    \/ /\ Priced(k)
       /\ Pair(in, "CONSUMPTION_ACK", "TARIFF_UPDATE") /\ out = <<>>

\* The meter waits for the tariff that follows a reduction.
Rewarded(k, in, out) ==
    \/ /\ k.stage = "writeReducedAck" \/ Expects(k, 0)
       /\ in = <<>> /\ out = <<>>
    \/ /\ Priced(k)
       /\ Alone(in, "TARIFF_UPDATE") /\ out = <<>>

\* Both ends are there: n is the number of the report the meter is at.
Together(k, state, n, in, out) ==
    \/ state = "awaitRegisterAck" /\ n = 0 /\ Registering(k, in, out)
    \/ state = "report" /\ Ready(k, n) /\ in = <<>> /\ out = <<>>
    \/ state = "awaitAck" /\ Reporting(k, n, in, out)
    \/ state = "waitCommand" /\ n = 0 /\ Ending(k, in, out)
    \/ state = "awaitReducedAck" /\ n = 0 /\ ProvingReduction(k, in, out)
    \/ state = "waitTariff" /\ n = 0 /\ Rewarded(k, in, out)

\* The meter has gone: the server may still read what it sent.
LeftToServer(k, out) ==
    \/ out = <<>>
    \/ k.stage = "awaitRegister" /\ Alone(out, "REGISTER_REQ")
    \/ /\ \/ k.stage \in {"awaitReport", "writeTariff", "writeRegisterAck"}
          \/ k.stage = "writeReportAck" /\ k.count + 1 < ReportsPerCycle
       /\ Pair(out, "DATA_STREAM_SAMPLE", "CONSUMPTION_REPORT")
    \/ k.stage \in {"awaitReport", "awaitReducedReport"} /\ Alone(out, "CONSUMPTION_REPORT")
    \/ Ordering(k) /\ Pair(out, "COMMAND_ACK", "CONSUMPTION_REPORT")

\* The server has gone: the meter may still read what it sent.
LeftToMeter(state, n, in) ==
    \/ in = <<>>
    \/ state = "awaitRegisterAck" /\ n = 0 /\ Alone(in, "REGISTER_ACK")
    \/ state \in {"awaitAck", "awaitReducedAck"} /\ Alone(in, "CONSUMPTION_ACK")
    \/ /\ state = "awaitAck" /\ n + 1 = ReportsPerCycle
       /\ Pair(in, "CONSUMPTION_ACK", "REDUCE_CONSUMPTION_CMD")
    \/ /\ state = "awaitReducedAck" \/ (state = "awaitAck" /\ n + 1 = ReportsPerCycle)
       /\ Pair(in, "CONSUMPTION_ACK", "TARIFF_UPDATE")
    \/ state = "waitCommand" /\ Alone(in, "REDUCE_CONSUMPTION_CMD")
    \/ state \in {"waitCommand", "waitTariff"} /\ Alone(in, "TARIFF_UPDATE")

Stepping(k, state, n, in, out) ==
    /\ state \in {"off", "connecting"} => n = 0 /\ LeftToServer(k, out)
    /\ state \notin {"off", "connecting"} =>
          IF k.stage = "closed" THEN LeftToMeter(state, n, in)
                                ELSE Together(k, state, n, in, out)

Matched(m) == Stepping(conn[m], meter[m].state, meter[m].sent, inbox[m], outbox[m])

SteppingInv == \A m \in Meters : ~missed[m] => Matched(m)

-----------------------------------------------------------------------------
(* Channels of at most two messages.                                       *)

\* What an empty channel, one message and two messages are is decided by the first one.
LEMMA Shapes ==
    ASSUME NEW q
    PROVE  /\ \A t : Alone(q, t) => q # <<>> /\ q[1].type = t
           /\ \A t, u : Pair(q, t, u) => q # <<>> /\ q[1].type = t
           /\ \A t, u, v : Alone(q, t) => ~Pair(q, u, v)
<1>1. Len(<<>>) = 0
  OBVIOUS
<1> QED
  BY <1>1 DEF Alone, Pair

\* The channel q without its first message.
LEMMA Received ==
    ASSUME NEW S, NEW q \in Seq(S), q # <<>>
    PROVE  /\ \A t : Alone(q, t) => Tail(q) = <<>>
           /\ \A t, u : Pair(q, t, u) => Alone(Tail(q), u)
<1>1. /\ Tail(q) \in Seq(S) /\ Len(q) \in Nat \ {0} /\ Len(Tail(q)) = Len(q) - 1
      /\ \A i \in 1 .. Len(Tail(q)) : Tail(q)[i] = q[i + 1]
  BY HeadAndTail
<1>2. Len(q) = 1 => Tail(q) = <<>>
  <2> DEFINE rest == Tail(q)
  <2>1. rest \in Seq(S) /\ (Len(q) = 1 => Len(rest) = 0)
    BY <1>1
  <2> HIDE DEF rest
  <2> QED
    BY <2>1, EmptyFacts DEF rest
<1>3. Len(q) = 2 => Len(Tail(q)) = 1 /\ Tail(q)[1] = q[2]
  BY <1>1
<1> QED
  BY <1>2, <1>3 DEF Alone, Pair

\* The channel q with one message more: t is its type, "none" if there is none.
Posted(q, q2, t) ==
    IF t = "none" THEN q2 = q
    ELSE /\ q = <<>> => Alone(q2, t)
         /\ Alone(q, "CONSUMPTION_ACK") => Pair(q2, "CONSUMPTION_ACK", t)

LEMMA AppendIsPosted ==
    ASSUME NEW S, NEW q \in Seq(S), NEW w \in S, w.type # "none"
    PROVE  Posted(q, Append(q, w), w.type)
<1>1. /\ Len(q) \in Nat /\ Len(Append(q, w)) = Len(q) + 1 /\ Append(q, w)[Len(q) + 1] = w
      /\ \A i \in 1 .. Len(q) : Append(q, w)[i] = q[i]
  BY AppendFacts
<1>2. q = <<>> => Len(q) = 0
  OBVIOUS
<1>3. q = <<>> => Alone(Append(q, w), w.type)
  BY <1>1, <1>2 DEF Alone
<1>4. Alone(q, "CONSUMPTION_ACK") => Pair(Append(q, w), "CONSUMPTION_ACK", w.type)
  BY <1>1 DEF Alone, Pair
<1> QED
  BY <1>3, <1>4 DEF Posted

LEMMA TwoSent ==
    ASSUME NEW S, NEW x \in S, NEW y \in S
    PROVE  Pair(<<>> \o <<x, y>>, x.type, y.type)
<1>1. /\ Len(<<>> \o <<x, y>>) = 2 /\ (<<>> \o <<x, y>>)[1] = x
      /\ (<<>> \o <<x, y>>)[2] = y
  <2>1. <<>> \in Seq(S) /\ Len(<<>>) = 0
    OBVIOUS
  <2> QED
    BY <2>1, SendFacts
<1> QED
  BY <1>1 DEF Pair

-----------------------------------------------------------------------------
(* The table, step by step: what a step does to the server's record, to    *)
(* the place of the meter and to the channels is spelt out as a relation;  *)
(* which action does it is settled afterwards.                             *)

\* A tariff is computed: it is sent, or it is the one the meter knows.
TariffComputed(k2, t) ==
    \/ Expects(k2, 0) /\ t = "none"
    \/ k2.stage = "writeTariff" /\ t = "TARIFF_UPDATE"

\* A handler that no message triggers leads from k to k2 and sends a message of type t.
Proceeds(k, k2, t) ==
    \/ k.stage = "writeRegisterAck" /\ Expects(k2, 0) /\ t = "none"
    \/ k.stage = "writeTariff" /\ Expects(k2, 0) /\ t = "none"
    \/ k.stage = "writeCommand" /\ k2.stage = "awaitCommandAck" /\ t = "none"
    \/ k.stage = "syncing" /\ k2.stage = "writeReportAck" /\ k2.count = k.count
          /\ t = "CONSUMPTION_ACK"
    \/ k.stage = "syncingReduced" /\ k2.stage = "writeReducedAck" /\ t = "CONSUMPTION_ACK"
    \/ /\ k.stage = "writeReportAck" /\ k.count + 1 < ReportsPerCycle
       /\ Expects(k2, k.count + 1) /\ t = "none"
    \/ /\ k.stage = "writeReportAck" /\ k.count + 1 = ReportsPerCycle
       /\ \/ TariffComputed(k2, t)
          \/ k2.stage = "writeCommand" /\ t = "REDUCE_CONSUMPTION_CMD"
    \/ k.stage = "writeReducedAck" /\ TariffComputed(k2, t)

\* The handler of a message of type h leads from k to k2 and sends one of type t.
Takes(k, k2, h, t) ==
    \/ /\ k.stage = "awaitRegister" /\ h = "REGISTER_REQ"
       /\ k2.stage = "writeRegisterAck" /\ t = "REGISTER_ACK"
    \/ k.stage = "awaitReport" /\ h = "DATA_STREAM_SAMPLE" /\ k2 = k /\ t = "none"
    \/ /\ k.stage = "awaitReport" /\ h = "CONSUMPTION_REPORT" /\ k2.count = k.count
       /\ \/ k2.stage = "syncing" /\ t = "none"
          \/ k2.stage = "writeReportAck" /\ t = "CONSUMPTION_ACK"
    \/ /\ k.stage = "awaitCommandAck" /\ h = "COMMAND_ACK"
       /\ k2.stage = "awaitReducedReport" /\ t = "none"
    \/ /\ k.stage = "awaitReducedReport" /\ h = "CONSUMPTION_REPORT"
       /\ \/ k2.stage = "syncingReduced" /\ t = "none"
          \/ k2.stage = "writeReducedAck" /\ t = "CONSUMPTION_ACK"

\* A meter that has read a message of type h goes on from its place.
Reads(state, n, h, state2, n2) ==
    \/ state = "awaitRegisterAck" /\ state2 = "report" /\ n2 = n
    \/ state = "awaitAck" /\ n + 1 = ReportsSent /\ state2 = "waitCommand" /\ n2 = 0
    \/ state = "awaitAck" /\ n + 1 # ReportsSent /\ state2 = "report" /\ n2 = n + 1
    \/ state = "awaitReducedAck" /\ state2 = "waitTariff" /\ n2 = n
    \/ /\ state = "waitCommand" /\ h # "REDUCE_CONSUMPTION_CMD"
       /\ state2 = "report" /\ n2 = n
    \/ state = "waitTariff" /\ state2 = "report" /\ n2 = n

LEMMA ProceedsTogether ==
    ASSUME NEW k \in Connections, NEW k2, NEW t, Proceeds(k, k2, t),
           NEW state, NEW n \in 0 .. ReportsPerCycle - 1, NEW in, NEW in2, NEW out,
           Together(k, state, n, in, out), Posted(in, in2, t)
    PROVE  Together(k2, state, n, in2, out)
<1>1. k.count \in 0 .. ReportsPerCycle - 1
  BY DEF Connections
<1>2. ReportsPerCycle \in Nat \ {0}
  BY CycleAssumption
<1>3. CASE state = "awaitRegisterAck" /\ n = 0 /\ Registering(k, in, out)
  BY <1>1, <1>2, <1>3, Shapes DEF Together, Registering, Proceeds, Expects, Posted
<1>4. CASE state = "report" /\ Ready(k, n) /\ in = <<>> /\ out = <<>>
  BY <1>1, <1>2, <1>4, Shapes DEF Together, Ready, Proceeds, TariffComputed, Expects, Posted
<1>5. CASE state = "awaitAck" /\ Reporting(k, n, in, out)
  BY <1>1, <1>2, <1>5, Shapes
     DEF Together, Reporting, Ready, Ordering, Priced, Proceeds, TariffComputed, Expects, Posted
<1>6. CASE state = "waitCommand" /\ n = 0 /\ Ending(k, in, out)
  BY <1>1, <1>2, <1>6, Shapes
     DEF Together, Ending, Ordering, Priced, Proceeds, TariffComputed, Expects, Posted
<1>7. CASE state = "awaitReducedAck" /\ n = 0 /\ ProvingReduction(k, in, out)
  BY <1>1, <1>2, <1>7, Shapes
     DEF Together, ProvingReduction, Ordering, Priced, Proceeds, TariffComputed, Expects, Posted
<1>8. CASE state = "waitTariff" /\ n = 0 /\ Rewarded(k, in, out)
  BY <1>1, <1>2, <1>8, Shapes
     DEF Together, Rewarded, Priced, Proceeds, TariffComputed, Expects, Posted
<1> QED
  BY <1>3, <1>4, <1>5, <1>6, <1>7, <1>8 DEF Together

LEMMA ProceedsAlone ==
    ASSUME NEW k \in Connections, NEW k2, NEW t, Proceeds(k, k2, t), NEW out, LeftToServer(k, out)
    PROVE  LeftToServer(k2, out)
<1>1. k.count \in 0 .. ReportsPerCycle - 1 /\ ReportsPerCycle \in Nat \ {0}
  BY CycleAssumption DEF Connections
<1> QED
  BY <1>1 DEF LeftToServer, Proceeds, TariffComputed, Expects, Ordering

LEMMA TakesTogether ==
    ASSUME NEW k \in Connections, NEW k2, NEW out \in Seq(MeterMessages), out # <<>>,
           NEW t, Takes(k, k2, out[1].type, t),
           NEW state, NEW n \in 0 .. ReportsPerCycle - 1, NEW in, NEW in2,
           Together(k, state, n, in, out), Posted(in, in2, t)
    PROVE  Together(k2, state, n, in2, Tail(out))
<1> DEFINE out2 == Tail(out)
<1>1. k.count \in 0 .. ReportsPerCycle - 1 /\ ReportsPerCycle \in Nat \ {0}
  BY CycleAssumption DEF Connections
<1>2. /\ \A u : Alone(out, u) => out2 = <<>> /\ out[1].type = u
      /\ \A u, v : Pair(out, u, v) => Alone(out2, v) /\ out[1].type = u
  BY Received, Shapes
<1> HIDE DEF out2
<1>3. CASE state = "awaitRegisterAck" /\ n = 0 /\ Registering(k, in, out)
  BY <1>1, <1>2, <1>3 DEF Together, Registering, Takes, Posted, out2
<1>4. CASE state = "awaitAck" /\ Reporting(k, n, in, out)
  BY <1>1, <1>2, <1>4 DEF Together, Reporting, Ready, Expects, Ordering, Takes, Posted, out2
<1>5. CASE state = "awaitReducedAck" /\ n = 0 /\ ProvingReduction(k, in, out)
  BY <1>1, <1>2, <1>5 DEF Together, ProvingReduction, Ordering, Takes, Posted, out2
<1> QED
  BY <1>3, <1>4, <1>5 DEF Together, Ending, Rewarded

LEMMA TakesAlone ==
    ASSUME NEW k \in Connections, NEW k2, NEW out \in Seq(MeterMessages), out # <<>>,
           NEW t, Takes(k, k2, out[1].type, t), LeftToServer(k, out)
    PROVE  LeftToServer(k2, Tail(out))
<1> DEFINE out2 == Tail(out)
<1>1. /\ \A u : Alone(out, u) => out2 = <<>> /\ out[1].type = u
      /\ \A u, v : Pair(out, u, v) => Alone(out2, v) /\ out[1].type = u
  BY Received, Shapes
<1> HIDE DEF out2
<1> QED
  BY <1>1 DEF LeftToServer, Takes, Ordering, out2

\* The type of the message that the server finds is one it takes, in the table ...
LEMMA ServerUnderstands ==
    ASSUME NEW k, NEW state, NEW n, NEW in, NEW out, out # <<>>,
           LeftToServer(k, out) \/ Together(k, state, n, in, out), k.stage \in Receiving
    PROVE  out[1].type \in Understood(k.stage)
<1>1. /\ \A u : Alone(out, u) => out[1].type = u
      /\ \A u, v : Pair(out, u, v) => out[1].type = u
  BY Shapes
<1> QED
  BY <1>1 DEF LeftToServer, Together, Registering, Reporting, Ending, ProvingReduction,
              Rewarded, Ready, Expects, Ordering, Receiving, Understood

\* ... and so is that of the message that the meter finds.
LEMMA MeterUnderstands ==
    ASSUME NEW k, NEW state, NEW n, NEW in, NEW out, in # <<>>,
           LeftToMeter(state, n, in) \/ Together(k, state, n, in, out),
           state \in Reading \cup Waiting
    PROVE  in[1].type \in Awaited(state)
<1>1. /\ \A u : Alone(in, u) => in[1].type = u
      /\ \A u, v : Pair(in, u, v) => in[1].type = u
  BY Shapes
<1> QED
  BY <1>1 DEF LeftToMeter, Together, Registering, Reporting, Ending, ProvingReduction,
              Rewarded, Reading, Waiting, Awaited

LEMMA ReadsTogether ==
    ASSUME SameCycle, NEW k \in Connections, NEW in \in Seq(ServerMessages), in # <<>>,
           NEW state, NEW n \in 0 .. ReportsPerCycle - 1, NEW state2, NEW n2,
           Reads(state, n, in[1].type, state2, n2), NEW out, Together(k, state, n, in, out)
    PROVE  Together(k, state2, n2, Tail(in), out) /\ n2 \in 0 .. ReportsPerCycle - 1
<1> DEFINE in2 == Tail(in)
<1>1. k.count \in 0 .. ReportsPerCycle - 1 /\ ReportsPerCycle \in Nat \ {0}
  BY CycleAssumption DEF Connections
<1>2. /\ \A u : Alone(in, u) => in2 = <<>> /\ in[1].type = u
      /\ \A u, v : Pair(in, u, v) => Alone(in2, v) /\ in[1].type = u
  BY Received, Shapes
<1> HIDE DEF in2
<1>3. n2 \in 0 .. ReportsPerCycle - 1
  BY <1>1 DEF Reads, SameCycle
<1>4. Together(k, state2, n2, in2, out)
  <2>1. CASE state = "awaitRegisterAck" /\ n = 0 /\ Registering(k, in, out)
    BY <1>1, <1>2, <2>1 DEF Together, Registering, Ready, Reads
  <2>2. CASE state = "awaitAck" /\ Reporting(k, n, in, out)
    BY <1>1, <1>2, <2>2
       DEF Together, Reporting, Ready, Expects, Priced, Ending, Reads, SameCycle
  <2>3. CASE state = "waitCommand" /\ n = 0 /\ Ending(k, in, out)
    BY <1>1, <1>2, <2>3 DEF Together, Ending, Ready, Priced, Reads
  <2>4. CASE state = "awaitReducedAck" /\ n = 0 /\ ProvingReduction(k, in, out)
    BY <1>1, <1>2, <2>4 DEF Together, ProvingReduction, Rewarded, Reads
  <2>5. CASE state = "waitTariff" /\ n = 0 /\ Rewarded(k, in, out)
    BY <1>1, <1>2, <2>5 DEF Together, Rewarded, Ready, Priced, Reads
  <2> QED
    BY <2>1, <2>2, <2>3, <2>4, <2>5 DEF Together, Reads
<1> QED
  BY <1>3, <1>4 DEF in2

LEMMA ReadsAlone ==
    ASSUME SameCycle, NEW in \in Seq(ServerMessages), in # <<>>,
           NEW state, NEW n \in 0 .. ReportsPerCycle - 1, NEW state2, NEW n2,
           Reads(state, n, in[1].type, state2, n2), LeftToMeter(state, n, in)
    PROVE  LeftToMeter(state2, n2, Tail(in))
<1> DEFINE in2 == Tail(in)
<1>1. /\ \A u : Alone(in, u) => in2 = <<>> /\ in[1].type = u
      /\ \A u, v : Pair(in, u, v) => Alone(in2, v) /\ in[1].type = u
  BY Received, Shapes
<1> HIDE DEF in2
<1>2. ReportsPerCycle \in Nat \ {0}
  BY CycleAssumption
<1> QED
  BY <1>1, <1>2 DEF LeftToMeter, Reads, SameCycle, in2

\* A report, or the answer to a command, is sent.
LEMMA ReportTogether ==
    ASSUME NEW k, NEW n, NEW in, NEW out, Together(k, "report", n, in, out), NEW out2,
           Pair(out2, "DATA_STREAM_SAMPLE", "CONSUMPTION_REPORT")
    PROVE  Together(k, "awaitAck", n, in, out2)
BY DEF Together, Reporting

LEMMA AnswerTogether ==
    ASSUME NEW k, NEW n, NEW in \in Seq(ServerMessages), in # <<>>,
           in[1].type = "REDUCE_CONSUMPTION_CMD",
           NEW out, Together(k, "waitCommand", n, in, out), NEW out2,
           Pair(out2, "COMMAND_ACK", "CONSUMPTION_REPORT")
    PROVE  Together(k, "awaitReducedAck", n, Tail(in), out2) /\ out = <<>>
<1>1. \A u : Alone(in, u) => Tail(in) = <<>> /\ in[1].type = u
  BY Received, Shapes
<1>2. n = 0 /\ Ending(k, in, out)
  BY DEF Together
<1>3. Ordering(k) /\ Tail(in) = <<>> /\ out = <<>>
  BY <1>1, <1>2 DEF Ending
<1> QED
  BY <1>2, <1>3 DEF Together, ProvingReduction

\* One of the two ends goes away.
LEMMA MeterLeaves ==
    ASSUME NEW k \in Connections, NEW state, NEW n \in 0 .. ReportsPerCycle - 1,
           NEW in, NEW out, Together(k, state, n, in, out)
    PROVE  LeftToServer(k, out)
<1>1. k.count \in 0 .. ReportsPerCycle - 1 /\ ReportsPerCycle \in Nat \ {0}
  BY CycleAssumption DEF Connections
<1> QED
  BY <1>1 DEF LeftToServer, Together, Registering, Reporting, Ending, ProvingReduction,
              Rewarded, Ready, Expects, Ordering

LEMMA ServerLeaves ==
    ASSUME NEW k, NEW state, NEW n, NEW in, NEW out, Together(k, state, n, in, out)
    PROVE  LeftToMeter(state, n, in)
BY DEF LeftToMeter, Together, Registering, Reporting, Ending, ProvingReduction, Rewarded

-----------------------------------------------------------------------------
(* Which action does what.                                                 *)

\* What a meter that goes on after a message finds and where it goes.
LEMMA ReadsFacts ==
    ASSUME SessionTypeOK, NEW m \in Meters,
           ReadRegisterAck(m) \/ ReadAck(m) \/ ReadReducedAck(m) \/ ReadTariff(m)
    PROVE  /\ inbox[m] # <<>> /\ inbox'[m] = Tail(inbox[m]) /\ outbox' = outbox
           /\ \A j \in Meters \ {m} : inbox'[j] = inbox[j] /\ meter'[j] = meter[j]
           /\ meter[m].state \in Reading \cup Waiting
           /\ \/ meter'[m] = MeterOff
              \/ Reads(meter[m].state, meter[m].sent, inbox[m][1].type,
                       meter'[m].state, meter'[m].sent)
<1>1. /\ Read(m) /\ outbox' = outbox /\ meter[m].state \in Reading \cup Waiting
      /\ meter \in [Meters -> MeterRecords]
  BY DEF ReadRegisterAck, ReadAck, ReadReducedAck, ReadTariff, Reading, SessionTypeOK
<1>2. /\ inbox[m] # <<>> /\ inbox'[m] = Tail(inbox[m]) /\ Head(inbox[m]) = inbox[m][1]
      /\ \A j \in Meters \ {m} : inbox'[j] = inbox[j]
  BY <1>1, InboxRead
<1>3. \A state : Goto(m, state) =>
         /\ meter'[m].state = state /\ meter'[m].sent = meter[m].sent
         /\ \A j \in Meters \ {m} : meter'[j] = meter[j]
  BY <1>1 DEF Goto, MeterRecords
<1> DEFINE Others == \A j \in Meters \ {m} : meter'[j] = meter[j]
           Moves  == Reads(meter[m].state, meter[m].sent, inbox[m][1].type,
                           meter'[m].state, meter'[m].sent)
<1>4. CASE ReadRegisterAck(m)
  <2>1. CASE Head(inbox[m]) = Message("REGISTER_ACK", 1)
    <3>1. meter[m].state = "awaitRegisterAck" /\ Goto(m, "report")
      BY <1>4, <2>1 DEF ReadRegisterAck
    <3>2. Others /\ Moves
      BY <1>3, <3>1 DEF Reads
    <3> QED
      BY <1>1, <1>2, <3>2
  <2>2. CASE Head(inbox[m]) # Message("REGISTER_ACK", 1)
    <3>1. meter' = [meter EXCEPT ![m] = MeterOff]
      BY <1>4, <2>2 DEF ReadRegisterAck
    <3> QED
      BY <1>1, <1>2, <3>1
  <2> QED
    BY <2>1, <2>2
<1>5. CASE ReadAck(m) /\ LastReport(m)
  <2>1. Others /\ meter'[m].state = "waitCommand" /\ meter'[m].sent = 0
    BY <1>1, <1>5 DEF ReadAck, MeterRecords
  <2>2. Moves
    BY <1>5, <2>1 DEF ReadAck, LastReport, Reads
  <2> QED
    BY <1>1, <1>2, <2>1, <2>2
<1>6. CASE ReadAck(m) /\ ~LastReport(m)
  <2>1. Others /\ meter'[m].state = "report" /\ meter'[m].sent = meter[m].sent + 1
    BY <1>1, <1>6 DEF ReadAck, MeterRecords
  <2>2. Moves
    BY <1>6, <2>1 DEF ReadAck, LastReport, Reads
  <2> QED
    BY <1>1, <1>2, <2>1, <2>2
<1>7. CASE ReadReducedAck(m)
  BY <1>1, <1>2, <1>3, <1>7 DEF ReadReducedAck, Reads
<1>8. CASE ReadTariff(m)
  <2>1. Others /\ meter'[m].state = "report" /\ meter'[m].sent = meter[m].sent
    BY <1>1, <1>8 DEF ReadTariff, MeterRecords
  <2>2. Moves
    BY <1>2, <1>8, <2>1 DEF ReadTariff, Waiting, Reads
  <2> QED
    BY <1>1, <1>2, <2>1, <2>2
<1> QED
  BY <1>4, <1>5, <1>6, <1>7, <1>8

\* The steps in which one meter and its connection take part.
OneSteps(m) ==
    \/ ServerContinues(m) \/ ServerReceives(m)
    \/ ServerAccepts(m) \/ HandshakeDone(m) \/ ServerSeesEnd(m)
    \/ MeterRuns(m) \/ MeterTimesOut(m) \/ MeterSeesEnd(m) \/ MeterStopped(m)
    \/ \E t \in MeterTypes : MeterConnects(m, t)

\* What belongs to another one is left alone.
Untouched(j) ==
    /\ conn'[j] = conn[j] /\ told'[j] = told[j] /\ meter'[j] = meter[j]
    /\ inbox'[j] = inbox[j] /\ outbox'[j] = outbox[j] /\ missed'[j] = missed[j]

LEMMA OthersUntouched ==
    ASSUME TypeOK, SessionTypeOK, ConversationInv, NEW m \in Meters, OneSteps(m),
           NEW j \in Meters \ {m}
    PROVE  Untouched(j)
<1>0. m \in Conns /\ Meters = Conns /\ j \in Conns
  BY SameSets
<1>1. CASE ServerContinues(m)
  <2>1. Post(m) /\ UNCHANGED <<meter, outbox, missed>>
    BY <1>1 DEF ServerContinues
  <2>2. inbox'[j] = inbox[j] /\ conn'[j] = conn[j]
    BY <1>1, <2>1, PostFrame, ContinueFacts
  <2>3. told'[j] = told[j]
    BY <1>0, <1>1
       DEF ServerContinues, TypeOK, RegisterAckWritten, Close, ReportSynced, ReportAckWritten,
           TariffWritten, CommandWritten, ReducedReportSynced, ReducedAckWritten
  <2> QED
    BY <2>1, <2>2, <2>3 DEF Untouched
<1>2. CASE ServerReceives(m)
  <2>1. Post(m) /\ UNCHANGED <<meter, missed>> /\ outbox'[j] = outbox[j]
    BY <1>2 DEF ServerReceives, SessionTypeOK
  <2>2. inbox'[j] = inbox[j]
    BY <2>1, PostFrame
  <2>3. ASSUME NEW v, Register(m, m, v) PROVE conn'[j] = conn[j] /\ told' = told
    BY <1>0, <2>3 DEF Register, TypeOK
  <2>4. ASSUME NEW v, ReportReceived(m, m, v) PROVE conn'[j] = conn[j] /\ told' = told
    BY <1>0, <2>4 DEF ReportReceived, TypeOK
  <2>5. ASSUME NEW v, ReducedReportReceived(m, m, v) PROVE conn'[j] = conn[j] /\ told' = told
    BY <1>0, <2>5 DEF ReducedReportReceived, TypeOK
  <2>6. CASE SampleReceived(m) \/ CommandAccepted(m)
    BY <1>0, <2>1, <2>2, <2>6 DEF Untouched, SampleReceived, CommandAccepted, Move, TypeOK, vars
  <2>7. CASE UnexpectedMessage(m)
    BY <1>0, <2>1, <2>2, <2>7 DEF Untouched, UnexpectedMessage, Close, TypeOK
  <2> QED
    BY <1>2, <2>1, <2>2, <2>3, <2>4, <2>5, <2>6, <2>7 DEF ServerReceives, Untouched
<1>3. CASE ServerAccepts(m)
  BY <1>0, <1>3 DEF Untouched, ServerAccepts, Accept, Move, TypeOK, meterVars
<1>4. CASE HandshakeDone(m)
  BY <1>0, <1>4
     DEF Untouched, HandshakeDone, Handshaken, RequestRegistration, Goto, Send, TypeOK,
         SessionTypeOK
<1>5. CASE ServerSeesEnd(m)
  BY <1>0, <1>5
     DEF Untouched, ServerSeesEnd, IoError, HandshakeRefused, Close, TypeOK, SessionTypeOK
<1>6. CASE MeterRuns(m)
  <2>1. UNCHANGED <<vars, missed>>
    BY <1>6 DEF MeterRuns
  <2>2. CASE ReadRegisterAck(m) \/ ReadAck(m) \/ ReadReducedAck(m) \/ ReadTariff(m)
    BY <2>1, <2>2, ReadsFacts DEF Untouched, vars
  <2>3. CASE SendReport(m) \/ ReadCommand(m)
    BY <2>1, <2>3
       DEF Untouched, SendReport, ReadCommand, Read, Goto, Send, SessionTypeOK, vars
  <2> QED
    BY <1>6, <2>2, <2>3 DEF MeterRuns, MeterReads
<1>7. CASE MeterTimesOut(m)
  BY <1>7 DEF Untouched, MeterTimesOut, WaitTimesOut, Goto, SessionTypeOK, vars
<1>8. CASE MeterSeesEnd(m) \/ MeterStopped(m)
  BY <1>8 DEF Untouched, MeterSeesEnd, MeterStopped, Stop, SessionTypeOK, vars
<1>9. ASSUME NEW t \in MeterTypes, MeterConnects(m, t) PROVE Untouched(j)
  BY <1>9 DEF Untouched, MeterConnects, Connect, SessionTypeOK, vars
<1> QED
  BY <1>1, <1>2, <1>3, <1>4, <1>5, <1>6, <1>7, <1>8, <1>9 DEF OneSteps

\* The type of what the server sends when its record changes from k to k2.
Answer(k, k2) == IF k2.stage \in Writing \ {k.stage} THEN Written(k2).type ELSE "none"

LEMMA AnswerTypes ==
    ASSUME NEW k, NEW k2
    PROVE  /\ k2.stage = "writeRegisterAck" /\ k.stage # k2.stage => Answer(k, k2) = "REGISTER_ACK"
           /\ k2.stage \in {"writeReportAck", "writeReducedAck"} /\ k.stage # k2.stage
                 => Answer(k, k2) = "CONSUMPTION_ACK"
           /\ k2.stage = "writeCommand" /\ k.stage # k2.stage
                 => Answer(k, k2) = "REDUCE_CONSUMPTION_CMD"
           /\ k2.stage = "writeTariff" /\ k.stage # k2.stage => Answer(k, k2) = "TARIFF_UPDATE"
           /\ k2.stage \notin Writing \/ k.stage = k2.stage => Answer(k, k2) = "none"
<1>1. k2.stage = "writeRegisterAck" => Written(k2).type = "REGISTER_ACK"
  BY MessageFields DEF Written
<1>2. k2.stage \in {"writeReportAck", "writeReducedAck"} => Written(k2).type = "CONSUMPTION_ACK"
  BY MessageFields DEF Written
<1>3. k2.stage = "writeCommand" => Written(k2).type = "REDUCE_CONSUMPTION_CMD"
  BY MessageFields DEF Written
<1>4. k2.stage = "writeTariff" => Written(k2).type = "TARIFF_UPDATE"
  BY MessageFields DEF Written
<1> QED
  BY <1>1, <1>2, <1>3, <1>4 DEF Answer, Writing

LEMMA PostIsPosted ==
    ASSUME SessionTypeOK, TypeOK', CyclesInv', NEW m \in Meters, Post(m), meter[m].state # "off"
    PROVE  Posted(inbox[m], inbox'[m], Answer(conn[m], conn'[m]))
<1>1. inbox[m] \in Seq(ServerMessages)
  BY DEF SessionTypeOK
<1>2. CASE conn'[m].stage \in Writing \ {conn[m].stage}
  <2> DEFINE w == Written(conn'[m])
  <2>1. w \in ServerMessages
    BY <1>2, SameSets, WrittenTypes DEF TypeOK, CyclesInv, CycleInv
  <2>2. w.type # "none"
    BY <2>1 DEF ServerMessages
  <2>3. inbox'[m] = Append(inbox[m], w)
    BY <1>2 DEF Post, SessionTypeOK
  <2>4. Answer(conn[m], conn'[m]) = w.type
    BY <1>2 DEF Answer
  <2> HIDE DEF w
  <2> QED
    BY <1>1, <2>1, <2>2, <2>3, <2>4, AppendIsPosted
<1>3. CASE conn'[m].stage \notin Writing \ {conn[m].stage}
  <2>1. inbox' = inbox /\ Answer(conn[m], conn'[m]) = "none"
    BY <1>3 DEF Post, Answer
  <2> QED
    BY <2>1 DEF Posted
<1> QED
  BY <1>2, <1>3

\* The completion handlers are the first relation, unless they close the connection.
LEMMA ContinuesProceeds ==
    ASSUME TypeOK, NEW m \in Meters, ServerContinues(m)
    PROVE  \/ conn[m].stage = "writeRegisterAck" /\ conn'[m] = Closed
           \/ Proceeds(conn[m], conn'[m], Answer(conn[m], conn'[m]))
<1> DEFINE k  == conn[m]
           k2 == conn'[m]
           t  == Answer(k, k2)
<1>0. m \in Conns /\ k \in Connections /\ k.count \in 0 .. ReportsPerCycle - 1
  BY SameSets DEF TypeOK, Connections
<1>answer. /\ k2.stage \in {"awaitReport", "awaitCommandAck"} => t = "none"
           /\ k2.stage \in {"writeReportAck", "writeReducedAck"} /\ k.stage # k2.stage
                 => t = "CONSUMPTION_ACK"
           /\ k2.stage = "writeCommand" /\ k.stage # k2.stage => t = "REDUCE_CONSUMPTION_CMD"
           /\ k2.stage = "writeTariff" /\ k.stage # k2.stage => t = "TARIFF_UPDATE"
  BY AnswerTypes DEF Writing
<1> HIDE DEF t
<1>1. CASE RegisterAckWritten(m)
  <2>1. CASE k.registered
    BY <1>0, <1>1, <1>answer, <2>1, ReadFacts DEF RegisterAckWritten, Proceeds, Expects, t
  <2>2. CASE ~k.registered
    BY <1>0, <1>1, <2>2 DEF RegisterAckWritten, Close, TypeOK
  <2> QED
    BY <2>1, <2>2
<1>2. CASE ReportSynced(m) \/ ReducedReportSynced(m)
  <2>1. \/ k.stage = "syncing" /\ k2.stage = "writeReportAck" /\ k2.count = k.count
        \/ k.stage = "syncingReduced" /\ k2.stage = "writeReducedAck"
    BY <1>0, <1>2 DEF ReportSynced, ReducedReportSynced, Move, TypeOK, Connections
  <2> QED
    BY <1>answer, <2>1 DEF Proceeds, t
<1>3. ASSUME NEW reduced \in BOOLEAN, SendTariff(m, reduced), k.stage # "writeTariff"
      PROVE  TariffComputed(k2, t)
  <2>1. (k2.stage = "awaitReport" /\ k2.count = 0) \/ k2.stage = "writeTariff"
    BY <1>0, <1>3, ReadFacts, SendTariffFacts
  <2> QED
    BY <1>3, <1>answer, <2>1 DEF TariffComputed, Expects
<1>4. CASE ReportAckWritten(m)
  <2>1. k.stage = "writeReportAck"
    BY <1>4 DEF ReportAckWritten
  <2>2. CASE MoreReports(m)
    <3>1. k2.stage = "awaitReport" /\ k2.count = k.count + 1
      BY <1>0, <1>4, <2>2, ReadFacts DEF ReportAckWritten
    <3>2. k.count + 1 < ReportsPerCycle
      BY <2>2 DEF MoreReports
    <3> QED
      BY <1>answer, <2>1, <3>1, <3>2 DEF Proceeds, Expects, t
  <2>3. CASE ~MoreReports(m)
    <3>1. k.count + 1 = ReportsPerCycle
      BY <1>0, <2>3, CycleAssumption DEF MoreReports
    <3>2. CASE k.band # "high"
      <4>1. SendTariff(m, FALSE)
        BY <1>4, <2>3, <3>2 DEF ReportAckWritten
      <4>2. TariffComputed(k2, t)
        BY <1>3, <2>1, <4>1
      <4> QED
        BY <2>1, <3>1, <4>2 DEF Proceeds, t
    <3>3. CASE k.band = "high"
      <4>1. k2.stage = "writeCommand"
        BY <1>0, <1>4, <2>3, <3>3 DEF ReportAckWritten, TypeOK, Connections
      <4> QED
        BY <1>answer, <2>1, <3>1, <4>1 DEF Proceeds, t
    <3> QED
      BY <3>2, <3>3
  <2> QED
    BY <2>2, <2>3
<1>5. CASE TariffWritten(m)
  BY <1>0, <1>5, <1>answer, ReadFacts DEF TariffWritten, Proceeds, Expects, t
<1>6. CASE CommandWritten(m)
  <2>1. k.stage = "writeCommand" /\ k2.stage = "awaitCommandAck"
    BY <1>0, <1>6 DEF CommandWritten, Move, TypeOK, Connections
  <2> QED
    BY <1>answer, <2>1 DEF Proceeds, t
<1>7. CASE ReducedAckWritten(m)
  <2>1. k.reduced \in BOOLEAN /\ k.stage = "writeReducedAck" /\ SendTariff(m, k.reduced)
    BY <1>0, <1>7 DEF ReducedAckWritten, Connections
  <2>2. TariffComputed(k2, t)
    BY <1>3, <2>1
  <2> QED
    BY <2>1, <2>2 DEF Proceeds, t
<1> QED
  BY <1>1, <1>2, <1>4, <1>5, <1>6, <1>7 DEF ServerContinues

\* The handlers of a message that the server understands are the second one.
LEMMA ReceivesTakes ==
    ASSUME TypeOK, SessionTypeOK, NEW m \in Meters, ServerReceives(m),
           outbox[m][1].type \in Understood(conn[m].stage)
    PROVE  /\ Takes(conn[m], conn'[m], outbox[m][1].type, Answer(conn[m], conn'[m]))
           /\ outbox'[m] = Tail(outbox[m]) /\ conn'[m].stage # "closed"
           /\ \A j \in Meters \ {m} : conn'[j] = conn[j] /\ outbox'[j] = outbox[j]
<1> DEFINE k  == conn[m]
           k2 == conn'[m]
           t  == Answer(k, k2)
           message == outbox[m][1]
           Others  == \A j \in Meters \ {m} : conn'[j] = conn[j]
<1>0. m \in Conns /\ Meters = Conns /\ k \in Connections
  BY SameSets DEF TypeOK
<1>1. /\ outbox[m] # <<>> /\ outbox[m] \in Seq(MeterMessages)
      /\ outbox' = [outbox EXCEPT ![m] = IF conn'[m].stage = "closed" THEN <<>> ELSE Tail(@)]
  BY DEF ServerReceives, SessionTypeOK
<1>2. Head(outbox[m]) = message
  BY <1>1, HeadAndTail
<1>3. \/ message.type = "REGISTER_REQ" /\ Register(m, m, message.value)
      \/ message.type = "CONSUMPTION_REPORT" /\ ReportReceived(m, m, message.value)
      \/ message.type = "CONSUMPTION_REPORT" /\ ReducedReportReceived(m, m, message.value)
      \/ message.type = "DATA_STREAM_SAMPLE" /\ SampleReceived(m)
      \/ message.type = "COMMAND_ACK" /\ CommandAccepted(m)
  BY <1>2 DEF ServerReceives
<1>answer. /\ k2.stage = "writeRegisterAck" /\ k.stage # k2.stage => t = "REGISTER_ACK"
           /\ k2.stage \in {"writeReportAck", "writeReducedAck"} /\ k.stage # k2.stage
                 => t = "CONSUMPTION_ACK"
           /\ k2.stage \in {"awaitReport", "syncing", "syncingReduced", "awaitReducedReport"}
                 => t = "none"
  BY AnswerTypes DEF Writing
<1> HIDE DEF t, message
<1>4. Others /\ Takes(k, k2, message.type, t) /\ k2.stage # "closed"
  <2>1. CASE message.type = "REGISTER_REQ" /\ Register(m, m, message.value)
    <3>1. Others /\ k.stage = "awaitRegister" /\ k2.stage = "writeRegisterAck"
      BY <1>0, <2>1 DEF Register, TypeOK, Connections
    <3> QED
      BY <1>answer, <2>1, <3>1 DEF Takes
  <2>2. CASE message.type = "CONSUMPTION_REPORT" /\ ReportReceived(m, m, message.value)
    <3>1. conn' = [conn EXCEPT
                      ![m].stage = IF link = "absent" THEN "writeReportAck" ELSE "syncing",
                      ![m].uri   = m,
                      ![m].band  = BandNow]
          /\ k.stage = "awaitReport"
      BY <2>2 DEF ReportReceived
    <3>2. Others /\ k2.stage \in {"syncing", "writeReportAck"} /\ k2.count = k.count
      BY <1>0, <3>1 DEF TypeOK, Connections
    <3> QED
      BY <1>answer, <2>2, <3>1, <3>2 DEF Takes
  <2>3. CASE message.type = "CONSUMPTION_REPORT" /\ ReducedReportReceived(m, m, message.value)
    <3>1. conn' = [conn EXCEPT
                      ![m].stage   = IF link = "absent" THEN "writeReducedAck"
                                                        ELSE "syncingReduced",
                      ![m].reduced = ProvesReduction(m, m, message.value)]
          /\ k.stage = "awaitReducedReport"
      BY <2>3 DEF ReducedReportReceived
    <3>2. Others /\ k2.stage \in {"syncingReduced", "writeReducedAck"}
      BY <1>0, <3>1 DEF TypeOK, Connections
    <3> QED
      BY <1>answer, <2>3, <3>1, <3>2 DEF Takes
  <2>4. CASE message.type = "DATA_STREAM_SAMPLE" /\ SampleReceived(m)
    <3>1. Others /\ k2 = k /\ k.stage = "awaitReport"
      BY <2>4 DEF SampleReceived, vars
    <3> QED
      BY <1>answer, <2>4, <3>1 DEF Takes
  <2>5. CASE message.type = "COMMAND_ACK" /\ CommandAccepted(m)
    <3>1. Others /\ k.stage = "awaitCommandAck" /\ k2.stage = "awaitReducedReport"
      BY <1>0, <2>5 DEF CommandAccepted, Move, TypeOK, Connections
    <3> QED
      BY <1>answer, <2>5, <3>1 DEF Takes
  <2> QED
    BY <1>3, <2>1, <2>2, <2>3, <2>4, <2>5
<1> QED
  BY <1>1, <1>4 DEF SessionTypeOK, message, t

\* What the steps below need to know of one conversation.
LEMMA SteppingFacts ==
    ASSUME SameCycle, TypeOK, SessionTypeOK, ConversationInv, NEW m \in Meters, Matched(m)
    PROVE  /\ conn[m] \in Connections /\ meter[m].sent \in 0 .. ReportsPerCycle - 1
           /\ inbox[m] \in Seq(ServerMessages) /\ outbox[m] \in Seq(MeterMessages)
           /\ Stepping(conn[m], meter[m].state, meter[m].sent, inbox[m], outbox[m])
           /\ meter[m].state \in {"off", "connecting"} => inbox[m] = <<>>
           /\ meter[m].state = "connecting" => conn[m].stage \in {"closed", "handshake"}
           /\ conn[m].stage = "closed" => outbox[m] = <<>>
BY SameSets
   DEF SameCycle, TypeOK, SessionTypeOK, MeterRecords, Matched, ConversationInv,
       Conversation, Opening

LEMMA ServerContinuesStepping ==
    ASSUME SameCycle, TypeOK, SessionTypeOK, ConversationInv, TypeOK', CyclesInv',
           ConversationInv', NEW m \in Meters, Matched(m), ServerContinues(m)
    PROVE  Matched(m)'
<1> DEFINE state == meter[m].state
           n     == meter[m].sent
           t     == Answer(conn[m], conn'[m])
<1>1. /\ conn[m] \in Connections /\ n \in 0 .. ReportsPerCycle - 1
      /\ Stepping(conn[m], state, n, inbox[m], outbox[m])
      /\ state = "connecting" => conn[m].stage \in {"closed", "handshake"}
      /\ conn'[m].stage = "closed" => outbox'[m] = <<>>
  BY SteppingFacts DEF ConversationInv, Conversation, Opening
<1>2. meter' = meter /\ outbox' = outbox /\ Post(m)
  BY DEF ServerContinues
<1>3. conn'[m].stage \notin Writing => inbox' = inbox
  BY <1>2, PostFrame
<1>4. state # "off" => Posted(inbox[m], inbox'[m], t)
  BY <1>2, PostIsPosted
<1> HIDE DEF state, n, t
<1>5. CASE conn[m].stage = "writeRegisterAck" /\ conn'[m] = Closed
  <2>1. inbox' = inbox /\ outbox[m] = <<>> /\ conn'[m].stage = "closed"
    BY <1>1, <1>2, <1>3, <1>5 DEF Closed, Writing
  <2>2. state \notin {"off", "connecting"} => LeftToMeter(state, n, inbox[m])
    BY <1>1, <1>5, ServerLeaves DEF Stepping
  <2>3. Stepping(conn'[m], state, n, inbox'[m], outbox'[m])
    BY <1>1, <1>2, <2>1, <2>2 DEF Stepping, LeftToServer
  <2> QED
    BY <1>2, <2>3 DEF Matched, state, n
<1>6. CASE Proceeds(conn[m], conn'[m], t)
  <2>1. conn[m].stage \notin {"closed", "handshake"} /\ conn'[m].stage # "closed"
    BY <1>6 DEF Proceeds, TariffComputed, Expects
  <2>2. state = "off" => n = 0 /\ LeftToServer(conn'[m], outbox[m])
    BY <1>1, <1>6, ProceedsAlone DEF Stepping
  <2>3. state \notin {"off", "connecting"} => Together(conn'[m], state, n, inbox'[m], outbox[m])
    BY <1>1, <1>4, <1>6, <2>1, ProceedsTogether DEF Stepping
  <2>4. Stepping(conn'[m], state, n, inbox'[m], outbox'[m])
    BY <1>1, <1>2, <2>1, <2>2, <2>3 DEF Stepping
  <2> QED
    BY <1>2, <2>4 DEF Matched, state, n
<1> QED
  BY <1>5, <1>6, ContinuesProceeds DEF t

LEMMA ServerReceivesStepping ==
    ASSUME SameCycle, TypeOK, SessionTypeOK, ConversationInv, TypeOK', CyclesInv',
           NEW m \in Meters, Matched(m), ServerReceives(m)
    PROVE  Matched(m)'
<1> DEFINE state == meter[m].state
           n     == meter[m].sent
           t     == Answer(conn[m], conn'[m])
<1>1. /\ conn[m] \in Connections /\ n \in 0 .. ReportsPerCycle - 1
      /\ outbox[m] \in Seq(MeterMessages)
      /\ Stepping(conn[m], state, n, inbox[m], outbox[m])
      /\ state = "connecting" => conn[m].stage \in {"closed", "handshake"}
  BY SteppingFacts
<1>2. /\ meter' = meter /\ Post(m) /\ outbox[m] # <<>> /\ conn[m].stage \in Receiving
  BY DEF ServerReceives
<1>3. conn[m].stage # "closed" /\ state # "connecting"
  BY <1>1, <1>2 DEF Receiving
<1>5. state # "off" => Posted(inbox[m], inbox'[m], t)
  BY <1>2, PostIsPosted
<1> HIDE DEF state, n, t
<1>6. outbox[m][1].type \in Understood(conn[m].stage)
  BY <1>1, <1>2, <1>3, ServerUnderstands DEF Stepping
<1>7. /\ Takes(conn[m], conn'[m], outbox[m][1].type, t)
      /\ outbox'[m] = Tail(outbox[m]) /\ conn'[m].stage # "closed"
  BY <1>6, ReceivesTakes DEF t
<1>8. state = "off" => n = 0 /\ LeftToServer(conn'[m], outbox'[m])
  BY <1>1, <1>2, <1>7, TakesAlone DEF Stepping
<1>9. state # "off" => Together(conn'[m], state, n, inbox'[m], outbox'[m])
  BY <1>1, <1>2, <1>3, <1>5, <1>7, TakesTogether DEF Stepping
<1>10. Stepping(conn'[m], state, n, inbox'[m], outbox'[m])
  BY <1>3, <1>7, <1>8, <1>9 DEF Stepping
<1> QED
  BY <1>2, <1>10 DEF Matched, state, n

\* The server's part in making and in ending a connection.
LEMMA ServerOtherwiseSteps ==
    ASSUME SameCycle, TypeOK, SessionTypeOK, ConversationInv, NEW m \in Meters, Matched(m),
           ServerAccepts(m) \/ HandshakeDone(m) \/ ServerSeesEnd(m)
    PROVE  Matched(m)'
<1>1. /\ meter[m].state \in {"off", "connecting"} =>
            meter[m].sent = 0 /\ LeftToServer(conn[m], outbox[m]) /\ inbox[m] = <<>>
      /\ m \in Conns /\ Meters = Conns /\ outbox[m] \in Seq(MeterMessages)
  BY SteppingFacts, SameSets DEF Stepping
<1>2. CASE ServerAccepts(m)
  <2>1. /\ meter[m].state = "connecting" /\ meter' = meter /\ inbox' = inbox /\ outbox' = outbox
        /\ conn[m].stage = "closed"
    BY <1>2 DEF ServerAccepts, Accept, meterVars
  <2>2. conn'[m].stage = "handshake"
    BY <1>1, <1>2 DEF ServerAccepts, Accept, Move, TypeOK, Connections
  <2>3. outbox[m] = <<>>
    BY <2>1, SteppingFacts
  <2>4. Stepping(conn'[m], "connecting", 0, inbox[m], outbox[m])
    BY <1>1, <2>1, <2>2, <2>3 DEF Stepping, LeftToServer
  <2> QED
    BY <1>1, <2>1, <2>4 DEF Matched
<1>3. CASE HandshakeDone(m)
  <2> DEFINE w == Message("REGISTER_REQ", meter[m].userType)
  <2>1. /\ meter[m].state = "connecting" /\ inbox' = inbox /\ outbox'[m] = outbox[m] \o <<w>>
        /\ Goto(m, "awaitRegisterAck")
    BY <1>3, OutboxSent DEF HandshakeDone, RequestRegistration
  <2>2. meter'[m].state = "awaitRegisterAck" /\ meter'[m].sent = meter[m].sent
    BY <2>1 DEF Goto, SessionTypeOK, MeterRecords
  <2>3. conn[m].stage = "handshake" /\ conn'[m].stage = "awaitRegister"
    BY <1>1, <1>3 DEF HandshakeDone, Handshaken, TypeOK, Connections
  <2>4. w.type = "REGISTER_REQ"
    BY MessageFields
  <2> HIDE DEF w
  <2>5. outbox[m] = <<>>
    BY <2>3 DEF ConversationInv, Conversation, Opening
  <2>6. <<>> \o <<w>> = <<w>> /\ Len(<<w>>) = 1 /\ <<w>>[1] = w
    OBVIOUS
  <2>7. Alone(outbox'[m], "REGISTER_REQ")
    BY <2>1, <2>4, <2>5, <2>6 DEF Alone
  <2>8. Stepping(conn'[m], "awaitRegisterAck", 0, inbox'[m], outbox'[m])
    <3>1. inbox'[m] = <<>>
      BY <1>1, <2>1
    <3>2. Registering(conn'[m], inbox'[m], outbox'[m])
      BY <2>3, <2>7, <3>1 DEF Registering
    <3> QED
      BY <2>3, <3>2 DEF Stepping, Together
  <2>9. meter'[m].sent = 0
    BY <1>1, <2>1, <2>2
  <2> QED
    BY <2>2, <2>8, <2>9 DEF Matched
<1>4. CASE ServerSeesEnd(m)
  <2>1. meter[m].state = "off" /\ meter' = meter /\ inbox' = inbox /\ outbox'[m] = <<>>
    BY <1>4 DEF ServerSeesEnd, SessionTypeOK
  <2>2. Stepping(conn'[m], "off", 0, inbox[m], <<>>)
    BY DEF Stepping, LeftToServer
  <2> QED
    BY <1>1, <2>1, <2>2 DEF Matched
<1> QED
  BY <1>2, <1>3, <1>4

\* The server process ends: what it has sent can still be read.
LEMMA OrphanedSteps ==
    ASSUME SameCycle, TypeOK, SessionTypeOK, ConversationInv, NEW m \in Meters, Matched(m),
           Orphaned, conn' = [c \in Conns |-> Closed]
    PROVE  Matched(m)'
<1>1. /\ Stepping(conn[m], meter[m].state, meter[m].sent, inbox[m], outbox[m])
      /\ conn'[m].stage = "closed" /\ inbox'[m] = inbox[m] /\ outbox'[m] = <<>>
  BY SteppingFacts, SameSets DEF Orphaned, Closed
<1>2. CASE meter[m].state \in {"off", "connecting"}
  <2>1. meter'[m].state = "off" /\ meter'[m].sent = 0
    BY <1>1, <1>2 DEF Orphaned, MeterOff, Stepping
  <2> QED
    BY <1>1, <2>1 DEF Matched, Stepping, LeftToServer
<1>3. CASE meter[m].state \notin {"off", "connecting"}
  <2>1. meter'[m] = meter[m]
    BY <1>3 DEF Orphaned
  <2>2. LeftToMeter(meter[m].state, meter[m].sent, inbox[m])
    BY <1>1, <1>3, ServerLeaves DEF Stepping
  <2> QED
    BY <1>1, <1>3, <2>1, <2>2 DEF Matched, Stepping
<1> QED
  BY <1>2, <1>3

LEMMA MeterSteps ==
    ASSUME SameCycle, TypeOK, SessionTypeOK, ConversationInv, NEW m \in Meters, Matched(m),
           MeterRuns(m)
    PROVE  Matched(m)'
<1> DEFINE k     == conn[m]
           state == meter[m].state
           n     == meter[m].sent
<1>0. /\ k \in Connections /\ n \in 0 .. ReportsPerCycle - 1
      /\ inbox[m] \in Seq(ServerMessages) /\ outbox[m] \in Seq(MeterMessages)
      /\ Stepping(k, state, n, inbox[m], outbox[m])
      /\ k.stage = "closed" => outbox[m] = <<>>
      /\ state = "connecting" => k.stage \in {"closed", "handshake"}
      /\ conn' = conn /\ (k.stage = "closed" => outbox' = outbox)
  BY SteppingFacts DEF MeterRuns, vars
<1>1. CASE ReadRegisterAck(m) \/ ReadAck(m) \/ ReadReducedAck(m) \/ ReadTariff(m)
  <2>1. /\ inbox[m] # <<>> /\ inbox'[m] = Tail(inbox[m]) /\ outbox' = outbox
        /\ state \notin {"off", "connecting"}
        /\ \/ meter'[m] = MeterOff
           \/ Reads(state, n, inbox[m][1].type, meter'[m].state, meter'[m].sent)
    BY <1>1, ReadsFacts DEF Reading, Waiting
  <2> HIDE DEF k, state, n
  <2>2. IF k.stage = "closed" THEN LeftToMeter(state, n, inbox[m])
                              ELSE Together(k, state, n, inbox[m], outbox[m])
    BY <1>0, <2>1 DEF Stepping
  <2>3. Stepping(k, meter'[m].state, meter'[m].sent, inbox'[m], outbox[m])
    <3>1. CASE meter'[m] = MeterOff
      <4>1. LeftToServer(k, outbox[m])
        <5>1. CASE k.stage = "closed"
          BY <1>0, <5>1 DEF LeftToServer
        <5>2. CASE k.stage # "closed"
          BY <1>0, <2>2, <5>2, MeterLeaves
        <5> QED
          BY <5>1, <5>2
      <4> QED
        BY <3>1, <4>1 DEF Stepping, MeterOff
    <3>2. CASE Reads(state, n, inbox[m][1].type, meter'[m].state, meter'[m].sent)
      <4> DEFINE state2 == meter'[m].state
                 n2     == meter'[m].sent
      <4>1. Reads(state, n, inbox[m][1].type, state2, n2)
        BY <3>2
      <4> HIDE DEF state2, n2
      <4>2. state2 \notin {"off", "connecting"}
        BY <4>1 DEF Reads
      <4>3. CASE k.stage = "closed"
        BY <1>0, <2>1, <2>2, <4>1, <4>2, <4>3, ReadsAlone DEF Stepping, state2, n2
      <4>4. CASE k.stage # "closed"
        BY <1>0, <2>1, <2>2, <4>1, <4>2, <4>4, ReadsTogether DEF Stepping, state2, n2
      <4> QED
        BY <4>3, <4>4
    <3> QED
      BY <2>1, <3>1, <3>2
  <2> QED
    BY <1>0, <2>1, <2>3 DEF Matched, k
<1>2. CASE SendReport(m)
  <2>1. PICK p \in RegularPowers(meter[m].userType) : Send(m, <<Sample(p), Report(p)>>)
    BY <1>2 DEF SendReport
  <2>2. Sample(p) \in MeterMessages /\ Report(p) \in MeterMessages
    BY <2>1, MeasuredTypes
  <2>3. Sample(p).type = "DATA_STREAM_SAMPLE" /\ Report(p).type = "CONSUMPTION_REPORT"
    BY MessageFields DEF Sample, Report
  <2>4. outbox'[m] = outbox[m] \o <<Sample(p), Report(p)>>
    BY <2>1, OutboxSent
  <2>5. k.stage # "closed"
    BY <1>0, <2>1, <2>2, SendingIsOpen
  <2>6. state = "report" /\ inbox' = inbox /\ Goto(m, "awaitAck")
    BY <1>2 DEF SendReport
  <2>7. meter'[m].state = "awaitAck" /\ meter'[m].sent = n
    BY <2>6 DEF Goto, SessionTypeOK, MeterRecords
  <2> HIDE DEF k, state, n
  <2>8. Together(k, "report", n, inbox[m], outbox[m]) /\ outbox[m] = <<>>
    BY <1>0, <2>5, <2>6 DEF Stepping, Together
  <2>9. Pair(outbox'[m], "DATA_STREAM_SAMPLE", "CONSUMPTION_REPORT")
    BY <2>2, <2>3, <2>4, <2>8, TwoSent
  <2>10. Together(k, "awaitAck", n, inbox[m], outbox'[m])
    BY <2>8, <2>9, ReportTogether
  <2>11. Stepping(k, "awaitAck", n, inbox[m], outbox'[m])
    BY <2>5, <2>10 DEF Stepping
  <2> QED
    BY <1>0, <2>6, <2>7, <2>11 DEF Matched, k
<1>3. CASE ReadCommand(m)
  <2> DEFINE confirmation == Message("COMMAND_ACK", 1)
  <2>1. PICK p \in ReducedPowers(meter[m].userType) : Send(m, <<confirmation, Report(p)>>)
    BY <1>3 DEF ReadCommand, ReductionAnswer
  <2>2. confirmation \in MeterMessages /\ Report(p) \in MeterMessages
    BY <2>1, MeasuredTypes
  <2>3. confirmation.type = "COMMAND_ACK" /\ Report(p).type = "CONSUMPTION_REPORT"
    BY MessageFields DEF Report
  <2>4. outbox'[m] = outbox[m] \o <<confirmation, Report(p)>>
    BY <2>1, OutboxSent
  <2>5. k.stage # "closed"
    BY <1>0, <2>1, <2>2, SendingIsOpen
  <2>6. /\ inbox[m] # <<>> /\ inbox'[m] = Tail(inbox[m])
        /\ inbox[m][1].type = "REDUCE_CONSUMPTION_CMD"
    BY <1>3, InboxRead DEF ReadCommand
  <2>7. state = "waitCommand" /\ Goto(m, "awaitReducedAck")
    BY <1>3 DEF ReadCommand
  <2>8. meter'[m].state = "awaitReducedAck" /\ meter'[m].sent = n
    BY <2>7 DEF Goto, SessionTypeOK, MeterRecords
  <2> HIDE DEF k, state, n, confirmation
  <2>9. Together(k, "waitCommand", n, inbox[m], outbox[m])
    BY <1>0, <2>5, <2>7 DEF Stepping
  <2>10. outbox[m] = <<>>
    BY <2>9 DEF Together, Ending
  <2>11. Pair(outbox'[m], "COMMAND_ACK", "CONSUMPTION_REPORT")
    BY <2>2, <2>3, <2>4, <2>10, TwoSent
  <2>12. Together(k, "awaitReducedAck", n, inbox'[m], outbox'[m])
    BY <1>0, <2>6, <2>9, <2>11, AnswerTogether
  <2>13. Stepping(k, "awaitReducedAck", n, inbox'[m], outbox'[m])
    BY <2>5, <2>12 DEF Stepping
  <2> QED
    BY <1>0, <2>8, <2>13 DEF Matched, k
<1> QED
  BY <1>1, <1>2, <1>3 DEF MeterRuns, MeterReads

\* A new program finds a connection that is over, and nothing of the one before it.
LEMMA MeterConnectsSteps ==
    ASSUME SessionTypeOK, ProgramsInv, ConversationInv, NEW m \in Meters,
           NEW t \in MeterTypes, MeterConnects(m, t)
    PROVE  Matched(m)'
<1>1. /\ meter[m] = MeterOff /\ conn[m].stage = "closed" /\ outbox[m] = <<>>
      /\ UNCHANGED <<inbox, outbox>> /\ conn' = conn
  BY DEF MeterConnects, Connect, ProgramsInv, ConversationInv, Conversation, Opening, vars
<1>2. meter'[m].state = "connecting" /\ meter'[m].sent = 0
  BY <1>1 DEF MeterConnects, Connect, SessionTypeOK, MeterRecords, MeterOff
<1> QED
  BY <1>1, <1>2 DEF Matched, Stepping, LeftToServer

\* A wait that misses nothing ends where the next report is expected, or where the
\* connection is over.
LEMMA TimeOutSteps ==
    ASSUME SameCycle, TypeOK, SessionTypeOK, ConversationInv, NEW m \in Meters, Matched(m),
           MeterTimesOut(m), NothingLeft(m)
    PROVE  Matched(m)'
<1> DEFINE k     == conn[m]
           state == meter[m].state
           n     == meter[m].sent
<1>1. /\ Stepping(k, state, n, inbox[m], outbox[m]) /\ conn' = conn
      /\ state \in {"waitCommand", "waitTariff"} /\ UNCHANGED <<inbox, outbox>>
      /\ Goto(m, "report") /\ inbox[m] = <<>>
      /\ k.stage = "closed" \/ (k.stage = "awaitReport" /\ outbox[m] = <<>>)
  BY DEF Matched, MeterTimesOut, WaitTimesOut, Waiting, NothingLeft, NothingToCome, vars
<1>2. meter'[m].state = "report" /\ meter'[m].sent = n
  BY <1>1 DEF Goto, SessionTypeOK, MeterRecords
<1> HIDE DEF k, state, n
<1>3. Stepping(k, "report", n, inbox[m], outbox[m])
  <2>1. CASE k.stage = "closed"
    BY <1>1, <2>1 DEF Stepping, LeftToMeter
  <2>2. CASE k.stage = "awaitReport" /\ outbox[m] = <<>>
    <3>1. Together(k, state, n, inbox[m], outbox[m])
      BY <1>1, <2>2 DEF Stepping
    <3>2. n = 0 /\ Expects(k, 0)
      BY <1>1, <2>2, <3>1, Shapes DEF Together, Ending, Rewarded
    <3> QED
      BY <1>1, <2>2, <3>2 DEF Stepping, Together, Ready, Expects
  <2> QED
    BY <1>1, <2>1, <2>2
<1> QED
  BY <1>1, <1>2, <1>3 DEF Matched, k

\* The program ends: the server may still read what it has sent.
LEMMA StopSteps ==
    ASSUME SameCycle, TypeOK, SessionTypeOK, ConversationInv, NEW m \in Meters, Matched(m),
           MeterSeesEnd(m) \/ MeterStopped(m)
    PROVE  Matched(m)'
<1> DEFINE k     == conn[m]
           state == meter[m].state
           n     == meter[m].sent
<1>1. /\ k \in Connections /\ n \in 0 .. ReportsPerCycle - 1
      /\ Stepping(k, state, n, inbox[m], outbox[m]) /\ conn' = conn
      /\ k.stage = "closed" => outbox[m] = <<>>
  BY SteppingFacts DEF MeterSeesEnd, MeterStopped, vars
<1>2. meter'[m].state = "off" /\ meter'[m].sent = 0 /\ outbox' = outbox
  BY DEF MeterSeesEnd, MeterStopped, Stop, SessionTypeOK, MeterOff
<1> HIDE DEF k, state, n
<1>3. LeftToServer(k, outbox[m])
  <2>1. CASE state \in {"off", "connecting"}
    BY <1>1, <2>1 DEF Stepping
  <2>2. CASE k.stage = "closed"
    BY <1>1, <2>2 DEF LeftToServer
  <2>3. CASE state \notin {"off", "connecting"} /\ k.stage # "closed"
    BY <1>1, <2>3, MeterLeaves DEF Stepping
  <2> QED
    BY <2>1, <2>2, <2>3
<1> QED
  BY <1>1, <1>2, <1>3 DEF Matched, Stepping, k

-----------------------------------------------------------------------------
THEOREM SteppingInvariant == ASSUME SameCycle PROVE SessionSpec => []SteppingInv
<1>1. SessionInit => SteppingInv
  <2> SUFFICES ASSUME SessionInit, NEW m \in Meters PROVE Matched(m)
    BY DEF SteppingInv
  <2>1. meter[m].state = "off" /\ meter[m].sent = 0 /\ outbox[m] = <<>>
    BY DEF SessionInit, MeterInit, MeterOff
  <2> QED
    BY <2>1 DEF Matched, Stepping, LeftToServer
<1>2. /\ EndsInv /\ EndsInv' /\ ConversationInv /\ ConversationInv'
      /\ SteppingInv /\ [SessionNext]_sessionVars
      => SteppingInv'
  <2> SUFFICES ASSUME EndsInv, EndsInv', ConversationInv, ConversationInv', SteppingInv,
                      [SessionNext]_sessionVars
               PROVE  SteppingInv'
    OBVIOUS
  <2>1. TypeOK /\ TypeOK' /\ CyclesInv' /\ SessionTypeOK /\ ProgramsInv
    BY DEF EndsInv, ServerInv, SessionsInv
  <2>2. ASSUME NEW m \in Meters, OneSteps(m), ~missed'[m] => Matched(m)' PROVE SteppingInv'
    <3>1. ASSUME NEW j \in Meters \ {m}, ~missed'[j] PROVE Matched(j)'
      BY <2>1, <2>2, <3>1, OthersUntouched DEF SteppingInv, Matched, Untouched
    <3> QED
      BY <2>2, <3>1 DEF SteppingInv
  <2>3. ASSUME NEW m \in Meters, ServerContinues(m) PROVE SteppingInv'
    <3>1. ~missed'[m] => Matched(m)
      BY <2>3 DEF ServerContinues, SteppingInv
    <3>2. ~missed'[m] => Matched(m)'
      BY <2>1, <2>3, <3>1, ServerContinuesStepping
    <3> QED
      BY <2>2, <2>3, <3>2 DEF OneSteps
  <2>4. ASSUME NEW m \in Meters, ServerReceives(m) PROVE SteppingInv'
    <3>1. ~missed'[m] => Matched(m)
      BY <2>4 DEF ServerReceives, SteppingInv
    <3>2. ~missed'[m] => Matched(m)'
      BY <2>1, <2>4, <3>1, ServerReceivesStepping
    <3> QED
      BY <2>2, <2>4, <3>2 DEF OneSteps
  <2>5. ASSUME NEW m \in Meters, ServerAccepts(m) \/ HandshakeDone(m) \/ ServerSeesEnd(m)
        PROVE  SteppingInv'
    <3>1. ~missed'[m] => Matched(m)
      BY <2>5 DEF ServerAccepts, HandshakeDone, ServerSeesEnd, SteppingInv
    <3>2. ~missed'[m] => Matched(m)'
      BY <2>1, <2>5, <3>1, ServerOtherwiseSteps
    <3> QED
      BY <2>2, <2>5, <3>2 DEF OneSteps
  <2>6. ASSUME NEW m \in Meters, MeterRuns(m) PROVE SteppingInv'
    <3>1. ~missed'[m] => Matched(m)
      BY <2>6 DEF MeterRuns, SteppingInv
    <3>2. ~missed'[m] => Matched(m)'
      BY <2>1, <2>6, <3>1, MeterSteps
    <3> QED
      BY <2>2, <2>6, <3>2 DEF OneSteps
  <2>7. ASSUME NEW m \in Meters, NEW t \in MeterTypes, MeterConnects(m, t) PROVE SteppingInv'
    <3>1. Matched(m)'
      BY <2>1, <2>7, MeterConnectsSteps
    <3> QED
      BY <2>2, <2>7, <3>1 DEF OneSteps
  <2>8. ASSUME NEW m \in Meters, MeterTimesOut(m) PROVE SteppingInv'
    <3>1. ~missed'[m] => Matched(m) /\ NothingLeft(m)
      BY <2>1, <2>8 DEF MeterTimesOut, SteppingInv, SessionTypeOK
    <3>2. ~missed'[m] => Matched(m)'
      BY <2>1, <2>8, <3>1, TimeOutSteps
    <3> QED
      BY <2>2, <2>8, <3>2 DEF OneSteps
  <2>9. ASSUME NEW m \in Meters, MeterSeesEnd(m) \/ MeterStopped(m) PROVE SteppingInv'
    <3>1. ~missed'[m] => Matched(m)
      BY <2>9 DEF MeterSeesEnd, MeterStopped, SteppingInv
    <3>2. ~missed'[m] => Matched(m)'
      BY <2>1, <2>9, <3>1, StopSteps
    <3> QED
      BY <2>2, <2>9, <3>2 DEF OneSteps
  <2>10. ASSUME Orphaned, conn' = [c \in Conns |-> Closed] PROVE SteppingInv'
    <3>1. missed' = missed
      BY <2>10 DEF Orphaned
    <3> QED
      BY <2>1, <2>10, <3>1, OrphanedSteps DEF SteppingInv
  <2>11. ASSUME UNCHANGED <<conn, meterVars, missed>> PROVE SteppingInv'
    BY <2>11 DEF SteppingInv, Matched, meterVars
  <2> QED
    BY <2>3, <2>4, <2>5, <2>6, <2>7, <2>8, <2>9, <2>10, <2>11
       DEF SessionNext, ServerThrows, ReportSyncThrows, ServerKilled, Killed, CentralLost,
           ServerStarts, Start, sessionVars, vars
<1> QED
  BY <1>1, <1>2, SessionInvariant, ConversationInvariant, PTL DEF SessionSpec

\* InStep (client_async_test.cpp:619, where a message of another type passes silently for
\* the acknowledgement): until a wait of the meter misses a message, neither end ever finds
\* a message of another type than it expects, whatever else fails.
THEOREM StepIsKept == ASSUME SameCycle PROVE SessionSpec => []InStep
<1>1. SessionTypeOK /\ ConversationInv /\ SteppingInv => InStep
  <2> SUFFICES ASSUME SessionTypeOK, ConversationInv, SteppingInv, NEW m \in Meters, ~missed[m]
               PROVE  MeterInStep(m) /\ ServerInStep(m)
    BY DEF InStep
  <2>1. /\ inbox[m] \in Seq(ServerMessages) /\ outbox[m] \in Seq(MeterMessages)
        /\ Stepping(conn[m], meter[m].state, meter[m].sent, inbox[m], outbox[m])
    BY DEF SessionTypeOK, SteppingInv, Matched
  <2>2. ASSUME inbox[m] # <<>>, meter[m].state \in Reading \cup Waiting
        PROVE  Head(inbox[m]).type \in Awaited(meter[m].state)
    <3>1. Head(inbox[m]) = inbox[m][1]
      BY <2>1, <2>2, HeadAndTail
    <3>2. meter[m].state \notin {"off", "connecting"}
      BY <2>2 DEF Reading, Waiting
    <3>3. LeftToMeter(meter[m].state, meter[m].sent, inbox[m])
          \/ Together(conn[m], meter[m].state, meter[m].sent, inbox[m], outbox[m])
      BY <2>1, <3>2 DEF Stepping
    <3> QED
      BY <2>2, <3>1, <3>3, MeterUnderstands
  <2>3. ASSUME outbox[m] # <<>>, conn[m].stage \in Receiving
        PROVE  Head(outbox[m]).type \in Understood(conn[m].stage)
    <3>1. Head(outbox[m]) = outbox[m][1]
      BY <2>1, <2>3, HeadAndTail
    <3>2. conn[m].stage # "closed"
      BY <2>3 DEF Receiving
    <3>3. LeftToServer(conn[m], outbox[m])
          \/ Together(conn[m], meter[m].state, meter[m].sent, inbox[m], outbox[m])
      BY <2>1, <3>2 DEF Stepping
    <3> QED
      BY <2>3, <3>1, <3>3, ServerUnderstands
  <2> QED
    BY <2>2, <2>3 DEF MeterInStep, ServerInStep
<1> QED
  BY <1>1, SessionTypes, ConversationInvariant, SteppingInvariant, PTL

-----------------------------------------------------------------------------
(* The price on the display.                                               *)

\* The price that the meter of record k knows once it has read all that was sent: known
\* is the one whose TARIFF_UPDATE has been written.
Due(k, known) == IF k.stage = "writeTariff" THEN k.price ELSE known

\* What is displayed, or is going to be, is the price due.
Shown(price, in, due) ==
    /\ \A i \in 1 .. Len(in) : in[i].type = "TARIFF_UPDATE" => in[i].value = due
    /\ (\A i \in 1 .. Len(in) : in[i].type # "TARIFF_UPDATE") => price = due

Displaying(m, k, known, state, price, in) ==
    /\ state \in {"off", "connecting"} => price = NoPrice
    /\ state # "off" /\ k.stage # "closed" => Shown(price, in, Due(k, known))
    /\ k.stage \notin {"closed", "handshake"} => k.device = m

Displays(m) == Displaying(m, conn[m], told[m], meter[m].state, meter[m].price, inbox[m])

DisplayInv == \A m \in Meters : ~missed[m] => Displays(m)

\* A message is on its way that is no tariff ...
LEMMA OtherShown ==
    ASSUME NEW in \in Seq(ServerMessages), NEW w \in ServerMessages, w.type # "TARIFF_UPDATE",
           NEW price, NEW due, Shown(price, in, due)
    PROVE  Shown(price, Append(in, w), due)
<1> DEFINE in2 == Append(in, w)
<1>1. /\ Len(in) \in Nat /\ Len(in2) = Len(in) + 1 /\ in2[Len(in) + 1] = w
      /\ \A i \in 1 .. Len(in) : in2[i] = in[i]
  BY AppendFacts
<1> HIDE DEF in2
<1>2. \A i \in 1 .. Len(in2) : i \in 1 .. Len(in) \/ i = Len(in) + 1
  BY <1>1
<1>3. \A i \in 1 .. Len(in) : i \in 1 .. Len(in2)
  BY <1>1
<1>4. \A i \in 1 .. Len(in2) : in2[i].type = "TARIFF_UPDATE" => in2[i].value = due
  BY <1>1, <1>2 DEF Shown
<1>5. (\A i \in 1 .. Len(in2) : in2[i].type # "TARIFF_UPDATE") => price = due
  BY <1>1, <1>3 DEF Shown
<1> QED
  BY <1>4, <1>5 DEF Shown, in2

\* ... or a tariff, behind no other one.
LEMMA TariffShown ==
    ASSUME NEW in \in Seq(ServerMessages), NEW w \in ServerMessages, w.type = "TARIFF_UPDATE",
           in = <<>> \/ Alone(in, "CONSUMPTION_ACK"), NEW price
    PROVE  Shown(price, Append(in, w), w.value)
<1> DEFINE in2 == Append(in, w)
<1>1. /\ Len(in) \in Nat /\ Len(in2) = Len(in) + 1 /\ in2[Len(in) + 1] = w
      /\ \A i \in 1 .. Len(in) : in2[i] = in[i]
  BY AppendFacts
<1> HIDE DEF in2
<1>2. \A i \in 1 .. Len(in) : in[i].type # "TARIFF_UPDATE"
  <2>1. CASE in = <<>>
    BY <2>1
  <2>2. CASE Alone(in, "CONSUMPTION_ACK")
    <3>1. Len(in) = 1 /\ in[1].type = "CONSUMPTION_ACK"
      BY <2>2 DEF Alone
    <3> QED
      BY <3>1
  <2> QED
    BY <2>1, <2>2
<1>3. \A i \in 1 .. Len(in2) : i \in 1 .. Len(in) \/ i = Len(in) + 1
  BY <1>1
<1>4. Len(in) + 1 \in 1 .. Len(in2)
  BY <1>1
<1> QED
  BY <1>1, <1>2, <1>3, <1>4 DEF Shown, in2

\* The meter reads the next message, and displays it if it is a tariff.
LEMMA ReadShown ==
    ASSUME NEW in \in Seq(ServerMessages), in # <<>>, NEW price, NEW due, Shown(price, in, due),
           NEW price2, price2 = IF in[1].type = "TARIFF_UPDATE" THEN in[1].value ELSE price
    PROVE  Shown(price2, Tail(in), due)
<1> DEFINE in2 == Tail(in)
<1>1. /\ Len(in) \in Nat \ {0} /\ Len(in2) = Len(in) - 1
      /\ \A i \in 1 .. Len(in2) : in2[i] = in[i + 1]
  BY HeadAndTail
<1> HIDE DEF in2
<1>2. /\ 1 \in 1 .. Len(in)
      /\ \A i \in 1 .. Len(in2) : i + 1 \in 1 .. Len(in)
      /\ \A i \in 1 .. Len(in) : i = 1 \/ (i - 1 \in 1 .. Len(in2) /\ in2[i - 1] = in[i])
  <2>1. \A i \in 1 .. Len(in) : i # 1 => i - 1 \in 1 .. Len(in2) /\ (i - 1) + 1 = i
    BY <1>1
  <2> QED
    BY <1>1, <2>1
<1>3. \A i \in 1 .. Len(in2) : in2[i].type = "TARIFF_UPDATE" => in2[i].value = due
  BY <1>1, <1>2 DEF Shown
<1>4. ASSUME \A i \in 1 .. Len(in2) : in2[i].type # "TARIFF_UPDATE" PROVE price2 = due
  <2>1. CASE in[1].type = "TARIFF_UPDATE"
    BY <1>2, <2>1 DEF Shown
  <2>2. CASE in[1].type # "TARIFF_UPDATE"
    <3>1. \A i \in 1 .. Len(in) : in[i].type # "TARIFF_UPDATE"
      BY <1>2, <1>4, <2>2
    <3> QED
      BY <2>2, <3>1 DEF Shown
  <2> QED
    BY <2>1, <2>2
<1> QED
  BY <1>3, <1>4 DEF Shown, in2

\* Nothing was sent yet.
LEMMA NothingShown == ASSUME NEW due PROVE Shown(due, <<>>, due)
<1>1. Len(<<>>) = 0
  OBVIOUS
<1> QED
  BY <1>1 DEF Shown

-----------------------------------------------------------------------------
\* Whose connection it is, and what its meter has been told, after a handler that no
\* message of the meter triggers.
LEMMA ContinuesTold ==
    ASSUME TypeOK, NEW m \in Meters, ServerContinues(m), conn'[m] # Closed
    PROVE  /\ conn'[m].device = conn[m].device
           /\ told'[m] = IF conn[m].stage = "writeTariff" THEN conn[m].price ELSE told[m]
<1>0. m \in Conns /\ conn[m] \in Connections /\ told \in [Conns -> Prices \cup {NoPrice}]
  BY SameSets DEF TypeOK
<1>1. CASE RegisterAckWritten(m)
  <2>1. CASE conn[m].registered
    BY <1>0, <1>1, <2>1, ReadFacts DEF RegisterAckWritten
  <2>2. CASE ~conn[m].registered
    BY <1>0, <1>1, <2>2 DEF RegisterAckWritten, Close, TypeOK
  <2> QED
    BY <2>1, <2>2
<1>2. CASE ReportSynced(m) \/ ReducedReportSynced(m)
  BY <1>0, <1>2 DEF ReportSynced, ReducedReportSynced, Move, TypeOK, Connections
<1>3. ASSUME NEW reduced \in BOOLEAN, SendTariff(m, reduced)
      PROVE  conn'[m].device = conn[m].device
  BY <1>0, <1>3, ReadFacts, SendTariffFacts
<1>4. CASE ReportAckWritten(m)
  <2>1. conn[m].stage = "writeReportAck" /\ told' = told
    BY <1>4 DEF ReportAckWritten
  <2>2. CASE MoreReports(m)
    <3>1. ReadConsumptionReport(m, conn[m].count + 1)
      BY <1>4, <2>2 DEF ReportAckWritten
    <3> QED
      BY <1>0, <2>1, <3>1, ReadFacts
  <2>3. CASE ~MoreReports(m) /\ conn[m].band # "high"
    BY <1>3, <1>4, <2>1, <2>3 DEF ReportAckWritten
  <2>4. CASE ~MoreReports(m) /\ conn[m].band = "high"
    BY <1>0, <1>4, <2>1, <2>4 DEF ReportAckWritten, TypeOK, Connections
  <2> QED
    BY <2>2, <2>3, <2>4
<1>5. CASE TariffWritten(m)
  BY <1>0, <1>5, ReadFacts DEF TariffWritten
<1>6. CASE CommandWritten(m)
  BY <1>0, <1>6 DEF CommandWritten, Move, TypeOK, Connections
<1>7. CASE ReducedAckWritten(m)
  <2>1. /\ conn[m].reduced \in BOOLEAN /\ SendTariff(m, conn[m].reduced)
        /\ conn[m].stage = "writeReducedAck" /\ told' = told
    BY <1>0, <1>7 DEF ReducedAckWritten, Connections
  <2> QED
    BY <1>3, <2>1
<1> QED
  BY <1>1, <1>2, <1>4, <1>5, <1>6, <1>7 DEF ServerContinues

LEMMA ReceivesTells ==
    ASSUME TypeOK, SessionTypeOK, NEW m \in Meters, ServerReceives(m),
           outbox[m][1].type \in Understood(conn[m].stage)
    PROVE  conn'[m].device = conn[m].device /\ told' = told
<1>0. m \in Conns /\ conn[m] \in Connections
  BY SameSets DEF TypeOK
<1>1. Head(outbox[m]) = outbox[m][1]
  BY HeadAndTail DEF ServerReceives, SessionTypeOK
<1>2. ASSUME NEW v, Register(m, m, v) \/ ReportReceived(m, m, v) \/ ReducedReportReceived(m, m, v)
      PROVE  conn'[m].device = conn[m].device /\ told' = told
  <2>1. CASE Register(m, m, v)
    BY <1>0, <2>1 DEF Register, TypeOK, Connections
  <2>2. CASE ReportReceived(m, m, v)
    BY <1>0, <2>2 DEF ReportReceived, TypeOK, Connections
  <2>3. CASE ReducedReportReceived(m, m, v)
    BY <1>0, <2>3 DEF ReducedReportReceived, TypeOK, Connections
  <2> QED
    BY <1>2, <2>1, <2>2, <2>3
<1>3. CASE SampleReceived(m)
  BY <1>3 DEF SampleReceived, vars
<1>4. CASE CommandAccepted(m)
  BY <1>0, <1>4 DEF CommandAccepted, Move, TypeOK, Connections
<1> QED
  BY <1>1, <1>2, <1>3, <1>4 DEF ServerReceives

\* What the channel to a meter that is there holds after the server's step.
LEMMA PostAppends ==
    ASSUME SessionTypeOK, TypeOK', CyclesInv', NEW m \in Meters, Post(m), meter[m].state # "off"
    PROVE  \/ conn'[m].stage \notin Writing \ {conn[m].stage} /\ inbox'[m] = inbox[m]
           \/ /\ conn'[m].stage \in Writing \ {conn[m].stage}
              /\ Written(conn'[m]) \in ServerMessages
              /\ inbox'[m] = Append(inbox[m], Written(conn'[m]))
<1>1. CASE conn'[m].stage \in Writing \ {conn[m].stage}
  <2>1. Written(conn'[m]) \in ServerMessages
    BY <1>1, SameSets, WrittenTypes DEF TypeOK, CyclesInv, CycleInv
  <2>2. inbox'[m] = Append(inbox[m], Written(conn'[m]))
    BY <1>1 DEF Post, SessionTypeOK
  <2> QED
    BY <1>1, <2>1, <2>2
<1>2. CASE conn'[m].stage \notin Writing \ {conn[m].stage}
  BY <1>2 DEF Post
<1> QED
  BY <1>1, <1>2

LEMMA ServerContinuesDisplay ==
    ASSUME SameCycle, TypeOK, SessionTypeOK, ConversationInv, TypeOK', CyclesInv',
           NEW m \in Meters, Matched(m), Displays(m), ServerContinues(m)
    PROVE  Displays(m)'
<1> DEFINE k     == conn[m]
           k2    == conn'[m]
           state == meter[m].state
           price == meter[m].price
           w     == Written(k2)
<1>1. /\ inbox[m] \in Seq(ServerMessages)
      /\ Stepping(k, state, meter[m].sent, inbox[m], outbox[m])
      /\ Displaying(m, k, told[m], state, price, inbox[m])
      /\ state = "connecting" => k.stage \in {"closed", "handshake"}
      /\ meter' = meter /\ Post(m)
  BY SteppingFacts DEF Displays, ServerContinues
<1>2. k2.stage \notin Writing => inbox' = inbox
  BY <1>1, PostFrame
<1>3. SUFFICES Displaying(m, k2, told'[m], state, price, inbox'[m])
  BY <1>1 DEF Displays
<1>4. CASE k2 = Closed
  <2>1. k2.stage = "closed"
    BY <1>4 DEF Closed
  <2> QED
    BY <1>1, <2>1 DEF Displaying
<1>5. CASE k2 # Closed
  <2>1. Proceeds(k, k2, Answer(k, k2))
    BY <1>5, ContinuesProceeds
  <2>2. k2.device = k.device /\ told'[m] = IF k.stage = "writeTariff" THEN k.price ELSE told[m]
    BY <1>5, ContinuesTold
  <2>3. k.stage \notin {"closed", "handshake"} /\ state # "connecting"
    BY <1>1, <2>1 DEF Proceeds
  <2>4. k2.stage = "writeTariff" => k.stage \in {"writeReportAck", "writeReducedAck"}
    BY <2>1 DEF Proceeds, TariffComputed, Expects
  <2>5. k2.stage # "writeTariff" => Due(k2, told'[m]) = Due(k, told[m])
    BY <2>2 DEF Due
  <2>6. state # "off" =>
           \/ k2.stage \notin Writing \ {k.stage} /\ inbox'[m] = inbox[m]
           \/ k2.stage \in Writing \ {k.stage} /\ w \in ServerMessages
                 /\ inbox'[m] = Append(inbox[m], w)
    BY <1>1, PostAppends
  <2>7. /\ k2.stage \in Writing \ {"writeTariff"} => w.type # "TARIFF_UPDATE"
        /\ k2.stage = "writeTariff" => w.type = "TARIFF_UPDATE" /\ w.value = k2.price
    BY MessageFields DEF Written, Writing
  <2> HIDE DEF w
  <2>8. ASSUME state # "off" PROVE Shown(price, inbox'[m], Due(k2, told'[m]))
    <3>1. Shown(price, inbox[m], Due(k, told[m]))
      BY <1>1, <2>3, <2>8 DEF Displaying
    <3>2. CASE k2.stage = "writeTariff"
      <4>1. Together(k, state, meter[m].sent, inbox[m], outbox[m])
        BY <1>1, <2>3, <2>8 DEF Stepping
      <4>2. inbox[m] = <<>> \/ Alone(inbox[m], "CONSUMPTION_ACK")
        BY <2>4, <3>2, <4>1
           DEF Together, Registering, Reporting, Ending, ProvingReduction, Rewarded, Ready,
               Expects, Ordering, Priced
      <4>3. w \in ServerMessages /\ inbox'[m] = Append(inbox[m], w)
        BY <2>4, <2>6, <2>8, <3>2 DEF Writing
      <4>4. w.type = "TARIFF_UPDATE" /\ w.value = Due(k2, told'[m])
        BY <2>7, <3>2 DEF Due
      <4>5. Shown(price, Append(inbox[m], w), w.value)
        BY <1>1, <4>2, <4>3, <4>4, TariffShown
      <4> QED
        BY <4>3, <4>4, <4>5
    <3>3. CASE k2.stage \in Writing \ {"writeTariff", k.stage}
      <4>1. w \in ServerMessages /\ inbox'[m] = Append(inbox[m], w) /\ w.type # "TARIFF_UPDATE"
        BY <2>6, <2>7, <2>8, <3>3
      <4>2. Shown(price, Append(inbox[m], w), Due(k, told[m]))
        BY <1>1, <3>1, <4>1, OtherShown
      <4> QED
        BY <2>5, <3>3, <4>1, <4>2
    <3>4. CASE k2.stage # "writeTariff" /\ k2.stage \notin Writing \ {k.stage}
      BY <2>5, <2>6, <2>8, <3>1, <3>4
    <3> QED
      BY <3>2, <3>3, <3>4
  <2> QED
    BY <1>1, <2>2, <2>3, <2>8 DEF Displaying
<1> QED
  BY <1>4, <1>5

LEMMA ServerReceivesDisplay ==
    ASSUME SameCycle, TypeOK, SessionTypeOK, ConversationInv, TypeOK', CyclesInv',
           NEW m \in Meters, Matched(m), Displays(m), ServerReceives(m)
    PROVE  Displays(m)'
<1> DEFINE k     == conn[m]
           k2    == conn'[m]
           state == meter[m].state
           price == meter[m].price
           w     == Written(k2)
<1>1. /\ inbox[m] \in Seq(ServerMessages)
      /\ Stepping(k, state, meter[m].sent, inbox[m], outbox[m])
      /\ Displaying(m, k, told[m], state, price, inbox[m])
      /\ state = "connecting" => k.stage \in {"closed", "handshake"}
      /\ meter' = meter /\ Post(m) /\ outbox[m] # <<>> /\ k.stage \in Receiving
  BY SteppingFacts DEF Displays, ServerReceives
<1>2. k.stage \notin {"closed", "handshake"} /\ state # "connecting"
  BY <1>1 DEF Receiving
<1>3. outbox[m][1].type \in Understood(k.stage)
  BY <1>1, <1>2, ServerUnderstands DEF Stepping
<1>4. /\ Takes(k, k2, outbox[m][1].type, Answer(k, k2))
      /\ k2.device = k.device /\ told' = told
  BY <1>3, ReceivesTakes, ReceivesTells
<1>6. SUFFICES Displaying(m, k2, told'[m], state, price, inbox'[m])
  BY <1>1 DEF Displays
<1>7. k.stage # "writeTariff" /\ k2.stage # "writeTariff"
  BY <1>4 DEF Takes
<1>8. Due(k2, told'[m]) = Due(k, told[m])
  BY <1>4, <1>7 DEF Due
<1>9. state # "off" =>
         \/ k2.stage \notin Writing \ {k.stage} /\ inbox'[m] = inbox[m]
         \/ k2.stage \in Writing \ {k.stage} /\ w \in ServerMessages
               /\ inbox'[m] = Append(inbox[m], w)
  BY <1>1, PostAppends
<1>10. k2.stage \in Writing => w.type # "TARIFF_UPDATE"
  BY <1>7, MessageFields DEF Written, Writing
<1> HIDE DEF w
<1>11. ASSUME state # "off" PROVE Shown(price, inbox'[m], Due(k, told[m]))
  <2>1. Shown(price, inbox[m], Due(k, told[m]))
    BY <1>1, <1>2, <1>11 DEF Displaying
  <2>2. CASE inbox'[m] = inbox[m]
    BY <2>1, <2>2
  <2>3. CASE w \in ServerMessages /\ inbox'[m] = Append(inbox[m], w) /\ w.type # "TARIFF_UPDATE"
    <3>1. Shown(price, Append(inbox[m], w), Due(k, told[m]))
      BY <1>1, <2>1, <2>3, OtherShown
    <3> QED
      BY <2>3, <3>1
  <2> QED
    BY <1>9, <1>10, <1>11, <2>2, <2>3
<1> QED
  BY <1>1, <1>2, <1>4, <1>8, <1>11 DEF Displaying

\* Connections that are being made know no price, nor do their meters.
LEMMA ServerOtherwiseDisplay ==
    ASSUME SessionsInv, SessionTypeOK, ConversationInv, NEW m \in Meters, Displays(m),
           ServerAccepts(m) \/ HandshakeDone(m) \/ ServerSeesEnd(m)
    PROVE  Displays(m)'
<1>1. /\ m \in Conns /\ Meters = Conns /\ TypeOK /\ SessionInv(m)
      /\ Displaying(m, conn[m], told[m], meter[m].state, meter[m].price, inbox[m])
      /\ meter[m].state = "connecting" => inbox[m] = <<>>
  BY SameSets DEF SessionsInv, Displays, ConversationInv, Conversation, Opening
<1>2. conn[m].stage \in {"closed", "handshake"} => told[m] = NoPrice
  BY <1>1 DEF SessionInv, Unregistered
<1>3. CASE ServerAccepts(m)
  <2>1. /\ meter[m].state = "connecting" /\ meter' = meter /\ inbox' = inbox /\ told' = told
        /\ conn[m].stage = "closed"
    BY <1>3 DEF ServerAccepts, Accept, meterVars
  <2>2. conn'[m].stage = "handshake"
    BY <1>1, <1>3 DEF ServerAccepts, Accept, Move, TypeOK, Connections
  <2>3. Due(conn'[m], told[m]) = NoPrice /\ meter[m].price = NoPrice /\ inbox[m] = <<>>
    BY <1>1, <1>2, <2>1, <2>2 DEF Due, Displaying
  <2>4. Displaying(m, conn'[m], told[m], meter[m].state, meter[m].price, inbox[m])
    BY <1>1, <2>2, <2>3, NothingShown DEF Displaying
  <2> QED
    BY <2>1, <2>4 DEF Displays
<1>4. CASE HandshakeDone(m)
  <2>1. /\ meter[m].state = "connecting" /\ inbox' = inbox /\ told' = told
        /\ Goto(m, "awaitRegisterAck") /\ conn[m].stage = "handshake"
    BY <1>4 DEF HandshakeDone, RequestRegistration, Handshaken
  <2>2. meter'[m].state = "awaitRegisterAck" /\ meter'[m].price = meter[m].price
    BY <2>1 DEF Goto, SessionTypeOK, MeterRecords
  <2>3. conn'[m].stage = "awaitRegister" /\ conn'[m].device = m
    BY <1>1, <1>4 DEF HandshakeDone, Handshaken, TypeOK, Connections
  <2>4. Due(conn'[m], told[m]) = NoPrice /\ meter[m].price = NoPrice /\ inbox[m] = <<>>
    BY <1>1, <1>2, <2>1, <2>3 DEF Due, Displaying
  <2>5. Displaying(m, conn'[m], told[m], "awaitRegisterAck", meter[m].price, inbox[m])
    BY <2>3, <2>4, NothingShown DEF Displaying
  <2> QED
    BY <2>1, <2>2, <2>5 DEF Displays
<1>5. CASE ServerSeesEnd(m)
  <2>1. meter[m].state = "off" /\ meter' = meter /\ inbox' = inbox
    BY <1>5 DEF ServerSeesEnd
  <2>2. conn'[m] = Closed
    BY <1>1, <1>5 DEF ServerSeesEnd, IoError, HandshakeRefused, Close, TypeOK
  <2>3. Displaying(m, conn'[m], told'[m], meter[m].state, meter[m].price, inbox[m])
    BY <1>1, <2>1, <2>2 DEF Displaying, Closed
  <2> QED
    BY <2>1, <2>3 DEF Displays
<1> QED
  BY <1>3, <1>4, <1>5

\* The server process ends.
LEMMA OrphanedDisplay ==
    ASSUME NEW m \in Meters, Displays(m), Orphaned, conn' = [c \in Conns |-> Closed]
    PROVE  Displays(m)'
<1>1. /\ Displaying(m, conn[m], told[m], meter[m].state, meter[m].price, inbox[m])
      /\ conn'[m].stage = "closed"
  BY SameSets DEF Displays, Closed
<1>2. meter'[m].state \in {"off", "connecting"} => meter'[m].price = NoPrice
  <2>1. CASE meter[m].state = "connecting"
    BY <2>1 DEF Orphaned, MeterOff
  <2>2. CASE meter[m].state # "connecting"
    BY <1>1, <2>2 DEF Orphaned, Displaying
  <2> QED
    BY <2>1, <2>2
<1> QED
  BY <1>1, <1>2 DEF Displays, Displaying

\* The price on the display after a message was read.
LEMMA ReadsPrice ==
    ASSUME SessionTypeOK, NEW m \in Meters, MeterInStep(m),
           ReadRegisterAck(m) \/ ReadAck(m) \/ ReadReducedAck(m) \/ ReadTariff(m)
    PROVE  \/ meter'[m] = MeterOff
           \/ /\ meter'[m].state \notin {"off", "connecting"}
              /\ meter'[m].price = IF inbox[m][1].type = "TARIFF_UPDATE"
                                   THEN inbox[m][1].value ELSE meter[m].price
<1>1. /\ Read(m) /\ meter[m].state \in Reading \cup Waiting /\ meter \in [Meters -> MeterRecords]
  BY DEF ReadRegisterAck, ReadAck, ReadReducedAck, ReadTariff, Reading, SessionTypeOK
<1>2. inbox[m] # <<>> /\ Head(inbox[m]) = inbox[m][1]
  BY <1>1, InboxRead
<1>3. inbox[m][1].type \in Awaited(meter[m].state)
  BY <1>1, <1>2 DEF MeterInStep
<1>4. meter[m].state \in Reading => inbox[m][1].type # "TARIFF_UPDATE"
  BY <1>3 DEF Reading, Awaited
<1>5. \A state : Goto(m, state) => meter'[m].state = state /\ meter'[m].price = meter[m].price
  BY <1>1 DEF Goto, MeterRecords
<1>6. CASE ReadRegisterAck(m)
  <2>1. CASE Head(inbox[m]) = Message("REGISTER_ACK", 1)
    <3>1. meter[m].state \in Reading /\ Goto(m, "report")
      BY <1>6, <2>1 DEF ReadRegisterAck, Reading
    <3> QED
      BY <1>4, <1>5, <3>1
  <2>2. CASE Head(inbox[m]) # Message("REGISTER_ACK", 1)
    <3>1. meter' = [meter EXCEPT ![m] = MeterOff]
      BY <1>6, <2>2 DEF ReadRegisterAck
    <3> QED
      BY <1>1, <3>1
  <2> QED
    BY <2>1, <2>2
<1>7. CASE ReadAck(m)
  <2>1. meter[m].state \in Reading
    BY <1>7 DEF ReadAck, Reading
  <2>2. meter'[m].state \in {"waitCommand", "report"} /\ meter'[m].price = meter[m].price
    <3>1. CASE LastReport(m)
      BY <1>1, <1>7, <3>1 DEF ReadAck, MeterRecords
    <3>2. CASE ~LastReport(m)
      BY <1>1, <1>7, <3>2 DEF ReadAck, MeterRecords
    <3> QED
      BY <3>1, <3>2
  <2> QED
    BY <1>4, <2>1, <2>2
<1>8. CASE ReadReducedAck(m)
  <2>1. meter[m].state \in Reading /\ Goto(m, "waitTariff")
    BY <1>8 DEF ReadReducedAck, Reading
  <2> QED
    BY <1>4, <1>5, <2>1
<1>9. CASE ReadTariff(m)
  BY <1>1, <1>2, <1>9 DEF ReadTariff, MeterRecords
<1> QED
  BY <1>6, <1>7, <1>8, <1>9

LEMMA MeterDisplay ==
    ASSUME SessionTypeOK, NEW m \in Meters, MeterInStep(m), Displays(m), MeterRuns(m)
    PROVE  Displays(m)'
<1> DEFINE due == Due(conn[m], told[m])
<1>0. /\ inbox[m] \in Seq(ServerMessages) /\ conn' = conn /\ told' = told
      /\ Displaying(m, conn[m], told[m], meter[m].state, meter[m].price, inbox[m])
  BY DEF SessionTypeOK, Displays, MeterRuns, vars
<1>1. CASE ReadRegisterAck(m) \/ ReadAck(m) \/ ReadReducedAck(m) \/ ReadTariff(m)
  <2>1. /\ inbox[m] # <<>> /\ inbox'[m] = Tail(inbox[m])
        /\ meter[m].state \notin {"off", "connecting"}
    BY <1>1, ReadsFacts DEF Reading, Waiting
  <2>2. Displaying(m, conn[m], told[m], meter'[m].state, meter'[m].price, inbox'[m])
    <3>1. CASE meter'[m] = MeterOff
      BY <1>0, <3>1 DEF Displaying, MeterOff
    <3>2. CASE /\ meter'[m].state \notin {"off", "connecting"}
               /\ meter'[m].price = IF inbox[m][1].type = "TARIFF_UPDATE"
                                    THEN inbox[m][1].value ELSE meter[m].price
      <4>1. CASE conn[m].stage = "closed"
        BY <1>0, <3>2, <4>1 DEF Displaying
      <4>2. CASE conn[m].stage # "closed"
        <5>1. Shown(meter[m].price, inbox[m], due)
          BY <1>0, <2>1, <4>2 DEF Displaying
        <5> DEFINE price2 == meter'[m].price
        <5>2. price2 = IF inbox[m][1].type = "TARIFF_UPDATE"
                       THEN inbox[m][1].value ELSE meter[m].price
          BY <3>2
        <5> HIDE DEF due, price2
        <5>3. Shown(price2, Tail(inbox[m]), due)
          BY <1>0, <2>1, <5>1, <5>2, ReadShown
        <5> QED
          BY <1>0, <2>1, <3>2, <4>2, <5>3 DEF Displaying, due, price2
      <4> QED
        BY <4>1, <4>2
    <3> QED
      BY <1>1, <3>1, <3>2, ReadsPrice
  <2> QED
    BY <1>0, <2>2 DEF Displays
<1>2. CASE SendReport(m)
  <2>1. meter[m].state = "report" /\ inbox' = inbox /\ Goto(m, "awaitAck")
    BY <1>2 DEF SendReport
  <2>2. meter'[m].state = "awaitAck" /\ meter'[m].price = meter[m].price
    BY <2>1 DEF Goto, SessionTypeOK, MeterRecords
  <2>3. Displaying(m, conn[m], told[m], "awaitAck", meter[m].price, inbox[m])
    BY <1>0, <2>1 DEF Displaying
  <2> QED
    BY <1>0, <2>1, <2>2, <2>3 DEF Displays
<1>3. CASE ReadCommand(m)
  <2>1. /\ inbox[m] # <<>> /\ inbox'[m] = Tail(inbox[m])
        /\ inbox[m][1].type = "REDUCE_CONSUMPTION_CMD"
    BY <1>3, InboxRead DEF ReadCommand
  <2>2. meter[m].state = "waitCommand" /\ Goto(m, "awaitReducedAck")
    BY <1>3 DEF ReadCommand
  <2>3. meter'[m].state = "awaitReducedAck" /\ meter'[m].price = meter[m].price
    BY <2>2 DEF Goto, SessionTypeOK, MeterRecords
  <2> DEFINE price2 == meter[m].price
  <2>4. price2 = IF inbox[m][1].type = "TARIFF_UPDATE" THEN inbox[m][1].value ELSE meter[m].price
    BY <2>1
  <2>5. conn[m].stage # "closed" => Shown(meter[m].price, inbox[m], due)
    BY <1>0, <2>2 DEF Displaying
  <2> HIDE DEF due, price2
  <2>6. conn[m].stage # "closed" => Shown(price2, Tail(inbox[m]), due)
    BY <1>0, <2>1, <2>4, <2>5, ReadShown
  <2>7. Displaying(m, conn[m], told[m], "awaitReducedAck", price2, Tail(inbox[m]))
    BY <1>0, <2>6 DEF Displaying, due
  <2> QED
    BY <1>0, <2>1, <2>3, <2>7 DEF Displays, price2
<1> QED
  BY <1>1, <1>2, <1>3 DEF MeterRuns, MeterReads

\* A new program displays nothing, and its connection is still to be made.
LEMMA MeterConnectsDisplay ==
    ASSUME SessionTypeOK, ProgramsInv, NEW m \in Meters, NEW t \in MeterTypes,
           MeterConnects(m, t)
    PROVE  Displays(m)'
<1>1. meter[m] = MeterOff /\ conn'[m].stage = "closed"
  BY DEF MeterConnects, Connect, ProgramsInv, vars
<1>2. meter'[m].price = NoPrice
  BY <1>1 DEF MeterConnects, Connect, SessionTypeOK, MeterRecords, MeterOff
<1> QED
  BY <1>1, <1>2 DEF Displays, Displaying

LEMMA MeterOtherwiseDisplay ==
    ASSUME SessionTypeOK, NEW m \in Meters, Displays(m),
           MeterTimesOut(m) \/ MeterSeesEnd(m) \/ MeterStopped(m)
    PROVE  Displays(m)'
<1>0. /\ Displaying(m, conn[m], told[m], meter[m].state, meter[m].price, inbox[m])
      /\ conn' = conn /\ told' = told
  BY DEF Displays, MeterTimesOut, MeterSeesEnd, MeterStopped, vars
<1>1. CASE MeterTimesOut(m)
  <2>1. /\ meter[m].state \in {"waitCommand", "waitTariff"} /\ UNCHANGED <<inbox, outbox>>
        /\ Goto(m, "report")
    BY <1>1 DEF MeterTimesOut, WaitTimesOut, Waiting
  <2>2. meter'[m].state = "report" /\ meter'[m].price = meter[m].price
    BY <2>1 DEF Goto, SessionTypeOK, MeterRecords
  <2>3. Displaying(m, conn[m], told[m], "report", meter[m].price, inbox[m])
    BY <1>0, <2>1 DEF Displaying
  <2> QED
    BY <1>0, <2>1, <2>2, <2>3 DEF Displays
<1>2. CASE MeterSeesEnd(m) \/ MeterStopped(m)
  <2>1. Stop(m)
    BY <1>2 DEF MeterSeesEnd, MeterStopped
  <2>2. meter'[m].state = "off" /\ meter'[m].price = NoPrice
    BY <2>1 DEF Stop, SessionTypeOK, MeterOff
  <2>3. Displaying(m, conn[m], told[m], "off", NoPrice, inbox'[m])
    BY <1>0 DEF Displaying
  <2> QED
    BY <1>0, <2>2, <2>3 DEF Displays
<1> QED
  BY <1>1, <1>2

-----------------------------------------------------------------------------
\* The table is what the price on the display rests on: a tariff that is posted finds no
\* other one before it, and is not taken for an acknowledgement.
THEOREM DisplayInvariant == ASSUME SameCycle PROVE SessionSpec => []DisplayInv
<1>1. SessionInit => DisplayInv
  <2> SUFFICES ASSUME SessionInit, NEW m \in Meters PROVE Displays(m)
    BY DEF DisplayInv
  <2>1. conn[m].stage = "closed" /\ meter[m].state = "off" /\ meter[m].price = NoPrice
    BY SameSets DEF SessionInit, Init, MeterInit, MeterOff, Closed
  <2> QED
    BY <2>1 DEF Displays, Displaying
<1>2. /\ EndsInv /\ EndsInv' /\ ConversationInv /\ SteppingInv /\ InStep
      /\ DisplayInv /\ [SessionNext]_sessionVars
      => DisplayInv'
  <2> SUFFICES ASSUME EndsInv, EndsInv', ConversationInv, SteppingInv, InStep, DisplayInv,
                      [SessionNext]_sessionVars
               PROVE  DisplayInv'
    OBVIOUS
  <2>1. SessionsInv /\ TypeOK /\ TypeOK' /\ CyclesInv' /\ SessionTypeOK /\ ProgramsInv
    BY DEF EndsInv, ServerInv, SessionsInv
  <2>2. ASSUME NEW m \in Meters, OneSteps(m), ~missed'[m] => Displays(m)' PROVE DisplayInv'
    <3>1. ASSUME NEW j \in Meters \ {m}, ~missed'[j] PROVE Displays(j)'
      BY <2>1, <2>2, <3>1, OthersUntouched DEF DisplayInv, Displays, Untouched
    <3> QED
      BY <2>2, <3>1 DEF DisplayInv
  <2>3. ASSUME NEW m \in Meters, ~missed[m] PROVE Matched(m) /\ MeterInStep(m) /\ Displays(m)
    BY <2>3 DEF SteppingInv, InStep, DisplayInv
  <2>4. ASSUME NEW m \in Meters, ServerContinues(m) PROVE DisplayInv'
    <3>1. missed' = missed
      BY <2>4 DEF ServerContinues
    <3>2. ~missed'[m] => Displays(m)'
      BY <2>1, <2>3, <2>4, <3>1, ServerContinuesDisplay
    <3> QED
      BY <2>2, <2>4, <3>2 DEF OneSteps
  <2>5. ASSUME NEW m \in Meters, ServerReceives(m) PROVE DisplayInv'
    <3>1. missed' = missed
      BY <2>5 DEF ServerReceives
    <3>2. ~missed'[m] => Displays(m)'
      BY <2>1, <2>3, <2>5, <3>1, ServerReceivesDisplay
    <3> QED
      BY <2>2, <2>5, <3>2 DEF OneSteps
  <2>6. ASSUME NEW m \in Meters, ServerAccepts(m) \/ HandshakeDone(m) \/ ServerSeesEnd(m)
        PROVE  DisplayInv'
    <3>1. missed' = missed
      BY <2>6 DEF ServerAccepts, HandshakeDone, ServerSeesEnd
    <3>2. ~missed'[m] => Displays(m)'
      BY <2>1, <2>3, <2>6, <3>1, ServerOtherwiseDisplay
    <3> QED
      BY <2>2, <2>6, <3>2 DEF OneSteps
  <2>7. ASSUME NEW m \in Meters, MeterRuns(m) PROVE DisplayInv'
    <3>1. missed' = missed
      BY <2>7 DEF MeterRuns
    <3>2. ~missed'[m] => Displays(m)'
      BY <2>1, <2>3, <2>7, <3>1, MeterDisplay
    <3> QED
      BY <2>2, <2>7, <3>2 DEF OneSteps
  <2>8. ASSUME NEW m \in Meters, NEW t \in MeterTypes, MeterConnects(m, t) PROVE DisplayInv'
    <3>1. Displays(m)'
      BY <2>1, <2>8, MeterConnectsDisplay
    <3> QED
      BY <2>2, <2>8, <3>1 DEF OneSteps
  <2>9. ASSUME NEW m \in Meters, MeterTimesOut(m) \/ MeterSeesEnd(m) \/ MeterStopped(m)
        PROVE  DisplayInv'
    <3>1. ~missed'[m] => ~missed[m]
      BY <2>1, <2>9 DEF MeterTimesOut, MeterSeesEnd, MeterStopped, SessionTypeOK
    <3>2. ~missed'[m] => Displays(m)'
      BY <2>1, <2>3, <2>9, <3>1, MeterOtherwiseDisplay
    <3> QED
      BY <2>2, <2>9, <3>2 DEF OneSteps
  <2>10. ASSUME Orphaned, conn' = [c \in Conns |-> Closed] PROVE DisplayInv'
    <3>1. missed' = missed
      BY <2>10 DEF Orphaned
    <3> QED
      BY <2>3, <2>10, <3>1, OrphanedDisplay DEF DisplayInv
  <2>11. ASSUME UNCHANGED <<conn, told, meterVars, missed>> PROVE DisplayInv'
    BY <2>11 DEF DisplayInv, Displays, meterVars
  <2> QED
    BY <2>4, <2>5, <2>6, <2>7, <2>8, <2>9, <2>10, <2>11
       DEF SessionNext, ServerThrows, ReportSyncThrows, ServerKilled, Killed, CentralLost,
           ServerStarts, Start, sessionVars, vars
<1> QED
  BY <1>1, <1>2, SessionInvariant, ConversationInvariant, SteppingInvariant, StepIsKept, PTL
     DEF SessionSpec

\* PriceShown (lastTariffByDevice, server_async.cpp:584): between two cycles a meter that has
\* missed no message displays the price that the server remembers having sent it, so the
\* server does not skip a tariff that the meter does not know.
THEOREM DisplayedPriceIsCurrent == ASSUME SameCycle PROVE SessionSpec => []PriceShown
<1>1. EndsInv /\ DisplayInv /\ MeterKnowsPrice => PriceShown
  <2> SUFFICES ASSUME EndsInv, DisplayInv, MeterKnowsPrice, NEW m \in Meters, ~missed[m],
                      meter[m].state = "report", inbox[m] = <<>>,
                      conn[m].stage = "awaitReport"
               PROVE  meter[m].price = lastTariff[m]
    BY DEF PriceShown, ShowsPrice, NothingToCome
  <2>1. m \in Conns /\ SessionInv(m)
    BY SameSets DEF EndsInv, ServerInv, SessionsInv
  <2>2. Serving(m)
    BY <2>1 DEF SessionInv, Unregistered
  <2>3. Displaying(m, conn[m], told[m], meter[m].state, meter[m].price, <<>>) /\ Len(<<>>) = 0
    BY DEF DisplayInv, Displays
  <2>4. meter[m].price = told[m] /\ conn[m].device = m
    BY <2>3 DEF Displaying, Shown, Due
  <2> QED
    BY <2>1, <2>2, <2>4 DEF MeterKnowsPrice
<1>2. Spec => []MeterKnowsPrice
  BY SameSets, MetersKnowTheirPrice
<1> QED
  BY <1>1, <1>2, SessionInvariant, SessionsAreServed, DisplayInvariant, PTL
=============================================================================
