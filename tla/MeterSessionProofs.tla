-------------------------- MODULE MeterSessionProofs --------------------------
(***************************************************************************)
(* Meters and their regional server together.  However late the messages   *)
(* are, the composition is a behaviour of RegionalServer, so what is       *)
(* proved there holds here; and the conversation, which late messages      *)
(* shift, keeps enough of its shape for neither end to be stuck and for    *)
(* the proof of a reduction to be one.                                     *)
(***************************************************************************)
EXTENDS MeterSession, RegionalDecisionProofs

\* A measurement that the client program takes after a command.
IsReduced(message) ==
    message.type = "CONSUMPTION_REPORT" /\ 100 * message.value <= 95 * TargetPower

\* Up to the registration: one request, one answer, and nothing else is under way.
Opening(k, state, in, out) ==
    /\ state \in {"off", "connecting"} => in = <<>>
    /\ state = "connecting" => k.stage \in {"closed", "handshake"}
    /\ k.stage = "handshake" => state \in {"off", "connecting"}
    /\ k.stage \in {"closed", "handshake"} => out = <<>>
    /\ k.stage = "awaitRegister" =>
          /\ state \in {"off", "awaitRegisterAck"} /\ in = <<>>
          /\ Len(out) = 1
    /\ \A i \in 1 .. Len(out) : out[i].type = "REGISTER_REQ" <=> k.stage = "awaitRegister"
    /\ k.stage = "writeRegisterAck" /\ ~k.registered =>
          /\ state \in {"off", "awaitRegisterAck"} /\ out = <<>>
          /\ state = "awaitRegisterAck" => in[1].value = 0
    /\ state = "awaitRegisterAck" =>
          /\ k.stage \in {"awaitRegister", "writeRegisterAck", "awaitReport", "closed"}
          /\ k.stage # "awaitRegister" => out = <<>>
          /\ k.stage \in {"writeRegisterAck", "awaitReport"} => Len(in) = 1
          /\ Len(in) <= 1

\* A command is under way to the meter, or its confirmation to the server, only while
\* the server waits for it; the reduced measurement comes right behind the latter.
Commanding(k, in, out) ==
    /\ \A i \in 1 .. Len(in) : in[i].type = "REDUCE_CONSUMPTION_CMD" =>
          /\ k.stage \in {"writeCommand", "awaitCommandAck", "closed"}
          /\ \A j \in 1 .. Len(in) : in[j].type = "REDUCE_CONSUMPTION_CMD" => i = j
          /\ \A j \in 1 .. Len(out) : out[j].type # "COMMAND_ACK"
    /\ \A i \in 1 .. Len(out) : out[i].type = "COMMAND_ACK" =>
          /\ k.stage \in {"writeCommand", "awaitCommandAck"}
          /\ \A j \in 1 .. Len(out) : out[j].type = "COMMAND_ACK" => i = j
          /\ i + 1 \in 1 .. Len(out) /\ IsReduced(out[i + 1])
    /\ k.stage = "awaitReducedReport" => Len(out) >= 1 /\ IsReduced(out[1])

\* The server's part of the proof: whose measurement it was, and what came of it.
Proving(m, k) ==
    /\ k.stage \in {"syncing", "writeReportAck", "writeCommand", "awaitCommandAck",
                    "awaitReducedReport"} => k.uri = m
    /\ k.stage \in {"syncingReduced", "writeReducedAck"} => k.reduced

\* What a meter that waits for an acknowledgement waits for exists: it has arrived, or
\* the server works on it, or the last thing the meter has sent is a report.
Answering(k, state, in, out) ==
    state \in {"awaitAck", "awaitReducedAck"} =>
        \/ in # <<>>
        \/ k.stage \in Blocking \cup {"closed"}
        \/ Len(out) >= 1 /\ out[Len(out)].type = "CONSUMPTION_REPORT"

Conversation(m, k, state, in, out) ==
    /\ Opening(k, state, in, out)
    /\ Commanding(k, in, out)
    /\ Proving(m, k)
    /\ Answering(k, state, in, out)

ConversationInv ==
    \A m \in Meters : Conversation(m, conn[m], meter[m].state, inbox[m], outbox[m])

-----------------------------------------------------------------------------
(* The composition is a behaviour of the server.                           *)

LEMMA SameSets ==
    /\ Meters = Devices /\ Conns = Devices /\ MeasuredPowers = Powers
    /\ MeterTypes \subseteq RegisteredTypes /\ OwnUris
    /\ \A d \in Devices : d \in ReportUris[d]
BY SessionAssumption DEF OwnUris

LEMMA MessageFields ==
    ASSUME NEW t, NEW v
    PROVE  Message(t, v).type = t /\ Message(t, v).value = v /\ Message(t, v) = [type |-> t, value |-> v]
BY DEF Message

\* What the values of the messages to the server are.
LEMMA MeterMessageValues ==
    ASSUME NEW message \in MeterMessages
    PROVE  /\ message.type \in {"REGISTER_REQ", "CONSUMPTION_REPORT", "DATA_STREAM_SAMPLE",
                                "COMMAND_ACK"}
           /\ message.type = "REGISTER_REQ" => message.value \in RegisteredTypes
           /\ message.type = "CONSUMPTION_REPORT" => message.value \in Powers
BY SameSets DEF MeterMessages

LEMMA HeadAndTail ==
    ASSUME NEW S, NEW q \in Seq(S), q # <<>>
    PROVE  /\ Head(q) = q[1] /\ Head(q) \in S /\ Tail(q) \in Seq(S)
           /\ Len(q) \in Nat \ {0} /\ Len(Tail(q)) = Len(q) - 1
           /\ \A i \in 1 .. Len(Tail(q)) : Tail(q)[i] = q[i + 1]
OBVIOUS

\* Every step of the composition is a step of the server, or none.
LEMMA ServerStep ==
    ASSUME SessionTypeOK, [SessionNext]_sessionVars
    PROVE  [Next]_vars
<1>1. ASSUME NEW m \in Meters, ServerReceives(m) PROVE [Next]_vars
  <2> DEFINE message == Head(outbox[m])
  <2>1. message \in MeterMessages
    BY <1>1, HeadAndTail DEF ServerReceives, SessionTypeOK
  <2>2. m \in Conns /\ m \in Devices
    BY SameSets
  <2>3. \/ message.type = "REGISTER_REQ" /\ Register(m, m, message.value)
        \/ message.type = "CONSUMPTION_REPORT" /\ ReportReceived(m, m, message.value)
        \/ message.type = "CONSUMPTION_REPORT" /\ ReducedReportReceived(m, m, message.value)
        \/ SampleReceived(m)
        \/ CommandAccepted(m)
        \/ UnexpectedMessage(m)
    BY <1>1 DEF ServerReceives
  <2> HIDE DEF message
  <2> QED
    BY <2>1, <2>2, <2>3, MeterMessageValues DEF Next
<1>2. ASSUME NEW m \in Meters, ServerContinues(m) \/ ServerSeesEnd(m) \/ ServerThrows(m)
      PROVE  [Next]_vars
  BY <1>2, SameSets DEF ServerContinues, ServerSeesEnd, ServerThrows, Next
<1>3. ASSUME NEW m \in Meters, ServerAccepts(m) \/ HandshakeDone(m) PROVE [Next]_vars
  BY <1>3, SameSets DEF ServerAccepts, HandshakeDone, Next
<1>4. ASSUME NEW m \in Meters,
             \/ \E t \in MeterTypes : MeterConnects(m, t)
             \/ MeterRuns(m) \/ MeterTimesOut(m) \/ MeterSeesEnd(m) \/ MeterStopped(m)
      PROVE  UNCHANGED vars
  BY <1>4 DEF MeterConnects, MeterRuns, MeterTimesOut, MeterSeesEnd, MeterStopped
<1>5. CASE CentralLost \/ ServerKilled \/ ServerStarts \/ UNCHANGED sessionVars
  BY <1>5 DEF ServerKilled, ServerStarts, Next, sessionVars
<1> QED
  BY <1>1, <1>2, <1>3, <1>4, <1>5 DEF SessionNext

\* What is on the wire towards a meter has a type if the server's record has.
LEMMA WrittenTypes ==
    ASSUME NEW k \in Connections, k.stage \in Writing,
           k.stage = "writeTariff" => k.price \in Prices
    PROVE  Written(k) \in ServerMessages
<1>1. CASE k.stage = "writeRegisterAck"
  BY <1>1 DEF Written, Message, ServerMessages
<1>2. CASE k.stage \in {"writeReportAck", "writeReducedAck"}
  BY <1>2 DEF Written, Message, ServerMessages
<1>3. CASE k.stage = "writeCommand"
  BY <1>3 DEF Written, Message, ServerMessages
<1>4. CASE k.stage = "writeTariff"
  BY <1>4 DEF Written, Message, ServerMessages
<1> QED
  BY <1>1, <1>2, <1>3, <1>4 DEF Writing

LEMMA AppendFacts ==
    ASSUME NEW S, NEW q \in Seq(S), NEW x \in S
    PROVE  /\ Append(q, x) \in Seq(S) /\ Len(q) \in Nat
           /\ Len(Append(q, x)) = Len(q) + 1 /\ Append(q, x)[Len(q) + 1] = x
           /\ \A i \in 1 .. Len(q) : Append(q, x)[i] = q[i]
OBVIOUS

\* The same for the two messages that the client program sends together.
LEMMA SendFacts ==
    ASSUME NEW S, NEW q \in Seq(S), NEW x \in S, NEW y \in S
    PROVE  /\ q \o <<x, y>> \in Seq(S) /\ Len(q) \in Nat
           /\ Len(q \o <<x, y>>) = Len(q) + 2
           /\ \A i \in 1 .. Len(q) : (q \o <<x, y>>)[i] = q[i]
           /\ (q \o <<x, y>>)[Len(q) + 1] = x /\ (q \o <<x, y>>)[Len(q) + 2] = y
OBVIOUS

LEMMA PostTypes ==
    ASSUME SessionTypeOK, TypeOK', CyclesInv', NEW m \in Meters, Post(m)
    PROVE  inbox' \in [Meters -> Seq(ServerMessages)]
<1>1. CASE conn'[m].stage \in Writing \ {conn[m].stage}
  <2>1. Written(conn'[m]) \in ServerMessages
    BY <1>1, SameSets, WrittenTypes DEF TypeOK, CyclesInv, CycleInv
  <2>2. Append(inbox[m], Written(conn'[m])) \in Seq(ServerMessages)
    BY <2>1, AppendFacts DEF SessionTypeOK
  <2> QED
    BY <2>2 DEF Post, SessionTypeOK
<1>2. CASE conn'[m].stage \notin Writing \ {conn[m].stage}
  BY <1>2 DEF Post, SessionTypeOK
<1> QED
  BY <1>1, <1>2

LEMMA MeterOffType == MeterOff \in MeterRecords
BY SentAssumption DEF MeterOff, MeterRecords, MeterStates

LEMMA GotoType ==
    ASSUME SessionTypeOK, NEW m \in Meters, NEW state \in MeterStates, Goto(m, state)
    PROVE  meter' \in [Meters -> MeterRecords]
<1>1. [meter[m] EXCEPT !.state = state] \in MeterRecords
  BY DEF SessionTypeOK, MeterRecords
<1>2. meter' = [meter EXCEPT ![m] = [meter[m] EXCEPT !.state = state]]
  BY DEF Goto
<1> QED
  BY <1>1, <1>2 DEF SessionTypeOK

LEMMA ReadType ==
    ASSUME SessionTypeOK, NEW m \in Meters, Read(m)
    PROVE  inbox' \in [Meters -> Seq(ServerMessages)] /\ Head(inbox[m]) \in ServerMessages
BY HeadAndTail DEF SessionTypeOK, Read

LEMMA SendType ==
    ASSUME SessionTypeOK, NEW m \in Meters, NEW x \in MeterMessages, NEW y \in MeterMessages,
           Send(m, <<x, y>>)
    PROVE  outbox' \in [Meters -> Seq(MeterMessages)]
<1>1. outbox[m] \o <<x, y>> \in Seq(MeterMessages)
  BY SendFacts DEF SessionTypeOK
<1> QED
  BY <1>1 DEF SessionTypeOK, Send

LEMMA MeasuredTypes ==
    ASSUME NEW t, NEW p \in RegularPowers(t) \cup ReducedPowers(t)
    PROVE  /\ Sample(p) \in MeterMessages /\ Report(p) \in MeterMessages
           /\ Message("COMMAND_ACK", 1) \in MeterMessages
BY DEF RegularPowers, ReducedPowers, Sample, Report, Message, MeterMessages

\* The steps of the client program keep the types.
LEMMA MeterTypesStep ==
    ASSUME SessionTypeOK, NEW m \in Meters, MeterReads(m) \/ SendReport(m), missed' = missed
    PROVE  SessionTypeOK'
<1>1. CASE ReadRegisterAck(m)
  <2>1. meter' \in [Meters -> MeterRecords]
    <3>1. CASE Head(inbox[m]) = Message("REGISTER_ACK", 1)
      BY <1>1, <3>1, GotoType DEF ReadRegisterAck, MeterStates
    <3>2. CASE Head(inbox[m]) # Message("REGISTER_ACK", 1)
      BY <1>1, <3>2, MeterOffType DEF ReadRegisterAck, SessionTypeOK
    <3> QED
      BY <3>1, <3>2
  <2> QED
    BY <1>1, <2>1, ReadType DEF ReadRegisterAck, SessionTypeOK
<1>2. CASE SendReport(m)
  <2>1. PICK p \in RegularPowers(meter[m].userType) : Send(m, <<Sample(p), Report(p)>>)
    BY <1>2 DEF SendReport
  <2>2. outbox' \in [Meters -> Seq(MeterMessages)]
    BY <2>1, MeasuredTypes, SendType
  <2>3. meter' \in [Meters -> MeterRecords]
    BY <1>2, GotoType DEF SendReport, MeterStates, Reading
  <2> QED
    BY <1>2, <2>2, <2>3 DEF SendReport, SessionTypeOK
<1>3. CASE ReadAck(m)
  <2>1. meter[m] \in MeterRecords /\ meter[m].sent \in 0 .. ReportsSent - 1
    BY DEF SessionTypeOK, MeterRecords
  <2>2. CASE LastReport(m)
    <3>1. 0 \in 0 .. ReportsSent - 1
      BY SentAssumption
    <3>2. [meter[m] EXCEPT !.state = "waitCommand", !.sent = 0] \in MeterRecords
      BY <2>1, <3>1 DEF MeterRecords, MeterStates, Waiting
    <3>3. meter' = [meter EXCEPT ![m] = [meter[m] EXCEPT !.state = "waitCommand", !.sent = 0]]
      BY <1>3, <2>2 DEF ReadAck
    <3> QED
      BY <1>3, <3>2, <3>3, ReadType DEF ReadAck, SessionTypeOK
  <2>3. CASE ~LastReport(m)
    <3>1. meter[m].sent + 1 \in 0 .. ReportsSent - 1
      BY <2>1, <2>3, SentAssumption DEF LastReport
    <3>2. [meter[m] EXCEPT !.state = "report", !.sent = @ + 1] \in MeterRecords
      BY <2>1, <3>1 DEF MeterRecords, MeterStates
    <3>3. meter' = [meter EXCEPT ![m] = [meter[m] EXCEPT !.state = "report", !.sent = @ + 1]]
      BY <1>3, <2>3 DEF ReadAck
    <3> QED
      BY <1>3, <3>2, <3>3, ReadType DEF ReadAck, SessionTypeOK
  <2> QED
    BY <2>2, <2>3
<1>4. CASE ReadCommand(m)
  <2>1. PICK p \in ReducedPowers(meter[m].userType) :
            Send(m, <<Message("COMMAND_ACK", 1), Report(p)>>)
    BY <1>4 DEF ReadCommand, ReductionAnswer
  <2>2. outbox' \in [Meters -> Seq(MeterMessages)]
    BY <2>1, MeasuredTypes, SendType
  <2>3. meter' \in [Meters -> MeterRecords]
    BY <1>4, GotoType DEF ReadCommand, MeterStates, Reading
  <2> QED
    BY <1>4, <2>2, <2>3, ReadType DEF ReadCommand, SessionTypeOK
<1>5. CASE ReadReducedAck(m)
  BY <1>5, ReadType, GotoType DEF ReadReducedAck, MeterStates, Waiting, SessionTypeOK
<1>6. CASE ReadTariff(m)
  <2> DEFINE message == Head(inbox[m])
             price   == IF message.type = "TARIFF_UPDATE" THEN message.value ELSE meter[m].price
  <2>1. meter[m] \in MeterRecords /\ message \in ServerMessages
    BY <1>6, ReadType DEF ReadTariff, SessionTypeOK
  <2>2. price \in Prices \cup {NoPrice}
    BY <2>1 DEF MeterRecords, ServerMessages
  <2>3. meter' = [meter EXCEPT ![m] = [meter[m] EXCEPT !.state = "report", !.price = price]]
    BY <1>6 DEF ReadTariff
  <2> HIDE DEF price
  <2>4. [meter[m] EXCEPT !.state = "report", !.price = price] \in MeterRecords
    BY <2>1, <2>2 DEF MeterRecords, MeterStates
  <2> QED
    BY <1>6, <2>3, <2>4, ReadType DEF ReadTariff, SessionTypeOK
<1> QED
  BY <1>1, <1>2, <1>3, <1>4, <1>5, <1>6 DEF MeterReads

\* A program that runs has got its user type on the command line; of one that does not
\* run, nothing is left.
ProgramsInv ==
    \A m \in Meters :
        IF meter[m].state = "off" THEN meter[m] = MeterOff ELSE meter[m].userType \in MeterTypes

LEMMA ProgramsStep ==
    ASSUME SessionTypeOK, ProgramsInv, [SessionNext]_sessionVars
    PROVE  ProgramsInv'
<1>1. ASSUME NEW m \in Meters, \A k \in Meters \ {m} : meter'[k] = meter[k],
             \/ meter'[m] = MeterOff
             \/ /\ meter'[m].state # "off"
                /\ \/ meter'[m].userType \in MeterTypes
                   \/ meter'[m].userType = meter[m].userType /\ meter[m].state # "off"
      PROVE  ProgramsInv'
  BY <1>1 DEF ProgramsInv, MeterOff
<1>2. ASSUME meter' = meter PROVE ProgramsInv'
  BY <1>2 DEF ProgramsInv
<1>3. ASSUME NEW m \in Meters, NEW state, Goto(m, state), state # "off", meter[m].state # "off"
      PROVE  ProgramsInv'
  BY <1>1, <1>3 DEF Goto, SessionTypeOK, MeterRecords
<1>4. ASSUME NEW m \in Meters, meter' = [meter EXCEPT ![m] = MeterOff] PROVE ProgramsInv'
  BY <1>1, <1>4 DEF SessionTypeOK
<1>5. ASSUME NEW m \in Meters, MeterReads(m) \/ SendReport(m) PROVE ProgramsInv'
  <2>1. CASE ReadRegisterAck(m)
    BY <1>3, <1>4, <2>1 DEF ReadRegisterAck
  <2>2. CASE ReadAck(m) /\ LastReport(m)
    BY <1>1, <2>2 DEF ReadAck, SessionTypeOK, MeterRecords
  <2>3. CASE ReadAck(m) /\ ~LastReport(m)
    BY <1>1, <2>3 DEF ReadAck, SessionTypeOK, MeterRecords
  <2>4. CASE ReadTariff(m)
    <3>1. /\ meter[m].state # "off" /\ meter'[m].state = "report"
          /\ meter'[m].userType = meter[m].userType
          /\ \A k \in Meters \ {m} : meter'[k] = meter[k]
      BY <2>4 DEF ReadTariff, Waiting, SessionTypeOK, MeterRecords
    <3> QED
      BY <1>1, <3>1
  <2>5. CASE SendReport(m) \/ ReadCommand(m) \/ ReadReducedAck(m)
    BY <1>3, <2>5 DEF SendReport, ReadCommand, ReadReducedAck
  <2> QED
    BY <1>5, <2>1, <2>2, <2>3, <2>4, <2>5 DEF MeterReads
<1>6. ASSUME Orphaned PROVE ProgramsInv'
  BY <1>6 DEF Orphaned, MeterOff, ProgramsInv
<1>7. ASSUME NEW m \in Meters, HandshakeDone(m) \/ MeterTimesOut(m) PROVE ProgramsInv'
  BY <1>3, <1>7 DEF HandshakeDone, RequestRegistration, MeterTimesOut, WaitTimesOut, Waiting
<1>8. ASSUME NEW m \in Meters, NEW t \in MeterTypes, MeterConnects(m, t) PROVE ProgramsInv'
  BY <1>1, <1>8 DEF MeterConnects, Connect, SessionTypeOK, MeterRecords
<1>9. ASSUME NEW m \in Meters, Stop(m) PROVE ProgramsInv'
  BY <1>4, <1>9 DEF Stop
<1>10. ASSUME NEW m \in Meters,
              ServerAccepts(m) \/ ServerReceives(m) \/ ServerContinues(m) \/ ServerSeesEnd(m)
       PROVE  ProgramsInv'
  BY <1>2, <1>10 DEF ServerAccepts, ServerReceives, ServerContinues, ServerSeesEnd, meterVars
<1>11. ASSUME UNCHANGED meterVars PROVE ProgramsInv'
  BY <1>2, <1>11 DEF meterVars
<1> QED
  BY <1>5, <1>6, <1>7, <1>8, <1>9, <1>10, <1>11
     DEF SessionNext, ServerThrows, ServerKilled, ServerStarts, MeterRuns, MeterSeesEnd,
         MeterStopped, sessionVars

LEMMA SessionTypesStep ==
    ASSUME SessionTypeOK, ProgramsInv, TypeOK', CyclesInv', [SessionNext]_sessionVars
    PROVE  SessionTypeOK'
<1>1. ASSUME NEW m \in Meters, ServerReceives(m) PROVE SessionTypeOK'
  <2>1. <<>> \in Seq(MeterMessages) /\ Tail(outbox[m]) \in Seq(MeterMessages)
    BY <1>1, HeadAndTail DEF ServerReceives, SessionTypeOK
  <2>2. outbox' \in [Meters -> Seq(MeterMessages)]
    BY <1>1, <2>1 DEF ServerReceives, SessionTypeOK
  <2> QED
    BY <1>1, <2>2, PostTypes DEF ServerReceives, SessionTypeOK
<1>2. ASSUME NEW m \in Meters, ServerContinues(m) PROVE SessionTypeOK'
  BY <1>2, PostTypes DEF ServerContinues, SessionTypeOK
<1>3. ASSUME NEW m \in Meters, ServerSeesEnd(m) PROVE SessionTypeOK'
  BY <1>3 DEF ServerSeesEnd, SessionTypeOK
<1>4. ASSUME Orphaned PROVE SessionTypeOK'
  BY <1>4, MeterOffType DEF Orphaned, SessionTypeOK
<1>5. ASSUME NEW m \in Meters, HandshakeDone(m) PROVE SessionTypeOK'
  <2>1. Message("REGISTER_REQ", meter[m].userType) \in MeterMessages
    BY <1>5 DEF HandshakeDone, RequestRegistration, Message, MeterMessages, ProgramsInv
  <2>2. outbox[m] \o <<Message("REGISTER_REQ", meter[m].userType)>> \in Seq(MeterMessages)
    BY <2>1 DEF SessionTypeOK
  <2>3. meter' \in [Meters -> MeterRecords]
    BY <1>5, GotoType DEF HandshakeDone, RequestRegistration, MeterStates, Reading
  <2> QED
    BY <1>5, <2>2, <2>3 DEF HandshakeDone, RequestRegistration, Send, SessionTypeOK
<1>6. ASSUME NEW m \in Meters, NEW t \in MeterTypes, MeterConnects(m, t) PROVE SessionTypeOK'
  <2>1. [meter[m] EXCEPT !.state = "connecting", !.userType = t] \in MeterRecords
    BY DEF SessionTypeOK, MeterRecords, MeterStates
  <2>2. meter' = [meter EXCEPT ![m] = [meter[m] EXCEPT !.state = "connecting", !.userType = t]]
    BY <1>6 DEF MeterConnects, Connect
  <2> QED
    BY <1>6, <2>1, <2>2 DEF MeterConnects, Connect, SessionTypeOK
<1>7. ASSUME NEW m \in Meters, MeterTimesOut(m) PROVE SessionTypeOK'
  <2>1. missed' \in [Meters -> BOOLEAN]
    BY <1>7 DEF MeterTimesOut, SessionTypeOK
  <2> QED
    BY <1>7, <2>1, GotoType DEF MeterTimesOut, WaitTimesOut, MeterStates, SessionTypeOK
<1>8. ASSUME NEW m \in Meters, Stop(m), missed' = missed PROVE SessionTypeOK'
  BY <1>8, MeterOffType DEF Stop, SessionTypeOK
<1>9. ASSUME UNCHANGED <<meterVars, missed>> PROVE SessionTypeOK'
  BY <1>9 DEF meterVars, SessionTypeOK
<1> QED
  BY <1>1, <1>2, <1>3, <1>4, <1>5, <1>6, <1>7, <1>8, <1>9, MeterTypesStep
     DEF SessionNext, ServerThrows, ServerKilled, ServerStarts, ServerAccepts, MeterRuns,
         MeterSeesEnd, MeterStopped, sessionVars

\* The server's invariants, and the types of both ends and of what is under way.
ServerInv == SessionsInv /\ CyclesInv
EndsInv == ServerInv /\ SessionTypeOK /\ ProgramsInv

THEOREM SessionInvariant == SessionSpec => []EndsInv
<1>1. SessionInit => EndsInv
  <2> SUFFICES ASSUME SessionInit PROVE EndsInv
    OBVIOUS
  <2>1. SessionsInv /\ CyclesInv
    BY SessionsStart, CyclesStart DEF SessionInit
  <2>2. SessionTypeOK /\ ProgramsInv
    BY MeterOffType DEF SessionInit, MeterInit, SessionTypeOK, ProgramsInv, MeterOff
  <2> QED
    BY <2>1, <2>2 DEF EndsInv, ServerInv
<1>2. EndsInv /\ [SessionNext]_sessionVars => EndsInv'
  <2> SUFFICES ASSUME EndsInv, [SessionNext]_sessionVars PROVE EndsInv'
    OBVIOUS
  <2>1. [Next]_vars
    BY ServerStep DEF EndsInv
  <2>2. TypeOK'
    BY <2>1, TypeStep DEF EndsInv, ServerInv, SessionsInv
  <2>3. SessionsInv' /\ CyclesInv'
    BY <2>1, <2>2, SessionsStep, CyclesStep DEF EndsInv, ServerInv
  <2> QED
    BY <2>2, <2>3, SessionTypesStep, ProgramsStep DEF EndsInv, ServerInv
<1> QED
  BY <1>1, <1>2, PTL DEF SessionSpec

\* The types of the client program and of the messages in both directions: a displayed
\* price is one the tariff function returns.
THEOREM SessionTypes == SessionSpec => []SessionTypeOK
<1>1. EndsInv => SessionTypeOK
  BY DEF EndsInv
<1> QED
  BY <1>1, SessionInvariant, PTL

\* Meters as the client program makes them are an environment that RegionalServer allows
\* for: whatever is proved of every behaviour of the server holds in this composition.
THEOREM SessionsAreServed == SessionSpec => Spec
<1>1. SessionInit => Init
  BY DEF SessionInit
<1>2. SessionTypeOK /\ [SessionNext]_sessionVars => [Next]_vars
  BY ServerStep
<1> QED
  BY <1>1, <1>2, SessionTypes, PTL DEF SessionSpec, Spec

-----------------------------------------------------------------------------
(* The conversation of one meter, step by step.  What a step does to the   *)
(* server's record k, to the state of the meter and to the two channels is *)
(* spelt out here; which action does it is settled afterwards.             *)

LEMMA EmptyFacts ==
    ASSUME NEW S, NEW q \in Seq(S)
    PROVE  Len(q) \in Nat /\ (q = <<>> <=> Len(q) = 0)
OBVIOUS

\* The meter reads one message, or none, and goes on without sending.
LEMMA MeterMoves ==
    ASSUME NEW m, NEW k, NEW state, NEW in \in Seq(ServerMessages), NEW out \in Seq(MeterMessages),
           Conversation(m, k, state, in, out),
           state \notin {"off", "connecting", "awaitRegisterAck"},
           NEW state2 \in {"report", "waitCommand", "waitTariff"},
           NEW in2 \in {in, Tail(in)}, in2 # in => in # <<>>
    PROVE  Conversation(m, k, state2, in2, out)
<1>1. \/ in2 = in
      \/ Len(in2) = Len(in) - 1 /\ \A i \in 1 .. Len(in2) : in2[i] = in[i + 1]
  BY HeadAndTail
<1>2. in2 \in Seq(ServerMessages) /\ Len(in) \in Nat /\ Len(in2) \in Nat
  BY HeadAndTail, EmptyFacts
<1>3. Opening(k, state2, in2, out)
  BY DEF Opening, Conversation
<1>4. Commanding(k, in2, out)
  <2>1. CASE in2 = in
    BY <2>1 DEF Conversation
  <2>2. CASE in2 # in
    <3>1. \A i \in 1 .. Len(in2) : i + 1 \in 1 .. Len(in) /\ in2[i] = in[i + 1]
      BY <1>1, <1>2, <2>2
    <3>2. Commanding(k, in, out)
      BY DEF Conversation
    <3>3. ASSUME NEW i \in 1 .. Len(in2), in2[i].type = "REDUCE_CONSUMPTION_CMD"
          PROVE  /\ k.stage \in {"writeCommand", "awaitCommandAck", "closed"}
                 /\ \A j \in 1 .. Len(in2) : in2[j].type = "REDUCE_CONSUMPTION_CMD" => i = j
                 /\ \A j \in 1 .. Len(out) : out[j].type # "COMMAND_ACK"
      <4>1. i + 1 \in 1 .. Len(in) /\ in[i + 1].type = "REDUCE_CONSUMPTION_CMD"
        BY <3>1, <3>3
      <4>2. /\ k.stage \in {"writeCommand", "awaitCommandAck", "closed"}
            /\ \A j \in 1 .. Len(in) : in[j].type = "REDUCE_CONSUMPTION_CMD" => i + 1 = j
            /\ \A j \in 1 .. Len(out) : out[j].type # "COMMAND_ACK"
        BY <3>2, <4>1 DEF Commanding
      <4>3. \A j \in 1 .. Len(in2) : in2[j].type = "REDUCE_CONSUMPTION_CMD" => i + 1 = j + 1
        BY <3>1, <4>2
      <4> QED
        BY <4>2, <4>3
    <3> QED
      BY <3>2, <3>3 DEF Commanding
  <2> QED
    BY <2>1, <2>2
<1>5. Proving(m, k) /\ Answering(k, state2, in2, out)
  BY DEF Conversation, Answering
<1> QED
  BY <1>3, <1>4, <1>5 DEF Conversation

\* The meter sends a report behind a sample or, having read a command, behind its
\* confirmation.
LEMMA MeterSends ==
    ASSUME NEW m, NEW k, NEW state, NEW in \in Seq(ServerMessages), NEW out \in Seq(MeterMessages),
           Conversation(m, k, state, in, out), k.stage # "closed",
           state \in {"report", "waitCommand"},
           NEW state2 \in {"awaitAck", "awaitReducedAck"},
           NEW x \in MeterMessages, NEW y \in MeterMessages,
           y.type = "CONSUMPTION_REPORT", NEW in2,
           \/ x.type = "DATA_STREAM_SAMPLE" /\ in2 = in
           \/ /\ x.type = "COMMAND_ACK" /\ IsReduced(y)
              /\ in # <<>> /\ in2 = Tail(in) /\ in[1].type = "REDUCE_CONSUMPTION_CMD"
    PROVE  Conversation(m, k, state2, in2, out \o <<x, y>>)
<1> DEFINE out2 == out \o <<x, y>>
<1>1. /\ out2 \in Seq(MeterMessages) /\ Len(out) \in Nat /\ Len(out2) = Len(out) + 2
      /\ out2[Len(out) + 1] = x /\ out2[Len(out) + 2] = y
      /\ \A i \in 1 .. Len(out) : out2[i] = out[i]
  BY SendFacts
<1> HIDE DEF out2
<1>2. \A i \in 1 .. Len(out2) : i \in 1 .. Len(out) \/ i = Len(out) + 1 \/ i = Len(out) + 2
  BY <1>1
<1>3. Opening(k, state, in, out) /\ Commanding(k, in, out)
  BY DEF Conversation
<1>4. k.stage \notin {"closed", "handshake", "awaitRegister"}
  BY <1>3 DEF Opening
<1>5. \A i \in 1 .. Len(out2) : out2[i].type # "REGISTER_REQ"
  BY <1>1, <1>2, <1>3, <1>4 DEF Opening
<1>6. Opening(k, state2, in2, out2)
  BY <1>3, <1>4, <1>5 DEF Opening
<1>7. Commanding(k, in2, out2)
  <2>1. CASE x.type = "DATA_STREAM_SAMPLE" /\ in2 = in
    <3>1. \A i \in 1 .. Len(out2) : out2[i].type = "COMMAND_ACK" => i \in 1 .. Len(out)
      BY <1>1, <1>2, <2>1
    <3>2. \A i \in 1 .. Len(out) : i + 1 \in 1 .. Len(out) => out2[i + 1] = out[i + 1]
      BY <1>1
    <3>3. ASSUME NEW i \in 1 .. Len(out2), out2[i].type = "COMMAND_ACK"
          PROVE  /\ k.stage \in {"writeCommand", "awaitCommandAck"}
                 /\ \A j \in 1 .. Len(out2) : out2[j].type = "COMMAND_ACK" => i = j
                 /\ i + 1 \in 1 .. Len(out2) /\ IsReduced(out2[i + 1])
      <4>1. i \in 1 .. Len(out) /\ out[i].type = "COMMAND_ACK"
        BY <1>1, <3>1, <3>3
      <4>2. /\ k.stage \in {"writeCommand", "awaitCommandAck"}
            /\ \A j \in 1 .. Len(out) : out[j].type = "COMMAND_ACK" => i = j
            /\ i + 1 \in 1 .. Len(out) /\ IsReduced(out[i + 1])
        BY <1>3, <4>1 DEF Commanding
      <4> QED
        BY <1>1, <3>1, <3>2, <4>1, <4>2
    <3>4. \A i \in 1 .. Len(in2) : in2[i].type = "REDUCE_CONSUMPTION_CMD" =>
              /\ k.stage \in {"writeCommand", "awaitCommandAck", "closed"}
              /\ \A j \in 1 .. Len(in2) : in2[j].type = "REDUCE_CONSUMPTION_CMD" => i = j
              /\ \A j \in 1 .. Len(out2) : out2[j].type # "COMMAND_ACK"
      BY <1>1, <1>3, <2>1, <3>1 DEF Commanding
    <3>5. k.stage = "awaitReducedReport" => Len(out2) >= 1 /\ IsReduced(out2[1])
      BY <1>1, <1>3 DEF Commanding
    <3> QED
      BY <3>3, <3>4, <3>5 DEF Commanding
  <2>2. CASE x.type = "COMMAND_ACK" /\ IsReduced(y) /\ in # <<>> /\ in2 = Tail(in)
             /\ in[1].type = "REDUCE_CONSUMPTION_CMD"
    <3>1. Len(in) \in Nat \ {0} /\ Len(in2) = Len(in) - 1
          /\ \A i \in 1 .. Len(in2) : in2[i] = in[i + 1]
      BY <2>2, HeadAndTail
    <3>2. 1 \in 1 .. Len(in) /\ \A i \in 1 .. Len(in2) : i + 1 \in 1 .. Len(in) /\ i + 1 # 1
      BY <3>1
    <3>3. /\ k.stage \in {"writeCommand", "awaitCommandAck"}
          /\ \A j \in 1 .. Len(in) : in[j].type = "REDUCE_CONSUMPTION_CMD" => 1 = j
          /\ \A j \in 1 .. Len(out) : out[j].type # "COMMAND_ACK"
      BY <1>3, <1>4, <2>2, <3>2 DEF Commanding
    <3>4. \A i \in 1 .. Len(in2) : in2[i].type # "REDUCE_CONSUMPTION_CMD"
      BY <3>1, <3>2, <3>3
    <3>5. \A i \in 1 .. Len(out2) : out2[i].type = "COMMAND_ACK" => i = Len(out) + 1
      BY <1>1, <1>2, <3>3
    <3>6. Len(out) + 1 + 1 \in 1 .. Len(out2) /\ out2[Len(out) + 1 + 1] = y
      BY <1>1
    <3> QED
      BY <2>2, <3>3, <3>4, <3>5, <3>6 DEF Commanding
  <2> QED
    BY <2>1, <2>2
<1>8. Proving(m, k)
  BY DEF Conversation
<1>9. Answering(k, state2, in2, out2)
  BY <1>1 DEF Answering
<1> QED
  BY <1>6, <1>7, <1>8, <1>9 DEF Conversation, out2

\* The meter program ends: what it has sent stays under way, what it was sent is lost.
LEMMA MeterEnds ==
    ASSUME NEW m, NEW k, NEW state, NEW in \in Seq(ServerMessages), NEW out \in Seq(MeterMessages),
           Conversation(m, k, state, in, out)
    PROVE  Conversation(m, k, "off", <<>>, out)
<1>1. Len(<<>>) = 0
  OBVIOUS
<1>2. Opening(k, state, in, out) /\ Commanding(k, in, out)
  BY DEF Conversation
<1>3. k.stage = "handshake" => out = <<>>
  BY <1>2 DEF Opening
<1>4. Opening(k, "off", <<>>, out)
  BY <1>2 DEF Opening
<1>5. Commanding(k, <<>>, out)
  BY <1>1, <1>2 DEF Commanding
<1> QED
  BY <1>4, <1>5 DEF Conversation, Answering

\* The meter reads the answer to its REGISTER_REQ.
LEMMA MeterRegisters ==
    ASSUME NEW m, NEW k, NEW in \in Seq(ServerMessages), NEW out \in Seq(MeterMessages),
           Conversation(m, k, "awaitRegisterAck", in, out), in # <<>>,
           NEW state2, state2 = IF in[1] = Message("REGISTER_ACK", 1) THEN "report" ELSE "off"
    PROVE  Conversation(m, k, state2, <<>>, out) /\ Tail(in) = <<>>
<1>1. Len(in) \in Nat \ {0} /\ Tail(in) \in Seq(ServerMessages) /\ Len(Tail(in)) = Len(in) - 1
  BY HeadAndTail
<1>2. Opening(k, "awaitRegisterAck", in, out) /\ Commanding(k, in, out)
  BY DEF Conversation
<1>3. Len(in) = 1
  BY <1>1, <1>2 DEF Opening
<1>4. Tail(in) = <<>>
  <2>1. Len(Tail(in)) = 0
    BY <1>1, <1>3
  <2> QED
    BY <1>1, <2>1, EmptyFacts
<1>5. in[1] = Message("REGISTER_ACK", 1) => in[1].value = 1
  BY DEF Message
<1>6. k.stage \notin {"awaitRegister", "handshake"}
  BY <1>2 DEF Opening
<1>7. k.stage = "writeRegisterAck" /\ ~k.registered => state2 = "off"
  BY <1>2, <1>5 DEF Opening
<1>8. Opening(k, state2, <<>>, out)
  BY <1>2, <1>6, <1>7 DEF Opening
<1>9. Commanding(k, <<>>, out)
  BY <1>2 DEF Commanding
<1> QED
  BY <1>4, <1>8, <1>9 DEF Conversation, Answering

\* A message arrives and the server goes on by closing the connection, or keeps it
\* and waits for the next one: a sample.
LEMMA SampleTaken ==
    ASSUME NEW m, NEW k, NEW state, NEW in \in Seq(ServerMessages), NEW out \in Seq(MeterMessages),
           Conversation(m, k, state, in, out), k.stage = "awaitReport", out # <<>>,
           out[1].type = "DATA_STREAM_SAMPLE"
    PROVE  Conversation(m, k, state, in, Tail(out))
<1> DEFINE out2 == Tail(out)
<1>1. /\ out2 \in Seq(MeterMessages) /\ Len(out) \in Nat \ {0} /\ Len(out2) = Len(out) - 1
      /\ \A i \in 1 .. Len(out2) : i + 1 \in 1 .. Len(out) /\ out2[i] = out[i + 1]
  BY HeadAndTail
<1> HIDE DEF out2
<1>2. Opening(k, state, in, out) /\ Commanding(k, in, out)
  BY DEF Conversation
<1>3. \A i \in 1 .. Len(out2) : out2[i].type # "REGISTER_REQ"
  BY <1>1, <1>2 DEF Opening
<1>4. state # "awaitRegisterAck"
  BY <1>2 DEF Opening
<1>5. Opening(k, state, in, out2)
  BY <1>2, <1>3, <1>4 DEF Opening
<1>6. \A i \in 1 .. Len(in) : in[i].type # "REDUCE_CONSUMPTION_CMD"
  BY <1>2 DEF Commanding
<1>7. \A i \in 1 .. Len(out2) : out2[i].type # "COMMAND_ACK"
  BY <1>1, <1>2 DEF Commanding
<1>8. Commanding(k, in, out2)
  BY <1>6, <1>7 DEF Commanding
<1>9. Proving(m, k)
  BY DEF Conversation
<1>10. Answering(k, state, in, out2)
  <2>1. CASE in = <<>> /\ state \in {"awaitAck", "awaitReducedAck"}
    <3>1. Len(out) >= 1 /\ out[Len(out)].type = "CONSUMPTION_REPORT"
      BY <2>1 DEF Conversation, Answering, Blocking
    <3>2. Len(out) # 1
      BY <3>1
    <3>3. Len(out2) \in 1 .. Len(out2) /\ Len(out2) + 1 = Len(out) /\ Len(out2) >= 1
      BY <1>1, <3>2
    <3> QED
      BY <1>1, <3>1, <3>3 DEF Answering
  <2>2. CASE ~(in = <<>> /\ state \in {"awaitAck", "awaitReducedAck"})
    BY <2>2 DEF Answering
  <2> QED
    BY <2>1, <2>2
<1> QED
  BY <1>5, <1>8, <1>9, <1>10 DEF Conversation, out2

\* What becomes of a closed connection: nothing is under way to the server any more.
LEMMA ServerCloses ==
    ASSUME NEW m, NEW k, NEW state, NEW in \in Seq(ServerMessages), NEW out \in Seq(MeterMessages),
           Conversation(m, k, state, in, out),
           state = "connecting" => k.stage = "closed"
    PROVE  Conversation(m, Closed, state, in, <<>>)
<1>1. Len(<<>>) = 0 /\ Closed.stage = "closed"
  BY DEF Closed
<1>2. Opening(k, state, in, out) /\ Commanding(k, in, out)
  BY DEF Conversation
<1>3. Len(in) \in Nat /\ (in = <<>> <=> Len(in) = 0)
  BY EmptyFacts
<1>4. state = "awaitRegisterAck" => Len(in) <= 1
  BY <1>2 DEF Opening
<1>5. Opening(Closed, state, in, <<>>)
  BY <1>1, <1>2, <1>4 DEF Opening
<1>6. Commanding(Closed, in, <<>>)
  BY <1>1, <1>2 DEF Commanding
<1>7. Proving(m, Closed) /\ Answering(Closed, state, in, <<>>)
  BY <1>1 DEF Proving, Answering
<1> QED
  BY <1>5, <1>6, <1>7 DEF Conversation

\* A completion handler that no message triggers leads to the next stage, with a
\* message to the meter if that one is a write.
LEMMA ServerGoesOn ==
    ASSUME NEW m, NEW k, NEW state, NEW in \in Seq(ServerMessages), NEW out \in Seq(MeterMessages),
           Conversation(m, k, state, in, out),
           k.stage \in Blocking \cup (Writing \ {"writeCommand"}),
           NEW k2, Proving(m, k2),
           k2.stage \in {"awaitReport", "writeReportAck", "writeTariff", "writeCommand", "writeReducedAck"},
           NEW in2, NEW w \in ServerMessages,
           w.type = "REDUCE_CONSUMPTION_CMD" => k2.stage = "writeCommand",
           in2 = in \/ (state # "off" /\ in2 = Append(in, w)),
           k.stage = "writeRegisterAck" => k2.stage = "awaitReport" /\ in2 = in,
           k.stage \in Blocking => state = "off" \/ in2 = Append(in, w)
    PROVE  Conversation(m, k2, state, in2, out)
<1>1. /\ Append(in, w) \in Seq(ServerMessages) /\ Len(in) \in Nat
      /\ Len(Append(in, w)) = Len(in) + 1 /\ Append(in, w)[Len(in) + 1] = w
      /\ \A i \in 1 .. Len(in) : Append(in, w)[i] = in[i]
  BY AppendFacts
<1>2. Opening(k, state, in, out) /\ Commanding(k, in, out) /\ Answering(k, state, in, out)
  BY DEF Conversation
<1>3. state = "awaitRegisterAck" => k.stage = "writeRegisterAck" /\ Len(in) = 1 /\ out = <<>>
  BY <1>2 DEF Opening, Blocking, Writing
<1>4. state # "connecting"
  BY <1>2 DEF Opening, Blocking, Writing
<1>5. \A i \in 1 .. Len(out) : out[i].type # "REGISTER_REQ"
  BY <1>2 DEF Opening, Blocking, Writing
<1>6. state = "off" => in2 = <<>>
  BY <1>2 DEF Opening
<1>7. Opening(k2, state, in2, out)
  <2>1. state = "awaitRegisterAck" =>
           k2.stage = "awaitReport" /\ Len(in2) = 1 /\ Len(in2) <= 1 /\ out = <<>>
    <3>1. 1 <= 1
      OBVIOUS
    <3>2. state = "awaitRegisterAck" => k2.stage = "awaitReport" /\ in2 = in
      BY <1>3
    <3> QED
      BY <1>3, <3>1, <3>2, Zenon
  <2>2. k2.stage \notin {"closed", "handshake", "awaitRegister", "writeRegisterAck"}
    OBVIOUS
  <2>3. \A i \in 1 .. Len(out) : out[i].type = "REGISTER_REQ" <=> k2.stage = "awaitRegister"
    BY <1>5, <2>2
  <2> QED
    BY <1>4, <1>6, <2>1, <2>2, <2>3 DEF Opening
<1>8. /\ \A i \in 1 .. Len(in) : in[i].type # "REDUCE_CONSUMPTION_CMD"
      /\ \A i \in 1 .. Len(out) : out[i].type # "COMMAND_ACK"
  BY <1>2 DEF Commanding, Blocking, Writing
<1>9. \A i \in 1 .. Len(in2) : in2[i].type = "REDUCE_CONSUMPTION_CMD" =>
          i = Len(in) + 1 /\ k2.stage = "writeCommand"
  <2>1. CASE in2 = in
    BY <1>8, <2>1
  <2>2. CASE in2 = Append(in, w)
    <3>1. \A i \in 1 .. Len(in2) : i \in 1 .. Len(in) \/ i = Len(in) + 1
      BY <1>1, <2>2
    <3> QED
      BY <1>1, <1>8, <2>2, <3>1
  <2> QED
    BY <2>1, <2>2
<1>10. Commanding(k2, in2, out)
  BY <1>8, <1>9 DEF Commanding
<1>11. Answering(k2, state, in2, out)
  <2>1. Append(in, w) # <<>>
    BY <1>1, EmptyFacts
  <2>2. k.stage \notin Blocking => k.stage # "closed"
    BY DEF Writing
  <2> QED
    BY <1>2, <2>1, <2>2 DEF Answering, Blocking
<1> QED
  BY <1>7, <1>10, <1>11 DEF Conversation

\* The server has read a report, regular or reduced.
LEMMA ReportTaken ==
    ASSUME NEW m, NEW k, NEW state, NEW in \in Seq(ServerMessages), NEW out \in Seq(MeterMessages),
           Conversation(m, k, state, in, out),
           k.stage \in {"awaitReport", "awaitReducedReport"}, out # <<>>,
           NEW k2, Proving(m, k2),
           k2.stage \in {"syncing", "syncingReduced", "writeReportAck", "writeReducedAck"},
           NEW in2, NEW w \in ServerMessages, w.type # "REDUCE_CONSUMPTION_CMD",
           in2 = in \/ (state # "off" /\ in2 = Append(in, w)),
           state = "off" \/ k2.stage \in Blocking \/ in2 = Append(in, w)
    PROVE  Conversation(m, k2, state, in2, Tail(out))
<1> DEFINE out2 == Tail(out)
<1>1. /\ Append(in, w) \in Seq(ServerMessages) /\ Len(in) \in Nat
      /\ Len(Append(in, w)) = Len(in) + 1 /\ Append(in, w)[Len(in) + 1] = w
      /\ \A i \in 1 .. Len(in) : Append(in, w)[i] = in[i]
  BY AppendFacts
<1>2. /\ out2 \in Seq(MeterMessages) /\ Len(out) \in Nat \ {0} /\ Len(out2) = Len(out) - 1
      /\ \A i \in 1 .. Len(out2) : i + 1 \in 1 .. Len(out) /\ out2[i] = out[i + 1]
  BY HeadAndTail
<1> HIDE DEF out2
<1>3. Opening(k, state, in, out) /\ Commanding(k, in, out)
  BY DEF Conversation
<1>4. state \notin {"awaitRegisterAck", "connecting"}
  BY <1>3 DEF Opening
<1>5. \A i \in 1 .. Len(out2) : out2[i].type # "REGISTER_REQ" /\ out2[i].type # "COMMAND_ACK"
  <2>1. \A i \in 1 .. Len(out) : out[i].type # "REGISTER_REQ"
    BY <1>3 DEF Opening
  <2>2. \A i \in 1 .. Len(out) : out[i].type # "COMMAND_ACK"
    BY <1>3 DEF Commanding
  <2> QED
    BY <1>2, <2>1, <2>2
<1>6. state = "off" => in2 = <<>>
  BY <1>3 DEF Opening
<1>7. Opening(k2, state, in2, out2)
  BY <1>4, <1>5, <1>6 DEF Opening
<1>8. \A i \in 1 .. Len(in2) : in2[i].type # "REDUCE_CONSUMPTION_CMD"
  <2>1. \A i \in 1 .. Len(in) : in[i].type # "REDUCE_CONSUMPTION_CMD"
    BY <1>3 DEF Commanding
  <2>2. CASE in2 = in
    BY <2>1, <2>2
  <2>3. CASE in2 = Append(in, w)
    <3>1. \A i \in 1 .. Len(in2) : i \in 1 .. Len(in) \/ i = Len(in) + 1
      BY <1>1, <2>3
    <3> QED
      BY <1>1, <2>1, <2>3, <3>1
  <2> QED
    BY <2>2, <2>3
<1>9. Commanding(k2, in2, out2)
  BY <1>5, <1>8 DEF Commanding
<1>10. Answering(k2, state, in2, out2)
  <2>1. Append(in, w) # <<>>
    BY <1>1, EmptyFacts
  <2> QED
    BY <2>1 DEF Answering
<1> QED
  BY <1>7, <1>9, <1>10 DEF Conversation, out2

\* The server has read COMMAND_ACK: the reduced measurement is next.
LEMMA ConfirmationTaken ==
    ASSUME NEW m, NEW k, NEW state, NEW in \in Seq(ServerMessages), NEW out \in Seq(MeterMessages),
           Conversation(m, k, state, in, out),
           k.stage = "awaitCommandAck", out # <<>>, out[1].type = "COMMAND_ACK",
           NEW k2, k2.stage = "awaitReducedReport", k2.uri = k.uri
    PROVE  Conversation(m, k2, state, in, Tail(out))
<1> DEFINE out2 == Tail(out)
<1>1. /\ out2 \in Seq(MeterMessages) /\ Len(out) \in Nat \ {0} /\ Len(out2) = Len(out) - 1
      /\ \A i \in 1 .. Len(out2) : i + 1 \in 1 .. Len(out) /\ i + 1 # 1 /\ out2[i] = out[i + 1]
  BY HeadAndTail
<1> HIDE DEF out2
<1>2. Opening(k, state, in, out) /\ Commanding(k, in, out)
  BY DEF Conversation
<1>3. 1 \in 1 .. Len(out)
  BY <1>1
<1>4. /\ \A j \in 1 .. Len(out) : out[j].type = "COMMAND_ACK" => 1 = j
      /\ 2 \in 1 .. Len(out) /\ IsReduced(out[2])
  BY <1>2, <1>3 DEF Commanding
<1>5. Len(out2) >= 1 /\ 1 \in 1 .. Len(out2) /\ out2[1] = out[2]
  BY <1>1, <1>4
<1>6. \A i \in 1 .. Len(out2) : out2[i].type # "COMMAND_ACK" /\ out2[i].type # "REGISTER_REQ"
  BY <1>1, <1>2, <1>4 DEF Opening
<1>7. \A i \in 1 .. Len(in) : in[i].type # "REDUCE_CONSUMPTION_CMD"
  BY <1>2, <1>3 DEF Commanding
<1>8. Commanding(k2, in, out2)
  BY <1>4, <1>5, <1>6, <1>7 DEF Commanding
<1>9. state \notin {"awaitRegisterAck", "connecting"}
  BY <1>2 DEF Opening
<1>10. Opening(k2, state, in, out2)
  BY <1>2, <1>6, <1>9 DEF Opening
<1>11. Proving(m, k2)
  BY DEF Conversation, Proving
<1>12. Answering(k2, state, in, out2)
  <2>1. Len(out2) \in 1 .. Len(out2) /\ Len(out2) + 1 = Len(out)
    BY <1>1, <1>5
  <2>2. Len(out2) >= 1 /\ out2[Len(out2)] = out[Len(out)]
    BY <1>1, <1>5, <2>1
  <2> QED
    BY <2>2 DEF Answering, Blocking, Conversation
<1> QED
  BY <1>8, <1>10, <1>11, <1>12 DEF Conversation, out2

\* The write of the command is complete.
LEMMA CommandSent ==
    ASSUME NEW m, NEW k, NEW state, NEW in, NEW out, Conversation(m, k, state, in, out),
           k.stage = "writeCommand", NEW k2, k2.stage = "awaitCommandAck", k2.uri = k.uri
    PROVE  Conversation(m, k2, state, in, out)
<1>1. Opening(k2, state, in, out)
  BY DEF Conversation, Opening
<1>2. Commanding(k2, in, out)
  BY DEF Conversation, Commanding
<1>3. Proving(m, k2) /\ Answering(k2, state, in, out)
  BY DEF Conversation, Proving, Answering, Blocking
<1> QED
  BY <1>1, <1>2, <1>3 DEF Conversation

\* The server has read REGISTER_REQ and answers it, unless the meter has gone.
LEMMA RequestTaken ==
    ASSUME NEW m, NEW k, NEW state, NEW in \in Seq(ServerMessages), NEW out \in Seq(MeterMessages),
           Conversation(m, k, state, in, out), k.stage = "awaitRegister",
           NEW k2, k2.stage = "writeRegisterAck",
           NEW in2, NEW w \in ServerMessages, w.type # "REDUCE_CONSUMPTION_CMD",
           ~k2.registered => w.value = 0,
           in2 = IF state = "off" THEN in ELSE Append(in, w)
    PROVE  Conversation(m, k2, state, in2, Tail(out))
<1>1. Opening(k, state, in, out) /\ Commanding(k, in, out)
  BY DEF Conversation
<1>2. state \in {"off", "awaitRegisterAck"} /\ in = <<>> /\ Len(out) = 1
  BY <1>1 DEF Opening
<1>3. Tail(out) = <<>>
  <2>1. out # <<>>
    BY <1>2, EmptyFacts
  <2>2. Tail(out) \in Seq(MeterMessages) /\ Len(Tail(out)) = 0
    BY <1>2, <2>1, HeadAndTail
  <2> QED
    BY <2>2, EmptyFacts
<1>4. state = "awaitRegisterAck" => Len(in2) = 1 /\ in2[1] = w
  BY <1>2
<1>5. state = "off" => in2 = <<>> /\ Len(in2) = 0
  BY <1>2
<1>6. Len(<<>>) = 0
  OBVIOUS
<1>7. Opening(k2, state, in2, <<>>)
  BY <1>2, <1>4, <1>5, <1>6 DEF Opening
<1>8. \A i \in 1 .. Len(in2) : in2[i].type # "REDUCE_CONSUMPTION_CMD"
  BY <1>2, <1>4, <1>5
<1>9. Commanding(k2, in2, <<>>)
  BY <1>6, <1>8 DEF Commanding
<1>10. Proving(m, k2) /\ Answering(k2, state, in2, <<>>)
  BY <1>2 DEF Proving, Answering
<1> QED
  BY <1>3, <1>7, <1>9, <1>10 DEF Conversation

\* The connection is made: by the meter, by the server, and by both in the handshake.
LEMMA MeterReady ==
    ASSUME NEW m, NEW k, NEW in, NEW out, Conversation(m, k, "off", in, out), k.stage = "closed"
    PROVE  Conversation(m, k, "connecting", in, out)
BY DEF Conversation, Opening, Answering

LEMMA ServerReady ==
    ASSUME NEW m, NEW k, NEW in, NEW out, Conversation(m, k, "connecting", in, out),
           NEW k2, k2.stage = "handshake"
    PROVE  Conversation(m, k2, "connecting", in, out)
<1>1. k.stage \in {"closed", "handshake"} /\ in = <<>> /\ out = <<>> /\ Len(<<>>) = 0
  BY DEF Conversation, Opening
<1>2. Opening(k2, "connecting", in, out) /\ Commanding(k2, in, out)
  BY <1>1 DEF Opening, Commanding
<1> QED
  BY <1>2 DEF Conversation, Proving, Answering

LEMMA RequestSent ==
    ASSUME NEW m, NEW k, NEW in, NEW out, Conversation(m, k, "connecting", in, out),
           k.stage = "handshake", NEW k2, k2.stage = "awaitRegister",
           NEW w, w.type = "REGISTER_REQ"
    PROVE  Conversation(m, k2, "awaitRegisterAck", in, out \o <<w>>)
<1>1. in = <<>> /\ out = <<>> /\ Len(<<>>) = 0
  BY DEF Conversation, Opening
<1>2. out \o <<w>> = <<w>> /\ Len(<<w>>) = 1 /\ \A i \in 1 .. Len(<<w>>) : <<w>>[i] = w
  BY <1>1
<1>3. Opening(k2, "awaitRegisterAck", in, <<w>>) /\ Commanding(k2, in, <<w>>)
  BY <1>1, <1>2 DEF Opening, Commanding
<1> QED
  BY <1>2, <1>3 DEF Conversation, Proving, Answering

-----------------------------------------------------------------------------
(* The conversation of one meter, action by action.                        *)

\* Steps of one meter's connection leave the other conversations alone.
LEMMA OneConversation ==
    ASSUME ConversationInv, NEW m \in Meters,
           \A j \in Meters \ {m} : /\ conn'[j] = conn[j] /\ meter'[j] = meter[j]
                                   /\ inbox'[j] = inbox[j] /\ outbox'[j] = outbox[j],
           Conversation(m, conn'[m], meter'[m].state, inbox'[m], outbox'[m])
    PROVE  ConversationInv'
<1>1. ASSUME NEW j \in Meters
      PROVE  Conversation(j, conn'[j], meter'[j].state, inbox'[j], outbox'[j])
  <2>1. CASE j = m
    BY <2>1
  <2>2. CASE j # m
    BY <2>2 DEF ConversationInv
  <2> QED
    BY <2>1, <2>2
<1> QED
  BY <1>1 DEF ConversationInv

LEMMA GotoFacts ==
    ASSUME SessionTypeOK, NEW m \in Meters, NEW state, Goto(m, state)
    PROVE  meter'[m].state = state /\ \A j \in Meters \ {m} : meter'[j] = meter[j]
BY DEF SessionTypeOK, MeterRecords, Goto

LEMMA InboxRead ==
    ASSUME SessionTypeOK, NEW m \in Meters, Read(m)
    PROVE  /\ inbox[m] # <<>> /\ inbox'[m] = Tail(inbox[m]) /\ Head(inbox[m]) = inbox[m][1]
           /\ \A j \in Meters \ {m} : inbox'[j] = inbox[j]
BY HeadAndTail DEF SessionTypeOK, Read

LEMMA OutboxSent ==
    ASSUME SessionTypeOK, NEW m \in Meters, NEW messages, Send(m, messages)
    PROVE  /\ outbox'[m] = outbox[m] \o messages
           /\ \A j \in Meters \ {m} : outbox'[j] = outbox[j]
BY DEF SessionTypeOK, Send

\* A message that is sent makes a difference, so the connection must be open.
LEMMA SendingIsOpen ==
    ASSUME SessionTypeOK, NEW m \in Meters, NEW x \in MeterMessages, NEW y \in MeterMessages,
           Send(m, <<x, y>>)
    PROVE  outbox' # outbox
<1>1. outbox'[m] = outbox[m] \o <<x, y>>
  BY OutboxSent
<1>2. outbox[m] \in Seq(MeterMessages)
  BY DEF SessionTypeOK
<1>3. Len(outbox[m]) \in Nat /\ Len(outbox[m] \o <<x, y>>) = Len(outbox[m]) + 2
  BY <1>2, SendFacts
<1> QED
  BY <1>1, <1>3

LEMMA MeterConversation ==
    ASSUME SessionTypeOK, ConversationInv, NEW m \in Meters, MeterRuns(m)
    PROVE  ConversationInv'
<1> DEFINE state == meter[m].state
<1>0. /\ inbox[m] \in Seq(ServerMessages) /\ outbox[m] \in Seq(MeterMessages)
      /\ Conversation(m, conn[m], state, inbox[m], outbox[m]) /\ conn' = conn
      /\ conn[m].stage = "closed" => outbox' = outbox
  BY DEF SessionTypeOK, ConversationInv, MeterRuns, vars
<1>1. CASE ReadRegisterAck(m)
  <2> DEFINE state2 == IF inbox[m][1] = Message("REGISTER_ACK", 1) THEN "report" ELSE "off"
  <2>1. /\ inbox[m] # <<>> /\ inbox'[m] = Tail(inbox[m]) /\ Head(inbox[m]) = inbox[m][1]
        /\ \A j \in Meters \ {m} : inbox'[j] = inbox[j]
    BY <1>1, InboxRead DEF ReadRegisterAck
  <2>2. meter'[m].state = state2 /\ \A j \in Meters \ {m} : meter'[j] = meter[j]
    <3>1. CASE inbox[m][1] = Message("REGISTER_ACK", 1)
      BY <1>1, <2>1, <3>1, GotoFacts DEF ReadRegisterAck
    <3>2. CASE inbox[m][1] # Message("REGISTER_ACK", 1)
      BY <1>1, <2>1, <3>2 DEF ReadRegisterAck, SessionTypeOK, MeterOff
    <3> QED
      BY <3>1, <3>2
  <2>3. state = "awaitRegisterAck" /\ outbox' = outbox
    BY <1>1 DEF ReadRegisterAck
  <2>4. Conversation(m, conn[m], state2, <<>>, outbox[m]) /\ Tail(inbox[m]) = <<>>
    <3>1. Conversation(m, conn[m], "awaitRegisterAck", inbox[m], outbox[m])
      BY <1>0, <2>3
    <3>2. state2 = IF inbox[m][1] = Message("REGISTER_ACK", 1) THEN "report" ELSE "off"
      OBVIOUS
    <3> HIDE DEF state2
    <3> QED
      BY <1>0, <2>1, <3>1, <3>2, MeterRegisters
  <2> QED
    BY <1>0, <2>1, <2>2, <2>3, <2>4, OneConversation
<1>2. CASE ReadAck(m) \/ ReadReducedAck(m) \/ ReadTariff(m)
  <2>1. /\ inbox[m] # <<>> /\ inbox'[m] = Tail(inbox[m])
        /\ \A j \in Meters \ {m} : inbox'[j] = inbox[j]
    BY <1>2, InboxRead DEF ReadAck, ReadReducedAck, ReadTariff
  <2>2. state \in {"awaitAck", "awaitReducedAck", "waitCommand", "waitTariff"} /\ outbox' = outbox
    BY <1>2 DEF ReadAck, ReadReducedAck, ReadTariff, Waiting
  <2>3. /\ meter'[m].state \in {"report", "waitCommand", "waitTariff"}
        /\ \A j \in Meters \ {m} : meter'[j] = meter[j]
    <3>1. CASE ReadAck(m) /\ LastReport(m)
      BY <3>1 DEF ReadAck, SessionTypeOK, MeterRecords
    <3>2. CASE ReadAck(m) /\ ~LastReport(m)
      BY <3>2 DEF ReadAck, SessionTypeOK, MeterRecords
    <3>3. CASE ReadReducedAck(m)
      BY <3>3, GotoFacts DEF ReadReducedAck
    <3>4. CASE ReadTariff(m)
      BY <3>4 DEF ReadTariff, SessionTypeOK, MeterRecords
    <3> QED
      BY <1>2, <3>1, <3>2, <3>3, <3>4
  <2>4. Conversation(m, conn[m], meter'[m].state, Tail(inbox[m]), outbox[m])
    <3>1. state \notin {"off", "connecting", "awaitRegisterAck"}
          /\ inbox'[m] \in {inbox[m], Tail(inbox[m])}
      BY <2>1, <2>2
    <3> HIDE DEF state
    <3> QED
      BY <1>0, <2>1, <2>3, <3>1, MeterMoves
  <2> QED
    BY <1>0, <2>1, <2>2, <2>3, <2>4, OneConversation
<1>3. CASE SendReport(m)
  <2>1. PICK p \in RegularPowers(meter[m].userType) : Send(m, <<Sample(p), Report(p)>>)
    BY <1>3 DEF SendReport
  <2>2. Sample(p) \in MeterMessages /\ Report(p) \in MeterMessages
    BY <2>1, MeasuredTypes
  <2>3. Sample(p).type = "DATA_STREAM_SAMPLE" /\ Report(p).type = "CONSUMPTION_REPORT"
    BY MessageFields DEF Sample, Report
  <2>4. /\ outbox'[m] = outbox[m] \o <<Sample(p), Report(p)>>
        /\ \A j \in Meters \ {m} : outbox'[j] = outbox[j]
    BY <2>1, OutboxSent
  <2>5. conn[m].stage # "closed"
    BY <1>0, <2>1, <2>2, SendingIsOpen
  <2>6. /\ state = "report" /\ inbox' = inbox /\ meter'[m].state = "awaitAck"
        /\ \A j \in Meters \ {m} : meter'[j] = meter[j]
    BY <1>3, GotoFacts DEF SendReport
  <2>7. Conversation(m, conn[m], "awaitAck", inbox[m], outbox[m] \o <<Sample(p), Report(p)>>)
    BY <1>0, <2>2, <2>3, <2>5, <2>6, MeterSends
  <2> QED
    BY <1>0, <2>4, <2>6, <2>7, OneConversation
<1>4. CASE ReadCommand(m)
  <2> DEFINE confirmation == Message("COMMAND_ACK", 1)
  <2>1. PICK p \in ReducedPowers(meter[m].userType) : Send(m, <<confirmation, Report(p)>>)
    BY <1>4 DEF ReadCommand, ReductionAnswer
  <2>2. confirmation \in MeterMessages /\ Report(p) \in MeterMessages
    BY <2>1, MeasuredTypes
  <2>3. confirmation.type = "COMMAND_ACK" /\ Report(p).type = "CONSUMPTION_REPORT"
        /\ Report(p).value = p
    BY MessageFields DEF Report
  <2>4. IsReduced(Report(p))
    BY <2>1, <2>3 DEF IsReduced, ReducedPowers
  <2>5. /\ outbox'[m] = outbox[m] \o <<confirmation, Report(p)>>
        /\ \A j \in Meters \ {m} : outbox'[j] = outbox[j]
    BY <2>1, OutboxSent
  <2>6. conn[m].stage # "closed"
    BY <1>0, <2>1, <2>2, SendingIsOpen
  <2>7. /\ inbox[m] # <<>> /\ inbox'[m] = Tail(inbox[m])
        /\ inbox[m][1].type = "REDUCE_CONSUMPTION_CMD"
        /\ \A j \in Meters \ {m} : inbox'[j] = inbox[j]
    BY <1>4, InboxRead DEF ReadCommand
  <2>8. /\ state = "waitCommand" /\ meter'[m].state = "awaitReducedAck"
        /\ \A j \in Meters \ {m} : meter'[j] = meter[j]
    BY <1>4, GotoFacts DEF ReadCommand
  <2> HIDE DEF confirmation
  <2>9. Conversation(m, conn[m], "awaitReducedAck", Tail(inbox[m]),
                     outbox[m] \o <<confirmation, Report(p)>>)
    <3>1. Conversation(m, conn[m], "waitCommand", inbox[m], outbox[m])
      BY <1>0, <2>8
    <3>2. "waitCommand" \in {"report", "waitCommand"}
          /\ "awaitReducedAck" \in {"awaitAck", "awaitReducedAck"}
      OBVIOUS
    <3> QED
      BY <1>0, <2>2, <2>3, <2>4, <2>6, <2>7, <3>1, <3>2, MeterSends
  <2> QED
    BY <1>0, <2>5, <2>7, <2>8, <2>9, OneConversation
<1> QED
  BY <1>1, <1>2, <1>3, <1>4 DEF MeterRuns, MeterReads

\* The other steps of a meter: it starts, gives up waiting, or ends.
LEMMA MeterOtherwise ==
    ASSUME SessionTypeOK, ConversationInv, NEW m \in Meters,
           \/ \E t \in MeterTypes : MeterConnects(m, t)
           \/ MeterTimesOut(m) \/ MeterSeesEnd(m) \/ MeterStopped(m)
    PROVE  ConversationInv'
<1>0. /\ inbox[m] \in Seq(ServerMessages) /\ outbox[m] \in Seq(MeterMessages)
      /\ Conversation(m, conn[m], meter[m].state, inbox[m], outbox[m]) /\ conn' = conn
  BY DEF SessionTypeOK, ConversationInv, MeterConnects, MeterTimesOut, MeterSeesEnd,
         MeterStopped, vars
<1>1. ASSUME NEW t \in MeterTypes, MeterConnects(m, t) PROVE ConversationInv'
  <2>1. meter[m].state = "off" /\ conn[m].stage = "closed" /\ UNCHANGED <<inbox, outbox>>
    BY <1>1 DEF MeterConnects, Connect
  <2>2. meter'[m].state = "connecting" /\ \A j \in Meters \ {m} : meter'[j] = meter[j]
    BY <1>1 DEF MeterConnects, Connect, SessionTypeOK, MeterRecords
  <2>3. Conversation(m, conn[m], "connecting", inbox[m], outbox[m])
    BY <1>0, <2>1, MeterReady
  <2> QED
    BY <1>0, <2>1, <2>2, <2>3, OneConversation
<1>2. CASE MeterTimesOut(m)
  <2>1. meter[m].state \in {"waitCommand", "waitTariff"} /\ UNCHANGED <<inbox, outbox>>
    BY <1>2 DEF MeterTimesOut, WaitTimesOut, Waiting
  <2>2. meter'[m].state = "report" /\ \A j \in Meters \ {m} : meter'[j] = meter[j]
    BY <1>2, GotoFacts DEF MeterTimesOut, WaitTimesOut
  <2>3. Conversation(m, conn[m], "report", inbox[m], outbox[m])
    <3>1. /\ meter[m].state \notin {"off", "connecting", "awaitRegisterAck"}
          /\ "report" \in {"report", "waitCommand", "waitTariff"}
          /\ inbox[m] \in {inbox[m], Tail(inbox[m])}
      BY <2>1
    <3> QED
      BY <1>0, <3>1, MeterMoves
  <2> QED
    BY <1>0, <2>1, <2>2, <2>3, OneConversation
<1>3. CASE MeterSeesEnd(m) \/ MeterStopped(m)
  <2>1. Stop(m)
    BY <1>3 DEF MeterSeesEnd, MeterStopped
  <2>2. /\ meter'[m].state = "off" /\ inbox'[m] = <<>> /\ outbox' = outbox
        /\ \A j \in Meters \ {m} : meter'[j] = meter[j] /\ inbox'[j] = inbox[j]
    BY <2>1 DEF Stop, SessionTypeOK, MeterOff
  <2>3. Conversation(m, conn[m], "off", <<>>, outbox[m])
    BY <1>0, MeterEnds
  <2> QED
    BY <1>0, <2>2, <2>3, OneConversation
<1> QED
  BY <1>1, <1>2, <1>3

-----------------------------------------------------------------------------
\* What the server's next stage puts on the way to the meter.
LEMMA PostFacts ==
    ASSUME SessionTypeOK, TypeOK', CyclesInv', NEW m \in Meters, Post(m),
           conn'[m].stage \in Writing \ {conn[m].stage}
    PROVE  \E w \in ServerMessages :
              /\ inbox'[m] = IF meter[m].state = "off" THEN inbox[m] ELSE Append(inbox[m], w)
              /\ w.type = "REDUCE_CONSUMPTION_CMD" => conn'[m].stage = "writeCommand"
              /\ conn'[m].stage = "writeRegisterAck" /\ ~conn'[m].registered => w.value = 0
<1> DEFINE w == Written(conn'[m])
<1>1. w \in ServerMessages
  BY SameSets, WrittenTypes DEF TypeOK, CyclesInv, CycleInv
<1>2. w.type = "REDUCE_CONSUMPTION_CMD" => conn'[m].stage = "writeCommand"
  <2>1. CASE conn'[m].stage = "writeRegisterAck"
    BY <2>1, MessageFields DEF Written
  <2>2. CASE conn'[m].stage \in {"writeReportAck", "writeReducedAck"}
    BY <2>2, MessageFields DEF Written
  <2>3. CASE conn'[m].stage = "writeTariff"
    BY <2>3, MessageFields DEF Written
  <2> QED
    BY <2>1, <2>2, <2>3 DEF Writing
<1>3. conn'[m].stage = "writeRegisterAck" /\ ~conn'[m].registered => w.value = 0
  BY MessageFields DEF Written
<1>4. inbox'[m] = IF meter[m].state = "off" THEN inbox[m] ELSE Append(inbox[m], w)
  <2>1. CASE meter[m].state = "off"
    BY <2>1 DEF Post
  <2>2. CASE meter[m].state # "off"
    BY <2>2 DEF Post, SessionTypeOK
  <2> QED
    BY <2>1, <2>2
<1> HIDE DEF w
<1> QED
  BY <1>1, <1>2, <1>3, <1>4

LEMMA PostFrame ==
    ASSUME SessionTypeOK, NEW m \in Meters, Post(m)
    PROVE  /\ \A j \in Meters \ {m} : inbox'[j] = inbox[j]
           /\ conn'[m].stage \notin Writing => inbox' = inbox
<1>1. CASE conn'[m].stage \in Writing \ {conn[m].stage} /\ meter[m].state # "off"
  BY <1>1 DEF Post, SessionTypeOK
<1>2. CASE ~(conn'[m].stage \in Writing \ {conn[m].stage} /\ meter[m].state # "off")
  BY <1>2 DEF Post
<1> QED
  BY <1>1, <1>2

\* What the completion handlers that no message triggers do to the server's record.
LEMMA ContinueFacts ==
    ASSUME TypeOK, ConversationInv, NEW m \in Meters, ServerContinues(m)
    PROVE  /\ \A j \in Meters \ {m} : conn'[j] = conn[j]
           /\ \/ /\ conn[m].stage = "writeCommand" /\ conn'[m].stage = "awaitCommandAck"
                 /\ conn'[m].uri = conn[m].uri
              \/ conn[m].stage = "writeRegisterAck" /\ ~conn[m].registered /\ conn'[m] = Closed
              \/ /\ conn[m].stage \in Blocking \cup (Writing \ {"writeCommand"})
                 /\ Proving(m, conn'[m])
                 /\ conn'[m].stage \in {"awaitReport", "writeReportAck", "writeTariff",
                                        "writeCommand", "writeReducedAck"}
                 /\ conn'[m].stage # conn[m].stage
                 /\ conn[m].stage = "writeRegisterAck" => conn'[m].stage = "awaitReport"
                 /\ conn[m].stage \in Blocking => conn'[m].stage \in Writing
<1>0. m \in Conns /\ conn[m] \in Connections /\ Meters = Conns /\ Proving(m, conn[m])
  BY SameSets DEF TypeOK, ConversationInv, Conversation
<1> DEFINE Others == \A j \in Meters \ {m} : conn'[j] = conn[j]
<1>1. CASE RegisterAckWritten(m)
  <2>1. CASE conn[m].registered
    BY <1>0, <1>1, <2>1, ReadFacts DEF RegisterAckWritten, Writing, Blocking, Proving
  <2>2. CASE ~conn[m].registered
    BY <1>0, <1>1, <2>2 DEF RegisterAckWritten, Close, TypeOK
  <2> QED
    BY <2>1, <2>2
<1>2. CASE ReportSynced(m) \/ ReducedReportSynced(m)
  <2>1. /\ Others /\ conn'[m].uri = conn[m].uri /\ conn'[m].reduced = conn[m].reduced
        /\ \/ conn[m].stage = "syncing" /\ conn'[m].stage = "writeReportAck"
           \/ conn[m].stage = "syncingReduced" /\ conn'[m].stage = "writeReducedAck"
    BY <1>0, <1>2 DEF ReportSynced, ReducedReportSynced, Move, TypeOK, Connections
  <2> QED
    BY <1>0, <2>1 DEF Blocking, Writing, Proving
<1>3. ASSUME NEW reduced \in BOOLEAN, SendTariff(m, reduced),
             conn[m].stage \in {"writeReportAck", "writeReducedAck"}
      PROVE  /\ Others /\ conn'[m].stage \in {"awaitReport", "writeTariff"}
             /\ conn[m].stage \in Writing \ {"writeCommand", "writeRegisterAck"}
             /\ Proving(m, conn'[m])
  <2>1. Others /\ conn'[m].stage \in {"awaitReport", "writeTariff"}
    BY <1>0, <1>3, ReadFacts, SendTariffFacts
  <2> QED
    BY <1>3, <2>1 DEF Writing, Proving
<1>4. CASE ReportAckWritten(m)
  <2>1. conn[m].stage = "writeReportAck"
    BY <1>4 DEF ReportAckWritten
  <2>2. CASE MoreReports(m)
    BY <1>0, <1>4, <2>1, <2>2, ReadFacts DEF ReportAckWritten, Writing, Blocking, Proving
  <2>3. CASE ~MoreReports(m) /\ conn[m].band # "high"
    BY <1>3, <1>4, <2>1, <2>3 DEF ReportAckWritten, Blocking
  <2>4. CASE ~MoreReports(m) /\ conn[m].band = "high"
    <3>1. Others /\ conn'[m].stage = "writeCommand" /\ conn'[m].uri = conn[m].uri
      BY <1>0, <1>4, <2>4 DEF ReportAckWritten, TypeOK, Connections
    <3> QED
      BY <1>0, <2>1, <3>1 DEF Writing, Blocking, Proving
  <2> QED
    BY <2>2, <2>3, <2>4
<1>5. CASE TariffWritten(m)
  BY <1>0, <1>5, ReadFacts DEF TariffWritten, Writing, Blocking, Proving
<1>6. CASE CommandWritten(m)
  BY <1>0, <1>6 DEF CommandWritten, Move, TypeOK, Connections
<1>7. CASE ReducedAckWritten(m)
  <2>1. conn[m].reduced \in BOOLEAN /\ conn[m].stage = "writeReducedAck"
    BY <1>0, <1>7 DEF ReducedAckWritten, Connections
  <2> QED
    BY <1>3, <1>7, <2>1 DEF ReducedAckWritten, Blocking
<1> QED
  BY <1>1, <1>2, <1>4, <1>5, <1>6, <1>7 DEF ServerContinues

LEMMA ServerContinuesConversation ==
    ASSUME TypeOK, SessionTypeOK, TypeOK', CyclesInv', ConversationInv,
           NEW m \in Meters, ServerContinues(m)
    PROVE  ConversationInv'
<1> DEFINE state == meter[m].state
           Continued == /\ conn[m].stage \in Blocking \cup (Writing \ {"writeCommand"})
                        /\ Proving(m, conn'[m])
                        /\ conn'[m].stage \in {"awaitReport", "writeReportAck", "writeTariff",
                                               "writeCommand", "writeReducedAck"}
                        /\ conn'[m].stage # conn[m].stage
                        /\ conn[m].stage = "writeRegisterAck" => conn'[m].stage = "awaitReport"
                        /\ conn[m].stage \in Blocking => conn'[m].stage \in Writing
<1>0. /\ inbox[m] \in Seq(ServerMessages) /\ outbox[m] \in Seq(MeterMessages)
      /\ Conversation(m, conn[m], state, inbox[m], outbox[m]) /\ Post(m)
      /\ meter' = meter /\ outbox' = outbox
  BY DEF SessionTypeOK, ConversationInv, ServerContinues
<1>1. /\ \A j \in Meters \ {m} : inbox'[j] = inbox[j]
      /\ conn'[m].stage \notin Writing => inbox' = inbox
  BY <1>0, PostFrame
<1>2. \A j \in Meters \ {m} : conn'[j] = conn[j]
  BY ContinueFacts
<1> HIDE DEF state
<1>3. SUFFICES Conversation(m, conn'[m], state, inbox'[m], outbox[m])
  BY <1>0, <1>1, <1>2, OneConversation DEF state
<1>4. CASE conn[m].stage = "writeCommand" /\ conn'[m].stage = "awaitCommandAck"
           /\ conn'[m].uri = conn[m].uri
  <2>1. inbox' = inbox
    BY <1>1, <1>4 DEF Writing
  <2> QED
    BY <1>0, <1>4, <2>1, CommandSent
<1>5. CASE conn[m].stage = "writeRegisterAck" /\ ~conn[m].registered /\ conn'[m] = Closed
  <2>1. inbox' = inbox
    BY <1>1, <1>5 DEF Writing, Closed
  <2>2. outbox[m] = <<>> /\ state # "connecting"
    BY <1>0, <1>5 DEF Conversation, Opening
  <2> QED
    BY <1>0, <1>5, <2>1, <2>2, ServerCloses
<1>6. CASE Continued
  <2>1. CASE conn'[m].stage = "awaitReport"
    <3>1. inbox' = inbox /\ conn[m].stage \notin Blocking
      BY <1>1, <1>6, <2>1 DEF Writing
    <3>2. PICK w \in ServerMessages : w.type # "REDUCE_CONSUMPTION_CMD"
      <4>1. Message("CONSUMPTION_ACK", 1) \in ServerMessages
        BY DEF Message, ServerMessages
      <4> QED
        BY <4>1, MessageFields
    <3>3. /\ w.type = "REDUCE_CONSUMPTION_CMD" => conn'[m].stage = "writeCommand"
          /\ inbox'[m] = inbox[m] \/ (state # "off" /\ inbox'[m] = Append(inbox[m], w))
          /\ conn[m].stage = "writeRegisterAck" =>
                conn'[m].stage = "awaitReport" /\ inbox'[m] = inbox[m]
          /\ conn[m].stage \in Blocking => state = "off" \/ inbox'[m] = Append(inbox[m], w)
      BY <2>1, <3>1, <3>2
    <3> QED
      BY <1>0, <1>6, <3>2, <3>3, ServerGoesOn
  <2>2. CASE conn'[m].stage # "awaitReport"
    <3>1. conn'[m].stage \in Writing \ {conn[m].stage}
      BY <1>6, <2>2 DEF Writing
    <3>2. PICK w \in ServerMessages :
             /\ inbox'[m] = IF state = "off" THEN inbox[m] ELSE Append(inbox[m], w)
             /\ w.type = "REDUCE_CONSUMPTION_CMD" => conn'[m].stage = "writeCommand"
      BY <1>0, <3>1, PostFacts DEF state
    <3>3. /\ inbox'[m] = inbox[m] \/ (state # "off" /\ inbox'[m] = Append(inbox[m], w))
          /\ state = "off" \/ inbox'[m] = Append(inbox[m], w)
      <4>1. CASE state = "off"
        BY <3>2, <4>1
      <4>2. CASE state # "off"
        BY <3>2, <4>2
      <4> QED
        BY <4>1, <4>2
    <3>4. conn[m].stage \in Blocking => state = "off" \/ inbox'[m] = Append(inbox[m], w)
      BY <3>3
    <3>5. conn[m].stage = "writeRegisterAck" =>
             conn'[m].stage = "awaitReport" /\ inbox'[m] = inbox[m]
      BY <1>6, <2>2
    <3> QED
      BY <1>0, <1>6, <3>2, <3>3, <3>4, <3>5, ServerGoesOn
  <2> QED
    BY <2>1, <2>2
<1> HIDE DEF Continued
<1> QED
  BY <1>4, <1>5, <1>6, ContinueFacts DEF Continued

\* What the handlers of a message of the meter do to the server's record.
LEMMA ServerReceivesConversation ==
    ASSUME TypeOK, SessionTypeOK, TypeOK', CyclesInv', ConversationInv,
           NEW m \in Meters, ServerReceives(m)
    PROVE  ConversationInv'
<1> DEFINE state   == meter[m].state
           message == outbox[m][1]
<1>1. /\ inbox[m] \in Seq(ServerMessages) /\ outbox[m] \in Seq(MeterMessages)
      /\ Conversation(m, conn[m], state, inbox[m], outbox[m]) /\ Post(m)
      /\ meter' = meter /\ outbox[m] # <<>> /\ conn[m].stage \in Receiving
      /\ Proving(m, conn[m]) /\ m \in Conns /\ Meters = Conns /\ conn[m] \in Connections
  BY SameSets DEF SessionTypeOK, ConversationInv, ServerReceives, Conversation, TypeOK
<1>2. /\ Head(outbox[m]) = message /\ message \in MeterMessages /\ 1 \in 1 .. Len(outbox[m])
      /\ Len(outbox[m]) >= 1
  <2>1. Head(outbox[m]) = message /\ message \in MeterMessages /\ Len(outbox[m]) \in Nat \ {0}
    BY <1>1, HeadAndTail
  <2> QED
    BY <2>1
<1>3. /\ outbox'[m] = IF conn'[m].stage = "closed" THEN <<>> ELSE Tail(outbox[m])
      /\ \A j \in Meters \ {m} : outbox'[j] = outbox[j]
  BY DEF ServerReceives, SessionTypeOK
<1>4. /\ \A j \in Meters \ {m} : inbox'[j] = inbox[j]
      /\ conn'[m].stage \notin Writing => inbox' = inbox
  BY <1>1, PostFrame
<1> DEFINE Others == \A j \in Meters \ {m} : conn'[j] = conn[j]
<1> HIDE DEF state, message
<1>5. ASSUME Others, Conversation(m, conn'[m], state, inbox'[m], outbox'[m]) PROVE ConversationInv'
  BY <1>1, <1>3, <1>4, <1>5, OneConversation DEF state
<1>6. CASE message.type = "REGISTER_REQ" /\ Register(m, m, message.value)
  <2>1. Others /\ conn'[m].stage = "writeRegisterAck" /\ conn[m].stage = "awaitRegister"
    BY <1>1, <1>6 DEF Register, TypeOK, Connections
  <2>2. conn'[m].stage \in Writing \ {conn[m].stage}
    BY <2>1 DEF Writing
  <2>3. PICK w \in ServerMessages :
           /\ inbox'[m] = IF state = "off" THEN inbox[m] ELSE Append(inbox[m], w)
           /\ w.type = "REDUCE_CONSUMPTION_CMD" => conn'[m].stage = "writeCommand"
           /\ conn'[m].stage = "writeRegisterAck" /\ ~conn'[m].registered => w.value = 0
    BY <1>1, <2>2, PostFacts DEF state
  <2>4. w.type # "REDUCE_CONSUMPTION_CMD" /\ (~conn'[m].registered => w.value = 0)
    BY <2>1, <2>3
  <2>5. Conversation(m, conn'[m], state, inbox'[m], Tail(outbox[m]))
    BY <1>1, <2>1, <2>3, <2>4, RequestTaken
  <2> QED
    BY <1>3, <1>5, <2>1, <2>5
<1>7. ASSUME Others, conn[m].stage \in {"awaitReport", "awaitReducedReport"}, Proving(m, conn'[m]),
             conn'[m].stage \in {"syncing", "syncingReduced", "writeReportAck", "writeReducedAck"}
      PROVE  ConversationInv'
  <2>1. CASE conn'[m].stage \in Blocking
    <3>1. inbox'[m] = inbox[m]
      BY <1>4, <2>1 DEF Blocking, Writing
    <3>2. PICK w \in ServerMessages : w.type # "REDUCE_CONSUMPTION_CMD"
      <4>1. Message("CONSUMPTION_ACK", 1) \in ServerMessages
        BY DEF Message, ServerMessages
      <4> QED
        BY <4>1, MessageFields
    <3>3. inbox'[m] = inbox[m] \/ (state # "off" /\ inbox'[m] = Append(inbox[m], w))
      BY <3>1
    <3>4. Conversation(m, conn'[m], state, inbox'[m], Tail(outbox[m]))
      BY <1>1, <1>7, <2>1, <3>2, <3>3, ReportTaken
    <3> QED
      BY <1>3, <1>5, <1>7, <3>4
  <2>2. CASE conn'[m].stage \notin Blocking
    <3>1. conn'[m].stage \in Writing \ {conn[m].stage} /\ conn'[m].stage # "writeCommand"
      BY <1>7, <2>2 DEF Writing, Blocking
    <3>2. PICK w \in ServerMessages :
             /\ inbox'[m] = IF state = "off" THEN inbox[m] ELSE Append(inbox[m], w)
             /\ w.type = "REDUCE_CONSUMPTION_CMD" => conn'[m].stage = "writeCommand"
      BY <1>1, <3>1, PostFacts DEF state
    <3>3. /\ inbox'[m] = inbox[m] \/ (state # "off" /\ inbox'[m] = Append(inbox[m], w))
          /\ state = "off" \/ inbox'[m] = Append(inbox[m], w)
          /\ w.type # "REDUCE_CONSUMPTION_CMD"
      BY <3>1, <3>2
    <3>4. Conversation(m, conn'[m], state, inbox'[m], Tail(outbox[m]))
      BY <1>1, <1>7, <3>2, <3>3, ReportTaken
    <3> QED
      BY <1>3, <1>5, <1>7, <3>4
  <2> QED
    BY <2>1, <2>2
<1>8. CASE message.type = "CONSUMPTION_REPORT" /\ ReportReceived(m, m, message.value)
  <2>1. conn' = [conn EXCEPT
                    ![m].stage = IF link = "absent" THEN "writeReportAck" ELSE "syncing",
                    ![m].uri   = m,
                    ![m].band  = BandNow]
        /\ conn[m].stage = "awaitReport"
    BY <1>8 DEF ReportReceived
  <2>2. Others /\ conn'[m].uri = m /\ conn'[m].stage \in {"syncing", "writeReportAck"}
    BY <1>1, <2>1 DEF TypeOK, Connections
  <2>3. Proving(m, conn'[m])
    BY <2>2 DEF Proving
  <2> QED
    BY <1>7, <2>1, <2>2, <2>3
<1>9. CASE message.type = "CONSUMPTION_REPORT" /\ ReducedReportReceived(m, m, message.value)
  <2>1. conn' = [conn EXCEPT
                    ![m].stage   = IF link = "absent" THEN "writeReducedAck" ELSE "syncingReduced",
                    ![m].reduced = ProvesReduction(m, m, message.value)]
        /\ conn[m].stage = "awaitReducedReport"
    BY <1>9 DEF ReducedReportReceived
  <2>2. Others /\ conn'[m].stage \in {"syncingReduced", "writeReducedAck"}
        /\ conn'[m].reduced = ProvesReduction(m, m, message.value)
    BY <1>1, <2>1 DEF TypeOK, Connections
  <2>3. conn[m].uri = m
    BY <1>1, <2>1 DEF Proving
  <2>4. message.value \in Nat
    BY <1>2, <1>9, MeterMessageValues, PowersAssumption
  <2>5. 100 * message.value <= 95 * TargetPower
    BY <1>1, <2>1 DEF Conversation, Commanding, IsReduced, message
  <2>6. message.value <= TargetPower
    BY <2>4, <2>5 DEF TargetPower
  <2>7. conn'[m].reduced
    BY <2>2, <2>3, <2>6 DEF ProvesReduction
  <2>8. Proving(m, conn'[m])
    BY <2>2, <2>7 DEF Proving
  <2> QED
    BY <1>7, <2>1, <2>2, <2>8
<1>10. CASE message.type = "DATA_STREAM_SAMPLE" /\ SampleReceived(m)
  <2>1. conn' = conn /\ conn[m].stage = "awaitReport"
    BY <1>10 DEF SampleReceived, vars
  <2>2. inbox'[m] = inbox[m] /\ outbox'[m] = Tail(outbox[m])
    BY <1>3, <1>4, <2>1 DEF Writing
  <2>3. Conversation(m, conn[m], state, inbox[m], Tail(outbox[m]))
    BY <1>1, <1>10, <2>1, SampleTaken DEF message
  <2> QED
    BY <1>5, <2>1, <2>2, <2>3
<1>11. CASE message.type = "COMMAND_ACK" /\ CommandAccepted(m)
  <2>1. /\ Others /\ conn[m].stage = "awaitCommandAck" /\ conn'[m].stage = "awaitReducedReport"
        /\ conn'[m].uri = conn[m].uri
    BY <1>1, <1>11 DEF CommandAccepted, Move, TypeOK, Connections
  <2>2. inbox'[m] = inbox[m] /\ outbox'[m] = Tail(outbox[m])
    BY <1>3, <1>4, <2>1 DEF Writing
  <2>3. Conversation(m, conn'[m], state, inbox[m], Tail(outbox[m]))
    BY <1>1, <1>11, <2>1, ConfirmationTaken DEF message
  <2> QED
    BY <1>5, <2>1, <2>2, <2>3
<1>12. CASE UnexpectedMessage(m)
  <2>1. Others /\ conn'[m] = Closed
    BY <1>1, <1>12 DEF UnexpectedMessage, Close, TypeOK
  <2>2. inbox'[m] = inbox[m] /\ outbox'[m] = <<>>
    BY <1>3, <1>4, <2>1 DEF Writing, Closed
  <2>3. state # "connecting"
    BY <1>1 DEF Conversation, Opening, Receiving
  <2>4. Conversation(m, Closed, state, inbox[m], <<>>)
    BY <1>1, <2>3, ServerCloses
  <2> QED
    BY <1>5, <2>1, <2>2, <2>4
<1> QED
  BY <1>2, <1>6, <1>8, <1>9, <1>10, <1>11, <1>12 DEF ServerReceives

\* The server's part in making and in ending a connection.
LEMMA ServerOtherwise ==
    ASSUME TypeOK, SessionTypeOK, ConversationInv, NEW m \in Meters,
           ServerAccepts(m) \/ HandshakeDone(m) \/ ServerSeesEnd(m)
    PROVE  ConversationInv'
<1>0. /\ inbox[m] \in Seq(ServerMessages) /\ outbox[m] \in Seq(MeterMessages)
      /\ Conversation(m, conn[m], meter[m].state, inbox[m], outbox[m])
      /\ m \in Conns /\ Meters = Conns
  BY SameSets DEF SessionTypeOK, ConversationInv
<1>1. CASE ServerAccepts(m)
  <2>1. meter[m].state = "connecting" /\ meter' = meter /\ inbox' = inbox /\ outbox' = outbox
    BY <1>1 DEF ServerAccepts, meterVars
  <2>2. conn'[m].stage = "handshake" /\ \A j \in Meters \ {m} : conn'[j] = conn[j]
    BY <1>0, <1>1 DEF ServerAccepts, Accept, Move, TypeOK, Connections
  <2>3. Conversation(m, conn'[m], "connecting", inbox[m], outbox[m])
    BY <1>0, <2>1, <2>2, ServerReady
  <2> QED
    BY <2>1, <2>2, <2>3, OneConversation
<1>2. CASE HandshakeDone(m)
  <2> DEFINE w == Message("REGISTER_REQ", meter[m].userType)
  <2>1. /\ meter[m].state = "connecting" /\ inbox' = inbox /\ outbox'[m] = outbox[m] \o <<w>>
        /\ meter'[m].state = "awaitRegisterAck"
        /\ \A j \in Meters \ {m} : meter'[j] = meter[j] /\ outbox'[j] = outbox[j]
    BY <1>2, GotoFacts, OutboxSent DEF HandshakeDone, RequestRegistration
  <2>2. /\ conn[m].stage = "handshake" /\ conn'[m].stage = "awaitRegister"
        /\ \A j \in Meters \ {m} : conn'[j] = conn[j]
    BY <1>0, <1>2 DEF HandshakeDone, Handshaken, TypeOK, Connections
  <2>3. w.type = "REGISTER_REQ"
    BY MessageFields
  <2> HIDE DEF w
  <2>4. Conversation(m, conn'[m], "awaitRegisterAck", inbox[m], outbox[m] \o <<w>>)
    BY <1>0, <2>1, <2>2, <2>3, RequestSent
  <2> QED
    BY <2>1, <2>2, <2>4, OneConversation
<1>3. CASE ServerSeesEnd(m)
  <2>1. /\ meter[m].state = "off" /\ meter' = meter /\ inbox' = inbox /\ outbox'[m] = <<>>
        /\ \A j \in Meters \ {m} : outbox'[j] = outbox[j]
    BY <1>3 DEF ServerSeesEnd, SessionTypeOK
  <2>2. conn'[m] = Closed /\ \A j \in Meters \ {m} : conn'[j] = conn[j]
    BY <1>0, <1>3 DEF ServerSeesEnd, IoError, HandshakeRefused, Close, TypeOK
  <2>3. Conversation(m, Closed, meter[m].state, inbox[m], <<>>)
    BY <1>0, <2>1, ServerCloses
  <2> QED
    BY <2>1, <2>2, <2>3, OneConversation
<1> QED
  BY <1>1, <1>2, <1>3

\* The server process ends, and with it every connection.
LEMMA OrphanedConversation ==
    ASSUME SessionTypeOK, ConversationInv, Orphaned, conn' = [c \in Conns |-> Closed]
    PROVE  ConversationInv'
<1>1. ASSUME NEW m \in Meters
      PROVE  Conversation(m, conn'[m], meter'[m].state, inbox'[m], outbox'[m])
  <2>1. /\ inbox[m] \in Seq(ServerMessages) /\ outbox[m] \in Seq(MeterMessages)
        /\ Conversation(m, conn[m], meter[m].state, inbox[m], outbox[m])
    BY DEF SessionTypeOK, ConversationInv
  <2>2. conn'[m] = Closed /\ inbox'[m] = inbox[m] /\ outbox'[m] = <<>>
    BY SameSets DEF Orphaned
  <2>3. CASE meter[m].state = "connecting"
    <3>1. meter'[m].state = "off" /\ inbox[m] = <<>> /\ outbox[m] = <<>>
      BY <2>1, <2>3 DEF Orphaned, MeterOff, Conversation, Opening
    <3>2. Conversation(m, conn[m], "off", <<>>, outbox[m])
      BY <2>1, MeterEnds
    <3>3. Conversation(m, Closed, "off", <<>>, <<>>)
      BY <2>1, <3>1, <3>2, ServerCloses
    <3> QED
      BY <2>2, <3>1, <3>3
  <2>4. CASE meter[m].state # "connecting"
    <3>1. meter'[m] = meter[m]
      BY <2>4 DEF Orphaned
    <3>2. Conversation(m, Closed, meter[m].state, inbox[m], <<>>)
      BY <2>1, <2>4, ServerCloses
    <3> QED
      BY <2>2, <3>1, <3>2
  <2> QED
    BY <2>3, <2>4
<1> QED
  BY <1>1 DEF ConversationInv

-----------------------------------------------------------------------------
THEOREM ConversationInvariant == SessionSpec => []ConversationInv
<1>1. SessionInit => ConversationInv
  <2> SUFFICES ASSUME SessionInit, NEW m \in Meters
               PROVE  Conversation(m, conn[m], meter[m].state, inbox[m], outbox[m])
    BY DEF ConversationInv
  <2>1. /\ conn[m] = Closed /\ meter[m].state = "off" /\ inbox[m] = <<>> /\ outbox[m] = <<>>
        /\ Len(<<>>) = 0 /\ Closed.stage = "closed"
    BY SameSets DEF SessionInit, Init, MeterInit, MeterOff, Closed
  <2> QED
    BY <2>1 DEF Conversation, Opening, Commanding, Proving, Answering
<1>2. EndsInv /\ EndsInv' /\ ConversationInv /\ [SessionNext]_sessionVars => ConversationInv'
  <2> SUFFICES ASSUME EndsInv, EndsInv', ConversationInv, [SessionNext]_sessionVars
               PROVE  ConversationInv'
    OBVIOUS
  <2>1. TypeOK /\ TypeOK' /\ CyclesInv' /\ SessionTypeOK
    BY DEF EndsInv, ServerInv, SessionsInv
  <2>2. ASSUME NEW m \in Meters,
               ServerReceives(m) \/ ServerContinues(m) \/ MeterRuns(m)
        PROVE  ConversationInv'
    BY <2>1, <2>2, ServerReceivesConversation, ServerContinuesConversation, MeterConversation
  <2>3. ASSUME NEW m \in Meters,
               ServerAccepts(m) \/ HandshakeDone(m) \/ ServerSeesEnd(m)
        PROVE  ConversationInv'
    BY <2>1, <2>3, ServerOtherwise
  <2>4. ASSUME NEW m \in Meters,
               \/ \E t \in MeterTypes : MeterConnects(m, t)
               \/ MeterTimesOut(m) \/ MeterSeesEnd(m) \/ MeterStopped(m)
        PROVE  ConversationInv'
    BY <2>1, <2>4, MeterOtherwise
  <2>5. ASSUME NEW m \in Meters, ServerThrows(m) PROVE ConversationInv'
    BY <2>1, <2>5, OrphanedConversation DEF ServerThrows, ReportSyncThrows
  <2>6. CASE ServerKilled
    BY <2>1, <2>6, OrphanedConversation DEF ServerKilled, Killed
  <2>7. CASE (CentralLost /\ UNCHANGED <<meterVars, missed>>) \/ ServerStarts \/ UNCHANGED sessionVars
    <3>1. conn' = conn /\ meter' = meter /\ inbox' = inbox /\ outbox' = outbox
      BY <2>7 DEF CentralLost, ServerStarts, Start, meterVars, sessionVars, vars
    <3> QED
      BY <3>1 DEF ConversationInv
  <2> QED
    BY <2>2, <2>3, <2>4, <2>5, <2>6, <2>7 DEF SessionNext
<1> QED
  BY <1>1, <1>2, SessionInvariant, PTL DEF SessionSpec

\* AcceptedIsReduced (server_async.cpp:995, client_async_test.cpp:815): a measurement
\* that is acknowledged as the reduced one is within the target, however late the
\* command and its confirmation were.
THEOREM AcceptedMeasurementsAreReduced == SessionSpec => []AcceptedIsReduced
<1>1. ConversationInv => AcceptedIsReduced
  BY DEF ConversationInv, Conversation, Proving, AcceptedIsReduced
<1> QED
  BY <1>1, ConversationInvariant, PTL

\* OnlyCommandsFail: late messages shift the conversation, but the server finds a
\* message it does not understand only where it waits for COMMAND_ACK.
THEOREM LatenessFailsCommandsOnly == SessionSpec => []OnlyCommandsFail
<1>1. SessionTypeOK /\ ConversationInv => OnlyCommandsFail
  <2> SUFFICES ASSUME SessionTypeOK, ConversationInv, NEW m \in Meters, outbox[m] # <<>>,
                      conn[m].stage \in Receiving \ {"awaitCommandAck"}
               PROVE  Head(outbox[m]).type \in Understood(conn[m].stage)
    BY DEF OnlyCommandsFail, ServerInStep
  <2> DEFINE message == outbox[m][1]
  <2>1. outbox[m] \in Seq(MeterMessages)
    BY DEF SessionTypeOK
  <2>2. Head(outbox[m]) = message /\ message \in MeterMessages /\ Len(outbox[m]) \in Nat \ {0}
    BY <2>1, HeadAndTail
  <2>3. 1 \in 1 .. Len(outbox[m])
    BY <2>2
  <2>4. /\ message.type = "REGISTER_REQ" <=> conn[m].stage = "awaitRegister"
        /\ message.type = "COMMAND_ACK" => conn[m].stage \in {"writeCommand", "awaitCommandAck"}
        /\ conn[m].stage = "awaitReducedReport" => IsReduced(message)
    BY <2>3 DEF ConversationInv, Conversation, Opening, Commanding
  <2>5. message.type \in {"REGISTER_REQ", "CONSUMPTION_REPORT", "DATA_STREAM_SAMPLE", "COMMAND_ACK"}
    BY <2>2, MeterMessageValues
  <2> HIDE DEF message
  <2>6. CASE conn[m].stage = "awaitRegister"
    BY <2>2, <2>4, <2>6 DEF Understood
  <2>7. CASE conn[m].stage = "awaitReport"
    BY <2>2, <2>4, <2>5, <2>7 DEF Understood
  <2>8. CASE conn[m].stage = "awaitReducedReport"
    BY <2>2, <2>4, <2>8 DEF Understood, IsReduced
  <2> QED
    BY <2>6, <2>7, <2>8 DEF Receiving
<1> QED
  BY <1>1, SessionTypes, ConversationInvariant, PTL

\* NobodyStuck: meter and server never wait for each other, whatever was late, lost
\* with the other end, or taken for something else.
THEOREM NobodyIsStuck == SessionSpec => []NobodyStuck
<1>1. SessionTypeOK /\ ConversationInv => NobodyStuck
  <2> SUFFICES ASSUME SessionTypeOK, ConversationInv, NEW m \in Meters,
                      meter[m].state \in Reading, inbox[m] = <<>>,
                      conn[m].stage \in Receiving, outbox[m] = <<>>
               PROVE  FALSE
    BY DEF NobodyStuck
  <2>1. /\ Opening(conn[m], meter[m].state, <<>>, <<>>)
        /\ Answering(conn[m], meter[m].state, <<>>, <<>>) /\ Len(<<>>) = 0
    BY DEF ConversationInv, Conversation
  <2>2. CASE meter[m].state = "awaitRegisterAck"
    BY <2>1, <2>2 DEF Opening, Receiving
  <2>3. CASE meter[m].state \in {"awaitAck", "awaitReducedAck"}
    BY <2>1, <2>3 DEF Answering, Receiving, Blocking
  <2> QED
    BY <2>2, <2>3 DEF Reading
<1> QED
  BY <1>1, SessionTypes, ConversationInvariant, PTL
=============================================================================
