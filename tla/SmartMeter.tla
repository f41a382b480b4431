------------------------------ MODULE SmartMeter ------------------------------
(***************************************************************************)
(* The Smart Meter program, smart_meter/client_async_test.cpp, one process *)
(* per meter.  It is sequential and blocking: a state is the place where   *)
(* main() waits, and an action runs from there to the next such place.     *)
(*                                                                         *)
(* The TLS connection is a pair of FIFO channels.  inbox holds what the    *)
(* server has written and the program has not read yet: on the network, in *)
(* the socket, or in the buffer of the TLS layer, which waitForTlsData     *)
(* cannot see.                                                             *)
(***************************************************************************)
EXTENDS SmartGridTariff, Sequences

CONSTANTS
    Meters,          \* meters with a certificate of their own
    MeasuredPowers,  \* powers a measurement may show, in half kilowatts
    MeterTypes,      \* user types given on the command line
    ReportsSent,     \* reports in a cycle: the 5 of the loop
    MaxUnread        \* bound: no wait times out with more messages unread at either end

ASSUME MeasuredAssumption   == MeasuredPowers \subseteq Nat \ {0}
ASSUME MeterTypesAssumption == MeterTypes \subseteq {HOUSEHOLD, INDUSTRY}
ASSUME SentAssumption       == ReportsSent \in Nat \ {0}
ASSUME UnreadAssumption     == MaxUnread \in Nat

VARIABLES
    meter,    \* per meter: where the program waits and what it knows
    inbox,    \* messages to the meter
    outbox    \* messages to the server

meterVars == <<meter, inbox, outbox>>

-----------------------------------------------------------------------------
\* The value is the part of the payload that matters: a user type, a status, a
\* power or a price.
Message(type, value) == [type |-> type, value |-> value]

ServerMessages ==
    [type : {"REGISTER_ACK", "CONSUMPTION_ACK"}, value : {0, 1}]
        \cup [type : {"TARIFF_UPDATE"}, value : Prices]
        \cup [type : {"REDUCE_CONSUMPTION_CMD"}, value : {TargetPower}]

MeterMessages ==
    [type : {"REGISTER_REQ"}, value : MeterTypes]
        \cup [type : {"CONSUMPTION_REPORT", "DATA_STREAM_SAMPLE"}, value : MeasuredPowers]
        \cup [type : {"COMMAND_ACK"}, value : {1}]

\* The states in which a blocking read waits for one message.
Reading == {"awaitRegisterAck", "awaitAck", "awaitReducedAck"}

\* The states of waitForTlsData: a message is read if one shows up in time.
Waiting == {"waitCommand", "waitTariff"}

MeterStates == {"off", "connecting", "report"} \cup Reading \cup Waiting

MeterOff == [state |-> "off", userType |-> HOUSEHOLD, sent |-> 0, price |-> NoPrice]

MeterRecords == [state    : MeterStates,
                 userType : MeterTypes \cup {HOUSEHOLD},
                 sent     : 0 .. ReportsSent - 1,      \* i, the loop variable
                 price    : Prices \cup {NoPrice}]     \* the last one displayed

\* The ranges of powerDist: 0.5 to 3 kW for a household, 5 to 15 for an industry.
RegularPowers(userType) ==
    MeasuredPowers \cap (IF userType = HOUSEHOLD THEN 1 .. 6 ELSE 10 .. 30)

IgnoresTarget(userType) == RegularPowers(userType)  \* mutant: measures as ever

\* reducedPowerDist: at most 95 % of the target of the command.
ReducedPowers(userType) == {p \in MeasuredPowers : 100 * p <= 95 * TargetPower}

Send(m, messages) == outbox' = [outbox EXCEPT ![m] = @ \o messages]
Read(m)           == inbox[m] # <<>> /\ inbox' = [inbox EXCEPT ![m] = Tail(@)]
Goto(m, state)    == meter' = [meter EXCEPT ![m].state = state]

Report(p) == Message("CONSUMPTION_REPORT", p)
Sample(p) == Message("DATA_STREAM_SAMPLE", p)

-----------------------------------------------------------------------------
\* The program is started and opens the TCP connection.
Connect(m, t) ==
    /\ meter[m].state = "off"
    /\ meter' = [meter EXCEPT ![m].state = "connecting", ![m].userType = t]
    /\ UNCHANGED <<inbox, outbox>>

\* The handshake is done: REGISTER_REQ.
RequestRegistration(m) ==
    /\ meter[m].state = "connecting"
    /\ Goto(m, "awaitRegisterAck")
    /\ Send(m, <<Message("REGISTER_REQ", meter[m].userType)>>)
    /\ UNCHANGED inbox

\* Anything but a REGISTER_ACK with status 1 ends the program.
ReadRegisterAck(m) ==
    /\ meter[m].state = "awaitRegisterAck" /\ Read(m)
    /\ IF Head(inbox[m]) = Message("REGISTER_ACK", 1)
       THEN Goto(m, "report")
       ELSE meter' = [meter EXCEPT ![m] = MeterOff]
    /\ UNCHANGED outbox

\* A sample and a report of the same measurement; nothing is read in between.
SendReport(m) ==
    /\ meter[m].state = "report"
    /\ \E p \in RegularPowers(meter[m].userType) : Send(m, <<Sample(p), Report(p)>>)
    /\ Goto(m, "awaitAck")
    /\ UNCHANGED inbox

OneReportMore(m) == meter[m].sent = ReportsSent    \* mutant: i <= 5

LastReport(m) == meter[m].sent + 1 = ReportsSent

\* One message is read and taken for the CONSUMPTION_ACK: another type is
\* neither reported nor handled.
ReadAck(m) ==
    /\ meter[m].state = "awaitAck" /\ Read(m)
    /\ meter' = IF LastReport(m)
                THEN [meter EXCEPT ![m].state = "waitCommand", ![m].sent = 0]
                ELSE [meter EXCEPT ![m].state = "report", ![m].sent = @ + 1]
    /\ UNCHANGED outbox

\* waitForTlsData gives up after two seconds.  A message may be on its way, or
\* have arrived together with the one before it: the TLS layer has then taken it
\* off the socket without deciphering it, and neither test of the function sees it.
WaitTimesOut(m) ==
    /\ meter[m].state \in Waiting
    /\ Len(inbox[m]) <= MaxUnread /\ Len(outbox[m]) <= MaxUnread
    /\ Goto(m, "report")
    /\ UNCHANGED <<inbox, outbox>>

ForgetsReport(p) == <<Message("COMMAND_ACK", 1)>>  \* mutant: no new measurement

SampleFirst(p) ==                                  \* mutant: a sample comes with every report
    <<Message("COMMAND_ACK", 1), Sample(p), Report(p)>>

\* The answer to a reduce command: it is accepted, and a new measurement follows.
ReductionAnswer(p) == <<Message("COMMAND_ACK", 1), Report(p)>>

ReadCommand(m) ==
    /\ meter[m].state = "waitCommand" /\ Read(m)
    /\ Head(inbox[m]).type = "REDUCE_CONSUMPTION_CMD"
    /\ \E p \in ReducedPowers(meter[m].userType) : Send(m, ReductionAnswer(p))
    /\ Goto(m, "awaitReducedAck")

\* Like ReadAck: whatever comes is taken for the acknowledgement.
ReadReducedAck(m) ==
    /\ meter[m].state = "awaitReducedAck" /\ Read(m)
    /\ Goto(m, "waitTariff")
    /\ UNCHANGED outbox

\* A price is displayed; any other message in its place is reported and dropped.
ReadTariff(m) ==
    /\ meter[m].state \in Waiting /\ Read(m)
    /\ LET message == Head(inbox[m])
       IN  /\ meter[m].state = "waitCommand" => message.type # "REDUCE_CONSUMPTION_CMD"
           /\ meter' = [meter EXCEPT
                 ![m].state = "report",
                 ![m].price = IF message.type = "TARIFF_UPDATE" THEN message.value ELSE @]
    /\ UNCHANGED outbox

\* An exception of a socket operation, or Ctrl+C: the program ends and its end of
\* the connection is closed; what it has sent may still be read by the server.
Stop(m) ==
    /\ meter[m].state # "off"
    /\ meter' = [meter EXCEPT ![m] = MeterOff]
    /\ inbox' = [inbox EXCEPT ![m] = <<>>]
    /\ UNCHANGED outbox

MeterInit ==
    /\ meter = [m \in Meters |-> MeterOff]
    /\ inbox = [m \in Meters |-> <<>>]
    /\ outbox = [m \in Meters |-> <<>>]

MeterReads(m) ==
    \/ ReadRegisterAck(m)
    \/ ReadAck(m)
    \/ ReadCommand(m)
    \/ ReadReducedAck(m)
    \/ ReadTariff(m)
=============================================================================
