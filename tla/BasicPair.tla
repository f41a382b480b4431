------------------------------ MODULE BasicPair ------------------------------
(***************************************************************************)
(* The basic TCP pair: src/regional/server_basic.cpp serves one connection  *)
(* and ends, src/smart_meter/client_basic.cpp registers, sends five reports *)
(* and ends.  Both block in asio::read until the bytes they asked for are   *)
(* there, so the pair advances in lock step.  TCP is modelled as a byte     *)
(* stream in each direction; it delivers what was written in pieces, so     *)
(* that a reader may find part of a header or of a payload.                 *)
(*                                                                         *)
(* A client that connects while another one is served waits in the backlog  *)
(* of the listening socket: its connect and its write succeed, its first    *)
(* read fails when the server process ends.  Either process may be killed   *)
(* at any moment and started again; the bytes its peer has not read yet may *)
(* be lost with it (a reset) or not.                                        *)
(***************************************************************************)
EXTENDS WireFormat

CONSTANTS Clients,    \* running copies of client_basic
          Arrivals    \* numbers of unread bytes a reader may find

\* Enough of them that the longest payload is there in the end.
ASSUME ArrivalsAssumption ==
    /\ Arrivals \subseteq Nat
    /\ \E n \in Arrivals : \A message \in Messages : n >= message.length

\* The peer of a server that serves no client.
Nobody == "nobody"

ASSUME ClientsAssumption == Nobody \notin Clients

VARIABLES
    server,     \* server_basic: stage, the client it serves, loop counter,
                \* header, and the reports the process has printed
    backlog,    \* connections the kernel holds until acceptor.accept
    client,     \* client_basic: stage, loop counter, header
    up, down,   \* the streams client -> server and server -> client
    cut         \* connections refused, reset in the backlog or hit by a kill

vars == <<server, backlog, client, up, down, cut>>

FourReports == 4                            \* mutant: the server stops one early

\* The bounds of the two loops, one in each program.
ServerReports == 5
ClientReports == 5

\* A client that has ended: normally or killed, or with an error message.
Ended == {"off", "failed"}

\* What a process keeps of the header it has read, until the payload is there.
NoHeader == [type |-> 0, payload_length |-> 0]

Starting == [stage |-> "accepting", peer |-> Nobody, i |-> 0, header |-> NoHeader,
             printed |-> <<>>]

Connecting == [stage |-> "connected", i |-> 0, header |-> NoHeader]

Silent == [flight |-> <<>>, arrived |-> <<>>]

Serving == server.stage \in {"request", "report"}

Waiting == {backlog[k] : k \in DOMAIN backlog}

Connected == Waiting \union (IF Serving THEN {server.peer} ELSE {})

-----------------------------------------------------------------------------
\* asio::read of n bytes returns once n bytes have arrived, and throws when
\* the other end has gone and they never will.
Readable(stream, n) == Len(stream.arrived) >= n

IgnoresEnd(stream, n) == FALSE              \* mutant: the error is not looked at

Starved(stream, n) == stream.flight = <<>> /\ ~Readable(stream, n)

Taken(stream, n) == SubSeq(stream.arrived, 1, n)

After(stream, n) ==
    [stream EXCEPT !.arrived = SubSeq(@, n + 1, Len(@))]

Written(stream, bytes) == [stream EXCEPT !.flight = @ \o bytes]

HeaderIn(stream) ==
    LET header == Decode(Header, Taken(stream, HeaderSize))
    IN  [type |-> header.type, payload_length |-> header.payload_length]

AtHeader(process) == process.header = NoHeader

\* How many bytes a process is reading.
Wanted(process) ==
    IF AtHeader(process) THEN HeaderSize ELSE process.header.payload_length

\* The report of loop iteration i, in hundredths of a kWh and of a kW; the
\* timestamp is the wall clock of the moment, which nothing here looks at.
ReportOf(i) == [device_uri |-> 0, timestamp |-> i,
                consumption_kwh |-> 235 + 10 * i, current_power_kw |-> 120 + 5 * i]

\* The bytes of the four messages of this conversation.
RequestBytes ==
    Serialize(RegisterRequest, [device_uri |-> 0, region_id |-> 1, user_type |-> 1])

ReportBytes ==
    [i \in 0..(ClientReports - 1) |-> Serialize(ConsumptionReport, ReportOf(i))]

RegisterAckBytes == Serialize(RegisterAck, [status |-> 1])

ConsumptionAckBytes == Serialize(ConsumptionAck, [status |-> 1])

-----------------------------------------------------------------------------
(* TCP: bytes of a stream arrive, until n of them are unread or all are. *)

Filled(stream, n) ==
    LET bytes == stream.arrived \o stream.flight
    IN  [arrived |-> SubSeq(bytes, 1, IF n < Len(bytes) THEN n ELSE Len(bytes)),
         flight  |-> SubSeq(bytes, n + 1, Len(bytes))]

DeliverUp(c) ==
    /\ up[c].flight # <<>>
    /\ \E n \in Arrivals : /\ n > Len(up[c].arrived)
                           /\ up' = [up EXCEPT ![c] = Filled(@, n)]
    /\ UNCHANGED <<server, backlog, client, down, cut>>

DeliverDown(c) ==
    /\ down[c].flight # <<>>
    /\ \E n \in Arrivals : /\ n > Len(down[c].arrived)
                           /\ down' = [down EXCEPT ![c] = Filled(@, n)]
    /\ UNCHANGED <<server, backlog, client, up, cut>>

-----------------------------------------------------------------------------
(* server_basic *)

StartServer ==
    /\ server.stage = "off"
    /\ server' = Starting
    /\ UNCHANGED <<backlog, client, up, down, cut>>

Accept ==
    /\ server.stage = "accepting"
    /\ backlog # <<>>
    /\ server' = [server EXCEPT !.stage = "request", !.peer = Head(backlog)]
    /\ backlog' = Tail(backlog)
    /\ UNCHANGED <<client, up, down, cut>>

ReadHeader ==
    LET c == server.peer IN
    /\ Serving
    /\ AtHeader(server)
    /\ Readable(up[c], HeaderSize)
    /\ server' = [server EXCEPT !.header = HeaderIn(up[c])]
    /\ up' = [up EXCEPT ![c] = After(@, HeaderSize)]
    /\ UNCHANGED <<backlog, client, down, cut>>

\* The process ends: its sockets close, the listening one takes the backlog
\* with it, and what it has not read is lost.
Exit(last, broken) ==
    /\ server' = [last EXCEPT !.stage = "off", !.header = NoHeader]
    /\ backlog' = <<>>
    /\ up' = [c \in Clients |-> Silent]
    /\ cut' = [c \in Clients |-> cut[c] \/ c \in broken]

\* It goes on with the next message, having read n bytes of payload.
GoOn(next, n) ==
    /\ server' = [next EXCEPT !.header = NoHeader]
    /\ up' = [up EXCEPT ![server.peer] = After(@, n)]
    /\ UNCHANGED <<backlog, cut>>

\* A write towards a client that has gone is lost; the next read tells.
AnswersTwice(c, message) ==                 \* mutant: two answers
    down' = [down EXCEPT ![c] = Written(@, message \o message)]

Answer(c, message) ==
    down' = IF client[c].stage \in Ended THEN down
            ELSE [down EXCEPT ![c] = Written(@, message)]

\* The payload of the first message; anything but a REGISTER_REQ ends main.
Register ==
    LET c      == server.peer
        length == Wanted(server)
    IN  /\ server.stage = "request"
        /\ ~AtHeader(server)
        /\ Readable(up[c], length)
        /\ IF server.header.type = RegisterRequest.type
           THEN /\ Answer(c, RegisterAckBytes)
                /\ GoOn([server EXCEPT !.stage = "report"], length)
           ELSE Exit(server, Waiting) /\ UNCHANGED down
        /\ UNCHANGED client

\* The payload of a later message.  One that is not a report is passed over
\* without an answer and still uses up one of the five iterations.
Report ==
    LET c       == server.peer
        length  == Wanted(server)
        report  == Deserialize(ConsumptionReport, Taken(up[c], length))
        isReport == server.header.type = ConsumptionReport.type
        printed == IF isReport THEN Append(server.printed, report)
                               ELSE server.printed
    IN  /\ server.stage = "report"
        /\ ~AtHeader(server)
        /\ Readable(up[c], length)
        /\ IF isReport THEN Answer(c, ConsumptionAckBytes) ELSE UNCHANGED down
        /\ IF server.i + 1 < ServerReports
           THEN GoOn([server EXCEPT !.i = @ + 1, !.printed = printed], length)
           ELSE Exit([server EXCEPT !.printed = printed], Waiting)
        /\ UNCHANGED client

\* asio::read throws once the client has gone; main prints and returns.
ReadThrows ==
    /\ Serving
    /\ client[server.peer].stage \in Ended
    /\ Starved(up[server.peer], Wanted(server))
    /\ Exit(server, Waiting)
    /\ UNCHANGED <<client, down>>

KillServer ==
    /\ server.stage # "off"
    /\ Exit(server, Connected)
    /\ \/ UNCHANGED down
       \/ Serving /\ down' = [down EXCEPT ![server.peer] = Silent]
    /\ UNCHANGED client

-----------------------------------------------------------------------------
(* client_basic *)

Advance(c, next) == client' = [client EXCEPT ![c] = next] /\ UNCHANGED cut

\* main returns; what the client has not read is lost.
Ends(c, how) ==
    /\ client' = [client EXCEPT ![c] = [Connecting EXCEPT !.stage = how]]
    /\ down' = [down EXCEPT ![c] = Silent]
    /\ cut' = [cut EXCEPT ![c] = @ /\ how = "failed"]

\* Started by hand, once the server has let go of the previous connection; a
\* meter that comes back sooner is another member of Clients.
Connect(c) ==
    /\ client[c].stage \in Ended
    /\ c \notin Connected
    /\ IF server.stage = "off"
       THEN /\ client' = [client EXCEPT ![c] = [Connecting EXCEPT !.stage = "failed"]]
            /\ cut' = [cut EXCEPT ![c] = TRUE]
            /\ UNCHANGED backlog
       ELSE /\ client' = [client EXCEPT ![c] = Connecting]
            /\ cut' = [cut EXCEPT ![c] = FALSE]
            /\ backlog' = Append(backlog, c)
    /\ UNCHANGED <<server, up, down>>

Send(c, message) ==
    up' = IF c \in Connected THEN [up EXCEPT ![c] = Written(@, message)] ELSE up

SendRequest(c) ==
    /\ client[c].stage = "connected"
    /\ Send(c, RequestBytes)
    /\ Advance(c, [client[c] EXCEPT !.stage = "registering"])
    /\ UNCHANGED <<server, backlog, down>>

Reading(c) == client[c].stage \in {"registering", "reporting"}

ReadAckHeader(c) ==
    /\ Reading(c)
    /\ AtHeader(client[c])
    /\ Readable(down[c], HeaderSize)
    /\ Advance(c, [client[c] EXCEPT !.header = HeaderIn(down[c])])
    /\ down' = [down EXCEPT ![c] = After(@, HeaderSize)]
    /\ UNCHANGED <<server, backlog, up>>

\* The client only starts reporting after a REGISTER_ACK with status 1.
ReadRegisterAck(c) ==
    LET length == Wanted(client[c]) IN
    /\ client[c].stage = "registering"
    /\ ~AtHeader(client[c])
    /\ Readable(down[c], length)
    /\ IF /\ client[c].header.type = RegisterAck.type
          /\ Deserialize(RegisterAck, Taken(down[c], length)).status = 1
       THEN /\ Advance(c, [client[c] EXCEPT !.stage = "registered",
                                            !.header = NoHeader])
            /\ down' = [down EXCEPT ![c] = After(@, length)]
       ELSE Ends(c, "failed")
    /\ UNCHANGED <<server, backlog, up>>

SendReport(c) ==
    /\ client[c].stage = "registered"
    /\ Send(c, ReportBytes[client[c].i])
    /\ Advance(c, [client[c] EXCEPT !.stage = "reporting"])
    /\ UNCHANGED <<server, backlog, down>>

\* Type and status of the acknowledgement only decide what is printed.
ReadConsumptionAck(c) ==
    LET length == Wanted(client[c]) IN
    /\ client[c].stage = "reporting"
    /\ ~AtHeader(client[c])
    /\ Readable(down[c], length)
    /\ down' = [down EXCEPT ![c] = After(@, length)]
    /\ Advance(c, [client[c] EXCEPT !.stage = "sleeping", !.header = NoHeader])
    /\ UNCHANGED <<server, backlog, up>>

Wake(c) ==
    /\ client[c].stage = "sleeping"
    /\ IF client[c].i + 1 < ClientReports
       THEN /\ Advance(c, [client[c] EXCEPT !.stage = "registered", !.i = @ + 1])
            /\ UNCHANGED down
       ELSE Ends(c, "off")
    /\ UNCHANGED <<server, backlog, up>>

AckThrows(c) ==
    /\ Reading(c)
    /\ c \notin Connected
    /\ Starved(down[c], Wanted(client[c]))
    /\ Ends(c, "failed")
    /\ UNCHANGED <<server, backlog, up>>

KillClient(c) ==
    /\ client[c].stage \notin Ended
    /\ Ends(c, "off")
    /\ \/ UNCHANGED up
       \/ up' = [up EXCEPT ![c] = Silent]
    /\ UNCHANGED <<server, backlog>>

-----------------------------------------------------------------------------
Init ==
    /\ server = [Starting EXCEPT !.stage = "off"]
    /\ backlog = <<>>
    /\ client = [c \in Clients |-> [Connecting EXCEPT !.stage = "off"]]
    /\ up = [c \in Clients |-> Silent]
    /\ down = [c \in Clients |-> Silent]
    /\ cut = [c \in Clients |-> FALSE]

ServerStep == Accept \/ ReadHeader \/ Register \/ Report \/ ReadThrows

ClientStep(c) ==
    \/ SendRequest(c) \/ ReadAckHeader(c) \/ ReadRegisterAck(c)
    \/ SendReport(c) \/ ReadConsumptionAck(c) \/ Wake(c) \/ AckThrows(c)

\* What the user does: start and kill programs.
UserStep ==
    \/ StartServer \/ KillServer
    \/ \E c \in Clients : Connect(c) \/ KillClient(c)

Next ==
    \/ ServerStep
    \/ \E c \in Clients : ClientStep(c) \/ DeliverUp(c) \/ DeliverDown(c)
    \/ UserStep

\* A process that can run runs and TCP delivers; nobody has to start or kill
\* anything.
Fairness ==
    /\ WF_vars(ServerStep)
    /\ \A c \in Clients : /\ WF_vars(ClientStep(c))
                          /\ WF_vars(DeliverUp(c))
                          /\ WF_vars(DeliverDown(c))

Spec == Init /\ [][Next]_vars /\ Fairness

-----------------------------------------------------------------------------
TypeOK ==
    /\ server.stage \in {"off", "accepting", "request", "report"}
    /\ server.i \in 0..(ServerReports - 1)
    /\ server.peer \in Clients \union {Nobody}
    /\ \A c \in Clients :
           /\ client[c].stage \in Ended \union {"connected", "registering",
                                  "registered", "reporting", "sleeping"}
           /\ client[c].i \in 0..(ClientReports - 1)
           /\ Len(up[c].flight \o up[c].arrived) <= Len(ReportBytes[0])
           /\ Len(down[c].flight \o down[c].arrived) <= Len(ConsumptionAckBytes)
           /\ cut[c] \in BOOLEAN

\* While a server reads messages, every type of message of the protocol header
\* survives its serializer and deserializer field by field (RoundTrip), and
\* announces in its header as many bytes as follow (SelfDelimiting).  The two
\* formulas are about the formats alone; here they hold for the programs that
\* are compiled with them.
MessagesSurvive == Serving => RoundTrip

\* These bytes are a message of this type: their header says so, and how many follow.
Framed(bytes, message) ==
    LET header == Decode(Header, SubSeq(bytes, 1, HeaderSize)) IN
    /\ bytes \in Seq(Byte)
    /\ message.length \in Nat \ {0}
    /\ Len(bytes) = HeaderSize + message.length
    /\ header.type = message.type
    /\ header.payload_length = message.length

\* The messages of this conversation, and what their readers make of them.
Formats ==
    /\ Framed(RequestBytes, RegisterRequest)
    /\ Framed(RegisterAckBytes, RegisterAck)
    /\ Framed(ConsumptionAckBytes, ConsumptionAck)
    /\ \A i \in DOMAIN ReportBytes :
           /\ Framed(ReportBytes[i], ConsumptionReport)
           /\ Deserialize(ConsumptionReport, Payload(ReportBytes[i])) = ReportOf(i)
    /\ Deserialize(RegisterAck, Payload(RegisterAckBytes)).status = 1
    /\ RegisterRequest.length <= ConsumptionReport.length

\* See MessagesSurvive: the reader of one message ends where the next begins, and the
\* messages of this conversation are read for what they are.
MessagesDelimited == Serving => SelfDelimiting /\ Formats

\* However TCP cuts the stream, the server prints the client's reports in the
\* order in which they were sent, each once, with the values that were sent:
\* the 4-byte header read, the announced payload length and the offsets of the
\* deserializer never drift apart.
ReportsIntact ==
    \A k \in DOMAIN server.printed : server.printed[k] = ReportOf(k - 1)

\* The acknowledgement the client waits for is the one of the report it just
\* sent: whenever it goes to sleep the server has printed exactly the reports
\* of the iterations so far, and no acknowledgement is left unread to be taken
\* for the next one.
LockStep ==
    \A c \in Clients :
        client[c].stage = "sleeping" =>
            /\ c = server.peer => Len(server.printed) = client[c].i + 1
            /\ down[c] = Silent

\* The two loops count to five on their own, one in each program: a client that
\* was accepted and whose server was not killed never fails, so neither program
\* leaves the conversation before the other has finished it.
FailsOnlyWhenCut ==
    \A c \in Clients : client[c].stage = "failed" => cut[c]

\* A client that was started ends, also the one that waits in the backlog of
\* a server that will never accept it, and the one whose server is killed.
ClientEnds ==
    \A c \in Clients : client[c].stage = "connected" ~> client[c].stage \in Ended

\* A server that has accepted a client ends, whatever happens to the client.
ServerEnds == Serving ~> ~Serving
=============================================================================
