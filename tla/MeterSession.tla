----------------------------- MODULE MeterSession -----------------------------
(***************************************************************************)
(* The Smart Meters of a region (SmartMeter) talking to its server         *)
(* (RegionalServer).  Where RegionalServer lets its environment send any   *)
(* message at any time, here the messages are those the client program has *)
(* sent, in the order in which TCP delivers them.                          *)
(*                                                                         *)
(* Meter m uses slot m of the server and the certificate of m.  A new      *)
(* process of the same meter connects only when the server has finished    *)
(* with the connection of the previous one.                                *)
(***************************************************************************)
EXTENDS RegionalServer, SmartMeter

VARIABLE missed   \* history, per meter: a wait of its present process ended while something
                  \* was, or could be, still to come

ASSUME SessionAssumption ==
    /\ Meters = Devices /\ Conns = Devices /\ MeasuredPowers = Powers
    /\ \A d \in Devices : ReportUris[d] = {d}
    /\ MeterTypes \subseteq RegisteredTypes

sessionVars == <<vars, meterVars, missed>>

-----------------------------------------------------------------------------
\* What the server writes when it enters a writing stage.
Written(k) ==
    CASE k.stage = "writeRegisterAck" -> Message("REGISTER_ACK", IF k.registered THEN 1 ELSE 0)
      [] k.stage \in {"writeReportAck", "writeReducedAck"} -> Message("CONSUMPTION_ACK", 1)
      [] k.stage = "writeCommand" -> Message("REDUCE_CONSUMPTION_CMD", TargetPower)
      [] k.stage = "writeTariff"  -> Message("TARIFF_UPDATE", k.price)

\* The async_write is started by the handler that leads to the stage: from then on
\* the message may arrive, before the write is reported complete.
Post(m) ==
    inbox' = IF conn'[m].stage \in Writing \ {conn[m].stage} /\ meter[m].state # "off"
             THEN [inbox EXCEPT ![m] = Append(@, Written(conn'[m]))]
             ELSE inbox

\* The messages a receiving stage understands.
Understood(stage) ==
    CASE stage = "awaitRegister"      -> {"REGISTER_REQ"}
      [] stage = "awaitReport"        -> {"CONSUMPTION_REPORT", "DATA_STREAM_SAMPLE"}
      [] stage = "awaitCommandAck"    -> {"COMMAND_ACK"}
      [] stage = "awaitReducedReport" -> {"CONSUMPTION_REPORT"}

-----------------------------------------------------------------------------
(* Steps of the server.                                                    *)

ServerAccepts(m) ==
    /\ meter[m].state = "connecting"
    /\ Accept(m)
    /\ UNCHANGED <<meterVars, missed>>

\* Both ends of the handshake; the meter goes on with its REGISTER_REQ.
HandshakeDone(m) ==
    /\ Handshaken(m, m)
    /\ RequestRegistration(m)
    /\ UNCHANGED missed

ServerReceives(m) ==
    /\ outbox[m] # <<>> /\ conn[m].stage \in Receiving
    /\ LET message == Head(outbox[m])
       IN  \/ message.type = "REGISTER_REQ"       /\ Register(m, m, message.value)
           \/ message.type = "CONSUMPTION_REPORT" /\ ReportReceived(m, m, message.value)
           \/ message.type = "CONSUMPTION_REPORT" /\ ReducedReportReceived(m, m, message.value)
           \/ message.type = "DATA_STREAM_SAMPLE" /\ SampleReceived(m)
           \/ message.type = "COMMAND_ACK"        /\ CommandAccepted(m)
           \/ message.type \notin Understood(conn[m].stage) /\ UnexpectedMessage(m)
    /\ outbox' = [outbox EXCEPT ![m] = IF conn'[m].stage = "closed" THEN <<>> ELSE Tail(@)]
    /\ Post(m)
    /\ UNCHANGED <<meter, missed>>

\* A completion handler that no message of the meter triggers.
ServerContinues(m) ==
    /\ \/ RegisterAckWritten(m)
       \/ ReportSynced(m)
       \/ ReportAckWritten(m)
       \/ TariffWritten(m)
       \/ CommandWritten(m)
       \/ ReducedReportSynced(m)
       \/ ReducedAckWritten(m)
    /\ Post(m)
    /\ UNCHANGED <<meter, outbox, missed>>

\* The server sees the end of the connection of a meter that has stopped: after
\* what it had sent or, if the connection was reset, before.
ServerSeesEnd(m) ==
    /\ meter[m].state = "off"
    /\ IoError(m) \/ HandshakeRefused(m)
    /\ outbox' = [outbox EXCEPT ![m] = <<>>]
    /\ UNCHANGED <<meter, inbox, missed>>

\* The process ends; meters in the handshake get an exception, the others may
\* still read what it has sent.
Orphaned ==
    /\ outbox' = [m \in Meters |-> <<>>]
    /\ meter' = [m \in Meters |->
                    IF meter[m].state = "connecting" THEN MeterOff ELSE meter[m]]
    /\ UNCHANGED <<inbox, missed>>

ServerThrows(m) == ReportSyncThrows(m) /\ Orphaned
ServerKilled    == Killed /\ Orphaned

ServerStarts == \E l \in Links : Start(l) /\ UNCHANGED <<meterVars, missed>>

-----------------------------------------------------------------------------
(* Steps of a meter.                                                       *)

MeterConnects(m, t) ==
    /\ running /\ conn[m].stage = "closed"
    /\ Connect(m, t)
    /\ missed' = [missed EXCEPT ![m] = FALSE]
    /\ UNCHANGED vars

\* The server has nothing more to say: it waits for the next report.
NothingToCome(m) == inbox[m] = <<>> /\ outbox[m] = <<>> /\ conn[m].stage = "awaitReport"

\* No message is left for the meter: it has read all, and the server waits for the next
\* report or has closed the connection.
NothingLeft(m) == NothingToCome(m) \/ (conn[m].stage = "closed" /\ inbox[m] = <<>>)

\* The wait ends after two seconds.  If a message is left, or the server has not come to
\* its end, the wait has missed it: it is late, or it has come in time but together with
\* the one before (see WaitTimesOut).
MeterTimesOut(m) ==
    /\ WaitTimesOut(m)
    /\ missed' = [missed EXCEPT ![m] = @ \/ ~NothingLeft(m)]
    /\ UNCHANGED vars

\* On a connection that the server has closed only reading can still succeed.
MeterRuns(m) ==
    /\ MeterReads(m) \/ SendReport(m)
    /\ conn[m].stage = "closed" => outbox' = outbox
    /\ UNCHANGED <<vars, missed>>

\* The server has closed the connection: the next operation on it throws.
MeterSeesEnd(m) ==
    /\ conn[m].stage = "closed" /\ meter[m].state # "connecting"
    /\ Stop(m)
    /\ UNCHANGED <<vars, missed>>

MeterStopped(m) == Stop(m) /\ UNCHANGED <<vars, missed>>

-----------------------------------------------------------------------------
SessionInit == Init /\ MeterInit /\ missed = [m \in Meters |-> FALSE]

SessionNext ==
    \/ \E m \in Meters :
          \/ ServerAccepts(m)
          \/ HandshakeDone(m)
          \/ ServerReceives(m)
          \/ ServerContinues(m)
          \/ ServerSeesEnd(m)
          \/ ServerThrows(m)
          \/ \E t \in MeterTypes : MeterConnects(m, t)
          \/ MeterRuns(m)
          \/ MeterTimesOut(m)
          \/ MeterSeesEnd(m)
          \/ MeterStopped(m)
    \/ CentralLost /\ UNCHANGED <<meterVars, missed>>
    \/ ServerKilled
    \/ ServerStarts

SessionSpec == SessionInit /\ [][SessionNext]_sessionVars

\* The io_context runs ready handlers in the order in which they became ready, so
\* a handler is not put off for ever by those of other meters; the central server
\* answers or the exchange fails; a blocked read of the meter returns when there is
\* something to read.
SessionFairness ==
    \A m \in Meters :
        /\ SF_sessionVars(ServerReceives(m))
        /\ SF_sessionVars(ServerContinues(m))
        /\ WF_sessionVars(ServerThrows(m))
        /\ WF_sessionVars(MeterRuns(m))
        /\ WF_sessionVars(MeterSeesEnd(m))

FairSessionSpec == SessionSpec /\ SessionFairness

-----------------------------------------------------------------------------
\* The types of the two ends and of what travels between them.
SessionTypeOK ==
    /\ meter \in [Meters -> MeterRecords]
    /\ inbox \in [Meters -> Seq(ServerMessages)]
    /\ outbox \in [Meters -> Seq(MeterMessages)]
    /\ missed \in [Meters -> BOOLEAN]

\* What a state of the meter takes the next message for.
Awaited(state) ==
    CASE state = "awaitRegisterAck" -> {"REGISTER_ACK"}
      [] state \in {"awaitAck", "awaitReducedAck"} -> {"CONSUMPTION_ACK"}
      [] state = "waitCommand" -> {"REDUCE_CONSUMPTION_CMD", "TARIFF_UPDATE"}
      [] state = "waitTariff"  -> {"TARIFF_UPDATE"}

\* Neither end finds a message of another type than it expects.  Nothing in the messages
\* would tell them: the client silently takes a message of another type for the
\* acknowledgement (client_async_test.cpp:619), the server drops the connection.
MeterInStep(m) ==
    inbox[m] # <<>> /\ meter[m].state \in Reading \cup Waiting =>
        Head(inbox[m]).type \in Awaited(meter[m].state)

ServerInStep(m) ==
    outbox[m] # <<>> /\ conn[m].stage \in Receiving =>
        Head(outbox[m]).type \in Understood(conn[m].stage)

\* Only a wait that missed something takes the two ends out of step: no connection lost
\* or refused, no end of the server and no restart of either does, nor a wait that ended
\* because an unchanged price was not sent.
InStep == \A m \in Meters : ~missed[m] => MeterInStep(m) /\ ServerInStep(m)

\* Between two cycles, with nothing under way, the price a meter displays is the one the
\* server remembers having sent it, and will therefore not send again.
ShowsPrice(m) ==
    meter[m].state = "report" /\ NothingToCome(m) => meter[m].price = lastTariff[m]

\* It is so until a wait of that meter misses something.
PriceShown == \A m \in Meters : ~missed[m] => ShowsPrice(m)

\* However late messages are, the two ends never both wait for the other.
NobodyStuck ==
    \A m \in Meters :
        ~ /\ meter[m].state \in Reading /\ inbox[m] = <<>>
          /\ conn[m].stage \in Receiving /\ outbox[m] = <<>>

\* A server that has got COMMAND_ACK from the client program gets the proof too: the
\* measurement it takes for the reduced one is within the target, however late the
\* command was read.
AcceptedIsReduced ==
    \A m \in Meters : conn[m].stage = "writeReducedAck" => conn[m].reduced

\* Late messages shift the conversation but end it in one place only: a server that
\* waits for COMMAND_ACK.
OnlyCommandsFail ==
    \A m \in Meters : ~ServerInStep(m) => conn[m].stage = "awaitCommandAck"

\* A meter that waits for an answer gets one or learns that the connection is gone
\* (no step leads from one blocking read of client_async_test.cpp to the next).
WaitingEnds == \A m \in Meters : []<>(meter[m].state \notin Reading)

-----------------------------------------------------------------------------
\* README.md:38: a meter that was sent REDUCE_CONSUMPTION_CMD confirms it with
\* COMMAND_ACK.  Refuted: a command read in place of an acknowledgement is lost.
CommandIsConfirmed ==
    \A m \in Meters :
        conn[m].stage = "awaitCommandAck" /\ outbox[m] # <<>> =>
            Head(outbox[m]).type = "COMMAND_ACK"

\* README.md:109, "Slanje nove cijene": a price that was sent is displayed.  Refuted: a
\* tariff read in place of an acknowledgement is not, and as the server remembers having
\* sent it, it is not sent again.
PriceAlwaysShown == \A m \in Meters : ShowsPrice(m)
=============================================================================
