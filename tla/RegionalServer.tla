---------------------------- MODULE RegionalServer ----------------------------
(***************************************************************************)
(* One regional server process: regional/server_async.cpp (Region = 1) or  *)
(* regional/server_region2.cpp (Region = 2), with the DeviceRegistry and   *)
(* the tables of database/database.hpp it writes.                          *)
(*                                                                         *)
(* The process is a chain of asynchronous operations per meter connection, *)
(* all run by one thread (io.run() in main), so one action is one          *)
(* completion handler up to the next asynchronous operation it starts.  A  *)
(* connection's "stage" names the operation it waits for, and its other    *)
(* fields are what the handler's lambda has captured.  The exchange with   *)
(* the central server is the exception: it is synchronous, so while one    *)
(* connection is in a Blocking stage no other handler can run.             *)
(*                                                                         *)
(* Meters are the environment: any well-formed message may arrive in any   *)
(* waiting stage, any operation may fail, the central server may die, and  *)
(* the process may be killed and started again.                            *)
(***************************************************************************)
EXTENDS SmartGridTariff, FiniteSets, Functions

CONSTANTS
    Region,           \* which of the two programs this is
    Devices,          \* the URIs in the certificates of the meters
    Conns,            \* slots for the connections that are open at the same time
    Powers,           \* powers a meter may report, in half kilowatts
    RegisteredTypes,  \* user types the meters register with
    Clock,            \* instants at which a tariff may be computed
    ReportsPerCycle,  \* regular reports before a tariff is computed: 5 in the code
    ReportUris,       \* ReportUris[d]: URIs that meter d puts into its reports
    NoDevice,
    DbMayFail,        \* TRUE: an sqlite3_step of an INSERT may fail
    KillAllowed       \* TRUE: the process may be killed from outside

ASSUME RegionAssumption  == Region \in Regions
ASSUME DevicesAssumption == NoDevice \notin Devices
ASSUME PowersAssumption  == Powers \subseteq Nat \ {0}
ASSUME TypesAssumption   == RegisteredTypes \subseteq UserTypes
ASSUME ClockAssumption   == Clock \subseteq Instants
ASSUME CycleAssumption   == ReportsPerCycle \in Nat \ {0}
ASSUME UrisAssumption    == ReportUris \in [Devices -> SUBSET Devices]
ASSUME FlagsAssumption   == DbMayFail \in BOOLEAN /\ KillAllowed \in BOOLEAN

VARIABLES
    running,      \* the process is inside io.run()
    link,         \* centralSocket: "absent" (null), "up", or "broken" (open, unusable)
    conn,         \* per slot: the pending operation and what its handler captured
    registry,     \* deviceRegistry: URIs registered since the process started
    latestPower,  \* latestPowerByDevice; 0 stands for no entry
    lastTariff,   \* lastTariffByDevice; NoPrice stands for no entry
    dbDevices,    \* table devices
    dbPower,      \* table consumption: power of the newest row of a device, 0 if none
    dbCommand,    \* table commands: status of the newest row of a device
    dbTariff,     \* table tariffs: price of the newest row
    told          \* history: last price whose TARIFF_UPDATE was written on a connection

process  == <<registry, latestPower, lastTariff>>
database == <<dbDevices, dbPower, dbCommand, dbTariff>>
vars     == <<running, link, conn, process, database, told>>

-----------------------------------------------------------------------------
Links    == {"absent", "up", "broken"}
Statuses == {"NONE", "ACCEPTED", "REJECTED"}

\* Stages in which the thread itself waits for the central server.
Blocking == {"syncing", "syncingReduced"}

\* Stages in which a message of the meter is awaited.
Receiving == {"awaitRegister", "awaitReport", "awaitCommandAck", "awaitReducedReport"}

\* Stages in which an async_write to the meter has not completed.
Writing == {"writeRegisterAck", "writeReportAck", "writeCommand",
            "writeReducedAck", "writeTariff"}

Stages == {"closed", "handshake"} \cup Blocking \cup Receiving \cup Writing

Closed == [stage |-> "closed", device |-> NoDevice, userType |-> 0,
           registered |-> FALSE, count |-> 0, uri |-> NoDevice,
           band |-> "normal", reduced |-> FALSE, price |-> NoPrice]

Connections == [stage      : Stages,
                device     : Devices \cup {NoDevice},   \* URI of the certificate
                userType   : UserTypes,
                registered : BOOLEAN,                   \* registerDevice succeeded
                count      : 0 .. ReportsPerCycle - 1,  \* reportCount
                uri        : Devices \cup {NoDevice},   \* device_uri of the request or report
                band       : Bands,                     \* of the captured networkLoadKw
                reduced    : BOOLEAN,                   \* reductionSuccessful
                price      : Prices \cup {NoPrice}]     \* of the tariff being sent

TypeOK ==
    /\ running \in BOOLEAN
    /\ link \in Links
    /\ conn \in [Conns -> Connections]
    /\ registry \subseteq Devices
    /\ latestPower \in [Devices -> Powers \cup {0}]
    /\ lastTariff \in [Devices -> Prices \cup {NoPrice}]
    /\ dbDevices \subseteq Devices
    /\ dbPower \in [Devices -> Powers \cup {0}]
    /\ dbCommand \in [Devices -> Statuses]
    /\ dbTariff \in Prices \cup {NoPrice}
    /\ told \in [Conns -> Prices \cup {NoPrice}]

-----------------------------------------------------------------------------
\* A handler may run: the process is up and its only thread is not blocked.
ThreadFree == running /\ \A c \in Conns : conn[c].stage \notin Blocking

\* updateAndGetTotalNetworkLoad: the load of the region is the sum of the last
\* known power of every meter that has reported since the process started.
TotalLoad(power) == FoldFunction(+, 0, power)

\* The results of an INSERT whose return value the caller ignores.
Inserted(before, after) == {after} \cup (IF DbMayFail THEN {before} ELSE {})

InsertDevice(u)         == dbDevices' \in Inserted(dbDevices, dbDevices \cup {u})
InsertConsumption(u, p) == dbPower' \in Inserted(dbPower, [dbPower EXCEPT ![u] = p])
InsertTariff(price)     == dbTariff' \in Inserted(dbTariff, price)
InsertCommand(u, status) ==
    dbCommand' \in Inserted(dbCommand, [dbCommand EXCEPT ![u] = status])

Move(c, stage) == conn' = [conn EXCEPT ![c].stage = stage]
Close(c)       == /\ conn' = [conn EXCEPT ![c] = Closed]
                  /\ told' = [told EXCEPT ![c] = NoPrice]

\* readConsumptionReport: wait for the next message of a registered meter, n
\* reports into the cycle.  Only the user type and n are captured.
ReadConsumptionReport(c, n) ==
    conn' = [conn EXCEPT ![c] = [Closed EXCEPT
                !.stage = "awaitReport", !.count = n, !.device = conn[c].device,
                !.userType = conn[c].userType, !.registered = TRUE]]

-----------------------------------------------------------------------------
(* acceptClient, handleClient: from the TCP accept to the registration.    *)

Accept(c) ==
    /\ ThreadFree /\ conn[c].stage = "closed"
    /\ Move(c, "handshake")
    /\ UNCHANGED <<running, link, process, database, told>>

\* The TLS handshake succeeded; the meter's certificate names the URI d.
Handshaken(c, d) ==
    /\ ThreadFree /\ conn[c].stage = "handshake"
    /\ conn' = [conn EXCEPT ![c].stage = "awaitRegister", ![c].device = d]
    /\ UNCHANGED <<running, link, process, database, told>>

\* It succeeded with a certificate without URI, or it failed: the socket is closed.
HandshakeRefused(c) ==
    /\ ThreadFree /\ conn[c].stage = "handshake"
    /\ Close(c)
    /\ UNCHANGED <<running, link, process, database>>

RegistersTwice(c, u) == u = conn[c].device     \* mutant: duplicates are let in

\* The certificate vouches for the URI u, and registerDevice does not know it yet.
Registrable(c, u) == u = conn[c].device /\ u \notin registry

\* REGISTER_REQ for the URI u; a refusal is answered as well.
Register(c, u, t) ==
    /\ ThreadFree /\ conn[c].stage = "awaitRegister"
    /\ LET registered == Registrable(c, u)
       IN  /\ conn' = [conn EXCEPT ![c].stage = "writeRegisterAck",
                                   ![c].uri = u, ![c].userType = t,
                                   ![c].registered = registered]
           /\ registry' = IF registered THEN registry \cup {u} ELSE registry
           /\ IF registered THEN InsertDevice(u) ELSE UNCHANGED dbDevices
    /\ UNCHANGED <<running, link, latestPower, lastTariff,
                   dbPower, dbCommand, dbTariff, told>>

RegisterAckWritten(c) ==
    /\ ThreadFree /\ conn[c].stage = "writeRegisterAck"
    /\ IF conn[c].registered
       THEN ReadConsumptionReport(c, 0) /\ UNCHANGED told
       ELSE Close(c)
    /\ UNCHANGED <<running, link, process, database>>

-----------------------------------------------------------------------------
(* readConsumptionReport: a regular report.                                *)

LoadWithoutRow(u, p) ==             \* mutant: the row is not inserted
    latestPower' = [latestPower EXCEPT ![u] = p] /\ UNCHANGED dbPower

\* What both report handlers do with a measurement: the load first, then the row.
StoreMeasurement(u, p) ==
    /\ latestPower' = [latestPower EXCEPT ![u] = p]
    /\ InsertConsumption(u, p)

BandBefore == Band(Region, TotalLoad(latestPower))    \* mutant: without this measurement

\* The band of the load that counts the measurement just stored.
BandNow == Band(Region, TotalLoad(latestPower'))

ReportReceived(c, u, p) ==
    /\ ThreadFree /\ conn[c].stage = "awaitReport"
    /\ u \in ReportUris[conn[c].device]
    /\ StoreMeasurement(u, p)
    /\ conn' = [conn EXCEPT
          ![c].stage = IF link = "absent" THEN "writeReportAck" ELSE "syncing",
          ![c].uri   = u,
          ![c].band  = BandNow]
    /\ UNCHANGED <<running, link, registry, lastTariff,
                   dbDevices, dbCommand, dbTariff, told>>

\* REGION_SYNC_ACK arrived; whatever its status, the handler goes on.
ReportSynced(c) ==
    /\ running /\ conn[c].stage = "syncing" /\ link = "up"
    /\ Move(c, "writeReportAck")
    /\ UNCHANGED <<running, link, process, database, told>>

\* The blocking write or read of the regular report throws, nothing catches it
\* before main, and the process ends; every connection ends with it.
ReportSyncThrows(c) ==
    /\ running /\ conn[c].stage = "syncing" /\ link = "broken"
    /\ running' = FALSE
    /\ conn' = [k \in Conns |-> Closed]
    /\ told' = [k \in Conns |-> NoPrice]
    /\ UNCHANGED <<link, process, database>>

\* DATA_STREAM_SAMPLE: displayed, not counted, not answered.
SampleReceived(c) ==
    /\ ThreadFree /\ conn[c].stage = "awaitReport"
    /\ UNCHANGED vars

-----------------------------------------------------------------------------
(* sendTariff.                                                             *)

RememberFirst(u, price) ==          \* mutant: only the first price is stored
    IF lastTariff[u] = NoPrice THEN [lastTariff EXCEPT ![u] = price] ELSE lastTariff

Remember(u, price) == [lastTariff EXCEPT ![u] = price]

AlwaysChanged(u, price) == FALSE    \* mutant: every tariff is sent

TariffUnchanged(u, price) == lastTariff[u] = price

\* The next stage of connection c once its tariff is computed.  An unchanged
\* price is not sent.  Region 1 remembers the new price when it decides to send
\* it, region 2 when the write has completed (TariffWritten).
SendTariff(c, reduced) ==
    \E now \in Clock :
        LET u      == conn[c].uri
            price  == DynamicTariff(Region, conn[c].userType, now, conn[c].band, reduced)
        IN  IF TariffUnchanged(u, price)
            THEN ReadConsumptionReport(c, 0) /\ UNCHANGED <<lastTariff, dbTariff>>
            ELSE /\ conn' = [conn EXCEPT ![c].stage = "writeTariff", ![c].count = 0,
                                         ![c].reduced = reduced, ![c].price = price]
                 /\ InsertTariff(price)
                 /\ lastTariff' = IF Region = 1 THEN Remember(u, price) ELSE lastTariff

OneTooMany(c) == conn[c].count + 1 <= ReportsPerCycle   \* mutant: an off-by-one

MoreReports(c) == conn[c].count + 1 < ReportsPerCycle

\* CONSUMPTION_ACK written: read the next report or, after the last of a cycle,
\* compute the tariff or ask for a reduction, by the load captured when this
\* report was received.
ReportAckWritten(c) ==
    /\ ThreadFree /\ conn[c].stage = "writeReportAck"
    /\ IF MoreReports(c)
       THEN /\ ReadConsumptionReport(c, conn[c].count + 1)
            /\ UNCHANGED <<lastTariff, dbTariff>>
       ELSE IF conn[c].band # "high"
       THEN SendTariff(c, FALSE)
       ELSE /\ conn' = [conn EXCEPT ![c].stage = "writeCommand", ![c].count = 0]
            /\ UNCHANGED <<lastTariff, dbTariff>>
    /\ UNCHANGED <<running, link, registry, latestPower,
                   dbDevices, dbPower, dbCommand, told>>

TariffWritten(c) ==
    /\ ThreadFree /\ conn[c].stage = "writeTariff"
    /\ ReadConsumptionReport(c, 0)
    /\ told' = [told EXCEPT ![c] = conn[c].price]
    /\ lastTariff' = IF Region = 2
                     THEN Remember(conn[c].uri, conn[c].price) ELSE lastTariff
    /\ UNCHANGED <<running, link, registry, latestPower, database>>

-----------------------------------------------------------------------------
(* The reduction of consumption under high load.                           *)

CommandWritten(c) ==
    /\ ThreadFree /\ conn[c].stage = "writeCommand"
    /\ Move(c, "awaitCommandAck")
    /\ UNCHANGED <<running, link, process, database, told>>

CommandRejected(c) ==
    /\ ThreadFree /\ conn[c].stage = "awaitCommandAck"
    /\ InsertCommand(conn[c].uri, "REJECTED")
    /\ SendTariff(c, FALSE)
    /\ UNCHANGED <<running, link, registry, latestPower, dbDevices, dbPower, told>>

CommandAccepted(c) ==
    /\ ThreadFree /\ conn[c].stage = "awaitCommandAck"
    /\ InsertCommand(conn[c].uri, "ACCEPTED")
    /\ Move(c, "awaitReducedReport")
    /\ UNCHANGED <<running, link, process, dbDevices, dbPower, dbTariff, told>>

AcceptanceIsProof(c, u, p) == u = conn[c].uri   \* mutant: the power is not looked at

ProvesReduction(c, u, p) == u = conn[c].uri /\ p <= TargetPower

\* The measurement after the reduction: proof of it if it is the same meter's and
\* does not exceed the target.
ReducedReportReceived(c, u, p) ==
    /\ ThreadFree /\ conn[c].stage = "awaitReducedReport"
    /\ u \in ReportUris[conn[c].device]
    /\ StoreMeasurement(u, p)
    /\ conn' = [conn EXCEPT
          ![c].stage   = IF link = "absent" THEN "writeReducedAck" ELSE "syncingReduced",
          ![c].reduced = ProvesReduction(c, u, p)]
    /\ UNCHANGED <<running, link, registry, lastTariff,
                   dbDevices, dbCommand, dbTariff, told>>

\* Here the exchange is inside a try block: an answer and an exception both
\* lead to the acknowledgement.
ReducedReportSynced(c) ==
    /\ running /\ conn[c].stage = "syncingReduced" /\ link # "absent"
    /\ Move(c, "writeReducedAck")
    /\ UNCHANGED <<running, link, process, database, told>>

ReducedAckWritten(c) ==
    /\ ThreadFree /\ conn[c].stage = "writeReducedAck"
    /\ SendTariff(c, conn[c].reduced)
    /\ UNCHANGED <<running, link, registry, latestPower,
                   dbDevices, dbPower, dbCommand, told>>

-----------------------------------------------------------------------------
(* Failures.                                                               *)

\* A message of another type than the stage expects: the handler starts no new
\* operation, which releases the last reference to the socket.
UnexpectedMessage(c) ==
    /\ ThreadFree /\ conn[c].stage \in Receiving
    /\ Close(c)
    /\ UNCHANGED <<running, link, process, database>>

\* A read ends with eof or an error, or a write fails: the handler returns.
IoError(c) ==
    /\ ThreadFree /\ conn[c].stage \in Receiving \cup Writing
    /\ Close(c)
    /\ UNCHANGED <<running, link, process, database>>

\* The central server goes away; centralSocket stays open and is never replaced.
CentralLost ==
    /\ running /\ link = "up"
    /\ link' = "broken"
    /\ UNCHANGED <<running, conn, process, database, told>>

Killed ==
    /\ KillAllowed /\ running
    /\ running' = FALSE
    /\ conn' = [k \in Conns |-> Closed]
    /\ told' = [k \in Conns |-> NoPrice]
    /\ UNCHANGED <<link, process, database>>

\* main: connectToCentralServer leaves a null socket when resolving or loading
\* the CA fails, an open but useless one when connect or the handshake fails;
\* the maps start empty, the database is the file of the previous runs.
Start(l) ==
    /\ ~running
    /\ running' = TRUE
    /\ link' = l
    /\ registry' = {}
    /\ latestPower' = [d \in Devices |-> 0]
    /\ lastTariff' = [d \in Devices |-> NoPrice]
    /\ UNCHANGED <<conn, database, told>>

-----------------------------------------------------------------------------
Init ==
    /\ running = FALSE
    /\ link = "absent"
    /\ conn = [c \in Conns |-> Closed]
    /\ registry = {}
    /\ latestPower = [d \in Devices |-> 0]
    /\ lastTariff = [d \in Devices |-> NoPrice]
    /\ dbDevices = {}
    /\ dbPower = [d \in Devices |-> 0]
    /\ dbCommand = [d \in Devices |-> "NONE"]
    /\ dbTariff = NoPrice
    /\ told = [c \in Conns |-> NoPrice]

Next ==
    \/ \E c \in Conns :
          \/ Accept(c)
          \/ \E d \in Devices : Handshaken(c, d)
          \/ HandshakeRefused(c)
          \/ \E u \in Devices, t \in RegisteredTypes : Register(c, u, t)
          \/ RegisterAckWritten(c)
          \/ \E u \in Devices, p \in Powers : ReportReceived(c, u, p)
          \/ ReportSynced(c)
          \/ ReportSyncThrows(c)
          \/ SampleReceived(c)
          \/ ReportAckWritten(c)
          \/ TariffWritten(c)
          \/ CommandWritten(c)
          \/ CommandRejected(c)
          \/ CommandAccepted(c)
          \/ \E u \in Devices, p \in Powers : ReducedReportReceived(c, u, p)
          \/ ReducedReportSynced(c)
          \/ ReducedAckWritten(c)
          \/ UnexpectedMessage(c)
          \/ IoError(c)
    \/ CentralLost
    \/ Killed
    \/ \E l \in Links : Start(l)

Spec == Init /\ [][Next]_vars

-----------------------------------------------------------------------------
\* The registration handler admitted the meter of this connection.
Serving(c) == conn[c].registered

\* Two open connections never serve the same meter: the registry, asked once and
\* never cleared while the process lives, is what keeps the per-device maps from
\* being written by two interleaved sessions.
OneSessionPerMeter ==
    \A c, k \in Conns :
        Serving(c) /\ Serving(k) /\ c # k => conn[c].device # conn[k].device

\* A tariff computed with the discount is backed by the database: the newest
\* command row of that meter says ACCEPTED and its newest measurement is within
\* the target (the comments at server_async.cpp:563 and 1158: only if the
\* measurement proved it), and the load of the cycle was high.
DiscountEarned ==
    \A c \in Conns :
        conn[c].stage = "writeTariff" /\ conn[c].reduced =>
            /\ conn[c].band = "high"
            /\ dbCommand[conn[c].uri] = "ACCEPTED"
            /\ dbPower[conn[c].uri] \in 1 .. TargetPower

\* The servers skip TARIFF_UPDATE when lastTariffByDevice holds the price already.
\* That is sound only if the meter on this connection has been told that price: at
\* every moment but while a tariff is being written the two agree, across
\* disconnections, failed writes and restarts.
MeterKnowsPrice ==
    \A c \in Conns :
        Serving(c) /\ conn[c].stage # "writeTariff" =>
            lastTariff[conn[c].device] = told[c]

\* TARIFF_UPDATE goes out only when the price differs from the one the meter was
\* told (server_region2.cpp:33, "samo kada se cijena stvarno promijeni").
NoRepeatedPrice ==
    \A c \in Conns : conn[c].stage = "writeTariff" => conn[c].price # told[c]

\* While the process runs, the load it computes tariffs from is the sum of
\* measurements the database can show: a meter that counts is registered, is in
\* table devices, and counts with the power of its newest consumption row.
LoadMatchesDatabase ==
    running => \A d \in Devices : latestPower[d] # 0 =>
        /\ d \in registry \cap dbDevices
        /\ dbPower[d] = latestPower[d]

\* A received report waits for its acknowledgement with the band of the load captured
\* when it was stored, and the captured band decides whether the meter is asked to
\* reduce (server_async.cpp:692); meanwhile the load may have left that band.
Deciding(c) == conn[c].stage \in {"syncing", "writeReportAck"}
Outdated(c) == Deciding(c) /\ conn[c].band # Band(Region, TotalLoad(latestPower))

\* Connection k takes a measurement off its socket in this step.
Measures(k) ==
    /\ conn[k].stage \in {"awaitReport", "awaitReducedReport"}
    /\ conn'[k].stage \in {"syncing", "writeReportAck", "syncingReduced", "writeReducedAck"}

\* Only a measurement of another meter outdates a captured band: not the meter's own
\* report, nor a second session of it, nor a session that begins or ends.
OutdatedByAnotherMeter ==
    [][\A c \in Conns : ~Outdated(c) /\ Outdated(c)' =>
          \E k \in Conns : Measures(k) /\ conn[k].device # conn[c].device]_vars

\* Whenever a price is on its way to a meter, calculateDynamicTariff has computed
\* it; these four say what that function promises, at every hour of a week and for
\* every user type, whatever the instants of the run (see SmartGridTariff).
Pricing == \E c \in Conns : conn[c].stage = "writeTariff"

\* An accepted and proved reduction pays off (ReductionPaysOff): the discount
\* survives the rounding to two decimals.
DiscountPaysOff == Pricing => ReductionPaysOff

\* The price rises with the load (PriceFollowsLoad): a change of band is never
\* rounded away, so it is announced.
PricesFollowLoad == Pricing => PriceFollowsLoad

\* Both programs charge alike (RegionsAgree), though each has its own copy.
RegionsChargeAlike == Pricing => RegionsAgree

\* The cheap hours are those of the comments (CheapHoursOfADay), around midnight
\* and with daylight saving.
CheapHoursHold == Pricing => CheapHoursOfADay

-----------------------------------------------------------------------------
(* What the server implements.                                             *)

\* Stages in which the report just received is not part of "count" yet, and stages
\* after the last report of a cycle, where "count" is zero again.
Counting == {"syncing", "writeReportAck"}
Settling == {"writeCommand", "awaitCommandAck", "awaitReducedReport",
             "syncingReduced", "writeReducedAck", "writeTariff"}

Collected(c) == IF conn[c].stage \in Settling THEN ReportsPerCycle
                ELSE IF conn[c].stage \in Counting THEN conn[c].count + 1 ELSE conn[c].count

Service == INSTANCE TariffService WITH
    PriceList   <- Prices,
    Unannounced <- NoPrice,
    session     <- [c \in Conns |-> IF Serving(c) THEN conn[c].device ELSE NoDevice],
    collected   <- [c \in Conns |-> Collected(c)],
    announced   <- told

\* The regional server implements TariffService: its sessions, cycles and announced
\* prices are those of the abstract service, through every failure the code meets.
RefinesTariffService == Service!Spec

-----------------------------------------------------------------------------
\* What the repository says and the code does not keep; each is refuted by a run.

\* CONSUMPTION_ACK carries status 1, "uspjeh" in README.md:118: when it is sent,
\* the row of the measurement is in the database.
AcknowledgedIsStored ==
    \A c \in Conns : conn[c].stage = "writeReportAck" =>
        dbPower[conn[c].uri] = latestPower[conn[c].uri]

\* server_async.cpp:692: a reduce command is sent only while the load of the region
\* is high; the load is the one of the maps when the write is started.
ReduceOnlyUnderHighLoad ==
    [][\A c \in Conns :
          conn[c].stage # "writeCommand" /\ conn'[c].stage = "writeCommand"
             => Band(Region, TotalLoad(latestPower)) = "high"]_vars

\* tests/test_05_dynamic_tariff.sh:17 with README.md:327: against servers that stay
\* up, a meter that asks under its own URI and has no other session is registered.
LoneMeterIsRegistered ==
    \A c \in Conns :
        conn[c].stage = "writeRegisterAck" /\ conn[c].uri = conn[c].device
        /\ ~Serving(c) =>
            \E k \in Conns : Serving(k) /\ conn[k].device = conn[c].device

\* README.md:75: the server answers every measurement with CONSUMPTION_ACK; as long
\* as it is not killed, a received report goes on to its acknowledgement.
EveryReportAnswered ==
    [][\A c \in Conns :
          conn[c].stage = "syncing" /\ conn'[c].stage # "syncing"
             => conn'[c].stage = "writeReportAck"]_vars
=============================================================================
