---------------------- MODULE RegionalDecisionProofs ----------------------
(***************************************************************************)
(* What a regional server decides, and what it decides on.  Why it may skip *)
(* a TARIFF_UPDATE: the price in its map is the price the meter on the open *)
(* connection was told.  Whether the load is that of the rows of the        *)
(* database, a discount rests on an accepted command and a measurement, and *)
(* a reduce command on the load of the moment.  Meters report under their   *)
(* own URI (OwnUris), as smart_meter/client_async_test.cpp does; the        *)
(* servers do not compare the URI of a report.                              *)
(***************************************************************************)
EXTENDS RegionalServerProofs

OwnUris == \A d \in Devices : ReportUris[d] \subseteq {d}

\* What the map and the meter of a served connection know of each other.  While a
\* tariff is being written they differ, and which of the two the map holds is the
\* difference between the regions.
PriceInv(c) ==
    Serving(c) =>
        /\ conn[c].stage # "awaitReport" => conn[c].uri = conn[c].device
        /\ conn[c].stage = "writeTariff" =>
             /\ conn[c].price # told[c]
             /\ lastTariff[conn[c].device] = IF Region = 1 THEN conn[c].price ELSE told[c]
        /\ conn[c].stage # "writeTariff" => lastTariff[conn[c].device] = told[c]

\* MeterKnowsPrice alone is not inductive: a registration restores it only because
\* the map has no price for a meter that the registry does not know.
PricesInv ==
    /\ \A d \in Devices \ registry : lastTariff[d] = NoPrice
    /\ \A c \in Conns : PriceInv(c)

\* A step of connection c that touches no price but that of its own meter.
LEMMA PriceStep ==
    ASSUME SessionsInv, PricesInv, NEW c \in Conns,
           registry \subseteq registry',
           \A k \in Conns \ {c} : conn'[k] = conn[k] /\ told'[k] = told[k],
           \A d \in Devices : lastTariff'[d] # lastTariff[d] =>
                                 Serving(c) /\ d = conn[c].device,
           PriceInv(c)'
    PROVE  PricesInv'
<1>1. \A d \in Devices \ registry' : lastTariff'[d] = NoPrice
  BY DEF SessionsInv, SessionInv, PricesInv
<1>2. ASSUME NEW k \in Conns \ {c} PROVE PriceInv(k)'
  <2>1. CASE ~conn[k].registered
    BY <2>1 DEF PriceInv, Serving
  <2>2. CASE conn[k].registered
    <3>1. conn[k].device \in Devices
      BY <2>2 DEF SessionsInv, SessionInv, Serving, TypeOK
    <3>2. lastTariff'[conn[k].device] = lastTariff[conn[k].device]
      BY <2>2, <3>1 DEF SessionsInv, OneSessionPerMeter, Serving
    <3>3. PriceInv(k)
      BY DEF PricesInv
    <3> QED
      BY <3>2, <3>3 DEF PriceInv, Serving
  <2> QED
    BY <2>1, <2>2
<1> QED
  BY <1>1, <1>2 DEF PricesInv

\* The same, when no price changes at all.
LEMMA QuietStep ==
    ASSUME SessionsInv, PricesInv, NEW c \in Conns,
           registry' = registry, lastTariff' = lastTariff, told' = told,
           \A k \in Conns \ {c} : conn'[k] = conn[k],
           conn'[c].registered = conn[c].registered,
           conn'[c].device = conn[c].device,
           conn[c].stage # "writeTariff", conn'[c].stage # "writeTariff",
           conn[c].registered /\ conn'[c].stage # "awaitReport"
              => conn'[c].uri = conn'[c].device
    PROVE  PricesInv'
<1>1. PriceInv(c)'
  BY DEF PricesInv, PriceInv, Serving
<1> QED
  BY <1>1, PriceStep

LEMMA ReadKeepsPrices ==
    ASSUME SessionsInv, PricesInv, NEW c \in Conns, NEW n,
           conn[c].registered, conn[c].stage # "writeTariff",
           ReadConsumptionReport(c, n), registry' = registry,
           lastTariff' = lastTariff, told' = told
    PROVE  PricesInv'
<1>1. TypeOK
  BY DEF SessionsInv
<1> QED
  BY <1>1, ReadKeepsSession, QuietStep

LEMMA SendTariffKeepsPrices ==
    ASSUME SessionsInv, PricesInv, NEW c \in Conns, NEW reduced \in BOOLEAN,
           conn[c].registered, conn[c].stage \notin {"awaitReport", "writeTariff"},
           SendTariff(c, reduced), registry' = registry, told' = told
    PROVE  PricesInv'
<1> DEFINE price(now) ==
      DynamicTariff(Region, conn[c].userType, now, conn[c].band, reduced)
<1>0. TypeOK /\ PriceInv(c)
  BY DEF SessionsInv, PricesInv
<1>1. PICK now \in Clock :
        IF TariffUnchanged(conn[c].uri, price(now))
        THEN ReadConsumptionReport(c, 0) /\ UNCHANGED <<lastTariff, dbTariff>>
        ELSE /\ conn' = [conn EXCEPT ![c].stage = "writeTariff", ![c].count = 0,
                                     ![c].reduced = reduced, ![c].price = price(now)]
             /\ InsertTariff(price(now))
             /\ lastTariff' = IF Region = 1 THEN Remember(conn[c].uri, price(now))
                              ELSE lastTariff
  BY DEF SendTariff
<1> HIDE DEF price
<1>2. CASE TariffUnchanged(conn[c].uri, price(now))
  BY <1>1, <1>2, ReadKeepsPrices
<1>3. CASE ~TariffUnchanged(conn[c].uri, price(now))
  <2>1. conn[c].device \in Devices /\ conn[c].uri = conn[c].device
    BY <1>0 DEF SessionsInv, SessionInv, PriceInv, Serving, TypeOK
  <2>2. /\ \A k \in Conns \ {c} : conn'[k] = conn[k]
        /\ conn'[c].registered = conn[c].registered
        /\ conn'[c].device = conn[c].device
        /\ conn'[c].uri = conn[c].uri
        /\ conn'[c].stage = "writeTariff"
        /\ conn'[c].price = price(now)
    <3> DEFINE r == [conn[c] EXCEPT !.stage = "writeTariff", !.count = 0,
                                    !.reduced = reduced, !.price = price(now)]
    <3>1. conn' = [conn EXCEPT ![c] = r]
      BY <1>1, <1>3
    <3>2. /\ r.registered = conn[c].registered /\ r.device = conn[c].device
          /\ r.uri = conn[c].uri /\ r.stage = "writeTariff" /\ r.price = price(now)
      BY <1>0 DEF TypeOK, Connections
    <3> HIDE DEF r
    <3> QED
      BY <1>0, <3>1, <3>2 DEF TypeOK
  <2>3. lastTariff[conn[c].device] = told[c] /\ price(now) # told[c]
    BY <1>0, <1>3, <2>1 DEF PriceInv, Serving, TariffUnchanged
  <2>4. /\ lastTariff'[conn[c].device] = IF Region = 1 THEN price(now) ELSE told[c]
        /\ \A d \in Devices \ {conn[c].device} : lastTariff'[d] = lastTariff[d]
    BY <1>0, <1>1, <1>3, <2>1, <2>3 DEF TypeOK, Remember
  <2>5. PriceInv(c)'
    BY <2>1, <2>2, <2>3, <2>4 DEF PriceInv, Serving
  <2> QED
    BY <2>2, <2>4, <2>5, PriceStep DEF Serving
<1> QED
  BY <1>2, <1>3

LEMMA MoveFacts ==
    ASSUME TypeOK, NEW c \in Conns, NEW s, Move(c, s)
    PROVE  /\ \A k \in Conns \ {c} : conn'[k] = conn[k]
           /\ conn'[c].registered = conn[c].registered
           /\ conn'[c].device = conn[c].device
           /\ conn'[c].uri = conn[c].uri
           /\ conn'[c].stage = s
BY DEF Move, TypeOK, Connections

\* Closing a connection or ending all of them leaves nobody to disagree with.
LEMMA CloseKeepsPrices ==
    ASSUME SessionsInv, PricesInv, NEW c \in Conns, Close(c),
           registry' = registry, lastTariff' = lastTariff
    PROVE  PricesInv'
<1>1. /\ \A k \in Conns \ {c} : conn'[k] = conn[k] /\ told'[k] = told[k]
      /\ conn'[c] = Closed
  BY DEF Close, SessionsInv, TypeOK
<1>2. PriceInv(c)'
  BY <1>1 DEF PriceInv, Serving, Closed
<1> QED
  BY <1>1, <1>2, PriceStep

THEOREM PricesInvariant ==
    ASSUME OwnUris
    PROVE  Spec => [](SessionsInv /\ PricesInv)
<1>1. Init => PricesInv
  <2> SUFFICES ASSUME Init PROVE PricesInv
    OBVIOUS
  <2>1. \A c \in Conns : ~conn[c].registered
    BY DEF Init, Closed
  <2> QED
    BY <2>1 DEF Init, PricesInv, PriceInv, Serving
<1>2. SessionsInv /\ PricesInv /\ [Next]_vars => PricesInv'
  <2> SUFFICES ASSUME SessionsInv, PricesInv, [Next]_vars PROVE PricesInv'
    OBVIOUS
  <2>0. TypeOK /\ \A c \in Conns : SessionInv(c) /\ PriceInv(c)
    BY DEF SessionsInv, PricesInv
  <2> USE DEF process, database
  <2>1. ASSUME NEW c \in Conns,
               Accept(c) \/ ReportSynced(c) \/ CommandWritten(c) \/ CommandAccepted(c)
                  \/ ReducedReportSynced(c)
        PROVE  PricesInv'
    <3>1. /\ \E s \in Stages \ {"awaitReport", "writeTariff"} : Move(c, s)
          /\ conn[c].stage \notin {"awaitReport", "writeTariff"}
      BY <2>1 DEF Accept, ReportSynced, CommandWritten, CommandAccepted,
         ReducedReportSynced, Stages, Receiving, Writing
    <3>2. registry' = registry /\ told' = told /\ lastTariff' = lastTariff
      BY <2>1 DEF Accept, ReportSynced, CommandWritten, CommandAccepted,
         ReducedReportSynced
    <3>3. conn[c].registered => conn[c].uri = conn[c].device
      BY <2>0, <3>1 DEF PriceInv, Serving
    <3> QED
      BY <2>0, <3>1, <3>2, <3>3, MoveFacts, QuietStep
  <2>2. ASSUME NEW c \in Conns, NEW d \in Devices, Handshaken(c, d) PROVE PricesInv'
    <3>1. ~conn[c].registered
      BY <2>0, <2>2 DEF Handshaken, SessionInv, Serving, Unregistered
    <3>2. /\ \A k \in Conns \ {c} : conn'[k] = conn[k]
          /\ ~conn'[c].registered
      BY <2>0, <2>2, <3>1 DEF Handshaken, TypeOK, Connections
    <3> QED
      BY <2>2, <3>2, PriceStep DEF Handshaken, PriceInv, Serving
  <2>3. ASSUME NEW c \in Conns,
               HandshakeRefused(c) \/ UnexpectedMessage(c) \/ IoError(c)
        PROVE  PricesInv'
    BY <2>3, CloseKeepsPrices DEF HandshakeRefused, UnexpectedMessage, IoError
  <2>4. ASSUME NEW c \in Conns, NEW u \in Devices, NEW t \in RegisteredTypes,
               Register(c, u, t)
        PROVE  PricesInv'
    <3> DEFINE ok == Registrable(c, u)
    <3>1. ~conn[c].registered
      BY <2>0, <2>4 DEF Register, SessionInv, Serving, Unregistered
    <3>2. /\ \A k \in Conns \ {c} : conn'[k] = conn[k]
          /\ conn'[c].registered = ok
          /\ conn'[c].device = conn[c].device
          /\ conn'[c].uri = u
          /\ conn'[c].stage = "writeRegisterAck"
      BY <2>0, <2>4 DEF Register, TypeOK, Connections
    <3>3. lastTariff' = lastTariff /\ told' = told /\ registry \subseteq registry'
      BY <2>4 DEF Register
    <3>4. PriceInv(c)'
      <4>1. CASE ok
        <5>1. u = conn[c].device /\ lastTariff[u] = NoPrice /\ told[c] = NoPrice
          BY <2>0, <3>1, <4>1 DEF PricesInv, Registrable, SessionInv, Serving
        <5> QED
          BY <3>2, <3>3, <5>1 DEF PriceInv, Serving
      <4>2. CASE ~ok
        BY <3>2, <4>2 DEF PriceInv, Serving
      <4> QED
        BY <4>1, <4>2
    <3> QED
      BY <3>2, <3>3, <3>4, PriceStep
  <2>5. ASSUME NEW c \in Conns, RegisterAckWritten(c) PROVE PricesInv'
    BY <2>5, CloseKeepsPrices, ReadKeepsPrices DEF RegisterAckWritten
  <2>6. ASSUME NEW c \in Conns, NEW u \in Devices, NEW p \in Powers,
               ReportReceived(c, u, p) \/ ReducedReportReceived(c, u, p)
        PROVE  PricesInv'
    <3>1. registry' = registry /\ told' = told /\ lastTariff' = lastTariff
      BY <2>6 DEF ReportReceived, ReducedReportReceived
    <3>2. conn[c].registered /\ conn[c].device \in Devices
      BY <2>0, <2>6 DEF ReportReceived, ReducedReportReceived, SessionInv, Serving,
         Unregistered, TypeOK
    <3>3. u = conn[c].device
      BY <2>6, <3>2 DEF OwnUris, ReportReceived, ReducedReportReceived
    <3>4. CASE ReportReceived(c, u, p)
      <4>1. /\ \A k \in Conns \ {c} : conn'[k] = conn[k]
            /\ conn'[c].registered = conn[c].registered
            /\ conn'[c].device = conn[c].device
            /\ conn'[c].uri = u
            /\ conn[c].stage # "writeTariff" /\ conn'[c].stage # "writeTariff"
        BY <2>0, <3>4 DEF ReportReceived, TypeOK, Connections
      <4> QED
        BY <3>1, <3>3, <4>1, QuietStep
    <3>5. CASE ReducedReportReceived(c, u, p)
      <4>1. /\ \A k \in Conns \ {c} : conn'[k] = conn[k]
            /\ conn'[c].registered = conn[c].registered
            /\ conn'[c].device = conn[c].device
            /\ conn'[c].uri = conn[c].uri
            /\ conn[c].stage = "awaitReducedReport" /\ conn'[c].stage # "writeTariff"
        BY <2>0, <3>5 DEF ReducedReportReceived, TypeOK, Connections
      <4>2. conn[c].registered => conn[c].uri = conn[c].device
        BY <2>0, <4>1 DEF PriceInv, Serving
      <4> QED
        BY <3>1, <4>1, <4>2, QuietStep
    <3> QED
      BY <2>6, <3>4, <3>5
  <2>7. ASSUME NEW c \in Conns, ReportAckWritten(c) PROVE PricesInv'
    <3>1. registry' = registry /\ told' = told /\ conn[c].stage = "writeReportAck"
      BY <2>7 DEF ReportAckWritten
    <3>2. conn[c].registered /\ conn[c].uri = conn[c].device
      BY <2>0, <3>1 DEF SessionInv, PriceInv, Serving, Unregistered
    <3>3. CASE MoreReports(c)
      BY <2>7, <3>1, <3>2, <3>3, ReadKeepsPrices DEF ReportAckWritten
    <3>4. CASE ~MoreReports(c) /\ conn[c].band # "high"
      BY <2>7, <3>1, <3>2, <3>4, SendTariffKeepsPrices DEF ReportAckWritten
    <3>5. CASE ~MoreReports(c) /\ conn[c].band = "high"
      <4>1. lastTariff' = lastTariff
        BY <2>7, <3>5 DEF ReportAckWritten
      <4>2. /\ \A k \in Conns \ {c} : conn'[k] = conn[k]
            /\ conn'[c].registered = conn[c].registered
            /\ conn'[c].device = conn[c].device
            /\ conn'[c].uri = conn[c].uri
            /\ conn'[c].stage = "writeCommand"
        BY <2>0, <2>7, <3>5 DEF ReportAckWritten, TypeOK, Connections
      <4> QED
        BY <3>1, <3>2, <4>1, <4>2, QuietStep
    <3> QED
      BY <3>3, <3>4, <3>5
  <2>8. ASSUME NEW c \in Conns, CommandRejected(c) \/ ReducedAckWritten(c)
        PROVE  PricesInv'
    <3>1. /\ registry' = registry /\ told' = told
          /\ conn[c].stage \in {"awaitCommandAck", "writeReducedAck"}
      <4>1. CASE CommandRejected(c)
        BY <4>1 DEF CommandRejected
      <4>2. CASE ReducedAckWritten(c)
        BY <4>2 DEF ReducedAckWritten
      <4> QED
        BY <2>8, <4>1, <4>2
    <3>2. conn[c].registered
      BY <2>0, <3>1 DEF SessionInv, Serving, Unregistered
    <3>3. \E reduced \in BOOLEAN : SendTariff(c, reduced)
      BY <2>0, <2>8 DEF CommandRejected, ReducedAckWritten, TypeOK, Connections
    <3> QED
      BY <3>1, <3>2, <3>3, SendTariffKeepsPrices
  <2>9. ASSUME NEW c \in Conns, TariffWritten(c) PROVE PricesInv'
    <3>1. /\ registry' = registry /\ conn[c].stage = "writeTariff"
          /\ ReadConsumptionReport(c, 0)
          /\ told' = [told EXCEPT ![c] = conn[c].price]
      BY <2>9 DEF TariffWritten
    <3>2. /\ conn[c].registered /\ conn[c].device \in Devices
          /\ conn[c].uri = conn[c].device
      BY <2>0, <3>1 DEF SessionInv, PriceInv, Serving, Unregistered, TypeOK
    <3>3. told'[c] = conn[c].price /\ \A k \in Conns \ {c} : told'[k] = told[k]
      BY <2>0, <3>1 DEF TypeOK
    <3>4. /\ lastTariff'[conn[c].device] = conn[c].price
          /\ \A d \in Devices \ {conn[c].device} : lastTariff'[d] = lastTariff[d]
      <4>1. CASE Region = 1
        BY <2>0, <2>9, <3>1, <3>2, <4>1 DEF TariffWritten, PriceInv, Serving
      <4>2. CASE Region = 2
        BY <2>0, <2>9, <3>2, <4>2 DEF TariffWritten, Remember, TypeOK
      <4> QED
        BY <4>1, <4>2, RegionAssumption DEF Regions
    <3>5. PriceInv(c)'
      BY <2>0, <3>1, <3>3, <3>4, ReadKeepsSession DEF PriceInv, Serving
    <3> QED
      BY <2>0, <3>1, <3>2, <3>3, <3>4, <3>5, ReadKeepsSession, PriceStep DEF Serving
  <2>10. ASSUME Killed \/ \E c \in Conns : ReportSyncThrows(c) PROVE PricesInv'
    <3>1. /\ registry' = registry /\ lastTariff' = lastTariff
          /\ \A c \in Conns : ~conn'[c].registered
      BY <2>10 DEF Killed, ReportSyncThrows, Closed
    <3> QED
      BY <3>1 DEF PricesInv, PriceInv, Serving
  <2>11. ASSUME NEW l \in Links, Start(l) PROVE PricesInv'
    <3>1. \A c \in Conns : ~conn'[c].registered
      BY <2>0, <2>11 DEF Start, SessionInv, Closed
    <3> QED
      BY <2>11, <3>1 DEF Start, PricesInv, PriceInv, Serving
  <2>12. ASSUME CentralLost \/ UNCHANGED vars \/ \E c \in Conns : SampleReceived(c)
         PROVE  PricesInv'
    BY <2>12 DEF CentralLost, SampleReceived, vars, PricesInv, PriceInv, Serving
  <2> QED
    BY <2>1, <2>2, <2>3, <2>4, <2>5, <2>6, <2>7, <2>8, <2>9, <2>10, <2>11, <2>12 DEF Next
<1> QED
  BY <1>1, <1>2, SessionsInvariant, PTL DEF Spec

\* Skipping an unchanged tariff is sound in both regions, across lost connections,
\* failed writes, a failing database and restarts.
THEOREM MetersKnowTheirPrice ==
    ASSUME OwnUris
    PROVE  Spec => []MeterKnowsPrice
<1>1. SessionsInv /\ PricesInv => MeterKnowsPrice
  BY DEF PricesInv, PriceInv, MeterKnowsPrice
<1> QED
  BY <1>1, PricesInvariant, PTL

\* A TARIFF_UPDATE never repeats the price the meter was told last.
THEOREM PricesAreNotRepeated ==
    ASSUME OwnUris
    PROVE  Spec => []NoRepeatedPrice
<1>1. SessionsInv /\ PricesInv => NoRepeatedPrice
  BY DEF SessionsInv, SessionInv, PricesInv, PriceInv, NoRepeatedPrice, Serving,
     Unregistered
<1> QED
  BY <1>1, PricesInvariant, PTL

-----------------------------------------------------------------------------
(* The server implements TariffService.                                    *)

\* The refinement mapping: whose session a connection is, how far its cycle is, and
\* the price announced last.
Session(c) == IF Serving(c) THEN conn[c].device ELSE NoDevice
Mapped == <<[c \in Conns |-> Session(c)], [c \in Conns |-> Collected(c)], told>>

\* A cycle starts at zero whichever way it comes about, and what is sent is a price.
CycleInv(c) ==
    /\ conn[c].stage \in Unregistered => conn[c].count = 0
    /\ conn[c].stage = "writeTariff" => conn[c].price \in Prices

CyclesInv == \A c \in Conns : CycleInv(c)

LEMMA MappedVars == UNCHANGED Mapped => UNCHANGED Service!vars
BY DEF Service!vars, Mapped, Session

LEMMA CollectedCases ==
    ASSUME NEW c \in Conns
    PROVE  /\ conn[c].stage \in Settling => Collected(c) = ReportsPerCycle
           /\ conn[c].stage \in Counting => Collected(c) = conn[c].count + 1
           /\ conn[c].stage \notin Settling \cup Counting => Collected(c) = conn[c].count
BY DEF Collected, Settling, Counting

\* The same, in the state after a step.
LEMMA CollectedCasesAfter ==
    ASSUME NEW c \in Conns
    PROVE  /\ conn'[c].stage \in Settling => Collected(c)' = ReportsPerCycle
           /\ conn'[c].stage \in Counting => Collected(c)' = conn'[c].count + 1
           /\ conn'[c].stage \notin Settling \cup Counting => Collected(c)' = conn'[c].count
BY DEF Collected, Settling, Counting

\* What a step of connection c means to the service is decided by c alone.
LEMMA OthersMapped ==
    ASSUME NEW c \in Conns, \A k \in Conns \ {c} : conn'[k] = conn[k]
    PROVE  /\ \A k \in Conns \ {c} : Session(k)' = Session(k)
           /\ \A k \in Conns \ {c} : Collected(k)' = Collected(k)
BY DEF Session, Collected, Serving

\* A step that the service does not see.
LEMMA HiddenStep ==
    ASSUME NEW c \in Conns, \A k \in Conns \ {c} : conn'[k] = conn[k], told' = told,
           conn'[c].registered = conn[c].registered,
           conn'[c].device = conn[c].device \/ ~conn[c].registered,
           Collected(c)' = Collected(c)
    PROVE  UNCHANGED Mapped
<1>1. \A k \in Conns : Session(k)' = Session(k) /\ Collected(k)' = Collected(k)
  BY OthersMapped DEF Session, Serving
<1> QED
  BY <1>1 DEF Mapped

\* The end of a connection is the end of its session, if it had one.
LEMMA EndStep ==
    ASSUME TypeOK, NEW lost \in SUBSET Conns,
           \A k \in lost : conn'[k] = Closed,
           \A k \in Conns \ lost : conn'[k] = conn[k],
           told' = [k \in Conns |-> IF k \in lost THEN NoPrice ELSE told[k]]
    PROVE  Service!Next
<1>1. ASSUME NEW k \in lost PROVE Session(k)' = NoDevice /\ Collected(k)' = 0
  BY <1>1, CollectedCasesAfter DEF Session, Serving, Closed, Settling, Counting
<1>2. ASSUME NEW k \in Conns \ lost
      PROVE  Session(k)' = Session(k) /\ Collected(k)' = Collected(k)
  BY <1>2 DEF Session, Collected, Serving
<1>3. Service!End(lost)
  BY <1>1, <1>2 DEF Service!End, Session
<1> QED
  BY <1>3 DEF Service!Next

LEMMA CloseIsEnd ==
    ASSUME TypeOK, NEW c \in Conns, Close(c)
    PROVE  Service!Next
<1>1. /\ conn'[c] = Closed
      /\ \A k \in Conns \ {c} : conn'[k] = conn[k]
      /\ told' = [k \in Conns |-> IF k \in {c} THEN NoPrice ELSE told[k]]
  BY DEF Close, TypeOK
<1>2. {c} \in SUBSET Conns /\ \A k \in {c} : conn'[k] = Closed
  BY <1>1
<1> QED
  BY <1>1, <1>2, EndStep

\* The end of a cycle without a TARIFF_UPDATE.
LEMMA CycleEndsSilently ==
    ASSUME TypeOK, NEW c \in Conns, Serving(c), conn[c].device \in Devices,
           Collected(c) = ReportsPerCycle, ReadConsumptionReport(c, 0), told' = told
    PROVE  Service!Next
<1>1. /\ \A k \in Conns \ {c} : conn'[k] = conn[k]
      /\ conn'[c].registered /\ conn'[c].device = conn[c].device
      /\ Collected(c)' = 0
  BY ReadFacts, CollectedCasesAfter DEF Settling, Counting
<1>2. /\ \A k \in Conns : Session(k)' = Session(k)
      /\ \A k \in Conns \ {c} : Collected(k)' = Collected(k)
  BY <1>1, OthersMapped DEF Session, Serving
<1>3. Service!Skip(c)
  BY <1>1, <1>2, DevicesAssumption DEF Service!Skip, Session
<1> QED
  BY <1>3 DEF Service!Next

\* SendTariff at the end of a cycle: the price is sent later, or the cycle is over.
LEMMA SendTariffMapped ==
    ASSUME TypeOK, NEW c \in Conns, Serving(c), conn[c].device \in Devices,
           Collected(c) = ReportsPerCycle, told' = told,
           NEW reduced \in BOOLEAN, SendTariff(c, reduced)
    PROVE  Service!Next \/ UNCHANGED Mapped
<1>1. CASE ReadConsumptionReport(c, 0)
  BY <1>1, CycleEndsSilently
<1>2. CASE ~ReadConsumptionReport(c, 0)
  <2>1. /\ \A k \in Conns \ {c} : conn'[k] = conn[k]
        /\ conn'[c].stage = "writeTariff"
        /\ conn'[c].registered = conn[c].registered
        /\ conn'[c].device = conn[c].device
    BY <1>2, SendTariffFacts
  <2>2. Collected(c)' = ReportsPerCycle
    BY <2>1, CollectedCasesAfter DEF Settling
  <2> QED
    BY <2>1, <2>2, HiddenStep
<1> QED
  BY <1>1, <1>2

LEMMA CycleStep ==
    ASSUME CyclesInv, NEW c \in Conns, \A k \in Conns \ {c} : conn'[k] = conn[k],
           CycleInv(c)'
    PROVE  CyclesInv'
BY DEF CyclesInv, CycleInv

LEMMA CyclesStep ==
    ASSUME SessionsInv, CyclesInv, [Next]_vars
    PROVE  CyclesInv'
<1>0. TypeOK /\ \A c \in Conns : CycleInv(c)
  BY DEF SessionsInv, CyclesInv
<1> USE DEF process, database
<1>1. ASSUME NEW c \in Conns, NEW n, ReadConsumptionReport(c, n) PROVE CyclesInv'
  BY <1>0, <1>1, ReadFacts, CycleStep DEF CycleInv, Unregistered
<1>2. ASSUME NEW c \in Conns, Close(c) PROVE CyclesInv'
  BY <1>0, <1>2, CycleStep DEF Close, Closed, TypeOK, CycleInv
<1>3. ASSUME NEW c \in Conns, NEW reduced \in BOOLEAN, SendTariff(c, reduced)
      PROVE  CyclesInv'
  BY <1>0, <1>1, <1>3, SendTariffFacts, CycleStep DEF CycleInv, Unregistered
<1>4. ASSUME NEW c \in Conns,
             \/ RegisterAckWritten(c) \/ TariffWritten(c)
             \/ HandshakeRefused(c) \/ UnexpectedMessage(c) \/ IoError(c)
      PROVE  CyclesInv'
  BY <1>1, <1>2, <1>4 DEF RegisterAckWritten, TariffWritten, HandshakeRefused,
     UnexpectedMessage, IoError
<1>5. ASSUME NEW c \in Conns, Accept(c) PROVE CyclesInv'
  <2>1. /\ \A k \in Conns \ {c} : conn'[k] = conn[k]
        /\ conn'[c].stage = "handshake" /\ conn'[c].count = conn[c].count
    BY <1>0, <1>5 DEF Accept, Move, TypeOK, Connections
  <2> QED
    BY <1>0, <1>5, <2>1, CycleStep DEF Accept, CycleInv, Unregistered
<1>6. ASSUME NEW c \in Conns, NEW d \in Devices, Handshaken(c, d) PROVE CyclesInv'
  <2>1. /\ \A k \in Conns \ {c} : conn'[k] = conn[k]
        /\ conn'[c].stage = "awaitRegister" /\ conn'[c].count = conn[c].count
    BY <1>0, <1>6 DEF Handshaken, TypeOK, Connections
  <2> QED
    BY <1>0, <1>6, <2>1, CycleStep DEF Handshaken, CycleInv, Unregistered
<1>7. ASSUME NEW c \in Conns, NEW u \in Devices, NEW t \in RegisteredTypes,
             Register(c, u, t)
      PROVE  CyclesInv'
  <2>1. /\ \A k \in Conns \ {c} : conn'[k] = conn[k]
        /\ conn'[c].stage = "writeRegisterAck" /\ conn'[c].count = conn[c].count
    BY <1>0, <1>7 DEF Register, TypeOK, Connections
  <2> QED
    BY <1>0, <1>7, <2>1, CycleStep DEF Register, CycleInv, Unregistered
<1>8. ASSUME NEW c \in Conns, \A k \in Conns \ {c} : conn'[k] = conn[k],
             conn'[c].stage \notin Unregistered \cup {"writeTariff"}
      PROVE  CyclesInv'
  BY <1>8, CycleStep DEF CycleInv
<1>9. ASSUME NEW c \in Conns,
             \/ ReportSynced(c) \/ CommandWritten(c) \/ CommandAccepted(c)
             \/ ReducedReportSynced(c)
      PROVE  CyclesInv'
  <2>1. \E s \in Stages \ (Unregistered \cup {"writeTariff"}) : Move(c, s)
    BY <1>9 DEF ReportSynced, CommandWritten, CommandAccepted, ReducedReportSynced,
       Stages, Receiving, Writing, Unregistered
  <2> QED
    BY <1>0, <1>8, <2>1, MoveFacts
<1>10. ASSUME NEW c \in Conns, NEW u \in Devices, NEW p \in Powers,
              ReportReceived(c, u, p) \/ ReducedReportReceived(c, u, p)
       PROVE  CyclesInv'
  <2>1. /\ \A k \in Conns \ {c} : conn'[k] = conn[k]
        /\ conn'[c].stage \in {"writeReportAck", "syncing", "writeReducedAck",
                               "syncingReduced"}
    BY <1>0, <1>10 DEF ReportReceived, ReducedReportReceived, TypeOK, Connections
  <2> QED
    BY <1>8, <2>1 DEF Unregistered
<1>11. ASSUME NEW c \in Conns,
              ReportAckWritten(c) \/ CommandRejected(c) \/ ReducedAckWritten(c)
       PROVE  CyclesInv'
  <2>1. \/ ReadConsumptionReport(c, conn[c].count + 1)
        \/ \E reduced \in BOOLEAN : SendTariff(c, reduced)
        \/ conn' = [conn EXCEPT ![c].stage = "writeCommand", ![c].count = 0]
    BY <1>0, <1>11 DEF ReportAckWritten, CommandRejected, ReducedAckWritten,
       TypeOK, Connections
  <2>2. CASE conn' = [conn EXCEPT ![c].stage = "writeCommand", ![c].count = 0]
    <3>1. /\ \A k \in Conns \ {c} : conn'[k] = conn[k]
          /\ conn'[c].stage = "writeCommand"
      BY <1>0, <2>2 DEF TypeOK, Connections
    <3> QED
      BY <1>8, <3>1 DEF Unregistered
  <2> QED
    BY <1>1, <1>3, <2>1, <2>2
<1>12. ASSUME Killed \/ \E c \in Conns : ReportSyncThrows(c) PROVE CyclesInv'
  BY <1>12 DEF Killed, ReportSyncThrows, Closed, CyclesInv, CycleInv
<1>13. ASSUME conn' = conn PROVE CyclesInv'
  BY <1>13 DEF CyclesInv, CycleInv
<1>14. ASSUME \/ CentralLost \/ UNCHANGED vars \/ \E l \in Links : Start(l)
              \/ \E c \in Conns : SampleReceived(c)
       PROVE  CyclesInv'
  BY <1>13, <1>14 DEF CentralLost, SampleReceived, Start, vars
<1> QED
  BY <1>4, <1>5, <1>6, <1>7, <1>9, <1>10, <1>11, <1>12, <1>14 DEF Next

LEMMA CyclesStart == Init => CyclesInv
BY DEF Init, CyclesInv, CycleInv, Closed, Unregistered

\* A cycle starts at zero on every way into it.
THEOREM CyclesInvariant == Spec => [](SessionsInv /\ CyclesInv)
<1>1. Init => CyclesInv
  BY CyclesStart
<1>2. SessionsInv /\ CyclesInv /\ [Next]_vars => CyclesInv'
  BY CyclesStep
<1> QED
  BY <1>1, <1>2, SessionsInvariant, PTL DEF Spec

\* Both servers implement TariffService: through lost connections, a lost central
\* server, failing INSERTs, kills and restarts, a meter has one session at a time, a
\* cycle takes in no more than ReportsPerCycle measurements, and what is announced at
\* its end is a new price.
THEOREM ServersImplementTariffService ==
    ASSUME OwnUris
    PROVE  Spec => RefinesTariffService
<1>1. Init => Service!Init
  BY DEF Init, Service!Init, Serving, Collected, Closed, Settling, Counting
<1>2. SessionsInv /\ PricesInv /\ CyclesInv /\ [Next]_vars => [Service!Next]_(Service!vars)
  <2> SUFFICES ASSUME SessionsInv, PricesInv, CyclesInv, [Next]_vars
               PROVE  Service!Next \/ UNCHANGED Mapped
    BY MappedVars
  <2>0. TypeOK /\ \A c \in Conns : SessionInv(c) /\ PriceInv(c) /\ CycleInv(c)
    BY DEF SessionsInv, PricesInv, CyclesInv
  <2> USE DEF process, database
  <2>1. ASSUME NEW c \in Conns,
               \/ Accept(c) \/ ReportSynced(c) \/ CommandWritten(c) \/ CommandAccepted(c)
               \/ ReducedReportSynced(c)
        PROVE  UNCHANGED Mapped
    <3>1. /\ \E s : /\ Move(c, s)
                    /\ \/ conn[c].stage \in Settling /\ s \in Settling
                       \/ conn[c].stage \in Counting /\ s \in Counting
                       \/ /\ conn[c].stage \notin Settling \cup Counting
                          /\ s \notin Settling \cup Counting
          /\ told' = told
      BY <2>1 DEF Accept, ReportSynced, CommandWritten, CommandAccepted,
         ReducedReportSynced, Settling, Counting
    <3>2. conn'[c].count = conn[c].count
      BY <2>0, <3>1 DEF Move, TypeOK, Connections
    <3>3. Collected(c)' = Collected(c)
      BY <2>0, <3>1, <3>2, MoveFacts, CollectedCases, CollectedCasesAfter
    <3> QED
      BY <2>0, <3>1, <3>3, MoveFacts, HiddenStep
  <2>2. ASSUME NEW c \in Conns, NEW d \in Devices, Handshaken(c, d)
        PROVE  UNCHANGED Mapped
    <3>1. /\ \A k \in Conns \ {c} : conn'[k] = conn[k]
          /\ conn'[c].registered = conn[c].registered
          /\ conn'[c].stage = "awaitRegister" /\ conn'[c].count = conn[c].count
          /\ told' = told
      BY <2>0, <2>2 DEF Handshaken, TypeOK, Connections
    <3>2. ~conn[c].registered
      BY <2>0, <2>2 DEF Handshaken, SessionInv, Serving, Unregistered
    <3>3. Collected(c)' = Collected(c)
      BY <2>2, <3>1, CollectedCases, CollectedCasesAfter DEF Handshaken, Settling, Counting
    <3> QED
      BY <3>1, <3>2, <3>3, HiddenStep
  <2>3. ASSUME NEW c \in Conns,
               HandshakeRefused(c) \/ UnexpectedMessage(c) \/ IoError(c)
        PROVE  Service!Next
    BY <2>0, <2>3, CloseIsEnd DEF HandshakeRefused, UnexpectedMessage, IoError
  <2>4. ASSUME NEW c \in Conns, NEW u \in Devices, NEW t \in RegisteredTypes,
               Register(c, u, t)
        PROVE  Service!Next \/ UNCHANGED Mapped
    <3>1. /\ \A k \in Conns \ {c} : conn'[k] = conn[k]
          /\ conn'[c].registered = Registrable(c, u)
          /\ conn'[c].device = conn[c].device
          /\ conn'[c].stage = "writeRegisterAck" /\ conn'[c].count = conn[c].count
          /\ told' = told
      BY <2>0, <2>4 DEF Register, TypeOK, Connections
    <3>2. ~conn[c].registered
      BY <2>0, <2>4 DEF Register, SessionInv, Serving, Unregistered
    <3>3. Collected(c)' = Collected(c)
      BY <2>4, <3>1, CollectedCases, CollectedCasesAfter DEF Register, Settling, Counting
    <3>4. CASE ~Registrable(c, u)
      <4>1. conn[c].registered \in BOOLEAN
        BY <2>0 DEF TypeOK, Connections
      <4>2. conn[c].registered = FALSE /\ conn'[c].registered = FALSE
        BY <3>1, <3>2, <3>4, <4>1 DEF Registrable
      <4> QED
        BY <3>1, <3>2, <3>3, <4>2, HiddenStep
    <3>5. CASE Registrable(c, u)
      <4>1. u = conn[c].device /\ u \notin registry
        BY <3>5 DEF Registrable
      <4>2. \A k \in Conns : Session(k) # u
        BY <2>0, <4>1, DevicesAssumption DEF Session, SessionInv, Serving
      <4>3. /\ \A k \in Conns \ {c} : Session(k)' = Session(k)
            /\ \A k \in Conns : Collected(k)' = Collected(k)
            /\ Session(c) = NoDevice /\ Session(c)' = u
        BY <3>1, <3>2, <3>3, <3>5, <4>1, OthersMapped DEF Session, Serving
      <4>4. Service!Open(c, u)
        BY <3>1, <4>2, <4>3 DEF Service!Open, Session
      <4> QED
        BY <4>4 DEF Service!Next
    <3> QED
      BY <3>4, <3>5
  <2>5. ASSUME NEW c \in Conns, RegisterAckWritten(c)
        PROVE  Service!Next \/ UNCHANGED Mapped
    <3>1. CASE conn[c].registered
      <4>1. /\ ReadConsumptionReport(c, 0) /\ told' = told
            /\ conn[c].stage = "writeRegisterAck"
        BY <2>5, <3>1 DEF RegisterAckWritten
      <4>2. Collected(c) = 0 /\ Collected(c)' = 0
        BY <2>0, <4>1, ReadFacts, CollectedCases, CollectedCasesAfter
           DEF CycleInv, Unregistered, Settling, Counting
      <4> QED
        BY <2>0, <3>1, <4>1, <4>2, ReadFacts, HiddenStep
    <3>2. CASE ~conn[c].registered
      BY <2>0, <2>5, <3>2, CloseIsEnd DEF RegisterAckWritten
    <3> QED
      BY <3>1, <3>2
  <2>6. ASSUME NEW c \in Conns, NEW u \in Devices, NEW p \in Powers,
               ReportReceived(c, u, p)
        PROVE  Service!Next
    <3>1. /\ \A k \in Conns \ {c} : conn'[k] = conn[k]
          /\ conn'[c].registered = conn[c].registered
          /\ conn'[c].device = conn[c].device
          /\ conn'[c].count = conn[c].count
          /\ conn'[c].stage \in Counting
          /\ told' = told
      BY <2>0, <2>6 DEF ReportReceived, TypeOK, Connections, Counting
    <3>2. Serving(c) /\ conn[c].device \in Devices
      BY <2>0, <2>6 DEF ReportReceived, SessionInv, Serving, Unregistered, TypeOK
    <3>3. conn[c].count \in 0 .. ReportsPerCycle - 1
      BY <2>0 DEF TypeOK, Connections
    <3>4. Collected(c) = conn[c].count /\ Collected(c)' = conn[c].count + 1
      BY <2>6, <3>1, CollectedCases, CollectedCasesAfter
         DEF ReportReceived, Settling, Counting
    <3>5. /\ \A k \in Conns : Session(k)' = Session(k)
          /\ \A k \in Conns \ {c} : Collected(k)' = Collected(k)
      BY <3>1, OthersMapped DEF Session, Serving
    <3>6. Session(c) # NoDevice /\ Collected(c) < ReportsPerCycle
      BY <3>2, <3>3, <3>4, CycleAssumption, DevicesAssumption DEF Session
    <3>7. [k \in Conns |-> Collected(k)']
            = [[k \in Conns |-> Collected(k)] EXCEPT ![c] = @ + 1]
      BY <3>4, <3>5
    <3>8. Service!Collect(c)
      BY <3>1, <3>5, <3>6, <3>7 DEF Service!Collect, Session
    <3> QED
      BY <3>8 DEF Service!Next
  <2>7. ASSUME NEW c \in Conns, NEW u \in Devices, NEW p \in Powers,
               ReducedReportReceived(c, u, p)
        PROVE  UNCHANGED Mapped
    <3>1. /\ \A k \in Conns \ {c} : conn'[k] = conn[k]
          /\ conn'[c].registered = conn[c].registered
          /\ conn'[c].device = conn[c].device
          /\ conn'[c].stage \in Settling /\ conn[c].stage \in Settling
          /\ told' = told
      BY <2>0, <2>7 DEF ReducedReportReceived, TypeOK, Connections, Settling
    <3> QED
      BY <3>1, CollectedCases, CollectedCasesAfter, HiddenStep
  <2>8. ASSUME NEW c \in Conns, ReportAckWritten(c)
        PROVE  Service!Next \/ UNCHANGED Mapped
    <3>1. /\ conn[c].stage = "writeReportAck" /\ told' = told
          /\ conn[c].count \in 0 .. ReportsPerCycle - 1
      BY <2>0, <2>8 DEF ReportAckWritten, TypeOK, Connections
    <3>2. Serving(c) /\ conn[c].device \in Devices
      BY <2>0, <3>1 DEF SessionInv, Serving, Unregistered, TypeOK
    <3>3. Collected(c) = conn[c].count + 1
      BY <3>1, CollectedCases DEF Counting
    <3>4. CASE MoreReports(c)
      <4>1. ReadConsumptionReport(c, conn[c].count + 1)
        BY <2>8, <3>4 DEF ReportAckWritten
      <4>2. Collected(c)' = conn[c].count + 1
        BY <2>0, <4>1, ReadFacts, CollectedCasesAfter DEF Settling, Counting
      <4> QED
        BY <2>0, <3>1, <3>2, <3>3, <4>1, <4>2, ReadFacts, HiddenStep DEF Serving
    <3>5. CASE ~MoreReports(c)
      <4>1. Collected(c) = ReportsPerCycle
        BY <3>1, <3>3, <3>5, CycleAssumption DEF MoreReports
      <4>2. CASE SendTariff(c, FALSE)
        BY <2>0, <3>1, <3>2, <4>1, <4>2, SendTariffMapped
      <4>3. CASE conn' = [conn EXCEPT ![c].stage = "writeCommand", ![c].count = 0]
        <5>1. /\ \A k \in Conns \ {c} : conn'[k] = conn[k]
              /\ conn'[c].registered = conn[c].registered
              /\ conn'[c].device = conn[c].device
              /\ conn'[c].stage = "writeCommand"
          BY <2>0, <4>3 DEF TypeOK, Connections
        <5>2. Collected(c)' = ReportsPerCycle
          BY <5>1, CollectedCasesAfter DEF Settling
        <5> QED
          BY <3>1, <4>1, <5>1, <5>2, HiddenStep
      <4> QED
        BY <2>8, <3>5, <4>2, <4>3 DEF ReportAckWritten
    <3> QED
      BY <3>4, <3>5
  <2>9. ASSUME NEW c \in Conns, CommandRejected(c) \/ ReducedAckWritten(c)
        PROVE  Service!Next \/ UNCHANGED Mapped
    <3>1. /\ \E reduced \in BOOLEAN : SendTariff(c, reduced)
          /\ told' = told /\ conn[c].stage \in Settling
          /\ conn[c].stage \notin Unregistered
      BY <2>0, <2>9 DEF CommandRejected, ReducedAckWritten, TypeOK, Connections,
         Settling, Unregistered
    <3>2. Serving(c) /\ conn[c].device \in Devices
      BY <2>0, <3>1 DEF SessionInv, TypeOK
    <3> QED
      BY <2>0, <3>1, <3>2, CollectedCases, SendTariffMapped
  <2>10. ASSUME NEW c \in Conns, TariffWritten(c) PROVE Service!Next
    <3>1. /\ conn[c].stage = "writeTariff" /\ ReadConsumptionReport(c, 0)
          /\ told' = [told EXCEPT ![c] = conn[c].price]
      BY <2>10 DEF TariffWritten
    <3>2. /\ Serving(c) /\ conn[c].device \in Devices
          /\ conn[c].price \in Prices /\ conn[c].price # told[c]
      BY <2>0, <3>1 DEF SessionInv, Unregistered, TypeOK, PriceInv, CycleInv
    <3>3. /\ \A k \in Conns \ {c} : conn'[k] = conn[k]
          /\ conn'[c].registered /\ conn'[c].device = conn[c].device
          /\ Collected(c) = ReportsPerCycle /\ Collected(c)' = 0
      BY <2>0, <3>1, ReadFacts, CollectedCases, CollectedCasesAfter
         DEF Settling, Counting
    <3>4. /\ \A k \in Conns : Session(k)' = Session(k)
          /\ \A k \in Conns \ {c} : Collected(k)' = Collected(k)
      BY <3>2, <3>3, OthersMapped DEF Session, Serving
    <3>5. Service!Announce(c)
      BY <3>1, <3>2, <3>3, <3>4, DevicesAssumption DEF Service!Announce, Session
    <3> QED
      BY <3>5 DEF Service!Next
  <2>11. ASSUME Killed \/ \E c \in Conns : ReportSyncThrows(c) PROVE Service!Next
    <3>1. /\ conn' = [k \in Conns |-> Closed]
          /\ told' = [k \in Conns |-> NoPrice]
      BY <2>11 DEF Killed, ReportSyncThrows
    <3> QED
      BY <2>0, <3>1, EndStep
  <2>12. ASSUME \/ CentralLost \/ UNCHANGED vars \/ \E l \in Links : Start(l)
                \/ \E c \in Conns : SampleReceived(c)
         PROVE  UNCHANGED Mapped
    <3>1. conn' = conn /\ told' = told
      BY <2>12 DEF CentralLost, SampleReceived, Start, vars
    <3> QED
      BY <3>1 DEF Mapped, Session, Serving, Collected
  <2> QED
    BY <2>1, <2>2, <2>3, <2>4, <2>5, <2>6, <2>7, <2>8, <2>9, <2>10, <2>11, <2>12 DEF Next
<1> QED
  BY <1>1, <1>2, PricesInvariant, CyclesInvariant, PTL DEF Spec, RefinesTariffService, Service!Spec

-----------------------------------------------------------------------------
(* What the decisions rest on.                                             *)

\* The INSERTs succeed; where they may fail, both statements about the database are
\* false, because the results are ignored.
Reliable == ~DbMayFail

\* A measurement of a served meter that reports under its own URI, and its row.
LEMMA StoreFacts ==
    ASSUME Reliable, TypeOK, NEW u \in Devices, NEW p \in Powers, StoreMeasurement(u, p)
    PROVE  /\ latestPower'[u] = p /\ dbPower'[u] = p
           /\ \A d \in Devices \ {u} : latestPower'[d] = latestPower[d] /\ dbPower'[d] = dbPower[d]
BY DEF Reliable, StoreMeasurement, InsertConsumption, Inserted, TypeOK

\* Who reports is registered, and reports about itself.
LEMMA ReporterIsServed ==
    ASSUME OwnUris, SessionsInv, NEW c \in Conns, NEW u \in Devices,
           u \in ReportUris[conn[c].device],
           conn[c].stage \in {"awaitReport", "awaitReducedReport"}
    PROVE  /\ Serving(c) /\ u = conn[c].device /\ u \in registry
           /\ conn[c].device \in Devices
<1>1. Serving(c)
  BY DEF SessionsInv, SessionInv, Unregistered
<1>2. conn[c].device \in registry /\ conn[c].device \in Devices
  BY <1>1 DEF SessionsInv, SessionInv, TypeOK
<1> QED
  BY <1>1, <1>2 DEF OwnUris

-----------------------------------------------------------------------------
(* The load and table consumption.                                         *)

\* LoadMatchesDatabase with what makes it inductive: whoever may report has its row in
\* table devices.
LoadInv ==
    /\ registry \subseteq dbDevices
    /\ \A d \in Devices : latestPower[d] # 0 =>
         d \in registry /\ dbPower[d] = latestPower[d]

\* The load a tariff is computed from is one the database can show, across any number
\* of sessions and restarts.
THEOREM LoadIsInDatabase ==
    ASSUME OwnUris, Reliable
    PROVE  Spec => []LoadMatchesDatabase
<1>1. Init => LoadInv
  BY DEF Init, LoadInv
<1>2. SessionsInv /\ LoadInv /\ [Next]_vars => LoadInv'
  <2> SUFFICES ASSUME SessionsInv, LoadInv, [Next]_vars PROVE LoadInv'
    OBVIOUS
  <2>0. TypeOK
    BY DEF SessionsInv
  <2> USE DEF process, database
  <2>1. ASSUME NEW c \in Conns, NEW u \in Devices, NEW t \in RegisteredTypes,
               Register(c, u, t)
        PROVE  LoadInv'
    <3>1. latestPower' = latestPower /\ dbPower' = dbPower /\ registry \subseteq registry'
      BY <2>1 DEF Register
    <3>2. registry' \subseteq dbDevices'
      <4>1. CASE Registrable(c, u)
        <5>1. registry' = registry \cup {u} /\ dbDevices' = dbDevices \cup {u}
          BY <2>1, <4>1 DEF Register, InsertDevice, Inserted, Reliable
        <5> QED
          BY <5>1 DEF LoadInv
      <4>2. CASE ~Registrable(c, u)
        BY <2>1, <4>2 DEF Register, LoadInv
      <4> QED
        BY <4>1, <4>2
    <3> QED
      BY <3>1, <3>2 DEF LoadInv
  <2>2. ASSUME NEW c \in Conns, NEW u \in Devices, NEW p \in Powers,
               ReportReceived(c, u, p) \/ ReducedReportReceived(c, u, p)
        PROVE  LoadInv'
    <3>1. /\ StoreMeasurement(u, p) /\ registry' = registry /\ dbDevices' = dbDevices
          /\ u \in ReportUris[conn[c].device]
          /\ conn[c].stage \in {"awaitReport", "awaitReducedReport"}
      BY <2>2 DEF ReportReceived, ReducedReportReceived
    <3>2. u \in registry
      BY <3>1, ReporterIsServed
    <3> QED
      BY <2>0, <3>1, <3>2, StoreFacts DEF LoadInv
  <2>3. ASSUME NEW l \in Links, Start(l) PROVE LoadInv'
    BY <2>3 DEF Start, LoadInv
  <2>4. ASSUME UNCHANGED <<registry, latestPower, dbDevices, dbPower>> PROVE LoadInv'
    BY <2>4 DEF LoadInv
  <2>5. ASSUME NEW c \in Conns,
               \/ Accept(c) \/ HandshakeRefused(c) \/ RegisterAckWritten(c)
               \/ ReportSynced(c) \/ ReportSyncThrows(c) \/ SampleReceived(c)
               \/ TariffWritten(c) \/ CommandWritten(c) \/ CommandAccepted(c)
               \/ ReducedReportSynced(c) \/ UnexpectedMessage(c) \/ IoError(c)
               \/ \E d \in Devices : Handshaken(c, d)
        PROVE  LoadInv'
    BY <2>4, <2>5 DEF Accept, HandshakeRefused, RegisterAckWritten, ReportSynced,
       ReportSyncThrows, SampleReceived, TariffWritten, CommandWritten, CommandAccepted,
       ReducedReportSynced, UnexpectedMessage, IoError, Handshaken, vars
  <2>6. ASSUME NEW c \in Conns,
               ReportAckWritten(c) \/ CommandRejected(c) \/ ReducedAckWritten(c)
        PROVE  LoadInv'
    <3>1. UNCHANGED <<registry, latestPower, dbDevices, dbPower>>
      <4>1. CASE ReportAckWritten(c)
        BY <4>1 DEF ReportAckWritten
      <4>2. CASE CommandRejected(c)
        BY <4>2 DEF CommandRejected
      <4>3. CASE ReducedAckWritten(c)
        BY <4>3 DEF ReducedAckWritten
      <4> QED
        BY <2>6, <4>1, <4>2, <4>3
    <3> QED
      BY <2>4, <3>1
  <2>7. CASE CentralLost \/ Killed \/ UNCHANGED vars
    BY <2>4, <2>7 DEF CentralLost, Killed, vars
  <2> QED
    BY <2>1, <2>2, <2>3, <2>5, <2>6, <2>7 DEF Next
<1>3. LoadInv => LoadMatchesDatabase
  BY DEF LoadInv, LoadMatchesDatabase
<1> QED
  BY <1>1, <1>2, <1>3, SessionsInvariant, PTL DEF Spec

-----------------------------------------------------------------------------
(* The discount and tables commands and consumption.                       *)

\* What a connection has reached on the way to a discount: high load when the command
\* was sent, an acceptance in the database, and a measurement within the target.
Commanded == {"writeCommand", "awaitCommandAck"}
Accepted  == {"awaitReducedReport", "syncingReduced", "writeReducedAck"}

DiscountInv(c) ==
    /\ conn[c].stage \in Commanded \cup Accepted => conn[c].band = "high"
    /\ conn[c].stage \in Accepted => dbCommand[conn[c].device] = "ACCEPTED"
    /\ conn[c].reduced =>
         /\ conn[c].stage \in {"syncingReduced", "writeReducedAck", "writeTariff"}
         /\ conn[c].band = "high"
         /\ dbCommand[conn[c].device] = "ACCEPTED"
         /\ dbPower[conn[c].device] \in 1 .. TargetPower

DiscountsInv == \A c \in Conns : DiscountInv(c)

\* Only a served meter is on that way.
LEMMA WayIsServed ==
    ASSUME SessionsInv, NEW c \in Conns, conn[c].stage \notin Unregistered
    PROVE  Serving(c) /\ conn[c].device \in Devices
BY DEF SessionsInv, SessionInv, TypeOK

\* A step of connection c that writes no row but those of its own meter.
LEMMA DiscountStep ==
    ASSUME SessionsInv, DiscountsInv, NEW c \in Conns,
           \A k \in Conns \ {c} : conn'[k] = conn[k],
           \A d \in Devices : dbCommand'[d] # dbCommand[d] \/ dbPower'[d] # dbPower[d]
                                 => Serving(c) /\ d = conn[c].device,
           DiscountInv(c)'
    PROVE  DiscountsInv'
<1> SUFFICES ASSUME NEW k \in Conns \ {c} PROVE DiscountInv(k)'
  BY DEF DiscountsInv
<1>1. DiscountInv(k)
  BY DEF DiscountsInv
<1>2. CASE conn[k].stage \in Unregistered
  BY <1>1, <1>2 DEF DiscountInv, Unregistered, Commanded, Accepted
<1>3. CASE conn[k].stage \notin Unregistered
  <2>1. Serving(k) /\ conn[k].device \in Devices
    BY <1>3, WayIsServed
  <2>2. /\ dbCommand'[conn[k].device] = dbCommand[conn[k].device]
        /\ dbPower'[conn[k].device] = dbPower[conn[k].device]
    BY <2>1 DEF SessionsInv, OneSessionPerMeter
  <2> QED
    BY <1>1, <2>2 DEF DiscountInv
<1> QED
  BY <1>2, <1>3

\* A step that writes neither table and leaves connection c in a harmless stage, or one
\* that is as far on the way as before.
LEMMA QuietDiscountStep ==
    ASSUME SessionsInv, DiscountsInv, NEW c \in Conns,
           \A k \in Conns \ {c} : conn'[k] = conn[k],
           dbCommand' = dbCommand, dbPower' = dbPower,
           \/ /\ ~conn'[c].reduced
              /\ conn'[c].stage \notin Commanded \cup Accepted
           \/ /\ conn'[c].band = conn[c].band /\ conn'[c].reduced = conn[c].reduced
              /\ conn'[c].device = conn[c].device
              /\ \/ conn[c].stage \in Commanded /\ conn'[c].stage \in Commanded
                 \/ /\ conn[c].stage \in Accepted
                    /\ conn'[c].stage \in {"syncingReduced", "writeReducedAck", "writeTariff"}
    PROVE  DiscountsInv'
<1>1. DiscountInv(c)'
  BY DEF DiscountsInv, DiscountInv, Commanded, Accepted
<1> QED
  BY <1>1, DiscountStep

\* What a tariff without a discount does, whoever asks for it.
LEMMA PlainTariffStep ==
    ASSUME SessionsInv, DiscountsInv, NEW c \in Conns, SendTariff(c, FALSE),
           \A d \in Devices : dbCommand'[d] # dbCommand[d] \/ dbPower'[d] # dbPower[d]
                                 => Serving(c) /\ d = conn[c].device
    PROVE  DiscountsInv'
<1>1. /\ \A k \in Conns \ {c} : conn'[k] = conn[k]
      /\ ~conn'[c].reduced
      /\ conn'[c].stage \in {"awaitReport", "writeTariff"}
  BY SendTariffFacts, ReadFacts DEF SessionsInv
<1>2. DiscountInv(c)'
  BY <1>1 DEF DiscountInv, Commanded, Accepted
<1> QED
  BY <1>1, <1>2, DiscountStep

LEMMA MoveKeepsRest ==
    ASSUME TypeOK, NEW c \in Conns, NEW s, Move(c, s)
    PROVE  conn'[c].band = conn[c].band /\ conn'[c].reduced = conn[c].reduced
BY DEF Move, TypeOK, Connections

THEOREM DiscountsInvariant ==
    ASSUME OwnUris, Reliable
    PROVE  Spec => [](SessionsInv /\ PricesInv /\ DiscountsInv)
<1>1. Init => DiscountsInv
  BY DEF Init, DiscountsInv, DiscountInv, Closed, Commanded, Accepted
<1>2. SessionsInv /\ PricesInv /\ DiscountsInv /\ [Next]_vars => DiscountsInv'
  <2> SUFFICES ASSUME SessionsInv, PricesInv, DiscountsInv, [Next]_vars
               PROVE  DiscountsInv'
    OBVIOUS
  <2>0. TypeOK /\ \A c \in Conns : SessionInv(c) /\ PriceInv(c) /\ DiscountInv(c)
    BY DEF SessionsInv, PricesInv, DiscountsInv
  <2> USE DEF process, database
  <2>1. ASSUME NEW c \in Conns, Accept(c) \/ ReportSynced(c) PROVE DiscountsInv'
    <3>1. /\ \E s \in {"handshake", "writeReportAck"} : Move(c, s)
          /\ dbCommand' = dbCommand /\ dbPower' = dbPower
          /\ conn[c].stage \in {"closed", "syncing"}
      BY <2>1 DEF Accept, ReportSynced
    <3>2. ~conn[c].reduced
      BY <2>0, <3>1 DEF DiscountInv
    <3> QED
      BY <2>0, <3>1, <3>2, MoveFacts, MoveKeepsRest, QuietDiscountStep
         DEF Commanded, Accepted
  <2>2. ASSUME NEW c \in Conns, CommandWritten(c) \/ ReducedReportSynced(c)
        PROVE  DiscountsInv'
    <3>1. /\ \/ Move(c, "awaitCommandAck") /\ conn[c].stage \in Commanded
             \/ Move(c, "writeReducedAck") /\ conn[c].stage \in Accepted
          /\ dbCommand' = dbCommand /\ dbPower' = dbPower
      BY <2>2 DEF CommandWritten, ReducedReportSynced, Commanded, Accepted
    <3> QED
      BY <2>0, <3>1, MoveFacts, MoveKeepsRest, QuietDiscountStep DEF Commanded, Accepted
  <2>3. ASSUME NEW c \in Conns, NEW d \in Devices, Handshaken(c, d) PROVE DiscountsInv'
    <3>1. /\ \A k \in Conns \ {c} : conn'[k] = conn[k]
          /\ conn'[c].stage = "awaitRegister" /\ conn'[c].reduced = conn[c].reduced
          /\ dbCommand' = dbCommand /\ dbPower' = dbPower
      BY <2>0, <2>3 DEF Handshaken, TypeOK, Connections
    <3>2. ~conn[c].reduced
      BY <2>0, <2>3 DEF Handshaken, DiscountInv
    <3> QED
      BY <3>1, <3>2, QuietDiscountStep DEF Commanded, Accepted
  <2>4. ASSUME NEW c \in Conns, Close(c), dbCommand' = dbCommand, dbPower' = dbPower
        PROVE  DiscountsInv'
    <3>1. /\ \A k \in Conns \ {c} : conn'[k] = conn[k]
          /\ conn'[c].stage = "closed" /\ ~conn'[c].reduced
      BY <2>0, <2>4 DEF Close, TypeOK, Closed
    <3> QED
      BY <2>4, <3>1, QuietDiscountStep DEF Commanded, Accepted
  <2>5. ASSUME NEW c \in Conns,
               HandshakeRefused(c) \/ UnexpectedMessage(c) \/ IoError(c)
        PROVE  DiscountsInv'
    BY <2>4, <2>5 DEF HandshakeRefused, UnexpectedMessage, IoError
  <2>6. ASSUME NEW c \in Conns, NEW n, ReadConsumptionReport(c, n),
               dbCommand' = dbCommand, dbPower' = dbPower
        PROVE  DiscountsInv'
    BY <2>0, <2>6, ReadFacts, QuietDiscountStep DEF Commanded, Accepted
  <2>7. ASSUME NEW c \in Conns, RegisterAckWritten(c) \/ TariffWritten(c)
        PROVE  DiscountsInv'
    BY <2>4, <2>6, <2>7 DEF RegisterAckWritten, TariffWritten
  <2>8. ASSUME NEW c \in Conns, NEW u \in Devices, NEW t \in RegisteredTypes,
               Register(c, u, t)
        PROVE  DiscountsInv'
    <3>1. /\ \A k \in Conns \ {c} : conn'[k] = conn[k]
          /\ conn'[c].stage = "writeRegisterAck" /\ conn'[c].reduced = conn[c].reduced
          /\ dbCommand' = dbCommand /\ dbPower' = dbPower
      BY <2>0, <2>8 DEF Register, TypeOK, Connections
    <3>2. ~conn[c].reduced
      BY <2>0, <2>8 DEF Register, DiscountInv
    <3> QED
      BY <3>1, <3>2, QuietDiscountStep DEF Commanded, Accepted
  <2>9. ASSUME NEW c \in Conns, NEW u \in Devices, NEW p \in Powers,
               ReportReceived(c, u, p)
        PROVE  DiscountsInv'
    <3>1. /\ StoreMeasurement(u, p) /\ dbCommand' = dbCommand
          /\ Serving(c) /\ u = conn[c].device
      BY <2>9, ReporterIsServed DEF ReportReceived
    <3>2. /\ \A k \in Conns \ {c} : conn'[k] = conn[k]
          /\ conn'[c].stage \in {"writeReportAck", "syncing"}
          /\ conn'[c].reduced = conn[c].reduced
      BY <2>0, <2>9 DEF ReportReceived, TypeOK, Connections
    <3>3. ~conn[c].reduced
      BY <2>0, <2>9 DEF ReportReceived, DiscountInv
    <3>4. DiscountInv(c)'
      BY <3>2, <3>3 DEF DiscountInv, Commanded, Accepted
    <3> QED
      BY <2>0, <3>1, <3>2, <3>4, StoreFacts, DiscountStep
  <2>10. ASSUME NEW c \in Conns, NEW u \in Devices, NEW p \in Powers,
                ReducedReportReceived(c, u, p)
         PROVE  DiscountsInv'
    <3>1. /\ StoreMeasurement(u, p) /\ dbCommand' = dbCommand
          /\ Serving(c) /\ u = conn[c].device
      BY <2>10, ReporterIsServed DEF ReducedReportReceived
    <3>2. /\ \A k \in Conns \ {c} : conn'[k] = conn[k]
          /\ conn'[c].stage \in {"writeReducedAck", "syncingReduced"}
          /\ conn'[c].device = conn[c].device
          /\ conn'[c].band = conn[c].band
          /\ conn'[c].reduced = ProvesReduction(c, u, p)
      BY <2>0, <2>10 DEF ReducedReportReceived, TypeOK, Connections
    <3>3. conn[c].band = "high" /\ dbCommand[conn[c].device] = "ACCEPTED"
      BY <2>0, <2>10 DEF ReducedReportReceived, DiscountInv, Accepted
    <3>4. conn'[c].reduced => dbPower'[u] \in 1 .. TargetPower
      <4>1. conn'[c].reduced => p <= TargetPower
        BY <3>2, Zenon DEF ProvesReduction
      <4>2. dbPower'[u] = p
        BY <2>0, <3>1, StoreFacts
      <4>3. p \in Nat /\ p # 0
        BY PowersAssumption
      <4> QED
        BY <4>1, <4>2, <4>3 DEF TargetPower
    <3>5. DiscountInv(c)'
      BY <3>1, <3>2, <3>3, <3>4 DEF DiscountInv, Commanded, Accepted
    <3> QED
      BY <2>0, <3>1, <3>2, <3>5, StoreFacts, DiscountStep
  <2>11. ASSUME NEW c \in Conns, ReportAckWritten(c) PROVE DiscountsInv'
    <3>1. dbCommand' = dbCommand /\ dbPower' = dbPower /\ conn[c].stage = "writeReportAck"
      BY <2>11 DEF ReportAckWritten
    <3>2. CASE MoreReports(c)
      BY <2>6, <2>11, <3>1, <3>2 DEF ReportAckWritten
    <3>3. CASE ~MoreReports(c) /\ conn[c].band # "high"
      BY <2>11, <3>1, <3>3, PlainTariffStep DEF ReportAckWritten
    <3>4. CASE ~MoreReports(c) /\ conn[c].band = "high"
      <4>1. /\ \A k \in Conns \ {c} : conn'[k] = conn[k]
            /\ conn'[c].stage = "writeCommand" /\ conn'[c].band = "high"
            /\ conn'[c].reduced = conn[c].reduced
        BY <2>0, <2>11, <3>4 DEF ReportAckWritten, TypeOK, Connections
      <4>2. DiscountInv(c)'
        BY <2>0, <3>1, <4>1 DEF DiscountInv, Accepted
      <4> QED
        BY <3>1, <4>1, <4>2, DiscountStep
    <3> QED
      BY <3>2, <3>3, <3>4
  <2>12. ASSUME NEW c \in Conns, CommandRejected(c) PROVE DiscountsInv'
    <3>1. /\ Serving(c) /\ conn[c].uri = conn[c].device
          /\ conn[c].device \in Devices
      BY <2>0, <2>12, WayIsServed DEF CommandRejected, PriceInv, Unregistered
    <3>2. /\ \A d \in Devices \ {conn[c].device} : dbCommand'[d] = dbCommand[d]
          /\ dbPower' = dbPower /\ SendTariff(c, FALSE)
      BY <2>0, <2>12, <3>1 DEF CommandRejected, InsertCommand, Inserted, Reliable, TypeOK
    <3> QED
      BY <3>1, <3>2, PlainTariffStep
  <2>13. ASSUME NEW c \in Conns, CommandAccepted(c) PROVE DiscountsInv'
    <3>1. /\ Serving(c) /\ conn[c].uri = conn[c].device
          /\ conn[c].device \in Devices
      BY <2>0, <2>13, WayIsServed DEF CommandAccepted, PriceInv, Unregistered
    <3>2. /\ dbCommand'[conn[c].device] = "ACCEPTED"
          /\ \A d \in Devices \ {conn[c].device} : dbCommand'[d] = dbCommand[d]
          /\ dbPower' = dbPower
      BY <2>0, <2>13, <3>1 DEF CommandAccepted, InsertCommand, Inserted, Reliable, TypeOK
    <3>3. /\ \A k \in Conns \ {c} : conn'[k] = conn[k]
          /\ conn'[c].stage = "awaitReducedReport" /\ conn'[c].device = conn[c].device
          /\ conn'[c].band = conn[c].band /\ conn'[c].reduced = conn[c].reduced
      BY <2>0, <2>13, MoveFacts, MoveKeepsRest DEF CommandAccepted
    <3>4. conn[c].band = "high" /\ ~conn[c].reduced
      BY <2>0, <2>13 DEF CommandAccepted, DiscountInv, Commanded
    <3>5. DiscountInv(c)'
      BY <3>2, <3>3, <3>4 DEF DiscountInv
    <3> QED
      BY <3>1, <3>2, <3>3, <3>5, DiscountStep
  <2>14. ASSUME NEW c \in Conns, ReducedAckWritten(c) PROVE DiscountsInv'
    <3>1. /\ conn[c].stage = "writeReducedAck" /\ conn[c].reduced \in BOOLEAN
          /\ SendTariff(c, conn[c].reduced)
          /\ dbCommand' = dbCommand /\ dbPower' = dbPower
      BY <2>0, <2>14 DEF ReducedAckWritten, TypeOK, Connections
    <3>2. CASE ReadConsumptionReport(c, 0)
      BY <2>6, <3>1, <3>2
    <3>3. CASE ~ReadConsumptionReport(c, 0)
      BY <2>0, <3>1, <3>3, SendTariffFacts, QuietDiscountStep DEF Accepted
    <3> QED
      BY <3>2, <3>3
  <2>15. ASSUME Killed \/ \E c \in Conns : ReportSyncThrows(c) PROVE DiscountsInv'
    <3>1. \A c \in Conns : conn'[c].stage = "closed" /\ ~conn'[c].reduced
      BY <2>15 DEF Killed, ReportSyncThrows, Closed
    <3> QED
      BY <3>1 DEF DiscountsInv, DiscountInv, Commanded, Accepted
  <2>16. ASSUME \/ CentralLost \/ UNCHANGED vars \/ \E l \in Links : Start(l)
                \/ \E c \in Conns : SampleReceived(c)
         PROVE  DiscountsInv'
    BY <2>16 DEF CentralLost, SampleReceived, Start, vars, DiscountsInv, DiscountInv
  <2> QED
    BY <2>1, <2>2, <2>3, <2>5, <2>7, <2>8, <2>9, <2>10, <2>11, <2>12, <2>13, <2>14,
       <2>15, <2>16 DEF Next
<1> QED
  BY <1>1, <1>2, PricesInvariant, PTL DEF Spec

\* Nobody gets the discount for an acceptance alone, for the acceptance or the
\* measurement of another meter, or for those of an earlier connection.
THEOREM DiscountsAreEarned ==
    ASSUME OwnUris, Reliable
    PROVE  Spec => []DiscountEarned
<1>1. SessionsInv /\ PricesInv /\ DiscountsInv => DiscountEarned
  <2> SUFFICES ASSUME SessionsInv, PricesInv, DiscountsInv, NEW c \in Conns,
                      conn[c].stage = "writeTariff", conn[c].reduced
               PROVE  /\ conn[c].band = "high"
                      /\ dbCommand[conn[c].uri] = "ACCEPTED"
                      /\ dbPower[conn[c].uri] \in 1 .. TargetPower
    BY DEF DiscountEarned
  <2>1. Serving(c)
    BY WayIsServed DEF Unregistered
  <2>2. conn[c].uri = conn[c].device
    BY <2>1 DEF PricesInv, PriceInv
  <2> QED
    BY <2>2 DEF DiscountsInv, DiscountInv
<1> QED
  BY <1>1, DiscountsInvariant, PTL

-----------------------------------------------------------------------------
(* What outdates the load a reduce command is decided on.                  *)

\* A step that leaves the load alone and brings no report to its acknowledgement but
\* one that is on the way there outdates nothing.
LEMMA SameLoadStep ==
    ASSUME latestPower' = latestPower,
           \A k \in Conns : conn'[k].stage \in {"syncing", "writeReportAck"} =>
               /\ conn[k].stage \in {"syncing", "writeReportAck"}
               /\ conn'[k].band = conn[k].band
    PROVE  \A c \in Conns : Outdated(c)' => Outdated(c)
BY DEF Outdated, Deciding

\* Every step that does not take a measurement off a socket outdates nothing.
LEMMA OnlyMeasurementsOutdate ==
    ASSUME SessionsInv, [Next]_vars,
           ~ \E c \in Conns, u \in Devices, p \in Powers :
                ReportReceived(c, u, p) \/ ReducedReportReceived(c, u, p)
    PROVE  \A c \in Conns : Outdated(c)' => Outdated(c)
<1> DEFINE Kept == \A k \in Conns : Outdated(k)' => Outdated(k)
<1> HIDE DEF Kept
<1>k. (\A k \in Conns : Outdated(k)' => Outdated(k)) <=> Kept
  BY DEF Kept
<1>0. TypeOK
  BY DEF SessionsInv
<1> USE DEF process, database
<1>1. ASSUME NEW c \in Conns,
             \/ Accept(c) \/ ReportSynced(c) \/ CommandWritten(c) \/ CommandAccepted(c)
             \/ ReducedReportSynced(c)
      PROVE  Kept
  <2>1. /\ \E s \in Stages \ {"syncing"} :
             Move(c, s) /\ (s = "writeReportAck" => conn[c].stage = "syncing")
        /\ latestPower' = latestPower
    BY <1>1 DEF Accept, ReportSynced, CommandWritten, CommandAccepted,
       ReducedReportSynced, Stages, Receiving, Writing
  <2> QED
    BY <1>0, <1>k, <2>1, MoveFacts, MoveKeepsRest, SameLoadStep
<1>2. ASSUME NEW c \in Conns, Close(c), latestPower' = latestPower PROVE Kept
  <2>1. /\ \A k \in Conns \ {c} : conn'[k] = conn[k]
        /\ conn'[c].stage = "closed"
    BY <1>0, <1>2 DEF Close, TypeOK, Closed
  <2> QED
    BY <1>2, <1>k, <2>1, SameLoadStep
<1>3. ASSUME NEW c \in Conns, NEW n, ReadConsumptionReport(c, n), latestPower' = latestPower
      PROVE  Kept
  BY <1>0, <1>3, <1>k, ReadFacts, SameLoadStep
<1>4. ASSUME NEW c \in Conns,
             \/ HandshakeRefused(c) \/ UnexpectedMessage(c) \/ IoError(c)
             \/ RegisterAckWritten(c) \/ TariffWritten(c)
      PROVE  Kept
  BY <1>2, <1>3, <1>4 DEF HandshakeRefused, UnexpectedMessage, IoError,
     RegisterAckWritten, TariffWritten
<1>5. ASSUME NEW c \in Conns, NEW d \in Devices, Handshaken(c, d) PROVE Kept
  <2>1. /\ \A k \in Conns \ {c} : conn'[k] = conn[k]
        /\ conn'[c].stage = "awaitRegister"
    BY <1>0, <1>5 DEF Handshaken, TypeOK, Connections
  <2> QED
    BY <1>5, <1>k, <2>1, SameLoadStep DEF Handshaken
<1>6. ASSUME NEW c \in Conns, NEW u \in Devices, NEW t \in RegisteredTypes, Register(c, u, t)
      PROVE  Kept
  <2>1. /\ \A k \in Conns \ {c} : conn'[k] = conn[k]
        /\ conn'[c].stage = "writeRegisterAck"
    BY <1>0, <1>6 DEF Register, TypeOK, Connections
  <2> QED
    BY <1>6, <1>k, <2>1, SameLoadStep DEF Register
<1>7. ASSUME NEW c \in Conns, NEW reduced \in BOOLEAN, SendTariff(c, reduced),
             latestPower' = latestPower
      PROVE  Kept
  BY <1>0, <1>3, <1>7, <1>k, SendTariffFacts, SameLoadStep
<1>8. ASSUME NEW c \in Conns, ReportAckWritten(c) PROVE Kept
  <2>1. latestPower' = latestPower
    BY <1>8 DEF ReportAckWritten
  <2>2. CASE conn' = [conn EXCEPT ![c].stage = "writeCommand", ![c].count = 0]
    <3>1. /\ \A k \in Conns \ {c} : conn'[k] = conn[k]
          /\ conn'[c].stage = "writeCommand"
      BY <1>0, <2>2 DEF TypeOK, Connections
    <3> QED
      BY <1>k, <2>1, <3>1, SameLoadStep
  <2>3. CASE ~(conn' = [conn EXCEPT ![c].stage = "writeCommand", ![c].count = 0])
    BY <1>3, <1>7, <1>8, <2>1, <2>3 DEF ReportAckWritten
  <2> QED
    BY <2>2, <2>3
<1>9. ASSUME NEW c \in Conns, CommandRejected(c) \/ ReducedAckWritten(c) PROVE Kept
  <2>1. latestPower' = latestPower /\ \E reduced \in BOOLEAN : SendTariff(c, reduced)
    BY <1>0, <1>9 DEF CommandRejected, ReducedAckWritten, TypeOK, Connections
  <2> QED
    BY <1>7, <2>1
<1>10. ASSUME Killed \/ \E c \in Conns : ReportSyncThrows(c) PROVE Kept
  BY <1>10, <1>k, SameLoadStep DEF Killed, ReportSyncThrows, Closed
<1>11. ASSUME NEW l \in Links, Start(l) PROVE Kept
  <2>1. \A c \in Conns : conn'[c].stage = "closed"
    BY <1>11 DEF Start, SessionsInv, SessionInv, Closed
  <2> QED
    BY <1>k, <2>1 DEF Outdated, Deciding
<1>12. CASE CentralLost \/ UNCHANGED vars \/ \E c \in Conns : SampleReceived(c)
  BY <1>12, <1>k, SameLoadStep DEF CentralLost, SampleReceived, vars
<1> QED
  BY <1>1, <1>4, <1>5, <1>6, <1>8, <1>9, <1>10, <1>11, <1>12, <1>k DEF Next

\* A band captured for the reduce command of server_async.cpp:692 is outdated only by
\* the measurement of another meter, taken by another connection.
THEOREM StaleLoadIsAnothersDoing == Spec => OutdatedByAnotherMeter
<1> DEFINE A == \A c \in Conns : ~Outdated(c) /\ Outdated(c)' =>
                  \E k \in Conns : Measures(k) /\ conn[k].device # conn[c].device
<1>1. SessionsInv /\ [Next]_vars => A
  <2> SUFFICES ASSUME SessionsInv, [Next]_vars, NEW c \in Conns,
                      ~Outdated(c), Outdated(c)'
               PROVE  \E k \in Conns : Measures(k) /\ conn[k].device # conn[c].device
    OBVIOUS
  <2>0. TypeOK
    BY DEF SessionsInv
  <2>1. PICK k \in Conns, u \in Devices, p \in Powers :
          ReportReceived(k, u, p) \/ ReducedReportReceived(k, u, p)
    BY OnlyMeasurementsOutdate
  <2>2. /\ \A j \in Conns \ {k} : conn'[j] = conn[j]
        /\ Measures(k)
    BY <2>0, <2>1 DEF ReportReceived, ReducedReportReceived, Measures, TypeOK, Connections
  <2>3. \/ conn'[k].band = Band(Region, TotalLoad(latestPower'))
        \/ conn'[k].stage \in {"writeReducedAck", "syncingReduced"}
    BY <2>0, <2>1 DEF ReportReceived, ReducedReportReceived, BandNow, TypeOK, Connections
  <2>4. k # c
    BY <2>3 DEF Outdated, Deciding
  <2>5. /\ conn[c].stage \notin Unregistered
        /\ conn[k].stage \notin Unregistered
    BY <2>2, <2>4 DEF Outdated, Deciding, Measures, Unregistered
  <2>6. Serving(c) /\ Serving(k)
    BY <2>5, WayIsServed
  <2> QED
    BY <2>2, <2>4, <2>6 DEF SessionsInv, OneSessionPerMeter
<1>2. Spec => [][A]_vars
  BY <1>1, SessionsInvariant, PTL DEF Spec
<1> QED
  BY <1>2 DEF OutdatedByAnotherMeter
=============================================================================
