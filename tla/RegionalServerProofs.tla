------------------------- MODULE RegionalServerProofs -------------------------
(***************************************************************************)
(* Proofs about one regional server, for every set of meters, connections, *)
(* powers and instants, both regions, and any number of reports per cycle. *)
(***************************************************************************)
EXTENDS RegionalServer, TLAPS

-----------------------------------------------------------------------------
(* What calculateDynamicTariff returns, for every region, user type and    *)
(* instant.                                                                *)

\* The base price of both copies is one of the four of the price list.
LEMMA BasePriceListed ==
    ASSUME NEW u \in UserTypes, NEW now \in Instants
    PROVE  BasePrice1(u, now) \in {10, 14, 20, 24} /\ BasePrice2(u, now) \in {10, 14, 20, 24}
BY DEF BasePrice1, BasePrice2, HOUSEHOLD, INDUSTRY

\* Every tariff lies between 0.10 and 0.29 KM/kWh: none is zero or negative, so
\* "no entry" (NoPrice) is never mistaken for a price.
THEOREM TariffInRange ==
    ASSUME NEW r \in Regions, NEW u \in UserTypes, NEW now \in Instants,
           NEW band \in Bands, NEW reduced \in BOOLEAN
    PROVE  DynamicTariff(r, u, now, band, reduced) \in Prices
<1>1. \A b \in {10, 14, 20, 24}, p \in {100, 110, 120} : RoundedPrice(b, p, 100) \in Prices
  BY DEF RoundedPrice, Prices
<1>2. \A b \in {10, 14, 20, 24} : RoundedPrice(b, 120, 90) \in Prices
  BY DEF RoundedPrice, Prices
<1>3. CASE r = 1
  BY <1>1, <1>2, <1>3, BasePriceListed DEF DynamicTariff, LoadPercent1, ReductionPercent1
<1>4. CASE r = 2
  BY <1>1, <1>2, <1>4, BasePriceListed DEF DynamicTariff, LoadPercent2, ReductionPercent2
<1> QED
  BY <1>3, <1>4 DEF Regions

\* What RoundedPrice makes of the four base prices under each band.
LEMMA RoundingKeepsOrder ==
    \A b \in {10, 14, 20, 24} :
        /\ RoundedPrice(b, 120, 90) < RoundedPrice(b, 120, 100)
        /\ RoundedPrice(b, 120, 90) >= RoundedPrice(b, 110, 100)
        /\ RoundedPrice(b, 100, 100) < RoundedPrice(b, 110, 100)
        /\ RoundedPrice(b, 110, 100) < RoundedPrice(b, 120, 100)
BY DEF RoundedPrice

LEMMA CheckedTypesAreTypes == CheckedTypes \subseteq UserTypes
BY DEF CheckedTypes, UserTypes, HOUSEHOLD, INDUSTRY

\* Under high load a proved reduction lowers the price in both regions, and never
\* below the price of raised load: rounding does not eat the discount.
THEOREM ReductionLowersPrice == ReductionPaysOff
<1> SUFFICES ASSUME NEW now \in Instants, NEW r \in Regions, NEW u \in CheckedTypes
             PROVE  /\ DynamicTariff(r, u, now, "high", TRUE)
                          < DynamicTariff(r, u, now, "high", FALSE)
                    /\ DynamicTariff(r, u, now, "high", TRUE)
                          >= DynamicTariff(r, u, now, "raised", TRUE)
  BY DEF ReductionPaysOff
<1>1. u \in UserTypes
  BY CheckedTypesAreTypes
<1>2. CASE r = 1
  BY <1>1, <1>2, BasePriceListed, RoundingKeepsOrder
     DEF DynamicTariff, LoadPercent1, ReductionPercent1
<1>3. CASE r = 2
  BY <1>1, <1>3, BasePriceListed, RoundingKeepsOrder
     DEF DynamicTariff, LoadPercent2, ReductionPercent2
<1> QED
  BY <1>2, <1>3 DEF Regions

\* The price rises strictly with the load, so that a change of band is always a
\* change of price and is announced.
THEOREM PriceRisesWithLoad == PriceFollowsLoad
<1> SUFFICES ASSUME NEW now \in Instants, NEW r \in Regions, NEW u \in CheckedTypes
             PROVE  /\ DynamicTariff(r, u, now, "normal", FALSE)
                          < DynamicTariff(r, u, now, "raised", FALSE)
                    /\ DynamicTariff(r, u, now, "raised", FALSE)
                          < DynamicTariff(r, u, now, "high", FALSE)
  BY DEF PriceFollowsLoad
<1>1. u \in UserTypes
  BY CheckedTypesAreTypes
<1>2. CASE r = 1
  BY <1>1, <1>2, BasePriceListed, RoundingKeepsOrder
     DEF DynamicTariff, LoadPercent1, ReductionPercent1
<1>3. CASE r = 2
  BY <1>1, <1>3, BasePriceListed, RoundingKeepsOrder
     DEF DynamicTariff, LoadPercent2, ReductionPercent2
<1> QED
  BY <1>2, <1>3 DEF Regions

\* The copy of region 2 finds the hours of the lower tariff where region 1 does.
LEMMA SameHours ==
    ASSUME NEW u \in {HOUSEHOLD, INDUSTRY}, NEW now \in Instants
    PROVE  LowerTariff1(u, now) <=> LowerTariff2(u, now)
<1>1. now.day \in 0 .. 6 /\ now.hour \in 0 .. 23 /\ now.dst \in BOOLEAN
  BY DEF Instants
<1>2. HouseholdHours1(now) <=> HouseholdHours2(now)
  BY <1>1, SMT DEF HouseholdHours1, HouseholdHours2
<1>3. IndustryHours1(now) <=> IndustryHours2(now)
  BY <1>1, SMT DEF IndustryHours1, IndustryHours2
<1> QED
  BY <1>2, <1>3 DEF LowerTariff1, LowerTariff2, HOUSEHOLD, INDUSTRY

\* The two programs, each with its own copy of the function, charge households and
\* industries alike: at every instant, every load and with or without the discount.
THEOREM RegionsHaveOneTariff ==
    ASSUME NEW now \in Instants, NEW u \in {HOUSEHOLD, INDUSTRY}, NEW load \in Nat,
           NEW accepted \in BOOLEAN
    PROVE  DynamicTariff(1, u, now, Band(1, load), accepted)
             = DynamicTariff(2, u, now, Band(2, load), accepted)
<1>1. BasePrice1(u, now) = BasePrice2(u, now)
  BY SameHours DEF BasePrice1, BasePrice2, HOUSEHOLD, INDUSTRY
<1>2. Band1(load) = Band2(load) /\ Band1(load) \in Bands
  BY DEF Band1, Band2, Bands
<1>3. LoadPercent1(Band1(load)) = LoadPercent2(Band2(load))
  BY <1>2 DEF LoadPercent1, LoadPercent2, Bands
<1>4. ReductionPercent1(Band1(load), accepted) = ReductionPercent2(Band2(load), accepted)
  BY <1>2 DEF ReductionPercent1, ReductionPercent2
<1> QED
  BY <1>1, <1>3, <1>4 DEF DynamicTariff, Band

\* On a working day the lower tariff is in force at exactly the hours of the comments,
\* in both regions, for both user types and with either time: the night is not cut at
\* midnight.
THEOREM CheapHoursAreThoseOfTheComments == CheapHoursOfADay
<1> SUFFICES ASSUME NEW r \in Regions, NEW now \in Instants, now.day \in 1 .. 5
             PROVE  /\ LowHours(r, INDUSTRY, now) = IF now.dst THEN {23} \cup 0 .. 7
                                                    ELSE {22, 23} \cup 0 .. 6
                    /\ LowHours(r, HOUSEHOLD, now) \ LowHours(r, INDUSTRY, now)
                          = IF now.dst THEN 14 .. 16 ELSE 13 .. 15
  BY DEF CheapHoursOfADay
<1> DEFINE At(h) == [now EXCEPT !.hour = h]
<1>1. ASSUME NEW h \in 0 .. 23
      PROVE  At(h) \in Instants /\ At(h).hour = h /\ At(h).dst = now.dst /\ At(h).day = now.day
  BY DEF Instants
<1>2. LowHours(r, INDUSTRY, now) = {h \in 0 .. 23 : LowerTariff1(INDUSTRY, At(h))}
  BY <1>1, SameHours DEF LowHours, LowerTariff
<1>3. LowHours(r, HOUSEHOLD, now) = {h \in 0 .. 23 : LowerTariff1(HOUSEHOLD, At(h))}
  BY <1>1, SameHours DEF LowHours, LowerTariff
<1> HIDE DEF At
<1>4. ASSUME NEW h \in 0 .. 23
      PROVE  LowerTariff1(INDUSTRY, At(h))
               <=> IF now.dst THEN h = 23 \/ h <= 7 ELSE h \in {22, 23} \/ h <= 6
  BY <1>1 DEF LowerTariff1, IndustryHours1, HOUSEHOLD, INDUSTRY
<1>5. ASSUME NEW h \in 0 .. 23
      PROVE  LowerTariff1(HOUSEHOLD, At(h))
               <=> IF now.dst THEN h \in 14 .. 16 \/ h = 23 \/ h <= 7
                              ELSE h \in 13 .. 15 \/ h \in {22, 23} \/ h <= 6
  BY <1>1 DEF LowerTariff1, HouseholdHours1, HOUSEHOLD, INDUSTRY
<1>6. CASE now.dst
  BY <1>2, <1>3, <1>4, <1>5, <1>6
<1>7. CASE ~now.dst
  BY <1>2, <1>3, <1>4, <1>5, <1>7
<1> QED
  BY <1>6, <1>7

-----------------------------------------------------------------------------
(* Type correctness.                                                       *)

LEMMA ClosedIsConnection == Closed \in Connections
BY CycleAssumption DEF Closed, Connections, Stages, Bands, UserTypes

LEMMA MoveKeepsType ==
    ASSUME TypeOK, NEW c \in Conns, NEW s \in Stages, Move(c, s)
    PROVE  conn' \in [Conns -> Connections]
<1> DEFINE r == [conn[c] EXCEPT !.stage = s]
<1>1. conn[c] \in Connections
  BY DEF TypeOK
<1>2. r \in Connections
  BY <1>1 DEF Connections
<1>3. conn' = [conn EXCEPT ![c] = r]
  BY DEF Move
<1> QED
  BY <1>2, <1>3 DEF TypeOK

LEMMA CloseKeepsType ==
    ASSUME TypeOK, NEW c \in Conns, Close(c)
    PROVE  /\ conn' \in [Conns -> Connections]
           /\ told' \in [Conns -> Prices \cup {NoPrice}]
BY ClosedIsConnection DEF TypeOK, Close

LEMMA ReadKeepsType ==
    ASSUME TypeOK, NEW c \in Conns, NEW n \in 0 .. ReportsPerCycle - 1,
           ReadConsumptionReport(c, n)
    PROVE  conn' \in [Conns -> Connections]
<1> DEFINE r == [Closed EXCEPT !.stage = "awaitReport", !.count = n,
                               !.device = conn[c].device,
                               !.userType = conn[c].userType, !.registered = TRUE]
<1>1. conn[c] \in Connections
  BY DEF TypeOK
<1>2. r \in Connections
  BY <1>1, ClosedIsConnection DEF Connections, Stages, Receiving
<1>3. conn' = [conn EXCEPT ![c] = r]
  BY DEF ReadConsumptionReport
<1> QED
  BY <1>2, <1>3 DEF TypeOK

LEMMA InsertedIsOneOfBoth ==
    ASSUME NEW before, NEW after, NEW x \in Inserted(before, after)
    PROVE  x = before \/ x = after
BY DEF Inserted

LEMMA StoreKeepsType ==
    ASSUME TypeOK, NEW u \in Devices, NEW p \in Powers, StoreMeasurement(u, p)
    PROVE  /\ latestPower' \in [Devices -> Powers \cup {0}]
           /\ dbPower' \in [Devices -> Powers \cup {0}]
BY InsertedIsOneOfBoth DEF TypeOK, StoreMeasurement, InsertConsumption

LEMMA TariffOfConnection ==
    ASSUME TypeOK, NEW c \in Conns, NEW now \in Clock, NEW reduced \in BOOLEAN
    PROVE  DynamicTariff(Region, conn[c].userType, now, conn[c].band, reduced) \in Prices
<1>1. conn[c] \in Connections
  BY DEF TypeOK
<1>2. conn[c].userType \in UserTypes /\ conn[c].band \in Bands
  BY <1>1 DEF Connections
<1> QED
  BY <1>2, TariffInRange, RegionAssumption, ClockAssumption

LEMMA SendTariffKeepsType ==
    ASSUME TypeOK, NEW c \in Conns, NEW reduced \in BOOLEAN, SendTariff(c, reduced)
    PROVE  /\ conn' \in [Conns -> Connections]
           /\ lastTariff' \in [Devices -> Prices \cup {NoPrice}]
           /\ dbTariff' \in Prices \cup {NoPrice}
<1> DEFINE price(now) ==
      DynamicTariff(Region, conn[c].userType, now, conn[c].band, reduced)
<1>1. PICK now \in Clock :
        IF TariffUnchanged(conn[c].uri, price(now))
        THEN ReadConsumptionReport(c, 0) /\ UNCHANGED <<lastTariff, dbTariff>>
        ELSE /\ conn' = [conn EXCEPT ![c].stage = "writeTariff", ![c].count = 0,
                                     ![c].reduced = reduced, ![c].price = price(now)]
             /\ InsertTariff(price(now))
             /\ lastTariff' = IF Region = 1 THEN Remember(conn[c].uri, price(now))
                              ELSE lastTariff
  BY DEF SendTariff
<1>2. price(now) \in Prices
  BY TariffOfConnection
<1> HIDE DEF price
<1>3. CASE TariffUnchanged(conn[c].uri, price(now))
  <2>1. 0 \in 0 .. ReportsPerCycle - 1
    BY CycleAssumption
  <2> QED
    BY <1>1, <1>3, <2>1, ReadKeepsType DEF TypeOK
<1>4. CASE ~TariffUnchanged(conn[c].uri, price(now))
  <2> DEFINE r == [conn[c] EXCEPT !.stage = "writeTariff", !.count = 0,
                                  !.reduced = reduced, !.price = price(now)]
  <2>1. conn[c] \in Connections /\ 0 \in 0 .. ReportsPerCycle - 1
    BY CycleAssumption DEF TypeOK
  <2>2. r \in Connections
    BY <1>2, <2>1 DEF Connections, Stages, Writing
  <2>3. conn' = [conn EXCEPT ![c] = r]
    BY <1>1, <1>4
  <2>4. conn' \in [Conns -> Connections]
    BY <2>2, <2>3 DEF TypeOK
  <2>5. lastTariff' \in [Devices -> Prices \cup {NoPrice}]
    BY <1>1, <1>2, <1>4 DEF TypeOK, Remember
  <2>6. dbTariff' \in Prices \cup {NoPrice}
    BY <1>1, <1>2, <1>4, InsertedIsOneOfBoth DEF TypeOK, InsertTariff
  <2> QED
    BY <2>4, <2>5, <2>6
<1> QED
  BY <1>3, <1>4

\* What ReadConsumptionReport and SendTariff do to the connection they are called for,
\* and that they leave the others alone.
LEMMA ReadFacts ==
    ASSUME TypeOK, NEW c \in Conns, NEW n, ReadConsumptionReport(c, n)
    PROVE  /\ \A k \in Conns \ {c} : conn'[k] = conn[k]
           /\ conn'[c].stage = "awaitReport" /\ conn'[c].count = n
           /\ conn'[c].registered /\ conn'[c].device = conn[c].device
           /\ ~conn'[c].reduced
BY DEF ReadConsumptionReport, TypeOK, Closed

LEMMA SendTariffFacts ==
    ASSUME TypeOK, NEW c \in Conns, NEW reduced \in BOOLEAN, SendTariff(c, reduced)
    PROVE  \/ ReadConsumptionReport(c, 0)
           \/ /\ \A k \in Conns \ {c} : conn'[k] = conn[k]
              /\ conn'[c].stage = "writeTariff" /\ conn'[c].count = 0
              /\ conn'[c].registered = conn[c].registered
              /\ conn'[c].device = conn[c].device
              /\ conn'[c].uri = conn[c].uri
              /\ conn'[c].band = conn[c].band
              /\ conn'[c].reduced = reduced
              /\ conn'[c].price \in Prices
<1> DEFINE Sent(price) == conn' = [conn EXCEPT ![c].stage = "writeTariff", ![c].count = 0,
                                     ![c].reduced = reduced, ![c].price = price]
<1>1. ReadConsumptionReport(c, 0) \/ \E price \in Prices : Sent(price)
  BY TariffOfConnection DEF SendTariff
<1>2. conn[c] \in Connections
  BY DEF TypeOK
<1>3. ASSUME NEW price \in Prices, Sent(price), ~ReadConsumptionReport(c, 0)
      PROVE  /\ \A k \in Conns \ {c} : conn'[k] = conn[k]
             /\ conn'[c].stage = "writeTariff" /\ conn'[c].count = 0
             /\ conn'[c].registered = conn[c].registered
             /\ conn'[c].device = conn[c].device
             /\ conn'[c].uri = conn[c].uri
             /\ conn'[c].band = conn[c].band
             /\ conn'[c].reduced = reduced
             /\ conn'[c].price = price
  BY <1>2, <1>3 DEF TypeOK, Connections
<1> QED
  BY <1>1, <1>3

LEMMA TypeStep ==
    ASSUME TypeOK, [Next]_vars
    PROVE  TypeOK'
<1> USE DEF process, database
<1>1. ASSUME NEW c \in Conns, Accept(c) PROVE TypeOK'
  BY <1>1, MoveKeepsType DEF Accept, TypeOK, Stages
<1>2. ASSUME NEW c \in Conns, NEW d \in Devices, Handshaken(c, d) PROVE TypeOK'
  <2> DEFINE r == [conn[c] EXCEPT !.stage = "awaitRegister", !.device = d]
  <2>1. conn[c] \in Connections
    BY DEF TypeOK
  <2>2. r \in Connections
    BY <2>1 DEF Connections, Stages, Receiving
  <2>3. conn' = [conn EXCEPT ![c] = r]
    BY <1>2 DEF Handshaken
  <2> QED
    BY <1>2, <2>2, <2>3 DEF Handshaken, TypeOK
<1>3. ASSUME NEW c \in Conns, HandshakeRefused(c) PROVE TypeOK'
  BY <1>3, CloseKeepsType DEF HandshakeRefused, TypeOK
<1>4. ASSUME NEW c \in Conns, NEW u \in Devices, NEW t \in RegisteredTypes,
             Register(c, u, t)
      PROVE  TypeOK'
  <2> DEFINE ok == Registrable(c, u)
             r  == [conn[c] EXCEPT !.stage = "writeRegisterAck", !.uri = u,
                                   !.userType = t, !.registered = ok]
  <2>1. conn[c] \in Connections /\ ok \in BOOLEAN
    BY DEF TypeOK, Registrable
  <2>2. r \in Connections
    BY <2>1, TypesAssumption DEF Connections, Stages, Writing
  <2>3. conn' = [conn EXCEPT ![c] = r]
    BY <1>4 DEF Register
  <2>4. registry' \subseteq Devices /\ dbDevices' \subseteq Devices
    BY <1>4, InsertedIsOneOfBoth DEF Register, TypeOK, InsertDevice
  <2> QED
    BY <1>4, <2>2, <2>3, <2>4 DEF Register, TypeOK
<1>5. ASSUME NEW c \in Conns, RegisterAckWritten(c) PROVE TypeOK'
  <2>1. 0 \in 0 .. ReportsPerCycle - 1
    BY CycleAssumption
  <2> QED
    BY <1>5, <2>1, ReadKeepsType, CloseKeepsType DEF RegisterAckWritten, TypeOK
<1>6. ASSUME NEW c \in Conns, NEW u \in Devices, NEW p \in Powers,
             ReportReceived(c, u, p)
      PROVE  TypeOK'
  <2> DEFINE r == [conn[c] EXCEPT
                     !.stage = IF link = "absent" THEN "writeReportAck" ELSE "syncing",
                     !.uri = u, !.band = BandNow]
  <2>1. conn[c] \in Connections /\ BandNow \in Bands
    BY DEF TypeOK, BandNow, Band, Band1, Band2, Bands
  <2>2. r \in Connections
    BY <2>1 DEF Connections, Stages, Writing, Blocking
  <2>3. conn' = [conn EXCEPT ![c] = r]
    BY <1>6 DEF ReportReceived
  <2> QED
    BY <1>6, <2>2, <2>3, StoreKeepsType DEF ReportReceived, TypeOK
<1>7. ASSUME NEW c \in Conns, ReportSynced(c) PROVE TypeOK'
  BY <1>7, MoveKeepsType DEF ReportSynced, TypeOK, Stages, Writing
<1>8. ASSUME NEW c \in Conns, ReportSyncThrows(c) PROVE TypeOK'
  BY <1>8, ClosedIsConnection DEF ReportSyncThrows, TypeOK
<1>9. ASSUME NEW c \in Conns, SampleReceived(c) PROVE TypeOK'
  BY <1>9 DEF SampleReceived, TypeOK, vars
<1>10. ASSUME NEW c \in Conns, ReportAckWritten(c) PROVE TypeOK'
  <2>1. CASE MoreReports(c)
    <3>1. conn[c].count + 1 \in 0 .. ReportsPerCycle - 1
      BY <2>1, CycleAssumption DEF MoreReports, TypeOK, Connections
    <3> QED
      BY <1>10, <2>1, <3>1, ReadKeepsType DEF ReportAckWritten, TypeOK
  <2>2. CASE ~MoreReports(c) /\ conn[c].band # "high"
    BY <1>10, <2>2, SendTariffKeepsType DEF ReportAckWritten, TypeOK
  <2>3. CASE ~MoreReports(c) /\ conn[c].band = "high"
    <3> DEFINE r == [conn[c] EXCEPT !.stage = "writeCommand", !.count = 0]
    <3>1. conn[c] \in Connections /\ 0 \in 0 .. ReportsPerCycle - 1
      BY CycleAssumption DEF TypeOK
    <3>2. r \in Connections
      BY <3>1 DEF Connections, Stages, Writing
    <3>3. conn' = [conn EXCEPT ![c] = r]
      BY <1>10, <2>3 DEF ReportAckWritten
    <3> QED
      BY <1>10, <2>3, <3>2, <3>3 DEF ReportAckWritten, TypeOK
  <2> QED
    BY <2>1, <2>2, <2>3
<1>11. ASSUME NEW c \in Conns, TariffWritten(c) PROVE TypeOK'
  <2>1. 0 \in 0 .. ReportsPerCycle - 1 /\ conn[c].price \in Prices \cup {NoPrice}
    BY CycleAssumption DEF TypeOK, Connections
  <2> QED
    BY <1>11, <2>1, ReadKeepsType DEF TariffWritten, TypeOK, Remember
<1>12. ASSUME NEW c \in Conns, CommandWritten(c) PROVE TypeOK'
  BY <1>12, MoveKeepsType DEF CommandWritten, TypeOK, Stages, Receiving
<1>13. ASSUME NEW c \in Conns, CommandRejected(c) PROVE TypeOK'
  <2>1. dbCommand' \in [Devices -> Statuses]
    BY <1>13, InsertedIsOneOfBoth DEF CommandRejected, TypeOK, Statuses,
       InsertCommand
  <2> QED
    BY <1>13, <2>1, SendTariffKeepsType DEF CommandRejected, TypeOK
<1>14. ASSUME NEW c \in Conns, CommandAccepted(c) PROVE TypeOK'
  <2>1. dbCommand' \in [Devices -> Statuses]
    BY <1>14, InsertedIsOneOfBoth DEF CommandAccepted, TypeOK, Statuses,
       InsertCommand
  <2> QED
    BY <1>14, <2>1, MoveKeepsType DEF CommandAccepted, TypeOK, Stages, Receiving
<1>15. ASSUME NEW c \in Conns, NEW u \in Devices, NEW p \in Powers,
              ReducedReportReceived(c, u, p)
       PROVE  TypeOK'
  <2> DEFINE r == [conn[c] EXCEPT
                     !.stage = IF link = "absent" THEN "writeReducedAck"
                               ELSE "syncingReduced",
                     !.reduced = ProvesReduction(c, u, p)]
  <2>1. conn[c] \in Connections /\ ProvesReduction(c, u, p) \in BOOLEAN
    BY DEF TypeOK, ProvesReduction
  <2>2. r \in Connections
    BY <2>1 DEF Connections, Stages, Writing, Blocking
  <2>3. conn' = [conn EXCEPT ![c] = r]
    BY <1>15 DEF ReducedReportReceived
  <2> QED
    BY <1>15, <2>2, <2>3, StoreKeepsType DEF ReducedReportReceived, TypeOK
<1>16. ASSUME NEW c \in Conns, ReducedReportSynced(c) PROVE TypeOK'
  BY <1>16, MoveKeepsType DEF ReducedReportSynced, TypeOK, Stages, Writing
<1>17. ASSUME NEW c \in Conns, ReducedAckWritten(c) PROVE TypeOK'
  <2>1. conn[c].reduced \in BOOLEAN
    BY DEF TypeOK, Connections
  <2> QED
    BY <1>17, <2>1, SendTariffKeepsType DEF ReducedAckWritten, TypeOK
<1>18. ASSUME NEW c \in Conns, UnexpectedMessage(c) PROVE TypeOK'
  BY <1>18, CloseKeepsType DEF UnexpectedMessage, TypeOK
<1>19. ASSUME NEW c \in Conns, IoError(c) PROVE TypeOK'
  BY <1>19, CloseKeepsType DEF IoError, TypeOK
<1>20. CASE CentralLost
  BY <1>20 DEF CentralLost, TypeOK, Links
<1>21. CASE Killed
  BY <1>21, ClosedIsConnection DEF Killed, TypeOK
<1>22. ASSUME NEW l \in Links, Start(l) PROVE TypeOK'
  BY <1>22 DEF Start, TypeOK
<1>23. CASE UNCHANGED vars
  BY <1>23 DEF TypeOK, vars
<1> QED
  BY <1>1, <1>2, <1>3, <1>4, <1>5, <1>6, <1>7, <1>8, <1>9, <1>10, <1>11, <1>12,
     <1>13, <1>14, <1>15, <1>16, <1>17, <1>18, <1>19, <1>20, <1>21, <1>22, <1>23
     DEF Next

\* Every variable keeps its type: the counter stays below ReportsPerCycle and every
\* remembered, stored or sent price is one calculateDynamicTariff can return.
THEOREM TypeCorrect == Spec => []TypeOK
<1>1. Init => TypeOK
  BY ClosedIsConnection DEF Init, TypeOK, Links, Statuses
<1>2. TypeOK /\ [Next]_vars => TypeOK'
  BY TypeStep
<1> QED
  BY <1>1, <1>2, PTL DEF Spec

-----------------------------------------------------------------------------
(* One session per meter.                                                  *)

\* Stages a connection passes before its meter is registered, or refused.
Unregistered == {"closed", "handshake", "awaitRegister", "writeRegisterAck"}

\* A process that does not run has no connection; a served meter is in the
\* registry and past the handshake; one that is not served was told no price.
SessionInv(c) ==
    /\ ~running => conn[c] = Closed
    /\ Serving(c) => /\ conn[c].device \in registry
                     /\ conn[c].stage \notin Unregistered \ {"writeRegisterAck"}
    /\ ~Serving(c) => conn[c].stage \in Unregistered /\ told[c] = NoPrice

\* Exclusiveness alone is not inductive: it needs that whoever is served is in the
\* registry, so that registerDevice refuses the next one.
SessionsInv == TypeOK /\ OneSessionPerMeter /\ \A c \in Conns : SessionInv(c)

\* A step of connection c that registers nobody cannot disturb the others.
LEMMA SessionStep ==
    ASSUME SessionsInv, TypeOK', NEW c \in Conns, running, running',
           registry' = registry,
           \A k \in Conns \ {c} : conn'[k] = conn[k] /\ told'[k] = told[k],
           conn'[c].registered =>
               /\ conn[c].registered /\ conn'[c].device = conn[c].device
               /\ conn'[c].stage \notin Unregistered \ {"writeRegisterAck"},
           ~conn'[c].registered =>
               conn'[c].stage \in Unregistered /\ told'[c] = NoPrice
    PROVE  SessionsInv'
<1>1. \A k \in Conns : SessionInv(k)'
  BY DEF SessionsInv, SessionInv, Serving
<1>2. OneSessionPerMeter'
  BY DEF SessionsInv, OneSessionPerMeter, Serving
<1> QED
  BY <1>1, <1>2 DEF SessionsInv

\* All connections ended: nobody is served.
LEMMA AllClosed ==
    ASSUME TypeOK', \A c \in Conns : conn'[c] = Closed /\ told'[c] = NoPrice
    PROVE  SessionsInv'
<1>1. \A c \in Conns : ~conn'[c].registered /\ conn'[c].stage = "closed"
  BY DEF Closed
<1> QED
  BY <1>1 DEF SessionsInv, SessionInv, OneSessionPerMeter, Serving, Unregistered

LEMMA ReadKeepsSession ==
    ASSUME TypeOK, NEW c \in Conns, NEW n, ReadConsumptionReport(c, n)
    PROVE  /\ \A k \in Conns \ {c} : conn'[k] = conn[k]
           /\ conn'[c].registered /\ conn'[c].device = conn[c].device
           /\ conn'[c].stage = "awaitReport"
BY ReadFacts

LEMMA SendTariffKeepsSession ==
    ASSUME TypeOK, NEW c \in Conns, NEW reduced \in BOOLEAN, SendTariff(c, reduced),
           conn[c].registered
    PROVE  /\ \A k \in Conns \ {c} : conn'[k] = conn[k]
           /\ conn'[c].registered /\ conn'[c].device = conn[c].device
           /\ conn'[c].stage \in {"awaitReport", "writeTariff"}
BY SendTariffFacts, ReadFacts

\* A running thread is required by every handler.
LEMMA FreeIsRunning == ThreadFree => running
BY DEF ThreadFree

LEMMA SessionsStep ==
    ASSUME SessionsInv, TypeOK', [Next]_vars
    PROVE  SessionsInv'
<1>0. TypeOK /\ \A c \in Conns : SessionInv(c)
  BY DEF SessionsInv
<1> USE DEF process, database
<1>1. ASSUME NEW c \in Conns,
             Accept(c) \/ ReportSynced(c) \/ CommandWritten(c) \/ CommandAccepted(c)
                \/ ReducedReportSynced(c)
      PROVE  SessionsInv'
  <2>1. \E s \in Stages :
           /\ Move(c, s)
           /\ ~conn[c].registered => s \in Unregistered
           /\ conn[c].registered => s \notin Unregistered
    BY <1>0, <1>1 DEF Accept, ReportSynced, CommandWritten, CommandAccepted,
       ReducedReportSynced, SessionInv, Serving, Unregistered, Stages, Receiving, Writing
  <2>2. running /\ running' /\ registry' = registry /\ told' = told
    BY <1>1, FreeIsRunning DEF Accept, ReportSynced, CommandWritten, CommandAccepted,
       ReducedReportSynced
  <2>3. /\ \A k \in Conns \ {c} : conn'[k] = conn[k]
        /\ conn'[c].registered = conn[c].registered
        /\ conn'[c].device = conn[c].device
        /\ ~conn[c].registered => conn'[c].stage \in Unregistered
        /\ conn[c].registered => conn'[c].stage \notin Unregistered
    BY <1>0, <2>1 DEF Move, TypeOK, Connections
  <2> QED
    BY <1>0, <2>2, <2>3, SessionStep DEF SessionInv, Serving
<1>2. ASSUME NEW c \in Conns, NEW d \in Devices, Handshaken(c, d) PROVE SessionsInv'
  <2>1. /\ \A k \in Conns \ {c} : conn'[k] = conn[k]
        /\ conn'[c].registered = conn[c].registered
        /\ conn'[c].stage = "awaitRegister"
    BY <1>0, <1>2 DEF Handshaken, TypeOK, Connections
  <2>2. running /\ running' /\ registry' = registry /\ told' = told
    BY <1>2, FreeIsRunning DEF Handshaken
  <2>3. ~conn[c].registered
    BY <1>0, <1>2 DEF Handshaken, SessionInv, Serving, Unregistered
  <2> QED
    BY <1>0, <2>1, <2>2, <2>3, SessionStep DEF SessionInv, Serving, Unregistered
<1>3. ASSUME NEW c \in Conns,
             HandshakeRefused(c) \/ UnexpectedMessage(c) \/ IoError(c)
      PROVE  SessionsInv'
  <2>1. Close(c) /\ running /\ running' /\ registry' = registry
    BY <1>3, FreeIsRunning DEF HandshakeRefused, UnexpectedMessage, IoError
  <2>2. /\ \A k \in Conns \ {c} : conn'[k] = conn[k] /\ told'[k] = told[k]
        /\ conn'[c] = Closed /\ told'[c] = NoPrice
    BY <1>0, <2>1 DEF Close, TypeOK
  <2> QED
    BY <2>1, <2>2, SessionStep DEF Closed, Unregistered
<1>4. ASSUME NEW c \in Conns, NEW u \in Devices, NEW t \in RegisteredTypes,
             Register(c, u, t)
      PROVE  SessionsInv'
  <2> DEFINE ok == Registrable(c, u)
  <2>1. ~conn[c].registered
    BY <1>0, <1>4 DEF Register, SessionInv, Serving, Unregistered
  <2>2. running /\ running' /\ told' = told
    BY <1>4, FreeIsRunning DEF Register
  <2>3. /\ \A k \in Conns \ {c} : conn'[k] = conn[k]
        /\ conn'[c].registered = ok
        /\ conn'[c].device = conn[c].device
        /\ conn'[c].stage = "writeRegisterAck"
    BY <1>0, <1>4 DEF Register, TypeOK, Connections
  <2>4. CASE ~ok
    <3>1. registry' = registry
      BY <1>4, <2>4 DEF Register
    <3> QED
      BY <1>0, <2>1, <2>2, <2>3, <2>4, <3>1, SessionStep
         DEF SessionInv, Serving, Unregistered
  <2>5. CASE ok
    <3>1. /\ registry' = registry \cup {u}
          /\ conn'[c].device = u /\ u \notin registry
      BY <1>4, <2>3, <2>5 DEF Register, Registrable
    <3>2. \A k \in Conns : SessionInv(k)'
      BY <1>0, <2>2, <2>3, <2>5, <3>1 DEF SessionInv, Serving, Unregistered
    <3>3. \A k \in Conns \ {c} : conn[k].registered => conn[k].device # u
      BY <1>0, <3>1 DEF SessionInv, Serving
    <3>4. OneSessionPerMeter'
      BY <2>3, <3>1, <3>3 DEF SessionsInv, OneSessionPerMeter, Serving
    <3> QED
      BY <3>2, <3>4 DEF SessionsInv
  <2> QED
    BY <2>4, <2>5
<1>5. ASSUME NEW c \in Conns, RegisterAckWritten(c) PROVE SessionsInv'
  <2>1. running /\ running' /\ registry' = registry
    BY <1>5, FreeIsRunning DEF RegisterAckWritten
  <2>2. CASE conn[c].registered
    <3>1. ReadConsumptionReport(c, 0) /\ told' = told
      BY <1>5, <2>2 DEF RegisterAckWritten
    <3> QED
      BY <1>0, <2>1, <2>2, <3>1, ReadKeepsSession, SessionStep DEF Unregistered
  <2>3. CASE ~conn[c].registered
    <3>1. /\ \A k \in Conns \ {c} : conn'[k] = conn[k] /\ told'[k] = told[k]
          /\ conn'[c] = Closed /\ told'[c] = NoPrice
      BY <1>0, <1>5, <2>3 DEF RegisterAckWritten, Close, TypeOK
    <3> QED
      BY <2>1, <3>1, SessionStep DEF Closed, Unregistered
  <2> QED
    BY <2>2, <2>3
<1>6. ASSUME NEW c \in Conns, NEW u \in Devices, NEW p \in Powers,
             ReportReceived(c, u, p) \/ ReducedReportReceived(c, u, p)
      PROVE  SessionsInv'
  <2>1. running /\ running' /\ registry' = registry /\ told' = told
    BY <1>6, FreeIsRunning DEF ReportReceived, ReducedReportReceived
  <2>2. /\ \A k \in Conns \ {c} : conn'[k] = conn[k]
        /\ conn'[c].registered = conn[c].registered
        /\ conn'[c].device = conn[c].device
        /\ conn'[c].stage \notin Unregistered
    BY <1>0, <1>6 DEF ReportReceived, ReducedReportReceived, TypeOK, Connections,
       Unregistered
  <2>3. conn[c].registered
    BY <1>0, <1>6 DEF ReportReceived, ReducedReportReceived, SessionInv, Serving,
       Unregistered
  <2> QED
    BY <2>1, <2>2, <2>3, SessionStep
<1>7. ASSUME NEW c \in Conns,
             ReportAckWritten(c) \/ CommandRejected(c) \/ ReducedAckWritten(c)
      PROVE  SessionsInv'
  <2>1. running /\ running' /\ registry' = registry /\ told' = told
    <3>1. CASE ReportAckWritten(c)
      BY <3>1, FreeIsRunning DEF ReportAckWritten
    <3>2. CASE CommandRejected(c)
      BY <3>2, FreeIsRunning DEF CommandRejected
    <3>3. CASE ReducedAckWritten(c)
      BY <3>3, FreeIsRunning DEF ReducedAckWritten
    <3> QED
      BY <1>7, <3>1, <3>2, <3>3
  <2>2. conn[c].registered
    BY <1>0, <1>7 DEF ReportAckWritten, CommandRejected, ReducedAckWritten,
       SessionInv, Serving, Unregistered
  <2>3. \/ ReadConsumptionReport(c, conn[c].count + 1)
        \/ \E reduced \in BOOLEAN : SendTariff(c, reduced)
        \/ conn' = [conn EXCEPT ![c].stage = "writeCommand", ![c].count = 0]
    BY <1>0, <1>7 DEF ReportAckWritten, CommandRejected, ReducedAckWritten,
       TypeOK, Connections
  <2>4. CASE conn' = [conn EXCEPT ![c].stage = "writeCommand", ![c].count = 0]
    <3>1. /\ \A k \in Conns \ {c} : conn'[k] = conn[k]
          /\ conn'[c].registered = conn[c].registered
          /\ conn'[c].device = conn[c].device
          /\ conn'[c].stage = "writeCommand"
      BY <1>0, <2>4 DEF TypeOK, Connections
    <3> QED
      BY <2>1, <2>2, <3>1, SessionStep DEF Unregistered
  <2>5. CASE ReadConsumptionReport(c, conn[c].count + 1)
    BY <1>0, <2>1, <2>2, <2>5, ReadKeepsSession, SessionStep DEF Unregistered
  <2>6. CASE \E reduced \in BOOLEAN : SendTariff(c, reduced)
    BY <1>0, <2>1, <2>2, <2>6, SendTariffKeepsSession, SessionStep DEF Unregistered
  <2> QED
    BY <2>3, <2>4, <2>5, <2>6
<1>8. ASSUME NEW c \in Conns, TariffWritten(c) PROVE SessionsInv'
  <2>1. running /\ running' /\ registry' = registry
    BY <1>8, FreeIsRunning DEF TariffWritten
  <2>2. \A k \in Conns \ {c} : told'[k] = told[k]
    BY <1>0, <1>8 DEF TariffWritten, TypeOK
  <2>3. conn[c].registered /\ ReadConsumptionReport(c, 0)
    BY <1>0, <1>8 DEF TariffWritten, SessionInv, Serving, Unregistered
  <2> QED
    BY <1>0, <2>1, <2>2, <2>3, ReadKeepsSession, SessionStep DEF Unregistered
<1>9. ASSUME Killed \/ \E c \in Conns : ReportSyncThrows(c) PROVE SessionsInv'
  BY <1>9, AllClosed DEF Killed, ReportSyncThrows
<1>10. ASSUME NEW l \in Links, Start(l) PROVE SessionsInv'
  <2>1. \A c \in Conns : conn[c] = Closed
    BY <1>0, <1>10 DEF Start, SessionInv
  <2>2. \A c \in Conns : told[c] = NoPrice
    BY <1>0, <2>1 DEF SessionInv, Serving, Closed
  <2> QED
    BY <1>10, <2>1, <2>2, AllClosed DEF Start
<1>11. ASSUME CentralLost \/ UNCHANGED vars \/ \E c \in Conns : SampleReceived(c)
       PROVE  SessionsInv'
  BY <1>11 DEF CentralLost, SampleReceived, vars, SessionsInv, SessionInv,
     OneSessionPerMeter, Serving
<1> QED
  BY <1>1, <1>2, <1>3, <1>4, <1>5, <1>6, <1>7, <1>8, <1>9, <1>10, <1>11 DEF Next

LEMMA SessionsStart == Init => SessionsInv
<1> SUFFICES ASSUME Init PROVE SessionsInv
  OBVIOUS
<1>1. TypeOK
  BY ClosedIsConnection DEF Init, TypeOK, Links, Statuses
<1> QED
  BY <1>1 DEF Init, SessionsInv, SessionInv, OneSessionPerMeter, Serving, Closed, Unregistered

\* What the registry, the sessions and the process know of each other is inductive.
THEOREM SessionsInvariant == Spec => []SessionsInv
<1>1. Init => SessionsInv
  BY SessionsStart
<1>2. SessionsInv /\ TypeOK' /\ [Next]_vars => SessionsInv'
  BY SessionsStep
<1> QED
  BY <1>1, <1>2, TypeCorrect, PTL DEF Spec

\* No two open connections ever serve the same meter.
THEOREM SessionsAreExclusive == Spec => []OneSessionPerMeter
<1>1. SessionsInv => OneSessionPerMeter
  BY DEF SessionsInv
<1> QED
  BY <1>1, SessionsInvariant, PTL

-----------------------------------------------------------------------------
(* The promises of the tariff function, carried over to the server.        *)

\* A proved reduction makes the announced price lower, at any hour.
THEOREM DiscountsPay == Spec => []DiscountPaysOff
<1>1. DiscountPaysOff
  BY ReductionLowersPrice DEF DiscountPaysOff
<1> QED
  BY <1>1, PTL

\* A higher band always costs more, so a change of band is always announced.
THEOREM BandsCostMore == Spec => []PricesFollowLoad
<1>1. PricesFollowLoad
  BY PriceRisesWithLoad DEF PricesFollowLoad
<1> QED
  BY <1>1, PTL

\* Households and industries are charged alike by the two programs, whose functions
\* are translated separately.
THEOREM RegionsAlike == Spec => []RegionsChargeAlike
<1>1. CheckedLoads \subseteq Nat
  BY DEF CheckedLoads, RaisedLoad, HighLoad
<1>2. RegionsAgree
  BY <1>1, RegionsHaveOneTariff DEF RegionsAgree
<1>3. RegionsChargeAlike
  BY <1>2 DEF RegionsChargeAlike
<1> QED
  BY <1>3, PTL

\* The cheap hours of both user types are those the comments name.
THEOREM CheapHoursAnnounced == Spec => []CheapHoursHold
<1>1. CheapHoursHold
  BY CheapHoursAreThoseOfTheComments DEF CheapHoursHold
<1> QED
  BY <1>1, PTL
=============================================================================
