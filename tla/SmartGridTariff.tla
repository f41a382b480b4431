--------------------------- MODULE SmartGridTariff ---------------------------
(***************************************************************************)
(* The dynamic tariff of the two regional servers: calculateDynamicTariff  *)
(* of regional/server_async.cpp (region 1) and of                          *)
(* regional/server_region2.cpp (region 2), each translated from its own    *)
(* text: the second program has a copy of the first one's function.        *)
(*                                                                         *)
(* The code computes in doubles.  Every quantity here is the exact integer *)
(* the double stands for: a power is counted in half kilowatts (the powers *)
(* the code compares with are 1.5, 5.0 and 10.0 kW) and a price in         *)
(* hundredths of a KM per kWh, the precision the code rounds to.  No value *)
(* the code rounds is near a tie, so rounding half up is exact.            *)
(***************************************************************************)
EXTENDS Integers

Regions    == {1, 2}
HOUSEHOLD  == 1
INDUSTRY   == 2
UserTypes  == 0 .. 255      \* user_type is one byte of REGISTER_REQ, unchecked

\* What localtime() tells the function: tm_wday (0 is Sunday), tm_hour, tm_isdst.
Instants == [day : 0 .. 6, hour : 0 .. 23, dst : BOOLEAN]

TargetPower == 3            \* 1.5 kW, the target of every reduce command
RaisedLoad  == 10           \* 5.0 kW
HighLoad    == 20           \* 10.0 kW

Bands == {"normal", "raised", "high"}
NoPrice == 0

-----------------------------------------------------------------------------
(* Region 1: calculateDynamicTariff of server_async.cpp.                   *)

\* The load bands its comparisons tell apart (10 kW is also where its handler
\* starts to ask for a reduction).
Band1(load) ==
    IF load >= HighLoad THEN "high"
    ELSE IF load >= RaisedLoad THEN "raised" ELSE "normal"

\* When the lower tariff is in force for a household: Sundays, "14-17 i 23-08" in
\* summer and "13-16 i 22-07" in winter; the night wraps around midnight.
HouseholdHours1(now) ==
    \/ now.day = 0
    \/ /\ now.day \in 1 .. 6
       /\ IF now.dst THEN now.hour \in 14 .. 16 \/ now.hour >= 23 \/ now.hour < 8
                     ELSE now.hour \in 13 .. 15 \/ now.hour >= 22 \/ now.hour < 7

EndsAtMidnight(now) == now.day \in {0, 6} \/ now.hour >= IF now.dst THEN 23 ELSE 22   \* mutant

\* And for an industry: weekends and the nights.
IndustryHours1(now) ==
    \/ now.day = 0 \/ now.day = 6
    \/ IF now.dst THEN now.hour >= 23 \/ now.hour < 8 ELSE now.hour >= 22 \/ now.hour < 7

\* A user type that is neither never gets the lower tariff.
LowerTariff1(userType, now) ==
    \/ userType = HOUSEHOLD /\ HouseholdHours1(now)
    \/ userType = INDUSTRY /\ IndustryHours1(now)

\* A household pays its own price, everybody else that of an industry.
BasePrice1(userType, now) ==
    IF userType = HOUSEHOLD
    THEN IF LowerTariff1(userType, now) THEN 10 ELSE 20
    ELSE IF LowerTariff1(userType, now) THEN 14 ELSE 24

NoRaisedBand(band) == IF band = "high" THEN 120 ELSE 100   \* mutant: one threshold
DiscountRaised(band, reduced) ==                         \* mutant: the other band
    IF band = "raised" /\ reduced THEN 90 ELSE 100

\* Percentages the base price is multiplied by; the discount is given for a
\* reduction of consumption and only under high load.
LoadPercent1(band) == IF band = "high" THEN 120
                      ELSE IF band = "raised" THEN 110 ELSE 100
ReductionPercent1(band, reduced) == IF band = "high" /\ reduced THEN 90 ELSE 100

-----------------------------------------------------------------------------
(* Region 2: calculateDynamicTariff of server_region2.cpp, a copy that is  *)
(* kept by hand and differs in the last else of the price list.            *)

Band2(load) ==
    IF load >= HighLoad THEN "high"
    ELSE IF load >= RaisedLoad THEN "raised" ELSE "normal"

HouseholdHours2(now) ==
    IF now.day = 0 THEN TRUE
    ELSE IF now.dst
    THEN (now.hour >= 14 /\ now.hour < 17) \/ (now.hour >= 23 \/ now.hour < 8)
    ELSE (now.hour >= 13 /\ now.hour < 16) \/ (now.hour >= 22 \/ now.hour < 7)

SaturdayForgotten(now) ==      \* mutant: the cheap day of a household in the copy
    IF now.day = 0 THEN TRUE
    ELSE IF now.dst THEN now.hour >= 23 \/ now.hour < 8 ELSE now.hour >= 22 \/ now.hour < 7

IndustryHours2(now) ==
    IF now.day \in {0, 6} THEN TRUE
    ELSE IF now.dst THEN now.hour >= 23 \/ now.hour < 8 ELSE now.hour >= 22 \/ now.hour < 7

LowerTariff2(userType, now) ==
    CASE userType = HOUSEHOLD -> HouseholdHours2(now)
      [] userType = INDUSTRY  -> IndustryHours2(now)
      [] OTHER -> FALSE

\* An unknown user type pays the price of a household.
BasePrice2(userType, now) ==
    LET low == LowerTariff2(userType, now)
    IN  CASE userType = HOUSEHOLD -> IF low THEN 10 ELSE 20
          [] userType = INDUSTRY  -> IF low THEN 14 ELSE 24
          [] OTHER -> IF low THEN 10 ELSE 20

LoadPercent2(band) == CASE band = "high" -> 120
                        [] band = "raised" -> 110
                        [] OTHER -> 100
ReductionPercent2(band, reduced) == IF reduced /\ band = "high" THEN 90 ELSE 100

-----------------------------------------------------------------------------
(* The function of the program that runs in a region.                      *)

\* std::round(price * 100.0) / 100.0, the last step of both copies.
RoundedPrice(base, percent1, percent2) == (base * percent1 * percent2 + 5000) \div 10000

Band(region, load) == IF region = 1 THEN Band1(load) ELSE Band2(load)

LowerTariff(region, userType, now) ==
    IF region = 1 THEN LowerTariff1(userType, now) ELSE LowerTariff2(userType, now)

DynamicTariff(region, userType, now, band, reduced) ==
    IF region = 1
    THEN RoundedPrice(BasePrice1(userType, now),
                      LoadPercent1(band), ReductionPercent1(band, reduced))
    ELSE RoundedPrice(BasePrice2(userType, now),
                      LoadPercent2(band), ReductionPercent2(band, reduced))

Prices == 10 .. 29          \* every price the function can return

-----------------------------------------------------------------------------
CheckedTypes == {0, HOUSEHOLD, INDUSTRY, 3, 255}   \* both, and values beside and beyond them

\* Accepting a reduction pays off: at every instant a consumer whose reduction
\* was proved pays less under high load than one whose was not (the discount of
\* calculateDynamicTariff survives the rounding to two decimals), and still no
\* less than a consumer under raised load.
ReductionPaysOff ==
    \A now \in Instants, r \in Regions, u \in CheckedTypes :
        /\ DynamicTariff(r, u, now, "high", TRUE) < DynamicTariff(r, u, now, "high", FALSE)
        /\ DynamicTariff(r, u, now, "high", TRUE) >= DynamicTariff(r, u, now, "raised", TRUE)

\* The price rises strictly with the load of the region; rounding never makes
\* two bands cost the same, so a meter always sees a change of band as a change
\* of price (the servers send TARIFF_UPDATE only when the price differs).
PriceFollowsLoad ==
    \A now \in Instants, r \in Regions, u \in CheckedTypes :
        /\ DynamicTariff(r, u, now, "normal", FALSE) < DynamicTariff(r, u, now, "raised", FALSE)
        /\ DynamicTariff(r, u, now, "raised", FALSE) < DynamicTariff(r, u, now, "high", FALSE)

\* The two programs, each with its own copy of the function, charge the same for
\* the two documented user types, at every instant and every load (the loads
\* checked lie on and beside the thresholds).
CheckedLoads == {0, RaisedLoad - 1, RaisedLoad, HighLoad - 1, HighLoad, 2 * HighLoad}
RegionsAgree ==
    \A now \in Instants, u \in {HOUSEHOLD, INDUSTRY}, load \in CheckedLoads, accepted \in BOOLEAN :
        DynamicTariff(1, u, now, Band(1, load), accepted)
            = DynamicTariff(2, u, now, Band(2, load), accepted)

\* Reference reading of the comments "14-17 i 23-08" and "13-16 i 22-07": in both
\* regions a household has, on a working day, exactly three cheap afternoon hours
\* and nine cheap night hours, whichever time is in force, and an industry the nine.
LowHours(r, u, now) == {h \in 0 .. 23 : LowerTariff(r, u, [now EXCEPT !.hour = h])}
CheapHoursOfADay ==
    \A r \in Regions, now \in Instants : now.day \in 1 .. 5 =>
        /\ LowHours(r, INDUSTRY, now) = IF now.dst THEN {23} \cup 0 .. 7 ELSE {22, 23} \cup 0 .. 6
        /\ LowHours(r, HOUSEHOLD, now) \ LowHours(r, INDUSTRY, now)
              = IF now.dst THEN 14 .. 16 ELSE 13 .. 15
=============================================================================
