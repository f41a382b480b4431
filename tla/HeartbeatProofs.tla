--------------------------- MODULE HeartbeatProofs ---------------------------
(***************************************************************************)
(* The heartbeat service, for any number of meters, any network delay, any *)
(* delay of the status thread, crashes and a table that may refuse any     *)
(* statement.                                                              *)
(***************************************************************************)
EXTENDS Heartbeat, TLAPS

-----------------------------------------------------------------------------
(* Type correctness.                                                       *)

\* Ageing a timestamp keeps it an age, and never turns it into None.
LEMMA OlderIsAge ==
    ASSUME NEW age \in Ages
    PROVE  Older(age) \in Ages
BY BoundsAssumption DEF Older, Ages

LEMMA AddRowIsCount ==
    ASSUME NEW n \in 0 .. MaxOpen
    PROVE  /\ AddRow(n) \in 1 .. MaxOpen
           /\ n = 0 => AddRow(n) = 1
BY BoundsAssumption DEF AddRow

\* What a check reports and what it resolves concerns known meters, the first outside
\* activeAlarms and the second inside.
LEMMA ChecksConcernKnown ==
    /\ Online \subseteq Known /\ Offline = Known \ Online
    /\ Reported = Offline \ activeAlarms
    /\ Recovered = Online \cap activeAlarms
BY DEF Online, Offline, Reported, Recovered

\* The containers of the server keep their types, activeAlarms holds meters that were
\* heard, and only alarms can lack their row.
THEOREM HeartbeatTypes == Spec => []TypeOK
<1>1. Init => TypeOK
  BY HeartbeatsAssumption, BoundsAssumption
     DEF Init, TypeOK, Known, None, Nap, Period
<1>2. TypeOK /\ [Next]_vars => TypeOK'
  <2> SUFFICES ASSUME TypeOK, [Next]_vars PROVE TypeOK'
    OBVIOUS
  <2> USE DEF client, thread, table
  <2>1. CASE Tick
    <3>1. pause' \in [Meters -> 0 .. Period]
      BY <2>1 DEF Tick, TypeOK, Period
    <3>2. net' \subseteq [meter : Meters, age : 0 .. MaxTransit]
      <4> SUFFICES ASSUME NEW e \in net, e.age < MaxTransit
                   PROVE  [e EXCEPT !.age = @ + 1] \in [meter : Meters, age : 0 .. MaxTransit]
        BY <2>1 DEF Tick
      <4>1. e \in [meter : Meters, age : 0 .. MaxTransit]
        BY DEF TypeOK
      <4> QED
        BY <4>1, BoundsAssumption
    <3>3. /\ lastHeartbeat' \in [Meters -> Ages \cup {None}]
          /\ \A m \in Meters : lastHeartbeat'[m] = None <=> lastHeartbeat[m] = None
      BY <2>1, OlderIsAge DEF Tick, TypeOK, Known, None, Ages
    <3>4. nap' \in 0 .. Nap /\ currentTime' \in 0 .. MaxDelay
      BY <2>1, BoundsAssumption DEF Tick, TypeOK, Nap
    <3>5. Known' = Known
      BY <3>3 DEF Known
    <3>6. heard' \in [Meters -> Ages \cup {None}]
      BY <2>1, OlderIsAge DEF Tick, TypeOK
    <3> QED
      BY <2>1, <3>1, <3>2, <3>3, <3>4, <3>5, <3>6 DEF Tick, TypeOK
  <2>2. ASSUME NEW d \in net, Lose(d) PROVE TypeOK'
    BY <2>2 DEF Lose, TypeOK, Known
  <2>3. ASSUME NEW d \in net, Receive(d) PROVE TypeOK'
    <3>1. d.meter \in Meters /\ d.age \in Ages
      BY BoundsAssumption DEF TypeOK, Ages
    <3>2. lastHeartbeat' \in [Meters -> Ages \cup {None}]
      BY <2>3, <3>1 DEF Receive, TypeOK
    <3>3. Known \subseteq Known'
      BY <2>3, <3>1 DEF Receive, TypeOK, Known, Ages, None
    <3>4. heard' \in [Meters -> Ages \cup {None}]
      BY <2>3, BoundsAssumption DEF Receive, TypeOK, Ages
    <3> QED
      BY <2>3, <3>2, <3>3, <3>4 DEF Receive, TypeOK
  <2>4. ASSUME NEW m \in Meters, StartClient(m) PROVE TypeOK'
    BY <2>4, HeartbeatsAssumption DEF StartClient, TypeOK, Known, Period
  <2>5. ASSUME NEW m \in Meters, Send(m) PROVE TypeOK'
    <3>1. [meter |-> m, age |-> 0] \in [meter : Meters, age : 0 .. MaxTransit]
      BY BoundsAssumption
    <3>2. /\ left' \in [Meters -> 0 .. Heartbeats]
          /\ pause' \in [Meters -> 0 .. Period]
      BY <2>5, HeartbeatsAssumption DEF Send, TypeOK, Period
    <3> QED
      BY <2>5, <3>1, <3>2 DEF Send, TypeOK, Known
  <2>6. CASE Sample
    BY <2>6, BoundsAssumption DEF Sample, TypeOK, Known
  <2>7. CASE Check
    <3>1. PICK failed \in SUBSET (Reported \cup Recovered) :
            /\ openAlarms' = AlarmRows(failed)
            /\ missing' = (missing \ Recovered) \cup (failed \cap Reported)
            /\ leftover' = (leftover \ Recovered) \cup (failed \cap Recovered)
      BY <2>7 DEF Check
    <3>2. openAlarms' \in [Meters -> 0 .. MaxOpen]
      BY <3>1, AddRowIsCount, BoundsAssumption DEF AlarmRows, TypeOK
    <3>3. /\ activeAlarms' = (activeAlarms \ Online) \cup Offline
          /\ Known' = Known
      BY <2>7 DEF Check, Alarmed, Known
    <3>4. missing' \subseteq activeAlarms' /\ activeAlarms' \subseteq Known'
      BY <3>1, <3>3, ChecksConcernKnown DEF TypeOK
    <3>5. leftover' \subseteq Meters
      BY <3>1, ChecksConcernKnown DEF TypeOK, Known
    <3> QED
      BY <2>7, <3>2, <3>4, <3>5, BoundsAssumption DEF Check, TypeOK, Nap
  <2>8. CASE Crash
    BY <2>8 DEF Crash, TypeOK, Known
  <2>9. CASE Restart
    BY <2>9, BoundsAssumption DEF Restart, TypeOK, Known, None, Nap
  <2>10. CASE UNCHANGED vars
    BY <2>10 DEF vars, TypeOK, Known
  <2> QED
    BY <2>1, <2>2, <2>3, <2>4, <2>5, <2>6, <2>7, <2>8, <2>9, <2>10 DEF Next
<1> QED
  BY <1>1, <1>2, PTL DEF Spec

-----------------------------------------------------------------------------
(* The alarms in memory and in the table.                                  *)

\* What a check does to the alarm of one meter.
LEMMA CheckKeepsAlarm ==
    ASSUME TypeOK, OneOpenAlarm, NEW m \in Meters,
           NEW failed \in SUBSET (Reported \cup Recovered),
           openAlarms' = AlarmRows(failed),
           activeAlarms' = Alarmed(activeAlarms),
           missing' = (missing \ Recovered) \cup (failed \cap Reported),
           leftover' = (leftover \ Recovered) \cup (failed \cap Recovered)
    PROVE  LET rows == IF m \in activeAlarms' THEN 1 ELSE 0
           IN  /\ m \notin missing'  => openAlarms'[m] >= rows
               /\ m \notin leftover' => openAlarms'[m] <= rows
<1>0. openAlarms[m] \in 0 .. MaxOpen
  BY DEF TypeOK
<1>1. CASE m \in Reported          \* silent and without an alarm so far
  <2>1. m \in Offline /\ m \notin activeAlarms /\ m \notin Recovered
    BY <1>1, ChecksConcernKnown
  <2>2. m \in activeAlarms'
    BY <2>1 DEF Alarmed
  <2>3. m \notin leftover => openAlarms[m] = 0
    BY <1>0, <2>1 DEF OneOpenAlarm
  <2>4. openAlarms'[m] = IF m \in failed THEN openAlarms[m] ELSE AddRow(openAlarms[m])
    BY <1>1, <2>1 DEF AlarmRows
  <2> QED
    BY <1>0, <1>1, <2>1, <2>2, <2>3, <2>4, AddRowIsCount
<1>2. CASE m \in Recovered         \* heard again and with an alarm so far
  <2>1. m \in Online /\ m \notin Offline /\ m \notin Reported
    BY <1>2, ChecksConcernKnown
  <2>2. m \notin activeAlarms'
    BY <2>1 DEF Alarmed
  <2>3. openAlarms'[m] = IF m \in failed THEN openAlarms[m] ELSE 0
    BY <1>2, <2>1 DEF AlarmRows
  <2> QED
    BY <1>0, <1>2, <2>2, <2>3
<1>3. CASE m \notin Reported \cup Recovered
  <2>1. m \in activeAlarms' <=> m \in activeAlarms
    BY <1>3, ChecksConcernKnown DEF Alarmed
  <2>2. /\ openAlarms'[m] = openAlarms[m]
        /\ m \in missing' <=> m \in missing
        /\ m \in leftover' <=> m \in leftover
    BY <1>3 DEF AlarmRows
  <2> QED
    BY <2>1, <2>2 DEF OneOpenAlarm
<1> QED
  BY <1>1, <1>2, <1>3

\* "Alarm kreiramo samo jednom": a meter has as many unresolved rows as alarms in
\* memory; every exception is one that a failed statement or a former process made.
THEOREM AlarmsMatchTable == Spec => []OneOpenAlarm
<1>1. Init => OneOpenAlarm
  BY DEF Init, OneOpenAlarm
<1>2. TypeOK /\ OneOpenAlarm /\ [Next]_vars => OneOpenAlarm'
  <2> SUFFICES ASSUME TypeOK, OneOpenAlarm, [Next]_vars PROVE OneOpenAlarm'
    OBVIOUS
  <2> USE DEF client, thread, table
  <2>1. CASE Check
    <3>1. PICK failed \in SUBSET (Reported \cup Recovered) :
            /\ openAlarms' = AlarmRows(failed)
            /\ missing' = (missing \ Recovered) \cup (failed \cap Reported)
            /\ leftover' = (leftover \ Recovered) \cup (failed \cap Recovered)
      BY <2>1 DEF Check
    <3>2. activeAlarms' = Alarmed(activeAlarms)
      BY <2>1 DEF Check
    <3> QED
      BY <3>1, <3>2, CheckKeepsAlarm DEF OneOpenAlarm
  <2>2. CASE Restart
    BY <2>2 DEF Restart, OneOpenAlarm, TypeOK
  <2>3. ASSUME UNCHANGED <<activeAlarms, table>> PROVE OneOpenAlarm'
    BY <2>3 DEF OneOpenAlarm
  <2>4. ASSUME NEW d \in net, Lose(d) \/ Receive(d) PROVE OneOpenAlarm'
    BY <2>3, <2>4 DEF Lose, Receive
  <2>5. ASSUME NEW m \in Meters, StartClient(m) \/ Send(m) PROVE OneOpenAlarm'
    BY <2>3, <2>5 DEF StartClient, Send
  <2>6. CASE Tick \/ Sample \/ Crash \/ UNCHANGED vars
    BY <2>3, <2>6 DEF Tick, Sample, Crash, vars
  <2> QED
    BY <2>1, <2>2, <2>4, <2>5, <2>6 DEF Next
<1> QED
  BY <1>1, <1>2, HeartbeatTypes, PTL DEF Spec

-----------------------------------------------------------------------------
(* False alarms.                                                           *)

\* A meter enters activeAlarms in a check only, as one that the check finds silent.
LEMMA AlarmNeedsCheck ==
    ASSUME [Next]_vars, NEW m \in activeAlarms', m \notin activeAlarms
    PROVE  Check /\ m \in Offline
<1> USE DEF client, thread, table
<1>1. CASE Check
  BY <1>1 DEF Check, Alarmed
<1>2. ASSUME NEW d \in net, Lose(d) \/ Receive(d) PROVE FALSE
  BY <1>2 DEF Lose, Receive
<1>3. ASSUME NEW k \in Meters, StartClient(k) \/ Send(k) PROVE FALSE
  BY <1>3 DEF StartClient, Send
<1>4. CASE Tick \/ Sample \/ Crash \/ Restart \/ UNCHANGED vars
  BY <1>4 DEF Tick, Sample, Crash, Restart, vars
<1> QED
  BY <1>1, <1>2, <1>3, <1>4 DEF Next

\* The unsigned difference is wrong only when it wraps, that is when the stored
\* timestamp is newer than the clock value of the check.
LEMMA OfflineIsOldOrNewer ==
    ASSUME TypeOK, NEW m \in Offline
    PROVE  /\ m \in Meters
           /\ lastHeartbeat[m] \in Ages
           /\ lastHeartbeat[m] > Threshold \/ lastHeartbeat[m] < currentTime
<1>1. m \in Meters /\ lastHeartbeat[m] \in Ages /\ ~(Difference(m) <= Threshold)
  BY DEF Offline, Online, Known, TypeOK
<1>2. lastHeartbeat[m] \in Nat /\ currentTime \in Nat
  BY <1>1, BoundsAssumption DEF TypeOK, Ages
<1>3. ASSUME lastHeartbeat[m] <= Threshold, lastHeartbeat[m] >= currentTime PROVE FALSE
  <2>1. lastHeartbeat[m] - currentTime \in 0 .. 5
    BY <1>2, <1>3 DEF Threshold
  <2>2. Difference(m) = lastHeartbeat[m] - currentTime
    BY <2>1 DEF Difference, Wrap
  <2> QED
    BY <1>1, <2>1, <2>2 DEF Threshold
<1> QED
  BY <1>1, <1>2, <1>3 DEF Threshold

\* What the server stored of a known meter was under way for at most MaxTransit seconds
\* when it arrived, whether or not newer datagrams had arrived before it.
HeardInv ==
    \A m \in Known :
        /\ heard[m] \in Ages
        /\ heard[m] <= lastHeartbeat[m] /\ lastHeartbeat[m] <= heard[m] + MaxTransit

LEMMA HeardInvariant == Spec => []HeardInv
<1>1. Init => HeardInv
  BY DEF Init, HeardInv, Known
<1>2. TypeOK /\ HeardInv /\ [Next]_vars => HeardInv'
  <2> SUFFICES ASSUME TypeOK, HeardInv, [Next]_vars PROVE HeardInv'
    OBVIOUS
  <2> USE DEF client, thread, table
  <2>1. CASE Tick
    <3> SUFFICES ASSUME NEW m \in Meters, lastHeartbeat'[m] # None
                 PROVE  /\ heard'[m] \in Ages
                        /\ heard'[m] <= lastHeartbeat'[m]
                        /\ lastHeartbeat'[m] <= heard'[m] + MaxTransit
      BY DEF HeardInv, Known
    <3>1. m \in Known
      BY <2>1 DEF Tick
    <3>2. lastHeartbeat[m] \in Ages /\ heard[m] \in Ages /\ heard[m] # None
      BY <3>1 DEF Known, TypeOK, HeardInv, Ages, None
    <3>3. /\ lastHeartbeat'[m] = Older(lastHeartbeat[m])
          /\ heard'[m] = Older(heard[m])
      BY <2>1, <3>1, <3>2 DEF Tick
    <3>4. heard[m] <= lastHeartbeat[m] /\ lastHeartbeat[m] <= heard[m] + MaxTransit
      BY <3>1 DEF HeardInv
    <3> QED
      BY <3>2, <3>3, <3>4, BoundsAssumption DEF Older, Ages
  <2>2. ASSUME NEW d \in net, Receive(d) PROVE HeardInv'
    <3>1. d.meter \in Meters /\ d.age \in 0 .. MaxTransit
      BY DEF TypeOK
    <3>2. /\ lastHeartbeat' = [lastHeartbeat EXCEPT ![d.meter] = d.age]
          /\ heard' = [heard EXCEPT ![d.meter] = 0]
      BY <2>2 DEF Receive
    <3>3. \A m \in Meters \ {d.meter} :
            lastHeartbeat'[m] = lastHeartbeat[m] /\ heard'[m] = heard[m]
      BY <3>2 DEF TypeOK
    <3>4. lastHeartbeat'[d.meter] = d.age /\ heard'[d.meter] = 0
      BY <3>1, <3>2 DEF TypeOK
    <3> QED
      BY <3>1, <3>3, <3>4, BoundsAssumption DEF HeardInv, Known, Ages
  <2>3. CASE Restart
    BY <2>3 DEF Restart, HeardInv, Known
  <2>4. ASSUME UNCHANGED <<lastHeartbeat, heard>> PROVE HeardInv'
    BY <2>4 DEF HeardInv, Known
  <2>5. ASSUME NEW d \in net, Lose(d) PROVE HeardInv'
    BY <2>4, <2>5 DEF Lose
  <2>6. ASSUME NEW m \in Meters, StartClient(m) \/ Send(m) PROVE HeardInv'
    BY <2>4, <2>6 DEF StartClient, Send
  <2>7. CASE Sample \/ Check \/ Crash \/ UNCHANGED vars
    BY <2>4, <2>7 DEF Sample, Check, Crash, vars
  <2> QED
    BY <2>1, <2>2, <2>3, <2>5, <2>6, <2>7 DEF Next
<1> QED
  BY <1>1, <1>2, HeartbeatTypes, PTL DEF Spec

\* A meter gets an alarm only if no heartbeat of it has arrived for five seconds less the
\* time one may be under way, or if one was stored between the reading of the clock and
\* the check; overtaking, loss, failed statements and crashes add nothing to that.
THEOREM AlarmsNeedSilence == Spec => FalseOnlyByDelayOrRace
<1>1. TypeOK /\ HeardInv /\ [Next]_vars
        => [\A m \in activeAlarms' \ activeAlarms :
              heard[m] > Threshold - MaxTransit \/ heard[m] < currentTime]_vars
  <2> SUFFICES ASSUME TypeOK, HeardInv, [Next]_vars, NEW m \in activeAlarms' \ activeAlarms
               PROVE  heard[m] > Threshold - MaxTransit \/ heard[m] < currentTime
    OBVIOUS
  <2>1. m \in Offline
    BY AlarmNeedsCheck
  <2>2. m \in Known
    BY <2>1, ChecksConcernKnown
  <2>3. /\ heard[m] \in Ages /\ lastHeartbeat[m] \in Ages
        /\ heard[m] <= lastHeartbeat[m] /\ lastHeartbeat[m] <= heard[m] + MaxTransit
        /\ lastHeartbeat[m] > Threshold \/ lastHeartbeat[m] < currentTime
    BY <2>1, <2>2, OfflineIsOldOrNewer DEF HeardInv
  <2>4. currentTime \in Nat
    BY BoundsAssumption DEF TypeOK
  <2> QED
    BY <2>3, <2>4, BoundsAssumption DEF Ages, Threshold
<1> QED
  BY <1>1, HeartbeatTypes, HeardInvariant, PTL DEF Spec, FalseOnlyByDelayOrRace
=============================================================================
