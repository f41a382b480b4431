------------------------------- MODULE Heartbeat -------------------------------
(***************************************************************************)
(* The UDP liveness service: smart_meter/udp_heartbeat_client.cpp sends    *)
(* HEARTBEAT datagrams, regional/udp_heartbeat_server.cpp receives them in *)
(* its main thread and looks at them every two seconds in a second thread, *)
(* which raises and resolves DEVICE_OFFLINE alarms in the database.        *)
(*                                                                         *)
(* Client and server run on one machine and read one clock, std::time, in  *)
(* whole seconds.  A timestamp is represented by its age: the clock now    *)
(* minus the timestamp.  Ages grow with every tick up to MaxAge, beyond    *)
(* which the code does not tell them apart, so that runs have no end.      *)
(***************************************************************************)
EXTENDS Integers, FiniteSets

CONSTANTS
    Meters,
    Heartbeats,     \* datagrams one run of the client sends: 5 in the code
    MaxTransit,     \* seconds a datagram may be under way before it counts as lost
    MaxDelay,       \* seconds the status thread may be held up between reading the
                    \* clock and getting the mutex
    MaxAge,         \* bound on the age of a timestamp
    MaxOpen,        \* bound on the unresolved alarm rows counted for one meter
    DbMayFail,      \* TRUE: an INSERT or UPDATE of table alarms may fail
    CrashAllowed    \* TRUE: the server process may be killed and started again

Period    == 5      \* sleep of the client between two heartbeats
Threshold == 5      \* a meter is ONLINE up to this difference
Nap       == 2      \* sleep of the status thread
Wrap      == 65536  \* stands for 2^64, the modulus of the uint64_t difference

ASSUME HeartbeatsAssumption == Heartbeats \in Nat \ {0}
ASSUME BoundsAssumption ==
    /\ MaxTransit \in Nat /\ MaxDelay \in Nat /\ MaxOpen \in Nat \ {0}
    /\ MaxAge \in Nat /\ MaxAge > Threshold + MaxDelay /\ MaxAge > MaxTransit
    /\ MaxAge < Wrap
ASSUME FaultsAssumption == DbMayFail \in BOOLEAN /\ CrashAllowed \in BOOLEAN

VARIABLES
    left,          \* per meter: heartbeats its client still sends, 0 when it has ended
    pause,         \* per meter: seconds until the next one
    net,           \* datagrams under way: [meter, age]
    up,            \* the server process runs
    lastHeartbeat, \* per meter: age of the stored timestamp, None without one
    activeAlarms,
    status,        \* the status thread: "asleep", or "sampled" (it has read the clock)
    nap,           \* seconds it still sleeps
    currentTime,   \* age of the clock value it has read
    openAlarms,    \* table alarms: unresolved rows per meter
    missing,       \* history: alarms in activeAlarms whose INSERT failed
    leftover,      \* history: meters with rows of another process or of a failed UPDATE
    heard          \* history: per meter, seconds since this process received a datagram
                   \* of it, whatever its timestamp; None before the first

client == <<left, pause>>
thread == <<status, nap, currentTime>>
table  == <<openAlarms, missing, leftover>>
vars   == <<client, net, up, lastHeartbeat, activeAlarms, thread, table, heard>>

None  == -1
Ages  == 0 .. MaxAge
Older(age)  == IF age < MaxAge THEN age + 1 ELSE MaxAge
AddRow(n)   == IF n < MaxOpen THEN n + 1 ELSE MaxOpen
Known == {m \in Meters : lastHeartbeat[m] # None}

TypeOK ==
    /\ left \in [Meters -> 0 .. Heartbeats]
    /\ pause \in [Meters -> 0 .. Period]
    /\ net \subseteq [meter : Meters, age : 0 .. MaxTransit]
    /\ up \in BOOLEAN
    /\ lastHeartbeat \in [Meters -> Ages \cup {None}]
    /\ activeAlarms \subseteq Known
    /\ status \in {"asleep", "sampled"}
    /\ nap \in 0 .. Nap
    /\ currentTime \in 0 .. MaxDelay
    /\ openAlarms \in [Meters -> 0 .. MaxOpen]
    /\ missing \subseteq activeAlarms
    /\ leftover \subseteq Meters
    /\ heard \in [Meters -> Ages \cup {None}]

-----------------------------------------------------------------------------
(* The clock and the network.                                              *)

\* A second passes.  Sleeping threads may oversleep; a thread between reading the
\* clock and locking the mutex is held up for at most MaxDelay seconds.
Tick ==
    /\ status = "sampled" => currentTime < MaxDelay
    /\ pause' = [m \in Meters |-> IF pause[m] > 0 THEN pause[m] - 1 ELSE 0]
    /\ net' = {[d EXCEPT !.age = @ + 1] : d \in {e \in net : e.age < MaxTransit}}
    /\ lastHeartbeat' = [m \in Meters |-> IF m \in Known THEN Older(lastHeartbeat[m]) ELSE None]
    /\ nap' = IF nap > 0 THEN nap - 1 ELSE 0
    /\ currentTime' = IF status = "sampled" THEN currentTime + 1 ELSE 0
    /\ heard' = [m \in Meters |-> IF heard[m] = None THEN None ELSE Older(heard[m])]
    /\ UNCHANGED <<left, up, activeAlarms, status, table>>

\* A datagram is lost.
Lose(d) ==
    /\ d \in net
    /\ net' = net \ {d}
    /\ UNCHANGED <<client, up, lastHeartbeat, activeAlarms, thread, table, heard>>

-----------------------------------------------------------------------------
(* The client: main of udp_heartbeat_client.cpp.                           *)

StartClient(m) ==
    /\ left[m] = 0
    /\ left' = [left EXCEPT ![m] = Heartbeats]
    /\ pause' = [pause EXCEPT ![m] = 0]
    /\ UNCHANGED <<net, up, lastHeartbeat, activeAlarms, thread, table, heard>>

Send(m) ==
    /\ left[m] > 0 /\ pause[m] = 0
    /\ net' = net \cup {[meter |-> m, age |-> 0]}
    /\ left' = [left EXCEPT ![m] = @ - 1]
    /\ pause' = [pause EXCEPT ![m] = Period]
    /\ UNCHANGED <<up, lastHeartbeat, activeAlarms, thread, table, heard>>

-----------------------------------------------------------------------------
(* The server.                                                             *)

\* The receive loop stores the datagram's timestamp, newer or older than the last.
\* The mutex is free whenever the status thread is not inside Check.
Receive(d) ==
    /\ up /\ d \in net
    /\ net' = net \ {d}
    /\ lastHeartbeat' = [lastHeartbeat EXCEPT ![d.meter] = d.age]
    /\ heard' = [heard EXCEPT ![d.meter] = 0]
    /\ UNCHANGED <<client, up, activeAlarms, thread, table>>

\* The status thread wakes up and reads the clock, before it has the mutex.
Sample ==
    /\ up /\ status = "asleep" /\ nap = 0
    /\ status' = "sampled" /\ currentTime' = 0
    /\ UNCHANGED <<client, net, up, lastHeartbeat, activeAlarms, nap, table, heard>>

StrictDifference(m) ==              \* mutant: a heartbeat of this second is too old
    (lastHeartbeat[m] - currentTime + 1) % Wrap

\* currentTime - timestamp, in uint64_t.
Difference(m) == (lastHeartbeat[m] - currentTime) % Wrap

Online  == {m \in Known : Difference(m) <= Threshold}
Offline == Known \ Online

AlarmsUnheard(alarms) == Meters \ Online         \* mutant: the never heard are silent
StillActive(alarms) == alarms \cup Offline     \* mutant: a recovery is not erased

\* activeAlarms after a check: recovered meters leave, silent ones are in it.
Alarmed(alarms) == (alarms \ Online) \cup Offline

\* The meters for which a check executes a statement.
Reported  == Offline \ activeAlarms
Recovered == Online \cap activeAlarms

RetriesInsert(failed) == [m \in Meters |->      \* mutant: a row per check
    IF m \in Offline THEN AddRow(openAlarms[m])
    ELSE IF m \in Recovered \ failed THEN 0 ELSE openAlarms[m]]

\* insertAlarm adds a row; resolveAlarm updates every unresolved row of a meter, but
\* is called only for a meter in activeAlarms.  A statement that fails changes nothing.
AlarmRows(failed) == [m \in Meters |->
    IF m \in Reported \ failed THEN AddRow(openAlarms[m])
    ELSE IF m \in Recovered \ failed THEN 0 ELSE openAlarms[m]]

\* One pass over lastHeartbeat under the mutex, then two seconds of sleep.  The set in
\* memory changes whether or not the statements succeed.
Check ==
    /\ up /\ status = "sampled"
    /\ \E failed \in SUBSET (IF DbMayFail THEN Reported \cup Recovered ELSE {}) :
          /\ openAlarms' = AlarmRows(failed)
          /\ missing' = (missing \ Recovered) \cup (failed \cap Reported)
          /\ leftover' = (leftover \ Recovered) \cup (failed \cap Recovered)
    /\ activeAlarms' = Alarmed(activeAlarms)
    /\ status' = "asleep" /\ nap' = Nap /\ currentTime' = 0
    /\ UNCHANGED <<client, net, up, lastHeartbeat, heard>>

Crash ==
    /\ CrashAllowed /\ up
    /\ up' = FALSE
    /\ UNCHANGED <<client, net, lastHeartbeat, activeAlarms, thread, table, heard>>

\* Both containers start empty, the alarms table is the one of the last run.
Restart ==
    /\ ~up
    /\ up' = TRUE
    /\ lastHeartbeat' = [m \in Meters |-> None]
    /\ activeAlarms' = {}
    /\ status' = "asleep" /\ nap' = Nap /\ currentTime' = 0
    /\ missing' = {}
    /\ leftover' = leftover \cup {m \in Meters : openAlarms[m] > 0}
    /\ heard' = [m \in Meters |-> None]
    /\ UNCHANGED <<client, net, openAlarms>>

-----------------------------------------------------------------------------
Init ==
    /\ left = [m \in Meters |-> 0]
    /\ pause = [m \in Meters |-> 0]
    /\ net = {}
    /\ up = TRUE
    /\ lastHeartbeat = [m \in Meters |-> None]
    /\ activeAlarms = {}
    /\ status = "asleep" /\ nap = Nap /\ currentTime = 0
    /\ openAlarms = [m \in Meters |-> 0]
    /\ missing = {}
    /\ leftover = {}
    /\ heard = [m \in Meters |-> None]

Next ==
    \/ Tick
    \/ \E d \in net : Lose(d) \/ Receive(d)
    \/ \E m \in Meters : StartClient(m) \/ Send(m)
    \/ Sample
    \/ Check
    \/ Crash
    \/ Restart

\* The clock goes on, and the status thread wakes up and gets the mutex: nobody
\* holds it for good.  Nothing is assumed of clients and datagrams.
Fairness == WF_vars(Tick) /\ WF_vars(Sample) /\ WF_vars(Check) /\ WF_vars(Restart)

Spec     == Init /\ [][Next]_vars
FairSpec == Spec /\ Fairness

-----------------------------------------------------------------------------
\* An alarm is raised only for a meter from which no heartbeat has arrived in the last
\* five seconds ("Ako je heartbeat stigao u posljednjih 5 sekundi", the comment above
\* the comparison of udp_heartbeat_server.cpp).
NoFalseAlarm ==
    [][\A m \in activeAlarms' \ activeAlarms : heard[m] > Threshold]_vars

\* What the code keeps of it.  The time a datagram was under way is taken from the five
\* seconds, because the age of the newest to arrive is looked at, not its arrival; that
\* it may have overtaken, or been overtaken by, another costs no more than that.  A meter
\* heard more recently gets an alarm only if its heartbeat was stamped after the status
\* thread read the clock and stored before it got the mutex (lines 87 to 95).
FalseOnlyByDelayOrRace ==
    [][\A m \in activeAlarms' \ activeAlarms :
          heard[m] > Threshold - MaxTransit \/ heard[m] < currentTime]_vars

\* The set in memory and the table agree: a meter has one unresolved row while it is
\* in activeAlarms and none otherwise ("Alarm kreiramo samo jednom").  A failed INSERT
\* costs the one row, until the meter recovers; too many rows come from a failed
\* UPDATE or an earlier process only, and the next UPDATE that succeeds clears them.
OneOpenAlarm ==
    \A m \in Meters :
        LET rows == IF m \in activeAlarms THEN 1 ELSE 0
        IN  /\ m \notin missing  => openAlarms[m] >= rows
            /\ m \notin leftover => openAlarms[m] <= rows

\* A meter that was heard and then falls silent for good ends with an unresolved
\* alarm, however often it came and went before; only an INSERT that fails at the first
\* check that misses the meter prevents it, because it is not tried again.
Silent(m) == up /\ m \in Known /\ lastHeartbeat[m] = MaxAge
SilenceIsReported ==
    \A m \in Meters : <>[]Silent(m) => <>[](openAlarms[m] > 0 \/ m \in missing)

\* A check that finds a meter ONLINE leaves it without an unresolved alarm
\* (udp_heartbeat_server.cpp:127, "Ako je ranije postojao alarm, Smart Meter se
\* oporavio").
OnlineMeterHasNoOpenAlarm ==
    [][\A m \in Meters :
          status = "sampled" /\ status' = "asleep" /\ up /\ up' /\ m \in Online
             => openAlarms'[m] = 0]_vars
=============================================================================
