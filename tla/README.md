# Smart Grid protocol: formal model

TLA+ modules, model-checking configurations and machine-checked proofs for the
Smart Grid protocol implementation in `src/`. Run `tlc -config X.cfg M.tla` and
`tlapm M.tla` inside this directory.

## 1. The system

| Part | Source | State it keeps | Operations |
| --- | --- | --- | --- |
| Dynamic tariff | `calculateDynamicTariff` in `regional/server_async.cpp`, `regional/server_region2.cpp` | none | price from user type, local time, load and reduction |
| Regional servers | `regional/server_async.cpp` (region 1), `regional/server_region2.cpp` (region 2), `regional/device_registry.hpp` | registry, last power and last tariff per device, TLS socket to the central server, captured state of each connection's handlers | accept, register, report, sample, command, tariff, synchronisation with the central server |
| Database | `database/database.hpp` | tables devices, consumption, tariffs, commands, alarms, central consumption | inserts, alarm update, printing queries |
| Smart Meter client | `smart_meter/client_async_test.cpp` | position in a cycle of five reports | register, report, wait two seconds for a command or a tariff, reduce |
| Central server | `central/sync_server.cpp` | one database connection under a mutex, one thread per region | store a `REGION_SYNC`, print the totals, acknowledge |
| Heartbeat service | `regional/udp_heartbeat_server.cpp`, `smart_meter/udp_heartbeat_client.cpp` | last timestamp per meter, active alarms | receive, check every two seconds, raise and resolve alarms |
| Web monitoring | `web_monitoring/server.cpp` | none | read the central database, print HTML |
| Protocol codec | `protocol/smart_grid_protocol.hpp` | none | serialise and deserialise the messages |
| Basic pair | `regional/server_basic.cpp`, `smart_meter/client_basic.cpp` | loop counter, the position in a blocking conversation | register, five reports |
| PQC TLS settings | `security/pqc_tls.hpp` | none | configure an OpenSSL context |

Meters speak TLS to the server of their region, one connection each, in
request/answer order except for the server's own `REDUCE_CONSUMPTION_CMD` and
`TARIFF_UPDATE`. A regional server is one thread running completion handlers; its
handlers interleave per connection and share the registry, the load map, the tariff
map and the database connection. It forwards each measurement to the central server
over one TLS connection, synchronously, inside a meter's handler. The central server
has one thread per region and writes a database that the web monitor reads. Heartbeats
are separate UDP datagrams.

### What is hard in it

* **Interleaving and stale state.** The load that decides about a reduction and a price
  is captured when the fifth report arrives and used several messages later.
* **Sessions.** Load, tariff and command state belong to a device, not to a connection;
  correctness depends on there being one connection per device, and on who remembers
  which price across lost connections.
* **Partial failure.** The result of every INSERT is ignored; the exchange with the
  central server may throw in the middle of a handler.
* **Two transcripts of one thing.** Layout and length of a message are written down in the
  serializer and again in the deserializer; the two loops of the basic pair each count to
  five.
* **Restart.** Maps start empty, tables and the meters' knowledge remain.
* **Timeouts.** The meter stops waiting after two seconds while the server may answer
  later; messages carry no number that would let either side resynchronise.
* **Time.** Unsigned seconds, a clock read before a lock, cheap hours around midnight.

### What makes each part correct

* Tariff: a proved reduction always pays off, the price follows the load, both regions
  charge alike, the cheap hours are those of the comments.
* Regional server: one session per meter; the remembered price is the one the meter was
  told; a discount is backed by an accepted command and a measurement; the load agrees
  with the database; every report is answered.
* Heartbeat: an alarm only for a meter that was not heard (as far as the network and the
  race below allow), one open alarm per silent meter, every silence reported.
* Meter and session: client and server stay in step and the displayed price is the
  remembered one until a wait misses a message; a meter never waits for ever.
* Central server: one thread at a time in the database, what is acknowledged is stored,
  one silent region does not stop the other, a page shows a state of the database.
* Codec: what is written is read back, and the announced length is what follows.
* Basic pair: reports arrive intact and in lock step however TCP cuts them, neither program
  leaves the other in the middle, and both end.

## 2. Modules

### SmartGridTariff

`calculateDynamicTariff` as pure operators. Powers are counted in half kilowatts and
prices in hundredths of a KM, so every double the code compares or rounds is an exact
integer; no product the code rounds is near a tie. The function is written twice in the
source and translated twice here, each time from its own program: `Band1`,
`HouseholdHours1`, `IndustryHours1`, `LowerTariff1`, `BasePrice1`, `DynamicTariff1` from
`server_async.cpp`, and the same names with a 2 from `server_region2.cpp`, which tests the
hours in another order and treats a user type that is neither 1 nor 2 in another way.
`DynamicTariff(region, ...)` is what the handlers of `RegionalServer` call. The properties
(`ReductionPaysOff`, `PriceFollowsLoad`, `RegionsAgree`, `CheapHoursOfADay`) are about
constants and range over every hour of a week in winter and summer time (`Instants`).
`RegionalServer` states them of the server whenever a price is on its way to a meter
(`Pricing`), as `DiscountPaysOff`, `PricesFollowLoad`, `RegionsChargeAlike` and
`CheapHoursHold`; the run `region1` checks those.

### RegionalServer

One process of either region. An action is one completion handler up to the next
asynchronous operation it starts.

| State | Code |
| --- | --- |
| `conn[c].stage` | the operation the connection waits for: `await...` an `async_read`, `write...` an `async_write`, `syncing`/`syncingReduced` the blocking exchange with the central server |
| other fields of `conn[c]` | what the handler's lambda captured: `count` reportCount, `uri` the URI of the request or report, `band` the captured `networkLoadKw` up to the comparisons made with it, `reduced` reductionSuccessful, `price` the tariff being sent |
| `registry`, `latestPower`, `lastTariff` | `deviceRegistry`, `latestPowerByDevice`, `lastTariffByDevice` |
| `link` | `centralSocket`: null, usable, or open but broken |
| `dbDevices`, `dbPower`, `dbCommand`, `dbTariff` | the tables, by the newest row of a device |
| `told` | history: last `TARIFF_UPDATE` written on the connection |

`Accept`, `Handshaken`, `HandshakeRefused` are `acceptClient`; `Register`,
`RegisterAckWritten` are `handleClient`; the others are `readConsumptionReport`.
`SendTariff` is the lambda `sendTariff`; region 1 stores the price before the write,
region 2 in its completion (`TariffWritten`). `ThreadFree` is the single `io.run()`
thread: nothing runs while a connection is in a blocking stage. The read of the header
and of the payload are one action, because nothing changes between them.

The meters are an open environment: any well-formed message in any stage, any failing
operation at any time. The servers do not compare the URI inside a report with the
registered one; the constant `ReportUris` says which URIs a meter uses, and the runs
take the meter's own, as the client does. Not modelled: malformed messages, memory and
descriptor exhaustion, wording of the output.

**TariffService** is what the meters are promised, without registry, maps, handlers or
failures: exclusive sessions that count cycles of measurements and announce a price at
the end of a cycle, and only if it is a new one. `Service` in `RegionalServer` is the
refinement mapping: a session is a connection whose meter the registry admitted, the
measurements collected are `count`, plus the one whose acknowledgement is still owed
(`Collected`), and the announced price is the last one written on the connection.
`RefinesTariffService` says that every step of the server, in either region and through
every failure, is a step of the service or none.

A connection that the code abandons without closing (the socket dies with the last
reference to it) and one it closes are the same here: the slot becomes free.

### Heartbeat

Client, datagrams (lost, late, reordered), receive loop and status thread. Timestamps
are represented by their age, saturated at `MaxAge`, so that the model runs for ever and
liveness is not cut by a bound. The status thread reads the clock (`Sample`) and only
then takes the mutex (`Check`); `MaxDelay` bounds how long it can be held up in between.
`Wrap` stands for 2^64, the modulus of the unsigned difference.

`heard` is history: the seconds since the last datagram of a meter arrived, whatever its
stamp. What a user understands by a false alarm is a statement about `heard`
(`NoFalseAlarm`: no alarm within five seconds of a heartbeat), and the code does not keep
it, for two reasons. A heartbeat that is stamped after the clock was read makes the
unsigned difference wrap (`HeartbeatRace`), and a heartbeat that was late, or was
overtaken and then overwrote the newer timestamp, makes a meter look older than it is
(`HeartbeatLate`). `FalseOnlyByDelayOrRace` says that there is no third reason, and that
the second costs no more than the longest time a datagram is under way.

With `DbMayFail` any of the INSERTs and UPDATEs of a check may fail while `activeAlarms`
changes all the same, as in the code, which ignores their result. `missing` and `leftover`
are history: the active alarms whose row was never written, and the rows that a failed
UPDATE or a previous process left open. The alarm properties say that memory and table
differ by exactly these.

### SmartMeter and MeterSession

`SmartMeter` is the client program, sequential and blocking: `meter[m].state` is the place
where `main()` waits, and an action runs from there to the next such place. What matters
about it is what it lets pass: a message of another type in the place of an
acknowledgement (`ReadAck`, `ReadReducedAck`), and a wait that ends with a message unread
(`WaitTimesOut`). That happens when the message is late, but also when it has come in time
together with the acknowledgement before it: the TLS layer has then taken both off the
socket, has deciphered the first only, and neither test of `waitForTlsData` sees the
second. The model does not tell the two apart, since the client cannot.

`MeterSession` puts meters and a `RegionalServer` together. `inbox` and `outbox` are the
two directions of a connection. Where `RegionalServer` lets its environment send any
message at any time, here the message is the head of `outbox`; a handler of the server
that enters a `write...` stage appends its message to `inbox` (`Post`). The environment
actions of `RegionalServer` remain only where the client program causes them. So the runs
of `RegionalServer` show what the server guarantees with any client, those of
`MeterSession` what the two programs do together.

`missed` is history: a wait of the present process of a meter ended while a message for it
was unread or could still come. What is lost by such a wait is stated (`LateTariff`,
`LateCommand`), and so is what is kept until there is one (`InStep`, `PriceShown`) and
what is kept even then (`NobodyStuck`, `AcceptedIsReduced`, `OnlyCommandsFail`,
`WaitingEnds`).

| Client | Server |
| --- | --- |
| `Connect`, `RequestRegistration`, `ReadRegisterAck` | `Accept`, `Handshaken`, `Register` |
| `SendReport` (sample and report), `ReadAck` | `SampleReceived`, `ReportReceived` to `ReportAckWritten` |
| `ReadCommand` (answer and new report), `ReadReducedAck` | `CommandWritten`, `CommandAccepted`, `ReducedReportReceived`, `ReducedAckWritten` |
| `ReadTariff`, `WaitTimesOut` | `SendTariff` inside `ReportAckWritten` or `ReducedAckWritten`, `TariffWritten` |

One connection per meter: the next process of a meter connects when the server has
finished with the previous connection. Overlapping connections of one meter are the
subject of the `RegionalServer` runs.

### CentralServer

The accept loop (`backlog`, `greeting`: the handshake is synchronous), one thread per
connection (`thread[c].stage`: reading, waiting for the mutex, inserting, aggregating,
acknowledging), the regions' ends of the connections, and the web monitor. The regional
server is reduced to what it does with this connection: connect at start, write a
`REGION_SYNC`, block for the answer; `SendThrows` and `SyncThrows` are the exceptions,
which end the process after a regular report and are caught after a reduced one. With
`SilenceAllowed` the host of a region may vanish without closing the connection, in its
handshake, between two reports or while its thread works on a report, and it stays away.
The database is the number of rows per region. SQLite's file locking decides between the
server and the monitor, since neither sets a busy timeout: an insert that commits while a
query is read fails, and a query prepared or started while an insert commits is refused
or delivers no row.

**CentralStore** is the promise to the regions while no monitor reads: a submitted
measurement is stored at most once and confirmed at most once, after it was stored;
anything under way may be forgotten, what is stored stays. `Store` in `CentralServer` maps
the measurements on the wire and in the threads before the insert to `pending`, those
behind it to `unconfirmed`, the rows to `stored` and the acknowledgements received to
`confirmed`; `RefinesCentralStore` is the refinement.

Not modelled: a central host that hangs without closing its connections (the regional
server's read has no timeout, so it would wait for ever), HTTP sessions, HTML, messages
other than `REGION_SYNC`
(the loop reads and ignores them; no program of the repository sends them).

### WireFormat and BasicPair

`WireFormat` is the protocol header. For each message it holds the announced length, the
fields the serializer appends and the fields the deserializer copies out, transcribed
from the three places where the code has them. A byte is "byte number `at` of the value
`value`": a load yields the value if the bytes are those of one value in order and
`Garbage` otherwise, so a missing `htobe64`, two swapped fields and a wrong offset all show.
The width of a field is `SizeOf`; `HostByte` is the byte order of a little-endian host.
`Encode` puts the bytes of one field behind those of the other, as the `insert` calls do,
and `Offset` adds up the `offset += sizeof` of a deserializer; both are written out for up
to five fields, which is the most a message has. The two statements, `RoundTrip` and
`SelfDelimiting`, are checked in the run `basic_pair` while the server serves, as
`MessagesSurvive` and `MessagesDelimited`; the second also has `Formats`, what the readers
of `BasicPair` make of its four messages. All three are proved (section 4). Names of the
source are kept, but for `HeartbeatMessage`.

`BasicPair` runs `server_basic` and `client_basic` over two byte streams per connection.
`client[c]` and `server` are the places where the two `main()` functions block; an action
runs from one `asio::read`, `asio::write` or sleep to the next.

| Action | Code |
| --- | --- |
| `StartServer`, `Accept`, `ReadHeader`, `Register`, `Report` | `server_basic.cpp` up to `accept`, the two header reads, the two payload reads with what follows |
| `Exit`, `ReadThrows` | the end of `main`, the `catch` block |
| `Connect`, `SendRequest`, `ReadRegisterAck` | `client_basic.cpp` up to the loop |
| `SendReport`, `ReadConsumptionAck`, `Wake` | the loop body; `ReadAckHeader` serves both acknowledgements |
| `AckThrows` | the `catch` block |
| `DeliverUp`, `DeliverDown` | TCP |

A client that connects while another one is served is in `backlog`: it sends its request
and waits until the server process ends. A killed process takes unread bytes with it or
not. `cut` is history: the connection was refused, reset in the backlog, or its server was
killed. A client that is killed and comes back while the server still holds its old
connection is another member of `Clients`.

## 3. Runs

| Run | Question and result |
| --- | --- |
| `region1` | two meters, two connections, two-report cycles, lost connections, a dying central server, kills and restarts: sessions, discounts, prices and load are consistent, only another meter outdates the load that a decision waits with, and `TariffService` is implemented; the four statements about the tariff, at every hour of a week in winter and summer time, for five user types (435,774 states, 1.5 minutes) |
| `region2` | the other program: five reports, an industry, a change of hour, failing INSERTs: prices and `TariffService` do not depend on the database (459,648 states, 1 minute) |
| `central_lost` | *refuted*: a report is not answered because the process ends |
| `session_step` | a client of either type and region 1: lost connections, kills, prices that change with the hour, waits that miss a message: until one does, neither end finds a message it does not expect, and the price displayed is the one remembered (163,369 states) |
| `session_late` | region 2, the same waits and kills: both ends may lose step but never wait for each other; an accepted command is followed by a measurement within the target; only a server that waits for `COMMAND_ACK` drops a connection; whoever waits for an answer gets it or the end of the connection (27,749 states) |
| `late_command` | *refuted*: a late command is taken for an acknowledgement and never confirmed |
| `heartbeat_alarms` | losses, delays, datagrams that overtake each other, failing alarm statements, a status thread held up, crashes: alarms in memory and table differ only by what failed or was left by a crash; a meter gets an alarm only when nothing has arrived from it for five seconds less the longest delay, or through the race of `heartbeat_race`; a meter silent for good ends with an open alarm unless its INSERT failed (137,278 states) |
| `heartbeat_race` | *refuted*: with one second between `Sample` and `Check` a live meter is reported offline |
| `central_sync` | two regions, any process dying, and region hosts that vanish without closing while connecting, between reports or during an exchange: one thread in the database, acknowledged rows are there, `CentralStore` is implemented, whoever waits for `REGION_SYNC_ACK` gets it or an exception, and only a silent handshake keeps a region out (213,732 states, 2 minutes) |
| `central_monitor` | the two queries of a page never count a row that the later table lacks |
| `lost_row` | *refuted*: status 1 for a row that SQLite refused because the monitor was reading |
| `basic_pair` | every message survives its round trip and announces its length; two clients and a server, kills on both sides: reports arrive intact and in order, acknowledgements in lock step, nobody fails whose server was not killed or busy to its end, everybody ends (22,540 states, 1.5 minutes) |

More counterexamples, each reproducible with the .cfg of its name:

| Configuration | Module | Refuted statement |
| --- | --- | --- |
| `AckWithoutRow` | `MCRegionalServer` | `AcknowledgedIsStored`: a measurement acknowledged with status 1 has its row (README.md:118 of the repository); the result of the INSERT is ignored |
| `StaleLoad` | `MCRegionalServer` | `ReduceOnlyUnderHighLoad` (server_async.cpp:692): the load was captured two messages earlier |
| `Reregistration` | `MCRegionalServer` | `LoneMeterIsRegistered` (what tests 04 to 06 expect of meter 001): a URI is never removed from the registry |
| `HeartbeatRestart` | `MCHeartbeat` | `OnlineMeterHasNoOpenAlarm` (udp_heartbeat_server.cpp:127): the alarm of a previous process stays unresolved |
| `HeartbeatLate` | `MCHeartbeat` | `NoFalseAlarm` (the comment above the comparison in udp_heartbeat_server.cpp) without the race: an overtaken or late heartbeat makes a meter look silent that was just heard |
| `LateTariff` | `MCMeterSession` | `PriceAlwaysShown` (README.md:109 of the repository): a price that a wait misses is never displayed, and not sent again |
| `SilentPeer` | `MCCentralServer` | `AllConnect` (sync_server.cpp:221): one silent peer keeps the others in their handshake for ever |
| `EmptyPage` | `MCCentralServer` | `EmptyMeansEmpty`: "no measurements" (web_monitoring/server.cpp:182) below totals that count some |

**Bounds.** The regional model has no counter but `count`, so its state space is finite
as it is. Two meters are needed for a region to be under high load with powers that are
not high on their own, and for one to lower the load of the other; two slots let a meter
come back while its first connection is open. `ReportsPerCycle` is 2 in the two-meter
runs, so that a cycle has a first and a last report, and 5 elsewhere. The powers
2 and 12 (1 and 6 kW) reach all three load bands and lie on both sides of the 1.5 kW
target. In `Heartbeat`, `MaxAge` exceeds threshold, delay and time under way together, so
saturated ages are all equally "old"; `MaxOpen = 2` tells "one" from "more than one"; the
meters are independent of each other. In `MeterSession`, `MaxUnread` is the number of
messages that may be unread, at either end, when a wait ends: it bounds how far the meter
falls behind. 0 is a message that is still to be written; 1 is a late tariff or command
that is answered in place of an acknowledgement; 2 lets it happen again while the first is
still in the pipe. Powers 2, 12 and 24 give an industry a report under the target, one
above it, and one that puts the region under high load. `session_step` has two hours with
different prices. With late answers a price that changes again and again makes the two
ends drift further apart with each tariff; in cycles of five that is more than ten million
states, so `session_late` has one hour (a connection is sent one tariff, besides any number
of commands) and `session_step` cycles of two. One meter is enough for both: what a meter
and its server say to each other depends on the others only through the load, which the
powers set. In `CentralServer`, `MaxSyncs` is the number of reports a region forwards: 2
tells a second row from the first; with two `Slots` a region comes back while its old
thread still works on the last report, and two threads compete for the mutex.

In `HeartbeatAlarms.cfg` a datagram is under way for up to 3 seconds: less than the five
between two heartbeats of one process, but the next process of a client may follow at
once, so the last heartbeat of one and the first of the next can arrive in the wrong
order. `HeartbeatLate.cfg` has 6 seconds, where those of one process do. In
`BasicPair.cfg` a reader finds 3 bytes, less than a header, or everything that was sent; a
third size only adds more ways to wait for the rest. Two clients are one that is served
and one that waits.

**Fairness.** `basic_pair`: a program that can go on does, TCP delivers what was written;
nobody need start or kill a program.
`heartbeat_alarms`: time passes, and the status thread, which sleeps and
then takes a mutex nobody keeps, goes on; the process is restarted after a crash. Nothing
is assumed of clients and datagrams.
`session_late`: ready handlers run in the order in which they became ready (strong
fairness per meter, because the handlers of other meters interrupt), the exchange with the
central server ends, a blocking read returns when there is data. Nothing is assumed of
new processes or of what breaks a connection.
`central_sync`: threads that can run do; a thread gets the mutex eventually (strong
fairness: the others leave it for a round trip over the network); a peer that is not
silent takes part in its handshake; an exception is not put off. The monitor, the arrival
of reports and every crash are unconstrained.

**Mutants.** Definitions marked `mutant` in the modules are plausible mistakes in the
definition next to them; replacing that definition by its mutant violates the property
it is listed with in `PROJECT.json`. No action of the model uses them.

## 4. Proofs

Every theorem holds for all values of the constants: any number of meters, connections,
regions, powers, instants and reports in a cycle. The constants have the assumptions that
their modules name (types, `SlotsAssumption`: a process has finitely many descriptors).
Some theorems assume more, and say so:

* `OwnUris` (in `RegionalDecisionProofs`): a meter puts its own URI into its reports, as the
  client program does. In the composition with that program it is not assumed, but follows
  from `SessionAssumption`.
* `Reliable`: no INSERT fails. The code ignores the results, so without it the statements
  about the database are false (`AckWithoutRow`).
* `SameCycle` (in `SessionStepProofs`): client and server count the same reports in a
  cycle, as they do (five, each in its own source).
* `~MonitorRuns`: the central database has no second reader, the case in which `AckedIsStored`
  and `CentralStore` hold; `lost_row` is the other one.

| Module | Theorems | Argument |
| --- | --- | --- |
| `RegionalServerProofs` | `TariffInRange`, `ReductionLowersPrice`, `PriceRisesWithLoad`, `RegionsHaveOneTariff`, `CheapHoursAreThoseOfTheComments` | about the tariff: the base price is one of four, and the rest is finite arithmetic; the cheap hours are a case analysis over 24 hours, both times and both user types |
| | `TypeCorrect`, `SessionsAreExclusive`, `DiscountsPay`, `BandsCostMore`, `RegionsAlike`, `CheapHoursAnnounced` | `SessionsInv`, below; the last four follow from the theorems about the tariff |
| `RegionalDecisionProofs` | `MetersKnowTheirPrice`, `PricesAreNotRepeated`, `ServersImplementTariffService` | `PricesInv`, `CyclesInv` |
| | `LoadIsInDatabase`, `DiscountsAreEarned`, `StaleLoadIsAnothersDoing` | `LoadInv`, `DiscountsInv`, `SessionsInv` |
| `HeartbeatProofs` | `HeartbeatTypes`, `AlarmsMatchTable`, `AlarmsNeedSilence` | `OneOpenAlarm` is inductive with the types; `HeardInv` |
| `CentralServerProofs` | `MutualExclusion`; `CentralTypes`, `AcksAreForRows`, `CentralServerImplementsStore`, `PagesAreNeverAhead` | `MutexInv`; `StoreInv`, `PageInv` |
| `MeterSessionProofs` | `SessionTypes`, `SessionsAreServed`, `AcceptedMeasurementsAreReduced`, `LatenessFailsCommandsOnly`, `NobodyIsStuck` | `EndsInv`, `ConversationInv` |
| `SessionStepProofs` | `StepIsKept`, `DisplayedPriceIsCurrent` | `SteppingInv`, `DisplayInv` |
| `WireFormatProofs` | `SerializedMessage`, `EveryMessageSurvives`, `EveryMessageDelimitsItself` | about the codec: each part of a buffer stays where it was appended, below |
| `BasicPairProofs` | `ConversationIsFramed`, `CompiledFormatsSurvive`, `CompiledFormatsDelimit` | the same, for the messages of the pair |
| | `ProgramsStayInLockStep`, `NobodyFailsUncut`, `PrintedIsSent`, `PairTypesHold`, `NeitherWaitsForTheOther` | `PairInv`, which uses `ConversationIsFramed` |

The inductive invariants and why they are needed:

* **`SessionsInv`.** That no two connections serve one meter is not inductive alone. A
  served meter is in the registry, a connection that is not served has been told no price
  and is in an early stage, and a process that does not run has no connection (a restart
  clears the registry, so no session may survive it). A step of one connection that
  registers nobody keeps it (`SessionStep`); registration is the interesting case.
* **`PricesInv`** says what map and meter hold while a tariff is being written, for each
  region, and that the map has no price for a meter outside the registry: that is why a
  registration starts with an agreeing (empty) pair, and why the registry's refusal of a
  second registration, a nuisance for users, is what makes skipping sound.
* **`CyclesInv`** is what the refinement of `TariffService` needs besides: `count` is zero
  before a registration, and a tariff that is being written has a price. The refinement
  itself has one case per action: `Open` for the registration (guarded by
  `OneSessionPerMeter`), `Collect`, `Announce` or the silent end of a cycle, `End`, or a
  stutter (`HiddenStep`).
* **`LoadInv`**: whoever is in the registry has its row in `devices`; whoever counts in
  the load is in the registry, and its newest row is what it counts with.
* **`DiscountsInv`** follows a connection on the way to a discount: high band from the
  command on, an accepted command from the acknowledgement on, a row within the target
  from the reduced report on. Nobody else changes those rows because nobody else serves
  this meter (`SessionsInv`) or reports under its URI.
* **`HeardInv`**: the timestamp of a meter, though an older one may have overwritten it, is
  never older than the last arrival by more than the longest time under way. That and the
  case in which the unsigned difference wraps is all that an alarm can come from.
* `StaleLoadIsAnothersDoing` needs no invariant but `SessionsInv`: while a connection
  waits with a captured band, a step that changes the load measures at another connection,
  and that one serves another meter; the end of a session changes no load.
* **`MutexInv`** has the types of threads, regions and backlog, because a step that
  concerns one connection must be shown to leave the others alone.
* **`StoreInv`** adds `ConnectionsInv` (which thread is at the other end of which region's
  connection, so that a region has one measurement under way at most) and `CountsInv`: the
  measurements under way, stored and confirmed never exceed those sent. `Pending` and
  `Unconfirmed` are cardinalities, so each step of a thread moves one element from one
  finite set to the next.
* **`PageInv`**: tables only grow, so what the first query counted is there when the
  second one runs, unless that one meets a lock.
* **`EndsInv`** has the types of both ends, the server's invariants, and that a running
  client got its user type on the command line. `SessionsAreServed` shows that meters as
  the client program makes them are one of the environments that `RegionalServer` allows
  for, so the theorems about `RegionalServer` hold in the composition.
* **`ConversationInv`** says what is left of the conversation when messages are late:
  before the registration one request or one answer is under way and nothing else
  (`Opening`); a command is under way, or its confirmation with the reduced measurement
  right behind it, only while the server waits for it, and only one of the two
  (`Commanding`); the server expects the proof from the meter that it commanded (`Proving`);
  for a meter that waits for an acknowledgement a message has arrived, the server works
  on its report, or a report is the last thing on its way (`Answering`). It does not say
  how many acknowledgements are under way: with late answers that has no bound but
  `MaxUnread`. The lemmas `MeterMoves` to `RequestSent` are about one conversation as four
  values (record, state, two channels); the lemmas after them show which action does which.
* **`SteppingInv`** is that table for the meters whose waits have missed nothing
  (`Matched`): for each place where the meter waits, the stages in which its server can be
  and the messages between them, at most two in a channel. While both ends are there a row
  of the table holds (`Together`); when the meter is gone, what it left is what the server
  can still read (`LeftToServer`), and when the server is gone, what it left is what the
  meter can still read (`LeftToMeter`). `Proceeds` and `Takes` say in terms of one
  conversation what a step of the server does to it, so that the table is gone through
  once per kind of step and not once per action.
* **`DisplayInv`**: while a meter is served, the price on its display, or the
  TARIFF_UPDATE on its way to it, is the price that the server has told it; that this is
  the one the server remembers is `PricesInv`.
* **The codec** has no state, so no invariant: the argument is about buffers. `Holds(b, o, p)`
  says that part `p` lies in buffer `b` behind its first `o` bytes. What is appended lies
  at the end (`AppendedLast`), appending moves nothing that is there
  (`AppendingMovesNothing`), so each field lies behind the widths of those before it
  (`PartsInOrder`), which is where the running offset of the deserializer looks
  (`FieldAtItsOffset`). Hence `EncodedIsDecoded`: any list of at most five known fields,
  in any order, with any values, is read back, whatever follows in the buffer. What
  is left to show of each of the eleven messages is that both of its functions name the
  same fields in the same order and byte order, and that the announced length is the sum
  of their widths (`MessageLayouts`). `RoundTrip`, which TLC evaluates, has one value per
  field; `SerializedMessage` has all of them. That five is enough is part of
  `MessageLayouts`.
* **`PairInv`** (`BasicPair`) keeps of a stream only the sequence of its unread bytes
  (`All`), which a delivery does not change, so the fragmentation drops out at once. A
  reader has before it nothing, a whole message, or the payload whose header it has read
  (`Unread`). For each client the invariant says which of these each side finds
  (`ClientView`, `ServerView`), whose turn it is while both are there (`Together`), what a
  client in the backlog has written (`Queued`), and that one the server has let go of was
  cut or holds its last acknowledgement (`Away`): that is `FailsOnlyWhenCut`. The value
  lemmas `ClientRequests` to `ServerLeaves` go through that table once per message; those
  from `SendRequestKeeps` on show which action does which. `Together` also gives
  `NeitherWaitsForTheOther`, which no run checks by itself: whoever's turn it is has all
  that it waits for arrived or under way. It is what `ClientEnds` and `ServerEnds` rest on
  besides fairness.

Only model-checked: the six liveness properties (`WaitingEnds`, `SilenceIsReported`,
`SyncEnds`, `ConnectEnds`, `ClientEnds`, `ServerEnds`), which are out of the prover's reach,
as is ENABLED. `TariffService` and `CentralStore` state no fairness, so the refinement
theorems are about all that these promise.

## 5. Disagreements between the code and what the repository says

See "findings" in `PROJECT.json`: the process that ends when the central server is gone, a
late command that is lost, the false offline alarm, the acknowledged row that SQLite
refused. The second table of section 3 lists the others.

## 6. Not modelled

* `printConsumptionByRegion` and `printConsumptionHistory` of `database.hpp`: queries that
  change nothing and that only `database_test.cpp` calls; the CREATE TABLE statements.
* HTTP sessions and HTML of the monitor: each request is independent and keeps no state;
  what can go wrong in a page, the two queries, is in `CentralServer`.
* `security/pqc_tls.hpp` and the certificates: library settings.
* Tests, benchmarks, `main.cpp`, `asio_test.cpp`: drivers and samples, read for what they
  expect of the programs.
* Malformed and foreign messages: the models use the messages the programs of the
  repository send.

## 7. Plan

The components with behaviour of their own are modelled, and every safety invariant and
action property that the passing runs check is proved for all values of the constants. What
would come next is more of the code and not more about this model: the queries of
`database.hpp` that only its test calls, should a program begin to use them, and the
reconnection of a meter (`Reregistration`), once the registry has an operation that removes
one.
