---------------------------- MODULE CentralServer ----------------------------
(***************************************************************************)
(* The central server, central/sync_server.cpp, with the ends of the       *)
(* connections that the regional servers hold to it (connectToCentralServer*)
(* and the REGION_SYNC exchange of readConsumptionReport) and the monitor, *)
(* web_monitoring/server.cpp, which reads the same SQLite file.            *)
(*                                                                         *)
(* The main thread accepts a connection and performs the TLS handshake     *)
(* before it accepts the next one; each connection then has a thread of    *)
(* its own.  The threads share one database connection under a mutex.  The *)
(* monitor is another process: SQLite's file lock is all it shares, and no *)
(* side waits for it (the busy timeout is 0).                              *)
(***************************************************************************)
EXTENDS Integers, Sequences, FiniteSets

CONSTANTS
    Regions,        \* source_region values, one regional server each
    Slots,          \* connections that exist at the same time
    NoSlot,
    NoRegion,
    MaxSyncs,       \* bound: reports a region forwards
    MonitorRuns,    \* TRUE: the web monitor is running
    SilenceAllowed  \* TRUE: a region may fall silent with its connection open

ASSUME NoSlotAssumption       == NoSlot \notin Slots /\ NoRegion \notin Regions
ASSUME SlotsAssumption        == IsFiniteSet(Slots)   \* descriptors of the process
ASSUME MaxSyncsAssumption     == MaxSyncs \in Nat
ASSUME CentralFlagsAssumption == MonitorRuns \in BOOLEAN /\ SilenceAllowed \in BOOLEAN

VARIABLES
    up,        \* the central server is in its accept loop
    backlog,   \* connections established by the kernel and not accepted yet
    greeting,  \* the connection in the synchronous handshake
    thread,    \* per connection: its peer, and where its thread is
    mutex,     \* centralDatabaseMutex
    region,    \* per region: its connection, and where its program is
    rows,      \* table central_consumption: rows per region
    monitor,   \* the page that the monitor is generating
    sent,      \* history: REGION_SYNCs a region has written
    acked      \* history: REGION_SYNC_ACKs a region has read

server  == <<up, backlog, greeting, thread, mutex>>
history == <<sent, acked>>
vars    == <<server, region, rows, monitor, history>>

-----------------------------------------------------------------------------
\* queued: in the backlog; greeting: in the handshake; then handleRegionalServer.
Stages == {"none", "queued", "greeting", "reading", "locking",
           "inserting", "aggregating", "acking"}

\* down: no process; connecting: in connectToCentralServer; broken: running with a
\* socket that is open and useless; syncing: waits for REGION_SYNC_ACK.
RegionStates == {"down", "connecting", "silent", "broken", "idle", "syncing"}

NoThread == [stage |-> "none", source |-> NoRegion, peerOpen |-> FALSE, unread |-> FALSE]
Threads  == [stage    : Stages,
             source   : Regions \cup {NoRegion},  \* source_region of what it carries
             peerOpen : BOOLEAN,                  \* the region has not closed its end
             unread   : BOOLEAN]                  \* a REGION_SYNC is in the socket

\* What came of the queries: loadMonitoringData makes the totals of a page and
\* loadLatestMeasurements its table.  refused: not even prepared; busy: no row was
\* delivered; both are SQLITE_BUSY, at two different calls.
QueryNames == {"totals", "table"}
Outcomes   == {"none", "refused", "busy", "read"}

NoPage == [stage |-> "idle", query |-> 1, outcome |-> [q \in QueryNames |-> "none"],
           counted |-> [q \in QueryNames |-> [r \in Regions |-> 0]]]
Pages  == [stage   : {"idle", "prepared", "reading", "shown"},
           query   : {1, 2},
           outcome : [QueryNames -> Outcomes],
           counted : [QueryNames -> [Regions -> 0 .. MaxSyncs]]]

CentralTypeOK ==
    /\ up \in BOOLEAN
    /\ backlog \in Seq(Slots)
    /\ greeting \in Slots \cup {NoSlot}
    /\ thread \in [Slots -> Threads]
    /\ mutex \in Slots \cup {NoSlot}
    /\ region \in [Regions -> [state : RegionStates, slot : Slots \cup {NoSlot}]]
    /\ rows \in [Regions -> 0 .. MaxSyncs]
    /\ monitor \in Pages
    /\ sent \in [Regions -> 0 .. MaxSyncs]
    /\ acked \in [Regions -> 0 .. MaxSyncs]

Stage(c, stage) == thread' = [thread EXCEPT ![c].stage = stage]

\* The thread of connection c ends, which closes the server's end.
Ended(c) == thread' = [thread EXCEPT ![c].stage = "none", ![c].unread = FALSE]

Enter(r, state) == region' = [region EXCEPT ![r].state = state]

Leave(r, state) == region' = [region EXCEPT ![r] = [state |-> state, slot |-> NoSlot]]

\* The monitor is inside a SELECT and holds SQLite's shared lock.
SharedLock == monitor.stage = "reading"

\* The central server is inside an INSERT, whose commit locks out every reader.
Committing == \E c \in Slots : thread[c].stage = "inserting"

\* The server's end of the connection of region r is closed.
ServerGone(r) == region[r].slot # NoSlot /\ thread[region[r].slot].stage = "none"

-----------------------------------------------------------------------------
(* main: the accept loop.                                                  *)

Accept ==
    /\ up /\ greeting = NoSlot /\ backlog # <<>>
    /\ greeting' = Head(backlog)
    /\ backlog' = Tail(backlog)
    /\ Stage(Head(backlog), "greeting")
    /\ UNCHANGED <<up, mutex, region, rows, monitor, history>>

\* The peer takes part: a thread is started for the connection.
HandshakeDone(r) ==
    /\ greeting # NoSlot /\ region[r] = [state |-> "connecting", slot |-> greeting]
    /\ Stage(greeting, "reading")
    /\ greeting' = NoSlot
    /\ Enter(r, "idle")
    /\ UNCHANGED <<up, backlog, mutex, rows, monitor, history>>

LoopEnds == greeting               \* mutant: no try block around the handshake

LoopGoesOn == NoSlot

\* The peer has gone: the exception is caught and the loop goes on.
HandshakeFails ==
    /\ greeting # NoSlot /\ ~thread[greeting].peerOpen
    /\ Ended(greeting)
    /\ greeting' = LoopGoesOn
    /\ UNCHANGED <<up, backlog, mutex, region, rows, monitor, history>>

-----------------------------------------------------------------------------
(* handleRegionalServer.                                                   *)

ReadSync(c) ==
    /\ thread[c].stage = "reading" /\ thread[c].unread
    /\ thread' = [thread EXCEPT ![c].stage = "locking", ![c].unread = FALSE]
    /\ UNCHANGED <<up, backlog, greeting, mutex, region, rows, monitor, history>>

ReadEnd(c) ==
    /\ thread[c].stage = "reading" /\ ~thread[c].unread /\ ~thread[c].peerOpen
    /\ Ended(c)
    /\ UNCHANGED <<up, backlog, greeting, mutex, region, rows, monitor, history>>

NoMutex(c) == TRUE                 \* mutant: the mutex is not asked

Unlocked(c) == mutex = NoSlot

Lock(c) ==
    /\ thread[c].stage = "locking" /\ Unlocked(c)
    /\ mutex' = c
    /\ Stage(c, "inserting")
    /\ UNCHANGED <<up, backlog, greeting, region, rows, monitor, history>>

InsertedTwice(r) == [rows EXCEPT ![r] = @ + 2]   \* mutant: the statement runs twice
OncePerRegion(r) == [rows EXCEPT ![r] = 1]       \* mutant: source_region is a key

Inserted(r) == [rows EXCEPT ![r] = @ + 1]

\* insertCentralConsumption: while the monitor reads, the commit fails with
\* SQLITE_BUSY; the failure is printed and nothing else happens.
Insert(c) ==
    /\ thread[c].stage = "inserting"
    /\ rows' = IF SharedLock THEN rows ELSE Inserted(thread[c].source)
    /\ Stage(c, "aggregating")
    /\ UNCHANGED <<up, backlog, greeting, mutex, region, monitor, history>>

KeepsMutex(c) == mutex             \* mutant: the lock outlives its block

Released(c) == NoSlot

\* printCentralAggregation, and the end of the block that holds the lock.
Aggregate(c) ==
    /\ thread[c].stage = "aggregating"
    /\ mutex' = Released(c)
    /\ Stage(c, "acking")
    /\ UNCHANGED <<up, backlog, greeting, region, rows, monitor, history>>

\* REGION_SYNC_ACK with status 1.  The write to a region that has gone throws; the
\* one to a region that has fallen silent ends in the buffers of the kernel.
Acknowledge(c) ==
    /\ thread[c].stage = "acking"
    /\ IF thread[c].peerOpen THEN Stage(c, "reading") ELSE Ended(c)
    /\ IF thread[c].peerOpen /\ region[thread[c].source].state = "syncing"
       THEN /\ Enter(thread[c].source, "idle")
            /\ acked' = [acked EXCEPT ![thread[c].source] = @ + 1]
       ELSE UNCHANGED <<region, acked>>
    /\ UNCHANGED <<up, backlog, greeting, mutex, rows, monitor, sent>>

-----------------------------------------------------------------------------
(* The regional servers: connectToCentralServer and the exchange.          *)

FreeSlot(c) == thread[c].stage = "none" /\ \A r \in Regions : region[r].slot # c

\* The kernel of the central host completes the TCP connection; the region then
\* blocks in its handshake, before it opens its own port for the meters.
Connect(r, c) ==
    /\ region[r].state = "down" /\ up /\ FreeSlot(c)
    /\ region' = [region EXCEPT ![r] = [state |-> "connecting", slot |-> c]]
    /\ thread' = [thread EXCEPT ![c] = [stage |-> "queued", source |-> r,
                                       peerOpen |-> TRUE, unread |-> FALSE]]
    /\ backlog' = Append(backlog, c)
    /\ UNCHANGED <<up, greeting, mutex, rows, monitor, history>>

\* No central server, or it has gone during the handshake: the exception is
\* caught and the region runs on with a socket of no use.
ConnectFails(r) ==
    /\ \/ region[r].state = "down" /\ ~up
       \/ region[r].state = "connecting" /\ ServerGone(r)
    /\ Leave(r, "broken")
    /\ UNCHANGED <<server, rows, monitor, history>>

SendSync(r) ==
    /\ region[r].state = "idle" /\ ~ServerGone(r) /\ sent[r] < MaxSyncs
    /\ Enter(r, "syncing")
    /\ thread' = [thread EXCEPT ![region[r].slot].unread = TRUE]
    /\ sent' = [sent EXCEPT ![r] = @ + 1]
    /\ UNCHANGED <<up, backlog, greeting, mutex, rows, monitor, acked>>

\* The next REGION_SYNC on a socket of no use throws.  After a regular report the
\* process ends, after a reduced one the exception is caught.
SendThrows(r, state) ==
    /\ \/ region[r].state = "idle" /\ ServerGone(r)
       \/ region[r].state = "broken"
    /\ Leave(r, state)
    /\ UNCHANGED <<server, rows, monitor, history>>

\* The read of REGION_SYNC_ACK throws, with the same two outcomes.
SyncThrows(r, state) ==
    /\ region[r].state = "syncing" /\ ServerGone(r)
    /\ Leave(r, state)
    /\ UNCHANGED <<server, rows, monitor, history>>

\* The process of region r is killed; its sockets are closed.
Die(r) ==
    /\ region[r].state \in {"connecting", "idle", "syncing"}
    /\ thread' = [thread EXCEPT ![region[r].slot].peerOpen = FALSE]
    /\ Leave(r, "down")
    /\ UNCHANGED <<up, backlog, greeting, mutex, rows, monitor, history>>

\* The host of region r vanishes without closing the connection, and stays away.
FallSilent(r) ==
    /\ SilenceAllowed /\ region[r].state \in {"connecting", "idle", "syncing"}
    /\ Enter(r, "silent")
    /\ UNCHANGED <<server, rows, monitor, history>>

-----------------------------------------------------------------------------
(* The central process as a whole.                                         *)

CentralDies ==
    /\ up
    /\ up' = FALSE
    /\ backlog' = <<>>
    /\ greeting' = NoSlot
    /\ mutex' = NoSlot
    /\ thread' = [c \in Slots |-> [thread[c] EXCEPT !.stage = "none", !.unread = FALSE]]
    /\ UNCHANGED <<region, rows, monitor, history>>

CentralStarts ==
    /\ ~up
    /\ up' = TRUE
    /\ UNCHANGED <<backlog, greeting, thread, mutex, region, rows, monitor, history>>

-----------------------------------------------------------------------------
(* generatePage: two queries, each with a database connection of its own.  *)

SwappedQueries == <<"table", "totals">>     \* mutant: the table is read first

Queries == <<"totals", "table">>

Query == Queries[monitor.query]

\* After the second query the page is complete.
Answered(outcome, counted) ==
    monitor' = [monitor EXCEPT !.stage = IF monitor.query = 1 THEN "idle" ELSE "shown",
                               !.query = 2,
                               !.outcome[Query] = outcome,
                               !.counted[Query] = counted]

\* A new connection reads the schema when it prepares its statement.
PrepareQuery ==
    /\ MonitorRuns /\ monitor.stage = "idle"
    /\ monitor' = [monitor EXCEPT !.stage = "prepared"]
    /\ UNCHANGED <<server, region, rows, history>>

\* "Greska pri citanju baze." in place of the table, zeros in place of the totals.
PrepareRefused ==
    /\ MonitorRuns /\ monitor.stage = "idle" /\ Committing
    /\ Answered("refused", NoPage.counted[Query])
    /\ UNCHANGED <<server, region, rows, history>>

BeginQuery ==
    /\ monitor.stage = "prepared"
    /\ monitor' = [monitor EXCEPT !.stage = "reading", !.counted[Query] = rows]
    /\ UNCHANGED <<server, region, rows, history>>

\* sqlite3_step returns SQLITE_BUSY: the loop over the rows ends as if there were
\* none.
BusyQuery ==
    /\ monitor.stage = "prepared" /\ Committing
    /\ Answered("busy", NoPage.counted[Query])
    /\ UNCHANGED <<server, region, rows, history>>

EndQuery ==
    /\ monitor.stage = "reading"
    /\ Answered("read", monitor.counted[Query])
    /\ UNCHANGED <<server, region, rows, history>>

PageSent ==
    /\ monitor.stage = "shown"
    /\ monitor' = NoPage
    /\ UNCHANGED <<server, region, rows, history>>

-----------------------------------------------------------------------------
Init ==
    /\ up = FALSE
    /\ backlog = <<>>
    /\ greeting = NoSlot
    /\ thread = [c \in Slots |-> NoThread]
    /\ mutex = NoSlot
    /\ region = [r \in Regions |-> [state |-> "down", slot |-> NoSlot]]
    /\ rows = [r \in Regions |-> 0]
    /\ monitor = NoPage
    /\ sent = [r \in Regions |-> 0]
    /\ acked = [r \in Regions |-> 0]

Next ==
    \/ Accept
    \/ HandshakeFails
    \/ \E c \in Slots :
          \/ ReadSync(c)
          \/ ReadEnd(c)
          \/ Lock(c)
          \/ Insert(c)
          \/ Aggregate(c)
          \/ Acknowledge(c)
    \/ \E r \in Regions :
          \/ HandshakeDone(r)
          \/ \E c \in Slots : Connect(r, c)
          \/ ConnectFails(r)
          \/ SendSync(r)
          \/ \E state \in {"down", "broken"} :
                SendThrows(r, state) \/ SyncThrows(r, state)
          \/ Die(r)
          \/ FallSilent(r)
    \/ CentralDies
    \/ CentralStarts
    \/ PrepareQuery
    \/ PrepareRefused
    \/ BeginQuery
    \/ BusyQuery
    \/ EndQuery
    \/ PageSent

Spec == Init /\ [][Next]_vars

\* Threads that can run do; a thread that waits for the mutex gets it, because the
\* others leave it for a round trip over the network; a peer that is not silent
\* takes part in the handshake; an exception is not put off.
Fairness ==
    /\ WF_vars(Accept)
    /\ WF_vars(HandshakeFails)
    /\ \A c \in Slots :
          /\ WF_vars(ReadSync(c))
          /\ WF_vars(ReadEnd(c))
          /\ SF_vars(Lock(c))
          /\ WF_vars(Insert(c))
          /\ WF_vars(Aggregate(c))
          /\ WF_vars(Acknowledge(c))
    /\ \A r \in Regions :
          /\ WF_vars(HandshakeDone(r))
          /\ WF_vars(ConnectFails(r))
          /\ WF_vars(SyncThrows(r, "down"))

FairSpec == Spec /\ Fairness

-----------------------------------------------------------------------------
\* The lock_guard of sync_server.cpp:86 keeps insert and aggregation of one thread
\* apart from those of another, through every kind of exit from a thread.
OneInDatabase ==
    \A c \in Slots : thread[c].stage \in {"inserting", "aggregating"} => mutex = c

\* What a region was told is stored is stored, and nothing is stored twice or without
\* having been sent, whichever process dies in between.  It needs a database without
\* a second reader: with the monitor running it is refuted (sync_server.cpp:102
\* acknowledges with status 1 what an INSERT has refused).
AckedIsStored == \A r \in Regions : acked[r] <= rows[r] /\ rows[r] <= sent[r]

\* A page never counts a measurement that its table, read later in another transaction,
\* would not have, unless that second query met a lock: it then ends like an empty
\* table.  A lock at the first query leaves zeros, which no table contradicts.
PageNeverAhead ==
    monitor.stage = "shown" /\ monitor.outcome["table"] = "read" =>
        \A r \in Regions : monitor.counted["totals"][r] <= monitor.counted["table"][r]

\* The threads that carry a measurement of region r, before and after the insert.
Carrying(r, stages) == {c \in Slots : thread[c].source = r /\ thread[c].stage \in stages}
Unread(r)           == {c \in Slots : thread[c].source = r /\ thread[c].unread}

Store == INSTANCE CentralStore WITH
    pending     <- [r \in Regions |->
                      Cardinality(Unread(r) \cup Carrying(r, {"locking", "inserting"}))],
    unconfirmed <- [r \in Regions |-> Cardinality(Carrying(r, {"aggregating", "acking"}))],
    stored      <- rows,
    confirmed   <- acked

\* Without a second reader of the database the central server implements CentralStore:
\* exactly one row and at most one acknowledgement come of a REGION_SYNC, in this order,
\* through reconnections, deaths of either side and interleaved threads.
RefinesCentralStore == Store!Spec

\* A region that waits for REGION_SYNC_ACK gets it or an exception, whatever the other
\* region does: a silent or slow region holds up nobody's exchange.
SyncEnds == \A r \in Regions : region[r].state = "syncing" ~> region[r].state # "syncing"

\* sync_server.cpp:221: the central server accepts several regional servers.  A region
\* that connects gets through the handshake or an exception.  Refuted when a peer may
\* fall silent: the handshake is part of the accept loop.
AllConnect ==
    \A r \in Regions : region[r].state = "connecting" ~> region[r].state # "connecting"

\* A peer that is silent while the accept loop shakes hands with it is the only reason:
\* neither peers that die, nor silent ones behind or past the handshake keep a region out.
Stuck       == greeting # NoSlot /\ \E r \in Regions : region[r] = [state |-> "silent", slot |-> greeting]
ConnectEnds ==
    \A r \in Regions :
        region[r].state = "connecting" ~> region[r].state # "connecting" \/ Stuck

\* web_monitoring/server.cpp:182: "Nema evidentiranih mjerenja." stands for an empty
\* table.  Refuted: the same text is shown when an insert commits between the
\* preparation of the query and its first step.
EmptyMeansEmpty ==
    monitor.stage = "shown" /\ monitor.outcome["table"] # "refused"
        /\ (\A r \in Regions : monitor.counted["table"][r] = 0) =>
            \A r \in Regions : monitor.counted["totals"][r] = 0
=============================================================================
