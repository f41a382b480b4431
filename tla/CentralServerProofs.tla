------------------------- MODULE CentralServerProofs -------------------------
(***************************************************************************)
(* One thread at a time in the central database; from what is under way to *)
(* it (which thread carries which region's measurement, and how many there *)
(* are) the types and bounds of CentralServer, the acknowledgements, the   *)
(* refinement of CentralStore; and the pages of the monitor.  For any      *)
(* regions, any number of connections, with or without silent peers.       *)
(***************************************************************************)
EXTENDS CentralServer, FiniteSetTheorems, TLAPS

\* What the steps that write the thread records keep of their types.
MutexTypeOK ==
    /\ thread \in [Slots -> Threads]
    /\ mutex \in Slots \cup {NoSlot}
    /\ greeting \in Slots \cup {NoSlot}
    /\ backlog \in Seq(Slots)
    /\ region \in [Regions -> [state : RegionStates, slot : Slots \cup {NoSlot}]]

\* A thread in the database holds the mutex, so a free mutex means nobody is there.
MutexInv == MutexTypeOK /\ OneInDatabase

\* The mutex that is seen free is nobody's, and locking gives it to the thread that
\* enters the database.
LEMMA LockKeeps ==
    ASSUME MutexInv, NEW c \in Slots, Lock(c)
    PROVE  MutexInv'
<1>1. thread' = [thread EXCEPT ![c].stage = "inserting"] /\ mutex' = c
  BY DEF Lock, Stage
<1>2. \A k \in Slots : thread[k].stage \notin {"inserting", "aggregating"}
  BY NoSlotAssumption DEF Lock, Unlocked, MutexInv, OneInDatabase
<1>3. thread' \in [Slots -> Threads]
  BY <1>1 DEF MutexInv, MutexTypeOK, Threads, Stages
<1>4. OneInDatabase'
  BY <1>1, <1>2 DEF OneInDatabase, MutexInv, MutexTypeOK, Threads
<1> QED
  BY <1>1, <1>3, <1>4 DEF Lock, MutexInv, MutexTypeOK

\* The mutex is released by the thread that holds it.
LEMMA AggregateKeeps ==
    ASSUME MutexInv, NEW c \in Slots, Aggregate(c)
    PROVE  MutexInv'
<1>1. thread' = [thread EXCEPT ![c].stage = "acking"] /\ mutex' = NoSlot
  BY DEF Aggregate, Stage, Released
<1>2. mutex = c
  BY DEF Aggregate, MutexInv, OneInDatabase
<1>3. \A k \in Slots \ {c} : thread[k].stage \notin {"inserting", "aggregating"}
  BY <1>2 DEF MutexInv, OneInDatabase
<1>4. thread' \in [Slots -> Threads]
  BY <1>1 DEF MutexInv, MutexTypeOK, Threads, Stages
<1>5. OneInDatabase'
  BY <1>1, <1>3 DEF OneInDatabase, MutexInv, MutexTypeOK, Threads
<1> QED
  BY <1>1, <1>4, <1>5 DEF Aggregate, MutexInv, MutexTypeOK

\* A step that leaves the mutex alone and moves no other thread into the database than
\* one that is there already.
LEMMA Bystander ==
    ASSUME MutexInv, MutexTypeOK', mutex' = mutex,
           \A c \in Slots : thread'[c].stage \in {"inserting", "aggregating"}
                               => thread[c].stage \in {"inserting", "aggregating"}
    PROVE  MutexInv'
BY DEF MutexInv, OneInDatabase

\* Mutual exclusion and the types it rests on are inductive together.
THEOREM MutexInvariant == Spec => []MutexInv
<1>1. Init => MutexInv
  BY DEF Init, MutexInv, MutexTypeOK, OneInDatabase, NoThread, Threads, Stages, RegionStates
<1>2. MutexInv /\ [Next]_vars => MutexInv'
  <2> SUFFICES ASSUME MutexInv, [Next]_vars PROVE MutexInv'
    OBVIOUS
  <2> USE DEF MutexTypeOK
  <2>1. CASE Accept
    <3>1. Head(backlog) \in Slots /\ Tail(backlog) \in Seq(Slots)
      BY <2>1 DEF Accept, MutexInv
    <3>2. MutexTypeOK'
      BY <2>1, <3>1 DEF Accept, Stage, MutexInv, Threads, Stages
    <3> QED
      BY <2>1, <3>1, <3>2, Bystander DEF Accept, Stage, MutexInv, Threads
  <2>2. CASE HandshakeFails
    <3>1. MutexTypeOK'
      BY <2>2 DEF HandshakeFails, LoopGoesOn, Ended, MutexInv, Threads, Stages
    <3> QED
      BY <2>2, <3>1, Bystander DEF HandshakeFails, Ended, MutexInv, Threads
  <2>3. ASSUME NEW c \in Slots, ReadSync(c) PROVE MutexInv'
    <3>1. MutexTypeOK'
      BY <2>3 DEF ReadSync, MutexInv, Threads, Stages
    <3> QED
      BY <2>3, <3>1, Bystander DEF ReadSync, MutexInv, Threads
  <2>4. ASSUME NEW c \in Slots, ReadEnd(c) PROVE MutexInv'
    <3>1. MutexTypeOK'
      BY <2>4 DEF ReadEnd, Ended, MutexInv, Threads, Stages
    <3> QED
      BY <2>4, <3>1, Bystander DEF ReadEnd, Ended, MutexInv, Threads
  <2>5. ASSUME NEW c \in Slots, Insert(c) PROVE MutexInv'
    <3>1. MutexTypeOK'
      BY <2>5 DEF Insert, Stage, MutexInv, Threads, Stages
    <3> QED
      BY <2>5, <3>1, Bystander DEF Insert, Stage, MutexInv, Threads
  <2>6. ASSUME NEW c \in Slots, Acknowledge(c) PROVE MutexInv'
    <3>1. thread' \in [Slots -> Threads]
      <4>1. CASE thread[c].peerOpen
        <5>1. thread' = [thread EXCEPT ![c].stage = "reading"]
          BY <2>6, <4>1, Zenon DEF Acknowledge, Stage
        <5> QED
          BY <5>1 DEF MutexInv, Threads, Stages
      <4>2. CASE ~thread[c].peerOpen
        <5>1. thread' = [thread EXCEPT ![c].stage = "none", ![c].unread = FALSE]
          BY <2>6, <4>2, Zenon DEF Acknowledge, Ended
        <5> QED
          BY <5>1 DEF MutexInv, Threads, Stages
      <4> QED
        BY <4>1, <4>2
    <3>2. region' \in [Regions -> [state : RegionStates, slot : Slots \cup {NoSlot}]]
      <4>1. \/ region' = [region EXCEPT ![thread[c].source].state = "idle"]
            \/ region' = region
        BY <2>6 DEF Acknowledge, Enter
      <4> QED
        BY <4>1 DEF MutexInv, RegionStates
    <3>3. \A k \in Slots : thread'[k].stage \in {"inserting", "aggregating"}
                             => thread[k].stage \in {"inserting", "aggregating"}
      BY <2>6 DEF Acknowledge, Stage, Ended, MutexInv, Threads
    <3> QED
      BY <2>6, <3>1, <3>2, <3>3, Bystander DEF Acknowledge, MutexInv
  <2>7. ASSUME NEW r \in Regions, HandshakeDone(r) PROVE MutexInv'
    <3>1. MutexTypeOK'
      BY <2>7 DEF HandshakeDone, Stage, Enter, MutexInv, Threads, Stages, RegionStates
    <3> QED
      BY <2>7, <3>1, Bystander DEF HandshakeDone, Stage, MutexInv, Threads
  <2>8. ASSUME NEW r \in Regions, NEW c \in Slots, Connect(r, c) PROVE MutexInv'
    <3>1. MutexTypeOK'
      BY <2>8 DEF Connect, MutexInv, Threads, Stages, RegionStates
    <3> QED
      BY <2>8, <3>1, Bystander DEF Connect, MutexInv
  <2>9. ASSUME NEW r \in Regions, SendSync(r) PROVE MutexInv'
    <3>1. thread' \in [Slots -> Threads]
      <4>1. thread' = [thread EXCEPT ![region[r].slot].unread = TRUE]
        BY <2>9 DEF SendSync
      <4> QED
        BY <4>1 DEF MutexInv, Threads
    <3>2. region' \in [Regions -> [state : RegionStates, slot : Slots \cup {NoSlot}]]
      BY <2>9 DEF SendSync, Enter, MutexInv, RegionStates
    <3>3. \A k \in Slots : thread'[k].stage = thread[k].stage
      BY <2>9 DEF SendSync, MutexInv, Threads
    <3> QED
      BY <2>9, <3>1, <3>2, <3>3, Bystander DEF SendSync, MutexInv
  <2>10. ASSUME NEW r \in Regions, Die(r) PROVE MutexInv'
    <3>1. MutexTypeOK'
      BY <2>10 DEF Die, Leave, MutexInv, Threads, Stages, RegionStates
    <3> QED
      BY <2>10, <3>1, Bystander DEF Die, MutexInv, Threads
  <2>11. CASE CentralDies
    <3>1. thread' \in [Slots -> Threads] /\ \A c \in Slots : thread'[c].stage = "none"
      BY <2>11 DEF CentralDies, MutexInv, Threads, Stages
    <3>2. <<>> \in Seq(Slots)
      OBVIOUS
    <3> QED
      BY <2>11, <3>1, <3>2 DEF CentralDies, MutexInv, OneInDatabase
  <2>12. ASSUME UNCHANGED <<backlog, greeting, thread, mutex>>,
                region' \in [Regions -> [state : RegionStates, slot : Slots \cup {NoSlot}]]
         PROVE  MutexInv'
    BY <2>12 DEF MutexInv, OneInDatabase
  <2>13. ASSUME NEW r \in Regions,
                ConnectFails(r) \/ FallSilent(r)
                    \/ \E state \in {"down", "broken"} : SendThrows(r, state) \/ SyncThrows(r, state)
         PROVE  MutexInv'
    BY <2>12, <2>13 DEF ConnectFails, FallSilent, SendThrows, SyncThrows, Enter, Leave,
                        server, MutexInv, RegionStates
  <2>14. CASE \/ CentralStarts \/ PrepareQuery \/ PrepareRefused \/ BeginQuery \/ BusyQuery
                \/ EndQuery \/ PageSent \/ UNCHANGED vars
    BY <2>12, <2>14 DEF CentralStarts, PrepareQuery, PrepareRefused, BeginQuery, BusyQuery,
                        EndQuery, PageSent, vars, server, MutexInv
  <2> QED
    BY <2>1, <2>2, <2>3, <2>4, <2>5, <2>6, <2>7, <2>8, <2>9, <2>10, <2>11, <2>13, <2>14,
       LockKeeps, AggregateKeeps DEF Next
<1> QED
  BY <1>1, <1>2, PTL DEF Spec

\* sync_server.cpp:86: no two threads are in the database at the same time, whatever
\* other thread, process or peer fails.
THEOREM MutualExclusion == Spec => []OneInDatabase
<1>1. MutexInv => OneInDatabase
  BY DEF MutexInv
<1> QED
  BY <1>1, MutexInvariant, PTL

\* A thread serves a region, holds a REGION_SYNC only while it could read it, and is
\* at the other end of the connection its region uses, unless that one has gone.
ThreadInv(c) ==
    /\ thread[c].stage # "none" => thread[c].source \in Regions
    /\ thread[c].unread => thread[c].stage = "reading"
    /\ thread[c].stage # "none" /\ thread[c].peerOpen => region[thread[c].source].slot = c

\* No two regions use the same connection; a region that may send has been answered.
RegionInv(r) ==
    /\ region[r].slot \in Slots => thread[region[r].slot].source = r
    /\ IF region[r].state \in {"down", "broken"} THEN region[r].slot = NoSlot
                                               ELSE region[r].slot \in Slots
    /\ region[r].state = "idle" =>
          thread[region[r].slot].stage \in {"reading", "none"} /\ ~thread[region[r].slot].unread

\* The accept loop holds connections that nobody serves yet, each of them once.
AcceptInv ==
    /\ \A i, j \in 1 .. Len(backlog) : backlog[i] = backlog[j] => i = j
    /\ \A i \in 1 .. Len(backlog) : thread[backlog[i]].stage = "queued"
    /\ greeting # NoSlot => thread[greeting].stage = "greeting"

ConnectionsInv ==
    /\ AcceptInv
    /\ \A c \in Slots : ThreadInv(c)
    /\ \A r \in Regions : RegionInv(r)

\* What a thread record says of a measurement of region r: sent and not stored, or
\* stored and not acknowledged.
Carries(t, r)   == t.source = r /\ (t.unread \/ t.stage \in {"locking", "inserting"})
HasStored(t, r) == t.source = r /\ t.stage \in {"aggregating", "acking"}

Pending(r)     == Cardinality(Unread(r) \cup Carrying(r, {"locking", "inserting"}))
Unconfirmed(r) == Cardinality(Carrying(r, {"aggregating", "acking"}))

\* Every REGION_SYNC that was sent is under way, stored or lost, and counted once.
CountsInv ==
    /\ rows \in [Regions -> Nat] /\ sent \in [Regions -> Nat] /\ acked \in [Regions -> Nat]
    /\ \A r \in Regions :
          /\ sent[r] <= MaxSyncs
          /\ acked[r] + Unconfirmed(r) + Pending(r) <= sent[r]
          /\ rows[r] + Pending(r) <= sent[r]
          /\ MonitorRuns \/ acked[r] + Unconfirmed(r) <= rows[r]

\* Nobody reads the database while no monitor runs.
MonitorInv ==
    /\ monitor \in Pages
    /\ ~MonitorRuns => monitor.stage = "idle"

\* Tables only grow: what the first query counted is there when the second one runs.
PageInv ==
    /\ \A r \in Regions : monitor.counted["totals"][r] <= rows[r]
    /\ monitor.stage = "reading" /\ monitor.query = 2 =>
          \A r \in Regions : monitor.counted["totals"][r] <= monitor.counted["table"][r]
    /\ PageNeverAhead

-----------------------------------------------------------------------------
(* Connections.                                                            *)

\* The accept loop is not concerned by a step that moves no thread it holds.
LEMMA AcceptUnmoved ==
    ASSUME MutexInv, AcceptInv, UNCHANGED <<backlog, greeting>>,
           \A c \in Slots : thread[c].stage \in {"queued", "greeting"}
                               => thread'[c].stage = thread[c].stage
    PROVE  AcceptInv'
<1>1. \A i \in 1 .. Len(backlog) : backlog[i] \in Slots
  BY DEF MutexInv, MutexTypeOK
<1>2. greeting \in Slots \cup {NoSlot}
  BY DEF MutexInv, MutexTypeOK
<1> QED
  BY <1>1, <1>2 DEF AcceptInv

\* A step of the thread of connection c that its region takes no part in.
LEMMA ThreadStep ==
    ASSUME MutexInv, ConnectionsInv, NEW c \in Slots, region' = region,
           \A k \in Slots \ {c} : thread'[k] = thread[k],
           thread[c].stage # "none", thread'[c].source = thread[c].source,
           thread'[c].peerOpen = thread[c].peerOpen, ~thread'[c].unread,
           thread'[c].stage = "none" \/ \A r \in Regions : region[r] # [state |-> "idle", slot |-> c]
    PROVE  /\ \A k \in Slots : ThreadInv(k)'
           /\ \A r \in Regions : RegionInv(r)'
<1>1. ASSUME NEW k \in Slots PROVE ThreadInv(k)'
  BY DEF ConnectionsInv, ThreadInv
<1>2. ASSUME NEW r \in Regions PROVE RegionInv(r)'
  <2>1. region[r] \in [state : RegionStates, slot : Slots \cup {NoSlot}]
    BY DEF MutexInv, MutexTypeOK
  <2>2. region[r].slot = c /\ region[r].state = "idle" => region[r] = [state |-> "idle", slot |-> c]
    BY <2>1
  <2> QED
    BY <2>1, <2>2 DEF ConnectionsInv, RegionInv
<1> QED
  BY <1>1, <1>2

\* A thread past the read is no idle region's.
LEMMA BusyThread ==
    ASSUME ConnectionsInv, NEW c \in Slots, NEW r \in Regions,
           thread[c].stage \notin {"reading", "none"} \/ thread[c].unread
    PROVE  region[r] # [state |-> "idle", slot |-> c]
BY DEF ConnectionsInv, RegionInv

\* A region without a connection, or with the one it had and still to be answered.
LEMMA RegionStep ==
    ASSUME MutexInv, ConnectionsInv, NEW r \in Regions,
           \A k \in Regions \ {r} : region'[k] = region[k],
           \/ /\ region'[r].slot = NoSlot
              /\ region'[r].state \in {"down", "broken"}
              /\ \A c \in Slots : region[r].slot = c => ~thread'[c].peerOpen \/ thread'[c].stage = "none"
           \/ /\ region'[r].slot = region[r].slot /\ region'[r].state = "silent"
              /\ region[r].state \notin {"down", "broken"},
           \A c \in Slots : /\ thread'[c].stage = thread[c].stage
                            /\ thread'[c].source = thread[c].source
                            /\ thread'[c].unread = thread[c].unread
                            /\ thread'[c].peerOpen => thread[c].peerOpen
    PROVE  /\ \A c \in Slots : ThreadInv(c)'
           /\ \A k \in Regions : RegionInv(k)'
<1>1. ASSUME NEW c \in Slots PROVE ThreadInv(c)'
  BY DEF ConnectionsInv, ThreadInv
<1>2. ASSUME NEW k \in Regions PROVE RegionInv(k)'
  BY NoSlotAssumption DEF ConnectionsInv, RegionInv
<1> QED
  BY <1>1, <1>2

LEMMA AcceptKeeps ==
    ASSUME MutexInv, ConnectionsInv, Accept
    PROVE  ConnectionsInv'
<1> DEFINE c == Head(backlog)
<1>1. /\ backlog \in Seq(Slots) /\ backlog # <<>> /\ Len(backlog) \in Nat \ {0}
      /\ c = backlog[1] /\ c \in Slots
      /\ backlog' = Tail(backlog) /\ Len(backlog') = Len(backlog) - 1
      /\ \A i \in 1 .. Len(backlog') : backlog'[i] = backlog[i + 1]
  BY DEF Accept, MutexInv, MutexTypeOK
<1>2. /\ \A k \in Slots \ {c} : thread'[k] = thread[k]
      /\ thread'[c].stage = "greeting" /\ thread'[c].source = thread[c].source
      /\ thread'[c].peerOpen = thread[c].peerOpen /\ thread'[c].unread = thread[c].unread
      /\ thread[c].stage = "queued" /\ greeting' = c /\ region' = region
  BY <1>1 DEF Accept, Stage, MutexInv, MutexTypeOK, Threads, ConnectionsInv, AcceptInv
<1>3. \A i \in 1 .. Len(backlog') : backlog'[i] \in Slots \ {c}
  BY <1>1 DEF ConnectionsInv, AcceptInv
<1>4. AcceptInv'
  <2>1. \A i, j \in 1 .. Len(backlog') : backlog'[i] = backlog'[j] => i = j
    BY <1>1 DEF ConnectionsInv, AcceptInv
  <2>2. \A i \in 1 .. Len(backlog') : thread'[backlog'[i]].stage = "queued"
    BY <1>1, <1>2, <1>3 DEF ConnectionsInv, AcceptInv
  <2> QED
    BY <1>2, <2>1, <2>2 DEF AcceptInv
<1>5. ~thread'[c].unread /\ \A r \in Regions : region[r] # [state |-> "idle", slot |-> c]
  BY <1>1, <1>2, BusyThread DEF ConnectionsInv, ThreadInv
<1> QED
  BY <1>1, <1>2, <1>4, <1>5, ThreadStep DEF ConnectionsInv

LEMMA ConnectKeeps ==
    ASSUME MutexInv, ConnectionsInv, NEW r \in Regions, NEW c \in Slots, Connect(r, c)
    PROVE  ConnectionsInv'
<1>1. /\ \A k \in Slots \ {c} : thread'[k] = thread[k]
      /\ thread[c].stage = "none" /\ \A k \in Regions : region[k].slot # c
      /\ thread'[c] = [stage |-> "queued", source |-> r, peerOpen |-> TRUE, unread |-> FALSE]
      /\ \A k \in Regions \ {r} : region'[k] = region[k]
      /\ region'[r] = [state |-> "connecting", slot |-> c]
      /\ greeting' = greeting
  BY DEF Connect, FreeSlot, MutexInv, MutexTypeOK
<1>2. /\ backlog \in Seq(Slots) /\ backlog' = Append(backlog, c) /\ Len(backlog) \in Nat
      /\ Len(backlog') = Len(backlog) + 1 /\ backlog'[Len(backlog')] = c
      /\ \A i \in 1 .. Len(backlog) : backlog'[i] = backlog[i] /\ backlog[i] \in Slots \ {c}
  BY <1>1 DEF Connect, MutexInv, MutexTypeOK, ConnectionsInv, AcceptInv
<1>3. AcceptInv'
  <2>1. \A i, j \in 1 .. Len(backlog') : backlog'[i] = backlog'[j] => i = j
    BY <1>2 DEF ConnectionsInv, AcceptInv
  <2>2. \A i \in 1 .. Len(backlog') : thread'[backlog'[i]].stage = "queued"
    BY <1>1, <1>2 DEF ConnectionsInv, AcceptInv
  <2>3. greeting # NoSlot => greeting # c /\ greeting \in Slots
    BY <1>1 DEF ConnectionsInv, AcceptInv, MutexInv, MutexTypeOK
  <2> QED
    BY <1>1, <2>1, <2>2, <2>3 DEF ConnectionsInv, AcceptInv
<1>4. ASSUME NEW k \in Slots PROVE ThreadInv(k)'
  <2>1. region[r].slot = NoSlot
    BY DEF Connect, ConnectionsInv, RegionInv
  <2>2. thread[k].stage = "none" \/ ~thread[k].peerOpen \/ thread[k].source # r
    BY <2>1, NoSlotAssumption DEF ConnectionsInv, ThreadInv
  <2> QED
    BY <1>1, <2>2 DEF ConnectionsInv, ThreadInv
<1>5. ASSUME NEW k \in Regions PROVE RegionInv(k)'
  BY <1>1 DEF ConnectionsInv, RegionInv
<1> QED
  BY <1>3, <1>4, <1>5 DEF ConnectionsInv

LEMMA HandshakeDoneKeeps ==
    ASSUME MutexInv, ConnectionsInv, NEW r \in Regions, HandshakeDone(r)
    PROVE  ConnectionsInv'
<1> DEFINE c == greeting
<1>1. /\ c \in Slots /\ region[r] = [state |-> "connecting", slot |-> c]
      /\ thread[c].stage = "greeting" /\ ~thread[c].unread
      /\ backlog' = backlog /\ greeting' = NoSlot
  BY DEF HandshakeDone, MutexInv, MutexTypeOK, ConnectionsInv, AcceptInv, ThreadInv
<1>2. /\ \A k \in Slots \ {c} : thread'[k] = thread[k]
      /\ thread'[c].stage = "reading" /\ thread'[c].source = thread[c].source
      /\ thread'[c].peerOpen = thread[c].peerOpen /\ thread'[c].unread = thread[c].unread
  BY <1>1 DEF HandshakeDone, Stage, MutexInv, MutexTypeOK, Threads
<1>3. /\ \A k \in Regions \ {r} : region'[k] = region[k]
      /\ region'[r].state = "idle" /\ region'[r].slot = c
  BY <1>1 DEF HandshakeDone, Enter, MutexInv, MutexTypeOK
<1>4. AcceptInv'
  <2>1. \A i \in 1 .. Len(backlog) : backlog[i] \in Slots \ {c}
    BY <1>1 DEF MutexInv, MutexTypeOK, ConnectionsInv, AcceptInv
  <2> QED
    BY <1>1, <1>2, <2>1 DEF ConnectionsInv, AcceptInv
<1>5. ASSUME NEW k \in Slots PROVE ThreadInv(k)'
  BY <1>1, <1>2, <1>3 DEF ConnectionsInv, ThreadInv
<1>6. ASSUME NEW k \in Regions PROVE RegionInv(k)'
  BY <1>1, <1>2, <1>3 DEF ConnectionsInv, RegionInv
<1> QED
  BY <1>4, <1>5, <1>6 DEF ConnectionsInv

LEMMA AcknowledgeKeeps ==
    ASSUME MutexInv, ConnectionsInv, NEW c \in Slots, Acknowledge(c), thread[c].peerOpen
    PROVE  ConnectionsInv'
<1> DEFINE r == thread[c].source
<1>1. /\ thread[c].stage = "acking" /\ r \in Regions /\ ~thread[c].unread
      /\ region[r].slot = c
      /\ region[r].state \notin {"down", "broken"}
  BY NoSlotAssumption DEF Acknowledge, ConnectionsInv, ThreadInv, RegionInv
<1>2. thread' = [thread EXCEPT ![c].stage = "reading"]
  BY Zenon DEF Acknowledge, Stage
<1>3. region' = [region EXCEPT ![r].state = "idle"] \/ region' = region
  BY Zenon DEF Acknowledge, Enter
<1>4. /\ \A k \in Slots \ {c} : thread'[k] = thread[k]
      /\ thread'[c].stage = "reading" /\ thread'[c].source = r
      /\ thread'[c].peerOpen = thread[c].peerOpen /\ thread'[c].unread = thread[c].unread
  BY <1>2 DEF MutexInv, MutexTypeOK, Threads
<1>5. /\ \A k \in Regions \ {r} : region'[k] = region[k]
      /\ region'[r].state \notin {"down", "broken"} /\ region'[r].slot = c
  BY <1>1, <1>3 DEF MutexInv, MutexTypeOK
<1>6. AcceptInv'
  BY <1>1, <1>4, AcceptUnmoved DEF Acknowledge, ConnectionsInv
<1>7. ASSUME NEW k \in Slots PROVE ThreadInv(k)'
  BY <1>1, <1>4, <1>5 DEF ConnectionsInv, ThreadInv
<1>8. ASSUME NEW k \in Regions PROVE RegionInv(k)'
  BY <1>1, <1>4, <1>5 DEF ConnectionsInv, RegionInv
<1> QED
  BY <1>6, <1>7, <1>8 DEF ConnectionsInv

LEMMA SendSyncKeeps ==
    ASSUME MutexInv, ConnectionsInv, NEW r \in Regions, SendSync(r)
    PROVE  ConnectionsInv'
<1> DEFINE c == region[r].slot
<1>1. /\ c \in Slots /\ region[r].state = "idle"
      /\ thread[c].stage = "reading" /\ ~thread[c].unread
      /\ thread[c].source = r
  BY NoSlotAssumption DEF SendSync, ServerGone, ConnectionsInv, RegionInv
<1>2. /\ \A k \in Slots \ {c} : thread'[k] = thread[k]
      /\ thread'[c].stage = "reading" /\ thread'[c].source = r
      /\ thread'[c].peerOpen = thread[c].peerOpen /\ thread'[c].unread
  BY <1>1 DEF SendSync, MutexInv, MutexTypeOK, Threads
<1>3. /\ \A k \in Regions \ {r} : region'[k] = region[k]
      /\ region'[r].state = "syncing" /\ region'[r].slot = c
  BY <1>1 DEF SendSync, Enter, MutexInv, MutexTypeOK
<1>4. AcceptInv'
  BY <1>1, <1>2, AcceptUnmoved DEF SendSync, ConnectionsInv
<1>5. ASSUME NEW k \in Slots PROVE ThreadInv(k)'
  BY <1>1, <1>2, <1>3 DEF ConnectionsInv, ThreadInv
<1>6. ASSUME NEW k \in Regions PROVE RegionInv(k)'
  BY <1>1, <1>2, <1>3 DEF ConnectionsInv, RegionInv
<1> QED
  BY <1>4, <1>5, <1>6 DEF ConnectionsInv

\* The threads keep to their connections through deaths and reconnections.
THEOREM ConnectionsInvariant == Spec => [](MutexInv /\ ConnectionsInv)
<1>1. Init => ConnectionsInv
  BY NoSlotAssumption DEF Init, ConnectionsInv, AcceptInv, ThreadInv, RegionInv, NoThread
<1>2. MutexInv /\ ConnectionsInv /\ [Next]_vars => ConnectionsInv'
  <2> SUFFICES ASSUME MutexInv, ConnectionsInv, [Next]_vars PROVE ConnectionsInv'
    OBVIOUS
  <2>1. ASSUME NEW c \in Slots,
               \/ ReadSync(c) \/ ReadEnd(c) \/ Lock(c) \/ Insert(c) \/ Aggregate(c)
               \/ Acknowledge(c) /\ ~thread[c].peerOpen
        PROVE  ConnectionsInv'
    <3>1. /\ \A k \in Slots \ {c} : thread'[k] = thread[k]
          /\ thread'[c].source = thread[c].source
          /\ thread'[c].peerOpen = thread[c].peerOpen
      BY <2>1 DEF ReadSync, ReadEnd, Lock, Insert, Aggregate, Acknowledge, Stage, Ended,
         MutexInv, MutexTypeOK, Threads
    <3>2. /\ thread[c].stage \notin {"none", "queued", "greeting"}
          /\ region' = region /\ UNCHANGED <<backlog, greeting>>
      BY <2>1 DEF ReadSync, ReadEnd, Lock, Insert, Aggregate, Acknowledge
    <3>3. ~thread'[c].unread
      BY <2>1 DEF ReadSync, ReadEnd, Lock, Insert, Aggregate, Acknowledge, Stage, Ended,
         MutexInv, MutexTypeOK, Threads, ConnectionsInv, ThreadInv
    <3>4. \/ thread'[c].stage = "none"
          \/ thread[c].stage # "reading" \/ thread[c].unread
      BY <2>1 DEF ReadSync, ReadEnd, Lock, Insert, Aggregate, Acknowledge, Ended,
         MutexInv, MutexTypeOK, Threads
    <3>5. AcceptInv'
      BY <3>1, <3>2, AcceptUnmoved DEF ConnectionsInv
    <3> QED
      BY <3>1, <3>2, <3>3, <3>4, <3>5, BusyThread, ThreadStep DEF ConnectionsInv
  <2>2. CASE HandshakeFails
    <3>1. /\ greeting \in Slots /\ thread[greeting].stage = "greeting"
          /\ region' = region /\ backlog' = backlog /\ greeting' = NoSlot
      BY <2>2 DEF HandshakeFails, LoopGoesOn, MutexInv, MutexTypeOK, ConnectionsInv, AcceptInv
    <3>2. /\ \A k \in Slots \ {greeting} : thread'[k] = thread[k]
          /\ thread'[greeting].source = thread[greeting].source
          /\ thread'[greeting].peerOpen = thread[greeting].peerOpen
          /\ thread'[greeting].stage = "none" /\ ~thread'[greeting].unread
      BY <2>2, <3>1 DEF HandshakeFails, Ended, MutexInv, MutexTypeOK, Threads
    <3>3. AcceptInv'
      <4>1. \A i \in 1 .. Len(backlog) : backlog[i] \in Slots \ {greeting}
        BY <3>1 DEF MutexInv, MutexTypeOK, ConnectionsInv, AcceptInv
      <4> QED
        BY <3>1, <3>2, <4>1 DEF ConnectionsInv, AcceptInv
    <3> QED
      BY <3>1, <3>2, <3>3, ThreadStep DEF ConnectionsInv
  <2>3. ASSUME NEW r \in Regions,
               \/ ConnectFails(r) \/ FallSilent(r)
               \/ \E state \in {"down", "broken"} : SendThrows(r, state) \/ SyncThrows(r, state)
        PROVE  ConnectionsInv'
    <3>1. thread' = thread /\ UNCHANGED <<backlog, greeting>>
      BY <2>3 DEF ConnectFails, FallSilent, SendThrows, SyncThrows, server
    <3>2. CASE FallSilent(r)
      BY <2>3, <3>1, <3>2, RegionStep, AcceptUnmoved
         DEF FallSilent, Enter, MutexInv, MutexTypeOK, ConnectionsInv
    <3>3. CASE ~FallSilent(r)
      <4>1. /\ \A k \in Regions \ {r} : region'[k] = region[k]
            /\ region'[r].slot = NoSlot /\ region'[r].state \in {"down", "broken"}
        BY <2>3, <3>3 DEF ConnectFails, SendThrows, SyncThrows, Leave, MutexInv, MutexTypeOK
      <4>2. \A c \in Slots : region[r].slot = c => thread[c].stage = "none"
        BY <2>3, <3>3, NoSlotAssumption
           DEF ConnectFails, SendThrows, SyncThrows, ServerGone, ConnectionsInv, RegionInv
      <4> QED
        BY <3>1, <4>1, <4>2, RegionStep, AcceptUnmoved DEF ConnectionsInv
    <3> QED
      BY <3>2, <3>3
  <2>4. ASSUME NEW r \in Regions, Die(r) PROVE ConnectionsInv'
    <3>1. /\ \A k \in Regions \ {r} : region'[k] = region[k]
          /\ region'[r].slot = NoSlot /\ region'[r].state = "down"
          /\ region[r].slot \in Slots /\ UNCHANGED <<backlog, greeting>>
      BY <2>4 DEF Die, Leave, MutexInv, MutexTypeOK, ConnectionsInv, RegionInv
    <3>2. \A c \in Slots : /\ thread'[c].stage = thread[c].stage
                           /\ thread'[c].source = thread[c].source
                           /\ thread'[c].unread = thread[c].unread
                           /\ thread'[c].peerOpen => thread[c].peerOpen
                           /\ region[r].slot = c => ~thread'[c].peerOpen
      BY <2>4, <3>1 DEF Die, MutexInv, MutexTypeOK, Threads
    <3> QED
      BY <3>1, <3>2, RegionStep, AcceptUnmoved DEF ConnectionsInv
  <2>5. CASE CentralDies
    <3>1. /\ \A c \in Slots : /\ thread'[c].stage = "none" /\ ~thread'[c].unread
                              /\ thread'[c].source = thread[c].source
          /\ backlog' = <<>> /\ greeting' = NoSlot /\ region' = region
      BY <2>5 DEF CentralDies, MutexInv, MutexTypeOK, Threads
    <3> QED
      BY <3>1 DEF ConnectionsInv, AcceptInv, ThreadInv, RegionInv
  <2>6. CASE \/ CentralStarts \/ PrepareQuery \/ PrepareRefused \/ BeginQuery \/ BusyQuery
             \/ EndQuery \/ PageSent \/ UNCHANGED vars
    <3>1. UNCHANGED <<backlog, greeting, thread, region>>
      BY <2>6 DEF CentralStarts, PrepareQuery, PrepareRefused, BeginQuery, BusyQuery,
                  EndQuery, PageSent, vars, server
    <3> QED
      BY <3>1 DEF ConnectionsInv, AcceptInv, ThreadInv, RegionInv
  <2> QED
    BY <2>1, <2>2, <2>3, <2>4, <2>5, <2>6, AcceptKeeps, ConnectKeeps, HandshakeDoneKeeps,
       AcknowledgeKeeps, SendSyncKeeps DEF Next
<1> QED
  BY <1>1, <1>2, MutexInvariant, PTL DEF Spec

-----------------------------------------------------------------------------
(* Measurements under way.                                                 *)

\* Two sets of connections that differ in c at most differ in size by what c is worth.
LEMMA SizesDiffer ==
    ASSUME NEW S \in SUBSET Slots, NEW T \in SUBSET Slots, NEW c \in Slots,
           S \ {c} = T \ {c}
    PROVE  /\ Cardinality(S) \in Nat /\ Cardinality(T) \in Nat
           /\ (c \in S <=> c \in T) => Cardinality(T) = Cardinality(S)
           /\ c \in S /\ c \notin T => Cardinality(S) = Cardinality(T) + 1
           /\ c \notin S /\ c \in T => Cardinality(T) = Cardinality(S) + 1
<1>1. /\ IsFiniteSet(S) /\ Cardinality(S) \in Nat
      /\ IsFiniteSet(T) /\ Cardinality(T) \in Nat
  BY SlotsAssumption, FS_Subset, FS_CardinalityType
<1>2. (c \in S <=> c \in T) => S = T
  OBVIOUS
<1>3. c \in S /\ c \notin T => S = T \cup {c}
  OBVIOUS
<1>4. c \notin S /\ c \in T => T = S \cup {c}
  OBVIOUS
<1> QED
  BY <1>1, <1>2, <1>3, <1>4, FS_AddElement

LEMMA CountsTypes ==
    ASSUME NEW r \in Regions
    PROVE  /\ Pending(r) \in Nat /\ Unconfirmed(r) \in Nat
           /\ Pending(r)' \in Nat /\ Unconfirmed(r)' \in Nat
<1>1. /\ Unread(r) \cup Carrying(r, {"locking", "inserting"}) \in SUBSET Slots
      /\ Carrying(r, {"aggregating", "acking"}) \in SUBSET Slots
      /\ Unread(r)' \cup Carrying(r, {"locking", "inserting"})' \in SUBSET Slots
      /\ Carrying(r, {"aggregating", "acking"})' \in SUBSET Slots
  BY DEF Unread, Carrying
<1> QED
  BY <1>1, SlotsAssumption, FS_Subset, FS_CardinalityType DEF Pending, Unconfirmed

\* What a step of one thread changes in the counts is what its record says of region r.
LEMMA PendingStep ==
    ASSUME NEW c \in Slots, \A k \in Slots \ {c} : thread'[k] = thread[k], NEW r \in Regions
    PROVE  /\ (Carries(thread[c], r) <=> Carries(thread'[c], r)) => Pending(r)' = Pending(r)
           /\ Carries(thread[c], r) /\ ~Carries(thread'[c], r) => Pending(r) = Pending(r)' + 1
           /\ ~Carries(thread[c], r) /\ Carries(thread'[c], r) => Pending(r)' = Pending(r) + 1
<1> DEFINE S == Unread(r) \cup Carrying(r, {"locking", "inserting"})
           T == Unread(r)' \cup Carrying(r, {"locking", "inserting"})'
<1>1. S = {k \in Slots : Carries(thread[k], r)} /\ T = {k \in Slots : Carries(thread'[k], r)}
  BY DEF Unread, Carrying, Carries
<1>2. S \in SUBSET Slots /\ T \in SUBSET Slots /\ S \ {c} = T \ {c}
  BY <1>1
<1>3. (c \in S <=> Carries(thread[c], r)) /\ (c \in T <=> Carries(thread'[c], r))
  BY <1>1
<1>4. Pending(r) = Cardinality(S) /\ Pending(r)' = Cardinality(T)
  BY DEF Pending
<1> HIDE DEF S, T
<1> QED
  BY <1>2, <1>3, <1>4, SizesDiffer

LEMMA UnconfirmedStep ==
    ASSUME NEW c \in Slots, \A k \in Slots \ {c} : thread'[k] = thread[k], NEW r \in Regions
    PROVE  /\ (HasStored(thread[c], r) <=> HasStored(thread'[c], r))
                 => Unconfirmed(r)' = Unconfirmed(r)
           /\ HasStored(thread[c], r) /\ ~HasStored(thread'[c], r)
                 => Unconfirmed(r) = Unconfirmed(r)' + 1
           /\ ~HasStored(thread[c], r) /\ HasStored(thread'[c], r)
                 => Unconfirmed(r)' = Unconfirmed(r) + 1
<1> DEFINE S == Carrying(r, {"aggregating", "acking"})
           T == Carrying(r, {"aggregating", "acking"})'
<1>1. S = {k \in Slots : HasStored(thread[k], r)} /\ T = {k \in Slots : HasStored(thread'[k], r)}
  BY DEF Carrying, HasStored
<1>2. S \in SUBSET Slots /\ T \in SUBSET Slots /\ S \ {c} = T \ {c}
  BY <1>1
<1>3. (c \in S <=> HasStored(thread[c], r)) /\ (c \in T <=> HasStored(thread'[c], r))
  BY <1>1
<1>4. Unconfirmed(r) = Cardinality(S) /\ Unconfirmed(r)' = Cardinality(T)
  BY DEF Unconfirmed
<1> HIDE DEF S, T
<1> QED
  BY <1>2, <1>3, <1>4, SizesDiffer

\* A step of a thread after which the counts of every region are those before it.
LEMMA NothingUnderWayChanges ==
    ASSUME NEW c \in Slots, \A k \in Slots \ {c} : thread'[k] = thread[k],
           \A r \in Regions : /\ Carries(thread[c], r) <=> Carries(thread'[c], r)
                              /\ HasStored(thread[c], r) <=> HasStored(thread'[c], r)
    PROVE  \A r \in Regions : Pending(r)' = Pending(r) /\ Unconfirmed(r)' = Unconfirmed(r)
BY PendingStep, UnconfirmedStep

\* The counts are those of stages, sources and unread messages.
LEMMA SameThreads ==
    ASSUME \A c \in Slots : /\ thread'[c].stage = thread[c].stage
                            /\ thread'[c].source = thread[c].source
                            /\ thread'[c].unread = thread[c].unread
    PROVE  \A r \in Regions : Pending(r)' = Pending(r) /\ Unconfirmed(r)' = Unconfirmed(r)
<1>1. ASSUME NEW r \in Regions
      PROVE  /\ Unread(r)' = Unread(r)
             /\ Carrying(r, {"locking", "inserting"})' = Carrying(r, {"locking", "inserting"})
             /\ Carrying(r, {"aggregating", "acking"})' = Carrying(r, {"aggregating", "acking"})
  BY <1>1 DEF Unread, Carrying
<1> QED
  BY <1>1 DEF Pending, Unconfirmed

\* What is under way is forgotten or left alone, and nothing is sent, stored or confirmed.
Forgets ==
    /\ UNCHANGED <<rows, sent, acked>>
    /\ \A r \in Regions : /\ Pending(r)' \in 0 .. Pending(r)
                          /\ Unconfirmed(r)' \in 0 .. Unconfirmed(r)

\* The counts of region r change by p and u, those of the others not at all.
Counted(r, p, u) ==
    /\ Pending(r)' = Pending(r) + p /\ Unconfirmed(r)' = Unconfirmed(r) + u
    /\ \A k \in Regions \ {r} : Pending(k)' = Pending(k) /\ Unconfirmed(k)' = Unconfirmed(k)

LEMMA SendSyncCounts ==
    ASSUME MutexInv, ConnectionsInv, NEW r \in Regions, SendSync(r)
    PROVE  Counted(r, 1, 0)
<1> DEFINE c == region[r].slot
<1>1. /\ c \in Slots /\ region[r].state = "idle"
      /\ thread[c].stage = "reading" /\ ~thread[c].unread /\ thread[c].source = r
  BY NoSlotAssumption DEF SendSync, ServerGone, ConnectionsInv, RegionInv
<1>2. /\ \A k \in Slots \ {c} : thread'[k] = thread[k]
      /\ thread'[c].stage = "reading" /\ thread'[c].source = r /\ thread'[c].unread
  BY <1>1 DEF SendSync, MutexInv, MutexTypeOK, Threads
<1>3. /\ ~Carries(thread[c], r) /\ Carries(thread'[c], r)
      /\ \A k \in Regions \ {r} : ~Carries(thread[c], k) /\ ~Carries(thread'[c], k)
      /\ \A k \in Regions : ~HasStored(thread[c], k) /\ ~HasStored(thread'[c], k)
  BY <1>1, <1>2 DEF Carries, HasStored
<1>4. Pending(r)' = Pending(r) + 1
  BY <1>1, <1>2, <1>3, PendingStep, Zenon
<1>5. \A k \in Regions \ {r} : Pending(k)' = Pending(k)
  BY <1>1, <1>2, <1>3, PendingStep, Zenon
<1>6. \A k \in Regions : Unconfirmed(k)' = Unconfirmed(k)
  BY <1>1, <1>2, <1>3, UnconfirmedStep, Zenon
<1> QED
  BY <1>4, <1>5, <1>6, CountsTypes DEF Counted

LEMMA InsertCounts ==
    ASSUME MutexInv, ConnectionsInv, NEW c \in Slots, Insert(c),
           NEW r \in Regions, thread[c].source = r
    PROVE  Counted(r, -1, 1)
<1>1. thread[c].stage = "inserting" /\ ~thread[c].unread
  BY DEF Insert, ConnectionsInv, ThreadInv
<1>2. /\ \A k \in Slots \ {c} : thread'[k] = thread[k]
      /\ thread'[c].stage = "aggregating" /\ thread'[c].source = r /\ ~thread'[c].unread
  BY <1>1 DEF Insert, Stage, MutexInv, MutexTypeOK, Threads
<1>3. /\ Carries(thread[c], r) /\ ~HasStored(thread[c], r)
      /\ HasStored(thread'[c], r)
      /\ \A k \in Regions : ~Carries(thread'[c], k)
      /\ \A k \in Regions \ {r} : /\ ~Carries(thread[c], k)
                                  /\ ~HasStored(thread[c], k) /\ ~HasStored(thread'[c], k)
  BY <1>1, <1>2 DEF Carries, HasStored
<1>4. Pending(r) = Pending(r)' + 1 /\ Unconfirmed(r)' = Unconfirmed(r) + 1
  BY <1>1, <1>2, <1>3, PendingStep, UnconfirmedStep, Zenon
<1>5. \A k \in Regions \ {r} : Pending(k)' = Pending(k)
  BY <1>1, <1>2, <1>3, PendingStep, Zenon
<1>6. \A k \in Regions \ {r} : Unconfirmed(k)' = Unconfirmed(k)
  BY <1>1, <1>2, <1>3, UnconfirmedStep, Zenon
<1>7. Pending(r)' = Pending(r) + (-1)
  BY <1>1, <1>4, CountsTypes
<1> QED
  BY <1>1, <1>4, <1>5, <1>6, <1>7 DEF Counted

LEMMA AcknowledgeCounts ==
    ASSUME MutexInv, ConnectionsInv, NEW c \in Slots, Acknowledge(c),
           NEW r \in Regions, thread[c].source = r
    PROVE  Counted(r, 0, -1)
<1>1. thread[c].stage = "acking" /\ ~thread[c].unread
  BY DEF Acknowledge, ConnectionsInv, ThreadInv
<1>2. /\ \A k \in Slots \ {c} : thread'[k] = thread[k]
      /\ thread'[c].stage \in {"reading", "none"}
      /\ thread'[c].source = r /\ ~thread'[c].unread
  <2>1. CASE thread[c].peerOpen
    <3>1. thread' = [thread EXCEPT ![c].stage = "reading"]
      BY <2>1, Zenon DEF Acknowledge, Stage
    <3> QED
      BY <1>1, <3>1 DEF MutexInv, MutexTypeOK, Threads
  <2>2. CASE ~thread[c].peerOpen
    <3>1. thread' = [thread EXCEPT ![c].stage = "none", ![c].unread = FALSE]
      BY <2>2, Zenon DEF Acknowledge, Ended
    <3> QED
      BY <3>1 DEF MutexInv, MutexTypeOK, Threads
  <2> QED
    BY <2>1, <2>2
<1>3. /\ HasStored(thread[c], r)
      /\ \A k \in Regions \ {r} : ~HasStored(thread[c], k)
      /\ \A k \in Regions : /\ ~HasStored(thread'[c], k)
                            /\ ~Carries(thread[c], k) /\ ~Carries(thread'[c], k)
  BY <1>1, <1>2 DEF Carries, HasStored
<1>4. Unconfirmed(r) = Unconfirmed(r)' + 1
  BY <1>2, <1>3, UnconfirmedStep, Zenon
<1>5. \A k \in Regions : Pending(k)' = Pending(k)
  BY <1>2, <1>3, PendingStep, Zenon
<1>6. \A k \in Regions \ {r} : Unconfirmed(k)' = Unconfirmed(k)
  BY <1>2, <1>3, UnconfirmedStep, Zenon
<1>7. Unconfirmed(r)' = Unconfirmed(r) + (-1) /\ Pending(r)' = Pending(r) + 0
  BY <1>4, <1>5, CountsTypes
<1> QED
  BY <1>5, <1>6, <1>7 DEF Counted

\* Sending, storing and confirming are the only steps that add anything.
LEMMA StepCases ==
    ASSUME MutexInv, ConnectionsInv, [Next]_vars
    PROVE  \/ \E r \in Regions : SendSync(r)
           \/ \E c \in Slots : Insert(c) \/ Acknowledge(c)
           \/ Forgets
<1>1. ASSUME UNCHANGED <<rows, sent, acked>>,
             \A r \in Regions : Pending(r)' = Pending(r) /\ Unconfirmed(r)' = Unconfirmed(r)
      PROVE  Forgets
  BY <1>1, CountsTypes DEF Forgets
<1>2. ASSUME NEW c \in Slots, \A k \in Slots \ {c} : thread'[k] = thread[k],
             ~thread[c].unread, ~thread'[c].unread,
             thread[c].stage \in {"none", "queued", "greeting", "reading"},
             thread'[c].stage \in {"none", "queued", "greeting", "reading"},
             UNCHANGED <<rows, sent, acked>>
      PROVE  Forgets
  <2>1. \A r \in Regions : /\ Carries(thread[c], r) <=> Carries(thread'[c], r)
                           /\ HasStored(thread[c], r) <=> HasStored(thread'[c], r)
    BY <1>2 DEF Carries, HasStored
  <2> QED
    BY <1>1, <1>2, <2>1, NothingUnderWayChanges
<1>3. ASSUME Accept PROVE Forgets
  <2>1. Head(backlog) \in Slots /\ Head(backlog) = backlog[1] /\ 1 \in 1 .. Len(backlog)
    BY <1>3 DEF Accept, MutexInv, MutexTypeOK
  <2>2. thread[Head(backlog)].stage = "queued" /\ ~thread[Head(backlog)].unread
    BY <2>1 DEF ConnectionsInv, AcceptInv, ThreadInv
  <2> QED
    BY <1>2, <1>3, <2>1, <2>2 DEF Accept, Stage, history, MutexInv, MutexTypeOK, Threads
<1>4. ASSUME HandshakeFails \/ \E r \in Regions : HandshakeDone(r) PROVE Forgets
  <2>1. /\ greeting \in Slots
        /\ thread[greeting].stage = "greeting" /\ ~thread[greeting].unread
    BY <1>4 DEF HandshakeFails, HandshakeDone, MutexInv, MutexTypeOK, ConnectionsInv,
       AcceptInv, ThreadInv
  <2> QED
    BY <1>2, <1>4, <2>1 DEF HandshakeFails, HandshakeDone, Stage, Ended, history, MutexInv,
       MutexTypeOK, Threads
<1>5. ASSUME NEW c \in Slots, ReadSync(c) \/ Lock(c) \/ Aggregate(c) PROVE Forgets
  <2>1. /\ \A k \in Slots \ {c} : thread'[k] = thread[k]
        /\ thread'[c].source = thread[c].source
        /\ UNCHANGED <<rows, sent, acked>>
    BY <1>5 DEF ReadSync, Lock, Aggregate, Stage, history, MutexInv, MutexTypeOK, Threads
  <2>2. \A r \in Regions : /\ Carries(thread[c], r) <=> Carries(thread'[c], r)
                           /\ HasStored(thread[c], r) <=> HasStored(thread'[c], r)
    <3>1. thread[c].unread => thread[c].stage = "reading"
      BY DEF ConnectionsInv, ThreadInv
    <3> QED
      BY <1>5, <2>1, <3>1 DEF ReadSync, Lock, Aggregate, Stage, MutexInv, MutexTypeOK, Threads,
         Carries, HasStored
  <2> QED
    BY <1>1, <2>1, <2>2, NothingUnderWayChanges
<1>6. ASSUME NEW c \in Slots, ReadEnd(c) PROVE Forgets
  BY <1>2, <1>6 DEF ReadEnd, Ended, history, MutexInv, MutexTypeOK, Threads
<1>7. ASSUME NEW r \in Regions, NEW c \in Slots, Connect(r, c) PROVE Forgets
  BY <1>2, <1>7 DEF Connect, FreeSlot, history, MutexInv, MutexTypeOK, ConnectionsInv, ThreadInv
<1>8. ASSUME NEW r \in Regions, Die(r) PROVE Forgets
  BY <1>1, <1>8, SameThreads DEF Die, history, MutexInv, MutexTypeOK, Threads
<1>9. ASSUME CentralDies PROVE Forgets
  <2>1. \A c \in Slots : thread'[c].stage = "none" /\ ~thread'[c].unread
    BY <1>9 DEF CentralDies, MutexInv, MutexTypeOK, Threads
  <2>2. ASSUME NEW r \in Regions PROVE Pending(r)' = 0 /\ Unconfirmed(r)' = 0
    <3>1. /\ Unread(r)' \cup Carrying(r, {"locking", "inserting"})' = {}
          /\ Carrying(r, {"aggregating", "acking"})' = {}
      BY <2>1 DEF Unread, Carrying
    <3> QED
      BY <3>1, FS_EmptySet DEF Pending, Unconfirmed
  <2>3. \A r \in Regions : Pending(r)' \in 0 .. Pending(r) /\ Unconfirmed(r)' \in 0 .. Unconfirmed(r)
    BY <2>2, CountsTypes
  <2>4. UNCHANGED <<rows, sent, acked>>
    BY <1>9 DEF CentralDies, history
  <2> QED
    BY <2>3, <2>4 DEF Forgets
<1>10. ASSUME thread' = thread, UNCHANGED <<rows, sent, acked>> PROVE Forgets
  BY <1>1, <1>10, SameThreads
<1>11. ASSUME NEW r \in Regions,
              \/ ConnectFails(r) \/ FallSilent(r)
              \/ \E state \in {"down", "broken"} : SendThrows(r, state) \/ SyncThrows(r, state)
       PROVE  Forgets
  BY <1>10, <1>11 DEF ConnectFails, FallSilent, SendThrows, SyncThrows, server, history
<1>12. CASE \/ CentralStarts \/ PrepareQuery \/ PrepareRefused \/ BeginQuery \/ BusyQuery
            \/ EndQuery \/ PageSent \/ UNCHANGED vars
  BY <1>10, <1>12 DEF CentralStarts, PrepareQuery, PrepareRefused, BeginQuery, BusyQuery,
     EndQuery, PageSent, vars, server, history
<1> QED
  BY <1>3, <1>4, <1>5, <1>6, <1>7, <1>8, <1>9, <1>11, <1>12 DEF Next

-----------------------------------------------------------------------------
(* What is stored and acknowledged, and the types.                         *)

LEMMA CountsBound ==
    ASSUME CountsInv
    PROVE  /\ rows \in [Regions -> 0 .. MaxSyncs] /\ sent \in [Regions -> 0 .. MaxSyncs]
           /\ acked \in [Regions -> 0 .. MaxSyncs]
<1>1. ASSUME NEW r \in Regions
      PROVE  rows[r] \in 0 .. MaxSyncs /\ sent[r] \in 0 .. MaxSyncs /\ acked[r] \in 0 .. MaxSyncs
  BY CountsTypes, MaxSyncsAssumption DEF CountsInv
<1> QED
  BY <1>1 DEF CountsInv

LEMMA CountsStep ==
    ASSUME MutexInv, ConnectionsInv, CountsInv, MonitorInv, [Next]_vars
    PROVE  CountsInv'
<1> USE DEF CountsInv
<1>1. CASE Forgets
  BY <1>1, CountsTypes DEF Forgets
<1>2. ASSUME NEW r \in Regions, SendSync(r) PROVE CountsInv'
  <2>1. /\ sent[r] < MaxSyncs /\ sent' = [sent EXCEPT ![r] = @ + 1]
        /\ rows' = rows /\ acked' = acked
    BY <1>2 DEF SendSync
  <2>2. Counted(r, 1, 0)
    BY <1>2, SendSyncCounts
  <2> QED
    BY <2>1, <2>2, CountsTypes, MaxSyncsAssumption DEF Counted
<1>3. ASSUME NEW c \in Slots, Insert(c) PROVE CountsInv'
  <2>1. PICK r \in Regions : thread[c].source = r
    BY <1>3 DEF Insert, ConnectionsInv, ThreadInv
  <2>2. /\ rows' = rows \/ rows' = [rows EXCEPT ![r] = @ + 1]
        /\ ~MonitorRuns => rows' = [rows EXCEPT ![r] = @ + 1]
        /\ sent' = sent /\ acked' = acked
    BY <1>3, <2>1 DEF Insert, Inserted, SharedLock, MonitorInv, history
  <2>3. Counted(r, -1, 1)
    BY <1>3, <2>1, InsertCounts
  <2> QED
    BY <2>2, <2>3, CountsTypes, MaxSyncsAssumption DEF Counted
<1>4. ASSUME NEW c \in Slots, Acknowledge(c) PROVE CountsInv'
  <2>1. PICK r \in Regions : thread[c].source = r
    BY <1>4 DEF Acknowledge, ConnectionsInv, ThreadInv
  <2>2. /\ acked' = acked \/ acked' = [acked EXCEPT ![r] = @ + 1]
        /\ sent' = sent /\ rows' = rows
    BY <1>4, <2>1 DEF Acknowledge
  <2>3. Counted(r, 0, -1)
    BY <1>4, <2>1, AcknowledgeCounts
  <2> QED
    BY <2>2, <2>3, CountsTypes, MaxSyncsAssumption DEF Counted
<1> QED
  BY <1>1, <1>2, <1>3, <1>4, StepCases

LEMMA CountsInit == Init => CountsInv
<1> SUFFICES ASSUME Init PROVE CountsInv
  OBVIOUS
<1>1. ASSUME NEW r \in Regions PROVE Pending(r) = 0 /\ Unconfirmed(r) = 0
  <2>1. /\ Unread(r) \cup Carrying(r, {"locking", "inserting"}) = {}
        /\ Carrying(r, {"aggregating", "acking"}) = {}
    BY DEF Init, NoThread, Unread, Carrying
  <2> QED
    BY <2>1, FS_EmptySet DEF Pending, Unconfirmed
<1> QED
  BY <1>1, MaxSyncsAssumption DEF Init, CountsInv

\* What the end of a query leaves of the page.
LEMMA AnsweredFacts ==
    ASSUME monitor \in Pages, NEW outcome \in Outcomes, NEW counted \in [Regions -> 0 .. MaxSyncs],
           Answered(outcome, counted)
    PROVE  /\ monitor' \in Pages
           /\ monitor'.stage = (IF monitor.query = 1 THEN "idle" ELSE "shown")
           /\ monitor'.query = 2
           /\ monitor'.outcome[Query] = outcome /\ monitor'.counted[Query] = counted
           /\ \A q \in QueryNames \ {Query} : /\ monitor'.outcome[q] = monitor.outcome[q]
                                              /\ monitor'.counted[q] = monitor.counted[q]
<1>1. Query \in QueryNames
  BY DEF Query, Queries, QueryNames, Pages
<1>2. /\ monitor'.stage = (IF monitor.query = 1 THEN "idle" ELSE "shown")
      /\ monitor'.query = 2
      /\ monitor'.outcome = [monitor.outcome EXCEPT ![Query] = outcome]
      /\ monitor'.counted = [monitor.counted EXCEPT ![Query] = counted]
      /\ monitor' = [stage |-> monitor'.stage, query |-> 2, outcome |-> monitor'.outcome,
                     counted |-> monitor'.counted]
  BY DEF Answered, Pages
<1>3. /\ monitor.outcome \in [QueryNames -> Outcomes]
      /\ monitor.counted \in [QueryNames -> [Regions -> 0 .. MaxSyncs]]
  BY DEF Pages
<1>4. /\ monitor'.outcome \in [QueryNames -> Outcomes]
      /\ monitor'.counted \in [QueryNames -> [Regions -> 0 .. MaxSyncs]]
      /\ monitor'.stage \in {"idle", "prepared", "reading", "shown"}
  BY <1>1, <1>2, <1>3
<1>5. monitor' \in Pages
  BY <1>2, <1>4 DEF Pages
<1> QED
  BY <1>1, <1>2, <1>3, <1>5

LEMMA BeginFacts ==
    ASSUME CountsInv, monitor \in Pages, BeginQuery
    PROVE  /\ monitor' \in Pages
           /\ monitor'.stage = "reading" /\ monitor'.query = monitor.query
           /\ monitor'.counted[Query] = rows
           /\ \A q \in QueryNames \ {Query} : monitor'.counted[q] = monitor.counted[q]
<1>1. Query \in QueryNames
  BY DEF Query, Queries, QueryNames, Pages
<1>2. /\ monitor'.stage = "reading" /\ monitor'.query = monitor.query
      /\ monitor'.outcome = monitor.outcome
      /\ monitor'.counted = [monitor.counted EXCEPT ![Query] = rows]
      /\ monitor' = [stage |-> "reading", query |-> monitor.query, outcome |-> monitor.outcome,
                     counted |-> monitor'.counted]
  BY DEF BeginQuery, Pages
<1>3. monitor.counted \in [QueryNames -> [Regions -> 0 .. MaxSyncs]]
  BY DEF Pages
<1>4. monitor'.counted \in [QueryNames -> [Regions -> 0 .. MaxSyncs]]
  BY <1>1, <1>2, <1>3, CountsBound
<1>5. monitor' \in Pages
  BY <1>2, <1>4 DEF Pages
<1> QED
  BY <1>1, <1>2, <1>3, <1>5

\* A page before its first query, and the count of a query that delivered nothing.
LEMMA NoPageFacts ==
    /\ NoPage \in Pages /\ NoPage.stage = "idle"
    /\ \A q \in QueryNames : NoPage.counted[q] = [r \in Regions |-> 0]
<1>1. 0 \in 0 .. MaxSyncs
  BY MaxSyncsAssumption
<1> QED
  BY <1>1 DEF NoPage, Pages, QueryNames, Outcomes

\* The queries of the monitor: what each of its steps does to the page.
LEMMA MonitorCases ==
    ASSUME CountsInv, MonitorInv, [Next]_vars
    PROVE  /\ monitor' \in Pages
           /\ \/ monitor' = monitor
              \/ monitor' = NoPage
              \/ PrepareQuery
              \/ BeginQuery
              \/ EndQuery
              \/ \E outcome \in {"refused", "busy"} : Answered(outcome, NoPage.counted[Query])
           /\ monitor' # monitor /\ monitor.stage = "idle" => MonitorRuns
<1>1. Query \in QueryNames /\ monitor \in Pages
  BY DEF Query, Queries, QueryNames, Pages, MonitorInv
<1>2. CASE monitor' = monitor
  BY <1>1, <1>2
<1>3. CASE PrepareQuery
  BY <1>1, <1>3 DEF PrepareQuery, Pages
<1>4. CASE PrepareRefused \/ BusyQuery
  <2>1. PICK outcome \in {"refused", "busy"} : Answered(outcome, NoPage.counted[Query])
    BY <1>4 DEF PrepareRefused, BusyQuery
  <2>2. NoPage.counted[Query] \in [Regions -> 0 .. MaxSyncs]
    BY <1>1, NoPageFacts, MaxSyncsAssumption
  <2>3. outcome \in Outcomes
    BY DEF Outcomes
  <2>4. monitor' \in Pages
    BY <1>1, <2>1, <2>2, <2>3, AnsweredFacts
  <2>5. monitor.stage = "idle" => MonitorRuns
    BY <1>4 DEF PrepareRefused, BusyQuery
  <2> QED
    BY <2>1, <2>4, <2>5
<1>5. CASE BeginQuery
  BY <1>1, <1>5, BeginFacts DEF BeginQuery
<1>6. CASE EndQuery
  <2>1. Answered("read", monitor.counted[Query]) /\ "read" \in Outcomes
    BY <1>6 DEF EndQuery, Outcomes
  <2>2. monitor.counted[Query] \in [Regions -> 0 .. MaxSyncs]
    BY <1>1 DEF Pages
  <2>3. monitor' \in Pages
    BY <1>1, <2>1, <2>2, AnsweredFacts
  <2> QED
    BY <1>6, <2>3 DEF EndQuery
<1>7. CASE PageSent
  BY <1>7, NoPageFacts DEF PageSent
<1>8. ASSUME NEW c \in Slots,
             ReadSync(c) \/ ReadEnd(c) \/ Lock(c) \/ Insert(c) \/ Aggregate(c) \/ Acknowledge(c)
      PROVE  monitor' = monitor
  BY <1>8 DEF ReadSync, ReadEnd, Lock, Insert, Aggregate, Acknowledge
<1>9. ASSUME NEW r \in Regions,
             \/ HandshakeDone(r) \/ ConnectFails(r) \/ SendSync(r) \/ Die(r) \/ FallSilent(r)
             \/ \E c \in Slots : Connect(r, c)
             \/ \E state \in {"down", "broken"} : SendThrows(r, state) \/ SyncThrows(r, state)
      PROVE  monitor' = monitor
  BY <1>9 DEF HandshakeDone, ConnectFails, SendSync, Die, FallSilent, Connect, SendThrows,
     SyncThrows
<1>10. CASE Accept \/ HandshakeFails \/ CentralDies \/ CentralStarts \/ UNCHANGED vars
  BY <1>2, <1>10 DEF Accept, HandshakeFails, CentralDies, CentralStarts, vars
<1> QED
  BY <1>2, <1>3, <1>4, <1>5, <1>6, <1>7, <1>8, <1>9, <1>10 DEF Next

LEMMA MonitorStep ==
    ASSUME CountsInv, MonitorInv, [Next]_vars
    PROVE  MonitorInv'
<1>1. monitor' \in Pages
  BY MonitorCases
<1>2. ASSUME ~MonitorRuns PROVE monitor'.stage = "idle"
  <2>1. monitor.stage = "idle"
    BY <1>2 DEF MonitorInv
  <2>2. monitor' = monitor
    BY <1>2, <2>1, MonitorCases
  <2> QED
    BY <2>1, <2>2
<1> QED
  BY <1>1, <1>2 DEF MonitorInv

\* The threads, the counts and the monitor are inductive together.
StoreInv == MutexInv /\ ConnectionsInv /\ CountsInv /\ MonitorInv

THEOREM StoreInvariant == Spec => []StoreInv
<1>1. Init => CountsInv /\ MonitorInv
  BY CountsInit, NoPageFacts DEF Init, MonitorInv
<1>2. MutexInv /\ ConnectionsInv /\ CountsInv /\ MonitorInv /\ [Next]_vars
        => CountsInv' /\ MonitorInv'
  BY CountsStep, MonitorStep
<1> QED
  BY <1>1, <1>2, ConnectionsInvariant, PTL DEF Spec, StoreInv

\* The types and bounds of the central server, its database and its monitor: no count
\* passes the number of reports that were sent.
THEOREM CentralTypes == Spec => []CentralTypeOK
<1>1. Init => up \in BOOLEAN
  BY DEF Init
<1>2. up \in BOOLEAN /\ [Next]_vars => (up \in BOOLEAN)'
  BY DEF Next, vars, server, Accept, HandshakeFails, ReadSync, ReadEnd, Lock, Insert, Aggregate,
     Acknowledge, HandshakeDone, Connect, ConnectFails, SendSync, SendThrows, SyncThrows, Die,
     FallSilent, CentralDies, CentralStarts, PrepareQuery, PrepareRefused, BeginQuery, BusyQuery,
     EndQuery, PageSent
<1>3. StoreInv /\ up \in BOOLEAN => CentralTypeOK
  BY CountsBound DEF StoreInv, MutexInv, MutexTypeOK, MonitorInv, CentralTypeOK
<1> QED
  BY <1>1, <1>2, <1>3, StoreInvariant, PTL DEF Spec

\* Without a second reader of the database, what a region was told is stored is stored,
\* and nothing is stored that was not sent.
THEOREM AcksAreForRows ==
    ASSUME ~MonitorRuns
    PROVE  Spec => []AckedIsStored
<1>1. StoreInv => AckedIsStored
  <2> SUFFICES ASSUME StoreInv, NEW r \in Regions PROVE acked[r] <= rows[r] /\ rows[r] <= sent[r]
    BY DEF AckedIsStored
  <2> QED
    BY CountsTypes DEF StoreInv, CountsInv
<1> QED
  BY <1>1, StoreInvariant, PTL

-----------------------------------------------------------------------------
(* Without a monitor the central server implements CentralStore.           *)

LEMMA StoreInit == Init => Store!Init
<1> SUFFICES ASSUME Init PROVE Store!Init
  OBVIOUS
<1>1. ASSUME NEW r \in Regions
      PROVE  /\ Cardinality(Unread(r) \cup Carrying(r, {"locking", "inserting"})) = 0
             /\ Cardinality(Carrying(r, {"aggregating", "acking"})) = 0
  <2>1. /\ Unread(r) \cup Carrying(r, {"locking", "inserting"}) = {}
        /\ Carrying(r, {"aggregating", "acking"}) = {}
    BY DEF Init, NoThread, Unread, Carrying
  <2> QED
    BY <2>1, FS_EmptySet
<1> QED
  BY <1>1 DEF Init, Store!Init

\* The mapped variables, in the words of the counts.
LEMMA StoreWords ==
    ASSUME NEW r \in Regions
    PROVE  /\ Cardinality(Unread(r) \cup Carrying(r, {"locking", "inserting"})) = Pending(r)
           /\ Cardinality(Carrying(r, {"aggregating", "acking"})) = Unconfirmed(r)
           /\ Cardinality(Unread(r) \cup Carrying(r, {"locking", "inserting"}))' = Pending(r)'
           /\ Cardinality(Carrying(r, {"aggregating", "acking"}))' = Unconfirmed(r)'
BY DEF Pending, Unconfirmed

LEMMA ForgetsMapped ==
    ASSUME Forgets
    PROVE  Store!Next
<1>1. Store!Forget
  BY StoreWords DEF Forgets, Store!Forget, Store!Fewer
<1> QED
  BY <1>1 DEF Store!Next

LEMMA SendSyncMapped ==
    ASSUME MutexInv, ConnectionsInv, NEW r \in Regions, SendSync(r)
    PROVE  Store!Next
<1>1. Counted(r, 1, 0)
  BY SendSyncCounts
<1>2. [k \in Regions |-> Pending(k)'] = [[k \in Regions |-> Pending(k)] EXCEPT ![r] = @ + 1]
  BY <1>1 DEF Counted
<1>3. [k \in Regions |-> Unconfirmed(k)'] = [k \in Regions |-> Unconfirmed(k)]
  BY <1>1, CountsTypes DEF Counted
<1>4. Store!Submit(r)
  BY <1>2, <1>3 DEF Store!Submit, Pending, Unconfirmed, SendSync
<1> QED
  BY <1>4 DEF Store!Next

LEMMA InsertMapped ==
    ASSUME StoreInv, ~MonitorRuns, NEW c \in Slots, Insert(c)
    PROVE  Store!Next
<1>1. PICK r \in Regions : thread[c].source = r
  BY DEF Insert, StoreInv, ConnectionsInv, ThreadInv
<1>2. Counted(r, -1, 1)
  BY <1>1, InsertCounts DEF StoreInv
<1>3. Pending(r)' = Pending(r) - 1 /\ Pending(r) > 0
  BY <1>2, CountsTypes DEF Counted
<1>4. [k \in Regions |-> Pending(k)'] = [[k \in Regions |-> Pending(k)] EXCEPT ![r] = @ - 1]
  BY <1>2, <1>3 DEF Counted
<1>5. [k \in Regions |-> Unconfirmed(k)']
          = [[k \in Regions |-> Unconfirmed(k)] EXCEPT ![r] = @ + 1]
  BY <1>2 DEF Counted
<1>6. rows' = [rows EXCEPT ![r] = @ + 1] /\ acked' = acked
  BY <1>1 DEF Insert, Inserted, SharedLock, StoreInv, MonitorInv, history
<1>7. Store!Store(r)
  BY <1>3, <1>4, <1>5, <1>6 DEF Store!Store, Pending, Unconfirmed
<1> QED
  BY <1>7 DEF Store!Next

\* An acknowledgement that cannot be written or that nobody reads is a confirmation
\* forgotten.
LEMMA AcknowledgeMapped ==
    ASSUME MutexInv, ConnectionsInv, NEW c \in Slots, Acknowledge(c)
    PROVE  Store!Next
<1>1. PICK r \in Regions : thread[c].source = r
  BY DEF Acknowledge, ConnectionsInv, ThreadInv
<1>2. Counted(r, 0, -1)
  BY <1>1, AcknowledgeCounts
<1>3. /\ Unconfirmed(r)' = Unconfirmed(r) - 1 /\ Unconfirmed(r) > 0
      /\ \A k \in Regions : Pending(k)' = Pending(k)
  BY <1>2, CountsTypes DEF Counted
<1>4. CASE thread[c].peerOpen /\ region[thread[c].source].state = "syncing"
  <2>1. rows' = rows /\ acked' = [acked EXCEPT ![r] = @ + 1]
    BY <1>1, <1>4 DEF Acknowledge
  <2>2. [k \in Regions |-> Pending(k)'] = [k \in Regions |-> Pending(k)]
    BY <1>3
  <2>3. [k \in Regions |-> Unconfirmed(k)']
            = [[k \in Regions |-> Unconfirmed(k)] EXCEPT ![r] = @ - 1]
    BY <1>2, <1>3 DEF Counted
  <2>4. Store!Confirm(r)
    BY <1>3, <2>1, <2>2, <2>3 DEF Store!Confirm, Pending, Unconfirmed
  <2> QED
    BY <2>4 DEF Store!Next
<1>5. CASE ~(thread[c].peerOpen /\ region[thread[c].source].state = "syncing")
  <2>1. UNCHANGED <<rows, sent, acked>>
    BY <1>5 DEF Acknowledge
  <2>2. Forgets
    BY <1>2, <1>3, <2>1, CountsTypes DEF Counted, Forgets
  <2> QED
    BY <2>2, ForgetsMapped
<1> QED
  BY <1>4, <1>5

\* Without a second reader of its database the central server implements CentralStore:
\* through deaths of either side, lost connections and interleaved threads, a REGION_SYNC
\* makes one row at most, and a confirmation always has its row.
THEOREM CentralServerImplementsStore ==
    ASSUME ~MonitorRuns
    PROVE  Spec => RefinesCentralStore
<1>1. StoreInv /\ [Next]_vars => [Store!Next]_(Store!vars)
  <2> SUFFICES ASSUME StoreInv, [Next]_vars PROVE Store!Next
    OBVIOUS
  <2> QED
    BY StepCases, SendSyncMapped, InsertMapped, AcknowledgeMapped, ForgetsMapped DEF StoreInv
<1> QED
  BY <1>1, StoreInit, StoreInvariant, PTL DEF Spec, RefinesCentralStore, Store!Spec

-----------------------------------------------------------------------------
(* The pages of the monitor.                                               *)

\* Between the two queries of a page the totals stay below the table, because rows are
\* never deleted.
LEMMA PageStep ==
    ASSUME StoreInv, PageInv, [Next]_vars
    PROVE  PageInv'
<1>1. /\ monitor \in Pages /\ Query \in QueryNames
      /\ Query = (IF monitor.query = 1 THEN "totals" ELSE "table")
      /\ monitor.query \in {1, 2}
  BY DEF StoreInv, MonitorInv, Pages, Query, Queries, QueryNames
<1>2. \A r \in Regions : rows[r] \in Nat /\ rows'[r] \in Nat /\ rows'[r] >= rows[r]
  <2>1. rows' = rows \/ \E c \in Slots : Insert(c)
    BY StepCases DEF StoreInv, SendSync, Acknowledge, Forgets
  <2> QED
    BY <2>1 DEF Insert, Inserted, StoreInv, CountsInv
<1>3. CASE monitor' = monitor
  <2>1. \A r \in Regions : monitor.counted["totals"][r] \in Nat
    BY <1>1 DEF Pages, QueryNames
  <2>2. \A r \in Regions : monitor'.counted["totals"][r] <= rows'[r]
    BY <1>2, <1>3, <2>1 DEF PageInv
  <2>3. PageNeverAhead'
    BY <1>3 DEF PageInv, PageNeverAhead
  <2> QED
    BY <1>3, <2>2, <2>3 DEF PageInv
<1>4. CASE monitor' = NoPage
  <2>1. /\ monitor'.stage = "idle" /\ "totals" \in QueryNames
        /\ monitor'.counted["totals"] = [r \in Regions |-> 0]
    BY <1>4, NoPageFacts DEF QueryNames
  <2> QED
    BY <1>2, <2>1 DEF PageInv, PageNeverAhead
<1>5. CASE PrepareQuery
  BY <1>1, <1>2, <1>5 DEF PrepareQuery, PageInv, PageNeverAhead, Pages
<1>6. CASE BeginQuery
  <2>1. rows' = rows
    BY <1>6 DEF BeginQuery
  <2> QED
    BY <1>1, <1>2, <1>6, <2>1, BeginFacts DEF StoreInv, PageInv, PageNeverAhead, QueryNames
<1>7. CASE EndQuery
  <2>1. /\ monitor.stage = "reading" /\ Answered("read", monitor.counted[Query])
        /\ rows' = rows /\ "read" \in Outcomes
    BY <1>7 DEF EndQuery, Outcomes
  <2>2. monitor.counted[Query] \in [Regions -> 0 .. MaxSyncs]
    BY <1>1 DEF Pages
  <2>3. \A q \in QueryNames : monitor'.counted[q] = monitor.counted[q]
    BY <1>1, <2>1, <2>2, AnsweredFacts
  <2>4. monitor'.stage = (IF monitor.query = 1 THEN "idle" ELSE "shown")
    BY <1>1, <2>1, <2>2, AnsweredFacts
  <2> QED
    BY <1>1, <2>1, <2>3, <2>4 DEF PageInv, PageNeverAhead, QueryNames
<1>8. ASSUME NEW outcome \in {"refused", "busy"}, Answered(outcome, NoPage.counted[Query])
      PROVE  PageInv'
  <2>1. /\ NoPage.counted[Query] = [r \in Regions |-> 0] /\ outcome \in Outcomes
        /\ NoPage.counted[Query] \in [Regions -> 0 .. MaxSyncs]
    BY <1>1, NoPageFacts, MaxSyncsAssumption DEF Outcomes
  <2>2. /\ monitor'.stage = (IF monitor.query = 1 THEN "idle" ELSE "shown")
        /\ monitor'.outcome[Query] = outcome
        /\ monitor'.counted[Query] = [r \in Regions |-> 0]
        /\ \A q \in QueryNames \ {Query} : monitor'.counted[q] = monitor.counted[q]
    BY <1>1, <1>8, <2>1, AnsweredFacts
  <2>3. \A r \in Regions : monitor'.counted["totals"][r] <= rows'[r]
    BY <1>1, <1>2, <2>2 DEF PageInv, QueryNames, Pages
  <2> QED
    BY <1>1, <2>2, <2>3 DEF PageInv, PageNeverAhead, QueryNames
<1> QED
  BY <1>3, <1>4, <1>5, <1>6, <1>7, <1>8, MonitorCases DEF StoreInv

\* generatePage: the totals of a page never exceed what its table was read from, though
\* the queries are two transactions and inserts go on between them.
THEOREM PagesAreNeverAhead == Spec => []PageNeverAhead
<1>1. Init => PageInv
  <2>1. ASSUME Init PROVE PageInv
    <3>1. /\ monitor.stage = "idle" /\ "totals" \in QueryNames
          /\ monitor.counted["totals"] = [r \in Regions |-> 0]
          /\ rows = [r \in Regions |-> 0]
      BY <2>1, NoPageFacts DEF Init, QueryNames
    <3> QED
      BY <3>1 DEF PageInv, PageNeverAhead
  <2> QED
    BY <2>1
<1>2. StoreInv /\ PageInv /\ [Next]_vars => PageInv'
  BY PageStep
<1>3. PageInv => PageNeverAhead
  BY DEF PageInv
<1> QED
  BY <1>1, <1>2, <1>3, StoreInvariant, PTL DEF Spec
=============================================================================
