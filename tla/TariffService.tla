---------------------------- MODULE TariffService ----------------------------
(***************************************************************************)
(* What a regional server promises its meters, whatever happens to         *)
(* connections, to the central server and to the process: a meter is       *)
(* served in one session at a time; a session counts cycles of             *)
(* ReportsPerCycle measurements; a price is announced at the end of a cycle*)
(* and only if it is not the price announced last.  A session may end at   *)
(* any moment, alone or with the others.                                   *)
(***************************************************************************)
EXTENDS Integers

CONSTANTS
    Devices,
    Conns,
    ReportsPerCycle,
    PriceList,        \* every price that may be announced
    NoDevice,
    Unannounced       \* the price of a session that has been told none

VARIABLES
    session,    \* per connection: the meter it serves, or NoDevice
    collected,  \* measurements of the current cycle
    announced   \* the price announced last in this session

vars == <<session, collected, announced>>

\* The meter registers; nobody else serves it.
Open(c, d) ==
    /\ session[c] = NoDevice /\ \A k \in Conns : session[k] # d
    /\ session' = [session EXCEPT ![c] = d]
    /\ UNCHANGED <<collected, announced>>

\* A measurement is taken in; there is room for it in the cycle.
Collect(c) ==
    /\ session[c] # NoDevice /\ collected[c] < ReportsPerCycle
    /\ collected' = [collected EXCEPT ![c] = @ + 1]
    /\ UNCHANGED <<session, announced>>

\* The cycle is complete and its price is the announced one: nothing is sent.
Skip(c) ==
    /\ session[c] # NoDevice /\ collected[c] = ReportsPerCycle
    /\ collected' = [collected EXCEPT ![c] = 0]
    /\ UNCHANGED <<session, announced>>

\* The cycle is complete and its price is another one.
Announce(c) ==
    /\ session[c] # NoDevice /\ collected[c] = ReportsPerCycle
    /\ \E price \in PriceList \ {announced[c]} : announced' = [announced EXCEPT ![c] = price]
    /\ collected' = [collected EXCEPT ![c] = 0]
    /\ UNCHANGED session

End(lost) ==
    /\ session'   = [c \in Conns |-> IF c \in lost THEN NoDevice ELSE session[c]]
    /\ collected' = [c \in Conns |-> IF c \in lost THEN 0 ELSE collected[c]]
    /\ announced' = [c \in Conns |-> IF c \in lost THEN Unannounced ELSE announced[c]]

Init ==
    /\ session = [c \in Conns |-> NoDevice]
    /\ collected = [c \in Conns |-> 0]
    /\ announced = [c \in Conns |-> Unannounced]

Next ==
    \/ \E c \in Conns :
          \/ \E d \in Devices : Open(c, d)
          \/ Collect(c)
          \/ Skip(c)
          \/ Announce(c)
    \/ \E lost \in SUBSET Conns : End(lost)

Spec == Init /\ [][Next]_vars
=============================================================================
