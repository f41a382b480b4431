--------------------------- MODULE MCRegionalServer ---------------------------
(***************************************************************************)
(* Small instances of RegionalServer for TLC.                              *)
(***************************************************************************)
EXTENDS RegionalServer, TLC

\* Every meter reports under its own URI, as smart_meter/client_async_test.cpp does.
OwnUri == [d \in Devices |-> {d}]

\* One working hour, or one of each tariff: Tuesday 12:00 and 03:00, winter time.
Noon        == {[day |-> 2, hour |-> 12, dst |-> FALSE]}
NoonAndNight == Noon \cup {[day |-> 2, hour |-> 3, dst |-> FALSE]}

\* Slots and meters are interchangeable in every safety property.
Symmetry == Permutations(Conns) \cup Permutations(Devices)
=============================================================================
