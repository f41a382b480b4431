---------------------------- MODULE MCMeterSession ----------------------------
(***************************************************************************)
(* Small instances of MeterSession for TLC.                                *)
(***************************************************************************)
EXTENDS MeterSession, TLC

OwnUri       == [d \in Devices |-> {d}]
Noon         == {[day |-> 2, hour |-> 12, dst |-> FALSE]}
NoonAndNight == Noon \cup {[day |-> 2, hour |-> 3, dst |-> FALSE]}
Symmetry     == Permutations(Devices)
=============================================================================
