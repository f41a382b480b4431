--------------------------- MODULE MCCentralServer ---------------------------
(***************************************************************************)
(* Small instances of CentralServer for TLC.                               *)
(***************************************************************************)
EXTENDS CentralServer, TLC

Symmetry == Permutations(Slots)
=============================================================================
