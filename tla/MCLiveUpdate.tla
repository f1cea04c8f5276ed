---------------------------- MODULE MCLiveUpdate ----------------------------
(* Small instances of LiveUpdate for TLC. *)
EXTENDS LiveUpdate, TLC

CONSTANTS u1, u2

UnitSymmetry == Permutations(Units)
=============================================================================
