-------------------------- MODULE MCContactDelivery --------------------------
(* Small instances of ContactDelivery for TLC. *)
EXTENDS ContactDelivery, TLC

CONSTANTS k1, k2, b1, b2, c1, c2, t1, t2

ThreadSymmetry == Permutations(Threads)
NoLegacyRows == {}
=============================================================================
