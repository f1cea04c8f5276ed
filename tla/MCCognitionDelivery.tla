------------------------- MODULE MCCognitionDelivery -------------------------
(* Small instances of CognitionDelivery for TLC. *)
EXTENDS CognitionDelivery, TLC

CONSTANTS t1, t2, t3, k1, k2

ThreadSymmetry == Permutations(Threads)
OwnTask == [k \in Keys |-> k]
SharedTask == [k \in Keys |-> k1]
=============================================================================
