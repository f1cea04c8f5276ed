-------------------------- MODULE MCPerceptDelivery --------------------------
(* Small instances of PerceptDelivery for TLC. *)
EXTENDS PerceptDelivery, TLC

CONSTANTS s1, s2, p1, p2

WorkerSymmetry == Permutations(Submitters) \cup Permutations(Pumps)
=============================================================================
