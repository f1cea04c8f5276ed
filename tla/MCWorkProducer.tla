--------------------------- MODULE MCWorkProducer ---------------------------
(* Small instances of WorkProducer for TLC. *)
EXTENDS WorkProducer, TLC

ProducerSymmetry == Permutations(Contexts) \cup Permutations(Workers)
=============================================================================
