------------------------- MODULE MCPrivacyMigration -------------------------
(* Small instances of PrivacyMigration for TLC. *)
EXTENDS PrivacyMigration, TLC

CONSTANTS w1, w2

WriterSymmetry == Permutations(Writers)
=============================================================================
