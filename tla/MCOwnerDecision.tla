-------------------------- MODULE MCOwnerDecision --------------------------
(* Small instances of OwnerDecision for TLC. *)
EXTENDS OwnerDecision

CONSTANTS t1, t2, e1, e2

\* An approval and a later unrelated contact on one route; a contact about
\* another approval on another route, stamped like the unrelated one.
MCCreatedAt == <<1, 2, 2>>
MCTargetOf == <<t1, t1, t2>>
MCEventOf == <<e1, None, e2>>

\* Two approvals asked for on one route.
PairCreatedAt == <<1, 2>>
PairTargetOf == <<t1, t1>>
PairEventOf == <<e1, e2>>
PairWithOther == <<e1, None>>
=============================================================================
