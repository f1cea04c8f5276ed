---------------------------- MODULE OperationStore ----------------------------
(***************************************************************************)
(* The transitions operation_store.py offers on one row.  Each method runs *)
(* in one BEGIN IMMEDIATE transaction: it loads the row, its builder       *)
(* refuses some states (Can...), and _persist_transition applies the       *)
(* contract's guard and a compare-and-set on state and attempt.  Callers   *)
(* therefore use a method as a single step                                 *)
(*     row' = IF CanX(row) THEN X(row) ELSE row                            *)
(* where the ELSE branch is OperationStateConflict (rollback).             *)
(***************************************************************************)
EXTENDS ReliabilityContract

\* reserve(): the row a first reservation inserts (_validate_initial).
Reserved == [state |-> "prepared", attempt |-> 0]

CanStartAttempt(o) == o.state = "prepared"
StartAttempt(o) == [state |-> "in_flight", attempt |-> o.attempt + 1]

CanMarkCompleted(kind, o) ==
    \/ o.state \in {"in_flight", "delivery_unknown"}
    \/ /\ o.state \in {"prepared", "failed_safe", "retry_wait"}
       /\ kind = "cognition"
       /\ o.attempt >= 1
MarkCompleted(o) == [o EXCEPT !.state = "completed"]

CanMarkFailedSafe(o) == o.state \in {"in_flight", "delivery_unknown"}
MarkFailedSafe(o) == [o EXCEPT !.state = "failed_safe"]

CanMarkDeliveryUnknown(kind, o) == kind = "contact" /\ o.state = "in_flight"
MarkDeliveryUnknown(o) == [o EXCEPT !.state = "delivery_unknown"]

CanScheduleRetry(o) == o.state = "failed_safe"
ScheduleRetry(o) == [o EXCEPT !.state = "retry_wait"]

CanMakeRetryReady(o) == o.state = "retry_wait"
MakeRetryReady(o) == [o EXCEPT !.state = "prepared"]

CanMarkExhausted(o) == o.state = "failed_safe"
MarkExhausted(o) == [o EXCEPT !.state = "exhausted"]

\* purge_terminal() selects old percept and cognition rows in these states;
\* contact rows are kept for good.
Purgeable(kind, o) == kind \in {"percept", "cognition"} /\ o.state \in Terminal
=============================================================================
