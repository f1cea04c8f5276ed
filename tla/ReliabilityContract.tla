------------------------- MODULE ReliabilityContract -------------------------
(***************************************************************************)
(* The shared reliability vocabulary of the bridge: the durable states of  *)
(* an operation, its three classes, and the class-aware guard every        *)
(* persisted transition has to pass (reliability_contract.py).             *)
(*                                                                         *)
(* An operation row is [state, attempt].  Its identity (id, key, request   *)
(* hash, creation time, schema) never changes once inserted and is the     *)
(* index of the row in the modules that use this one.  BridgeOperation      *)
(* accepts one delivery_outcome per state of a contact row, and none for   *)
(* the other classes, so rows do not carry it.                             *)
(***************************************************************************)
EXTENDS Naturals

OperationState ==
    {"prepared", "in_flight", "retry_wait", "completed", "failed_safe",
     "delivery_unknown", "exhausted"}

RetryClass == {"percept", "cognition", "contact"}

Operation == [state : OperationState, attempt : Nat]

\* "absent": no row has been reserved for this identity yet.
NoOperation == [state |-> "absent", attempt |-> 0]
Row == Operation \cup {NoOperation}

AllowedTransitions ==
    {<<"prepared", "in_flight">>,
     <<"in_flight", "completed">>,
     <<"in_flight", "failed_safe">>,
     <<"in_flight", "delivery_unknown">>,
     <<"failed_safe", "retry_wait">>,
     <<"failed_safe", "exhausted">>,
     <<"retry_wait", "prepared">>,
     <<"delivery_unknown", "completed">>,
     <<"delivery_unknown", "failed_safe">>}

LateCognitionCompletionStates == {"prepared", "failed_safe", "retry_wait"}

IsOperationTransitionAllowed(kind, current, candidate) ==
    /\ candidate.attempt =
         IF current.state = "prepared" /\ candidate.state = "in_flight"
         THEN current.attempt + 1
         ELSE current.attempt
    /\ \/ <<current.state, candidate.state>> \in AllowedTransitions
       \/ /\ kind = "cognition"
          /\ current.attempt >= 1
          /\ current.state \in LateCognitionCompletionStates
          /\ candidate.state = "completed"

Terminal == {"completed", "exhausted"}
=============================================================================
