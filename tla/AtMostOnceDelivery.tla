-------------------------- MODULE AtMostOnceDelivery --------------------------
(***************************************************************************)
(* What the contact path promises, with no threads, databases or crashes:  *)
(* for each idempotency key a ledger entry and the fate of one message.    *)
(* A message is emitted at most once, only under a claim that has not been *)
(* put in doubt, and a doubtful entry is decided by what really happened.  *)
(***************************************************************************)
CONSTANT Keys

VARIABLES
    ledger,   \* what is durably recorded for a key
    world     \* what became of its message

vars == <<ledger, world>>

Init ==
    /\ ledger \in [Keys -> {"open", "refused"}]
    /\ world = [k \in Keys |-> "none"]

Claim(k) ==
    /\ ledger[k] = "open"
    /\ ledger' = [ledger EXCEPT ![k] = "claimed"]
    /\ UNCHANGED world

Emit(k) ==
    /\ ledger[k] = "claimed" /\ world[k] = "none"
    /\ world' = [world EXCEPT ![k] = "pending"]
    /\ UNCHANGED ledger

Settle(k) ==
    /\ world[k] = "pending"
    /\ \E outcome \in {"delivered", "dropped"} : world' = [world EXCEPT ![k] = outcome]
    /\ UNCHANGED ledger

\* The owners of some claims are gone, or no longer know what they did.
Doubt ==
    /\ \E S \in SUBSET {k \in Keys : ledger[k] = "claimed"} :
         ledger' = [k \in Keys |-> IF k \in S THEN "doubtful" ELSE ledger[k]]
    /\ UNCHANGED world

Confirm(k) ==
    /\ ledger[k] \in {"claimed", "doubtful"} /\ world[k] = "delivered"
    /\ ledger' = [ledger EXCEPT ![k] = "delivered"]
    /\ UNCHANGED world

Refuse(k) ==
    /\ ledger[k] \in {"claimed", "doubtful"} /\ world[k] \in {"none", "dropped"}
    /\ ledger' = [ledger EXCEPT ![k] = "refused"]
    /\ UNCHANGED world

Next ==
    \/ Doubt
    \/ \E k \in Keys : Claim(k) \/ Emit(k) \/ Settle(k) \/ Confirm(k) \/ Refuse(k)

Spec == Init /\ [][Next]_vars
=============================================================================
