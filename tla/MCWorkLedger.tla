---------------------------- MODULE MCWorkLedger ----------------------------
EXTENDS WorkLedger

\* Three facts of the busy session s1, two of them contending for one id and
\* two for one key, and one fact of the session s2.
MCFacts == {[id |-> 1, key |-> "k1", session |-> "s1", at |-> 0],
            [id |-> 2, key |-> "k2", session |-> "s1", at |-> 1],
            [id |-> 2, key |-> "k1", session |-> "s1", at |-> 1],
            [id |-> 1, key |-> "k3", session |-> "s2", at |-> 1],
            [id |-> 3, key |-> "k3", session |-> "s2", at |-> 0]}
=============================================================================
