----------------------------- MODULE WorkLedger -----------------------------
(***************************************************************************)
(* The shadow ledger of finished work: work_store.py behind the guards of  *)
(* work_projection.py and work_adapter.py.  A producer submits work facts, *)
(* an observer reports session activity, and an evaluator decides the      *)
(* facts whose idle deadline has passed.  Every call is one BEGIN          *)
(* IMMEDIATE transaction, so callers of any number of processes interleave *)
(* between calls and a crash inside one leaves no trace: the hazards are   *)
(* the orders of calls, repeated and conflicting facts, and the two tables *)
(* (ledger and outbox) that each call must keep equal.                     *)
(***************************************************************************)
EXTENDS Naturals, FiniteSets

CONSTANTS Ids,          \* fact_id values; their order is the SQL tie-break
          Keys,         \* idempotency keys
          Sessions,
          Times,        \* observation times, and the `now' of an evaluation
          Facts,        \* the facts producers submit
          Delays,       \* the idle delays of the callers' configurations
          Limit,        \* rows one evaluation takes
          MaxEpoch,     \* bound: activities noted per session
          MaxReplays,   \* bound: duplicate submissions counted
          None

Final == {"invalidated", "suppressed", "shadow_candidate"}
OutboxStates == Final \cup {"pending_idle"}

LedgerRow == [fact : Facts, epoch : Nat, disposition : OutboxStates]
OutboxRow == [key : Keys, session : Sessions, epoch : Nat, due : Nat,
              state : OutboxStates]

ASSUME WorkAssumption ==
    /\ Ids \subseteq Nat /\ Times \subseteq Nat /\ Delays \subseteq Nat
    /\ Facts \subseteq [id : Ids, key : Keys, session : Sessions, at : Times]
    /\ IsFiniteSet(Ids)
    /\ Limit \in Nat \ {0} /\ MaxEpoch \in Nat /\ MaxReplays \in Nat
    /\ None \notin LedgerRow \cup OutboxRow

VARIABLES
    ledger,      \* work_ledger: key -> its row, or None
    outbox,      \* shadow_outbox: fact id -> its row, or None
    epoch,       \* session_epochs.epoch; 0 also stands for a missing row
    observer,    \* sessions whose observer_available is 1
    metrics,     \* work_metrics_daily, the days summed
    disturbed    \* history: keys whose session was active after acceptance

vars == <<ledger, outbox, epoch, observer, metrics, disturbed>>

MetricNames == Final \cup {"accepted", "duplicate", "activity"}

Accepted == {k \in Keys : ledger[k] # None}
Queued == {i \in Ids : outbox[i] # None}

Init ==
    /\ ledger = [k \in Keys |-> None]
    /\ outbox = [i \in Ids |-> None]
    /\ epoch = [s \in Sessions |-> 0]
    /\ observer = {}
    /\ metrics = [m \in MetricNames |-> 0]
    /\ disturbed = {}

(***************************************************************************)
(* accept                                                                  *)
(***************************************************************************)

\* The rows accept() inserts, bound to the epoch the session is in.  A missing
\* session row is inserted with epoch 0 and no observer, which is what a
\* missing row is read as here.
Insert(f, d) ==
    /\ ledger' = [ledger EXCEPT ![f.key] =
                    [fact |-> f, epoch |-> epoch[f.session],
                     disposition |-> "pending_idle"]]
    /\ outbox' = [outbox EXCEPT ![f.id] =
                    [key |-> f.key, session |-> f.session,
                     epoch |-> epoch[f.session], due |-> f.at + d,
                     state |-> "pending_idle"]]
    /\ metrics' = [metrics EXCEPT !["accepted"] = @ + 1]
    /\ UNCHANGED <<epoch, observer, disturbed>>

\* Mutant: the fact id is not checked, and the outbox row is replaced.
AcceptNewReplacing(f, d) == ledger[f.key] = None /\ Insert(f, d)

\* Neither the key nor the fact id is in the ledger.
AcceptNew(f, d) ==
    /\ ledger[f.key] = None
    /\ \A k \in Accepted : ledger[k].fact.id # f.id
    /\ Insert(f, d)

\* Mutant: the replayed fact is written again over its own rows.
AcceptDuplicateAgain(f) ==
    /\ ledger[f.key] # None
    /\ ledger[f.key].fact = f
    /\ metrics["duplicate"] < MaxReplays
    /\ metrics' = [metrics EXCEPT !["duplicate"] = @ + 1]
    /\ ledger' = [ledger EXCEPT ![f.key].disposition = "pending_idle",
                                ![f.key].epoch = epoch[f.session]]
    /\ outbox' = [outbox EXCEPT ![f.id].state = "pending_idle",
                                ![f.id].epoch = epoch[f.session]]
    /\ UNCHANGED <<epoch, observer, disturbed>>

\* The same fact under its key again only counts a duplicate.  The same key
\* with another digest, or the same id under another key, raises
\* WorkConflictError and rolls back: it is no step of the store.
AcceptDuplicate(f) ==
    /\ ledger[f.key] # None
    /\ ledger[f.key].fact = f
    /\ metrics["duplicate"] < MaxReplays
    /\ metrics' = [metrics EXCEPT !["duplicate"] = @ + 1]
    /\ UNCHANGED <<ledger, outbox, epoch, observer, disturbed>>

(***************************************************************************)
(* note_activity                                                           *)
(***************************************************************************)

\* The pending rows of session s that an activity moving it to epoch n ends.
Overtaken(s, n) ==
    {i \in Queued : /\ outbox[i].session = s
                    /\ outbox[i].epoch < n
                    /\ outbox[i].state = "pending_idle"}

\* The rows in the domain of `verdict' get the state it names, in both tables.
LedgerAfter(verdict) ==
    [k \in Keys |->
        IF ledger[k] # None /\ ledger[k].fact.id \in DOMAIN verdict
        THEN [ledger[k] EXCEPT !.disposition = verdict[ledger[k].fact.id]]
        ELSE ledger[k]]

OutboxAfter(verdict) ==
    [i \in Ids |->
        IF i \in DOMAIN verdict THEN [outbox[i] EXCEPT !.state = verdict[i]]
        ELSE outbox[i]]

\* Any activity opens a new epoch, whatever its observation time.
NoteActivity(s) ==
    LET n == epoch[s] + 1
        I == Overtaken(s, n)
    IN  /\ epoch[s] < MaxEpoch
        /\ epoch' = [epoch EXCEPT ![s] = n]
        /\ observer' = observer \cup {s}
        /\ outbox' = OutboxAfter([i \in I |-> "invalidated"])
        /\ ledger' = LedgerAfter([i \in I |-> "invalidated"])
        /\ metrics' = [metrics EXCEPT !["activity"] = @ + 1,
                                      !["invalidated"] = @ + Cardinality(I)]
        /\ disturbed' = disturbed \cup
                          {k \in Accepted : ledger[k].fact.session = s}

(***************************************************************************)
(* evaluate_due                                                            *)
(***************************************************************************)

Due(now) == {i \in Queued : /\ outbox[i].state = "pending_idle"
                            /\ outbox[i].due <= now}

Before(i, j) == \/ outbox[i].due < outbox[j].due
                \/ outbox[i].due = outbox[j].due /\ i < j

\* ORDER BY due_at_us, fact_id LIMIT ?
Batch(now) ==
    {i \in Due(now) : Cardinality({j \in Due(now) : Before(j, i)}) < Limit}

\* Mutant: a session nobody observes counts as idle.
DecisionUnobserved(i) ==
    IF epoch[outbox[i].session] # outbox[i].epoch THEN "invalidated"
    ELSE "shadow_candidate"

Decision(i) ==
    IF outbox[i].session \notin observer THEN "suppressed"
    ELSE IF epoch[outbox[i].session] # outbox[i].epoch THEN "invalidated"
    ELSE "shadow_candidate"

\* One evaluation decides its whole batch in one transaction.
EvaluateDue(now) ==
    LET I == Batch(now)
    IN  /\ I # {}
        /\ outbox' = OutboxAfter([i \in I |-> Decision(i)])
        /\ ledger' = LedgerAfter([i \in I |-> Decision(i)])
        /\ metrics' = [m \in MetricNames |->
                         metrics[m] + Cardinality({i \in I : Decision(i) = m})]
        /\ UNCHANGED <<epoch, observer, disturbed>>

Next ==
    \/ \E f \in Facts, d \in Delays : AcceptNew(f, d)
    \/ \E f \in Facts : AcceptDuplicate(f)
    \/ \E s \in Sessions : NoteActivity(s)
    \/ \E now \in Times : EvaluateDue(now)

Spec == Init /\ [][Next]_vars

(***************************************************************************)
(* Properties                                                              *)
(***************************************************************************)

\* Every row has the columns its table declares.
TypeOK ==
    /\ ledger \in [Keys -> LedgerRow \cup {None}]
    /\ outbox \in [Ids -> OutboxRow \cup {None}]
    /\ epoch \in [Sessions -> Nat]
    /\ observer \subseteq Sessions
    /\ metrics \in [MetricNames -> Nat]
    /\ disturbed \subseteq Keys

\* The two tables tell one story: each ledger row has its outbox row, under
\* its fact's id, with the same key, session, epoch and state, and no outbox
\* row is without a ledger row (accept, note_activity and evaluate_due each
\* write both).
TablesAgree ==
    /\ \A k \in Accepted :
         LET r == ledger[k]
         IN  /\ r.fact.key = k
             /\ outbox[r.fact.id] # None
             /\ outbox[r.fact.id].key = k
             /\ outbox[r.fact.id].session = r.fact.session
             /\ outbox[r.fact.id].epoch = r.epoch
             /\ outbox[r.fact.id].state = r.disposition
    /\ \A i \in Queued : /\ ledger[outbox[i].key] # None
                         /\ ledger[outbox[i].key].fact.id = i

\* A fact still waiting for its deadline belongs to the epoch its session is
\* in: note_activity leaves evaluate_due no `idle_epoch_mismatch' to find.
PendingIsCurrent ==
    \A i \in Queued : outbox[i].state = "pending_idle"
                      => outbox[i].epoch = epoch[outbox[i].session]

\* A fact whose session was active after its acceptance no longer waits for
\* a decision: note_activity has ended it in its own transaction, so that no
\* evaluation, however late or stale its `now', can take it for idle.
DisturbedIsNotWaiting ==
    \A k \in disturbed : /\ k \in Accepted
                         /\ ledger[k].disposition # "pending_idle"

\* Work is proposed only after an idle stretch somebody watched: when a fact
\* becomes a candidate its session has an observer and was not active since
\* the fact was accepted; when it is suppressed nobody was watching.
DecideOnly ==
    \A k \in Accepted :
       /\ ledger'[k].disposition # ledger[k].disposition
       => CASE ledger'[k].disposition = "shadow_candidate" ->
                 k \notin disturbed' /\ ledger[k].fact.session \in observer
            [] ledger'[k].disposition = "suppressed" ->
                 ledger[k].fact.session \notin observer
            [] OTHER -> k \in disturbed'
CandidateWasIdle == [][DecideOnly]_vars

\* A decision is never taken back and an accepted fact is never rewritten,
\* by a replay, a conflicting submission, a later activity or evaluation.
KeepDecided ==
    \A k \in Accepted :
       /\ ledger'[k] # None
       /\ ledger'[k].fact = ledger[k].fact
       /\ ledger'[k].epoch = ledger[k].epoch
       /\ ledger[k].disposition \in Final => ledger'[k] = ledger[k]
DecisionsAreFinal == [][KeepDecided]_vars
=============================================================================
