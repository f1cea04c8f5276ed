-------------------------- MODULE WorkLedger_proofs --------------------------
(***************************************************************************)
(* The two ends of the work channel: the ledger of facts, and below it the *)
(* producer that binds evidence to them.                                   *)
(*                                                                         *)
(* For any facts, sessions, delays and limits: the ledger and the outbox   *)
(* agree, and a fact becomes a candidate only after an idle stretch that   *)
(* was watched.  The invariant IInv joins the type, the agreement of the   *)
(* tables and two facts about pending rows; none of the four is inductive  *)
(* without the others, since evaluate_due reads the outbox, note_activity  *)
(* selects from it, and both write the ledger through the fact ids.        *)
(*                                                                         *)
(* For any threads, turns and limits: evidence leaves the producer's       *)
(* registry only for a reason.  What the code never states, and the proof  *)
(* needs, is that a bucket follows the log and that the registry's order   *)
(* is the order of last use in the log (ProducerInv).                      *)
(***************************************************************************)
EXTENDS WorkLedger, WorkProducer, SequenceTheorems, FiniteSetTheorems, WellFoundedInduction, TLAPS

IInv == TypeOK /\ TablesAgree /\ PendingIsCurrent /\ DisturbedIsNotWaiting

\* The rows a call takes are queued rows, finitely many.
LEMMA BatchFinite ==
    ASSUME TypeOK
    PROVE  /\ \A now : IsFiniteSet(Batch(now)) /\ Batch(now) \subseteq Ids
           /\ \A s, n : IsFiniteSet(Overtaken(s, n)) /\ Overtaken(s, n) \subseteq Ids
<1>1. \A now : Batch(now) \subseteq Ids
  BY DEF Batch, Due, Queued
<1>2. \A s, n : Overtaken(s, n) \subseteq Ids
  BY DEF Overtaken, Queued
<1>. QED
  BY <1>1, <1>2, FS_Subset, WorkAssumption DEF WorkAssumption

\* Every call keeps the types of both tables, of the epochs and the counters.
LEMMA TypeStep == TypeOK /\ [Next]_vars => TypeOK'
<1> SUFFICES ASSUME TypeOK, [Next]_vars
             PROVE  TypeOK'
  OBVIOUS
<1>1. CASE UNCHANGED vars
  BY <1>1 DEF TypeOK, vars
<1>2. ASSUME NEW f \in Facts, NEW d \in Delays, AcceptNew(f, d)
      PROVE  TypeOK'
  <2>1. f \in [id : Ids, key : Keys, session : Sessions, at : Times]
    BY WorkAssumption DEF WorkAssumption
  <2>2. f.at + d \in Nat
    <3>1. f.at \in Times /\ Times \subseteq Nat /\ Delays \subseteq Nat
      BY <2>1, WorkAssumption DEF WorkAssumption
    <3>2. f.at \in Nat /\ d \in Nat
      BY <3>1
    <3> QED
      BY <3>2
  <2>3. ledger' \in [Keys -> LedgerRow \cup {None}]
    BY <1>2, <2>1 DEF AcceptNew, Insert, TypeOK, LedgerRow, OutboxStates
  <2>4. outbox' \in [Ids -> OutboxRow \cup {None}]
    BY <1>2, <2>1, <2>2 DEF AcceptNew, Insert, TypeOK, OutboxRow, OutboxStates
  <2>5. metrics' \in [MetricNames -> Nat]
    BY <1>2 DEF AcceptNew, Insert, TypeOK, MetricNames
  <2> QED
    BY <1>2, <2>3, <2>4, <2>5 DEF AcceptNew, Insert, TypeOK
<1>3. ASSUME NEW f \in Facts, AcceptDuplicate(f)
      PROVE  TypeOK'
  BY <1>3 DEF AcceptDuplicate, TypeOK, MetricNames
<1>4. ASSUME NEW s \in Sessions, NoteActivity(s)
      PROVE  TypeOK'
  <2> DEFINE I == Overtaken(s, epoch[s] + 1)
  <2>1. Cardinality(I) \in Nat
    BY BatchFinite, FS_CardinalityType
  <2>2. ledger' \in [Keys -> LedgerRow \cup {None}]
    BY <1>4 DEF NoteActivity, LedgerAfter, TypeOK, LedgerRow,
                OutboxStates, Final
  <2>3. outbox' \in [Ids -> OutboxRow \cup {None}]
    BY <1>4 DEF NoteActivity, OutboxAfter, Overtaken, Queued,
                TypeOK, OutboxRow, OutboxStates, Final
  <2>4. metrics' \in [MetricNames -> Nat]
    BY <1>4, <2>1 DEF NoteActivity, TypeOK, MetricNames, Final
  <2> QED
    BY <1>4, <2>2, <2>3, <2>4 DEF NoteActivity, TypeOK, Accepted
<1>5. ASSUME NEW now \in Times, EvaluateDue(now)
      PROVE  TypeOK'
  <2>1. \A i : Decision(i) \in Final
    BY DEF Decision, Final
  <2>2. ledger' \in [Keys -> LedgerRow \cup {None}]
    BY <1>5, <2>1 DEF EvaluateDue, LedgerAfter, TypeOK, LedgerRow, OutboxStates
  <2>3. outbox' \in [Ids -> OutboxRow \cup {None}]
    BY <1>5, <2>1 DEF EvaluateDue, OutboxAfter, Batch, Due, Queued, TypeOK,
                OutboxRow, OutboxStates
  <2>4. ASSUME NEW m \in MetricNames
        PROVE  metrics[m] + Cardinality({i \in Batch(now) : Decision(i) = m}) \in Nat
    <3>1. IsFiniteSet({i \in Batch(now) : Decision(i) = m})
      BY BatchFinite, FS_Subset
    <3>2. Cardinality({i \in Batch(now) : Decision(i) = m}) \in Nat
      BY <3>1, FS_CardinalityType
    <3> QED
      BY <3>2 DEF TypeOK
  <2>5. metrics' \in [MetricNames -> Nat]
    BY <1>5, <2>4 DEF EvaluateDue
  <2> QED
    BY <1>5, <2>2, <2>3, <2>5 DEF EvaluateDue, TypeOK
<1> QED
  BY <1>1, <1>2, <1>3, <1>4, <1>5 DEF Next


LEMMA InitIInv == Init => IInv
BY DEF Init, IInv, TypeOK, TablesAgree, PendingIsCurrent, DisturbedIsNotWaiting,
       Accepted, Queued, LedgerRow, OutboxRow, MetricNames, Final

\* The shape shared by note_activity and evaluate_due: the rows in I, and no
\* others, get the state D gives them, in both tables.
Decided(I, D) ==
    /\ \A k \in Keys :
         IF ledger[k] # None /\ ledger[k].fact.id \in I
         THEN ledger'[k] = [ledger[k] EXCEPT !.disposition = D[ledger[k].fact.id]]
         ELSE ledger'[k] = ledger[k]
    /\ \A i \in Ids :
         IF i \in I THEN outbox'[i] = [outbox[i] EXCEPT !.state = D[i]]
         ELSE outbox'[i] = outbox[i]

\* Deciding queued rows in both tables keeps the tables equal, and changes of
\* a row nothing but its state.
LEMMA DecidedKeeps ==
    ASSUME TypeOK, TablesAgree, NEW I \in SUBSET Queued, NEW D \in [I -> Final],
           Decided(I, D)
    PROVE  /\ TablesAgree'
           /\ Accepted' = Accepted /\ Queued' = Queued
           /\ \A k \in Accepted :
                /\ ledger'[k].fact = ledger[k].fact
                /\ ledger'[k].epoch = ledger[k].epoch
                /\ ledger[k].fact.id \in I =>
                     ledger'[k].disposition = D[ledger[k].fact.id]
                /\ ledger[k].fact.id \notin I => ledger'[k] = ledger[k]
           /\ \A i \in Queued :
                /\ outbox'[i].session = outbox[i].session
                /\ outbox'[i].epoch = outbox[i].epoch
                /\ i \in I => outbox'[i].state = D[i]
                /\ i \notin I => outbox'[i] = outbox[i]
<1>n. /\ None \notin LedgerRow
      /\ None \notin OutboxRow
  BY WorkAssumption DEF WorkAssumption
<1>1. ASSUME NEW k \in Accepted
      PROVE  /\ ledger'[k] # None
             /\ ledger'[k].fact = ledger[k].fact
             /\ ledger'[k].epoch = ledger[k].epoch
             /\ ledger[k].fact.id \in I =>
                  ledger'[k].disposition = D[ledger[k].fact.id]
             /\ ledger[k].fact.id \notin I => ledger'[k] = ledger[k]
  <2>1. k \in Keys /\ ledger[k] # None /\ ledger[k] \in LedgerRow
    BY DEF Accepted, TypeOK
  <2>2. CASE ledger[k].fact.id \in I
    <3>1. ledger'[k] = [ledger[k] EXCEPT !.disposition = D[ledger[k].fact.id]]
      BY <2>1, <2>2 DEF Decided
    <3>2. D[ledger[k].fact.id] \in OutboxStates
      BY <2>2 DEF OutboxStates
    <3>3. ledger'[k] \in LedgerRow
      BY <3>1, <3>2, <2>1 DEF LedgerRow
    <3> QED
      BY <3>1, <3>3, <2>1, <2>2, <1>n DEF LedgerRow
  <2>3. CASE ledger[k].fact.id \notin I
    BY <2>1, <2>3 DEF Decided
  <2> QED
    BY <2>2, <2>3
<1>2. ASSUME NEW i \in Queued
      PROVE  /\ outbox'[i] # None
             /\ outbox'[i].key = outbox[i].key
             /\ outbox'[i].session = outbox[i].session
             /\ outbox'[i].epoch = outbox[i].epoch
             /\ i \in I => outbox'[i].state = D[i]
             /\ i \notin I => outbox'[i] = outbox[i]
  <2>1. i \in Ids /\ outbox[i] # None /\ outbox[i] \in OutboxRow
    BY DEF Queued, TypeOK
  <2>2. CASE i \in I
    <3>1. outbox'[i] = [outbox[i] EXCEPT !.state = D[i]]
      BY <2>1, <2>2 DEF Decided
    <3>2. D[i] \in OutboxStates
      BY <2>2 DEF OutboxStates
    <3>3. outbox'[i] \in OutboxRow
      BY <3>1, <3>2, <2>1 DEF OutboxRow
    <3> QED
      BY <3>1, <3>3, <2>1, <2>2, <1>n DEF OutboxRow
  <2>3. CASE i \notin I
    BY <2>1, <2>3 DEF Decided
  <2> QED
    BY <2>2, <2>3
<1>3. Accepted' = Accepted
  <2>1. ASSUME NEW k \in Keys PROVE ledger'[k] # None <=> ledger[k] # None
    <3>1. CASE k \in Accepted
      BY <1>1, <3>1 DEF Accepted
    <3>2. CASE k \notin Accepted
      BY <3>2 DEF Accepted, Decided
    <3>. QED
      BY <3>1, <3>2
  <2>. QED
    BY <2>1 DEF Accepted
<1>4. Queued' = Queued
  <2>1. ASSUME NEW i \in Ids PROVE outbox'[i] # None <=> outbox[i] # None
    <3>1. CASE i \in Queued
      BY <1>2, <3>1 DEF Queued
    <3>2. CASE i \notin Queued
      BY <3>2 DEF Queued, Decided
    <3>. QED
      BY <3>1, <3>2
  <2>. QED
    BY <2>1 DEF Queued
<1>5. TablesAgree'
  <2>1. ASSUME NEW k \in Accepted
        PROVE  LET r == ledger'[k]
               IN  /\ r.fact.key = k
                   /\ outbox'[r.fact.id] # None
                   /\ outbox'[r.fact.id].key = k
                   /\ outbox'[r.fact.id].session = r.fact.session
                   /\ outbox'[r.fact.id].epoch = r.epoch
                   /\ outbox'[r.fact.id].state = r.disposition
    <3>1. ledger[k].fact.id \in Queued
      BY WorkAssumption DEF WorkAssumption, TablesAgree, Accepted, Queued, TypeOK, LedgerRow
    <3>2. CASE ledger[k].fact.id \in I
      BY <1>1, <1>2, <3>1, <3>2 DEF TablesAgree
    <3>3. CASE ledger[k].fact.id \notin I
      BY <1>1, <1>2, <3>1, <3>3 DEF TablesAgree
    <3> QED
      BY <3>2, <3>3
  <2>2. ASSUME NEW i \in Queued
        PROVE  ledger'[outbox'[i].key] # None /\ ledger'[outbox'[i].key].fact.id = i
    <3>1. outbox[i].key \in Accepted
      BY <1>n DEF TablesAgree, Accepted, Queued, TypeOK, OutboxRow
    <3> QED
      BY <1>1, <1>2, <3>1 DEF TablesAgree
  <2> QED
    BY <1>3, <1>4, <2>1, <2>2 DEF TablesAgree
<1> QED
  BY <1>1, <1>2, <1>3, <1>4, <1>5

\* note_activity decides the rows it overtakes, evaluate_due its batch.
LEMMA ActivityDecides ==
    ASSUME TypeOK, NEW s \in Sessions, NoteActivity(s)
    PROVE  LET I == Overtaken(s, epoch[s] + 1)
           IN  I \in SUBSET Queued /\ Decided(I, [i \in I |-> "invalidated"])
<1>1. Overtaken(s, epoch[s] + 1) \in SUBSET Queued
  BY DEF Overtaken
<1> QED
  BY <1>1 DEF NoteActivity, Decided, LedgerAfter, OutboxAfter

LEMMA EvaluationDecides ==
    ASSUME TypeOK, NEW now \in Times, EvaluateDue(now)
    PROVE  LET I == Batch(now)
           IN  /\ I \in SUBSET Queued
               /\ [i \in I |-> Decision(i)] \in [I -> Final]
               /\ Decided(I, [i \in I |-> Decision(i)])
<1>1. Batch(now) \in SUBSET Queued
  BY DEF Batch, Due
<1>2. \A i : Decision(i) \in Final
  BY DEF Decision, Final
<1>3. Decided(Batch(now), [i \in Batch(now) |-> Decision(i)])
  BY <1>1 DEF EvaluateDue, Decided, LedgerAfter, OutboxAfter
<1> QED
  BY <1>1, <1>2, <1>3

\* Every call keeps the two tables equal and the pending rows current.
LEMMA InvStep == IInv /\ [Next]_vars => IInv'
<1> SUFFICES ASSUME IInv, [Next]_vars
             PROVE  IInv'
  OBVIOUS
<1> USE DEF IInv
<1>t. TypeOK'
  BY TypeStep
<1>n. /\ None \notin LedgerRow
      /\ None \notin OutboxRow
  BY WorkAssumption DEF WorkAssumption
<1>f. \A f \in Facts : /\ f.id \in Ids
                       /\ f.key \in Keys
                       /\ f.session \in Sessions
  BY WorkAssumption DEF WorkAssumption
<1>1. CASE UNCHANGED vars
  BY <1>1, <1>t DEF vars, TablesAgree, PendingIsCurrent, DisturbedIsNotWaiting,
                    Accepted, Queued
<1>2. ASSUME NEW f \in Facts, NEW d \in Delays, AcceptNew(f, d)
      PROVE  IInv'
  <2> DEFINE lr == [fact |-> f, epoch |-> epoch[f.session],
                    disposition |-> "pending_idle"]
             or == [key |-> f.key, session |-> f.session,
                    epoch |-> epoch[f.session], due |-> f.at + d,
                    state |-> "pending_idle"]
  <2>1. /\ f.id \in Ids /\ f.key \in Keys /\ f.session \in Sessions
        /\ ledger[f.key] = None
        /\ \A k \in Accepted : ledger[k].fact.id # f.id
        /\ ledger' = [ledger EXCEPT ![f.key] = lr]
        /\ outbox' = [outbox EXCEPT ![f.id] = or]
        /\ epoch' = epoch /\ disturbed' = disturbed
    BY <1>2, <1>f DEF AcceptNew, Insert
  <2>2. /\ ledger'[f.key] = lr /\ outbox'[f.id] = or
        /\ \A k \in Keys \ {f.key} : ledger'[k] = ledger[k]
        /\ \A i \in Ids \ {f.id} : outbox'[i] = outbox[i]
    BY <2>1 DEF TypeOK
  <2>3. lr # None /\ or # None
    <3>1. ledger'[f.key] \in LedgerRow \cup {None}
      BY <1>t, <2>1 DEF TypeOK
    <3>2. lr \in LedgerRow
      BY <2>1 DEF LedgerRow, OutboxStates, TypeOK
    <3>3. f.at + d \in Nat
      <4>1. f.at \in Times /\ Times \subseteq Nat /\ Delays \subseteq Nat
        BY WorkAssumption DEF WorkAssumption
      <4>2. f.at \in Nat /\ d \in Nat
        BY <4>1
      <4> QED
        BY <4>2
    <3>4. or \in OutboxRow
      BY <2>1, <3>3 DEF OutboxRow, OutboxStates, TypeOK
    <3> QED
      BY <3>2, <3>4, <1>n
  <2>4. /\ lr.fact = f /\ lr.epoch = epoch[f.session]
        /\ lr.disposition = "pending_idle"
        /\ or.key = f.key /\ or.session = f.session
        /\ or.epoch = epoch[f.session] /\ or.state = "pending_idle"
    OBVIOUS
  <2> HIDE DEF lr, or
  <2>5. \A k \in Accepted : k # f.key /\ ledger[k].fact.id # f.id
                            /\ ledger[k].fact.id \in Ids
    BY <2>1, <1>f, <1>n DEF TablesAgree, Accepted, TypeOK, LedgerRow
  <2>6. \A i \in Queued : i # f.id /\ outbox[i].key # f.key /\ outbox[i].key \in Keys
    <3> SUFFICES ASSUME NEW i \in Queued
                 PROVE  i # f.id /\ outbox[i].key # f.key /\ outbox[i].key \in Keys
      OBVIOUS
    <3>1. outbox[i].key \in Keys
      BY <1>n DEF Queued, TypeOK, OutboxRow
    <3>2. ledger[outbox[i].key] # None /\ ledger[outbox[i].key].fact.id = i
      BY DEF TablesAgree
    <3> QED
      BY <2>1, <3>1, <3>2 DEF Accepted
  <2>7. Accepted' = Accepted \cup {f.key} /\ Queued' = Queued \cup {f.id}
    BY <2>1, <2>2, <2>3 DEF Accepted, Queued
  <2>8. TablesAgree'
    <3>1. ASSUME NEW k \in Accepted'
          PROVE  LET r == ledger'[k]
                 IN  /\ r.fact.key = k
                     /\ outbox'[r.fact.id] # None
                     /\ outbox'[r.fact.id].key = k
                     /\ outbox'[r.fact.id].session = r.fact.session
                     /\ outbox'[r.fact.id].epoch = r.epoch
                     /\ outbox'[r.fact.id].state = r.disposition
      <4>1. CASE k = f.key
        BY <4>1, <2>2, <2>3, <2>4
      <4>2. CASE k \in Accepted
        <5>1. k \in Keys
          BY <4>2 DEF Accepted
        <5>2. ledger'[k] = ledger[k] /\ outbox'[ledger[k].fact.id] = outbox[ledger[k].fact.id]
          BY <4>2, <5>1, <2>2, <2>5
        <5> QED
          BY <4>2, <5>2 DEF TablesAgree
      <4> QED
        BY <4>1, <4>2, <2>7
    <3>2. ASSUME NEW i \in Queued'
          PROVE  ledger'[outbox'[i].key] # None /\ ledger'[outbox'[i].key].fact.id = i
      <4>1. CASE i = f.id
        BY <4>1, <2>2, <2>3, <2>4
      <4>2. CASE i \in Queued
        <5>1. outbox'[i] = outbox[i]
          BY <4>2, <2>2, <2>6 DEF Queued
        <5>2. ledger'[outbox[i].key] = ledger[outbox[i].key]
          BY <4>2, <2>2, <2>6
        <5> QED
          BY <4>2, <5>1, <5>2 DEF TablesAgree
      <4> QED
        BY <4>1, <4>2, <2>7
    <3> QED
      BY <3>1, <3>2 DEF TablesAgree
  <2>9. PendingIsCurrent'
    BY <2>1, <2>2, <2>4, <2>6, <2>7 DEF PendingIsCurrent, Queued
  <2>10. DisturbedIsNotWaiting'
    <3>1. f.key \notin disturbed
      BY <2>1 DEF DisturbedIsNotWaiting, Accepted
    <3> QED
      BY <2>1, <2>2, <2>5, <2>7, <3>1 DEF DisturbedIsNotWaiting, Accepted
  <2> QED
    BY <1>t, <2>8, <2>9, <2>10

<1>3. ASSUME NEW f \in Facts, AcceptDuplicate(f)
      PROVE  IInv'
  BY <1>3, <1>t DEF AcceptDuplicate, TablesAgree, PendingIsCurrent,
                    DisturbedIsNotWaiting, Accepted, Queued
<1>4. ASSUME NEW s \in Sessions, NoteActivity(s)
      PROVE  IInv'
  <2> DEFINE I == Overtaken(s, epoch[s] + 1)
             D == [i \in I |-> "invalidated"]
  <2>1. I \in SUBSET Queued /\ D \in [I -> Final] /\ Decided(I, D)
    BY <1>4, ActivityDecides DEF Final
  <2>2. /\ epoch' = [epoch EXCEPT ![s] = epoch[s] + 1]
        /\ disturbed' = disturbed \cup {k \in Accepted : ledger[k].fact.session = s}
    BY <1>4 DEF NoteActivity
  <2>3. \A i \in Queued : /\ outbox[i].epoch \in Nat
                          /\ outbox[i].session \in Sessions
                          /\ outbox[i].epoch = epoch[outbox[i].session]
                             \/ outbox[i].state # "pending_idle"
    BY <1>n DEF Queued, TypeOK, OutboxRow, PendingIsCurrent
  <2>4. \A i \in Queued : outbox[i].session = s /\ outbox[i].state = "pending_idle"
                          => i \in I
    BY <2>3 DEF Overtaken, TypeOK
  <2> HIDE DEF I, D
  <2>5. \A i \in I : D[i] = "invalidated"
    BY DEF D
  <2>6. PendingIsCurrent'
    <3> SUFFICES ASSUME NEW i \in Queued, outbox'[i].state = "pending_idle"
                 PROVE  outbox'[i].epoch = epoch'[outbox'[i].session]
      BY <2>1, DecidedKeeps DEF PendingIsCurrent
    <3>1. i \notin I /\ outbox'[i] = outbox[i]
      BY <2>1, <2>5, DecidedKeeps
    <3>2. outbox[i].session # s
      BY <2>4, <3>1
    <3> QED
      BY <2>2, <2>3, <3>1, <3>2 DEF TypeOK
  <2>7. DisturbedIsNotWaiting'
    <3> SUFFICES ASSUME NEW k \in disturbed'
                 PROVE  k \in Accepted /\ ledger'[k].disposition # "pending_idle"
      BY <2>1, DecidedKeeps DEF DisturbedIsNotWaiting
    <3>1. k \in Accepted
      BY <2>2 DEF DisturbedIsNotWaiting
    <3>2. CASE ledger[k].fact.id \in I
      BY <2>1, <2>5, <3>1, <3>2, DecidedKeeps
    <3>3. CASE ledger[k].fact.id \notin I
      <4>1. ledger'[k] = ledger[k]
        BY <2>1, <3>1, <3>3, DecidedKeeps
      <4>2. CASE k \in disturbed
        BY <4>1, <4>2 DEF DisturbedIsNotWaiting
      <4>3. CASE ledger[k].fact.session = s
        <5>1. /\ ledger[k].fact.id \in Queued
              /\ outbox[ledger[k].fact.id].session = s
              /\ outbox[ledger[k].fact.id].state = ledger[k].disposition
          BY <1>f, <3>1, <4>3 DEF TablesAgree, Accepted, Queued, TypeOK, LedgerRow
        <5> QED
          BY <2>4, <3>1, <3>3, <4>1, <5>1
      <4> QED
        BY <2>2, <4>2, <4>3
    <3> QED
      BY <3>1, <3>2, <3>3
  <2> QED
    BY <1>t, <2>1, <2>6, <2>7, DecidedKeeps
<1>5. ASSUME NEW now \in Times, EvaluateDue(now)
      PROVE  IInv'
  <2> DEFINE I == Batch(now)
             D == [i \in I |-> Decision(i)]
  <2>1. I \in SUBSET Queued /\ D \in [I -> Final] /\ Decided(I, D)
    BY <1>5, EvaluationDecides
  <2>2. epoch' = epoch /\ disturbed' = disturbed
    BY <1>5 DEF EvaluateDue
  <2> HIDE DEF I, D
  <2>3. \A i \in I : D[i] # "pending_idle"
    BY <2>1 DEF Final
  <2>4. PendingIsCurrent'
    <3> SUFFICES ASSUME NEW i \in Queued, outbox'[i].state = "pending_idle"
                 PROVE  outbox'[i].epoch = epoch'[outbox'[i].session]
      BY <2>1, DecidedKeeps DEF PendingIsCurrent
    <3>1. i \notin I
      BY <2>1, <2>3, DecidedKeeps
    <3>2. outbox'[i] = outbox[i]
      BY <2>1, <3>1, DecidedKeeps
    <3> QED
      BY <2>2, <3>2 DEF PendingIsCurrent
  <2>5. DisturbedIsNotWaiting'
    BY <2>1, <2>2, <2>3, DecidedKeeps DEF DisturbedIsNotWaiting
  <2> QED
    BY <1>t, <2>1, <2>4, <2>5, DecidedKeeps
<1> QED
  BY <1>1, <1>2, <1>3, <1>4, <1>5 DEF Next

\* The ledger and the outbox always tell the same story of every fact, no
\* pending fact is of an old epoch, and none waits through an activity
\* (TypeOK, TablesAgree, PendingIsCurrent and DisturbedIsNotWaiting).
THEOREM LedgerInvariant ==
    Spec => []TypeOK /\ []TablesAgree /\ []PendingIsCurrent /\ []DisturbedIsNotWaiting
<1>1. IInv => TypeOK /\ TablesAgree /\ PendingIsCurrent /\ DisturbedIsNotWaiting
  BY DEF IInv
<1> QED
  BY InitIInv, InvStep, <1>1, PTL DEF Spec

\* A row leaves pending_idle only through a decision: the rows a call takes
\* are pending in the ledger too.
LEMMA StepsDecideWell == IInv /\ [Next]_vars => DecideOnly /\ KeepDecided
<1> SUFFICES ASSUME IInv, [Next]_vars
             PROVE  DecideOnly /\ KeepDecided
  OBVIOUS
<1> USE DEF IInv
<1>k. \A k \in Accepted : /\ k \in Keys
                          /\ ledger[k] # None
                          /\ ledger[k].fact.id \in Queued
                          /\ outbox[ledger[k].fact.id].session = ledger[k].fact.session
                          /\ outbox[ledger[k].fact.id].epoch = ledger[k].epoch
                          /\ outbox[ledger[k].fact.id].state = ledger[k].disposition
  BY WorkAssumption DEF WorkAssumption, TablesAgree, Accepted, Queued, TypeOK, LedgerRow
<1>s. ASSUME \A k \in Accepted : ledger'[k] = ledger[k]
      PROVE  DecideOnly /\ KeepDecided
  BY <1>s, <1>k DEF DecideOnly, KeepDecided
<1>1. CASE UNCHANGED vars
  BY <1>1, <1>s DEF vars
<1>2. ASSUME NEW f \in Facts, NEW d \in Delays, AcceptNew(f, d)
      PROVE  DecideOnly /\ KeepDecided
  BY <1>2, <1>s, <1>k DEF AcceptNew, Insert, TypeOK
<1>3. ASSUME NEW f \in Facts, AcceptDuplicate(f)
      PROVE  DecideOnly /\ KeepDecided
  BY <1>3, <1>s DEF AcceptDuplicate
<1>4. ASSUME NEW s \in Sessions, NoteActivity(s)
      PROVE  DecideOnly /\ KeepDecided
  <2> DEFINE I == Overtaken(s, epoch[s] + 1)
             D == [i \in I |-> "invalidated"]
  <2>1. I \in SUBSET Queued /\ D \in [I -> Final] /\ Decided(I, D)
    BY <1>4, ActivityDecides DEF Final
  <2>2. disturbed' = disturbed \cup {k \in Accepted : ledger[k].fact.session = s}
    BY <1>4 DEF NoteActivity
  <2>3. \A i \in I : /\ D[i] = "invalidated"
                     /\ outbox[i].session = s
                     /\ outbox[i].state = "pending_idle"
    BY DEF Overtaken
  <2> HIDE DEF I, D
  <2>4. ASSUME NEW k \in Accepted, ledger[k].fact.id \in I
        PROVE  /\ ledger'[k].disposition = "invalidated"
               /\ k \in disturbed'
               /\ ledger[k].disposition = "pending_idle"
    <3>1. ledger'[k].disposition = D[ledger[k].fact.id]
      BY <2>1, <2>4, DecidedKeeps
    <3> QED
      BY <3>1, <2>2, <2>3, <2>4, <1>k
  <2>5. DecideOnly
    BY <2>1, <2>4, DecidedKeeps DEF DecideOnly
  <2>6. KeepDecided
    <3>1. "pending_idle" \notin Final
      BY DEF Final
    <3>2. \A k \in Accepted : k \in Accepted'
      BY <2>1, DecidedKeeps
    <3> QED
      BY <2>1, <2>4, <3>1, <3>2, DecidedKeeps DEF KeepDecided, Accepted
  <2> QED
    BY <2>5, <2>6
<1>5. ASSUME NEW now \in Times, EvaluateDue(now)
      PROVE  DecideOnly /\ KeepDecided
  <2> DEFINE I == Batch(now)
             D == [i \in I |-> Decision(i)]
  <2>1. I \in SUBSET Queued /\ D \in [I -> Final] /\ Decided(I, D)
    BY <1>5, EvaluationDecides
  <2>2. disturbed' = disturbed
    BY <1>5 DEF EvaluateDue
  <2>3. \A i \in I : D[i] = Decision(i) /\ outbox[i].state = "pending_idle"
    BY DEF Batch, Due
  <2> HIDE DEF I, D
  <2>4. ASSUME NEW k \in Accepted, ledger[k].fact.id \in I
        PROVE  /\ ledger'[k].disposition = Decision(ledger[k].fact.id)
               /\ ledger[k].disposition = "pending_idle"
    <3>1. ledger'[k].disposition = D[ledger[k].fact.id]
      BY <2>1, <2>4, DecidedKeeps
    <3> QED
      BY <3>1, <2>3, <2>4, <1>k
  <2>5. DecideOnly
    <3> SUFFICES ASSUME NEW k \in Accepted, ledger'[k].disposition # ledger[k].disposition
                 PROVE  CASE ledger'[k].disposition = "shadow_candidate" ->
                               k \notin disturbed' /\ ledger[k].fact.session \in observer
                          [] ledger'[k].disposition = "suppressed" ->
                               ledger[k].fact.session \notin observer
                          [] OTHER -> k \in disturbed'
      BY DEF DecideOnly
    <3>1. ledger[k].fact.id \in I
      BY <2>1, DecidedKeeps
    <3>2. /\ ledger'[k].disposition = Decision(ledger[k].fact.id)
          /\ ledger[k].disposition = "pending_idle"
      BY <2>4, <3>1
    <3>3. k \notin disturbed'
      BY <2>2, <3>2 DEF DisturbedIsNotWaiting
    <3>4. epoch[ledger[k].fact.session] = outbox[ledger[k].fact.id].epoch
      BY <1>k, <3>2 DEF PendingIsCurrent
    <3> QED
      BY <1>k, <3>2, <3>3, <3>4 DEF Decision
  <2>6. KeepDecided
    <3>1. "pending_idle" \notin Final
      BY DEF Final
    <3>2. \A k \in Accepted : k \in Accepted'
      BY <2>1, DecidedKeeps
    <3> QED
      BY <2>1, <2>4, <3>1, <3>2, DecidedKeeps DEF KeepDecided, Accepted
  <2> QED
    BY <2>5, <2>6
<1> QED
  BY <1>1, <1>2, <1>3, <1>4, <1>5 DEF Next

\* Work is proposed only after a watched idle stretch (CandidateWasIdle), for
\* every interleaving of producers, observers and evaluators.
THEOREM IdleBeforeCandidate == Spec => CandidateWasIdle
<1>1. IInv /\ [Next]_vars => [DecideOnly]_vars
  BY StepsDecideWell
<1> QED
  BY InitIInv, InvStep, <1>1, PTL DEF Spec, CandidateWasIdle

\* No replay, conflict, activity or evaluation takes a decision back or
\* rewrites an accepted fact (DecisionsAreFinal).
THEOREM DecisionsStay == Spec => DecisionsAreFinal
<1>1. IInv /\ [Next]_vars => [KeepDecided]_vars
  BY StepsDecideWell
<1> QED
  BY InitIInv, InvStep, <1>1, PTL DEF Spec, DecisionsAreFinal
-----------------------------------------------------------------------------
(* The producer: comprehensions and bounds on lists *)

\* A set of naturals with a member has a least one.
LEMMA Least ==
    ASSUME NEW B, B \subseteq Nat, B # {}
    PROVE  \E n \in B : \A m \in Nat : m < n => m \notin B
<1>1. PICK n \in B : \A m \in B : <<m, n>> \notin OpToRel(<, Nat)
  BY NatLessThanWellFounded, WFMin
<1>. QED
  BY <1>1 DEF OpToRel

\* F is the function of Only, cut off after n elements.
Partial(s, T, F, n) ==
  F = [i \in 0..n |-> IF i = 0 THEN <<>>
                      ELSE IF s[i] \in T THEN Append(F[i - 1], s[i]) ELSE F[i - 1]]

\* The recursion of Only defines a function: were there a length without one, the
\* least such length would extend the one before it.
LEMMA PartialExists ==
    ASSUME NEW S, NEW s \in Seq(S), NEW T
    PROVE  \E F : Partial(s, T, F, Len(s))
<1>0. PICK len \in Nat : len = Len(s)
  OBVIOUS
<1> DEFINE B == {n \in 0..len : ~ \E F : Partial(s, T, F, n)}
<1> SUFFICES ASSUME B # {} PROVE FALSE
  BY <1>0
<1>b. B \subseteq Nat
  OBVIOUS
<1> HIDE DEF B
<1>1. PICK n \in B : \A m \in Nat : m < n => m \notin B
  BY Least, <1>b
<1> USE DEF B
<1>2. CASE n = 0
  <2>1. Partial(s, T, [i \in 0..0 |-> <<>>], 0)
    BY DEF Partial
  <2>. QED BY <2>1, <1>2
<1>3. CASE n # 0
  <2>1. n \in Nat /\ n - 1 \in Nat /\ n <= len /\ n > 0
    BY <1>3
  <2>2. PICK F : Partial(s, T, F, n - 1)
    BY <1>1, <2>1
  <2> DEFINE G == [i \in 0..n |-> IF i = 0 THEN <<>>
                      ELSE IF s[i] \in T THEN Append(F[i - 1], s[i]) ELSE F[i - 1]]
  <2>3. \A i \in 0..(n-1) : G[i] = F[i]
    <3>1. \A i \in 0..(n-1) : i \in 0..n
      BY <2>1
    <3>2. \A i \in 0..(n-1) : F[i] = IF i = 0 THEN <<>>
                      ELSE IF s[i] \in T THEN Append(F[i - 1], s[i]) ELSE F[i - 1]
      BY <2>2, Zenon DEF Partial
    <3>. QED BY <3>1, <3>2
  <2>4. \A i \in 0..n : i # 0 => i - 1 \in 0..(n-1)
    BY <2>1
  <2>5. Partial(s, T, G, n)
    BY <2>3, <2>4 DEF Partial
  <2>. QED BY <2>5
<1>. QED BY <1>2, <1>3

\* t consists of the members of T among the first n elements of s, in their order.
Picks(s, T, t, n) ==
   \E m \in Nat : \E h \in [1..m -> 1..n] :
      /\ DOMAIN t = 1..m
      /\ \A k \in 1..m : t[k] = s[h[k]] /\ s[h[k]] \in T
      /\ \A k, l \in 1..m : k < l => h[k] < h[l]
      /\ \A i \in 1..n : s[i] \in T => \E k \in 1..m : h[k] = i

\* One more element is appended if it is a member, and skipped if it is not.
LEMMA PicksStep ==
    ASSUME NEW S, NEW s \in Seq(S), NEW T, NEW t \in Seq(S), NEW n \in 1..Len(s),
           Picks(s, T, t, n - 1), s[n] \in S
    PROVE  /\ s[n] \notin T => Picks(s, T, t, n)
           /\ s[n] \in T => Picks(s, T, Append(t, s[n]), n)
<1>n. n \in Nat /\ n >= 1 /\ n - 1 \in Nat
  OBVIOUS
<1>1. PICK len \in Nat : \E h \in [1..len -> 1..(n-1)] :
      /\ DOMAIN t = 1..len
      /\ \A k \in 1..len : t[k] = s[h[k]] /\ s[h[k]] \in T
      /\ \A k, l \in 1..len : k < l => h[k] < h[l]
      /\ \A i \in 1..(n-1) : s[i] \in T => \E k \in 1..len : h[k] = i
  BY Zenon DEF Picks
<1>h. PICK h \in [1..len -> 1..(n-1)] :
      /\ DOMAIN t = 1..len
      /\ \A k \in 1..len : t[k] = s[h[k]] /\ s[h[k]] \in T
      /\ \A k, l \in 1..len : k < l => h[k] < h[l]
      /\ \A i \in 1..(n-1) : s[i] \in T => \E k \in 1..len : h[k] = i
  BY <1>1
<1>0. len = Len(t) /\ DOMAIN Append(t, s[n]) = 1..(len + 1)
  BY <1>h
<1>2. ASSUME s[n] \notin T PROVE Picks(s, T, t, n)
  <2>1. h \in [1..len -> 1..n]
    BY <1>n
  <2>2. \A i \in 1..n : s[i] \in T => i \in 1..(n-1)
    BY <1>2, <1>n
  <2>4. \A i \in 1..n : s[i] \in T => \E k \in 1..len : h[k] = i
    BY <1>h, <2>2
  <2>. QED BY <1>h, <2>1, <2>4, Zenon DEF Picks
<1>3. ASSUME s[n] \in T PROVE Picks(s, T, Append(t, s[n]), n)
  <2> DEFINE g == [k \in 1..(len + 1) |-> IF k = len + 1 THEN n ELSE h[k]]
             u == Append(t, s[n])
  <2>1. \A k \in 1..(len + 1) : k = len + 1 \/ k \in 1..len
    OBVIOUS
  <2>2. \A k \in 1..len : h[k] \in 1..(n-1) /\ g[k] = h[k] /\ k # len + 1
    OBVIOUS
  <2>3. g[len + 1] = n /\ len + 1 \in 1..(len + 1) /\ n \in 1..n
    BY <1>n
  <2>4. \A k \in 1..len : u[k] = t[k]
    BY <1>0, AppendProperties
  <2>5. u[len + 1] = s[n]
    BY <1>0, AppendProperties
  <2>6. g \in [1..(len+1) -> 1..n]
    BY <2>1, <2>2, <2>3, <1>n
  <2>7. \A k \in 1..(len+1) : u[k] = s[g[k]] /\ s[g[k]] \in T
    BY <2>1, <2>2, <2>3, <2>4, <2>5, <1>h, <1>3
  <2>8. \A k, l \in 1..(len+1) : k < l => g[k] < g[l]
    <3> SUFFICES ASSUME NEW k \in 1..(len+1), NEW l \in 1..(len+1), k < l PROVE g[k] < g[l]
      OBVIOUS
    <3>1. k \in 1..len
      BY <2>1
    <3>2. CASE l = len + 1
      BY <2>2, <2>3, <3>1, <3>2, <1>n
    <3>3. CASE l \in 1..len
      BY <2>2, <3>1, <3>3, <1>h
    <3>. QED BY <3>2, <3>3, <2>1
  <2>9. \A i \in 1..n : s[i] \in T => \E k \in 1..(len+1) : g[k] = i
    <3> SUFFICES ASSUME NEW i \in 1..n, s[i] \in T PROVE \E k \in 1..(len+1) : g[k] = i
      OBVIOUS
    <3>1. CASE i = n
      BY <2>3, <3>1
    <3>2. CASE i # n
      <4>1. i \in 1..(n-1)
        BY <3>2, <1>n
      <4>2. PICK k \in 1..len : h[k] = i
        BY <4>1, <1>h
      <4>3. k \in 1..(len + 1)
        OBVIOUS
      <4>. QED BY <4>2, <4>3, <2>2
    <3>. QED BY <3>1, <3>2
  <2> HIDE DEF g, u
  <2>. QED
    <3>1. DOMAIN u = 1..(len + 1) BY <1>0 DEF u
    <3>0. len + 1 \in Nat
      OBVIOUS
    <3>2. Picks(s, T, u, n)
      BY <3>0, <2>6, <2>7, <2>8, <2>9, <3>1, Zenon DEF Picks
    <3>. QED BY <3>2 DEF u
<1>. QED BY <1>2, <1>3

\* Only picks the members from the whole sequence, again by the least length for
\* which it would not.
LEMMA OnlyFacts ==
    ASSUME NEW S, NEW s \in Seq(S), NEW T
    PROVE  Only(s, T) \in Seq(S) /\ Picks(s, T, Only(s, T), Len(s))
<1>0. PICK len \in Nat : len = Len(s)
  OBVIOUS
<1> DEFINE F == CHOOSE F : Partial(s, T, F, len)
<1>1. Partial(s, T, F, len)
  BY PartialExists, <1>0
<1>2. Only(s, T) = F[len]
  BY <1>0 DEF Only, Partial
<1> HIDE DEF F
<1>e. /\ F[0] = <<>>
      /\ \A n \in 1..len : F[n] = IF s[n] \in T THEN Append(F[n-1], s[n]) ELSE F[n-1]
  <2>1. \A n \in 0..len : F[n] = IF n = 0 THEN <<>>
                      ELSE IF s[n] \in T THEN Append(F[n - 1], s[n]) ELSE F[n - 1]
    BY <1>1, Zenon DEF Partial
  <2>2. 0 \in 0..len /\ \A n \in 1..len : n \in 0..len /\ n # 0
    BY <1>0
  <2>. QED BY <2>1, <2>2
<1> DEFINE P(n) == F[n] \in Seq(S) /\ Picks(s, T, F[n], n)
           B == {n \in 0..len : ~ P(n)}
<1>3. B = {}
  <2> SUFFICES ASSUME B # {} PROVE FALSE
    OBVIOUS
  <2>b. B \subseteq Nat
    OBVIOUS
  <2> HIDE DEF B
  <2>1. PICK n \in B : \A m \in Nat : m < n => m \notin B
    BY Least, <2>b
  <2> USE DEF B
  <2>2. CASE n = 0
    <3>1. F[0] = <<>> /\ <<>> \in Seq(S) /\ DOMAIN <<>> = {}
      BY <1>e
    <3>2. Picks(s, T, <<>>, 0)
      <4>1. [k \in 1..0 |-> 0] \in [1..0 -> 1..0] /\ 0 \in Nat
        OBVIOUS
      <4>2. \A k \in 1..0 : FALSE
        OBVIOUS
      <4>3. DOMAIN <<>> = 1..0
        OBVIOUS
      <4>. QED BY <4>1, <4>2, <4>3, Zenon DEF Picks
    <3>. QED BY <2>2, <3>1, <3>2
  <2>3. CASE n # 0
    <3>1. n \in 1..len /\ n - 1 \in 0..len /\ n - 1 < n
      BY <2>3
    <3>2. P(n - 1)
      BY <3>1, <2>1
    <3>3. s[n] \in S
      BY <3>1, <1>0
    <3>4. n \in 1..Len(s)
      BY <3>1, <1>0
    <3>5. /\ s[n] \notin T => Picks(s, T, F[n-1], n)
          /\ s[n] \in T => Picks(s, T, Append(F[n-1], s[n]), n)
      BY <3>2, <3>3, <3>4, PicksStep
    <3>6. F[n] = IF s[n] \in T THEN Append(F[n-1], s[n]) ELSE F[n-1]
      BY <3>1, <1>e
    <3>7. F[n] \in Seq(S)
      BY <3>2, <3>3, <3>6
    <3>. QED BY <3>5, <3>6, <3>7
  <2>. QED BY <2>2, <2>3
<1>4. P(len)
  BY <1>3
<1>. QED BY <1>4, <1>2, <1>0

\* t is what is left of s when elements are taken out.
SubOf(t, s) ==
   \E h \in [DOMAIN t -> DOMAIN s] :
      /\ \A k \in DOMAIN t : t[k] = s[h[k]]
      /\ \A k, m \in DOMAIN t : k < m => h[k] < h[m]

\* What a comprehension keeps, in terms of places and of members.
LEMMA OnlyIsSub ==
    ASSUME NEW S, NEW s \in Seq(S), NEW T
    PROVE  /\ Only(s, T) \in Seq(S) /\ Len(Only(s, T)) <= Len(s)
           /\ SubOf(Only(s, T), s)
           /\ Range(Only(s, T)) = Range(s) \cap T
<1>1. PICK t \in Seq(S) : t = Only(s, T)
  BY OnlyFacts
<1>2. PICK n \in Nat : n = Len(s) /\ DOMAIN s = 1..n
  OBVIOUS
<1>3. PICK m \in Nat : \E h \in [1..m -> 1..n] :
      /\ DOMAIN t = 1..m
      /\ \A k \in 1..m : t[k] = s[h[k]] /\ s[h[k]] \in T
      /\ \A k, l \in 1..m : k < l => h[k] < h[l]
      /\ \A i \in 1..n : s[i] \in T => \E k \in 1..m : h[k] = i
  <2>1. Picks(s, T, t, n)
    BY <1>1, <1>2, OnlyFacts
  <2>. QED BY <2>1, Zenon DEF Picks
<1>4. PICK h \in [1..m -> 1..n] :
      /\ DOMAIN t = 1..m
      /\ \A k \in 1..m : t[k] = s[h[k]] /\ s[h[k]] \in T
      /\ \A k, l \in 1..m : k < l => h[k] < h[l]
      /\ \A i \in 1..n : s[i] \in T => \E k \in 1..m : h[k] = i
  BY <1>3
<1>5. SubOf(t, s)
  <2>1. h \in [DOMAIN t -> DOMAIN s]
    BY <1>2, <1>4
  <2>. QED BY <2>1, <1>4, Zenon DEF SubOf
<1>6. Range(t) = Range(s) \cap T
  <2>1. ASSUME NEW k \in 1..m PROVE t[k] \in Range(s) \cap T
    BY <1>2, <1>4 DEF Range
  <2>2. ASSUME NEW i \in 1..n, s[i] \in T PROVE s[i] \in Range(t)
    <3>1. PICK k \in 1..m : h[k] = i
      BY <2>2, <1>4
    <3>. QED BY <3>1, <1>4 DEF Range
  <2>3. Range(t) \subseteq Range(s) \cap T
    BY <2>1, <1>4 DEF Range
  <2>4. Range(s) \cap T \subseteq Range(t)
    BY <2>2, <1>2 DEF Range
  <2>. QED BY <2>3, <2>4
<1>7. Len(t) <= Len(s)
  <2>1. h \in Injection(1..m, 1..n)
    <3>1. \A k, l \in 1..m : h[k] = h[l] => k = l
      <4> SUFFICES ASSUME NEW k \in 1..m, NEW l \in 1..m, h[k] = h[l], k # l PROVE FALSE
        OBVIOUS
      <4>1. h[k] \in 1..n /\ h[l] \in 1..n
        OBVIOUS
      <4>2. k < l \/ l < k
        OBVIOUS
      <4>. QED BY <4>1, <4>2, <1>4
    <3>. QED BY <3>1 DEF Injection, IsInjective
  <2>2. /\ IsFiniteSet(1..n) /\ Cardinality(1..n) = n
        /\ Cardinality(1..m) = m
    BY FS_Interval
  <2>3. m <= n
    BY <2>1, <2>2, FS_Injection
  <2>4. Len(t) = m
    BY <1>1, <1>4
  <2>. QED BY <2>3, <2>4, <1>2
<1>. QED BY <1>1, <1>5, <1>6, <1>7

\* t is s without its first elements, and with n elements if any were dropped.
Dropped(t, s, n) ==
    \E d \in Nat : /\ Len(t) = Len(s) - d
                   /\ d > 0 => Len(t) = n
                   /\ \A k \in 1..Len(t) : t[k] = s[k + d]

\* LastOf drops what does not fit, from the front.
LEMMA LastOfFacts ==
    ASSUME NEW S, NEW s \in Seq(S), NEW n \in Nat \ {0}
    PROVE  /\ LastOf(s, n) \in Seq(S) /\ Len(LastOf(s, n)) <= n
           /\ Dropped(LastOf(s, n), s, n)
<1>1. PICK len \in Nat : len = Len(s)
  OBVIOUS
<1>2. CASE len > n
  <2>1. LastOf(s, n) = SubSeq(s, len - n + 1, len)
    BY <1>1, <1>2 DEF LastOf
  <2>2. \A i \in (len - n + 1)..len : s[i] \in S
    BY <1>1, <1>2
  <2>3. /\ SubSeq(s, len - n + 1, len) \in Seq(S)
        /\ Len(SubSeq(s, len - n + 1, len)) = n
        /\ \A k \in 1..n : SubSeq(s, len - n + 1, len)[k] = s[k + (len - n)]
    <3>1. len - n + 1 \in Int /\ len \in Int /\ len - n + 1 <= len /\ len - (len - n + 1) + 1 = n
      BY <1>2
    <3>2. \A k \in 1..n : len - n + 1 + k - 1 = k + (len - n)
      OBVIOUS
    <3>. QED BY <2>2, <3>1, <3>2, SubSeqProperties
  <2>4. len - n \in Nat /\ len - n > 0 /\ n = len - (len - n)
    BY <1>2
  <2> DEFINE d == len - n
  <2>5. /\ LastOf(s, n) \in Seq(S) /\ Len(LastOf(s, n)) = n
        /\ \A k \in 1..n : LastOf(s, n)[k] = s[k + d]
    BY <2>1, <2>3
  <2>6. Len(LastOf(s, n)) = Len(s) - d /\ Len(LastOf(s, n)) <= n /\ d \in Nat
    BY <2>4, <2>5, <1>1
  <2>7. \A k \in 1..Len(LastOf(s, n)) : LastOf(s, n)[k] = s[k + d]
    BY <2>5
  <2>8. d > 0 => Len(LastOf(s, n)) = n
    BY <2>5
  <2> HIDE DEF d
  <2>9. Dropped(LastOf(s, n), s, n)
    BY <2>6, <2>7, <2>8, Zenon DEF Dropped
  <2>. QED BY <2>5, <2>6, <2>9
<1>3. CASE ~ (len > n)
  <2>1. LastOf(s, n) = SubSeq(s, 1, len)
    BY <1>1, <1>3 DEF LastOf
  <2>2. LastOf(s, n) = s
    BY <2>1, <1>1, SubSeqFull
  <2>3. \A k \in 1..Len(s) : s[k] = s[k + 0]
    OBVIOUS
  <2>4. Len(s) = Len(s) - 0 /\ ~(0 > 0) /\ 0 \in Nat
    OBVIOUS
  <2>5. Dropped(s, s, n)
    BY <2>3, <2>4, Zenon DEF Dropped
  <2>. QED BY <2>2, <2>5, <1>1, <1>3
<1>. QED BY <1>2, <1>3
-----------------------------------------------------------------------------
(* The producer: the inductive invariant *)

\* Clocks are read before the lock is taken, so they are never ahead.
Timely ==
    /\ \A w \in Workers : seen[w].at <= clock /\ asked[w].now <= clock
    /\ \A i \in DOMAIN log : log[i].at <= clock

\* Every tool call is recorded once at most.
OncePerCall ==
    /\ \A i \in DOMAIN log : log[i].ref <= tools
    /\ \A i, j \in DOMAIN log : log[i].ref = log[j].ref => i = j
    /\ \A w \in Workers : pc[w] = "record" =>
         /\ seen[w].ref <= tools
         /\ \A i \in DOMAIN log : log[i].ref # seen[w].ref
         /\ \A v \in Workers : pc[v] = "record" /\ seen[v].ref = seen[w].ref => v = w

\* The evidence t of a context was recorded in the log l, in this order.
Recorded(c, t, l) ==
    /\ \A k \in DOMAIN t : t[k].context = c /\ \E i \in DOMAIN l : t[k] = l[i]
    /\ \A k, m \in DOMAIN t : \A i, j \in DOMAIN l :
         k < m /\ l[i] = t[k] /\ l[j] = t[m] => i < j

\* Whoever comes later in q was observed after all that was observed of whoever
\* comes before.
ByUse(q, l) ==
    /\ IsInjective(q)
    /\ \A k, m \in DOMAIN q : \A i \in DOMAIN l :
         k < m /\ l[i].context = q[k] => \E j \in DOMAIN l : i < j /\ l[j].context = q[m]

ProducerInv == /\ ProducerTypeOK /\ Timely /\ OncePerCall
               /\ EvidenceRetained
               /\ \A c \in Contexts : Recorded(c, bucket[c], log)
               /\ ByUse(order, log)

\* Taking elements out disturbs neither the order of a bucket nor that of the registry.
LEMMA SubOfKeeps ==
    ASSUME NEW t, NEW s, SubOf(t, s), DOMAIN s \subseteq Int, NEW l
    PROVE  /\ \A c : Recorded(c, s, l) => Recorded(c, t, l)
           /\ DOMAIN t \subseteq Int => (ByUse(s, l) => ByUse(t, l))
<1>1. PICK h \in [DOMAIN t -> DOMAIN s] :
      /\ \A k \in DOMAIN t : t[k] = s[h[k]]
      /\ \A k, m \in DOMAIN t : k < m => h[k] < h[m]
  BY Zenon DEF SubOf
<1>2. ASSUME NEW c, Recorded(c, s, l) PROVE Recorded(c, t, l)
  BY <1>1, <1>2 DEF Recorded
<1>3. ASSUME ByUse(s, l), DOMAIN t \subseteq Int PROVE ByUse(t, l)
  <2>1. IsInjective(t)
    <3> SUFFICES ASSUME NEW k \in DOMAIN t, NEW m \in DOMAIN t, t[k] = t[m], k # m PROVE FALSE
      BY DEF IsInjective
    <3>1. h[k] = h[m] /\ h[k] \in Int
      BY <1>1, <1>3 DEF ByUse, IsInjective
    <3>2. k < m \/ m < k
      BY <1>3
    <3>. QED BY <3>1, <3>2, <1>1
  <2>2. ASSUME NEW k \in DOMAIN t, NEW m \in DOMAIN t, NEW i \in DOMAIN l,
               k < m, l[i].context = t[k]
        PROVE  \E j \in DOMAIN l : i < j /\ l[j].context = t[m]
    <3>1. h[k] \in DOMAIN s /\ h[m] \in DOMAIN s /\ h[k] < h[m] /\ t[k] = s[h[k]] /\ t[m] = s[h[m]]
      BY <1>1, <2>2
    <3>. QED BY <3>1, <2>2, <1>3 DEF ByUse
  <2>. QED BY <2>1, <2>2 DEF ByUse
<1>. QED BY <1>2, <1>3

\* Dropping the first elements is taking elements out.
LEMMA LastOfIsSub ==
    ASSUME NEW S, NEW s \in Seq(S), NEW n \in Nat \ {0}
    PROVE  SubOf(LastOf(s, n), s)
<1>0. PICK t \in Seq(S) : t = LastOf(s, n)
  BY LastOfFacts
<1>1. PICK d \in Nat : /\ Len(t) = Len(s) - d
                       /\ d > 0 => Len(t) = n
                       /\ \A k \in 1..Len(t) : t[k] = s[k + d]
  <2>1. Dropped(t, s, n)
    BY <1>0, LastOfFacts
  <2>. QED BY <2>1, Zenon DEF Dropped
<1>2. PICK a \in Nat : a = Len(t) /\ DOMAIN t = 1..a /\ DOMAIN s = 1..(a + d)
  BY <1>1
<1> DEFINE h == [k \in 1..a |-> k + d]
<1>3. /\ h \in [1..a -> 1..(a + d)]
      /\ \A k \in 1..a : t[k] = s[h[k]]
      /\ \A k, m \in 1..a : k < m => h[k] < h[m]
  BY <1>1, <1>2
<1> HIDE DEF h
<1>4. h \in [DOMAIN t -> DOMAIN s]
  BY <1>2, <1>3
<1>. QED BY <1>0, <1>2, <1>3, <1>4, Zenon DEF SubOf

\* _prune takes out only what has expired, and only contexts left empty.
LEMMA PruneFacts ==
    ASSUME ProducerInv, NEW now \in Int, now <= clock, NEW B, B = Pruned(now)
    PROVE  /\ B \in [Contexts -> Seq(ToolEvidence)]
           /\ \A c \in Contexts : /\ Len(B[c]) <= MaxPerContext /\ Recorded(c, B[c], log)
                                  /\ \A e \in Range(bucket[c]) :
                                       ~(clock - e.at > Ttl) => e \in Range(B[c])
           /\ Live(B) \in Seq(Contexts) /\ Len(Live(B)) <= MaxContexts
           /\ ByUse(Live(B), log)
           /\ \A c \in Contexts : c \in Range(Live(B)) <=> B[c] # <<>>
<1> USE DEF ProducerInv
<1>1. ASSUME NEW c \in Contexts
      PROVE  /\ B[c] \in Seq(ToolEvidence)
             /\ Len(B[c]) <= MaxPerContext /\ Recorded(c, B[c], log)
             /\ \A e \in Range(bucket[c]) : ~(clock - e.at > Ttl) => e \in Range(B[c])
             /\ B[c] # <<>> => bucket[c] # <<>>
  <2>1. B[c] = Only(bucket[c], Fresh(now))
    BY DEF Pruned
  <2>2. PICK q \in Seq(ToolEvidence) : q = bucket[c] /\ Len(q) <= MaxPerContext
    BY DEF ProducerTypeOK
  <2>3. PICK t \in Seq(ToolEvidence) : /\ t = B[c] /\ Len(t) <= Len(q) /\ SubOf(t, q)
                                       /\ Range(t) = Range(q) \cap Fresh(now)
    BY <2>1, <2>2, OnlyIsSub
  <2>4. Recorded(c, t, log)
    BY <2>2, <2>3, SubOfKeeps
  <2>5. \A e \in Range(q) : ~(clock - e.at > Ttl) => e \in Range(t)
    <3> SUFFICES ASSUME NEW e \in Range(q), ~(clock - e.at > Ttl) PROVE e \in Fresh(now)
      BY <2>3
    <3>1. e \in ToolEvidence
      BY DEF Range
    <3>2. e.at \in Int /\ clock \in Int /\ Ttl \in Int
      BY <3>1, ProducerAssumption DEF ProducerTypeOK, ToolEvidence, ProducerAssumption
    <3>. QED BY <3>1, <3>2 DEF Fresh
  <2>6. t # <<>> => q # <<>>
    BY <2>3
  <2>7. Len(t) <= MaxPerContext
    BY <2>2, <2>3, ProducerAssumption DEF ProducerAssumption
  <2>. QED BY <2>2, <2>3, <2>4, <2>5, <2>6, <2>7
<1>2. B \in [Contexts -> Seq(ToolEvidence)]
  BY <1>1 DEF Pruned
<1>3. PICK q \in Seq(Contexts) : q = order /\ Len(q) <= MaxContexts
  BY DEF ProducerTypeOK
<1> DEFINE U == {c \in Contexts : B[c] # <<>>}
<1>4. Live(B) = Only(q, U)
  BY <1>3 DEF Live
<1> HIDE DEF U
<1>5. PICK t \in Seq(Contexts) : /\ t = Live(B) /\ Len(t) <= Len(q) /\ SubOf(t, q)
                                 /\ Range(t) = Range(q) \cap U
  BY <1>4, OnlyIsSub
<1>6. ByUse(t, log)
  <2>1. DOMAIN t \subseteq Int /\ DOMAIN q \subseteq Int
    OBVIOUS
  <2>. QED BY <2>1, <1>3, <1>5, SubOfKeeps
<1>7. \A c \in Contexts : c \in Range(t) <=> B[c] # <<>>
  <2>1. \A c \in Contexts : B[c] # <<>> => c \in Range(q)
    BY <1>1, <1>3 DEF ProducerTypeOK
  <2>. QED BY <2>1, <1>5 DEF U
<1>8. Len(t) <= MaxContexts
  BY <1>3, <1>5, ProducerAssumption DEF ProducerAssumption
<1>. QED BY <1>1, <1>2, <1>5, <1>6, <1>7, <1>8

\* What the log l holds after its place i.
Newer(l, i) == {l[j] : j \in i + 1 .. Len(l)}

\* The sets that EvidenceRetained counts are finite.
LEMMA NewerFinite ==
    ASSUME NEW l \in Seq(ToolEvidence), NEW i \in Nat, NEW c
    PROVE  /\ IsFiniteSet(Newer(l, i))
           /\ IsFiniteSet({f \in Newer(l, i) : f.context = c})
           /\ IsFiniteSet({f.context : f \in Newer(l, i)} \ {c})
<1>1. PICK len \in Nat : len = Len(l) /\ DOMAIN l = 1..len
  OBVIOUS
<1>2. IsFiniteSet(Newer(l, i))
  <2> DEFINE g == [j \in i + 1 .. len |-> l[j]]
  <2>1. g \in Surjection(i + 1 .. len, Newer(l, i))
    BY <1>1 DEF Newer, Surjection
  <2>2. IsFiniteSet(i + 1 .. len)
    BY FS_Interval
  <2> HIDE DEF g
  <2>. QED BY <2>1, <2>2, FS_Surjection
<1>3. IsFiniteSet({f \in Newer(l, i) : f.context = c})
  BY <1>2, FS_Subset
<1>4. IsFiniteSet({f.context : f \in Newer(l, i)})
  <2> DEFINE g == [f \in Newer(l, i) |-> f.context]
             X == {f.context : f \in Newer(l, i)}
  <2>1. g \in Surjection(Newer(l, i), X)
    BY DEF Surjection
  <2> HIDE DEF g
  <2>2. IsFiniteSet(X)
    BY <2>1, <1>2, FS_Surjection
  <2>. QED BY <2>2
<1>5. IsFiniteSet({f.context : f \in Newer(l, i)} \ {c})
  BY <1>4, FS_Subset
<1>. QED BY <1>2, <1>3, <1>5

\* A sequence without repetitions of n members of X shows that X has n members.
LEMMA AtLeast ==
    ASSUME NEW X, IsFiniteSet(X), NEW n \in Nat, NEW g \in [1..n -> X], IsInjective(g)
    PROVE  Cardinality(X) >= n
<1>1. g \in Injection(1..n, X)
  BY DEF Injection
<1>2. IsFiniteSet(1..n) /\ Cardinality(1..n) = n
  BY FS_Interval
<1>3. Cardinality(1..n) <= Cardinality(X) /\ Cardinality(X) \in Nat
  BY <1>1, FS_Injection, FS_CardinalityType
<1>. QED BY <1>2, <1>3

\* The three reasons for which the evidence at place i of the log l may be gone.
Excused(l, i, now) ==
   \/ now - l[i].at > Ttl
   \/ Cardinality({f \in Newer(l, i) : f.context = l[i].context}) >= MaxPerContext
   \/ Cardinality({f.context : f \in Newer(l, i)} \ {l[i].context}) >= MaxContexts

\* EvidenceRetained in terms of the reasons, before a step and after it.
LEMMA RetainedMeans ==
    /\ EvidenceRetained <=>
         \A i \in DOMAIN log : Excused(log, i, clock) \/ log[i] \in Range(bucket[log[i].context])
    /\ EvidenceRetained' <=>
         \A i \in DOMAIN log' : \/ Excused(log', i, clock')
                                \/ log'[i] \in Range(bucket'[log'[i].context])
BY DEF EvidenceRetained, Excused, Newer, After

\* A reason holds for good: time passes, and the log only grows.
LEMMA ExcusedStays ==
    ASSUME NEW l \in Seq(ToolEvidence), NEW m \in Seq(ToolEvidence), NEW i \in DOMAIN l,
           NEW now \in Int, NEW then \in Int, now <= then, Excused(l, i, now),
           \/ m = l
           \/ \E e \in ToolEvidence : m = Append(l, e)
    PROVE  i \in DOMAIN m /\ m[i] = l[i] /\ Excused(m, i, then)
<1>1. /\ i \in DOMAIN m /\ m[i] = l[i] /\ i \in Nat /\ Newer(l, i) \subseteq Newer(m, i)
  <2>1. CASE m = l
    BY <2>1
  <2>2. CASE \E e \in ToolEvidence : m = Append(l, e)
    <3>1. PICK e \in ToolEvidence : m = Append(l, e)
      BY <2>2
    <3>2. /\ Len(m) = Len(l) + 1 /\ \A j \in 1..Len(l) : m[j] = l[j]
      BY <3>1, AppendProperties
    <3>3. i \in DOMAIN m /\ m[i] = l[i] /\ i \in Nat
      BY <3>2
    <3>4. \A j \in i + 1 .. Len(l) : j \in i + 1 .. Len(m) /\ l[j] = m[j]
      BY <3>2, <3>3
    <3>. QED BY <3>3, <3>4 DEF Newer
  <2>. QED BY <2>1, <2>2
<1>2. l[i] \in ToolEvidence
  OBVIOUS
<1>3. CASE now - l[i].at > Ttl
  <2>1. l[i].at \in Int /\ Ttl \in Int
    BY <1>2, ProducerAssumption DEF ToolEvidence, ProducerAssumption
  <2>2. then - l[i].at > Ttl
    BY <1>3, <2>1
  <2>. QED BY <2>2, <1>1 DEF Excused
<1>4. CASE Cardinality({f \in Newer(l, i) : f.context = l[i].context}) >= MaxPerContext
  <2> DEFINE X == {f \in Newer(l, i) : f.context = l[i].context}
             Y == {f \in Newer(m, i) : f.context = l[i].context}
  <2>1. X \subseteq Y /\ IsFiniteSet(Y)
    BY <1>1, NewerFinite
  <2>2. Cardinality(X) <= Cardinality(Y) /\ Cardinality(X) \in Nat /\ Cardinality(Y) \in Nat
    BY <2>1, FS_Subset, FS_CardinalityType
  <2>3. Cardinality(Y) >= MaxPerContext
    BY <2>2, <1>4, ProducerAssumption DEF ProducerAssumption
  <2>. QED BY <2>3, <1>1 DEF Excused
<1>5. CASE Cardinality({f.context : f \in Newer(l, i)} \ {l[i].context}) >= MaxContexts
  <2> DEFINE X == {f.context : f \in Newer(l, i)} \ {l[i].context}
             Y == {f.context : f \in Newer(m, i)} \ {l[i].context}
  <2>1. X \subseteq Y /\ IsFiniteSet(Y)
    BY <1>1, NewerFinite
  <2>2. Cardinality(X) <= Cardinality(Y) /\ Cardinality(X) \in Nat /\ Cardinality(Y) \in Nat
    BY <2>1, FS_Subset, FS_CardinalityType
  <2>3. Cardinality(Y) >= MaxContexts
    BY <2>2, <1>5, ProducerAssumption DEF ProducerAssumption
  <2>. QED BY <2>3, <1>1 DEF Excused
<1>. QED BY <1>3, <1>4, <1>5 DEF Excused

\* u is s and one more element.
Extends(s, x, u, n) ==
    /\ n = Len(s) /\ DOMAIN s = 1..n
    /\ Len(u) = n + 1 /\ DOMAIN u = 1..(n + 1) /\ u[n + 1] = x
    /\ \A k \in 1..n : u[k] = s[k]

\* Append adds one element behind the others.
LEMMA AppendFacts ==
    ASSUME NEW S, NEW s \in Seq(S), NEW x \in S
    PROVE  /\ Append(s, x) \in Seq(S)
           /\ \E n \in Nat : Extends(s, x, Append(s, x), n)
<1>1. PICK n \in Nat : n = Len(s)
  OBVIOUS
<1>2. Extends(s, x, Append(s, x), n)
  BY <1>1, AppendProperties DEF Extends
<1>3. Append(s, x) \in Seq(S)
  OBVIOUS
<1>. QED BY <1>2, <1>3

\* observe: pruning, the bound on the bucket and the bound on the registry keep the
\* order of both, and what the bounds push out has its reason in the log.
LEMMA ObserveFacts ==
    ASSUME ProducerInv, NEW w \in Workers, Observe(w), NEW e, e = seen[w]
    PROVE  /\ e \in ToolEvidence /\ e.at <= clock
           /\ log' = Append(log, e) /\ log' \in Seq(ToolEvidence)
           /\ order' \in Seq(Contexts) /\ Len(order') <= MaxContexts /\ ByUse(order', log')
           /\ bucket' \in [Contexts -> Seq(ToolEvidence)]
           /\ \A c \in Contexts : /\ Len(bucket'[c]) <= MaxPerContext
                                  /\ Recorded(c, bucket'[c], log')
                                  /\ bucket'[c] # <<>> <=> c \in Range(order')
           /\ \A i \in DOMAIN log' : \/ Excused(log', i, clock)
                                     \/ log'[i] \in Range(bucket'[log'[i].context])
<1> USE DEF ProducerInv
<1> DEFINE B == Pruned(e.at)
           q == Live(B)
           R == Only(q, Contexts \ {e.context})
<1>1. /\ e \in ToolEvidence /\ e.at \in Nat /\ e.at <= clock /\ e.context \in Contexts
      /\ log' = Append(log, e) /\ log' \in Seq(ToolEvidence)
      /\ pc[w] = "record" /\ log \in Seq(ToolEvidence)
  BY DEF Observe, ProducerTypeOK, Timely, ToolEvidence
<1>3. PICK len \in Nat : /\ len = Len(log) /\ DOMAIN log = 1..len
                         /\ Len(log') = len + 1 /\ DOMAIN log' = 1..(len + 1)
                         /\ log'[len + 1] = e /\ (\A i \in 1..len : log'[i] = log[i])
  <2>1. PICK len \in Nat : Extends(log, e, log', len)
    BY <1>1, AppendFacts
  <2>. QED BY <2>1 DEF Extends
<1>4. /\ MaxContexts \in Nat \ {0} /\ MaxPerContext \in Nat \ {0}
      /\ clock \in Int /\ Ttl \in Int
  BY ProducerAssumption DEF ProducerTypeOK, ProducerAssumption
<1>5. /\ B \in [Contexts -> Seq(ToolEvidence)]
      /\ \A c \in Contexts : /\ Len(B[c]) <= MaxPerContext /\ Recorded(c, B[c], log)
                             /\ \A f \in Range(bucket[c]) :
                                  ~(clock - f.at > Ttl) => f \in Range(B[c])
      /\ q \in Seq(Contexts) /\ ByUse(q, log)
      /\ \A c \in Contexts : c \in Range(q) <=> B[c] # <<>>
  BY <1>1, PruneFacts
<1> HIDE DEF q
<1>6. PICK r \in Seq(Contexts) : r = R /\ ByUse(r, log) /\ Range(r) = Range(q) \ {e.context}
  <2> DEFINE r == R
  <2>1. r \in Seq(Contexts) /\ SubOf(r, q) /\ Range(r) = Range(q) \cap (Contexts \ {e.context})
    BY <1>5, OnlyIsSub
  <2>2. DOMAIN r \subseteq Int /\ DOMAIN q \subseteq Int /\ Range(q) \subseteq Contexts
    BY <1>5, <2>1 DEF Range
  <2>. QED BY <2>1, <2>2, <1>5, SubOfKeeps
<1> HIDE DEF R
<1>7a. PICK u \in Seq(Contexts) : u = Append(r, e.context)
  BY <1>1, <1>6, AppendFacts
<1>7. PICK n \in Nat : /\ DOMAIN r = 1..n /\ n = Len(r) /\ DOMAIN u = 1..(n + 1) /\ Len(u) = n + 1
                       /\ u[n + 1] = e.context /\ (\A k \in 1..n : u[k] = r[k])
  <2>1. PICK n \in Nat : Extends(r, e.context, u, n)
    BY <1>1, <1>6, <1>7a, AppendFacts
  <2>. QED BY <2>1 DEF Extends
<1>8. ByUse(u, log')
  <2>1. \A k \in 1..n : u[k] \in Range(q) /\ u[k] # e.context
    BY <1>6, <1>7 DEF Range
  <2>2. \A k \in 1..(n + 1) : k = n + 1 \/ k \in 1..n
    OBVIOUS
  <2>3. IsInjective(u)
    BY <2>1, <2>2, <1>6, <1>7 DEF IsInjective, ByUse
  <2>4. ASSUME NEW k \in DOMAIN u, NEW m \in DOMAIN u, NEW i \in DOMAIN log',
               k < m, log'[i].context = u[k]
        PROVE  \E j \in DOMAIN log' : i < j /\ log'[j].context = u[m]
    <3>0. k \in 1..(n + 1) /\ m \in 1..(n + 1) /\ i \in 1..(len + 1)
      BY <1>3, <1>7
    <3>1. k \in 1..n
      BY <2>4, <3>0
    <3>2. i # len + 1
      BY <3>1, <2>1, <2>4, <1>3
    <3>3. i \in 1..len
      BY <3>0, <3>2
    <3>4. CASE m = n + 1
      <4>1. log'[len + 1].context = u[m] /\ i < len + 1 /\ len + 1 \in DOMAIN log'
        BY <3>3, <3>4, <1>3, <1>7
      <4>. QED BY <4>1
    <3>5. CASE m \in 1..n
      <4>0. k \in DOMAIN r /\ m \in DOMAIN r /\ i \in DOMAIN log /\ log[i].context = r[k]
        BY <3>1, <3>3, <3>5, <2>4, <1>3, <1>7
      <4>1. PICK j \in DOMAIN log : i < j /\ log[j].context = r[m]
        BY <4>0, <2>4, <1>6 DEF ByUse
      <4>2. j \in DOMAIN log' /\ log'[j] = log[j] /\ u[m] = r[m]
        BY <3>5, <1>3, <1>7
      <4>. QED BY <4>1, <4>2
    <3>. QED BY <3>0, <3>4, <3>5, <2>2
  <2>. QED BY <2>3, <2>4, Zenon DEF ByUse
<1>10. PICK kept \in Seq(Contexts) : kept = LastOf(u, MaxContexts) /\ Len(kept) <= MaxContexts
  BY <1>4, LastOfFacts
<1>9. PICK d \in Nat : /\ Len(kept) = Len(u) - d /\ (d > 0 => Len(kept) = MaxContexts)
                       /\ \A k \in 1..Len(kept) : kept[k] = u[k + d]
  <2>1. Dropped(kept, u, MaxContexts)
    BY <1>4, <1>10, LastOfFacts
  <2>. QED BY <2>1, Zenon DEF Dropped
<1>11. ByUse(kept, log')
  <2>1. SubOf(kept, u)
    BY <1>4, <1>10, LastOfIsSub
  <2>2. DOMAIN kept \subseteq Int /\ DOMAIN u \subseteq Int
    BY <1>7, <1>10
  <2>. QED BY <2>1, <2>2, <1>8, SubOfKeeps
<1>12. PICK a \in Nat : /\ a = Len(kept) /\ DOMAIN kept = 1..a /\ a >= 1 /\ a + d = n + 1
                        /\ e.context \in Range(kept)
  <2>1. PICK a \in Nat : a = Len(kept) /\ DOMAIN kept = 1..a
    BY <1>10
  <2>2. a >= 1 /\ a + d = n + 1
    <3>1. a = n + 1 - d /\ (d > 0 => a = MaxContexts)
      BY <2>1, <1>7, <1>9
    <3>2. CASE d = 0
      BY <3>1, <3>2
    <3>3. CASE d > 0
      BY <3>1, <3>3, <1>4
    <3>. QED BY <3>2, <3>3
  <2>3. a \in 1..a /\ kept[a] = e.context
    BY <2>1, <2>2, <1>7, <1>9
  <2>. QED BY <2>1, <2>2, <2>3 DEF Range
<1>13. \A c \in Range(kept) : c = e.context \/ B[c] # <<>>
  <2> SUFFICES ASSUME NEW k \in 1..a, kept[k] # e.context PROVE B[kept[k]] # <<>>
    BY <1>12 DEF Range
  <2>0. k + d \in 1..(n + 1)
    BY <1>12
  <2>1. kept[k] = u[k + d] /\ k + d \in 1..(n + 1) /\ kept[k] \in Contexts
    BY <2>0, <1>9, <1>10, <1>12
  <2>2. k + d \in 1..n
    <3>1. k + d # n + 1
      BY <2>1, <1>7
    <3>. QED BY <2>1, <3>1
  <2>3. kept[k] \in Range(r)
    BY <2>1, <2>2, <1>7 DEF Range
  <2>. QED BY <2>1, <2>3, <1>5, <1>6
<1>13a. PICK b \in Seq(ToolEvidence) : b = Append(B[e.context], e)
  BY <1>1, <1>5, AppendFacts
<1> HIDE DEF B
<1>14. PICK m \in Nat : /\ m = Len(B[e.context]) /\ DOMAIN B[e.context] = 1..m
                        /\ DOMAIN b = 1..(m + 1) /\ Len(b) = m + 1
                        /\ b[m + 1] = e /\ (\A k \in 1..m : b[k] = B[e.context][k])
  <2>1. PICK z \in Seq(ToolEvidence) : z = B[e.context] /\ b = Append(z, e)
    BY <1>1, <1>5, <1>13a
  <2>2. e \in ToolEvidence
    BY <1>1
  <2>3. PICK m \in Nat : Extends(z, e, b, m)
    BY <2>1, <2>2, AppendFacts
  <2>. QED BY <2>1, <2>3 DEF Extends
<1>15. PICK t \in Seq(ToolEvidence) : t = LastOf(b, MaxPerContext) /\ Len(t) <= MaxPerContext
  BY <1>4, LastOfFacts
<1>16. PICK x \in Nat : /\ Len(t) = Len(b) - x /\ (x > 0 => Len(t) = MaxPerContext)
                        /\ \A k \in 1..Len(t) : t[k] = b[k + x]
  <2>1. Dropped(t, b, MaxPerContext)
    BY <1>4, <1>15, LastOfFacts
  <2>. QED BY <2>1, Zenon DEF Dropped
<1>17. PICK y \in Nat : y = Len(t) /\ DOMAIN t = 1..y /\ y >= 1 /\ y + x = m + 1 /\ e \in Range(t)
  <2>1. PICK y \in Nat : y = Len(t) /\ DOMAIN t = 1..y
    BY <1>15
  <2>2. y >= 1 /\ y + x = m + 1
    <3>1. y = m + 1 - x /\ (x > 0 => y = MaxPerContext)
      BY <2>1, <1>14, <1>16
    <3>2. CASE x = 0
      BY <3>1, <3>2
    <3>3. CASE x > 0
      BY <3>1, <3>3, <1>4
    <3>. QED BY <3>2, <3>3
  <2>3. y \in 1..y /\ t[y] = e
    BY <2>1, <2>2, <1>14, <1>16
  <2>. QED BY <2>1, <2>2, <2>3 DEF Range
<1>18. /\ order' = kept
       /\ bucket' = [c \in Contexts |-> 
                       IF c \in Range(kept)
                       THEN [B EXCEPT ![e.context] = LastOf(Append(@, e), MaxPerContext)][c]
                       ELSE <<>>]
  BY <1>6, <1>7a, <1>10 DEF Observe, Kept, MovedToEnd, B, R, q
<1>19. \A c \in Contexts : bucket'[c] = IF c \notin Range(kept) THEN <<>>
                                        ELSE IF c = e.context THEN t ELSE B[c]
  BY <1>18, <1>5, <1>13a, <1>15
<1>20. \A i \in 1..len : log'[i] # e
  <2>1. \A i \in DOMAIN log : log[i].ref # e.ref
    BY <1>1 DEF OncePerCall
  <2>2. \A i \in 1..len : i \in DOMAIN log /\ log'[i] = log[i]
    BY <1>3
  <2>. QED BY <2>1, <2>2
<1>21. Recorded(e.context, b, log')
  <2>1. \A k \in 1..(m + 1) : k = m + 1 \/ k \in 1..m
    OBVIOUS
  <2>2. \A i \in 1..(len + 1) : i = len + 1 \/ i \in 1..len
    OBVIOUS
  <2>3. len + 1 \in 1..(len + 1) /\ (\A i \in 1..len : i \in 1..(len + 1) /\ i < len + 1)
    OBVIOUS
  <2>4. Recorded(e.context, B[e.context], log)
    BY <1>1, <1>5
  <2>5. \A k \in 1..m : /\ b[k].context = e.context
                        /\ \E i \in 1..len : b[k] = log'[i]
    <3>1. \A k \in DOMAIN B[e.context] : /\ B[e.context][k].context = e.context
                                         /\ \E i \in DOMAIN log : B[e.context][k] = log[i]
      BY <2>4 DEF Recorded
    <3>2. \A k \in 1..m : k \in DOMAIN B[e.context] /\ b[k] = B[e.context][k]
      BY <1>14
    <3>3. \A i \in DOMAIN log : i \in 1..len /\ log[i] = log'[i]
      BY <1>3
    <3>. QED BY <3>1, <3>2, <3>3
  <2>6. \A k \in 1..(m + 1) : b[k].context = e.context /\ \E i \in 1..(len + 1) : b[k] = log'[i]
    BY <2>1, <2>3, <2>5, <1>3, <1>14
  <2>7. ASSUME NEW k \in DOMAIN b, NEW k2 \in DOMAIN b,
               NEW i \in DOMAIN log', NEW j \in DOMAIN log',
               k < k2, log'[i] = b[k], log'[j] = b[k2]
        PROVE  i < j
    <3>0. /\ k \in 1..(m + 1) /\ k2 \in 1..(m + 1)
          /\ i \in 1..(len + 1) /\ j \in 1..(len + 1)
      BY <1>3, <1>14
    <3>1. k \in 1..m
      BY <2>7, <3>0
    <3>2. b[k] # e
      BY <3>1, <2>5, <1>20
    <3>3. i \in 1..len
      BY <3>0, <3>2, <2>2, <2>7, <1>3
    <3>4. CASE k2 = m + 1
      BY <3>0, <3>3, <3>4, <2>2, <2>3, <2>7, <1>14, <1>20
    <3>5. CASE k2 \in 1..m
      <4>1. b[k2] # e
        BY <3>5, <2>5, <1>20
      <4>2. j \in 1..len
        BY <3>0, <4>1, <2>2, <2>7, <1>3
      <4>3. /\ k \in DOMAIN B[e.context] /\ k2 \in DOMAIN B[e.context]
            /\ i \in DOMAIN log /\ j \in DOMAIN log
            /\ log[i] = B[e.context][k] /\ log[j] = B[e.context][k2]
        BY <3>1, <3>3, <3>5, <4>2, <2>7, <1>3, <1>14
      <4>. QED BY <4>3, <2>4, <2>7 DEF Recorded
    <3>. QED BY <3>0, <3>4, <3>5, <2>1
  <2>8. \A k \in DOMAIN b : b[k].context = e.context /\ \E i \in DOMAIN log' : b[k] = log'[i]
    BY <2>6, <1>3, <1>14
  <2>. QED BY <2>7, <2>8, Zenon DEF Recorded
<1>22. Recorded(e.context, t, log')
  <2>1. SubOf(t, b)
    BY <1>4, <1>14, <1>15, LastOfIsSub
  <2>2. DOMAIN b \subseteq Int
    BY <1>14
  <2>. QED BY <2>1, <2>2, <1>21, SubOfKeeps
<1>23. ASSUME NEW c \in Contexts, c # e.context
       PROVE  Recorded(c, B[c], log')
  <2>1. Recorded(c, B[c], log)
    BY <1>5
  <2>2. \A k \in DOMAIN B[c] : \A i \in DOMAIN log' : log'[i] = B[c][k] => i \in 1..len
    BY <2>1, <1>3, <1>23 DEF Recorded
  <2>3. \A i \in 1..len : i \in DOMAIN log' /\ i \in DOMAIN log
    BY <1>3
  <2>. QED BY <2>1, <2>2, <2>3, <1>3 DEF Recorded
<1>24. ASSUME NEW c \in Contexts
       PROVE  /\ bucket'[c] \in Seq(ToolEvidence) /\ Len(bucket'[c]) <= MaxPerContext
              /\ Recorded(c, bucket'[c], log')
              /\ bucket'[c] # <<>> <=> c \in Range(kept)
  <2>1. CASE c \notin Range(kept)
    <3>1. bucket'[c] = <<>> /\ DOMAIN <<>> = {} /\ <<>> \in Seq(ToolEvidence) /\ Len(<<>>) = 0
      BY <2>1, <1>19
    <3>2. Recorded(c, <<>>, log')
      BY <3>1 DEF Recorded
    <3>. QED BY <2>1, <3>1, <3>2, <1>4
  <2>2. CASE c = e.context
    <3>1. bucket'[c] = t /\ c \in Range(kept) /\ t # <<>>
      BY <2>2, <1>12, <1>17, <1>19
    <3>. QED BY <2>2, <3>1, <1>15, <1>22
  <2>3. CASE c # e.context /\ c \in Range(kept)
    <3>1. bucket'[c] = B[c] /\ B[c] # <<>>
      BY <2>3, <1>13, <1>19
    <3>. QED BY <2>3, <3>1, <1>5, <1>23
  <2>. QED BY <2>1, <2>2, <2>3
<1>25. ASSUME NEW i \in 1..(len + 1)
       PROVE  Excused(log', i, clock) \/ log'[i] \in Range(bucket'[log'[i].context])
  <2>1. CASE i = len + 1
    BY <2>1, <1>1, <1>3, <1>12, <1>17, <1>19
  <2>2. CASE i \in 1..len /\ Excused(log, i, clock)
    <3>1. i \in DOMAIN log /\ clock <= clock /\ \E f \in ToolEvidence : log' = Append(log, f)
      BY <2>2, <1>1, <1>3, <1>4
    <3>. QED BY <3>1, <2>2, <1>1, <1>4, ExcusedStays
  <2>3. CASE i \in 1..len /\ ~Excused(log, i, clock)
    <3> DEFINE c == log[i].context
    <3>1. /\ c \in Contexts /\ log'[i] = log[i] /\ log[i] \in Range(B[c]) /\ B[c] # <<>>
          /\ c \in Range(q)
      <4>0. log[i] \in ToolEvidence
        BY <2>3, <1>1, <1>3
      <4>1. c \in Contexts
        BY <4>0 DEF ToolEvidence
      <4>2. log[i] \in Range(bucket[c]) /\ ~(clock - log[i].at > Ttl)
        BY <2>3, <1>3, RetainedMeans DEF Excused
      <4>3. log[i] \in Range(B[c])
        BY <4>1, <4>2, <1>5
      <4>4. B[c] # <<>>
        BY <4>3 DEF Range
      <4>. QED BY <4>1, <4>3, <4>4, <2>3, <1>3, <1>5
    <3>2. CASE c # e.context /\ c \in Range(kept)
      <4>1. bucket'[c] = B[c]
        BY <3>1, <3>2, <1>19
      <4>. QED BY <3>1, <4>1
    <3>3. CASE c = e.context
      <4>1. PICK k \in 1..m : log[i] = b[k]
        <5>1. PICK k \in DOMAIN B[e.context] : log[i] = B[e.context][k]
          BY <3>1, <3>3 DEF Range
        <5>2. k \in 1..m /\ b[k] = B[e.context][k]
          BY <1>14
        <5>. QED BY <5>1, <5>2
      <4>2. CASE k > x
        <5>0. k - x \in 1..y /\ (k - x) + x = k
          BY <4>2, <1>17
        <5>1. t[k - x] = b[k]
          BY <5>0, <1>16, <1>17
        <5>2. log'[i] \in Range(t)
          BY <5>0, <5>1, <4>1, <3>1, <1>17 DEF Range
        <5>. QED BY <5>2, <3>1, <3>3, <1>12, <1>19
      <4>3. CASE ~(k > x)
        <5> DEFINE X == {f \in Newer(log', i) : f.context = log'[i].context}
        <5>0. x > 0
          BY <4>1, <4>3
        <5>1. y = MaxPerContext
          BY <5>0, <1>16, <1>17
        <5>2. ASSUME NEW z \in 1..y
              PROVE  t[z] \in X
          <6>0. z + x \in 1..(m + 1) /\ k < z + x /\ k \in 1..(m + 1)
            BY <4>1, <4>3, <1>17
          <6>1. z + x \in 1..(m + 1) /\ k < z + x /\ t[z] = b[z + x] /\ k \in 1..(m + 1)
            BY <6>0, <1>16, <1>17
          <6>2. PICK j \in 1..(len + 1) : log'[j] = b[z + x]
            BY <6>1, <1>3, <1>14, <1>21 DEF Recorded
          <6>3. i < j
            <7>1. /\ k \in DOMAIN b /\ z + x \in DOMAIN b /\ i \in DOMAIN log' /\ j \in DOMAIN log'
                  /\ log'[i] = b[k]
              BY <6>1, <4>1, <3>1, <1>3, <1>14
            <7>. QED BY <7>1, <6>1, <6>2, <1>21 DEF Recorded
          <6>4. j \in i + 1 .. Len(log')
            BY <6>3, <1>1, <1>3
          <6>5. t[z].context = log'[i].context
            BY <3>1, <3>3, <1>17, <1>22 DEF Recorded
          <6>. QED BY <6>1, <6>2, <6>4, <6>5 DEF Newer
        <5>3. IsInjective(t)
          <6> SUFFICES ASSUME NEW z \in 1..y, NEW z2 \in 1..y, t[z] = t[z2], z < z2 PROVE FALSE
            BY <1>17 DEF IsInjective
          <6>1. PICK j \in DOMAIN log' : t[z] = log'[j]
            BY <1>17, <1>22 DEF Recorded
          <6>2. j < j
            <7>1. z \in DOMAIN t /\ z2 \in DOMAIN t /\ log'[j] = t[z2] /\ z < z2
              BY <6>1, <1>17
            <7>. QED BY <7>1, <6>1, <1>22 DEF Recorded
          <6>. QED BY <6>2, <1>3
        <5>4. t \in [1..y -> X]
          <6>1. t = [z \in 1..y |-> t[z]]
            BY <1>17
          <6> HIDE DEF X
          <6>. QED BY <6>1, <5>2
        <5>5. IsFiniteSet(X)
          <6>1. i \in Nat
            OBVIOUS
          <6>2. IsFiniteSet(Newer(log', i)) /\ X \subseteq Newer(log', i)
            BY <6>1, <1>1, NewerFinite
          <6>. QED BY <6>2, FS_Subset
        <5> HIDE DEF X
        <5>6. Cardinality(X) >= MaxPerContext
          BY <5>1, <5>3, <5>4, <5>5, AtLeast
        <5>. QED BY <5>6 DEF Excused, X
      <4>. QED BY <4>2, <4>3
    <3>4. CASE c \notin Range(kept)
      <4>1. PICK k \in 1..n : c = u[k]
        <5>1. c \in Range(r)
          BY <3>1, <3>4, <1>6, <1>12
        <5>. QED BY <5>1, <1>7 DEF Range
      <4>2. ~(k > d)
        <5> SUFFICES ASSUME k > d PROVE FALSE
          OBVIOUS
        <5>1. k - d \in 1..a /\ k - d + d = k
          BY <1>12
        <5>2. kept[k - d] = u[k]
          BY <5>1, <1>9, <1>12
        <5>. QED BY <5>1, <5>2, <4>1, <3>4, <1>12 DEF Range
      <4> DEFINE X == {f.context : f \in Newer(log', i)} \ {log'[i].context}
      <4>3. a = MaxContexts
        <5>1. d > 0
          BY <4>1, <4>2
        <5>. QED BY <5>1, <1>9, <1>12
      <4>4. ASSUME NEW z \in 1..a
            PROVE  kept[z] \in X
        <5>0. z + d \in 1..(n + 1) /\ k < z + d /\ k \in 1..(n + 1)
          BY <4>1, <4>2, <1>12
        <5>1. z + d \in 1..(n + 1) /\ k < z + d /\ kept[z] = u[z + d] /\ k \in 1..(n + 1)
          BY <5>0, <1>9, <1>12
        <5>2. PICK j \in DOMAIN log' : i < j /\ log'[j].context = u[z + d]
          <6>1. k \in DOMAIN u /\ z + d \in DOMAIN u /\ i \in DOMAIN log' /\ log'[i].context = u[k]
            BY <5>1, <4>1, <3>1, <1>3, <1>7
          <6>. QED BY <6>1, <5>1, <1>8 DEF ByUse
        <5>3. j \in i + 1 .. Len(log')
          BY <5>2, <1>1, <1>3
        <5>4. u[z + d] # u[k]
          <6>1. k \in DOMAIN u /\ z + d \in DOMAIN u /\ k # z + d
            BY <5>1, <1>7
          <6>. QED BY <6>1, <1>8 DEF ByUse, IsInjective
        <5>. QED BY <5>1, <5>2, <5>3, <5>4, <4>1, <3>1 DEF Newer
      <4>5. kept \in [1..a -> X]
        <5>1. kept = [z \in 1..a |-> kept[z]]
          BY <1>10, <1>12
        <5> HIDE DEF X
        <5>. QED BY <5>1, <4>4
      <4>6. IsFiniteSet(X)
        <5>1. i \in Nat
          OBVIOUS
        <5>. QED BY <5>1, <1>1, NewerFinite, Zenon
      <4> HIDE DEF X
      <4>7. Cardinality(X) >= MaxContexts
        BY <4>3, <4>5, <4>6, <1>11, AtLeast DEF ByUse
      <4>. QED BY <4>7 DEF Excused, X
    <3>. QED BY <3>2, <3>3, <3>4
  <2>. QED BY <2>1, <2>2, <2>3
<1>. QED BY <1>1, <1>18, <1>3, <1>10, <1>11, <1>24, <1>25

\* The values that stand for no tool call and no declaration exist.
LEMMA NothingYet ==
    /\ NoTool \in ToolEvidence /\ NoTool.at = 0
    /\ NoDeclaration \in Declaration /\ NoDeclaration.now = 0
<1> USE ProducerAssumption DEF ProducerAssumption
<1>1. PICK c \in Contexts, count \in Counts : TRUE
  OBVIOUS
<1>2. [ref |-> 1, context |-> c, status |-> "ok", at |-> 0] \in ToolEvidence
  BY DEF ToolEvidence
<1>3. \E e \in ToolEvidence : e.at = 0
  BY <1>2
<1>4. [context |-> c, type |-> "material_failure", count |-> count, now |-> 0] \in Declaration
  BY DEF Declaration, EventType
<1>5. \E d \in Declaration : d.now = 0
  BY <1>4
<1>. QED BY <1>3, <1>5 DEF NoTool, NoDeclaration

\* An empty registry satisfies the invariant.
LEMMA ProducerInitial == ProducerInit => ProducerInv
<1> SUFFICES ASSUME ProducerInit PROVE ProducerInv
  OBVIOUS
<1>1. /\ MaxContexts \in Nat \ {0} /\ MaxPerContext \in Nat \ {0}
      /\ Ttl \in Nat /\ MaxTime \in Nat /\ MaxTools \in Nat \ {0}
  BY ProducerAssumption DEF ProducerAssumption
<1>2. /\ \A S : <<>> \in Seq(S)
      /\ Len(<<>>) = 0 /\ DOMAIN <<>> = {}
  OBVIOUS
<1>3. Range(<<>>) = {}
  BY <1>2 DEF Range
<1>4. ProducerTypeOK
  BY <1>1, <1>2, <1>3, NothingYet DEF ProducerInit, ProducerTypeOK
<1>5. Timely /\ OncePerCall /\ EvidenceRetained
  BY <1>1, <1>2, NothingYet DEF ProducerInit, Timely, OncePerCall, EvidenceRetained
<1>6. \A c \in Contexts : Recorded(c, bucket[c], log)
  BY <1>2 DEF ProducerInit, Recorded
<1>7. ByUse(order, log)
  BY <1>2 DEF ProducerInit, ByUse, IsInjective
<1>. QED BY <1>4, <1>5, <1>6, <1>7 DEF ProducerInv

\* select: the registry is pruned, and what is bound is evidence.
LEMMA SelectFacts ==
    ASSUME ProducerInv, NEW w \in Workers, Select(w)
    PROVE  /\ order' \in Seq(Contexts) /\ Len(order') <= MaxContexts /\ ByUse(order', log)
           /\ bucket' \in [Contexts -> Seq(ToolEvidence)]
           /\ \A c \in Contexts : /\ Len(bucket'[c]) <= MaxPerContext
                                  /\ Recorded(c, bucket'[c], log)
                                  /\ bucket'[c] # <<>> <=> c \in Range(order')
                                  /\ \A e \in Range(bucket[c]) :
                                       ~(clock - e.at > Ttl) => e \in Range(bucket'[c])
           /\ bound' \in [Workers -> Seq(ToolEvidence)]
<1> DEFINE d == asked[w]
<1>1. d.now \in Int /\ d.now <= clock /\ d.context \in Contexts /\ d.count \in Nat \ {0}
  <2>1. asked[w] \in Declaration /\ asked[w].now <= clock
    BY DEF ProducerInv, ProducerTypeOK, Timely
  <2>2. d.context \in Contexts /\ d.count \in Counts /\ d.now \in 0..MaxTime
    BY <2>1 DEF Declaration
  <2>3. Counts \subseteq Nat \ {0} /\ MaxTime \in Nat
    BY ProducerAssumption DEF ProducerAssumption
  <2>4. d.count \in Nat \ {0} /\ d.now \in Int
    <3> HIDE DEF d
    <3>1. \A x \in 0..MaxTime : x \in Int
      BY <2>3
    <3>2. d.count \in Nat \ {0}
      BY <2>2, <2>3
    <3>. QED BY <2>2, <3>1, <3>2
  <2>. QED BY <2>1, <2>2, <2>4
<1>2. PICK B : B = Pruned(d.now)
  OBVIOUS
<1>3. /\ order' = Live(B) /\ bucket' = B
      /\ \/ UNCHANGED bound
         \/ bound' = [bound EXCEPT ![w] = Chosen(Only(B[d.context], Supports(d.type)), d.count)]
  BY <1>2 DEF Select
<1>4. /\ B \in [Contexts -> Seq(ToolEvidence)]
      /\ \A c \in Contexts : /\ Len(B[c]) <= MaxPerContext /\ Recorded(c, B[c], log)
                             /\ \A e \in Range(bucket[c]) :
                                  ~(clock - e.at > Ttl) => e \in Range(B[c])
      /\ Live(B) \in Seq(Contexts) /\ Len(Live(B)) <= MaxContexts
      /\ ByUse(Live(B), log)
      /\ \A c \in Contexts : c \in Range(Live(B)) <=> B[c] # <<>>
  BY <1>1, <1>2, PruneFacts
<1> HIDE DEF d
<1>5. PICK s \in Seq(ToolEvidence) : s = B[d.context]
  BY <1>1, <1>4
<1>6. PICK t \in Seq(ToolEvidence) : t = Only(s, Supports(d.type))
  BY OnlyIsSub
<1>7. Chosen(t, d.count) \in Seq(ToolEvidence)
  BY <1>1, LastOfFacts DEF Chosen
<1>8. bound' \in [Workers -> Seq(ToolEvidence)]
  BY <1>3, <1>5, <1>6, <1>7 DEF ProducerInv, ProducerTypeOK
<1>. QED BY <1>3, <1>4, <1>8

\* The evidence that was kept and the excuses for the rest outlive a call that
\* records nothing.
LEMMA StillRetained ==
    ASSUME ProducerInv, log' = log, clock' \in Int, clock <= clock',
           \A c \in Contexts : \A e \in Range(bucket[c]) :
               ~(clock - e.at > Ttl) => e \in Range(bucket'[c])
    PROVE  EvidenceRetained'
<1> SUFFICES ASSUME NEW i \in DOMAIN log
             PROVE  Excused(log, i, clock') \/ log[i] \in Range(bucket'[log[i].context])
  BY RetainedMeans
<1>1. log \in Seq(ToolEvidence) /\ clock \in Int
  BY DEF ProducerInv, ProducerTypeOK
<1>2. CASE Excused(log, i, clock)
  BY <1>1, <1>2, ExcusedStays
<1>3. CASE ~Excused(log, i, clock)
  <2>1. log[i] \in ToolEvidence
    BY <1>1
  <2>2. log[i].context \in Contexts
    BY <2>1 DEF ToolEvidence
  <2>3. log[i] \in Range(bucket[log[i].context])
    BY <1>3, RetainedMeans DEF ProducerInv
  <2>4. ~(clock - log[i].at > Ttl)
    BY <1>3 DEF Excused
  <2>. QED BY <2>2, <2>3, <2>4
<1>. QED BY <1>2, <1>3

\* Every step of every hook keeps the invariant.
LEMMA ProducerStep == ProducerInv /\ [ProducerNext]_producerVars => ProducerInv'
<1> SUFFICES ASSUME ProducerInv, [ProducerNext]_producerVars
             PROVE  ProducerInv'
  OBVIOUS
<1> USE DEF ProducerInv
<1>0. /\ MaxContexts \in Nat \ {0} /\ MaxPerContext \in Nat \ {0}
      /\ Ttl \in Nat /\ MaxTime \in Nat /\ MaxTools \in Nat \ {0}
      /\ Counts \subseteq Nat \ {0}
  BY ProducerAssumption DEF ProducerAssumption
<1>a. /\ clock \in 0..MaxTime /\ log \in Seq(ToolEvidence)
      /\ order \in Seq(Contexts) /\ bucket \in [Contexts -> Seq(ToolEvidence)]
      /\ seen \in [Workers -> ToolEvidence] /\ asked \in [Workers -> Declaration]
      /\ tools \in 0..MaxTools
  BY DEF ProducerTypeOK
<1>b. \A i \in DOMAIN log : log[i] \in ToolEvidence /\ log[i].ref \in Int /\ log[i].at \in Int
  <2>1. \A i \in DOMAIN log : log[i] \in ToolEvidence
    BY <1>a
  <2>. QED BY <2>1 DEF ToolEvidence
<1>q. ASSUME UNCHANGED <<order, bucket, log>>, clock' \in Int, clock <= clock'
      PROVE  /\ EvidenceRetained'
             /\ (\A c \in Contexts : Recorded(c, bucket[c], log))'
             /\ ByUse(order, log)'
  <2>1. EvidenceRetained'
    BY <1>q, StillRetained
  <2>. QED BY <1>q, <2>1
<1>1. CASE UNCHANGED producerVars
  <2>1. UNCHANGED <<order, bucket, log, clock, pc, seen, asked, bound, tools>>
    BY <1>1 DEF producerVars, registry
  <2>2. ProducerTypeOK' /\ Timely' /\ OncePerCall'
    BY <2>1 DEF ProducerTypeOK, Timely, OncePerCall
  <2>. QED BY <2>1, <2>2, <1>a, <1>q
<1>2. ASSUME NEW w \in Workers, NEW c \in Contexts, NEW status \in {"ok", "error"},
             ToolEnds(w, c, status)
      PROVE  ProducerInv'
  <2> DEFINE e == [ref |-> tools + 1, context |-> c, status |-> status, at |-> clock]
  <2>1. /\ pc[w] = "idle" /\ tools' = tools + 1 /\ tools' \in 1..MaxTools
        /\ seen' = [seen EXCEPT ![w] = e] /\ pc' = [pc EXCEPT ![w] = "record"]
        /\ UNCHANGED <<order, bucket, log, clock, asked, bound>>
    <3>1. /\ pc[w] = "idle" /\ tools < MaxTools /\ tools' = tools + 1
          /\ seen' = [seen EXCEPT ![w] = [ref |-> tools', context |-> c,
                                          status |-> status, at |-> clock]]
          /\ pc' = [pc EXCEPT ![w] = "record"]
          /\ UNCHANGED <<order, bucket, log, clock, asked, bound>>
      BY <1>2 DEF ToolEnds, registry
    <3>2. tools' \in 1..MaxTools
      BY <3>1, <1>0, <1>a
    <3>3. seen' = [seen EXCEPT ![w] = e]
      BY <3>1
    <3>. QED BY <3>1, <3>2, <3>3
  <2>2. e \in ToolEvidence
    BY <2>1, <1>a DEF ToolEvidence
  <2> HIDE DEF e
  <2>3. ProducerTypeOK'
    BY <2>1, <2>2, <1>a DEF ProducerTypeOK
  <2>4. e.at = clock /\ e.ref = tools + 1
    BY DEF e
  <2>5. Timely'
    BY <2>1, <2>4, <1>a DEF Timely
  <2>6. \A v \in Workers : /\ v = w => pc'[v] = "record" /\ seen'[v] = e
                           /\ v # w => pc'[v] = pc[v] /\ seen'[v] = seen[v]
    BY <2>1, <1>a DEF ProducerTypeOK
  <2>7. \A v \in Workers : seen[v].ref \in Int
    BY <1>a DEF ToolEvidence
  <2>8. OncePerCall'
    <3>1. \A i \in DOMAIN log : log[i].ref <= tools /\ log[i].ref # tools + 1
      BY <1>a, <1>b DEF OncePerCall
    <3>2. \A v \in Workers : v # w /\ pc[v] = "record" =>
            seen[v].ref <= tools /\ seen[v].ref # tools + 1
      BY <1>a, <2>7 DEF OncePerCall
    <3>3. \A v \in Workers : pc'[v] = "record" => seen'[v].ref <= tools'
      BY <2>1, <2>4, <2>6, <2>7, <3>2, <1>a
    <3>4. \A i \in DOMAIN log' : log'[i].ref <= tools'
      BY <2>1, <3>1, <1>a, <1>b
    <3>5. \A v \in Workers : pc'[v] = "record" => \A i \in DOMAIN log' : log'[i].ref # seen'[v].ref
      BY <2>1, <2>4, <2>6, <3>1 DEF OncePerCall
    <3>6. \A v, x \in Workers : pc'[v] = "record" /\ pc'[x] = "record"
                             /\ seen'[v].ref = seen'[x].ref => v = x
      BY <2>4, <2>6, <3>2 DEF OncePerCall
    <3>. QED BY <3>3, <3>4, <3>5, <3>6, <2>1 DEF OncePerCall
  <2>. QED BY <2>1, <2>3, <2>5, <2>8, <1>a, <1>q
<1>3. ASSUME NEW w \in Workers, NEW c \in Contexts, NEW type \in EventType,
             NEW count \in Counts, Declare(w, c, type, count)
      PROVE  ProducerInv'
  <2> DEFINE d == [context |-> c, type |-> type, count |-> count, now |-> clock]
  <2>1. /\ pc[w] = "idle"
        /\ asked' = [asked EXCEPT ![w] = d] /\ pc' = [pc EXCEPT ![w] = "select"]
        /\ UNCHANGED <<order, bucket, log, clock, seen, bound, tools>>
    BY <1>3 DEF Declare, registry
  <2>2. d \in Declaration /\ d.now = clock
    BY <1>a DEF Declaration
  <2> HIDE DEF d
  <2>3. ProducerTypeOK'
    BY <2>1, <2>2, <1>a DEF ProducerTypeOK
  <2>4. Timely'
    BY <2>1, <2>2, <1>a DEF Timely
  <2>5. \A v \in Workers : pc'[v] = "record" => pc[v] = "record"
    BY <2>1 DEF ProducerTypeOK
  <2>6. OncePerCall'
    BY <2>1, <2>5 DEF OncePerCall
  <2>. QED BY <2>1, <2>3, <2>4, <2>6, <1>a, <1>q
<1>4. ASSUME NEW w \in Workers, Observe(w)
      PROVE  ProducerInv'
  <2>1. PICK e \in ToolEvidence : e = seen[w]
    BY <1>a
  <2>2. /\ e.at <= clock
        /\ log' = Append(log, e) /\ log' \in Seq(ToolEvidence)
        /\ order' \in Seq(Contexts) /\ Len(order') <= MaxContexts /\ ByUse(order', log')
        /\ bucket' \in [Contexts -> Seq(ToolEvidence)]
        /\ \A c \in Contexts : /\ Len(bucket'[c]) <= MaxPerContext
                               /\ Recorded(c, bucket'[c], log')
                               /\ bucket'[c] # <<>> <=> c \in Range(order')
        /\ \A i \in DOMAIN log' : \/ Excused(log', i, clock)
                                  \/ log'[i] \in Range(bucket'[log'[i].context])
    BY <1>4, <2>1, ObserveFacts
  <2>3. /\ pc[w] = "record" /\ pc' = [pc EXCEPT ![w] = "idle"]
        /\ seen' = [seen EXCEPT ![w] = NoTool]
        /\ UNCHANGED <<clock, asked, bound, tools>>
    BY <1>4 DEF Observe
  <2>4. ProducerTypeOK'
    BY <2>2, <2>3, NothingYet DEF ProducerTypeOK
  <2>5. PICK len \in Nat : Extends(log, e, log', len)
    BY <2>1, <2>2, <1>a, AppendFacts
  <2>6. \A i \in DOMAIN log' : \/ i = len + 1 /\ log'[i] = e
                               \/ i \in DOMAIN log /\ log'[i] = log[i]
    <3>1. DOMAIN log' = 1..(len + 1) /\ DOMAIN log = 1..len
      BY <2>5 DEF Extends
    <3>2. \A i \in 1..(len + 1) : i = len + 1 \/ i \in 1..len
      OBVIOUS
    <3>. QED BY <3>1, <3>2, <2>5 DEF Extends
  <2>7. Timely'
    <3>1. \A v \in Workers : seen'[v].at <= clock'
      BY <2>3, <1>a, NothingYet DEF Timely
    <3>2. \A i \in DOMAIN log' : log'[i].at <= clock'
      BY <2>2, <2>3, <2>6 DEF Timely
    <3>. QED BY <3>1, <3>2, <2>3 DEF Timely
  <2>8. OncePerCall'
    <3>1. e.ref <= tools /\ \A i \in DOMAIN log : log[i].ref # e.ref
      BY <2>1, <2>3 DEF OncePerCall
    <3>2. \A v \in Workers : pc'[v] = "record" => /\ pc[v] = "record" /\ seen'[v] = seen[v] /\ v # w
                                                  /\ seen[v].ref # e.ref
      BY <2>1, <2>3, <1>a DEF OncePerCall, ProducerTypeOK
    <3>3. \A i \in DOMAIN log' : log'[i].ref <= tools'
      BY <2>3, <2>6, <3>1 DEF OncePerCall
    <3>4. \A i, j \in DOMAIN log' : log'[i].ref = log'[j].ref => i = j
      BY <2>6, <3>1 DEF OncePerCall
    <3>5. \A v \in Workers : pc'[v] = "record" =>
            /\ seen'[v].ref <= tools'
            /\ \A i \in DOMAIN log' : log'[i].ref # seen'[v].ref
      BY <2>3, <2>6, <3>2 DEF OncePerCall
    <3>6. \A v, x \in Workers : pc'[v] = "record" /\ pc'[x] = "record"
                             /\ seen'[x].ref = seen'[v].ref => x = v
      BY <3>2 DEF OncePerCall
    <3>. QED BY <3>3, <3>4, <3>5, <3>6 DEF OncePerCall
  <2>9. EvidenceRetained'
    BY <2>2, <2>3, RetainedMeans
  <2>. QED BY <2>2, <2>4, <2>7, <2>8, <2>9
<1>5. ASSUME NEW w \in Workers, Select(w)
      PROVE  ProducerInv'
  <2>1. /\ order' \in Seq(Contexts) /\ Len(order') <= MaxContexts /\ ByUse(order', log)
        /\ bucket' \in [Contexts -> Seq(ToolEvidence)]
        /\ \A c \in Contexts : /\ Len(bucket'[c]) <= MaxPerContext
                               /\ Recorded(c, bucket'[c], log)
                               /\ bucket'[c] # <<>> <=> c \in Range(order')
                               /\ \A e \in Range(bucket[c]) :
                                    ~(clock - e.at > Ttl) => e \in Range(bucket'[c])
        /\ bound' \in [Workers -> Seq(ToolEvidence)]
    BY <1>5, SelectFacts
  <2>2. /\ pc' \in [Workers -> {"idle", "record", "select", "post"}]
        /\ \A v \in Workers : pc'[v] = "record" => pc[v] = "record"
        /\ asked' \in [Workers -> Declaration]
        /\ \A v \in Workers : asked'[v] = asked[v] \/ asked'[v] = NoDeclaration
        /\ UNCHANGED <<log, clock, seen, tools>>
    BY <1>5, NothingYet DEF Select, ProducerTypeOK
  <2>3. ProducerTypeOK'
    BY <2>1, <2>2 DEF ProducerTypeOK
  <2>4. Timely'
    BY <2>2, <1>a, NothingYet DEF Timely
  <2>5. OncePerCall'
    BY <2>2 DEF OncePerCall
  <2>6. EvidenceRetained'
    BY <2>1, <2>2, <1>a, StillRetained
  <2>. QED BY <2>1, <2>2, <2>3, <2>4, <2>5, <2>6
<1>6. ASSUME NEW w \in Workers, Post(w)
      PROVE  ProducerInv'
  <2>1. /\ asked' = [asked EXCEPT ![w] = NoDeclaration]
        /\ bound' = [bound EXCEPT ![w] = <<>>]
        /\ pc' = [pc EXCEPT ![w] = "idle"]
        /\ UNCHANGED <<order, bucket, log, clock, seen, tools>>
    BY <1>6 DEF Post, registry
  <2>2. <<>> \in Seq(ToolEvidence)
    OBVIOUS
  <2>3. ProducerTypeOK'
    BY <2>1, <2>2, NothingYet DEF ProducerTypeOK
  <2>4. Timely'
    BY <2>1, <1>a, NothingYet DEF Timely
  <2>5. \A v \in Workers : pc'[v] = "record" => pc[v] = "record"
    BY <2>1 DEF ProducerTypeOK
  <2>6. OncePerCall'
    BY <2>1, <2>5 DEF OncePerCall
  <2>. QED BY <2>1, <2>3, <2>4, <2>6, <1>a, <1>q
<1>7. CASE Tick
  <2>1. /\ clock' = clock + 1 /\ clock' \in 0..MaxTime
        /\ UNCHANGED <<order, bucket, log, pc, seen, asked, bound, tools>>
    BY <1>7, <1>0, <1>a DEF Tick, registry
  <2>2. ProducerTypeOK' /\ OncePerCall'
    BY <2>1 DEF ProducerTypeOK, OncePerCall
  <2>3. \A v \in Workers : seen[v].at \in Int /\ asked[v].now \in Int
    BY <1>a DEF ToolEvidence, Declaration
  <2>4. Timely'
    BY <2>1, <2>3, <1>a, <1>b DEF Timely
  <2>5. clock' \in Int /\ clock <= clock'
    BY <2>1, <1>a
  <2>. QED BY <2>1, <2>2, <2>4, <2>5, <1>q
<1>. QED BY <1>1, <1>2, <1>3, <1>4, <1>5, <1>6, <1>7 DEF ProducerNext

\* The invariant holds whatever the number of threads, turns and tool calls.
THEOREM ProducerInvariant == ProducerSpec => []ProducerInv
BY ProducerInitial, ProducerStep, PTL DEF ProducerSpec

\* Evidence leaves the registry only because it is too old, because its context has
\* collected max_per_context newer items, or because max_contexts other contexts were
\* observed since (EvidenceRetained), for all limits and any number of threads.
THEOREM EvidenceIsRetained == ProducerSpec => []EvidenceRetained
BY ProducerInvariant, PTL DEF ProducerInv

\* The registry never outgrows its two limits, and it lists exactly the contexts that
\* have evidence (ProducerTypeOK).
THEOREM RegistryIsBounded == ProducerSpec => []ProducerTypeOK
BY ProducerInvariant, PTL DEF ProducerInv
=============================================================================
