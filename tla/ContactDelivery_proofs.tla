------------------------ MODULE ContactDelivery_proofs ------------------------
(***************************************************************************)
(* Proofs about the row transitions of OperationStore, and about           *)
(* ContactDelivery for any number of threads, keys, requests and crashes.  *)
(* Theorems that need an evidence probe that tells the truth assume        *)
(* ProbeTruthful; the others hold whatever it answers.                     *)
(***************************************************************************)
EXTENDS ContactDelivery, TLAPS
-----------------------------------------------------------------------------
(* Rows of the operation store *)

\* A store method turns a row into a row, so no later read meets a record
\* BridgeOperation would refuse (OperationCorruptionError).
LEMMA MethodsKeepRows ==
    ASSUME NEW o \in Row
    PROVE  /\ Reserved \in Row /\ NoOperation \in Row
           /\ StartAttempt(o) \in Row
           /\ MarkCompleted(o) \in Row
           /\ MarkFailedSafe(o) \in Row
           /\ MarkDeliveryUnknown(o) \in Row
           /\ ScheduleRetry(o) \in Row
           /\ MakeRetryReady(o) \in Row
           /\ MarkExhausted(o) \in Row
<1> o \in [state : OperationState \cup {"absent"}, attempt : Nat]
  BY DEF Row, Operation, NoOperation
<1>1. \A s \in OperationState : [o EXCEPT !.state = s] \in Operation
  BY DEF Operation
<1>2. StartAttempt(o) \in Operation
  BY DEF StartAttempt, Operation, OperationState
<1>3. Reserved \in Row /\ NoOperation \in Row
  BY DEF Row, Reserved, Operation, OperationState
<1>4. QED
  BY <1>1, <1>2, <1>3 DEF Row, OperationState, MarkCompleted, MarkFailedSafe,
         MarkDeliveryUnknown, ScheduleRetry, MakeRetryReady, MarkExhausted

\* The state and attempt each method leaves behind.
LEMMA MethodEffects ==
    ASSUME NEW o \in Row
    PROVE  /\ StartAttempt(o).state = "in_flight" /\ StartAttempt(o).attempt = o.attempt + 1
           /\ MarkCompleted(o).state = "completed" /\ MarkCompleted(o).attempt = o.attempt
           /\ MarkFailedSafe(o).state = "failed_safe" /\ MarkFailedSafe(o).attempt = o.attempt
           /\ MarkDeliveryUnknown(o).state = "delivery_unknown"
           /\ MarkDeliveryUnknown(o).attempt = o.attempt
           /\ ScheduleRetry(o).state = "retry_wait" /\ ScheduleRetry(o).attempt = o.attempt
           /\ MakeRetryReady(o).state = "prepared" /\ MakeRetryReady(o).attempt = o.attempt
           /\ MarkExhausted(o).state = "exhausted" /\ MarkExhausted(o).attempt = o.attempt
<1> o \in [state : OperationState \cup {"absent"}, attempt : Nat]
  BY DEF Row, Operation, NoOperation
<1> QED
  BY DEF Row, Operation, NoOperation, OperationState, StartAttempt,
         MarkCompleted, MarkFailedSafe, MarkDeliveryUnknown, ScheduleRetry,
         MakeRetryReady, MarkExhausted

\* Whenever a builder accepts a row of a class that class can have, the
\* contract's own guard accepts the result: _persist_transition never raises
\* transition_not_allowed, so a refused method is always a lost race.
THEOREM MethodsRespectContract ==
    ASSUME NEW kind \in RetryClass, NEW o \in Operation
    PROVE  /\ CanStartAttempt(o) => IsOperationTransitionAllowed(kind, o, StartAttempt(o))
           /\ CanMarkCompleted(kind, o) => IsOperationTransitionAllowed(kind, o, MarkCompleted(o))
           /\ CanMarkFailedSafe(o) => IsOperationTransitionAllowed(kind, o, MarkFailedSafe(o))
           /\ CanMarkDeliveryUnknown(kind, o) =>
                IsOperationTransitionAllowed(kind, o, MarkDeliveryUnknown(o))
           /\ CanScheduleRetry(o) => IsOperationTransitionAllowed(kind, o, ScheduleRetry(o))
           /\ CanMakeRetryReady(o) => IsOperationTransitionAllowed(kind, o, MakeRetryReady(o))
           /\ CanMarkExhausted(o) => IsOperationTransitionAllowed(kind, o, MarkExhausted(o))
<1> o \in Row
  BY DEF Row
<1> USE MethodEffects DEF IsOperationTransitionAllowed, AllowedTransitions, Operation
<1>1. CanStartAttempt(o) => IsOperationTransitionAllowed(kind, o, StartAttempt(o))
  BY DEF CanStartAttempt
<1>2. CanMarkCompleted(kind, o) => IsOperationTransitionAllowed(kind, o, MarkCompleted(o))
  BY DEF CanMarkCompleted, LateCognitionCompletionStates
<1>3. CanMarkFailedSafe(o) => IsOperationTransitionAllowed(kind, o, MarkFailedSafe(o))
  BY DEF CanMarkFailedSafe
<1>4. CanMarkDeliveryUnknown(kind, o) =>
        IsOperationTransitionAllowed(kind, o, MarkDeliveryUnknown(o))
  BY DEF CanMarkDeliveryUnknown
<1>5. CanScheduleRetry(o) => IsOperationTransitionAllowed(kind, o, ScheduleRetry(o))
  BY DEF CanScheduleRetry
<1>6. CanMakeRetryReady(o) => IsOperationTransitionAllowed(kind, o, MakeRetryReady(o))
  BY DEF CanMakeRetryReady
<1>7. CanMarkExhausted(o) => IsOperationTransitionAllowed(kind, o, MarkExhausted(o))
  BY DEF CanMarkExhausted
<1>8. QED
  BY <1>1, <1>2, <1>3, <1>4, <1>5, <1>6, <1>7
-----------------------------------------------------------------------------
(* Types *)

\* A step that writes at most its worker's row, and moves or answers that worker,
\* keeps the types.
LEMMA RowStepKeepsTypes ==
    ASSUME TypeOK, NEW w \in Workers,
           op' = op \/ \E row \in Row : op' = [op EXCEPT ![K(w)] = row],
           \/ \E l \in Location : Goto(w, l)
           \/ \E r \in Reply : Answer(w, r),
           UNCHANGED <<request, receipt, reconciliation, process, provider>>
    PROVE  TypeOK'
<1>1. K(w) \in Keys
  BY DEF TypeOK, Job, K
<1>2. op' \in [Keys -> Row]
  BY <1>1 DEF TypeOK
<1>3. /\ pc' \in [Workers -> Location] /\ job' \in [Workers -> Job]
      /\ evidence' \in [Workers -> Evidence] /\ reply' \in [Workers -> Reply]
  <2>1. "idle" \in Location /\ "none" \in Evidence
    BY DEF Location, Evidence
  <2>2. CASE \E l \in Location : Goto(w, l)
    BY <2>2 DEF TypeOK, Goto
  <2>3. CASE \E r \in Reply : Answer(w, r)
    BY <2>1, <2>3 DEF TypeOK, Answer
  <2>. QED
    BY <2>2, <2>3
<1>4. UNCHANGED <<request, receipt, reconciliation, route, enabled, service, interrupted,
                  abandoned, crashes, world, sent, sends>>
  BY DEF process, provider
<1>. QED
  BY <1>2, <1>3, <1>4 DEF TypeOK

\* Every variable keeps its type through every step of the service.
THEOREM TypeCorrect == Spec => []TypeOK
<1> USE DEF TypeOK, database, process, provider, worker, K, Answer, Goto, Job,
        Status, Evidence, Location, Reply, Workers
<1>1. Init => TypeOK
  <2>1. NoJob \in Job
    <3>1. PICK k \in Keys, b \in Bodies, c \in Targets : TRUE
      BY ContactAssumption
    <3>2. [key |-> k, request |-> [body |-> b, target |-> c]] \in Job
      BY DEF Request
    <3>3. QED
      BY <3>2 DEF NoJob
  <2>2. QED
    BY <2>1, ContactAssumption DEF Init, NoOperation, LegacyRow, Row, Operation, OperationState
<1>2. TypeOK /\ [Next]_vars => TypeOK'
  <2> SUFFICES ASSUME TypeOK, [Next]_vars PROVE TypeOK'
    OBVIOUS
  <2>0. \A k \in Keys :
          /\ op[k] \in Row /\ Reserved \in Row
          /\ StartAttempt(op[k]) \in Row /\ MarkCompleted(op[k]) \in Row
          /\ MarkFailedSafe(op[k]) \in Row /\ MarkDeliveryUnknown(op[k]) \in Row
    BY MethodsKeepRows
  <2>1. ASSUME NEW t \in Threads, Receive(t) PROVE TypeOK'
    BY <2>1 DEF Receive, Request
  <2>2. ASSUME NEW t \in Threads, Reject(t) PROVE TypeOK'
    BY <2>2 DEF Reject
  <2>3. ASSUME NEW t \in Threads, Dedupe(t) PROVE TypeOK'
    BY <2>3 DEF Dedupe
  <2>4. ASSUME NEW t \in Threads, ReserveRequest(t) PROVE TypeOK'
    BY <2>4 DEF ReserveRequest
  <2>5. ASSUME NEW t \in Threads, SaveDryRun(t) PROVE TypeOK'
    BY <2>5 DEF SaveDryRun
  <2>6. ASSUME NEW t \in Threads, ReserveOperation(t) PROVE TypeOK'
    <3>1. \E row \in Row : op' = [op EXCEPT ![K(t)] = row]
      BY <2>6, <2>0 DEF ReserveOperation
    <3>2. \/ \E l \in Location : Goto(t, l)
          \/ \E r \in Reply : Answer(t, r)
      BY <2>6 DEF ReserveOperation
    <3>. QED
      BY <2>6, <3>1, <3>2, RowStepKeepsTypes DEF ReserveOperation
  <2>7. ASSUME NEW t \in Threads, BeginAttempt(t) PROVE TypeOK'
    <3>1. /\ t \in Workers /\ K(t) \in Keys
          /\ {"idle", "send"} \subseteq Location /\ "none" \in Evidence /\ "error" \in Reply
      OBVIOUS
    <3>2. UNCHANGED <<request, receipt, reconciliation, route, enabled, service, interrupted,
                      abandoned, crashes, world, sent, sends, job>>
      BY <2>7 DEF BeginAttempt
    <3>3. op' = op \/ op' = [op EXCEPT ![K(t)] = StartAttempt(op[K(t)])]
      BY <2>7 DEF BeginAttempt
    <3>4. op' \in [Keys -> Row]
      BY <3>1, <3>3, <2>0
    <3>5. \E l \in {"idle", "send"} : pc' = [pc EXCEPT ![t] = l]
      BY <2>7 DEF BeginAttempt
    <3>6. /\ evidence' = evidence \/ evidence' = [evidence EXCEPT ![t] = "none"]
          /\ reply' = reply \/ reply' = [reply EXCEPT ![t] = "error"]
      BY <2>7 DEF BeginAttempt
    <3>7. /\ pc' \in [Workers -> Location]
          /\ evidence' \in [Workers -> Evidence] /\ reply' \in [Workers -> Reply]
      BY <3>1, <3>5, <3>6
    <3>. QED
      BY <3>2, <3>4, <3>7
  <2>8. ASSUME NEW t \in Threads, SpawnFails(t) PROVE TypeOK'
    BY <2>8 DEF SpawnFails
  <2>9. ASSUME NEW t \in Threads, Spawn(t) PROVE TypeOK'
    BY <2>9 DEF Spawn
  <2>10. ASSUME NEW t \in Threads, SendSucceeds(t) PROVE TypeOK'
    BY <2>10 DEF SendSucceeds
  <2>11. ASSUME NEW t \in Threads, SendOutcomeUnknown(t) PROVE TypeOK'
    BY <2>11 DEF SendOutcomeUnknown
  <2>12. ASSUME NEW t \in Threads, RecordFailedSafe(t) PROVE TypeOK'
    <3>1. op' = op \/ \E row \in Row : op' = [op EXCEPT ![K(t)] = row]
      BY <2>12, <2>0 DEF RecordFailedSafe
    <3>2. \/ \E l \in Location : Goto(t, l)
          \/ \E r \in Reply : Answer(t, r)
      BY <2>12 DEF RecordFailedSafe
    <3>. QED
      BY <2>12, <3>1, <3>2, RowStepKeepsTypes DEF RecordFailedSafe
  <2>13. ASSUME NEW t \in Threads, RecordUnknown(t) PROVE TypeOK'
    <3>1. op' = op \/ \E row \in Row : op' = [op EXCEPT ![K(t)] = row]
      BY <2>13, <2>0 DEF RecordUnknown
    <3>2. \/ \E l \in Location : Goto(t, l)
          \/ \E r \in Reply : Answer(t, r)
      BY <2>13 DEF RecordUnknown
    <3>. QED
      BY <2>13, <3>1, <3>2, RowStepKeepsTypes DEF RecordUnknown
  <2>14. ASSUME NEW t \in Threads, SaveReceipt(t) PROVE TypeOK'
    BY <2>14 DEF SaveReceipt
  <2>15. ASSUME NEW t \in Threads, Complete(t) PROVE TypeOK'
    BY <2>15, <2>0 DEF Complete
  <2>16. ASSUME NEW t \in Threads, AnswerCompleted(t) PROVE TypeOK'
    BY <2>16 DEF AnswerCompleted
  <2>17. ASSUME NEW t \in Threads, SaveReconciledReceipt(t) PROVE TypeOK'
    BY <2>17 DEF SaveReconciledReceipt
  <2>18. ASSUME NEW w \in Workers, LookUpEvidence(w) PROVE TypeOK'
    BY <2>18 DEF LookUpEvidence
  <2>19. ASSUME NEW w \in Workers, Probe(w) PROVE TypeOK'
    BY <2>19 DEF Probe
  <2>20. ASSUME NEW w \in Workers, SaveEvidence(w) PROVE TypeOK'
    BY <2>20 DEF SaveEvidence
  <2>21. ASSUME NEW w \in Workers, ResolveDelivered(w) PROVE TypeOK'
    BY <2>21, <2>0 DEF ResolveDelivered
  <2>22. ASSUME NEW w \in Workers, ResolveNotDelivered(w) PROVE TypeOK'
    <3>1. op' = op \/ \E row \in Row : op' = [op EXCEPT ![K(w)] = row]
      BY <2>22, <2>0 DEF ResolveNotDelivered
    <3>2. \/ \E l \in Location : Goto(w, l)
          \/ \E r \in Reply : Answer(w, r)
      BY <2>22 DEF ResolveNotDelivered
    <3>. QED
      BY <2>22, <3>1, <3>2, RowStepKeepsTypes DEF ResolveNotDelivered
  <2>23. CASE Crash
    BY <2>23, ContactAssumption DEF Crash
  <2>24. CASE Restart
    BY <2>24, <2>0 DEF Restart
  <2>25. CASE RecoverNext
    BY <2>25 DEF RecoverNext
  <2>26. CASE OpenSocket
    BY <2>26 DEF OpenSocket
  <2>27. CASE RouteChanges
    BY <2>27 DEF RouteChanges
  <2>28. CASE ProviderSettles
    BY <2>28 DEF ProviderSettles
  <2>29. CASE UNCHANGED vars
    BY <2>29 DEF vars
  <2>30. ASSUME NEW w \in Workers, CallFails(w) PROVE TypeOK'
    BY <2>30 DEF CallFails
  <2>. QED
    BY <2>1, <2>2, <2>3, <2>4, <2>5, <2>6, <2>7, <2>8, <2>9, <2>10, <2>11, <2>12, <2>13, <2>14,
       <2>15, <2>16, <2>17, <2>18, <2>19, <2>20, <2>21, <2>22, <2>23, <2>24, <2>25, <2>26, <2>27,
       <2>28, <2>29, <2>30
       DEF Next, ThreadStep, ReconcileStep
<1>3. QED
  BY <1>1, <1>2, PTL DEF Spec

-----------------------------------------------------------------------------
(* At most one send.  AtMostOneSend alone is not inductive: it needs to know *)
(* that a send is only reached by the one worker that took a row never sent  *)
(* before to in_flight, and that nobody else can take that row away from it. *)

\* A key nothing was attempted for.
Untried(o) == o.state = "absent" \/ (o.state = "prepared" /\ o.attempt = 0)

ServingOnlyWhenUp ==
    /\ service # "up" => \A t \in Threads : pc[t] = "idle"
    /\ pc[Recovery] \in {"idle", "reconcile", "probe", "save_evidence", "resolve"}
OwnersHoldRow == \A t \in Threads : pc[t] \in Owning => op[K(t)].state = "in_flight"
OneOwner ==
    \A t, u \in Threads : K(t) = K(u) /\ pc[t] \in Owning /\ pc[u] \in Owning => t = u
ReconcilersFollowDoubt ==
    \A w \in Workers : pc[w] \in {"probe", "save_evidence", "resolve"} =>
        op[K(w)].state \in {"delivery_unknown", "completed", "failed_safe"}
UntriedUnsent == \A k \in Keys : Untried(op[k]) => sends[k] = 0
UnsentBeforeSpawn == \A t \in Threads : pc[t] = "send" => sends[K(t)] = 0

SendInv ==
    /\ ServingOnlyWhenUp /\ OwnersHoldRow /\ OneOwner /\ ReconcilersFollowDoubt
    /\ UntriedUnsent /\ UnsentBeforeSpawn /\ AtMostOneSend

\* The strengthened invariant is inductive.
THEOREM SendInvariant == Spec => []SendInv
<1> USE DEF database, process, provider, worker, Answer, Goto, Owning,
        SendInv, ServingOnlyWhenUp, OwnersHoldRow, OneOwner, ReconcilersFollowDoubt,
        UntriedUnsent, UnsentBeforeSpawn, AtMostOneSend
<1>1. Init => SendInv
  BY DEF Init, Workers
<1>2. TypeOK /\ SendInv /\ [Next]_vars => SendInv'
  <2> SUFFICES ASSUME TypeOK, SendInv, [Next]_vars PROVE SendInv'
    OBVIOUS
  <2>a. /\ pc \in [Workers -> Location] /\ job \in [Workers -> Job]
        /\ op \in [Keys -> Row] /\ sends \in [Keys -> Nat]
        /\ \A w \in Workers : K(w) \in Keys
        /\ Recovery \notin Threads /\ Workers = Threads \cup {Recovery}
    BY ContactAssumption DEF TypeOK, Job, K, Workers
  <2>b. \A k \in Keys :
          /\ StartAttempt(op[k]).state = "in_flight"
          /\ MarkCompleted(op[k]).state = "completed"
          /\ MarkFailedSafe(op[k]).state = "failed_safe"
          /\ MarkDeliveryUnknown(op[k]).state = "delivery_unknown"
    BY <2>a, MethodEffects
  <2>1. ASSUME NEW t \in Threads, Receive(t) PROVE SendInv'
    BY <2>1, <2>a, <2>b DEF Receive, K, Untried
  <2>2. ASSUME NEW t \in Threads, Reject(t) PROVE SendInv'
    BY <2>2, <2>a, <2>b DEF Reject, K, Untried
  <2>3. ASSUME NEW t \in Threads, Dedupe(t) PROVE SendInv'
    BY <2>3, <2>a, <2>b DEF Dedupe, K, Untried
  <2>4. ASSUME NEW t \in Threads, ReserveRequest(t) PROVE SendInv'
    BY <2>4, <2>a, <2>b DEF ReserveRequest, K, Untried
  <2>5. ASSUME NEW t \in Threads, SaveDryRun(t) PROVE SendInv'
    BY <2>5, <2>a, <2>b DEF SaveDryRun, K, Untried
  <2>6. ASSUME NEW t \in Threads, ReserveOperation(t) PROVE SendInv'
    <3>1. /\ UNCHANGED <<job, sends, service>> /\ t \in Workers /\ K(t) \in Keys
          /\ pc[t] = "reserve_op"
      BY <2>6, <2>a DEF ReserveOperation
    <3>2. \A k \in Keys : op'[k] = op[k] \/ op[k] = NoOperation
      BY <2>6, <3>1, <2>a DEF ReserveOperation
    <3>3. PICK l \in {"idle", "begin", "completed", "reconcile"} : pc' = [pc EXCEPT ![t] = l]
      BY <2>6 DEF ReserveOperation
    <3>4. \A k \in Keys : Untried(op'[k]) => Untried(op[k])
      BY <3>2 DEF Untried, NoOperation
    <3>5. \A k \in Keys : op[k].state # "absent" => op'[k] = op[k]
      BY <3>2 DEF NoOperation
    <3>6. \A w \in Workers : w # t => pc'[w] = pc[w]
      BY <3>3, <2>a
    <3>7. pc'[t] \in {"idle", "begin", "completed", "reconcile"}
      BY <3>1, <3>3, <2>a
    <3>. QED
      BY <3>1, <3>4, <3>5, <3>6, <3>7, <2>a DEF K
  <2>7. ASSUME NEW t \in Threads, BeginAttempt(t) PROVE SendInv'
    <3>1. /\ UNCHANGED <<job, sends, service>> /\ t \in Workers /\ K(t) \in Keys
          /\ pc[t] = "begin"
      BY <2>7, <2>a DEF BeginAttempt
    <3>2. CASE CanStartAttempt(op[K(t)]) /\ op[K(t)].attempt = 0
      <4>1. op' = [op EXCEPT ![K(t)] = StartAttempt(op[K(t)])] /\ pc' = [pc EXCEPT ![t] = "send"]
        BY <2>7, <3>2 DEF BeginAttempt
      <4>2. op[K(t)].state = "prepared" /\ sends[K(t)] = 0
        BY <3>1, <3>2 DEF CanStartAttempt, Untried
      <4>3. /\ \A k \in Keys : k # K(t) => op'[k] = op[k]
            /\ op'[K(t)].state = "in_flight"
        BY <3>1, <4>1, <2>a, <2>b
      <4>4. pc'[t] = "send" /\ \A w \in Workers : w # t => pc'[w] = pc[w]
        BY <3>1, <4>1, <2>a
      <4>. QED
        BY <3>1, <4>2, <4>3, <4>4, <2>a DEF K, Untried
    <3>3. CASE ~ (CanStartAttempt(op[K(t)]) /\ op[K(t)].attempt = 0)
      <4>1. op' = op /\ pc' = [pc EXCEPT ![t] = "idle"]
        BY <2>7, <3>3 DEF BeginAttempt
      <4>2. pc'[t] = "idle" /\ \A w \in Workers : w # t => pc'[w] = pc[w]
        BY <3>1, <4>1, <2>a
      <4>. QED
        BY <3>1, <4>1, <4>2, <2>a DEF K
    <3>. QED
      BY <3>2, <3>3
  <2>8. ASSUME NEW t \in Threads, SpawnFails(t) PROVE SendInv'
    BY <2>8, <2>a, <2>b DEF SpawnFails, K, Untried
  <2>9. ASSUME NEW t \in Threads, Spawn(t) PROVE SendInv'
    BY <2>9, <2>a, <2>b DEF Spawn, K, Untried
  <2>10. ASSUME NEW t \in Threads, SendSucceeds(t) PROVE SendInv'
    BY <2>10, <2>a, <2>b DEF SendSucceeds, K, Untried
  <2>11. ASSUME NEW t \in Threads, SendOutcomeUnknown(t) PROVE SendInv'
    BY <2>11, <2>a, <2>b DEF SendOutcomeUnknown, K, Untried
  <2>12. ASSUME NEW t \in Threads, RecordFailedSafe(t) PROVE SendInv'
    <3>1. /\ UNCHANGED <<job, sends, service>> /\ t \in Workers /\ K(t) \in Keys
          /\ pc[t] = "mark_failed_safe" /\ pc' = [pc EXCEPT ![t] = pc'[t]] /\ pc'[t] \in {"idle"}
      BY <2>12, <2>a DEF RecordFailedSafe
    <3>2. CASE CanMarkFailedSafe(op[K(t)])
      <4>1. op' = [op EXCEPT ![K(t)] = MarkFailedSafe(op[K(t)])]
        BY <2>12, <3>2 DEF RecordFailedSafe
      <4>2. op[K(t)].state \in {"in_flight", "delivery_unknown"}
        BY <3>2 DEF CanMarkFailedSafe
      <4>. QED
        BY <3>1, <4>1, <4>2, <2>a, <2>b DEF K, Untried
    <3>3. CASE ~ CanMarkFailedSafe(op[K(t)])
      <4>1. op' = op /\ pc'[t] = "idle"
        BY <2>12, <3>3, <2>a DEF RecordFailedSafe
      <4>. QED
        BY <3>1, <4>1, <2>a DEF K
    <3>. QED
      BY <3>2, <3>3
  <2>13. ASSUME NEW t \in Threads, RecordUnknown(t) PROVE SendInv'
    <3>1. /\ UNCHANGED <<job, sends, service>> /\ t \in Workers /\ K(t) \in Keys
          /\ pc[t] = "mark_unknown" /\ pc' = [pc EXCEPT ![t] = pc'[t]] /\ pc'[t] \in {"idle", "reconcile"}
      BY <2>13, <2>a DEF RecordUnknown
    <3>2. CASE CanMarkDeliveryUnknown("contact", op[K(t)])
      <4>1. op' = [op EXCEPT ![K(t)] = MarkDeliveryUnknown(op[K(t)])]
        BY <2>13, <3>2 DEF RecordUnknown
      <4>2. op[K(t)].state = "in_flight"
        BY <3>2 DEF CanMarkDeliveryUnknown
      <4>. QED
        BY <3>1, <4>1, <4>2, <2>a, <2>b DEF K, Untried
    <3>3. CASE ~ CanMarkDeliveryUnknown("contact", op[K(t)])
      <4>1. op' = op /\ pc'[t] = "idle"
        BY <2>13, <3>3, <2>a DEF RecordUnknown
      <4>. QED
        BY <3>1, <4>1, <2>a DEF K
    <3>. QED
      BY <3>2, <3>3
  <2>14. ASSUME NEW t \in Threads, SaveReceipt(t) PROVE SendInv'
    BY <2>14, <2>a, <2>b DEF SaveReceipt, K, Untried
  <2>15. ASSUME NEW t \in Threads, Complete(t) PROVE SendInv'
    BY <2>15, <2>a, <2>b DEF Complete, CanMarkCompleted, K, Untried
  <2>16. ASSUME NEW t \in Threads, AnswerCompleted(t) PROVE SendInv'
    BY <2>16, <2>a, <2>b DEF AnswerCompleted, K, Untried
  <2>17. ASSUME NEW t \in Threads, SaveReconciledReceipt(t) PROVE SendInv'
    BY <2>17, <2>a, <2>b DEF SaveReconciledReceipt, K, Untried
  <2>18. ASSUME NEW w \in Workers, LookUpEvidence(w) PROVE SendInv'
    BY <2>18, <2>a, <2>b DEF LookUpEvidence, K, Untried
  <2>19. ASSUME NEW w \in Workers, Probe(w) PROVE SendInv'
    BY <2>19, <2>a, <2>b DEF Probe, K, Untried
  <2>20. ASSUME NEW w \in Workers, SaveEvidence(w) PROVE SendInv'
    BY <2>20, <2>a, <2>b DEF SaveEvidence, K, Untried
  <2>21. ASSUME NEW w \in Workers, ResolveDelivered(w) PROVE SendInv'
    <3>1. CASE CanMarkCompleted("contact", op[K(w)])
      <4>1. /\ op[K(w)].state \in {"delivery_unknown", "completed", "failed_safe"}
            /\ op[K(w)].state \in {"in_flight", "delivery_unknown"}
        BY <2>21, <3>1 DEF ResolveDelivered, CanMarkCompleted
      <4>2. op' = [op EXCEPT ![K(w)] = MarkCompleted(op[K(w)])] /\ UNCHANGED <<job, sends, service>>
        BY <2>21, <3>1 DEF ResolveDelivered
      <4>3. pc' = [pc EXCEPT ![w] = IF w = Recovery THEN "idle" ELSE "save_reconciled"]
        BY <2>21, <3>1 DEF ResolveDelivered
      <4>4. pc[w] = "resolve" /\ K(w) \in Keys
        BY <2>21, <2>a DEF ResolveDelivered
      <4>5. QED
        BY <4>1, <4>2, <4>3, <4>4, <2>a, <2>b DEF K, Untried
    <3>2. CASE ~ CanMarkCompleted("contact", op[K(w)])
      BY <2>21, <3>2, <2>a DEF ResolveDelivered, K, Untried
    <3>3. QED
      BY <3>1, <3>2
  <2>22. ASSUME NEW w \in Workers, ResolveNotDelivered(w) PROVE SendInv'
    <3>1. /\ UNCHANGED <<job, sends, service>> /\ w \in Workers /\ K(w) \in Keys
          /\ pc[w] = "resolve" /\ pc' = [pc EXCEPT ![w] = pc'[w]] /\ pc'[w] \in {"idle"}
      BY <2>22, <2>a DEF ResolveNotDelivered
    <3>2. CASE CanMarkFailedSafe(op[K(w)])
      <4>1. op' = [op EXCEPT ![K(w)] = MarkFailedSafe(op[K(w)])]
        BY <2>22, <3>2 DEF ResolveNotDelivered
      <4>2. op[K(w)].state = "delivery_unknown"
        BY <3>1, <3>2 DEF CanMarkFailedSafe
      <4>. QED
        BY <3>1, <4>1, <4>2, <2>a, <2>b DEF K, Untried
    <3>3. CASE ~ CanMarkFailedSafe(op[K(w)])
      <4>1. op' = op /\ pc'[w] = "idle"
        BY <2>22, <3>3, <2>a DEF ResolveNotDelivered
      <4>. QED
        BY <3>1, <4>1, <2>a DEF K
    <3>. QED
      BY <3>2, <3>3
  <2>23. CASE Crash
    BY <2>23, <2>a, <2>b DEF Crash, K, Untried
  <2>24. CASE Restart
    BY <2>24, <2>a, <2>b DEF Restart, K, Untried
  <2>25. CASE RecoverNext
    BY <2>25, <2>a, <2>b DEF RecoverNext, K, Untried
  <2>26. CASE OpenSocket
    BY <2>26, <2>a, <2>b DEF OpenSocket, K, Untried
  <2>27. CASE RouteChanges
    BY <2>27, <2>a, <2>b DEF RouteChanges, K, Untried
  <2>28. CASE ProviderSettles
    BY <2>28, <2>a, <2>b DEF ProviderSettles, K, Untried
  <2>29. CASE UNCHANGED vars
    BY <2>29 DEF vars, K, Untried
  <2>30. ASSUME NEW w \in Workers, CallFails(w) PROVE SendInv'
    BY <2>30, <2>a, <2>b DEF CallFails, K, Untried
  <2>. QED
    BY <2>1, <2>2, <2>3, <2>4, <2>5, <2>6, <2>7, <2>8, <2>9, <2>10, <2>11, <2>12, <2>13, <2>14,
       <2>15, <2>16, <2>17, <2>18, <2>19, <2>20, <2>21, <2>22, <2>23, <2>24, <2>25, <2>26, <2>27,
       <2>28, <2>29, <2>30
       DEF Next, ThreadStep, ReconcileStep
<1>3. QED
  BY <1>1, <1>2, TypeCorrect, PTL DEF Spec

\* ContactService never starts the hermes child twice for one idempotency key.
THEOREM SendsAtMostOnce == Spec => []AtMostOneSend
<1>1. SendInv => AtMostOneSend
  BY DEF SendInv
<1>2. QED
  BY <1>1, SendInvariant, PTL

-----------------------------------------------------------------------------
(* What the steps that write a row do to it, and to the worker that takes    *)
(* them, once the branches the send invariant excludes are gone.             *)

\* A row on which no attempt will ever be started.
Unsendable(o) ==
    \/ o.state \in {"failed_safe", "retry_wait", "exhausted"}
    \/ o.state = "prepared" /\ o.attempt > 0

\* Only worker w moves.
OnlyMoves(w) ==
    /\ job' = job
    /\ \A v \in Workers : v # w =>
         pc'[v] = pc[v] /\ evidence'[v] = evidence[v] /\ reply'[v] = reply[v]

\* The row of key k, and no other, is now in the given state.
OnlyWrites(k, state) ==
    /\ op'[k].state = state
    /\ \A j \in Keys : j # k => op'[j] = op[j]

\* A worker that answers or goes on leaves the others where they are.
LEMMA WorkerMoves ==
    ASSUME TypeOK, NEW w \in Workers
    PROVE  /\ \A next : Goto(w, next) =>
                OnlyMoves(w) /\ pc'[w] = next /\ evidence'[w] = evidence[w] /\ reply'[w] = reply[w]
           /\ \A r : Answer(w, r) =>
                OnlyMoves(w) /\ pc'[w] = "idle" /\ evidence'[w] = "none" /\ reply'[w] = r
BY DEF TypeOK, Goto, Answer, OnlyMoves

\* A worker that an exception ends leaves the databases as they are.
LEMMA CallFailsEffect ==
    ASSUME TypeOK, NEW w \in Workers, CallFails(w)
    PROVE  /\ pc[w] # "idle" /\ OnlyMoves(w)
           /\ pc'[w] = "idle" /\ evidence'[w] = "none" /\ reply'[w] = "error"
           /\ abandoned' = IF pc[w] \in Owning THEN abandoned \cup {K(w)} ELSE abandoned
           /\ UNCHANGED <<database, provider, route, enabled, service>>
BY WorkerMoves DEF CallFails

\* Writing one row through a store method leaves the other rows alone.
LEMMA RowWrite ==
    ASSUME TypeOK, NEW k \in Keys, NEW row \in Row, op' = [op EXCEPT ![k] = row]
    PROVE  OnlyWrites(k, row.state) /\ op'[k] = row
BY DEF TypeOK, OnlyWrites

\* A reservation inserts a row or reads the one that is there, and says what it read.
LEMMA ReserveOperationEffect ==
    ASSUME TypeOK, NEW t \in Threads, ReserveOperation(t)
    PROVE  /\ pc[t] = "reserve_op" /\ OnlyMoves(t)
           /\ UNCHANGED <<request, receipt, reconciliation, process, provider>>
           /\ \A k \in Keys : op'[k] = op[k] \/ (op[k] = NoOperation /\ op'[k] = Reserved)
           /\ evidence'[t] \in {"none", evidence[t]}
           /\ \/ pc'[t] \in {"begin", "completed", "reconcile"} /\ reply'[t] = reply[t]
              \/ pc'[t] = "idle" /\ reply'[t] \in {"in_flight", "exhausted"}
              \/ /\ pc'[t] = "idle" /\ reply'[t] = "fresh_decision"
                 /\ op' = op /\ Unsendable(op[K(t)])
<1> DEFINE row == IF op[K(t)] = NoOperation THEN Reserved ELSE op[K(t)]
<1>1. t \in Workers /\ K(t) \in Keys /\ op \in [Keys -> Row]
  BY DEF TypeOK, Job, K, Workers
<1>2. /\ pc[t] = "reserve_op" /\ op' = [op EXCEPT ![K(t)] = row]
      /\ UNCHANGED <<request, receipt, reconciliation, process, provider>>
      /\ \/ \E l \in {"begin", "completed", "reconcile"} : Goto(t, l)
         \/ \E r \in {"in_flight", "exhausted"} : Answer(t, r)
         \/ /\ \/ row.state \in {"failed_safe", "retry_wait"}
               \/ row.state = "prepared" /\ row.attempt > 0
            /\ Answer(t, "fresh_decision")
  BY DEF ReserveOperation
<1>3. \A k \in Keys : op'[k] = op[k] \/ (op[k] = NoOperation /\ op'[k] = Reserved)
  BY <1>1, <1>2
<1>4. CASE \E l \in {"begin", "completed", "reconcile"} : Goto(t, l)
  BY <1>1, <1>2, <1>3, <1>4, WorkerMoves
<1>5. CASE \E r \in {"in_flight", "exhausted"} : Answer(t, r)
  BY <1>1, <1>2, <1>3, <1>5, WorkerMoves
<1>6. CASE /\ \/ row.state \in {"failed_safe", "retry_wait"}
              \/ row.state = "prepared" /\ row.attempt > 0
           /\ Answer(t, "fresh_decision")
  <2>1. row = op[K(t)]
    BY <1>6 DEF Reserved
  <2>2. op' = op
    BY <1>1, <1>2, <2>1
  <2>3. Unsendable(op[K(t)])
    BY <1>6, <2>1 DEF Unsendable
  <2>. QED
    BY <1>1, <1>2, <1>3, <1>6, <2>2, <2>3, WorkerMoves
<1>. QED
  BY <1>2, <1>4, <1>5, <1>6

\* An attempt is only begun on a row nothing was attempted for.
LEMMA BeginAttemptEffect ==
    ASSUME TypeOK, NEW t \in Threads, BeginAttempt(t)
    PROVE  /\ pc[t] = "begin" /\ OnlyMoves(t)
           /\ UNCHANGED <<request, receipt, reconciliation, process, provider>>
           /\ \/ /\ op[K(t)].state = "prepared" /\ op[K(t)].attempt = 0
                 /\ OnlyWrites(K(t), "in_flight")
                 /\ pc'[t] = "send" /\ evidence'[t] = evidence[t] /\ reply'[t] = reply[t]
              \/ op' = op /\ pc'[t] = "idle" /\ evidence'[t] = "none" /\ reply'[t] = "error"
<1>1. t \in Workers /\ K(t) \in Keys /\ StartAttempt(op[K(t)]) \in Row
      /\ StartAttempt(op[K(t)]).state = "in_flight"
  BY MethodsKeepRows, MethodEffects DEF TypeOK, Job, K, Workers
<1>2. /\ pc[t] = "begin"
      /\ UNCHANGED <<request, receipt, reconciliation, process, provider>>
      /\ \/ /\ CanStartAttempt(op[K(t)]) /\ op[K(t)].attempt = 0
            /\ op' = [op EXCEPT ![K(t)] = StartAttempt(op[K(t)])] /\ Goto(t, "send")
         \/ op' = op /\ Answer(t, "error")
  BY DEF BeginAttempt
<1>3. CASE /\ CanStartAttempt(op[K(t)]) /\ op[K(t)].attempt = 0
           /\ op' = [op EXCEPT ![K(t)] = StartAttempt(op[K(t)])] /\ Goto(t, "send")
  <2>1. OnlyWrites(K(t), "in_flight")
    BY <1>1, <1>3, RowWrite
  <2>. QED
    BY <1>1, <1>2, <1>3, <2>1, WorkerMoves DEF CanStartAttempt
<1>4. CASE op' = op /\ Answer(t, "error")
  BY <1>1, <1>2, <1>4, WorkerMoves
<1>. QED
  BY <1>2, <1>3, <1>4

\* A worker that holds the row of its key can always do what it came for.
LEMMA OwnerEffects ==
    ASSUME TypeOK, SendInv, NEW t \in Threads
    PROVE  /\ RecordFailedSafe(t) =>
                /\ pc[t] = "mark_failed_safe" /\ OnlyMoves(t) /\ op[K(t)].state = "in_flight"
                /\ OnlyWrites(K(t), "failed_safe")
                /\ UNCHANGED <<request, receipt, reconciliation, process, provider>>
                /\ pc'[t] = "idle" /\ evidence'[t] = "none"
                /\ reply'[t] \in {"fresh_decision", "error"}
           /\ RecordUnknown(t) =>
                /\ pc[t] = "mark_unknown" /\ OnlyMoves(t) /\ op[K(t)].state = "in_flight"
                /\ OnlyWrites(K(t), "delivery_unknown")
                /\ UNCHANGED <<request, receipt, reconciliation, process, provider>>
                /\ pc'[t] = "reconcile" /\ evidence'[t] = evidence[t] /\ reply'[t] = reply[t]
           /\ Complete(t) =>
                /\ pc[t] = "complete" /\ OnlyMoves(t) /\ op[K(t)].state = "in_flight"
                /\ OnlyWrites(K(t), "completed")
                /\ UNCHANGED <<request, receipt, reconciliation, process, provider>>
                /\ pc'[t] = "idle" /\ evidence'[t] = "none" /\ reply'[t] \in {"delivered", "error"}
<1>1. /\ t \in Workers /\ K(t) \in Keys
      /\ MarkFailedSafe(op[K(t)]) \in Row /\ MarkFailedSafe(op[K(t)]).state = "failed_safe"
      /\ MarkDeliveryUnknown(op[K(t)]) \in Row
      /\ MarkDeliveryUnknown(op[K(t)]).state = "delivery_unknown"
      /\ MarkCompleted(op[K(t)]) \in Row /\ MarkCompleted(op[K(t)]).state = "completed"
  BY MethodsKeepRows, MethodEffects DEF TypeOK, Job, K, Workers
<1>2. pc[t] \in Owning => op[K(t)].state = "in_flight"
  BY DEF SendInv, OwnersHoldRow
<1>3. ASSUME RecordFailedSafe(t)
      PROVE  /\ pc[t] = "mark_failed_safe" /\ OnlyMoves(t) /\ op[K(t)].state = "in_flight"
             /\ OnlyWrites(K(t), "failed_safe")
             /\ UNCHANGED <<request, receipt, reconciliation, process, provider>>
             /\ pc'[t] = "idle" /\ evidence'[t] = "none"
             /\ reply'[t] \in {"fresh_decision", "error"}
  <2>1. pc[t] = "mark_failed_safe" /\ op[K(t)].state = "in_flight"
    BY <1>2, <1>3 DEF RecordFailedSafe, Owning
  <2>2. /\ op' = [op EXCEPT ![K(t)] = MarkFailedSafe(op[K(t)])]
        /\ \E a \in {"fresh_decision", "error"} : Answer(t, a)
        /\ UNCHANGED <<request, receipt, reconciliation, process, provider>>
    BY <1>3, <2>1 DEF RecordFailedSafe, CanMarkFailedSafe
  <2>. QED
    BY <1>1, <2>1, <2>2, RowWrite, WorkerMoves
<1>4. ASSUME RecordUnknown(t)
      PROVE  /\ pc[t] = "mark_unknown" /\ OnlyMoves(t) /\ op[K(t)].state = "in_flight"
             /\ OnlyWrites(K(t), "delivery_unknown")
             /\ UNCHANGED <<request, receipt, reconciliation, process, provider>>
             /\ pc'[t] = "reconcile" /\ evidence'[t] = evidence[t] /\ reply'[t] = reply[t]
  <2>1. pc[t] = "mark_unknown" /\ op[K(t)].state = "in_flight"
    BY <1>2, <1>4 DEF RecordUnknown, Owning
  <2>2. /\ op' = [op EXCEPT ![K(t)] = MarkDeliveryUnknown(op[K(t)])] /\ Goto(t, "reconcile")
        /\ UNCHANGED <<request, receipt, reconciliation, process, provider>>
    BY <1>4, <2>1 DEF RecordUnknown, CanMarkDeliveryUnknown
  <2>. QED
    BY <1>1, <2>1, <2>2, RowWrite, WorkerMoves
<1>5. ASSUME Complete(t)
      PROVE  /\ pc[t] = "complete" /\ OnlyMoves(t) /\ op[K(t)].state = "in_flight"
             /\ OnlyWrites(K(t), "completed")
             /\ UNCHANGED <<request, receipt, reconciliation, process, provider>>
             /\ pc'[t] = "idle" /\ evidence'[t] = "none" /\ reply'[t] \in {"delivered", "error"}
  <2>1. pc[t] = "complete" /\ op[K(t)].state = "in_flight"
    BY <1>2, <1>5 DEF Complete, Owning
  <2>2. /\ op' = [op EXCEPT ![K(t)] = MarkCompleted(op[K(t)])]
        /\ \E a \in {"delivered", "error"} : Answer(t, a)
        /\ UNCHANGED <<request, receipt, reconciliation, process, provider>>
    BY <1>5, <2>1 DEF Complete, CanMarkCompleted
  <2>. QED
    BY <1>1, <2>1, <2>2, RowWrite, WorkerMoves
<1>. QED
  BY <1>3, <1>4, <1>5

\* A reconciler decides a doubtful row on the evidence it holds, or finds that
\* another one has decided it.
LEMMA ReconcilerEffects ==
    ASSUME TypeOK, SendInv, NEW w \in Workers
    PROVE  /\ ResolveDelivered(w) =>
                /\ pc[w] = "resolve" /\ evidence[w] = "delivered" /\ OnlyMoves(w)
                /\ UNCHANGED <<request, receipt, reconciliation, process, provider>>
                /\ \/ /\ op[K(w)].state = "delivery_unknown" /\ OnlyWrites(K(w), "completed")
                      /\ \/ /\ w = Recovery /\ pc'[w] = "idle" /\ evidence'[w] = "none"
                            /\ reply'[w] = "delivered"
                         \/ /\ w # Recovery /\ pc'[w] = "save_reconciled"
                            /\ evidence'[w] = "delivered" /\ reply'[w] = reply[w]
                   \/ op' = op /\ pc'[w] = "idle" /\ evidence'[w] = "none" /\ reply'[w] = "error"
           /\ ResolveNotDelivered(w) =>
                /\ pc[w] = "resolve" /\ evidence[w] = "not_delivered" /\ OnlyMoves(w)
                /\ UNCHANGED <<request, receipt, reconciliation, process, provider>>
                /\ pc'[w] = "idle" /\ evidence'[w] = "none"
                /\ \/ /\ op[K(w)].state = "delivery_unknown" /\ OnlyWrites(K(w), "failed_safe")
                      /\ reply'[w] = "fresh_decision"
                   \/ op' = op /\ reply'[w] = "error"
<1>1. /\ K(w) \in Keys
      /\ MarkFailedSafe(op[K(w)]) \in Row /\ MarkFailedSafe(op[K(w)]).state = "failed_safe"
      /\ MarkCompleted(op[K(w)]) \in Row /\ MarkCompleted(op[K(w)]).state = "completed"
  BY MethodsKeepRows, MethodEffects DEF TypeOK, Job, K
<1>2. pc[w] = "resolve" => op[K(w)].state \in {"delivery_unknown", "completed", "failed_safe"}
  BY DEF SendInv, ReconcilersFollowDoubt
<1>3. ASSUME ResolveDelivered(w)
      PROVE  /\ pc[w] = "resolve" /\ evidence[w] = "delivered" /\ OnlyMoves(w)
             /\ UNCHANGED <<request, receipt, reconciliation, process, provider>>
             /\ \/ /\ op[K(w)].state = "delivery_unknown" /\ OnlyWrites(K(w), "completed")
                   /\ \/ /\ w = Recovery /\ pc'[w] = "idle" /\ evidence'[w] = "none"
                         /\ reply'[w] = "delivered"
                      \/ /\ w # Recovery /\ pc'[w] = "save_reconciled"
                         /\ evidence'[w] = "delivered" /\ reply'[w] = reply[w]
                \/ op' = op /\ pc'[w] = "idle" /\ evidence'[w] = "none" /\ reply'[w] = "error"
  <2>1. /\ pc[w] = "resolve" /\ evidence[w] = "delivered"
        /\ UNCHANGED <<request, receipt, reconciliation, process, provider>>
    BY <1>3 DEF ResolveDelivered
  <2>2. CASE CanMarkCompleted("contact", op[K(w)])
    <3>1. op[K(w)].state = "delivery_unknown"
      BY <1>2, <2>1, <2>2 DEF CanMarkCompleted
    <3>2. op' = [op EXCEPT ![K(w)] = MarkCompleted(op[K(w)])]
      BY <1>3, <2>2 DEF ResolveDelivered
    <3>3. OnlyWrites(K(w), "completed")
      <4>1. OnlyWrites(K(w), MarkCompleted(op[K(w)]).state)
        BY <1>1, <3>2, RowWrite
      <4>. QED
        BY <1>1, <4>1
    <3>4. IF w = Recovery THEN Answer(w, "delivered") ELSE Goto(w, "save_reconciled")
      BY <1>3, <2>2 DEF ResolveDelivered
    <3>. QED
      BY <2>1, <3>1, <3>3, <3>4, WorkerMoves
  <2>3. CASE ~ CanMarkCompleted("contact", op[K(w)])
    BY <1>3, <2>1, <2>3, WorkerMoves DEF ResolveDelivered
  <2>. QED
    BY <2>2, <2>3
<1>4. ASSUME ResolveNotDelivered(w)
      PROVE  /\ pc[w] = "resolve" /\ evidence[w] = "not_delivered" /\ OnlyMoves(w)
             /\ UNCHANGED <<request, receipt, reconciliation, process, provider>>
             /\ pc'[w] = "idle" /\ evidence'[w] = "none"
             /\ \/ /\ op[K(w)].state = "delivery_unknown" /\ OnlyWrites(K(w), "failed_safe")
                   /\ reply'[w] = "fresh_decision"
                \/ op' = op /\ reply'[w] = "error"
  <2>1. /\ pc[w] = "resolve" /\ evidence[w] = "not_delivered"
        /\ UNCHANGED <<request, receipt, reconciliation, process, provider>>
    BY <1>4 DEF ResolveNotDelivered
  <2>2. CASE CanMarkFailedSafe(op[K(w)])
    <3>1. op[K(w)].state = "delivery_unknown"
      BY <1>2, <2>1, <2>2 DEF CanMarkFailedSafe
    <3>2. op' = [op EXCEPT ![K(w)] = MarkFailedSafe(op[K(w)])] /\ Answer(w, "fresh_decision")
      BY <1>4, <2>2 DEF ResolveNotDelivered
    <3>3. OnlyWrites(K(w), "failed_safe")
      <4>1. OnlyWrites(K(w), MarkFailedSafe(op[K(w)]).state)
        BY <1>1, <3>2, RowWrite
      <4>. QED
        BY <1>1, <4>1
    <3>. QED
      BY <2>1, <3>1, <3>2, <3>3, WorkerMoves
  <2>3. CASE ~ CanMarkFailedSafe(op[K(w)])
    BY <1>4, <2>1, <2>3, WorkerMoves DEF ResolveNotDelivered
  <2>. QED
    BY <2>2, <2>3
<1>. QED
  BY <1>3, <1>4

\* A reconciler takes evidence only from what is stored, or asks the probe.
LEMMA LookUpEvidenceEffect ==
    ASSUME TypeOK, NEW w \in Workers, LookUpEvidence(w)
    PROVE  /\ pc[w] = "reconcile" /\ OnlyMoves(w)
           /\ UNCHANGED <<database, process, provider>>
           /\ \/ /\ op[K(w)].state = "delivery_unknown" /\ pc'[w] = "resolve"
                 /\ reply'[w] = reply[w] /\ evidence'[w] \in {"delivered", "not_delivered"}
                 /\ \/ evidence'[w] = "delivered" /\ receipt[K(w)] = "delivered"
                    \/ evidence'[w] = reconciliation[K(w)]
              \/ /\ op[K(w)].state = "delivery_unknown" /\ pc'[w] = "probe"
                 /\ reply'[w] = reply[w] /\ evidence'[w] = evidence[w]
              \/ pc'[w] = "idle" /\ reply'[w] \in {"error", "unknown"} /\ evidence'[w] = "none"
<1> DEFINE local == IF receipt[K(w)] = "delivered" THEN "delivered" ELSE reconciliation[K(w)]
<1>1. K(w) \in Keys /\ local \in Evidence
  BY DEF TypeOK, Job, K, Evidence
<1>2. /\ pc[w] = "reconcile" /\ UNCHANGED <<database, process, provider>>
      /\ \/ \E r \in {"error", "unknown"} : Answer(w, r)
         \/ op[K(w)].state = "delivery_unknown" /\ Goto(w, "probe")
         \/ /\ op[K(w)].state = "delivery_unknown" /\ local # "none"
            /\ evidence' = [evidence EXCEPT ![w] = local]
            /\ pc' = [pc EXCEPT ![w] = "resolve"] /\ UNCHANGED <<job, reply>>
  BY DEF LookUpEvidence
<1>3. CASE \E r \in {"error", "unknown"} : Answer(w, r)
  BY <1>2, <1>3, WorkerMoves
<1>4. CASE op[K(w)].state = "delivery_unknown" /\ Goto(w, "probe")
  BY <1>2, <1>4, WorkerMoves
<1>5. CASE /\ op[K(w)].state = "delivery_unknown" /\ local # "none"
           /\ evidence' = [evidence EXCEPT ![w] = local]
           /\ pc' = [pc EXCEPT ![w] = "resolve"] /\ UNCHANGED <<job, reply>>
  <2>1. OnlyMoves(w) /\ evidence'[w] = local /\ pc'[w] = "resolve" /\ reply'[w] = reply[w]
    BY <1>5 DEF TypeOK, OnlyMoves
  <2>2. local \in {"delivered", "not_delivered"}
    BY <1>1, <1>5 DEF Evidence
  <2>. QED
    BY <1>2, <1>5, <2>1, <2>2
<1>. QED
  BY <1>2, <1>3, <1>4, <1>5

-----------------------------------------------------------------------------
(* Evidence.  That a completed row has evidence is not inductive: it needs to *)
(* know that a worker saves the receipt or the reconciliation before it comes *)
(* to the row, and that a dry run never overwrites a receipt it did not see,  *)
(* because no delivery is recorded in a process whose delivery is disabled.   *)

\* A row in flight has its owner, or lost it to an exception, unless the service
\* is down.
InFlightHasOwner ==
    \A k \in Keys : op[k].state = "in_flight" /\ service # "down" =>
        k \in abandoned \/ \E t \in Threads : K(t) = k /\ pc[t] \in Owning
\* Nobody takes an abandoned row; a new process knows of none.
AbandonedRest ==
    /\ \A k \in abandoned : op[k].state = "in_flight"
    /\ \A t \in Threads : pc[t] \in Owning => K(t) \notin abandoned
    /\ service = "down" => abandoned = {}
\* Where a thread can be follows from the mode its process was started in.
ModeDecides ==
    \A t \in Threads :
        /\ pc[t] = "dry_run" => ~ enabled
        /\ enabled \/ pc[t] \in {"idle", "dedupe", "reserve", "dry_run"}
        /\ pc[t] \in {"reserve", "dry_run"} => enabled \/ receipt[K(t)] # "delivered"
ReceiptBeforeCompletion ==
    \A t \in Threads : pc[t] = "complete" => receipt[K(t)] = "delivered"
EvidenceIsDurable ==
    \A w \in Workers :
        /\ pc[w] \in {"save_evidence", "resolve"} => evidence[w] # "none"
        /\ pc[w] = "resolve" /\ evidence[w] = "delivered" =>
             receipt[K(w)] = "delivered" \/ reconciliation[K(w)] = "delivered"
        /\ pc[w] = "resolve" /\ evidence[w] = "not_delivered" =>
             reconciliation[K(w)] = "not_delivered"

EvidenceInv ==
    /\ InFlightHasOwner /\ AbandonedRest /\ ModeDecides /\ ReceiptBeforeCompletion
    /\ EvidenceIsDurable /\ CompletionHasEvidence

\* The strengthened invariant is inductive, whatever the probe answers.
THEOREM EvidenceInvariant == Spec => []EvidenceInv
<1> USE DEF database, process, provider, worker, Answer, Goto, Owning,
        EvidenceInv, InFlightHasOwner, AbandonedRest, ModeDecides, ReceiptBeforeCompletion,
        EvidenceIsDurable, CompletionHasEvidence
<1>1. Init => EvidenceInv
  BY ContactAssumption DEF Init, Workers, LegacyRow, NoOperation
<1>2. TypeOK /\ SendInv /\ EvidenceInv /\ [Next]_vars => EvidenceInv'
  <2> SUFFICES ASSUME TypeOK, SendInv, EvidenceInv, [Next]_vars PROVE EvidenceInv'
    OBVIOUS
  <2>a. /\ pc \in [Workers -> Location] /\ job \in [Workers -> Job]
        /\ evidence \in [Workers -> Evidence] /\ enabled \in BOOLEAN
        /\ op \in [Keys -> Row] /\ receipt \in [Keys -> Status]
        /\ reconciliation \in [Keys -> Evidence]
        /\ \A w \in Workers : K(w) \in Keys
        /\ abandoned \subseteq Keys
        /\ Recovery \notin Threads /\ Workers = Threads \cup {Recovery}
    BY ContactAssumption DEF TypeOK, Job, K, Workers
  <2>b. \A k \in Keys :
          /\ StartAttempt(op[k]).state = "in_flight"
          /\ MarkCompleted(op[k]).state = "completed"
          /\ MarkFailedSafe(op[k]).state = "failed_safe"
          /\ MarkDeliveryUnknown(op[k]).state = "delivery_unknown"
    BY <2>a, MethodEffects
  <2>c. /\ service # "up" => \A t \in Threads : pc[t] = "idle"
        /\ \A t \in Threads : pc[t] \in Owning => op[K(t)].state = "in_flight"
        /\ \A t, u \in Threads : K(t) = K(u) /\ pc[t] \in Owning /\ pc[u] \in Owning => t = u
    BY DEF SendInv, ServingOnlyWhenUp, OwnersHoldRow, OneOwner
  <2>1. ASSUME NEW t \in Threads, Receive(t) PROVE EvidenceInv'
    BY <2>1, <2>a, <2>b, <2>c DEF Receive, K
  <2>2. ASSUME NEW t \in Threads, Reject(t) PROVE EvidenceInv'
    BY <2>2, <2>a, <2>b, <2>c DEF Reject, K
  <2>3. ASSUME NEW t \in Threads, Dedupe(t) PROVE EvidenceInv'
    <3>1. pc[t] = "dedupe" /\ UNCHANGED <<database, process, provider>> /\ t \in Workers
      BY <2>3, <2>a DEF Dedupe
    <3>2. CASE receipt[K(t)] # "none"
      <4>1. OnlyMoves(t) /\ pc'[t] = "idle" /\ evidence'[t] = "none"
        BY <2>3, <3>1, <3>2, WorkerMoves DEF Dedupe
      <4>. QED
        BY <3>1, <4>1, <2>a, <2>c DEF OnlyMoves, K
    <3>3. CASE receipt[K(t)] = "none"
      <4>1. OnlyMoves(t) /\ pc'[t] = "reserve" /\ evidence'[t] = evidence[t]
        BY <2>3, <3>1, <3>3, WorkerMoves DEF Dedupe
      <4>. QED
        BY <3>1, <3>3, <4>1, <2>a, <2>c DEF OnlyMoves, K
    <3>. QED
      BY <3>2, <3>3
  <2>4. ASSUME NEW t \in Threads, ReserveRequest(t) PROVE EvidenceInv'
    <3>1. /\ pc[t] = "reserve" /\ t \in Workers
          /\ UNCHANGED <<receipt, reconciliation, op, process, provider>>
      BY <2>4, <2>a DEF ReserveRequest
    <3>2. CASE Goto(t, IF enabled THEN "reserve_op" ELSE "dry_run")
      <4>1. /\ OnlyMoves(t) /\ pc'[t] = IF enabled THEN "reserve_op" ELSE "dry_run"
            /\ evidence'[t] = evidence[t]
        BY <3>1, <3>2, <2>a DEF OnlyMoves
      <4>. QED
        BY <3>1, <4>1, <2>a, <2>c DEF OnlyMoves, K
    <3>3. CASE Answer(t, "conflict")
      <4>1. OnlyMoves(t) /\ pc'[t] = "idle" /\ evidence'[t] = "none"
        BY <3>1, <3>3, <2>a DEF OnlyMoves
      <4>. QED
        BY <3>1, <4>1, <2>a, <2>c DEF OnlyMoves, K
    <3>. QED
      BY <2>4, <3>2, <3>3 DEF ReserveRequest
  <2>5. ASSUME NEW t \in Threads, SaveDryRun(t) PROVE EvidenceInv'
    BY <2>5, <2>a, <2>b, <2>c DEF SaveDryRun, K
  <2>6. ASSUME NEW t \in Threads, ReserveOperation(t) PROVE EvidenceInv'
    BY <2>6, <2>a, <2>c, ReserveOperationEffect DEF OnlyMoves, K, NoOperation, Reserved
  <2>7. ASSUME NEW t \in Threads, BeginAttempt(t) PROVE EvidenceInv'
    BY <2>7, <2>a, <2>c, BeginAttemptEffect DEF OnlyMoves, OnlyWrites, K
  <2>8. ASSUME NEW t \in Threads, SpawnFails(t) PROVE EvidenceInv'
    BY <2>8, <2>a, <2>b, <2>c DEF SpawnFails, K
  <2>9. ASSUME NEW t \in Threads, Spawn(t) PROVE EvidenceInv'
    BY <2>9, <2>a, <2>b, <2>c DEF Spawn, K
  <2>10. ASSUME NEW t \in Threads, SendSucceeds(t) PROVE EvidenceInv'
    BY <2>10, <2>a, <2>b, <2>c DEF SendSucceeds, K
  <2>11. ASSUME NEW t \in Threads, SendOutcomeUnknown(t) PROVE EvidenceInv'
    BY <2>11, <2>a, <2>b, <2>c DEF SendOutcomeUnknown, K
  <2>12. ASSUME NEW t \in Threads, RecordFailedSafe(t) PROVE EvidenceInv'
    BY <2>12, <2>a, <2>c, OwnerEffects DEF OnlyMoves, OnlyWrites, K
  <2>13. ASSUME NEW t \in Threads, RecordUnknown(t) PROVE EvidenceInv'
    BY <2>13, <2>a, <2>c, OwnerEffects DEF OnlyMoves, OnlyWrites, K
  <2>14. ASSUME NEW t \in Threads, SaveReceipt(t) PROVE EvidenceInv'
    BY <2>14, <2>a, <2>b, <2>c DEF SaveReceipt, K
  <2>15. ASSUME NEW t \in Threads, Complete(t) PROVE EvidenceInv'
    BY <2>15, <2>a, <2>c, OwnerEffects DEF OnlyMoves, OnlyWrites, K
  <2>16. ASSUME NEW t \in Threads, AnswerCompleted(t) PROVE EvidenceInv'
    <3>1. /\ pc[t] = "completed" /\ t \in Workers /\ UNCHANGED <<database, process, provider>>
      BY <2>16, <2>a DEF AnswerCompleted
    <3>2. \/ Goto(t, "save_reconciled")
          \/ Answer(t, "receipt_unavailable")
      BY <2>16 DEF AnswerCompleted
    <3>3. CASE Goto(t, "save_reconciled")
      <4>1. OnlyMoves(t) /\ pc'[t] = "save_reconciled" /\ evidence'[t] = evidence[t]
        BY <3>1, <3>3, <2>a DEF OnlyMoves
      <4>. QED
        BY <3>1, <4>1, <2>a, <2>c DEF OnlyMoves, K
    <3>4. CASE Answer(t, "receipt_unavailable")
      <4>1. OnlyMoves(t) /\ pc'[t] = "idle" /\ evidence'[t] = "none"
        BY <3>1, <3>4, <2>a DEF OnlyMoves
      <4>. QED
        BY <3>1, <4>1, <2>a, <2>c DEF OnlyMoves, K
    <3>. QED
      BY <3>2, <3>3, <3>4
  <2>17. ASSUME NEW t \in Threads, SaveReconciledReceipt(t) PROVE EvidenceInv'
    BY <2>17, <2>a, <2>b, <2>c, SMTT(30) DEF SaveReconciledReceipt, K
  <2>18. ASSUME NEW w \in Workers, LookUpEvidence(w) PROVE EvidenceInv'
    BY <2>18, <2>a, <2>c, LookUpEvidenceEffect DEF OnlyMoves, K
  <2>19. ASSUME NEW w \in Workers, Probe(w) PROVE EvidenceInv'
    BY <2>19, <2>a, <2>b, <2>c, SMTT(30) DEF Probe, K
  <2>20. ASSUME NEW w \in Workers, SaveEvidence(w) PROVE EvidenceInv'
    BY <2>20, <2>a, <2>b, <2>c, SMTT(30) DEF SaveEvidence, K
  <2>21. ASSUME NEW w \in Workers, ResolveDelivered(w) PROVE EvidenceInv'
    BY <2>21, <2>a, <2>c, ReconcilerEffects, SMTT(30) DEF OnlyMoves, OnlyWrites, K
  <2>22. ASSUME NEW w \in Workers, ResolveNotDelivered(w) PROVE EvidenceInv'
    BY <2>22, <2>a, <2>c, ReconcilerEffects, SMTT(30) DEF OnlyMoves, OnlyWrites, K
  <2>23. CASE Crash
    BY <2>23, <2>a, <2>b, <2>c DEF Crash, K
  <2>24. CASE Restart
    BY <2>24, <2>a, <2>b, <2>c DEF Restart, K
  <2>25. CASE RecoverNext
    BY <2>25, <2>a, <2>b, <2>c DEF RecoverNext, K
  <2>26. CASE OpenSocket
    BY <2>26, <2>a, <2>b, <2>c DEF OpenSocket, K
  <2>27. CASE RouteChanges
    BY <2>27, <2>a, <2>b, <2>c DEF RouteChanges, K
  <2>28. CASE ProviderSettles
    BY <2>28, <2>a, <2>b, <2>c DEF ProviderSettles, K
  <2>29. CASE UNCHANGED vars
    BY <2>29 DEF vars, K
  <2>30. ASSUME NEW w \in Workers, CallFails(w) PROVE EvidenceInv'
    <3>1. /\ pc[w] # "idle" /\ OnlyMoves(w) /\ pc'[w] = "idle" /\ evidence'[w] = "none"
          /\ abandoned' = IF pc[w] \in Owning THEN abandoned \cup {K(w)} ELSE abandoned
          /\ UNCHANGED <<database, provider, enabled, service>>
      BY <2>30, CallFailsEffect
    <3>2. pc[w] \in Owning => w \in Threads /\ op[K(w)].state = "in_flight" /\ service = "up"
      BY <2>a, <2>c DEF SendInv, ServingOnlyWhenUp
    <3>3. InFlightHasOwner'
      BY <3>1, <3>2, <2>a DEF OnlyMoves, K
    <3>4. AbandonedRest'
      BY <3>1, <3>2, <2>a, <2>c DEF OnlyMoves, K
    <3>5. ModeDecides' /\ ReceiptBeforeCompletion' /\ EvidenceIsDurable' /\ CompletionHasEvidence'
      BY <3>1, <2>a DEF OnlyMoves, K
    <3>. QED
      BY <3>3, <3>4, <3>5
  <2>. QED
    BY <2>1, <2>2, <2>3, <2>4, <2>5, <2>6, <2>7, <2>8, <2>9, <2>10, <2>11, <2>12, <2>13, <2>14,
       <2>15, <2>16, <2>17, <2>18, <2>19, <2>20, <2>21, <2>22, <2>23, <2>24, <2>25, <2>26, <2>27,
       <2>28, <2>29, <2>30
       DEF Next, ThreadStep, ReconcileStep
<1>3. QED
  BY <1>1, <1>2, TypeCorrect, SendInvariant, PTL DEF Spec

\* While the service runs, a row in flight is owned by exactly one live thread, or
\* its thread ended in an exception and nobody touches it before the next restart.
THEOREM InFlightIsOwned == Spec => []InFlightOwned
<1>1. SendInv /\ EvidenceInv => InFlightOwned
  BY DEF SendInv, EvidenceInv, InFlightHasOwner, AbandonedRest, OneOwner, InFlightOwned
<1>2. QED
  BY <1>1, SendInvariant, EvidenceInvariant, PTL

\* Every completed row has a delivered receipt or reconciliation beside it.
THEOREM CompletedHasEvidence == Spec => []CompletionHasEvidence
<1>1. EvidenceInv => CompletionHasEvidence
  BY DEF EvidenceInv
<1>2. QED
  BY <1>1, EvidenceInvariant, PTL

\* A row leaves delivery_unknown only by a reconciler that has made its
\* evidence durable: not by an owner, a restart or a duplicate request.
THEOREM DoubtNeedsEvidence == Spec => UnknownNeedsEvidence
<1> DEFINE Justified ==
      \A k \in Keys : op[k].state = "delivery_unknown" /\ op'[k] # op[k] =>
          \/ op'[k].state = "completed" /\ (receipt[k] = "delivered" \/ reconciliation[k] = "delivered")
          \/ op'[k].state = "failed_safe" /\ reconciliation[k] = "not_delivered"
<1>1. TypeOK /\ SendInv /\ EvidenceInv /\ [Next]_vars => Justified
  <2> SUFFICES ASSUME TypeOK, SendInv, EvidenceInv, [Next]_vars PROVE Justified
    OBVIOUS
  <2> USE DEF database, process, provider, worker
  <2>1. ASSUME NEW t \in Threads, Receive(t) PROVE Justified
    BY <2>1 DEF Receive
  <2>2. ASSUME NEW t \in Threads, Reject(t) PROVE Justified
    BY <2>2 DEF Reject
  <2>3. ASSUME NEW t \in Threads, Dedupe(t) PROVE Justified
    BY <2>3 DEF Dedupe
  <2>4. ASSUME NEW t \in Threads, ReserveRequest(t) PROVE Justified
    BY <2>4 DEF ReserveRequest
  <2>5. ASSUME NEW t \in Threads, SaveDryRun(t) PROVE Justified
    BY <2>5 DEF SaveDryRun
  <2>6. ASSUME NEW t \in Threads, ReserveOperation(t) PROVE Justified
    BY <2>6, ReserveOperationEffect DEF NoOperation
  <2>7. ASSUME NEW t \in Threads, BeginAttempt(t) PROVE Justified
    BY <2>7, BeginAttemptEffect DEF OnlyWrites
  <2>8. ASSUME NEW t \in Threads, SpawnFails(t) PROVE Justified
    BY <2>8 DEF SpawnFails
  <2>9. ASSUME NEW t \in Threads, Spawn(t) PROVE Justified
    BY <2>9 DEF Spawn
  <2>10. ASSUME NEW t \in Threads, SendSucceeds(t) PROVE Justified
    BY <2>10 DEF SendSucceeds
  <2>11. ASSUME NEW t \in Threads, SendOutcomeUnknown(t) PROVE Justified
    BY <2>11 DEF SendOutcomeUnknown
  <2>12. ASSUME NEW t \in Threads, RecordFailedSafe(t) PROVE Justified
    BY <2>12, OwnerEffects DEF OnlyWrites
  <2>13. ASSUME NEW t \in Threads, RecordUnknown(t) PROVE Justified
    BY <2>13, OwnerEffects DEF OnlyWrites
  <2>14. ASSUME NEW t \in Threads, SaveReceipt(t) PROVE Justified
    BY <2>14 DEF SaveReceipt
  <2>15. ASSUME NEW t \in Threads, Complete(t) PROVE Justified
    BY <2>15, OwnerEffects DEF OnlyWrites
  <2>16. ASSUME NEW t \in Threads, AnswerCompleted(t) PROVE Justified
    BY <2>16 DEF AnswerCompleted
  <2>17. ASSUME NEW t \in Threads, SaveReconciledReceipt(t) PROVE Justified
    BY <2>17 DEF SaveReconciledReceipt
  <2>18. ASSUME NEW w \in Workers, LookUpEvidence(w) PROVE Justified
    BY <2>18 DEF LookUpEvidence
  <2>19. ASSUME NEW w \in Workers, Probe(w) PROVE Justified
    BY <2>19 DEF Probe
  <2>20. ASSUME NEW w \in Workers, SaveEvidence(w) PROVE Justified
    BY <2>20 DEF SaveEvidence
  <2>21. ASSUME NEW w \in Workers, ResolveDelivered(w) PROVE Justified
    BY <2>21, ReconcilerEffects DEF OnlyWrites, EvidenceInv, EvidenceIsDurable
  <2>22. ASSUME NEW w \in Workers, ResolveNotDelivered(w) PROVE Justified
    BY <2>22, ReconcilerEffects DEF OnlyWrites, EvidenceInv, EvidenceIsDurable
  <2>23. CASE Crash
    BY <2>23 DEF Crash
  <2>24. CASE Restart
    BY <2>24 DEF Restart
  <2>25. CASE RecoverNext
    BY <2>25 DEF RecoverNext
  <2>26. CASE OpenSocket
    BY <2>26 DEF OpenSocket
  <2>27. CASE RouteChanges
    BY <2>27 DEF RouteChanges
  <2>28. CASE ProviderSettles
    BY <2>28 DEF ProviderSettles
  <2>29. CASE UNCHANGED vars
    BY <2>29 DEF vars
  <2>30. ASSUME NEW w \in Workers, CallFails(w) PROVE Justified
    BY <2>30 DEF CallFails
  <2>. QED
    BY <2>1, <2>2, <2>3, <2>4, <2>5, <2>6, <2>7, <2>8, <2>9, <2>10, <2>11, <2>12, <2>13, <2>14,
       <2>15, <2>16, <2>17, <2>18, <2>19, <2>20, <2>21, <2>22, <2>23, <2>24, <2>25, <2>26, <2>27,
       <2>28, <2>29, <2>30
       DEF Next, ThreadStep, ReconcileStep
<1>2. QED
  BY <1>1, TypeCorrect, SendInvariant, EvidenceInvariant, PTL DEF Spec, UnknownNeedsEvidence
-----------------------------------------------------------------------------
(* Truth, for a probe that never contradicts the provider.  What a row, a     *)
(* receipt, an answer and a worker say of a message is what became of it, and *)
(* where nothing was attempted, or nothing will be, nothing can still arrive. *)

Ended == {"none", "dropped"}

RowsMatchWorld ==
    \A k \in Keys :
        /\ op[k].state \in {"absent", "prepared", "retry_wait", "exhausted"} => world[k] = "none"
        /\ reconciliation[k] # "none" =>
             op[k].state \in {"delivery_unknown", "completed", "failed_safe"}
        /\ reconciliation[k] = "delivered" => world[k] = "delivered"
        /\ reconciliation[k] = "not_delivered" => world[k] \in Ended
WorkersMatchWorld ==
    \A t \in Threads :
        /\ pc[t] \in {"send", "mark_failed_safe"} => world[K(t)] = "none"
        /\ pc[t] \in {"save", "complete", "save_reconciled"} => world[K(t)] = "delivered"
EvidenceMatchesWorld ==
    \A w \in Workers : pc[w] \in {"save_evidence", "resolve"} =>
        world[K(w)] \in IF evidence[w] = "delivered" THEN {"delivered"} ELSE Ended
FreshAnswersFollowRow ==
    \A t \in Threads : reply[t] = "fresh_decision" => Unsendable(op[K(t)])

TruthInv ==
    /\ RowsMatchWorld /\ WorkersMatchWorld /\ EvidenceMatchesWorld /\ FreshAnswersFollowRow
    /\ LedgerMatchesProvider /\ FreshDecisionIsSafe /\ DeliveredAnswerIsTrue

\* The strengthened invariant is inductive.
THEOREM TruthInvariant ==
    ASSUME ProbeTruthful
    PROVE  Spec => []TruthInv
<1> USE DEF database, process, provider, worker, Answer, Goto, Owning,
        TruthInv, RowsMatchWorld, WorkersMatchWorld, EvidenceMatchesWorld,
        FreshAnswersFollowRow, LedgerMatchesProvider, FreshDecisionIsSafe,
        DeliveredAnswerIsTrue, Ended
<1>1. Init => TruthInv
  BY ContactAssumption DEF Init, Workers, LegacyRow, NoOperation
<1>2. TypeOK /\ SendInv /\ TruthInv /\ [Next]_vars => TruthInv'
  <2> SUFFICES ASSUME TypeOK, SendInv, TruthInv, [Next]_vars PROVE TruthInv'
    OBVIOUS
  <2>a. /\ pc \in [Workers -> Location] /\ job \in [Workers -> Job]
        /\ evidence \in [Workers -> Evidence] /\ reply \in [Workers -> Reply]
        /\ op \in [Keys -> Row] /\ receipt \in [Keys -> Status]
        /\ reconciliation \in [Keys -> Evidence]
        /\ world \in [Keys -> {"none", "pending", "delivered", "dropped"}]
        /\ \A w \in Workers : K(w) \in Keys
        /\ Recovery \notin Threads /\ Workers = Threads \cup {Recovery}
    BY ContactAssumption DEF TypeOK, Job, K, Workers
  <2>b. \A k \in Keys :
          /\ MarkDeliveryUnknown(op[k]).state = "delivery_unknown"
    BY <2>a, MethodEffects
  <2>c. /\ service # "up" => \A t \in Threads : pc[t] = "idle"
        /\ \A t \in Threads : pc[t] \in Owning => op[K(t)].state = "in_flight"
        /\ \A t, u \in Threads : K(t) = K(u) /\ pc[t] \in Owning /\ pc[u] \in Owning => t = u
    BY DEF SendInv, ServingOnlyWhenUp, OwnersHoldRow, OneOwner
  <2>d. /\ \A w \in Workers : pc[w] \in {"probe", "save_evidence", "resolve"} =>
            op[K(w)].state \in {"delivery_unknown", "completed", "failed_safe"}
        /\ pc[Recovery] \in {"idle", "reconcile", "probe", "save_evidence", "resolve"}
    BY DEF SendInv, ReconcilersFollowDoubt, ServingOnlyWhenUp
  <2>1. ASSUME NEW t \in Threads, Receive(t) PROVE TruthInv'
    BY <2>1, <2>a, <2>b, <2>c, <2>d DEF Receive, K, Unsendable
  <2>2. ASSUME NEW t \in Threads, Reject(t) PROVE TruthInv'
    BY <2>2, <2>a, <2>b, <2>c, <2>d DEF Reject, K, Unsendable
  <2>3. ASSUME NEW t \in Threads, Dedupe(t) PROVE TruthInv'
    <3>1. pc[t] = "dedupe" /\ UNCHANGED <<database, process, provider>> /\ t \in Workers
      BY <2>3, <2>a DEF Dedupe
    <3>2. CASE receipt[K(t)] # "none"
      <4>1. /\ OnlyMoves(t) /\ pc'[t] = "idle" /\ evidence'[t] = "none"
            /\ reply'[t] = receipt[K(t)]
        BY <2>3, <2>a, <3>1, <3>2 DEF Dedupe, OnlyMoves
      <4>. QED
        BY <3>1, <4>1, <2>a, <2>c DEF OnlyMoves, K, Status
    <3>3. CASE receipt[K(t)] = "none"
      <4>1. /\ OnlyMoves(t) /\ pc'[t] = "reserve" /\ evidence'[t] = evidence[t]
            /\ reply'[t] = reply[t]
        BY <2>3, <3>1, <3>3, WorkerMoves DEF Dedupe
      <4>. QED
        BY <3>1, <3>3, <4>1, <2>a, <2>c DEF OnlyMoves, K, Unsendable
    <3>. QED
      BY <3>2, <3>3
  <2>4. ASSUME NEW t \in Threads, ReserveRequest(t) PROVE TruthInv'
    BY <2>4, <2>a, <2>b, <2>c, <2>d DEF ReserveRequest, K, Unsendable
  <2>5. ASSUME NEW t \in Threads, SaveDryRun(t) PROVE TruthInv'
    BY <2>5, <2>a, <2>b, <2>c, <2>d DEF SaveDryRun, K, Unsendable
  <2>6. ASSUME NEW t \in Threads, ReserveOperation(t) PROVE TruthInv'
    BY <2>6, <2>a, <2>c, ReserveOperationEffect DEF OnlyMoves, K, NoOperation, Reserved, Unsendable
  <2>7. ASSUME NEW t \in Threads, BeginAttempt(t) PROVE TruthInv'
    BY <2>7, <2>a, <2>c, BeginAttemptEffect DEF OnlyMoves, OnlyWrites, K, Unsendable
  <2>8. ASSUME NEW t \in Threads, SpawnFails(t) PROVE TruthInv'
    BY <2>8, <2>a, <2>b, <2>c, <2>d DEF SpawnFails, K, Unsendable
  <2>9. ASSUME NEW t \in Threads, Spawn(t) PROVE TruthInv'
    BY <2>9, <2>a, <2>b, <2>c, <2>d DEF Spawn, K, Unsendable
  <2>10. ASSUME NEW t \in Threads, SendSucceeds(t) PROVE TruthInv'
    BY <2>10, <2>a, <2>b, <2>c, <2>d DEF SendSucceeds, K, Unsendable
  <2>11. ASSUME NEW t \in Threads, SendOutcomeUnknown(t) PROVE TruthInv'
    BY <2>11, <2>a, <2>b, <2>c, <2>d DEF SendOutcomeUnknown, K, Unsendable
  <2>12. ASSUME NEW t \in Threads, RecordFailedSafe(t) PROVE TruthInv'
    BY <2>12, <2>a, <2>c, OwnerEffects DEF OnlyMoves, OnlyWrites, K, Unsendable
  <2>13. ASSUME NEW t \in Threads, RecordUnknown(t) PROVE TruthInv'
    BY <2>13, <2>a, <2>c, OwnerEffects DEF OnlyMoves, OnlyWrites, K, Unsendable
  <2>14. ASSUME NEW t \in Threads, SaveReceipt(t) PROVE TruthInv'
    BY <2>14, <2>a, <2>b, <2>c, <2>d DEF SaveReceipt, K, Unsendable
  <2>15. ASSUME NEW t \in Threads, Complete(t) PROVE TruthInv'
    BY <2>15, <2>a, <2>c, OwnerEffects DEF OnlyMoves, OnlyWrites, K, Unsendable
  <2>16. ASSUME NEW t \in Threads, AnswerCompleted(t) PROVE TruthInv'
    BY <2>16, <2>a, <2>b, <2>c, <2>d DEF AnswerCompleted, K, Unsendable
  <2>17. ASSUME NEW t \in Threads, SaveReconciledReceipt(t) PROVE TruthInv'
    BY <2>17, <2>a, <2>b, <2>c, <2>d DEF SaveReconciledReceipt, K, Unsendable
  <2>18. ASSUME NEW w \in Workers, LookUpEvidence(w) PROVE TruthInv'
    BY <2>18, <2>a, LookUpEvidenceEffect DEF OnlyMoves, K
  <2>19. ASSUME NEW w \in Workers, Probe(w) PROVE TruthInv'
    BY <2>19, <2>a, <2>b, <2>c, <2>d DEF Probe, K, Unsendable
  <2>20. ASSUME NEW w \in Workers, SaveEvidence(w) PROVE TruthInv'
    BY <2>20, <2>a, <2>b, <2>c, <2>d DEF SaveEvidence, K, Unsendable
  <2>21. ASSUME NEW w \in Workers, ResolveDelivered(w) PROVE TruthInv'
    BY <2>21, <2>a, <2>c, ReconcilerEffects, SMTT(30) DEF OnlyMoves, OnlyWrites, K, Unsendable
  <2>22. ASSUME NEW w \in Workers, ResolveNotDelivered(w) PROVE TruthInv'
    BY <2>22, <2>a, <2>c, ReconcilerEffects, SMTT(30) DEF OnlyMoves, OnlyWrites, K, Unsendable
  <2>23. CASE Crash
    BY <2>23, <2>a, <2>b, <2>c, <2>d DEF Crash, K, Unsendable
  <2>24. CASE Restart
    BY <2>24, <2>a, <2>b, <2>c, <2>d DEF Restart, K, Unsendable
  <2>25. CASE RecoverNext
    BY <2>25, <2>a, <2>b, <2>c, <2>d DEF RecoverNext, K, Unsendable
  <2>26. CASE OpenSocket
    BY <2>26, <2>a, <2>b, <2>c, <2>d DEF OpenSocket, K, Unsendable
  <2>27. CASE RouteChanges
    BY <2>27, <2>a, <2>b, <2>c, <2>d DEF RouteChanges, K, Unsendable
  <2>28. CASE ProviderSettles
    BY <2>28, <2>a, <2>b, <2>c, <2>d DEF ProviderSettles, K, Unsendable
  <2>29. CASE UNCHANGED vars
    BY <2>29 DEF vars, K, Unsendable
  <2>30. ASSUME NEW w \in Workers, CallFails(w) PROVE TruthInv'
    BY <2>30, <2>a, CallFailsEffect DEF OnlyMoves, K
  <2>. QED
    BY <2>1, <2>2, <2>3, <2>4, <2>5, <2>6, <2>7, <2>8, <2>9, <2>10, <2>11, <2>12, <2>13, <2>14,
       <2>15, <2>16, <2>17, <2>18, <2>19, <2>20, <2>21, <2>22, <2>23, <2>24, <2>25, <2>26, <2>27,
       <2>28, <2>29, <2>30
       DEF Next, ThreadStep, ReconcileStep
<1>3. QED
  BY <1>1, <1>2, TypeCorrect, SendInvariant, PTL DEF Spec

\* Completed rows and delivered receipts were delivered, FAILED_SAFE rows never will be.
THEOREM LedgerIsTrue ==
    ASSUME ProbeTruthful
    PROVE  Spec => []LedgerMatchesProvider
<1>1. TruthInv => LedgerMatchesProvider
  BY DEF TruthInv
<1>2. QED
  BY <1>1, TruthInvariant, PTL

\* A client told to decide afresh may send again: the first message has neither
\* arrived nor can it still arrive.
THEOREM FreshDecisionsAreSafe ==
    ASSUME ProbeTruthful
    PROVE  Spec => []FreshDecisionIsSafe
<1>1. TruthInv => FreshDecisionIsSafe
  BY DEF TruthInv
<1>2. QED
  BY <1>1, TruthInvariant, PTL

\* "delivered" is only ever answered for a message that arrived.
THEOREM DeliveredAnswersAreTrue ==
    ASSUME ProbeTruthful
    PROVE  Spec => []DeliveredAnswerIsTrue
<1>1. TruthInv => DeliveredAnswerIsTrue
  BY DEF TruthInv
<1>2. QED
  BY <1>1, TruthInvariant, PTL

-----------------------------------------------------------------------------
(* Refinement: each step of the service is one step of AtMostOnceDelivery,  *)
(* or changes neither the ledger it keeps nor the world.                    *)

\* The entry a row stands for depends on its state alone, but for prepared rows.
LEMMA LedgerByState ==
    ASSUME NEW o \in Row
    PROVE  /\ Untried(o) => LedgerOf(o) = "open"
           /\ o.state = "in_flight" => LedgerOf(o) = "claimed"
           /\ o.state = "delivery_unknown" => LedgerOf(o) = "doubtful"
           /\ o.state = "completed" => LedgerOf(o) = "delivered"
           /\ Unsendable(o) => LedgerOf(o) = "refused"
<1>1. o.state = "absent" => o = NoOperation
  BY DEF Row, Operation, OperationState
<1>2. o.state = "prepared" /\ o.attempt = 0 => o = Reserved
  <2>1. SUFFICES ASSUME o.state = "prepared", o.attempt = 0 PROVE o = Reserved
    OBVIOUS
  <2>2. o \in Operation
    BY <2>1 DEF Row, NoOperation
  <2>. QED
    BY <2>1, <2>2 DEF Operation, Reserved
<1>3. Untried(o) => o = NoOperation \/ o = Reserved
  BY <1>1, <1>2 DEF Untried
<1>4. ~ Untried(o) => o # NoOperation /\ o # Reserved
  BY DEF Untried, NoOperation, Reserved
<1>5. o.state \in {"in_flight", "delivery_unknown", "completed"} \/ Unsendable(o) => ~ Untried(o)
  BY DEF Untried, Unsendable, Row, Operation
<1>6. Unsendable(o) => o.state \notin {"in_flight", "delivery_unknown", "completed"}
  BY DEF Unsendable
<1>. QED
  BY <1>3, <1>4, <1>5, <1>6 DEF LedgerOf

\* The ledger as the promise sees it.
Ledger == [k \in Keys |-> LedgerOf(op[k])]

\* A step that writes one row writes one entry.
LEMMA LedgerStep ==
    ASSUME NEW k \in Keys, NEW state, OnlyWrites(k, state)
    PROVE  Ledger' = [Ledger EXCEPT ![k] = LedgerOf(op'[k])]
BY DEF Ledger, OnlyWrites

\* The contact service, with its threads, databases and crashes, implements
\* at-most-once delivery per key.
THEOREM PromiseKept ==
    ASSUME ProbeTruthful
    PROVE  Spec => ImplementsPromise
<1>1. Init => Promise!Init
  <2> SUFFICES ASSUME Init PROVE Promise!Init
    OBVIOUS
  <2>1. \A k \in Keys : op[k] \in {NoOperation} \cup LegacyRow
    BY ContactAssumption DEF Init
  <2>2. NoOperation \in Row /\ LegacyRow \subseteq Row
    BY DEF Row, LegacyRow, Operation, OperationState
  <2>3. \A o \in LegacyRow : Unsendable(o)
    BY DEF LegacyRow, Unsendable
  <2>4. Untried(NoOperation)
    BY DEF Untried, NoOperation
  <2>5. \A k \in Keys : LedgerOf(op[k]) \in {"open", "refused"}
    BY <2>1, <2>2, <2>3, <2>4, LedgerByState
  <2>. QED
    BY <2>5 DEF Promise!Init, Init
<1>2. TypeOK /\ TypeOK' /\ SendInv /\ TruthInv /\ [Next]_vars => [Promise!Next]_(Promise!vars)
  <2> SUFFICES ASSUME TypeOK, TypeOK', SendInv, TruthInv, [Next]_vars
               PROVE  Promise!Next \/ UNCHANGED <<Ledger, world>>
    BY DEF Promise!vars, Ledger
  <2> USE DEF database, process, provider, worker
  <2>a. /\ op \in [Keys -> Row] /\ op' \in [Keys -> Row]
        /\ world \in [Keys -> {"none", "pending", "delivered", "dropped"}]
        /\ \A w \in Workers : K(w) \in Keys
        /\ Threads \subseteq Workers
    BY DEF TypeOK, Job, K, Workers
  <2>b. \A k \in Keys : LedgerOf(op[k]) = Ledger[k] /\ LedgerOf(op'[k]) = Ledger'[k]
    BY DEF Ledger
  <2>c. UNCHANGED op => UNCHANGED Ledger
    BY DEF Ledger
  <2>1. ASSUME NEW t \in Threads, Receive(t) PROVE Promise!Next \/ UNCHANGED <<Ledger, world>>
    BY <2>1, <2>c DEF Receive
  <2>2. ASSUME NEW t \in Threads, Reject(t) PROVE Promise!Next \/ UNCHANGED <<Ledger, world>>
    BY <2>2, <2>c DEF Reject
  <2>3. ASSUME NEW t \in Threads, Dedupe(t) PROVE Promise!Next \/ UNCHANGED <<Ledger, world>>
    BY <2>3, <2>c DEF Dedupe
  <2>4. ASSUME NEW t \in Threads, ReserveRequest(t) PROVE Promise!Next \/ UNCHANGED <<Ledger, world>>
    BY <2>4, <2>c DEF ReserveRequest
  <2>5. ASSUME NEW t \in Threads, SaveDryRun(t) PROVE Promise!Next \/ UNCHANGED <<Ledger, world>>
    BY <2>5, <2>c DEF SaveDryRun
  <2>6. ASSUME NEW t \in Threads, ReserveOperation(t) PROVE Promise!Next \/ UNCHANGED <<Ledger, world>>
    <3>1. UNCHANGED world /\ \A k \in Keys : op'[k] = op[k] \/ (op[k] = NoOperation /\ op'[k] = Reserved)
      BY <2>6, ReserveOperationEffect
    <3>2. LedgerOf(NoOperation) = LedgerOf(Reserved)
      BY DEF LedgerOf
    <3>3. UNCHANGED Ledger
      BY <3>1, <3>2 DEF Ledger
    <3>. QED
      BY <3>1, <3>3
  <2>7. ASSUME NEW t \in Threads, BeginAttempt(t) PROVE Promise!Next \/ UNCHANGED <<Ledger, world>>
    <3>1. CASE /\ op[K(t)].state = "prepared" /\ op[K(t)].attempt = 0
              /\ OnlyWrites(K(t), "in_flight")
      <4>1. K(t) \in Keys /\ UNCHANGED world
        BY <2>7, <2>a, BeginAttemptEffect
      <4>2. Ledger[K(t)] = "open" /\ LedgerOf(op'[K(t)]) = "claimed"
        BY <2>a, <2>b, <3>1, <4>1, LedgerByState DEF Untried, OnlyWrites
      <4>3. Promise!Claim(K(t))
        BY <3>1, <4>1, <4>2, LedgerStep DEF Promise!Claim, Ledger
      <4>. QED
        BY <4>1, <4>3 DEF Promise!Next
    <3>2. CASE op' = op
      BY <2>7, <2>c, <3>2, BeginAttemptEffect
    <3>. QED
      BY <2>7, <3>1, <3>2, BeginAttemptEffect
  <2>8. ASSUME NEW t \in Threads, SpawnFails(t) PROVE Promise!Next \/ UNCHANGED <<Ledger, world>>
    BY <2>8, <2>c DEF SpawnFails
  <2>9. ASSUME NEW t \in Threads, Spawn(t) PROVE Promise!Next \/ UNCHANGED <<Ledger, world>>
    <3>1. /\ K(t) \in Keys /\ pc[t] = "send" /\ UNCHANGED op
          /\ world' = [world EXCEPT ![K(t)] = "pending"]
      BY <2>9, <2>a DEF Spawn
    <3>2. op[K(t)].state = "in_flight" /\ world[K(t)] = "none"
      BY <3>1 DEF SendInv, OwnersHoldRow, Owning, TruthInv, WorkersMatchWorld
    <3>3. Ledger[K(t)] = "claimed"
      BY <2>a, <2>b, <3>1, <3>2, LedgerByState
    <3>4. Promise!Emit(K(t))
      BY <2>c, <3>1, <3>2, <3>3 DEF Promise!Emit, Ledger
    <3>. QED
      BY <3>1, <3>4 DEF Promise!Next
  <2>10. ASSUME NEW t \in Threads, SendSucceeds(t) PROVE Promise!Next \/ UNCHANGED <<Ledger, world>>
    BY <2>10, <2>c DEF SendSucceeds
  <2>11. ASSUME NEW t \in Threads, SendOutcomeUnknown(t) PROVE Promise!Next \/ UNCHANGED <<Ledger, world>>
    BY <2>11, <2>c DEF SendOutcomeUnknown
  <2>12. ASSUME NEW t \in Threads, RecordFailedSafe(t) PROVE Promise!Next \/ UNCHANGED <<Ledger, world>>
    <3>1. /\ K(t) \in Keys /\ pc[t] = "mark_failed_safe" /\ op[K(t)].state = "in_flight"
          /\ OnlyWrites(K(t), "failed_safe") /\ UNCHANGED world
      BY <2>12, <2>a, OwnerEffects
    <3>2. world[K(t)] = "none"
      BY <3>1 DEF TruthInv, WorkersMatchWorld
    <3>3. Ledger[K(t)] = "claimed" /\ LedgerOf(op'[K(t)]) = "refused"
      BY <2>a, <2>b, <3>1, LedgerByState DEF OnlyWrites, Unsendable
    <3>4. Promise!Refuse(K(t))
      BY <3>1, <3>2, <3>3, LedgerStep DEF Promise!Refuse, Ledger
    <3>. QED
      BY <3>1, <3>4 DEF Promise!Next
  <2>13. ASSUME NEW t \in Threads, RecordUnknown(t) PROVE Promise!Next \/ UNCHANGED <<Ledger, world>>
    <3>1. /\ K(t) \in Keys /\ op[K(t)].state = "in_flight"
          /\ OnlyWrites(K(t), "delivery_unknown") /\ UNCHANGED world
      BY <2>13, <2>a, OwnerEffects
    <3>2. Ledger[K(t)] = "claimed" /\ LedgerOf(op'[K(t)]) = "doubtful"
      BY <2>a, <2>b, <3>1, LedgerByState DEF OnlyWrites
    <3>3. Ledger' = [k \in Keys |-> IF k \in {K(t)} THEN "doubtful" ELSE Ledger[k]]
      BY <3>1, <3>2, LedgerStep DEF Ledger
    <3>4. Promise!Doubt
      BY <3>1, <3>2, <3>3 DEF Promise!Doubt, Ledger
    <3>. QED
      BY <3>4 DEF Promise!Next
  <2>14. ASSUME NEW t \in Threads, SaveReceipt(t) PROVE Promise!Next \/ UNCHANGED <<Ledger, world>>
    BY <2>14, <2>c DEF SaveReceipt
  <2>15. ASSUME NEW t \in Threads, Complete(t) PROVE Promise!Next \/ UNCHANGED <<Ledger, world>>
    <3>1. /\ K(t) \in Keys /\ pc[t] = "complete" /\ op[K(t)].state = "in_flight"
          /\ OnlyWrites(K(t), "completed") /\ UNCHANGED world
      BY <2>15, <2>a, OwnerEffects
    <3>2. world[K(t)] = "delivered"
      BY <3>1 DEF TruthInv, WorkersMatchWorld
    <3>3. Ledger[K(t)] = "claimed" /\ LedgerOf(op'[K(t)]) = "delivered"
      BY <2>a, <2>b, <3>1, LedgerByState DEF OnlyWrites
    <3>4. Promise!Confirm(K(t))
      BY <3>1, <3>2, <3>3, LedgerStep DEF Promise!Confirm, Ledger
    <3>. QED
      BY <3>1, <3>4 DEF Promise!Next
  <2>16. ASSUME NEW t \in Threads, AnswerCompleted(t) PROVE Promise!Next \/ UNCHANGED <<Ledger, world>>
    BY <2>16, <2>c DEF AnswerCompleted
  <2>17. ASSUME NEW t \in Threads, SaveReconciledReceipt(t) PROVE Promise!Next \/ UNCHANGED <<Ledger, world>>
    BY <2>17, <2>c DEF SaveReconciledReceipt
  <2>18. ASSUME NEW w \in Workers, LookUpEvidence(w) PROVE Promise!Next \/ UNCHANGED <<Ledger, world>>
    BY <2>18, <2>c DEF LookUpEvidence
  <2>19. ASSUME NEW w \in Workers, Probe(w) PROVE Promise!Next \/ UNCHANGED <<Ledger, world>>
    BY <2>19, <2>c DEF Probe
  <2>20. ASSUME NEW w \in Workers, SaveEvidence(w) PROVE Promise!Next \/ UNCHANGED <<Ledger, world>>
    BY <2>20, <2>c DEF SaveEvidence
  <2>21. ASSUME NEW w \in Workers, ResolveDelivered(w) PROVE Promise!Next \/ UNCHANGED <<Ledger, world>>
    <3>1. /\ K(w) \in Keys /\ pc[w] = "resolve" /\ evidence[w] = "delivered" /\ UNCHANGED world
          /\ \/ op[K(w)].state = "delivery_unknown" /\ OnlyWrites(K(w), "completed")
             \/ op' = op
      BY <2>21, <2>a, ReconcilerEffects
    <3>2. CASE op[K(w)].state = "delivery_unknown" /\ OnlyWrites(K(w), "completed")
      <4>1. world[K(w)] \in {"delivered"}
        BY <3>1 DEF TruthInv, EvidenceMatchesWorld, Ended
      <4>2. Ledger[K(w)] = "doubtful" /\ LedgerOf(op'[K(w)]) = "delivered"
        BY <2>a, <2>b, <3>1, <3>2, LedgerByState DEF OnlyWrites, Unsendable
      <4>3. Promise!Confirm(K(w))
        BY <3>1, <3>2, <4>1, <4>2, LedgerStep DEF Promise!Confirm, Ledger
      <4>. QED
        BY <3>1, <4>3 DEF Promise!Next
    <3>. QED
      BY <2>c, <3>1, <3>2
  <2>22. ASSUME NEW w \in Workers, ResolveNotDelivered(w) PROVE Promise!Next \/ UNCHANGED <<Ledger, world>>
    <3>1. /\ K(w) \in Keys /\ pc[w] = "resolve" /\ evidence[w] = "not_delivered" /\ UNCHANGED world
          /\ \/ op[K(w)].state = "delivery_unknown" /\ OnlyWrites(K(w), "failed_safe")
             \/ op' = op
      BY <2>22, <2>a, ReconcilerEffects
    <3>2. CASE op[K(w)].state = "delivery_unknown" /\ OnlyWrites(K(w), "failed_safe")
      <4>1. world[K(w)] \in {"none", "dropped"}
        BY <3>1 DEF TruthInv, EvidenceMatchesWorld, Ended
      <4>2. Ledger[K(w)] = "doubtful" /\ LedgerOf(op'[K(w)]) = "refused"
        BY <2>a, <2>b, <3>1, <3>2, LedgerByState DEF OnlyWrites, Unsendable
      <4>3. Promise!Refuse(K(w))
        BY <3>1, <3>2, <4>1, <4>2, LedgerStep DEF Promise!Refuse, Ledger
      <4>. QED
        BY <3>1, <4>3 DEF Promise!Next
    <3>. QED
      BY <2>c, <3>1, <3>2
  <2>23. CASE Crash
    BY <2>23, <2>c DEF Crash
  <2>24. CASE Restart
    <3> DEFINE S == {k \in Keys : op[k].state = "in_flight"}
    <3>1. UNCHANGED world /\ \A k \in Keys : op'[k] = IF k \in S THEN MarkDeliveryUnknown(op[k]) ELSE op[k]
      BY <2>24 DEF Restart
    <3>2. \A k \in S : Ledger[k] = "claimed"
      BY <2>a, <2>b, LedgerByState
    <3>3. \A k \in S : op'[k].state = "delivery_unknown"
      BY <2>a, <3>1, MethodEffects
    <3>4. \A k \in Keys : Ledger'[k] = IF k \in S THEN "doubtful" ELSE Ledger[k]
      BY <2>a, <2>b, <3>1, <3>3, LedgerByState
    <3>5. S \in SUBSET {k \in Keys : Ledger[k] = "claimed"}
      BY <3>2
    <3>6. Ledger' = [k \in Keys |-> IF k \in S THEN "doubtful" ELSE Ledger[k]]
      BY <3>4 DEF Ledger
    <3> HIDE DEF S
    <3>7. Promise!Doubt
      BY <3>1, <3>5, <3>6 DEF Promise!Doubt, Ledger
    <3>. QED
      BY <3>7 DEF Promise!Next
  <2>25. CASE RecoverNext
    BY <2>25, <2>c DEF RecoverNext
  <2>26. CASE OpenSocket
    BY <2>26, <2>c DEF OpenSocket
  <2>27. CASE RouteChanges
    BY <2>27, <2>c DEF RouteChanges
  <2>28. CASE ProviderSettles
    <3>1. PICK k \in Keys, outcome \in {"delivered", "dropped"} :
             world[k] = "pending" /\ world' = [world EXCEPT ![k] = outcome]
      BY <2>28 DEF ProviderSettles
    <3>2. UNCHANGED Ledger
      BY <2>28, <2>c DEF ProviderSettles
    <3>3. Promise!Settle(k)
      BY <3>1, <3>2 DEF Promise!Settle, Ledger
    <3>. QED
      BY <3>3 DEF Promise!Next
  <2>29. CASE UNCHANGED vars
    BY <2>29 DEF vars, Ledger
  <2>30. ASSUME NEW w \in Workers, CallFails(w) PROVE Promise!Next \/ UNCHANGED <<Ledger, world>>
    BY <2>30, <2>c DEF CallFails
  <2>. QED
    BY <2>1, <2>2, <2>3, <2>4, <2>5, <2>6, <2>7, <2>8, <2>9, <2>10, <2>11, <2>12, <2>13, <2>14,
       <2>15, <2>16, <2>17, <2>18, <2>19, <2>20, <2>21, <2>22, <2>23, <2>24, <2>25, <2>26, <2>27,
       <2>28, <2>29, <2>30
       DEF Next, ThreadStep, ReconcileStep
<1>3. QED
  BY <1>1, <1>2, TypeCorrect, SendInvariant, TruthInvariant, PTL DEF Spec, ImplementsPromise,
         Promise!Spec
=============================================================================
