---------------------- MODULE CognitionDelivery_proofs ----------------------
(***************************************************************************)
(* Proofs about CognitionDelivery for any number of threads, tasks,        *)
(* attempts, purges and crashes.                                           *)
(***************************************************************************)
EXTENDS CognitionDelivery, TLAPS

\* A thread that writes at most the row of its key, and goes on or answers,
\* keeps the types.
LEMMA ThreadStepKeepsTypes ==
    ASSUME TypeOK, NEW t \in Threads,
           op' = op \/ \E row \in Row : op' = [op EXCEPT ![K(t)] = row],
           (\E l \in Location : Goto(t, l)) \/ (\E r \in Nat : Answer(t, r)),
           UNCHANGED <<receipt, process, bounds>>
    PROVE  TypeOK'
<1>1. op' \in [Keys -> Row]
  BY DEF TypeOK
<1>2. /\ pc' \in [Threads -> Location] /\ own' \in [Threads -> BOOLEAN]
      /\ result' \in [Threads -> Nat] /\ reply' \in [Threads -> Nat]
      /\ todo' \in [Threads -> SUBSET Keys] /\ UNCHANGED job
  <2>1. CASE \E l \in Location : Goto(t, l)
    BY <2>1 DEF TypeOK, Goto
  <2>2. CASE \E r \in Nat : Answer(t, r)
    BY <2>2 DEF TypeOK, Answer, Location
  <2>. QED
    BY <2>1, <2>2
<1>. QED
  BY <1>1, <1>2 DEF TypeOK, process, bounds

\* Every variable keeps its type through every step of the service.
THEOREM TypeCorrect == Spec => []TypeOK
<1>1. Init => TypeOK
  BY CognitionAssumption DEF Init, TypeOK, Row, Location
<1>2. TypeOK /\ [Next]_vars => TypeOK'
  <2> SUFFICES ASSUME TypeOK, [Next]_vars PROVE TypeOK'
    OBVIOUS
  <2>a. \A k \in Keys :
          /\ op[k] \in Row /\ Reserved \in Row /\ NoOperation \in Row
          /\ StartAttempt(op[k]) \in Row /\ MarkCompleted(op[k]) \in Row
          /\ MarkFailedSafe(op[k]) \in Row /\ ScheduleRetry(op[k]) \in Row
          /\ MakeRetryReady(op[k]) \in Row /\ MarkExhausted(op[k]) \in Row
    <3>1. \A k \in Keys : op[k] \in [state : OperationState \cup {"absent"}, attempt : Nat]
      BY DEF TypeOK, Row, Operation, NoOperation
    <3>2. /\ Reserved \in Row /\ NoOperation \in Row
          /\ \A k \in Keys : op[k] \in Row /\ StartAttempt(op[k]) \in Row
      BY <3>1 DEF TypeOK, Row, Operation, OperationState, NoOperation, Reserved, StartAttempt
    <3>3. \A k \in Keys, s \in OperationState : [op[k] EXCEPT !.state = s] \in Row
      BY <3>1 DEF Row, Operation
    <3>. QED
      BY <3>2, <3>3 DEF OperationState, MarkCompleted, MarkFailedSafe, ScheduleRetry,
             MakeRetryReady, MarkExhausted
  <2>b. /\ \A k \in Keys : op[k].attempt \in Nat /\ receipt[k] \in Nat
        /\ \A t \in Threads : K(t) \in Keys /\ result[t] \in Nat
    BY DEF TypeOK, Row, Operation, NoOperation, K
  <2>1. ASSUME NEW t \in Threads, Receive(t) PROVE TypeOK'
    BY <2>1 DEF Receive, TypeOK, database, process, bounds, Location
  <2>2. ASSUME NEW t \in Threads, Dedupe(t) PROVE TypeOK'
    <3>1. op' = op \/ \E row \in Row : op' = [op EXCEPT ![K(t)] = row]
      BY <2>2 DEF Dedupe, database
    <3>2. (\E l \in Location : Goto(t, l)) \/ (\E r \in Nat : Answer(t, r))
      BY <2>2, <2>b DEF Dedupe, AnswerStored, Location
    <3>3. UNCHANGED <<receipt, process, bounds>>
      BY <2>2 DEF Dedupe, database
    <3>. QED
      BY <3>1, <3>2, <3>3, ThreadStepKeepsTypes
  <2>3. ASSUME NEW t \in Threads, ReserveOperation(t) PROVE TypeOK'
    <3>1. op' = op \/ \E row \in Row : op' = [op EXCEPT ![K(t)] = row]
      BY <2>3, <2>a, <2>b DEF ReserveOperation
    <3>2. (\E l \in Location : Goto(t, l)) \/ (\E r \in Nat : Answer(t, r))
      BY <2>3 DEF ReserveOperation, Location
    <3>3. UNCHANGED <<receipt, process, bounds>>
      BY <2>3 DEF ReserveOperation, database
    <3>. QED
      BY <3>1, <3>2, <3>3, ThreadStepKeepsTypes
  <2>4. ASSUME NEW t \in Threads, TryAgain(t) PROVE TypeOK'
    <3>1. op' = op \/ \E row \in Row : op' = [op EXCEPT ![K(t)] = row]
      BY <2>4 DEF TryAgain, database
    <3>2. (\E l \in Location : Goto(t, l)) \/ (\E r \in Nat : Answer(t, r))
      BY <2>4, <2>b DEF TryAgain, Fail, AnswerStored, Location
    <3>3. UNCHANGED <<receipt, process, bounds>>
      BY <2>4 DEF TryAgain, database
    <3>. QED
      BY <3>1, <3>2, <3>3, ThreadStepKeepsTypes
  <2>5. ASSUME NEW t \in Threads, Decide(t) PROVE TypeOK'
    <3>1. op' = op \/ \E row \in Row : op' = [op EXCEPT ![K(t)] = row]
      BY <2>5, <2>a, <2>b DEF Decide, CompleteLate
    <3>2. (\E l \in Location : Goto(t, l)) \/ (\E r \in Nat : Answer(t, r))
      BY <2>5, <2>b DEF Decide, Fail, AnswerStored, CompleteLate, Location
    <3>3. UNCHANGED <<receipt, process, bounds>>
      BY <2>5 DEF Decide, database
    <3>. QED
      BY <3>1, <3>2, <3>3, ThreadStepKeepsTypes
  <2>6. ASSUME NEW t \in Threads, Exhaust(t) PROVE TypeOK'
    <3>1. op' = op \/ \E row \in Row : op' = [op EXCEPT ![K(t)] = row]
      BY <2>6, <2>a, <2>b DEF Exhaust, Transition
    <3>2. (\E l \in Location : Goto(t, l)) \/ (\E r \in Nat : Answer(t, r))
      BY <2>6 DEF Exhaust, Transition, Fail
    <3>3. UNCHANGED <<receipt, process, bounds>>
      BY <2>6 DEF Exhaust, database
    <3>. QED
      BY <3>1, <3>2, <3>3, ThreadStepKeepsTypes
  <2>7. ASSUME NEW t \in Threads, Schedule(t) PROVE TypeOK'
    <3>1. op' = op \/ \E row \in Row : op' = [op EXCEPT ![K(t)] = row]
      BY <2>7, <2>a, <2>b DEF Schedule, Transition
    <3>2. (\E l \in Location : Goto(t, l)) \/ (\E r \in Nat : Answer(t, r))
      BY <2>7 DEF Schedule, Transition, Fail, Location
    <3>3. UNCHANGED <<receipt, process, bounds>>
      BY <2>7 DEF Schedule, database
    <3>. QED
      BY <3>1, <3>2, <3>3, ThreadStepKeepsTypes
  <2>8. ASSUME NEW t \in Threads, MakeReady(t) PROVE TypeOK'
    <3>1. op' = op \/ \E row \in Row : op' = [op EXCEPT ![K(t)] = row]
      BY <2>8, <2>a, <2>b DEF MakeReady, Transition
    <3>2. (\E l \in Location : Goto(t, l)) \/ (\E r \in Nat : Answer(t, r))
      BY <2>8 DEF MakeReady, Transition, Fail, Location
    <3>3. UNCHANGED <<receipt, process, bounds>>
      BY <2>8 DEF MakeReady, database
    <3>. QED
      BY <3>1, <3>2, <3>3, ThreadStepKeepsTypes
  <2>9. ASSUME NEW t \in Threads, ListDue(t) PROVE TypeOK'
    <3>1. PICK due \in SUBSET RowsIn("retry_wait") : todo' = [todo EXCEPT ![t] = due]
      BY <2>9 DEF ListDue
    <3>2. due \in SUBSET Keys
      BY DEF RowsIn
    <3>3. todo' \in [Threads -> SUBSET Keys]
      BY <3>1, <3>2 DEF TypeOK
    <3>4. /\ pc' = [pc EXCEPT ![t] = "release"]
          /\ UNCHANGED <<database, process, job, own, result, reply, bounds>>
      BY <2>9 DEF ListDue
    <3>. QED
      BY <3>3, <3>4 DEF TypeOK, database, process, bounds, Location
  <2>10. ASSUME NEW t \in Threads, ReleaseOne(t) PROVE TypeOK'
    BY <2>10, <2>a DEF ReleaseOne, TypeOK, process, bounds
  <2>11. ASSUME NEW t \in Threads, Refresh(t) PROVE TypeOK'
    <3>1. op' = op \/ \E row \in Row : op' = [op EXCEPT ![K(t)] = row]
      BY <2>11 DEF Refresh, database
    <3>2. (\E l \in Location : Goto(t, l)) \/ (\E r \in Nat : Answer(t, r))
      BY <2>11, <2>b DEF Refresh, Fail, AnswerStored, Location
    <3>3. UNCHANGED <<receipt, process, bounds>>
      BY <2>11 DEF Refresh, database
    <3>. QED
      BY <3>1, <3>2, <3>3, ThreadStepKeepsTypes
  <2>12. ASSUME NEW t \in Threads, BeginAttempt(t) PROVE TypeOK'
    <3>1. op' = op \/ \E row \in Row : op' = [op EXCEPT ![K(t)] = row]
      BY <2>12, <2>a, <2>b DEF BeginAttempt, CompleteLate
    <3>2. (\E l \in Location : Goto(t, l)) \/ (\E r \in Nat : Answer(t, r))
      BY <2>12, <2>b DEF BeginAttempt, Fail, AnswerStored, CompleteLate, Location
    <3>3. UNCHANGED <<receipt, process, bounds>>
      BY <2>12 DEF BeginAttempt, database
    <3>. QED
      BY <3>1, <3>2, <3>3, ThreadStepKeepsTypes
  <2>13. ASSUME NEW t \in Threads, Start(t) PROVE TypeOK'
    <3>1. CASE CanStartAttempt(op[K(t)])
      <4>1. /\ op' = [op EXCEPT ![K(t)] = StartAttempt(op[K(t)])] /\ abandoned' = abandoned \ {K(t)}
            /\ result' = [result EXCEPT ![t] = op[K(t)].attempt + 1]
            /\ pc' = [pc EXCEPT ![t] = "compute"]
            /\ UNCHANGED <<receipt, service, interrupted, marked, bounds, job, own, todo, reply>>
        BY <2>13, <3>1 DEF Start
      <4>2. op' \in [Keys -> Row] /\ abandoned' \subseteq Keys
        BY <4>1, <2>a, <2>b DEF TypeOK
      <4>3. result' \in [Threads -> Nat]
        BY <4>1, <2>b DEF TypeOK
      <4>4. pc' \in [Threads -> Location]
        BY <4>1 DEF TypeOK, Location
      <4>. QED
        BY <4>1, <4>2, <4>3, <4>4 DEF TypeOK, bounds
    <3>2. CASE ~ CanStartAttempt(op[K(t)])
      BY <2>13, <3>2, ThreadStepKeepsTypes DEF Start, Fail, process
    <3>. QED
      BY <3>1, <3>2
  <2>14. ASSUME NEW t \in Threads, ComputeEnds(t) PROVE TypeOK'
    <3>1. op' = op \/ \E row \in Row : op' = [op EXCEPT ![K(t)] = row]
      BY <2>14 DEF ComputeEnds, database
    <3>2. (\E l \in Location : Goto(t, l)) \/ (\E r \in Nat : Answer(t, r))
      BY <2>14 DEF ComputeEnds, Location
    <3>3. UNCHANGED <<receipt, process, bounds>>
      BY <2>14 DEF ComputeEnds, database
    <3>. QED
      BY <3>1, <3>2, <3>3, ThreadStepKeepsTypes
  <2>15. ASSUME NEW t \in Threads, MarkFailed(t) PROVE TypeOK'
    <3>1. CASE CanMarkFailedSafe(op[K(t)])
      <4>1. /\ op' = [op EXCEPT ![K(t)] = MarkFailedSafe(@)]
            /\ pc' = [pc EXCEPT ![t] = "decide"] /\ own' = [own EXCEPT ![t] = TRUE]
            /\ UNCHANGED <<job, todo, result, reply, receipt, process, bounds>>
        BY <2>15, <3>1 DEF MarkFailed
      <4>2. op' \in [Keys -> Row]
        BY <2>a, <2>b, <4>1 DEF TypeOK
      <4>. QED
        BY <4>1, <4>2 DEF TypeOK, process, bounds, Location
    <3>2. CASE ~ CanMarkFailedSafe(op[K(t)])
      BY <2>15, <3>2, ThreadStepKeepsTypes DEF MarkFailed, Fail
    <3>. QED
      BY <3>1, <3>2
  <2>16. ASSUME NEW t \in Threads, SaveReceipt(t) PROVE TypeOK'
    BY <2>16 DEF SaveReceipt, TypeOK, process, bounds, Location, Goto
  <2>17. ASSUME NEW t \in Threads, Complete(t) PROVE TypeOK'
    <3>1. op' = op \/ \E row \in Row : op' = [op EXCEPT ![K(t)] = row]
      BY <2>17, <2>a, <2>b DEF Complete
    <3>2. (\E l \in Location : Goto(t, l)) \/ (\E r \in Nat : Answer(t, r))
      BY <2>17, <2>b DEF Complete
    <3>3. UNCHANGED <<receipt, process, bounds>>
      BY <2>17 DEF Complete, database
    <3>. QED
      BY <3>1, <3>2, <3>3, ThreadStepKeepsTypes
  <2>18. CASE Crash
    BY <2>18, CognitionAssumption DEF Crash, TypeOK, database, Location
  <2>25. ASSUME NEW t \in Threads, CallFails(t) PROVE TypeOK'
    <3>1. abandoned' \subseteq Keys
      BY <2>25, <2>b DEF CallFails, TypeOK
    <3>. QED
      BY <2>25, <3>1 DEF CallFails, Fail, Answer, TypeOK, database, bounds, Location
  <2>19. CASE Restart
    BY <2>19 DEF Restart, TypeOK, RowsIn, database, worker, bounds
  <2>20. CASE RecoverRow
    BY <2>20, <2>a DEF RecoverRow, TypeOK, worker, bounds
  <2>21. CASE RecoverSchedule
    BY <2>21, <2>a DEF RecoverSchedule, TypeOK, worker, bounds
  <2>22. CASE OpenSocket
    BY <2>22 DEF OpenSocket, TypeOK, database, worker, bounds
  <2>23. CASE Purge
    <3>1. op' \in [Keys -> Row] /\ purges' \in 0..MaxPurges
      BY <2>23, <2>a, CognitionAssumption DEF Purge, TypeOK
    <3>. QED
      BY <2>23, <3>1 DEF Purge, TypeOK, process, worker
  <2>24. CASE UNCHANGED vars
    BY <2>24 DEF vars, TypeOK, database, process, worker, bounds
  <2>. QED
    BY <2>1, <2>2, <2>3, <2>4, <2>5, <2>6, <2>7, <2>8, <2>9, <2>10, <2>11, <2>12,
       <2>13, <2>14, <2>15, <2>16, <2>17, <2>18, <2>19, <2>20, <2>21, <2>22, <2>23, <2>24,
       <2>25 DEF Next, ThreadStep, StartUp
<1>3. QED
  BY <1>1, <1>2, PTL DEF Spec

-----------------------------------------------------------------------------
(* One computation per task, and a result is kept.  OneComputation is not     *)
(* inductive: what keeps a second thread out is the row, and the row is only  *)
(* safe because a computing thread has not saved a receipt yet; what lets     *)
(* recovery find a row is that nobody runs while it does.                     *)

\* Threads run, and rows wait to be released, only while the socket is open.
ServingOnlyWhenUp ==
    service # "up" => \A t \in Threads : pc[t] = "idle" /\ todo[t] = {}
\* A computing thread holds its row until it has a result.  Another request's
\* release may complete the row once the receipt is there.
ComputersHoldRow ==
    \A t \in Threads :
        /\ pc[t] \in {"compute", "mark_failed", "save"} =>
             op[K(t)].state = "in_flight" /\ receipt[K(t)] = 0
        /\ pc[t] = "complete" => op[K(t)].state \in {"in_flight", "completed"}
OneComputer ==
    \A t, u \in Threads :
        K(t) = K(u) /\ pc[t] \in Computing /\ pc[u] \in Computing => t = u
\* A row in flight has somebody who will let go of it, or its thread has ended.
InFlightHasOwner ==
    \A k \in Keys : op[k].state = "in_flight" =>
        CASE service = "up" -> k \in abandoned \/ \E t \in Threads : K(t) = k /\ pc[t] \in Computing
          [] service = "recovering" -> k \in interrupted
          [] OTHER -> TRUE
AbandonedRest == \A t \in Threads : pc[t] \in Computing => K(t) \notin abandoned
InterruptedInFlight ==
    /\ service = "recovering" => \A k \in interrupted : op[k].state = "in_flight"
    /\ service = "recovering" /\ marked # NoKey => op[marked].state = "failed_safe"
    /\ service # "recovering" => interrupted = {} /\ marked = NoKey
\* A purged row has been forgotten by every request that read it.
UnseenBeforeReserve ==
    \A t \in Threads : pc[t] = "reserve" /\ op[K(t)].state = "absent" => receipt[K(t)] = 0

ComputationInv ==
    /\ ServingOnlyWhenUp /\ ComputersHoldRow /\ OneComputer /\ InFlightHasOwner
    /\ AbandonedRest /\ InterruptedInFlight /\ UnseenBeforeReserve /\ ResultKept

\* Only thread t moves, and its client and its result are as given.
OnlyMoves(t) ==
    /\ UNCHANGED job
    /\ \A u \in Threads : u # t =>
         /\ pc'[u] = pc[u] /\ result'[u] = result[u]
         /\ reply'[u] = reply[u] /\ todo'[u] = todo[u]

\* A thread that answers or goes on leaves the others where they are.
LEMMA WorkerMoves ==
    ASSUME TypeOK, NEW t \in Threads
    PROVE  /\ \A l : Goto(t, l) =>
                OnlyMoves(t) /\ pc'[t] = l /\ result'[t] = result[t] /\ reply'[t] = reply[t]
           /\ \A r : Answer(t, r) =>
                OnlyMoves(t) /\ pc'[t] = "idle" /\ result'[t] = 0 /\ reply'[t] = r
BY DEF TypeOK, Goto, Answer, OnlyMoves

\* What a thread that does not compute may do to a row: complete it for a
\* receipt, or change it while there is neither a computation nor a result.
Harmless(k) ==
    \/ op'[k] = op[k]
    \/ /\ op[k].state \notin {"in_flight", "completed"}
       /\ op'[k].state \notin {"in_flight", "absent"}
       /\ receipt[k] = 0 \/ op'[k].state = "completed"
    \/ op[k].state = "in_flight" /\ op'[k].state = "completed" /\ receipt[k] # 0

\* Requests that look, wait, release and reschedule cannot disturb a computation.
LEMMA OthersAreHarmless ==
    ASSUME TypeOK, ComputationInv, NEW t \in Threads,
           pc[t] \notin Computing \cup {"idle"},
           pc'[t] \in Location \ (Computing \cup {"reserve"}),
           \A u \in Threads : u # t => pc'[u] = pc[u] /\ todo'[u] = todo[u],
           \A k \in Keys : Harmless(k),
           UNCHANGED <<receipt, process, job>>
    PROVE  ComputationInv'
<1> USE DEF process, ComputationInv, Harmless
<1>1. service = "up" /\ UNCHANGED <<service, interrupted, marked>> /\ job' = job
      /\ \A u \in Threads : K(u) \in Keys /\ K(u)' = K(u)
  BY DEF ServingOnlyWhenUp, TypeOK, K
<1>2. ServingOnlyWhenUp' /\ InterruptedInFlight'
  BY <1>1 DEF ServingOnlyWhenUp, InterruptedInFlight
<1>3. ComputersHoldRow'
  BY <1>1 DEF ComputersHoldRow, Computing, K
<1>4. OneComputer'
  BY <1>1 DEF OneComputer, Computing, K
<1>5. InFlightHasOwner' /\ AbandonedRest'
  BY <1>1 DEF InFlightHasOwner, AbandonedRest, Computing, K
<1>6. UnseenBeforeReserve'
  BY <1>1 DEF UnseenBeforeReserve, K
<1>7. ResultKept'
  BY DEF ResultKept
<1>. QED
  BY <1>2, <1>3, <1>4, <1>5, <1>6, <1>7

\* The strengthened invariant is inductive.
THEOREM ComputationInvariant == Spec => []ComputationInv
<1>1. Init => ComputationInv
  BY DEF Init, NoOperation, ComputationInv, ServingOnlyWhenUp, ComputersHoldRow, OneComputer,
         InFlightHasOwner, AbandonedRest, InterruptedInFlight, UnseenBeforeReserve, ResultKept,
         Computing
<1>2. TypeOK /\ ComputationInv /\ [Next]_vars => ComputationInv'
  <2> SUFFICES ASSUME TypeOK, ComputationInv, [Next]_vars PROVE ComputationInv'
    OBVIOUS
  <2>a. /\ op \in [Keys -> Row] /\ pc \in [Threads -> Location] /\ job \in [Threads -> Keys]
        /\ todo \in [Threads -> SUBSET Keys] /\ receipt \in [Keys -> Nat]
        /\ interrupted \subseteq Keys /\ marked \in Keys \cup {NoKey}
        /\ \A t \in Threads : K(t) \in Keys
    BY DEF TypeOK, K
  <2>b. \A k \in Keys :
          /\ StartAttempt(op[k]).state = "in_flight" /\ MarkCompleted(op[k]).state = "completed"
          /\ MarkFailedSafe(op[k]).state = "failed_safe" /\ ScheduleRetry(op[k]).state = "retry_wait"
          /\ MakeRetryReady(op[k]).state = "prepared" /\ MarkExhausted(op[k]).state = "exhausted"
    <3>1. \A k \in Keys : op[k] \in [state : OperationState \cup {"absent"}, attempt : Nat]
      BY <2>a DEF Row, Operation, NoOperation
    <3>. QED
      BY <3>1 DEF StartAttempt, MarkCompleted, MarkFailedSafe, ScheduleRetry, MakeRetryReady,
             MarkExhausted
  <2>c. \A t \in Threads : pc[t] = "reserve" /\ op[K(t)].state = "absent" => receipt[K(t)] = 0
    BY DEF ComputationInv, UnseenBeforeReserve
  <2>d. \A k \in Keys : receipt[k] # 0 => op[k].state \in {"in_flight", "completed", "absent"}
    BY DEF ComputationInv, ResultKept
  <2>1. ASSUME NEW t \in Threads, Receive(t) PROVE ComputationInv'
    <3>1. /\ service = "up" /\ pc[t] = "idle" /\ UNCHANGED <<op, receipt, process, todo>>
          /\ pc'[t] = "dedupe" /\ \A u \in Threads : u # t => pc'[u] = pc[u] /\ job'[u] = job[u]
      BY <2>1, <2>a DEF Receive, database
    <3>. QED
      BY <3>1 DEF ComputationInv, ServingOnlyWhenUp, ComputersHoldRow, OneComputer,
             InFlightHasOwner, AbandonedRest, InterruptedInFlight, UnseenBeforeReserve,
             ResultKept, Computing, K, process
  <2>2. ASSUME NEW t \in Threads, Dedupe(t) PROVE ComputationInv'
    <3>1. pc[t] = "dedupe" /\ UNCHANGED <<op, receipt, process>> /\ \A k \in Keys : Harmless(k)
      BY <2>2 DEF Dedupe, database, Harmless
    <3>2. CASE receipt[K(t)] # 0
      <4>1. OnlyMoves(t) /\ pc'[t] = "idle"
        BY <2>2, <3>2, WorkerMoves DEF Dedupe, AnswerStored
      <4>. QED
        BY <3>1, <4>1, OthersAreHarmless DEF OnlyMoves, Computing, Location
    <3>3. CASE receipt[K(t)] = 0
      <4>1. OnlyMoves(t) /\ pc'[t] = "reserve"
        BY <2>2, <3>3, WorkerMoves DEF Dedupe
      <4>. QED
        BY <3>1, <3>3, <4>1 DEF OnlyMoves, ComputationInv, ServingOnlyWhenUp, ComputersHoldRow,
               OneComputer, InFlightHasOwner, AbandonedRest, InterruptedInFlight,
               UnseenBeforeReserve, ResultKept, Computing, K, process
    <3>. QED
      BY <3>2, <3>3
  <2>3. ASSUME NEW t \in Threads, ReserveOperation(t) PROVE ComputationInv'
    <3>1. /\ pc[t] = "reserve" /\ OnlyMoves(t) /\ pc'[t] \in {"loop"}
          /\ UNCHANGED <<receipt, process, bounds>>
      BY <2>3, WorkerMoves DEF ReserveOperation
    <3>2. \A k \in Keys : Harmless(k)
      BY <2>3, <2>c DEF ReserveOperation, Harmless, NoOperation, Reserved
    <3>. QED
      BY <3>1, <3>2, OthersAreHarmless DEF OnlyMoves, Computing, Location
  <2>4. ASSUME NEW t \in Threads, TryAgain(t) PROVE ComputationInv'
    <3>1. /\ pc[t] = "loop" /\ OnlyMoves(t) /\ pc'[t] \in {"idle", "begin", "decide", "wait"}
          /\ UNCHANGED <<receipt, process, bounds>>
      BY <2>4, WorkerMoves DEF TryAgain, Fail, AnswerStored, database
    <3>2. \A k \in Keys : Harmless(k)
      BY <2>4 DEF TryAgain, database, Harmless
    <3>. QED
      BY <3>1, <3>2, OthersAreHarmless DEF OnlyMoves, Computing, Location
  <2>5. ASSUME NEW t \in Threads, Decide(t) PROVE ComputationInv'
    <3>1. /\ pc[t] = "decide" /\ OnlyMoves(t) /\ pc'[t] \in {"idle", "exhaust", "schedule"}
          /\ UNCHANGED <<receipt, process, bounds>>
      BY <2>5, WorkerMoves DEF Decide, Fail, AnswerStored, CompleteLate
    <3>2. \A k \in Keys : Harmless(k)
      BY <2>5, <2>a, <2>b DEF Decide, CompleteLate, Harmless
    <3>. QED
      BY <3>1, <3>2, OthersAreHarmless DEF OnlyMoves, Computing, Location
  <2>6. ASSUME NEW t \in Threads, Exhaust(t) PROVE ComputationInv'
    <3>1. /\ pc[t] = "exhaust" /\ OnlyMoves(t) /\ pc'[t] \in {"idle"}
          /\ UNCHANGED <<receipt, process, bounds>>
      BY <2>6, WorkerMoves DEF Exhaust, Transition, Fail
    <3>2. \A k \in Keys : Harmless(k)
      BY <2>6, <2>a, <2>b, <2>d DEF Exhaust, Transition, CanMarkExhausted, Harmless
    <3>. QED
      BY <3>1, <3>2, OthersAreHarmless DEF OnlyMoves, Computing, Location
  <2>7. ASSUME NEW t \in Threads, Schedule(t) PROVE ComputationInv'
    <3>1. /\ pc[t] = "schedule" /\ OnlyMoves(t) /\ pc'[t] \in {"idle", "sleep", "wait"}
          /\ UNCHANGED <<receipt, process, bounds>>
      BY <2>7, WorkerMoves DEF Schedule, Transition, Fail
    <3>2. \A k \in Keys : Harmless(k)
      BY <2>7, <2>a, <2>b, <2>d DEF Schedule, Transition, CanScheduleRetry, Harmless
    <3>. QED
      BY <3>1, <3>2, OthersAreHarmless DEF OnlyMoves, Computing, Location
  <2>8. ASSUME NEW t \in Threads, MakeReady(t) PROVE ComputationInv'
    <3>1. /\ pc[t] = "sleep" /\ OnlyMoves(t) /\ pc'[t] \in {"idle", "loop"}
          /\ UNCHANGED <<receipt, process, bounds>>
      BY <2>8, WorkerMoves DEF MakeReady, Transition, Fail
    <3>2. \A k \in Keys : Harmless(k)
      BY <2>8, <2>a, <2>b, <2>d DEF MakeReady, Transition, CanMakeRetryReady, Harmless
    <3>. QED
      BY <3>1, <3>2, OthersAreHarmless DEF OnlyMoves, Computing, Location
  <2>9. ASSUME NEW t \in Threads, ListDue(t) PROVE ComputationInv'
    <3>1. /\ pc[t] = "wait" /\ pc' = [pc EXCEPT ![t] = "release"]
          /\ UNCHANGED <<op, receipt, process, job>>
          /\ \E due \in SUBSET RowsIn("retry_wait") : todo' = [todo EXCEPT ![t] = due]
      BY <2>9 DEF ListDue, database
    <3>2. pc'[t] = "release" /\ \A u \in Threads : u # t => pc'[u] = pc[u] /\ todo'[u] = todo[u]
      BY <3>1, <2>a
    <3>3. \A k \in Keys : Harmless(k)
      BY <3>1 DEF Harmless
    <3>. QED
      BY <3>1, <3>3, OthersAreHarmless DEF Computing, Location
  <2>10. ASSUME NEW t \in Threads, ReleaseOne(t) PROVE ComputationInv'
    <3>1. pc[t] = "release" /\ UNCHANGED <<receipt, process, pc, job>>
      BY <2>10 DEF ReleaseOne
    <3>2. PICK k \in todo[t] :
            /\ todo' = [todo EXCEPT ![t] = todo[t] \ {k}]
            /\ op' = [op EXCEPT ![k] =
                        CASE receipt[k] # 0 /\ CanMarkCompleted("cognition", @) -> MarkCompleted(@)
                          [] receipt[k] = 0 /\ CanMakeRetryReady(@) -> MakeRetryReady(@)
                          [] OTHER -> @]
      BY <2>10 DEF ReleaseOne
    <3>3. k \in Keys /\ \A j \in Keys : j # k => op'[j] = op[j]
      BY <3>2, <2>a
    <3>4. Harmless(k)
      <4>1. CASE receipt[k] # 0 /\ CanMarkCompleted("cognition", op[k])
        <5>1. op'[k].state = "completed" /\ op[k].state # "completed"
          BY <3>2, <4>1, <2>a, <2>b DEF CanMarkCompleted
        <5>. QED
          BY <3>3, <4>1, <5>1 DEF Harmless
      <4>2. CASE receipt[k] = 0 /\ CanMakeRetryReady(op[k])
        <5>1. op'[k].state = "prepared" /\ op[k].state = "retry_wait"
          BY <3>2, <4>2, <2>a, <2>b DEF CanMakeRetryReady
        <5>. QED
          BY <3>3, <4>2, <5>1 DEF Harmless
      <4>3. CASE /\ ~ (receipt[k] # 0 /\ CanMarkCompleted("cognition", op[k]))
                 /\ ~ (receipt[k] = 0 /\ CanMakeRetryReady(op[k]))
        BY <3>2, <3>3, <4>3, <2>a DEF Harmless
      <4>. QED
        BY <4>1, <4>2, <4>3
    <3>7. \A u \in Threads : u # t => todo'[u] = todo[u]
      BY <3>2, <2>a
    <3>8. \A j \in Keys : Harmless(j)
      BY <3>3, <3>4 DEF Harmless
    <3>. QED
      BY <3>1, <3>7, <3>8, <2>a, OthersAreHarmless DEF Computing
  <2>11. ASSUME NEW t \in Threads, Refresh(t) PROVE ComputationInv'
    <3>1. /\ pc[t] = "release" /\ OnlyMoves(t) /\ pc'[t] \in {"idle", "begin"}
          /\ UNCHANGED <<receipt, process, bounds>>
      BY <2>11, WorkerMoves DEF Refresh, Fail, AnswerStored, database
    <3>2. \A k \in Keys : Harmless(k)
      BY <2>11 DEF Refresh, database, Harmless
    <3>. QED
      BY <3>1, <3>2, OthersAreHarmless DEF OnlyMoves, Computing, Location
  <2>12. ASSUME NEW t \in Threads, BeginAttempt(t) PROVE ComputationInv'
    <3>1. /\ pc[t] = "begin" /\ OnlyMoves(t) /\ pc'[t] \in {"idle", "start"}
          /\ UNCHANGED <<receipt, process, bounds>>
      BY <2>12, WorkerMoves DEF BeginAttempt, Fail, AnswerStored, CompleteLate
    <3>2. \A k \in Keys : Harmless(k)
      BY <2>12, <2>a, <2>b DEF BeginAttempt, CompleteLate, Harmless
    <3>. QED
      BY <3>1, <3>2, OthersAreHarmless DEF OnlyMoves, Computing, Location
  <2>13. ASSUME NEW t \in Threads, Start(t) PROVE ComputationInv'
    <3>1. pc[t] = "start" /\ UNCHANGED <<receipt, service, interrupted, marked>>
      BY <2>13 DEF Start
    <3>2. CASE CanStartAttempt(op[K(t)])
      <4>1. /\ op' = [op EXCEPT ![K(t)] = StartAttempt(@)] /\ pc' = [pc EXCEPT ![t] = "compute"]
            /\ abandoned' = abandoned \ {K(t)} /\ UNCHANGED <<job, todo>>
        BY <2>13, <3>2 DEF Start
      <4>2. /\ op'[K(t)].state = "in_flight" /\ \A k \in Keys : k # K(t) => op'[k] = op[k]
            /\ pc'[t] = "compute" /\ \A u \in Threads : u # t => pc'[u] = pc[u]
        BY <4>1, <2>a, <2>b
      <4>3. op[K(t)].state = "prepared" /\ receipt[K(t)] = 0
        BY <3>2, <2>a, <2>d DEF CanStartAttempt
      <4>. QED
        BY <3>1, <4>1, <4>2, <4>3 DEF ComputationInv, ServingOnlyWhenUp, ComputersHoldRow,
               OneComputer, InFlightHasOwner, AbandonedRest, InterruptedInFlight,
               UnseenBeforeReserve, ResultKept, Computing, K, process
    <3>3. CASE ~ CanStartAttempt(op[K(t)])
      <4>1. OnlyMoves(t) /\ pc'[t] = "idle" /\ UNCHANGED <<op, abandoned>>
        BY <2>13, <3>3, WorkerMoves DEF Start, Fail
      <4>2. \A k \in Keys : Harmless(k)
        BY <4>1 DEF Harmless
      <4>. QED
        BY <3>1, <4>1, <4>2, OthersAreHarmless DEF OnlyMoves, Computing, Location, process
    <3>. QED
      BY <3>2, <3>3
  <2>14. ASSUME NEW t \in Threads, ComputeEnds(t) PROVE ComputationInv'
    <3>1. /\ pc[t] = "compute" /\ OnlyMoves(t) /\ pc'[t] \in {"save", "mark_failed"}
          /\ UNCHANGED <<op, receipt, process>>
      BY <2>14, WorkerMoves DEF ComputeEnds, database
    <3>. QED
      BY <3>1 DEF OnlyMoves, ComputationInv, ServingOnlyWhenUp, ComputersHoldRow, OneComputer,
             InFlightHasOwner, AbandonedRest, InterruptedInFlight, UnseenBeforeReserve,
             ResultKept, Computing, K, process
  <2>15. ASSUME NEW t \in Threads, MarkFailed(t) PROVE ComputationInv'
    <3>1. /\ pc[t] = "mark_failed" /\ op[K(t)].state = "in_flight" /\ receipt[K(t)] = 0
      BY <2>15 DEF MarkFailed, ComputationInv, ComputersHoldRow
    <3>2. /\ op' = [op EXCEPT ![K(t)] = MarkFailedSafe(@)] /\ pc' = [pc EXCEPT ![t] = "decide"]
          /\ UNCHANGED <<job, todo, receipt, process>>
      BY <2>15, <3>1 DEF MarkFailed, CanMarkFailedSafe
    <3>3. /\ op'[K(t)].state = "failed_safe" /\ \A k \in Keys : k # K(t) => op'[k] = op[k]
          /\ pc'[t] = "decide" /\ \A u \in Threads : u # t => pc'[u] = pc[u]
      BY <3>2, <2>a, <2>b
    <3>. QED
      BY <3>1, <3>2, <3>3 DEF ComputationInv, ServingOnlyWhenUp, ComputersHoldRow, OneComputer,
             InFlightHasOwner, AbandonedRest, InterruptedInFlight, UnseenBeforeReserve,
             ResultKept, Computing, K, process
  <2>16. ASSUME NEW t \in Threads, SaveReceipt(t) PROVE ComputationInv'
    <3>1. /\ pc[t] = "save" /\ OnlyMoves(t) /\ pc'[t] = "complete" /\ UNCHANGED <<op, process>>
          /\ \A k \in Keys : k # K(t) => receipt'[k] \in {0, receipt[k]}
      BY <2>16, WorkerMoves DEF SaveReceipt
    <3>2. op[K(t)].state = "in_flight"
      BY <3>1 DEF ComputationInv, ComputersHoldRow
    <3>3. \A u \in Threads : u # t /\ pc[u] \in Computing => K(u) # K(t)
      BY <3>1 DEF ComputationInv, OneComputer, Computing
    <3>4. \A u \in Threads : u # t /\ pc[u] \in {"compute", "mark_failed", "save"} => receipt'[K(u)] = 0
      BY <3>1, <3>3, <2>a DEF ComputationInv, ComputersHoldRow, Computing
    <3>. QED
      BY <3>1, <2>a DEF OnlyMoves, ComputationInv, ServingOnlyWhenUp, ComputersHoldRow,
             OneComputer, InFlightHasOwner, AbandonedRest, InterruptedInFlight,
             UnseenBeforeReserve, ResultKept, Computing, K, process
  <2>17. ASSUME NEW t \in Threads, Complete(t) PROVE ComputationInv'
    <3>1. /\ pc[t] = "complete" /\ OnlyMoves(t) /\ pc'[t] = "idle" /\ UNCHANGED <<receipt, process>>
          /\ op[K(t)].state \in {"in_flight", "completed"}
      BY <2>17, WorkerMoves DEF Complete, ComputationInv, ComputersHoldRow
    <3>2. op'[K(t)].state = "completed" /\ \A k \in Keys : k # K(t) => op'[k] = op[k]
      BY <2>17, <3>1, <2>a, <2>b DEF Complete, CanMarkCompleted
    <3>3. \A u \in Threads : u # t /\ pc[u] \in Computing => K(u) # K(t)
      BY <3>1 DEF ComputationInv, OneComputer, Computing
    <3>. QED
      BY <3>1, <3>2, <2>a DEF OnlyMoves, ComputationInv, ServingOnlyWhenUp, ComputersHoldRow,
             OneComputer, InFlightHasOwner, AbandonedRest, InterruptedInFlight,
             UnseenBeforeReserve, ResultKept, Computing, K, process
  <2>25. ASSUME NEW t \in Threads, CallFails(t) PROVE ComputationInv'
    <3>1. /\ pc[t] # "idle" /\ OnlyMoves(t) /\ pc'[t] = "idle"
          /\ UNCHANGED <<op, receipt, service, interrupted, marked>>
          /\ abandoned' = IF pc[t] \in Computing THEN abandoned \cup {K(t)} ELSE abandoned
      BY <2>25, WorkerMoves DEF CallFails, Fail, database
    <3>2. service = "up"
      BY <3>1 DEF ComputationInv, ServingOnlyWhenUp
    <3>3. \A u \in Threads : u # t /\ pc[t] \in Computing /\ pc[u] \in Computing => K(u) # K(t)
      BY DEF ComputationInv, OneComputer
    <3>4. InFlightHasOwner' /\ AbandonedRest'
      BY <3>1, <3>2, <3>3 DEF OnlyMoves, ComputationInv, InFlightHasOwner, AbandonedRest,
             Computing, K
    <3>. QED
      BY <3>1, <3>2, <3>4 DEF OnlyMoves, ComputationInv, ServingOnlyWhenUp, ComputersHoldRow,
             OneComputer, InterruptedInFlight, UnseenBeforeReserve, ResultKept, Computing, K
  <2>18. CASE Crash
    <3>1. /\ service' = "down" /\ interrupted' = {} /\ marked' = NoKey /\ UNCHANGED <<op, receipt, job>>
          /\ \A t \in Threads : pc'[t] = "idle" /\ todo'[t] = {}
      BY <2>18 DEF Crash, database
    <3>. QED
      BY <3>1 DEF ComputationInv, ServingOnlyWhenUp, ComputersHoldRow, OneComputer,
             InFlightHasOwner, AbandonedRest, InterruptedInFlight, UnseenBeforeReserve,
             ResultKept, Computing
  <2>19. CASE Restart
    <3>1. /\ service = "down" /\ service' = "recovering" /\ UNCHANGED <<op, receipt, job, pc, todo, marked>>
          /\ interrupted' = {k \in Keys : op[k].state = "in_flight"}
      BY <2>19 DEF Restart, RowsIn, database, worker
    <3>2. \A t \in Threads : pc[t] = "idle"
      BY <3>1 DEF ComputationInv, ServingOnlyWhenUp
    <3>. QED
      BY <3>1 DEF ComputationInv, ServingOnlyWhenUp, ComputersHoldRow, OneComputer,
             InFlightHasOwner, AbandonedRest, InterruptedInFlight, UnseenBeforeReserve,
             ResultKept, Computing, K
  <2>20. CASE RecoverRow
    <3>1. PICK k \in interrupted :
            /\ interrupted' = interrupted \ {k}
            /\ op' = [op EXCEPT ![k] = IF receipt[k] # 0 THEN MarkCompleted(@) ELSE MarkFailedSafe(@)]
            /\ marked' = IF receipt[k] # 0 THEN NoKey ELSE k
      BY <2>20 DEF RecoverRow
    <3>2. /\ service = "recovering" /\ marked = NoKey /\ UNCHANGED <<receipt, service, job, pc, todo>>
      BY <2>20 DEF RecoverRow, worker
    <3>3. k \in Keys /\ \A j \in Keys : j # k => op'[j] = op[j]
      BY <3>1, <2>a
    <3>4. op'[k].state = IF receipt[k] # 0 THEN "completed" ELSE "failed_safe"
      BY <3>1, <3>3, <2>a, <2>b
    <3>5. \A t \in Threads : pc[t] = "idle"
      BY <3>2 DEF ComputationInv, ServingOnlyWhenUp
    <3>. QED
      BY <3>1, <3>2, <3>4 DEF ComputationInv, ServingOnlyWhenUp, ComputersHoldRow, OneComputer,
             InFlightHasOwner, AbandonedRest, InterruptedInFlight, UnseenBeforeReserve,
             ResultKept, Computing, K
  <2>21. CASE RecoverSchedule
    <3>1. /\ service = "recovering" /\ marked # NoKey /\ marked' = NoKey
          /\ UNCHANGED <<receipt, service, interrupted, job, pc, todo>>
      BY <2>21 DEF RecoverSchedule, worker
    <3>2. marked \in Keys /\ op[marked].state = "failed_safe"
      BY <3>1, <2>a DEF ComputationInv, InterruptedInFlight
    <3>3. \A k \in Keys : k # marked => op'[k] = op[k]
      BY <2>21, <2>a DEF RecoverSchedule
    <3>4. op'[marked] \in {MarkCompleted(op[marked]), MarkExhausted(op[marked]), ScheduleRetry(op[marked])}
      BY <2>21, <2>a, <3>2 DEF RecoverSchedule
    <3>5. op'[marked].state \in {"completed", "exhausted", "retry_wait"}
      BY <3>2, <3>4, <2>b
    <3>6. receipt[marked] = 0
      BY <3>2, <2>d
    <3>7. \A t \in Threads : pc[t] = "idle"
      BY <3>1 DEF ComputationInv, ServingOnlyWhenUp
    <3>8. \A k \in interrupted : k # marked
      BY <3>1, <3>2 DEF ComputationInv, InterruptedInFlight
    <3>. QED
      BY <3>1, <3>3, <3>5, <2>a DEF ComputationInv, ServingOnlyWhenUp, ComputersHoldRow,
             OneComputer, InFlightHasOwner, AbandonedRest, InterruptedInFlight,
             UnseenBeforeReserve, ResultKept, Computing, K
  <2>22. CASE OpenSocket
    <3>1. /\ service = "recovering" /\ interrupted = {} /\ marked = NoKey /\ service' = "up"
          /\ UNCHANGED <<op, receipt, interrupted, marked, job, pc, todo>>
      BY <2>22 DEF OpenSocket, database, worker
    <3>. QED
      BY <3>1 DEF ComputationInv, ServingOnlyWhenUp, ComputersHoldRow, OneComputer,
             InFlightHasOwner, AbandonedRest, InterruptedInFlight, UnseenBeforeReserve,
             ResultKept, Computing, K
  <2>23. CASE Purge
    <3>1. PICK k \in Keys :
            /\ op[k].state \in Terminal
            /\ \A t \in Threads : pc[t] = "idle" \/ K(t) # k
            /\ op' = [op EXCEPT ![k] = NoOperation]
      BY <2>23 DEF Purge, Purgeable
    <3>2. UNCHANGED <<receipt, process, job, pc, todo>>
      BY <2>23 DEF Purge, worker
    <3>3. op'[k].state = "absent" /\ \A j \in Keys : j # k => op'[j] = op[j]
      BY <3>1, <2>a DEF NoOperation
    <3>4. op[k].state \in {"completed", "exhausted"}
      BY <3>1 DEF Terminal
    <3>. QED
      BY <3>1, <3>2, <3>3, <3>4 DEF ComputationInv, ServingOnlyWhenUp, ComputersHoldRow,
             OneComputer, InFlightHasOwner, AbandonedRest, InterruptedInFlight,
             UnseenBeforeReserve, ResultKept, K, process
  <2>24. CASE UNCHANGED vars
    BY <2>24 DEF vars, database, process, worker, ComputationInv, ServingOnlyWhenUp,
           ComputersHoldRow, OneComputer, InFlightHasOwner, AbandonedRest, InterruptedInFlight,
           UnseenBeforeReserve, ResultKept, K
  <2>. QED
    BY <2>1, <2>2, <2>3, <2>4, <2>5, <2>6, <2>7, <2>8, <2>9, <2>10, <2>11, <2>12,
       <2>13, <2>14, <2>15, <2>16, <2>17, <2>18, <2>19, <2>20, <2>21, <2>22, <2>23, <2>24,
       <2>25 DEF Next, ThreadStep, StartUp
<1>3. QED
  BY <1>1, <1>2, TypeCorrect, PTL DEF Spec

\* Two requests never have one task computed at a time, and once the socket is
\* open a row in flight has a thread that computes it or lost it to an exception.
THEOREM NeverComputedTwice == Spec => []OneComputation
<1>1. ComputationInv => OneComputation
  BY DEF ComputationInv, OneComputer, InFlightHasOwner, AbandonedRest, OneComputation
<1>2. QED
  BY <1>1, ComputationInvariant, PTL

\* A stored result is never computed again or given up.
THEOREM ResultIsKept == Spec => []ResultKept
<1>1. ComputationInv => ResultKept
  BY DEF ComputationInv
<1>2. QED
  BY <1>1, ComputationInvariant, PTL

-----------------------------------------------------------------------------
(* Answers.  Where two keys share a task id one receipt replaces the other   *)
(* (cognition_shared_task), so this is about keys with tasks of their own.   *)

AnswerInv ==
    /\ \A t \in Threads : pc[t] = "complete" => receipt[K(t)] = result[t]
    /\ AnswersAgree

\* A thread that saves nothing and answers with what is stored keeps the answers.
LEMMA AnswerStep ==
    ASSUME AnswerInv, NEW t \in Threads, OnlyMoves(t), pc'[t] # "complete",
           reply'[t] \in {0, reply[t], receipt[K(t)]}, UNCHANGED receipt
    PROVE  AnswerInv'
BY DEF AnswerInv, AnswersAgree, OnlyMoves, K

\* All clients that were answered for a key hold the receipt that is stored.
THEOREM AnswersDoAgree ==
    ASSUME \A j, k \in Keys : TaskOf[j] = TaskOf[k] => j = k
    PROVE  Spec => []AnswersAgree
<1>1. Init => AnswerInv
  BY DEF Init, AnswerInv, AnswersAgree
<1>2. TypeOK /\ ComputationInv /\ AnswerInv /\ [Next]_vars => AnswerInv'
  <2> SUFFICES ASSUME TypeOK, ComputationInv, AnswerInv, [Next]_vars PROVE AnswerInv'
    OBVIOUS
  <2>a. /\ pc \in [Threads -> Location] /\ job \in [Threads -> Keys]
        /\ result \in [Threads -> Nat] /\ reply \in [Threads -> Nat]
        /\ receipt \in [Keys -> Nat] /\ \A t \in Threads : K(t) \in Keys
    BY DEF TypeOK, K
  <2>1. ASSUME NEW t \in Threads, Receive(t) PROVE AnswerInv'
    <3>1. /\ UNCHANGED <<receipt, result>> /\ reply'[t] = 0 /\ pc'[t] = "dedupe"
          /\ \A u \in Threads : u # t => pc'[u] = pc[u] /\ job'[u] = job[u] /\ reply'[u] = reply[u]
      BY <2>1, <2>a DEF Receive, database
    <3>. QED
      BY <3>1 DEF AnswerInv, AnswersAgree, K
  <2>2. ASSUME NEW t \in Threads, Dedupe(t) PROVE AnswerInv'
    <3>1. /\ OnlyMoves(t) /\ pc'[t] # "complete" /\ UNCHANGED receipt
          /\ reply'[t] \in {0, reply[t], receipt[K(t)]}
      BY <2>2, WorkerMoves DEF Dedupe, database, AnswerStored
    <3>. QED
      BY <3>1, AnswerStep
  <2>3. ASSUME NEW t \in Threads, ReserveOperation(t) PROVE AnswerInv'
    <3>1. /\ OnlyMoves(t) /\ pc'[t] # "complete" /\ UNCHANGED receipt
          /\ reply'[t] \in {0, reply[t], receipt[K(t)]}
      BY <2>3, WorkerMoves DEF ReserveOperation
    <3>. QED
      BY <3>1, AnswerStep
  <2>4. ASSUME NEW t \in Threads, TryAgain(t) PROVE AnswerInv'
    <3>1. /\ OnlyMoves(t) /\ pc'[t] # "complete" /\ UNCHANGED receipt
          /\ reply'[t] \in {0, reply[t], receipt[K(t)]}
      BY <2>4, WorkerMoves DEF TryAgain, database, Fail, AnswerStored
    <3>. QED
      BY <3>1, AnswerStep
  <2>5. ASSUME NEW t \in Threads, Decide(t) PROVE AnswerInv'
    <3>1. /\ OnlyMoves(t) /\ pc'[t] # "complete" /\ UNCHANGED receipt
          /\ reply'[t] \in {0, reply[t], receipt[K(t)]}
      BY <2>5, WorkerMoves DEF Decide, Fail, AnswerStored, CompleteLate
    <3>. QED
      BY <3>1, AnswerStep
  <2>6. ASSUME NEW t \in Threads, Exhaust(t) PROVE AnswerInv'
    <3>1. /\ OnlyMoves(t) /\ pc'[t] # "complete" /\ UNCHANGED receipt
          /\ reply'[t] \in {0, reply[t], receipt[K(t)]}
      BY <2>6, WorkerMoves DEF Exhaust, Transition, Fail
    <3>. QED
      BY <3>1, AnswerStep
  <2>7. ASSUME NEW t \in Threads, Schedule(t) PROVE AnswerInv'
    <3>1. /\ OnlyMoves(t) /\ pc'[t] # "complete" /\ UNCHANGED receipt
          /\ reply'[t] \in {0, reply[t], receipt[K(t)]}
      BY <2>7, WorkerMoves DEF Schedule, Transition, Fail
    <3>. QED
      BY <3>1, AnswerStep
  <2>8. ASSUME NEW t \in Threads, MakeReady(t) PROVE AnswerInv'
    <3>1. /\ OnlyMoves(t) /\ pc'[t] # "complete" /\ UNCHANGED receipt
          /\ reply'[t] \in {0, reply[t], receipt[K(t)]}
      BY <2>8, WorkerMoves DEF MakeReady, Transition, Fail
    <3>. QED
      BY <3>1, AnswerStep
  <2>9. ASSUME NEW t \in Threads, ListDue(t) PROVE AnswerInv'
    <3>1. /\ UNCHANGED <<receipt, result, reply, job>> /\ pc'[t] = "release"
          /\ \A u \in Threads : u # t => pc'[u] = pc[u]
      BY <2>9, <2>a DEF ListDue, database
    <3>. QED
      BY <3>1 DEF AnswerInv, AnswersAgree, K
  <2>10. ASSUME NEW t \in Threads, ReleaseOne(t) PROVE AnswerInv'
    BY <2>10 DEF ReleaseOne, AnswerInv, AnswersAgree, K
  <2>11. ASSUME NEW t \in Threads, Refresh(t) PROVE AnswerInv'
    <3>1. /\ OnlyMoves(t) /\ pc'[t] # "complete" /\ UNCHANGED receipt
          /\ reply'[t] \in {0, reply[t], receipt[K(t)]}
      BY <2>11, WorkerMoves DEF Refresh, database, Fail, AnswerStored
    <3>. QED
      BY <3>1, AnswerStep
  <2>12. ASSUME NEW t \in Threads, BeginAttempt(t) PROVE AnswerInv'
    <3>1. /\ OnlyMoves(t) /\ pc'[t] # "complete" /\ UNCHANGED receipt
          /\ reply'[t] \in {0, reply[t], receipt[K(t)]}
      BY <2>12, WorkerMoves DEF BeginAttempt, Fail, AnswerStored, CompleteLate
    <3>. QED
      BY <3>1, AnswerStep
  <2>13. ASSUME NEW t \in Threads, Start(t) PROVE AnswerInv'
    <3>1. CASE CanStartAttempt(op[K(t)])
      <4>1. OnlyMoves(t) /\ pc'[t] = "compute" /\ reply'[t] = reply[t] /\ UNCHANGED receipt
        BY <2>13, <2>a, <3>1 DEF Start, OnlyMoves
      <4>. QED
        BY <4>1, AnswerStep
    <3>2. CASE ~ CanStartAttempt(op[K(t)])
      <4>1. OnlyMoves(t) /\ pc'[t] = "idle" /\ reply'[t] = 0 /\ UNCHANGED receipt
        BY <2>13, <3>2, WorkerMoves DEF Start, Fail
      <4>. QED
        BY <4>1, AnswerStep
    <3>. QED
      BY <3>1, <3>2
  <2>14. ASSUME NEW t \in Threads, ComputeEnds(t) PROVE AnswerInv'
    <3>1. /\ OnlyMoves(t) /\ pc'[t] # "complete" /\ UNCHANGED receipt
          /\ reply'[t] \in {0, reply[t], receipt[K(t)]}
      BY <2>14, WorkerMoves DEF ComputeEnds, database
    <3>. QED
      BY <3>1, AnswerStep
  <2>15. ASSUME NEW t \in Threads, MarkFailed(t) PROVE AnswerInv'
    <3>1. CASE CanMarkFailedSafe(op[K(t)])
      <4>1. OnlyMoves(t) /\ pc'[t] = "decide" /\ reply'[t] = reply[t] /\ UNCHANGED receipt
        BY <2>15, <2>a, <3>1 DEF MarkFailed, OnlyMoves
      <4>. QED
        BY <4>1, AnswerStep
    <3>2. CASE ~ CanMarkFailedSafe(op[K(t)])
      <4>1. OnlyMoves(t) /\ pc'[t] = "idle" /\ reply'[t] = 0 /\ UNCHANGED receipt
        BY <2>15, <3>2, WorkerMoves DEF MarkFailed, Fail
      <4>. QED
        BY <4>1, AnswerStep
    <3>. QED
      BY <3>1, <3>2
  <2>16. ASSUME NEW t \in Threads, SaveReceipt(t) PROVE AnswerInv'
    <3>1. /\ pc[t] = "save" /\ OnlyMoves(t) /\ pc'[t] = "complete"
          /\ result'[t] = result[t] /\ reply'[t] = reply[t]
      BY <2>16, WorkerMoves DEF SaveReceipt
    <3>2. receipt'[K(t)] = result[t] /\ \A k \in Keys : k # K(t) => receipt'[k] = receipt[k]
      BY <2>16, <2>a DEF SaveReceipt
    <3>3. receipt[K(t)] = 0
      BY <3>1 DEF ComputationInv, ComputersHoldRow
    <3>4. \A u \in Threads : K(u) = K(t) => reply[u] = 0
      BY <3>3 DEF AnswerInv, AnswersAgree
    <3>5. \A u \in Threads : u # t /\ pc[u] = "complete" => K(u) # K(t)
      BY <3>1 DEF ComputationInv, OneComputer, Computing
    <3>. QED
      BY <3>1, <3>2, <3>4, <3>5, <2>a DEF OnlyMoves, AnswerInv, AnswersAgree, K
  <2>17. ASSUME NEW t \in Threads, Complete(t) PROVE AnswerInv'
    <3>1. /\ pc[t] = "complete" /\ OnlyMoves(t) /\ pc'[t] = "idle"
          /\ reply'[t] \in {0, result[t]} /\ UNCHANGED receipt
      BY <2>17, WorkerMoves DEF Complete
    <3>2. reply'[t] \in {0, receipt[K(t)]}
      BY <3>1 DEF AnswerInv
    <3>. QED
      BY <3>1, <3>2, AnswerStep
  <2>25. ASSUME NEW t \in Threads, CallFails(t) PROVE AnswerInv'
    <3>1. OnlyMoves(t) /\ pc'[t] = "idle" /\ reply'[t] = 0 /\ UNCHANGED receipt
      BY <2>25, WorkerMoves DEF CallFails, Fail, database
    <3>. QED
      BY <3>1, AnswerStep
  <2>18. CASE Crash
    <3>1. UNCHANGED <<receipt, reply, job>> /\ \A t \in Threads : pc'[t] = "idle"
      BY <2>18 DEF Crash, database
    <3>. QED
      BY <3>1 DEF AnswerInv, AnswersAgree, K
  <2>19. CASE Restart
    BY <2>19 DEF Restart, database, worker, AnswerInv, AnswersAgree, K
  <2>20. CASE RecoverRow
    BY <2>20 DEF RecoverRow, worker, AnswerInv, AnswersAgree, K
  <2>21. CASE RecoverSchedule
    BY <2>21 DEF RecoverSchedule, worker, AnswerInv, AnswersAgree, K
  <2>22. CASE OpenSocket
    BY <2>22 DEF OpenSocket, database, worker, AnswerInv, AnswersAgree, K
  <2>23. CASE Purge
    BY <2>23 DEF Purge, worker, AnswerInv, AnswersAgree, K
  <2>24. CASE UNCHANGED vars
    BY <2>24 DEF vars, database, worker, AnswerInv, AnswersAgree, K
  <2>. QED
    BY <2>1, <2>2, <2>3, <2>4, <2>5, <2>6, <2>7, <2>8, <2>9, <2>10, <2>11, <2>12,
       <2>13, <2>14, <2>15, <2>16, <2>17, <2>18, <2>19, <2>20, <2>21, <2>22, <2>23, <2>24,
       <2>25 DEF Next, ThreadStep, StartUp
<1>3. AnswerInv => AnswersAgree
  BY DEF AnswerInv
<1>4. QED
  BY <1>1, <1>2, <1>3, TypeCorrect, ComputationInvariant, PTL DEF Spec
=============================================================================
