----------------------- MODULE PerceptDelivery_proofs -----------------------
(***************************************************************************)
(* Proofs about PerceptDelivery for any number of submitters, pumps, keys, *)
(* attempts and crashes, and for every batch limit.                        *)
(***************************************************************************)
EXTENDS PerceptDelivery, FiniteSetTheorems, TLAPS

\* A worker in a call works on a row, and a pump goes on with a loop it is in:
\* without these two the steps would read rows and loops that do not exist.
BusyHaveKey == \A w \in Workers : pc[w] \notin {"idle", "next"} => key[w] \in Keys
NextInLoop == \A w \in Workers : pc[w] = "next" => phase[w] # "none"

TypeInv == TypeOK /\ BusyHaveKey /\ NextInLoop

\* The part of it that the steps of one worker can disturb.
WorkersTyped ==
    /\ pc \in [Workers -> Location]
    /\ key \in [Workers -> Keys \cup {NoKey}]
    /\ phase \in [Workers -> Sweep \cup {"deliver", "none"}]
    /\ todo \in [Workers -> SUBSET Keys]
    /\ BusyHaveKey /\ NextInLoop

\* A worker that stays in its call, or ends it.
InCall(w) == \E l \in Location \ {"idle", "next"} : Goto(w, l)
EndsCall(w) == Return(w) \/ Stop(w)

\* A worker that goes on, returns or stops keeps the workers' types.
LEMMA WorkerKeepsTypes ==
    ASSUME TypeInv, NEW w \in Workers,
           (pc[w] \notin {"idle", "next"} /\ InCall(w)) \/ EndsCall(w)
    PROVE  WorkersTyped'
<1> USE DEF TypeInv, TypeOK, WorkersTyped, BusyHaveKey, NextInLoop
<1>1. CASE pc[w] \notin {"idle", "next"} /\ InCall(w)
  BY <1>1 DEF InCall, Goto
<1>2. CASE Return(w)
  BY <1>2 DEF Return, Location
<1>3. CASE Stop(w)
  BY <1>3 DEF Stop, Location
<1>. QED
  BY <1>1, <1>2, <1>3 DEF EndsCall

\* What one step of a call writes: at most the row and the envelope of its key.
LEMMA AttemptStepWrites ==
    ASSUME TypeInv, NEW w \in Workers, AttemptStep(w)
    PROVE  /\ pc[w] \notin {"idle", "next"}
           /\ InCall(w) \/ EndsCall(w)
           /\ op' = op \/ \E row \in Row : op' = [op EXCEPT ![key[w]] = row]
           /\ due' = due \/ due' = [due EXCEPT ![key[w]] = FALSE]
           /\ outbox' = outbox \/ outbox' = outbox \ {key[w]}
           /\ \/ answer' = answer
              \/ \E a \in Acknowledgement : answer' = [answer EXCEPT ![key[w]] = a]
           /\ sends' = sends \/ sends' = [sends EXCEPT ![key[w]] = sends[key[w]] + 1]
           /\ UNCHANGED bounds
<1> USE DEF store, ghosts, InCall, EndsCall, Location
<1>1. pc[w] \notin {"idle", "next"}
  BY DEF AttemptStep, Load, MakeReady, BeginAttempt, GetPayload, SendAcknowledged, SendFails,
         Complete, ClearOutbox, LoadFailed, MarkFailed, Decide, Schedule, Exhaust
<1>2. /\ key[w] \in Keys /\ op[key[w]] \in Row
      /\ StartAttempt(op[key[w]]) \in Row /\ MarkCompleted(op[key[w]]) \in Row
      /\ MarkFailedSafe(op[key[w]]) \in Row /\ ScheduleRetry(op[key[w]]) \in Row
      /\ MakeRetryReady(op[key[w]]) \in Row /\ MarkExhausted(op[key[w]]) \in Row
  <2>1. key[w] \in Keys /\ op[key[w]] \in Row
    BY <1>1 DEF TypeInv, TypeOK, BusyHaveKey
  <2>2. op[key[w]] \in [state : OperationState \cup {"absent"}, attempt : Nat]
    BY <2>1 DEF Row, Operation, NoOperation
  <2>3. StartAttempt(op[key[w]]) \in Row
    BY <2>2 DEF Row, Operation, OperationState, StartAttempt
  <2>4. \A s \in OperationState : [op[key[w]] EXCEPT !.state = s] \in Row
    BY <2>2 DEF Row, Operation
  <2>. QED
    BY <2>1, <2>3, <2>4 DEF OperationState, MarkCompleted, MarkFailedSafe, ScheduleRetry,
           MakeRetryReady, MarkExhausted
<1>3. CASE Load(w)
  BY <1>1, <1>3 DEF Load
<1>4. CASE MakeReady(w)
  BY <1>1, <1>2, <1>4 DEF MakeReady
<1>5. CASE BeginAttempt(w)
  BY <1>1, <1>2, <1>5 DEF BeginAttempt
<1>6. CASE GetPayload(w)
  BY <1>1, <1>6 DEF GetPayload
<1>7. CASE SendAcknowledged(w)
  <2>1. PICK a \in Acknowledgement :
          answer' = [answer EXCEPT ![key[w]] = IF @ = "persisted" THEN @ ELSE a]
    BY <1>7 DEF SendAcknowledged
  <2>2. \E b \in Acknowledgement : answer' = [answer EXCEPT ![key[w]] = b]
    BY <2>1 DEF Acknowledgement
  <2>. QED
    BY <1>1, <1>7, <2>2 DEF SendAcknowledged
<1>8. CASE SendFails(w)
  BY <1>1, <1>8 DEF SendFails
<1>9. CASE Complete(w)
  BY <1>2, <1>9 DEF Complete, Transition, Conflict
<1>10. CASE ClearOutbox(w)
  BY <1>1, <1>10 DEF ClearOutbox
<1>11. CASE LoadFailed(w)
  BY <1>1, <1>11 DEF LoadFailed
<1>12. CASE MarkFailed(w)
  BY <1>2, <1>12 DEF MarkFailed, Transition, Conflict
<1>13. CASE Decide(w)
  BY <1>1, <1>13 DEF Decide, Conflict
<1>14. CASE Schedule(w)
  BY <1>1, <1>2, <1>14 DEF Schedule, Conflict
<1>15. CASE Exhaust(w)
  BY <1>1, <1>2, <1>15 DEF Exhaust, Conflict
<1>. QED
  BY <1>3, <1>4, <1>5, <1>6, <1>7, <1>8, <1>9, <1>10, <1>11, <1>12, <1>13, <1>14, <1>15
     DEF AttemptStep

\* Every variable keeps its type; in particular no step of a worker reads the
\* row of NoKey, and no pump is in a loop pump() does not have.
THEOREM TypeCorrect == Spec => []TypeInv
<1>1. Init => TypeInv
  BY PerceptAssumption DEF Init, TypeInv, TypeOK, BusyHaveKey, NextInLoop, Row, Location
<1>2. TypeInv /\ [Next]_vars => TypeInv'
  <2> SUFFICES ASSUME TypeInv, [Next]_vars PROVE TypeInv'
    OBVIOUS
  <2>a. TypeOK /\ BusyHaveKey /\ NextInLoop
    BY DEF TypeInv
  <2>b. Reserved \in Row /\ NoOperation \in Row
    BY DEF Row, Operation, OperationState, Reserved
  <2>1. ASSUME NEW s \in Submitters, Submit(s) PROVE TypeInv'
    <3>0. s \in Workers
      BY DEF Workers
    <3>1. PICK k \in Keys :
            /\ \/ /\ op[k] = NoOperation /\ rows < MaxRows
                  /\ op' = [op EXCEPT ![k] = Reserved]
                  /\ outbox' = outbox \cup {k}
                  /\ rows' = rows + 1
               \/ UNCHANGED <<op, outbox, rows>>
            /\ key' = [key EXCEPT ![s] = k]
      BY <2>1 DEF Submit
    <3>2. /\ pc' = [pc EXCEPT ![s] = "load"]
          /\ UNCHANGED <<due, phase, todo, ghosts, crashes>>
      BY <2>1 DEF Submit
    <3>3. op' \in [Keys -> Row] /\ outbox' \subseteq Keys /\ rows' \in 0..MaxRows
      BY <2>a, <2>b, <3>1, PerceptAssumption DEF TypeOK
    <3>4. WorkersTyped'
      BY <2>a, <3>1, <3>2 DEF TypeOK, WorkersTyped, BusyHaveKey, NextInLoop, Location
    <3>. QED
      BY <3>2, <3>3, <3>4 DEF TypeInv, TypeOK, WorkersTyped, ghosts
  <2>2. ASSUME NEW p \in Pumps, PumpStep(p) PROVE TypeInv'
    <3>0. p \in Workers
      BY DEF Workers
    <3>1. ASSUME NEW loop \in Sweep \cup {"deliver"}, NEW list \in SUBSET Keys,
                 Enter(p, loop, list)
          PROVE  TypeInv'
      BY <3>1 DEF Enter, TypeInv, TypeOK, BusyHaveKey, NextInLoop, Location, Sweep, store, ghosts,
             bounds
    <3>2. ASSUME Stop(p), UNCHANGED <<store, ghosts, bounds>> PROVE TypeInv'
      BY <3>0, <3>2, WorkerKeepsTypes DEF EndsCall, TypeInv, TypeOK, WorkersTyped, store, ghosts,
             bounds
    <3>3. /\ \A s : RowsIn(s) \in SUBSET Keys
          /\ \A n : \A S \in SUBSET Keys : First(n, S) \in SUBSET S
          /\ DueBatches \subseteq SUBSET Keys
      BY DEF RowsIn, First, DueBatches
    <3>4. CASE StartPump(p)
      BY <3>1, <3>3, <3>4 DEF StartPump, Sweep
    <3>5. CASE NextLoop(p)
      <4>1. outbox \in SUBSET Keys
        BY <2>a DEF TypeOK
      <4>2. \/ Stop(p) /\ UNCHANGED <<store, ghosts, bounds>>
            \/ \E loop \in Sweep \cup {"deliver"}, list \in SUBSET Keys : Enter(p, loop, list)
        BY <3>3, <3>5, <4>1 DEF NextLoop, Sweep
      <4>. QED
        BY <3>1, <3>2, <4>2
    <3>6. CASE NextRow(p)
      <4>1. PICK k \in Keys :
              /\ todo' = [todo EXCEPT ![p] = todo[p] \ {k}]
              /\ IF phase[p] = "deliver" /\ op[k].state # "prepared"
                 THEN UNCHANGED <<pc, key>>
                 ELSE /\ key' = [key EXCEPT ![p] = k]
                      /\ pc' = [pc EXCEPT ![p] =
                                  CASE phase[p] = "recover" -> "mark_failed"
                                    [] phase[p] = "pending" -> "decide"
                                    [] phase[p] = "release" -> "ready"
                                    [] phase[p] = "deliver" -> "load"]
        <5>1. todo[p] \in SUBSET Keys
          BY <2>a, <3>0 DEF TypeOK
        <5>. QED
          BY <3>3, <3>6, <5>1 DEF NextRow
      <4>2. pc[p] = "next" /\ phase[p] \in Sweep \cup {"deliver"}
        BY <2>a, <3>0, <3>6 DEF NextRow, NextInLoop, TypeOK
      <4>3. UNCHANGED <<store, phase, ghosts, bounds>>
        BY <3>6 DEF NextRow
      <4>4. WorkersTyped'
        BY <2>a, <3>0, <4>1, <4>2, <4>3 DEF TypeOK, WorkersTyped, BusyHaveKey, NextInLoop, Location,
               Sweep
      <4>. QED
        BY <4>3, <4>4 DEF TypeInv, TypeOK, WorkersTyped, store, ghosts, bounds
    <3>. QED
      BY <2>2, <3>4, <3>5, <3>6 DEF PumpStep
  <2>3. ASSUME NEW w \in Workers, AttemptStep(w) PROVE TypeInv'
    <3>1. /\ pc[w] \notin {"idle", "next"}
          /\ InCall(w) \/ EndsCall(w)
          /\ op' = op \/ \E row \in Row : op' = [op EXCEPT ![key[w]] = row]
          /\ due' = due \/ due' = [due EXCEPT ![key[w]] = FALSE]
          /\ outbox' = outbox \/ outbox' = outbox \ {key[w]}
          /\ \/ answer' = answer
             \/ \E a \in Acknowledgement : answer' = [answer EXCEPT ![key[w]] = a]
          /\ sends' = sends \/ sends' = [sends EXCEPT ![key[w]] = sends[key[w]] + 1]
          /\ UNCHANGED bounds
      BY <2>3, AttemptStepWrites
    <3>2. WorkersTyped' /\ key[w] \in Keys
      BY <2>a, <3>1, WorkerKeepsTypes DEF BusyHaveKey
    <3>3. op' \in [Keys -> Row]
      BY <2>a, <3>1 DEF TypeOK
    <3>4. due' \in [Keys -> BOOLEAN]
      BY <2>a, <3>1 DEF TypeOK
    <3>5. sends' \in [Keys -> Nat] /\ answer' \in [Keys -> {"none"} \cup Acknowledgement]
      BY <2>a, <3>1, <3>2 DEF TypeOK
    <3>. QED
      BY <3>1, <3>2, <3>4 DEF TypeInv, TypeOK, WorkersTyped, bounds
  <2>4. ASSUME NEW w \in Workers, Crash(w) PROVE TypeInv'
    <3>1. WorkersTyped' /\ crashes' \in 0..MaxCrashes
      BY <2>a, <2>4, WorkerKeepsTypes, PerceptAssumption DEF Crash, EndsCall, TypeOK
    <3>. QED
      BY <2>4, <3>1 DEF Crash, TypeInv, TypeOK, WorkersTyped, store, ghosts
  <2>5. CASE BackoffEnds
    BY <2>5 DEF BackoffEnds, TypeInv, TypeOK, BusyHaveKey, NextInLoop, ghosts, worker, bounds
  <2>7. CASE Purge
    <3>1. /\ op' \in [Keys -> Row] /\ outbox' \subseteq Keys /\ sends' \in [Keys -> Nat]
          /\ answer' \in [Keys -> {"none"} \cup Acknowledgement]
      BY <2>a, <2>b, <2>7 DEF Purge, TypeOK
    <3>. QED
      BY <2>7, <3>1 DEF Purge, TypeInv, TypeOK, BusyHaveKey, NextInLoop, ghosts, worker, bounds
  <2>8. CASE UNCHANGED vars
    BY <2>8 DEF vars, TypeInv, TypeOK, BusyHaveKey, NextInLoop, store, ghosts, worker, bounds
  <2>. QED
    BY <2>1, <2>2, <2>3, <2>4, <2>5, <2>7, <2>8 DEF Next
<1>3. QED
  BY <1>1, <1>2, PTL DEF Spec

-----------------------------------------------------------------------------
(* The envelope and the Runtime's answer.  Neither CompletedWasAcknowledged   *)
(* nor PayloadKept is inductive: between the answer and the commit, and       *)
(* between the commit and the clean-up, what was learned is only in the       *)
(* worker.                                                                    *)

\* The Runtime said ok before anybody sets out to complete a row, and since the
\* row was reserved: the purge waits for whoever learned it.
AcknowledgedFirst == \A w \in Workers : pc[w] = "complete" => answer[key[w]] # "none"
\* Whoever is about to clear an envelope finds its row completed, although other
\* workers, the daemon's recovery and the daily purge ran since it completed it.
CompletedBeforeClear ==
    \A w \in Workers : pc[w] = "clear" => op[key[w]].state = "completed"

PayloadInv ==
    /\ AcknowledgedFirst /\ CompletedBeforeClear
    /\ CompletedWasAcknowledged /\ PayloadKept

\* Only worker w moves: it goes on to l with its row, or ends its call.
OthersStay(w) == \A v \in Workers : v # w => pc'[v] = pc[v] /\ key'[v] = key[v]
Keeps(w, l) == OthersStay(w) /\ pc'[w] = l /\ key'[w] = key[w]
Leaves(w) == OthersStay(w) /\ pc'[w] \in {"idle", "next"}

\* What each way of ending or continuing a call does to the worker.
LEMMA WorkerMoves ==
    ASSUME TypeInv, NEW w \in Workers
    PROVE  /\ \A l : Goto(w, l) => Keeps(w, l)
           /\ Return(w) => Leaves(w)
           /\ Stop(w) => Leaves(w)
           /\ Conflict(w) => Leaves(w)
BY DEF TypeInv, TypeOK, Goto, Return, Stop, Conflict, Keeps, Leaves, OthersStay

\* Row k gets the given state and attempt; no other row changes.
OnlyWrites(k, state, attempt) ==
    /\ op'[k].state = state /\ op'[k].attempt = attempt
    /\ \A j \in Keys : j # k => op'[j] = op[j]

\* What each store method leaves in the row it writes, and in the others.
LEMMA RowWrite ==
    ASSUME TypeInv, NEW k \in Keys
    PROVE  /\ op' = [op EXCEPT ![k] = StartAttempt(op[k])] =>
                OnlyWrites(k, "in_flight", op[k].attempt + 1)
           /\ op' = [op EXCEPT ![k] = MarkCompleted(op[k])] =>
                OnlyWrites(k, "completed", op[k].attempt)
           /\ op' = [op EXCEPT ![k] = MarkFailedSafe(op[k])] =>
                OnlyWrites(k, "failed_safe", op[k].attempt)
           /\ op' = [op EXCEPT ![k] = ScheduleRetry(op[k])] =>
                OnlyWrites(k, "retry_wait", op[k].attempt)
           /\ op' = [op EXCEPT ![k] = MakeRetryReady(op[k])] =>
                OnlyWrites(k, "prepared", op[k].attempt)
           /\ op' = [op EXCEPT ![k] = MarkExhausted(op[k])] =>
                OnlyWrites(k, "exhausted", op[k].attempt)
<1>1. op[k] \in Row /\ op \in [Keys -> Row]
  BY DEF TypeInv, TypeOK
<1>2. op[k] \in [state : OperationState \cup {"absent"}, attempt : Nat]
  BY <1>1 DEF Row, Operation, NoOperation
<1>3. /\ StartAttempt(op[k]).state = "in_flight" /\ StartAttempt(op[k]).attempt = op[k].attempt + 1
      /\ MarkCompleted(op[k]).state = "completed" /\ MarkCompleted(op[k]).attempt = op[k].attempt
      /\ MarkFailedSafe(op[k]).state = "failed_safe"
      /\ MarkFailedSafe(op[k]).attempt = op[k].attempt
      /\ ScheduleRetry(op[k]).state = "retry_wait" /\ ScheduleRetry(op[k]).attempt = op[k].attempt
      /\ MakeRetryReady(op[k]).state = "prepared" /\ MakeRetryReady(op[k]).attempt = op[k].attempt
      /\ MarkExhausted(op[k]).state = "exhausted" /\ MarkExhausted(op[k]).attempt = op[k].attempt
  BY <1>2 DEF StartAttempt, MarkCompleted, MarkFailedSafe, ScheduleRetry, MakeRetryReady,
         MarkExhausted
<1>. QED
  BY <1>1, <1>3 DEF OnlyWrites

\* What each step of a call does to its row and where it leads.  A refused
\* method (OperationStateConflict) writes nothing and ends the call.
LEMMA AttemptStepEffect ==
    ASSUME TypeInv, NEW w \in Workers, AttemptStep(w)
    PROVE  LET k == key[w] IN
           /\ k \in Keys
           /\ \/ /\ op' = op
                 /\ \/ Leaves(w)
                    \/ \E l \in {"ready", "begin", "fail", "mark_failed", "decide",
                                 "schedule", "exhaust"} : Keeps(w, l)
                    \/ pc[w] = "payload" /\ Keeps(w, "send") /\ outbox' = outbox
                    \/ pc[w] = "send" /\ Keeps(w, "complete") /\ answer'[k] # "none"
              \/ /\ op[k].state = "prepared" /\ pc[w] = "begin"
                 /\ OnlyWrites(k, "in_flight", op[k].attempt + 1) /\ Keeps(w, "payload")
              \/ /\ op[k].state \in {"in_flight", "delivery_unknown"} /\ pc[w] = "complete"
                 /\ OnlyWrites(k, "completed", op[k].attempt) /\ Keeps(w, "clear")
              \/ /\ op[k].state \in OperationState \ {"completed"}
                 /\ \E s \in {"failed_safe", "retry_wait", "prepared", "exhausted"} :
                      OnlyWrites(k, s, op[k].attempt)
                 /\ Leaves(w) \/ Keeps(w, "begin") \/ Keeps(w, "decide")
           /\ \/ UNCHANGED sends
              \/ /\ pc[w] = "send" /\ sends' = [sends EXCEPT ![k] = sends[k] + 1]
                 /\ Keeps(w, "complete") \/ Keeps(w, "fail")
           /\ outbox' = outbox \/ (pc[w] = "clear" /\ outbox' = outbox \ {k})
           /\ \A j \in Keys : answer[j] # "none" => answer'[j] # "none"
<1> USE DEF store, ghosts
<1>1. key[w] \in Keys
  BY AttemptStepWrites DEF TypeInv, BusyHaveKey
<1>2. CASE Load(w)
  BY <1>1, <1>2, WorkerMoves DEF Load
<1>3. CASE MakeReady(w)
  BY <1>1, <1>3, WorkerMoves, RowWrite DEF MakeReady, CanMakeRetryReady, OperationState
<1>4. CASE BeginAttempt(w)
  BY <1>1, <1>4, WorkerMoves, RowWrite DEF BeginAttempt, CanStartAttempt
<1>5. CASE GetPayload(w)
  BY <1>1, <1>5, WorkerMoves DEF GetPayload
<1>6. CASE SendAcknowledged(w)
  <2>1. PICK a \in Acknowledgement :
          answer' = [answer EXCEPT ![key[w]] = IF @ = "persisted" THEN @ ELSE a]
    BY <1>6 DEF SendAcknowledged
  <2>2. a # "none" /\ answer \in [Keys -> {"none"} \cup Acknowledgement]
    BY DEF Acknowledgement, TypeInv, TypeOK
  <2>3. answer'[key[w]] # "none" /\ \A j \in Keys : j # key[w] => answer'[j] = answer[j]
    BY <1>1, <2>1, <2>2
  <2>4. /\ pc[w] = "send" /\ Keeps(w, "complete") /\ UNCHANGED <<op, outbox>>
        /\ sends' = [sends EXCEPT ![key[w]] = sends[key[w]] + 1]
    BY <1>6, WorkerMoves DEF SendAcknowledged
  <2>. QED
    BY <1>1, <2>3, <2>4
<1>7. CASE SendFails(w)
  BY <1>1, <1>7, WorkerMoves DEF SendFails
<1>8. CASE Complete(w)
  BY <1>1, <1>8, WorkerMoves, RowWrite DEF Complete, Transition, CanMarkCompleted
<1>9. CASE ClearOutbox(w)
  BY <1>1, <1>9, WorkerMoves DEF ClearOutbox
<1>10. CASE LoadFailed(w)
  BY <1>1, <1>10, WorkerMoves DEF LoadFailed
<1>11. CASE MarkFailed(w)
  BY <1>1, <1>11, WorkerMoves, RowWrite DEF MarkFailed, Transition, CanMarkFailedSafe,
         OperationState
<1>12. CASE Decide(w)
  BY <1>1, <1>12, WorkerMoves DEF Decide
<1>13. CASE Schedule(w)
  BY <1>1, <1>13, WorkerMoves, RowWrite DEF Schedule, CanScheduleRetry, OperationState
<1>14. CASE Exhaust(w)
  BY <1>1, <1>14, WorkerMoves, RowWrite DEF Exhaust, CanMarkExhausted, OperationState
<1>. QED
  BY <1>2, <1>3, <1>4, <1>5, <1>6, <1>7, <1>8, <1>9, <1>10, <1>11, <1>12, <1>13, <1>14
     DEF AttemptStep

\* A pump between two calls changes nothing stored; it may take up a row.
LEMMA PumpStepEffect ==
    ASSUME TypeInv, NEW p \in Pumps, PumpStep(p)
    PROVE  /\ p \in Workers /\ pc[p] \in {"idle", "next"} /\ OthersStay(p)
           /\ pc'[p] \in {"idle", "next", "mark_failed", "decide", "ready", "load"}
           /\ UNCHANGED <<store, ghosts>>
<1>0. p \in Workers
  BY DEF Workers
<1>1. \A loop, list : Enter(p, loop, list) =>
         OthersStay(p) /\ pc'[p] = "next" /\ UNCHANGED <<store, ghosts>>
  BY <1>0 DEF Enter, TypeInv, TypeOK, OthersStay
<1>2. CASE StartPump(p)
  BY <1>0, <1>1, <1>2 DEF StartPump
<1>3. CASE NextLoop(p)
  BY <1>0, <1>1, <1>3, WorkerMoves DEF NextLoop, Leaves
<1>4. CASE NextRow(p)
  <2>1. pc[p] = "next" /\ phase[p] \in Sweep \cup {"deliver"}
    BY <1>0, <1>4 DEF NextRow, TypeInv, TypeOK, NextInLoop
  <2>. QED
    BY <1>0, <1>4, <2>1 DEF NextRow, TypeInv, TypeOK, OthersStay, Sweep
<1>. QED
  BY <1>2, <1>3, <1>4 DEF PumpStep

\* The strengthened invariant is inductive, whatever the workers interleave.
THEOREM PayloadInvariant == Spec => []PayloadInv
<1>1. Init => PayloadInv
  BY DEF Init, PayloadInv, AcknowledgedFirst, CompletedBeforeClear, CompletedWasAcknowledged,
         PayloadKept, NoOperation, OperationState
<1>2. TypeInv /\ PayloadInv /\ [Next]_vars => PayloadInv'
  <2> SUFFICES ASSUME TypeInv, PayloadInv, [Next]_vars PROVE PayloadInv'
    OBVIOUS
  <2> USE DEF PayloadInv, AcknowledgedFirst, CompletedBeforeClear, CompletedWasAcknowledged,
         PayloadKept
  <2>a. /\ op \in [Keys -> Row] /\ outbox \subseteq Keys
        /\ \A w \in Workers : pc[w] \notin {"idle", "next"} => key[w] \in Keys
    BY DEF TypeInv, TypeOK, BusyHaveKey
  <2>1. ASSUME NEW s \in Submitters, Submit(s) PROVE PayloadInv'
    <3>1. PICK k \in Keys :
            \/ /\ op[k] = NoOperation /\ op' = [op EXCEPT ![k] = Reserved]
               /\ outbox' = outbox \cup {k}
            \/ UNCHANGED <<op, outbox>>
      BY <2>1 DEF Submit
    <3>2. /\ s \in Workers /\ pc'[s] = "load" /\ UNCHANGED answer
          /\ \A v \in Workers : v # s => pc'[v] = pc[v] /\ key'[v] = key[v]
      BY <2>1 DEF Submit, Workers, TypeInv, TypeOK, ghosts
    <3>3. \A j \in Keys : op'[j] # op[j] => op'[j].state = "prepared" /\ op[j].state = "absent"
      BY <2>a, <3>1 DEF Reserved, NoOperation
    <3>4. \A j \in Keys : op'[j] # op[j] => j \in outbox'
      BY <2>a, <3>1
    <3>5. outbox \subseteq outbox'
      BY <3>1
    <3>. QED
      BY <2>a, <3>2, <3>3, <3>4, <3>5
  <2>2. ASSUME NEW p \in Pumps, PumpStep(p) PROVE PayloadInv'
    <3>1. /\ p \in Workers /\ pc'[p] \notin {"complete", "clear"} /\ OthersStay(p)
          /\ UNCHANGED <<op, outbox, answer>>
      BY <2>2, PumpStepEffect DEF store, ghosts
    <3>. QED
      BY <3>1 DEF OthersStay
  <2>3. ASSUME NEW w \in Workers, AttemptStep(w) PROVE PayloadInv'
    <3> DEFINE k == key[w]
    <3>1. /\ k \in Keys
          /\ outbox' = outbox \/ (pc[w] = "clear" /\ outbox' = outbox \ {k})
          /\ \A j \in Keys : answer[j] # "none" => answer'[j] # "none"
      BY <2>3, AttemptStepEffect
    <3>2. \/ /\ op' = op
             /\ \/ Leaves(w)
                \/ \E l \in {"ready", "begin", "fail", "mark_failed", "decide",
                             "schedule", "exhaust"} : Keeps(w, l)
                \/ pc[w] = "payload" /\ Keeps(w, "send") /\ outbox' = outbox
                \/ pc[w] = "send" /\ Keeps(w, "complete") /\ answer'[k] # "none"
          \/ /\ op[k].state = "prepared" /\ pc[w] = "begin"
             /\ OnlyWrites(k, "in_flight", op[k].attempt + 1) /\ Keeps(w, "payload")
          \/ /\ op[k].state \in {"in_flight", "delivery_unknown"} /\ pc[w] = "complete"
             /\ OnlyWrites(k, "completed", op[k].attempt) /\ Keeps(w, "clear")
          \/ /\ op[k].state \in OperationState \ {"completed"}
             /\ \E s \in {"failed_safe", "retry_wait", "prepared", "exhausted"} :
                  OnlyWrites(k, s, op[k].attempt)
             /\ Leaves(w) \/ Keeps(w, "begin") \/ Keeps(w, "decide")
      BY <2>3, AttemptStepEffect
    <3>3. AcknowledgedFirst'
      BY <2>a, <3>1, <3>2 DEF Keeps, Leaves, OthersStay
    <3>4. CompletedBeforeClear'
      BY <2>a, <3>2 DEF Keeps, Leaves, OthersStay, OnlyWrites
    <3>5. CompletedWasAcknowledged'
      BY <2>a, <3>1, <3>2 DEF OnlyWrites
    <3>6. PayloadKept'
      <4>1. \A j \in Keys : op'[j].state \in OperationState \ {"completed"} =>
                              op[j].state \in OperationState \ {"completed"}
        BY <3>2 DEF OnlyWrites, OperationState
      <4>2. \A j \in Keys : op'[j].state \in OperationState \ {"completed"} =>
                              ~(pc[w] = "clear" /\ j = k)
        BY <3>2, <3>1, <2>a, <4>1
      <4>. QED
        BY <3>1, <4>1, <4>2
    <3>. QED
      BY <3>3, <3>4, <3>5, <3>6
  <2>4. ASSUME NEW w \in Workers, Crash(w) PROVE PayloadInv'
    <3>1. Leaves(w) /\ UNCHANGED <<op, outbox, answer>>
      BY <2>4, WorkerMoves DEF Crash, store, ghosts
    <3>. QED
      BY <3>1 DEF Leaves, OthersStay
  <2>5. CASE BackoffEnds
    BY <2>5 DEF BackoffEnds, ghosts, worker
  <2>7. CASE Purge
    <3>1. PICK k \in Keys :
            /\ Purgeable("percept", op[k]) /\ \A w \in Workers : ~Holds(w, k)
            /\ op' = [op EXCEPT ![k] = NoOperation]
            /\ outbox' = outbox \ {k} /\ answer' = [answer EXCEPT ![k] = "none"]
            /\ UNCHANGED <<pc, key>>
      BY <2>7 DEF Purge, worker
    <3>2. op'[k].state = "absent" /\ \A j \in Keys : j # k => op'[j] = op[j]
      BY <2>a, <3>1 DEF NoOperation
    <3>3. \A w \in Workers : key[w] = k => pc[w] \notin {"complete", "clear"}
      BY <3>1 DEF Holds
    <3>4. \A j \in Keys : j # k => answer'[j] = answer[j]
      BY <3>1 DEF TypeInv, TypeOK
    <3>. QED
      BY <2>a, <3>1, <3>2, <3>3, <3>4 DEF OperationState
  <2>8. CASE UNCHANGED vars
    BY <2>8 DEF vars, store, ghosts, worker
  <2>. QED
    BY <2>1, <2>2, <2>3, <2>4, <2>5, <2>7, <2>8 DEF Next
<1>3. QED
  BY <1>1, <1>2, TypeCorrect, PTL DEF Spec

\* A row is completed only after the Runtime said ok to an envelope sent since the
\* row was reserved: no lost, refused or late answer passes for that.
THEOREM CompletedIsAcknowledged == Spec => []CompletedWasAcknowledged
BY PayloadInvariant, PTL DEF PayloadInv

\* A percept that may still be attempted or resubmitted keeps its envelope,
\* whoever completes, clears, recovers or purges the row meanwhile.
THEOREM EnvelopeIsKept == Spec => []PayloadKept
BY PayloadInvariant, PTL DEF PayloadInv
-----------------------------------------------------------------------------
(* The attempt count covers the transport calls.  SendsAreRecorded is not     *)
(* inductive: several workers can be between recording an attempt and making  *)
(* the call, since recovery takes over rows whose worker is alive; each of    *)
(* them needs an attempt of its own in reserve.                               *)

\* Workers that have recorded an attempt on row k and not sent yet.
AboutToSend(k) == {w \in Workers : pc[w] \in {"payload", "send"} /\ key[w] = k}

AttemptsCoverSends ==
    \A k \in Keys : sends[k] + Cardinality(AboutToSend(k)) <= op[k].attempt

\* Those workers are finitely many, so they can be counted.
LEMMA FewAboutToSend ==
    ASSUME NEW k
    PROVE  IsFiniteSet(AboutToSend(k)) /\ Cardinality(AboutToSend(k)) \in Nat
<1>1. AboutToSend(k) \subseteq Workers
  BY DEF AboutToSend
<1>. QED
  BY <1>1, PerceptAssumption, FS_Subset, FS_CardinalityType

\* A step that sends nothing, and after which nobody is newly about to send,
\* leaves every call covered as long as no attempt is taken back.
LEMMA NoNewSender ==
    ASSUME TypeInv, AttemptsCoverSends,
           UNCHANGED sends, op' \in [Keys -> Row],
           \A k \in Keys : op'[k].attempt >= op[k].attempt,
           \A w \in Workers : pc'[w] \in {"payload", "send"} =>
               pc[w] \in {"payload", "send"} /\ key'[w] = key[w]
    PROVE  AttemptsCoverSends'
<1>1. SUFFICES ASSUME NEW k \in Keys
               PROVE  sends[k] + Cardinality(AboutToSend(k)') <= op'[k].attempt
  BY DEF AttemptsCoverSends
<1>2. AboutToSend(k)' \subseteq AboutToSend(k)
  BY DEF AboutToSend
<1>3. /\ Cardinality(AboutToSend(k)') <= Cardinality(AboutToSend(k))
      /\ Cardinality(AboutToSend(k)') \in Nat
  BY <1>2, FewAboutToSend, FS_Subset, FS_CardinalityType
<1>4. op[k].attempt \in Nat /\ op'[k].attempt \in Nat /\ sends[k] \in Nat
  BY DEF TypeInv, TypeOK, Row, Operation, NoOperation
<1>. QED
  BY <1>3, <1>4, FewAboutToSend DEF AttemptsCoverSends

\* Recording an attempt is paid for in the same transaction.
LEMMA BeginCoversSender ==
    ASSUME TypeInv, AttemptsCoverSends, NEW w \in Workers, pc[w] = "begin",
           NEW k \in Keys, key[w] = k, UNCHANGED sends,
           OnlyWrites(k, "in_flight", op[k].attempt + 1), Keeps(w, "payload")
    PROVE  AttemptsCoverSends'
<1>1. AboutToSend(k)' = AboutToSend(k) \cup {w} /\ w \notin AboutToSend(k)
  BY DEF AboutToSend, Keeps, OthersStay
<1>2. Cardinality(AboutToSend(k)') = Cardinality(AboutToSend(k)) + 1
  BY <1>1, FewAboutToSend, FS_AddElement
<1>3. sends[k] + Cardinality(AboutToSend(k)') <= op'[k].attempt
  <2>1. op[k].attempt \in Nat /\ sends[k] \in Nat
    BY DEF TypeInv, TypeOK, Row, Operation, NoOperation
  <2>2. op'[k].attempt = op[k].attempt + 1 /\ sends[k] + Cardinality(AboutToSend(k)) <= op[k].attempt
    BY DEF OnlyWrites, AttemptsCoverSends
  <2>. QED
    BY <1>2, <2>1, <2>2, FewAboutToSend
<1>4. ASSUME NEW j \in Keys, j # k
      PROVE  sends[j] + Cardinality(AboutToSend(j)') <= op'[j].attempt
  <2>1. AboutToSend(j)' = AboutToSend(j)
    BY <1>4 DEF AboutToSend, Keeps, OthersStay
  <2>. QED
    BY <1>4, <2>1 DEF OnlyWrites, AttemptsCoverSends
<1>. QED
  BY <1>3, <1>4 DEF AttemptsCoverSends

\* A transport call uses up the attempt its worker recorded.
LEMMA SendUsesAttempt ==
    ASSUME TypeInv, AttemptsCoverSends, NEW w \in Workers, pc[w] = "send",
           NEW k \in Keys, key[w] = k, UNCHANGED op,
           sends' = [sends EXCEPT ![k] = sends[k] + 1],
           Keeps(w, "complete") \/ Keeps(w, "fail")
    PROVE  AttemptsCoverSends'
<1>1. AboutToSend(k)' = AboutToSend(k) \ {w} /\ w \in AboutToSend(k)
  BY DEF AboutToSend, Keeps, OthersStay
<1>2. Cardinality(AboutToSend(k)') = Cardinality(AboutToSend(k)) - 1
  BY <1>1, FewAboutToSend, FS_RemoveElement
<1>3. sends'[k] + Cardinality(AboutToSend(k)') <= op[k].attempt
  <2>1. op[k].attempt \in Nat /\ sends[k] \in Nat /\ sends'[k] = sends[k] + 1
    BY DEF TypeInv, TypeOK, Row, Operation, NoOperation
  <2>2. sends[k] + Cardinality(AboutToSend(k)) <= op[k].attempt
    BY DEF AttemptsCoverSends
  <2>. QED
    BY <1>2, <2>1, <2>2, FewAboutToSend
<1>4. ASSUME NEW j \in Keys, j # k
      PROVE  sends'[j] + Cardinality(AboutToSend(j)') <= op[j].attempt
  <2>1. AboutToSend(j)' = AboutToSend(j) /\ sends'[j] = sends[j]
    BY <1>4 DEF AboutToSend, Keeps, OthersStay
  <2>. QED
    BY <1>4, <2>1 DEF AttemptsCoverSends
<1>. QED
  BY <1>3, <1>4 DEF AttemptsCoverSends

\* At any moment every call made and every call about to be made has an attempt
\* of its own in the durable count.
THEOREM AttemptsInvariant == Spec => []AttemptsCoverSends
<1>1. Init => AttemptsCoverSends
  <2> SUFFICES ASSUME Init, NEW k \in Keys
               PROVE  sends[k] + Cardinality(AboutToSend(k)) <= op[k].attempt
    BY DEF AttemptsCoverSends
  <2>1. AboutToSend(k) = {}
    BY DEF Init, AboutToSend
  <2>. QED
    BY <2>1, FS_EmptySet DEF Init, NoOperation
<1>2. TypeInv /\ TypeInv' /\ AttemptsCoverSends /\ [Next]_vars => AttemptsCoverSends'
  <2> SUFFICES ASSUME TypeInv, TypeInv', AttemptsCoverSends, [Next]_vars
               PROVE  AttemptsCoverSends'
    OBVIOUS
  <2>a. /\ op \in [Keys -> Row] /\ op' \in [Keys -> Row]
        /\ \A k \in Keys : op[k].attempt \in Nat
    BY DEF TypeInv, TypeOK, Row, Operation, NoOperation
  <2>1. ASSUME NEW s \in Submitters, Submit(s) PROVE AttemptsCoverSends'
    <3>1. op' = op \/ \E k \in Keys : op[k] = NoOperation /\ op' = [op EXCEPT ![k] = Reserved]
      BY <2>1 DEF Submit
    <3>2. \A k \in Keys : op'[k].attempt = op[k].attempt
      BY <2>a, <3>1 DEF Reserved, NoOperation
    <3>3. /\ UNCHANGED sends
          /\ \A w \in Workers : pc'[w] \in {"payload", "send"} =>
                 pc[w] \in {"payload", "send"} /\ key'[w] = key[w]
      BY <2>1 DEF Submit, Workers, TypeInv, TypeOK, ghosts
    <3>. QED
      BY <2>a, <3>2, <3>3, NoNewSender
  <2>2. ASSUME NEW p \in Pumps, PumpStep(p) PROVE AttemptsCoverSends'
    <3>1. /\ p \in Workers /\ pc'[p] \notin {"payload", "send"} /\ OthersStay(p)
          /\ UNCHANGED <<op, sends>>
      BY <2>2, PumpStepEffect DEF store, ghosts
    <3>. QED
      BY <2>a, <3>1, NoNewSender DEF OthersStay
  <2>3. ASSUME NEW w \in Workers, AttemptStep(w) PROVE AttemptsCoverSends'
    <3> DEFINE k == key[w]
    <3>0. k \in Keys
      BY <2>3, AttemptStepEffect
    <3>1. CASE BeginAttempt(w) /\ CanStartAttempt(op[k])
      <4>1. OnlyWrites(k, "in_flight", op[k].attempt + 1) /\ Keeps(w, "payload")
        BY <3>0, <3>1, WorkerMoves, RowWrite DEF BeginAttempt
      <4>. QED
        BY <3>0, <3>1, <4>1, BeginCoversSender DEF BeginAttempt, ghosts
    <3>2. CASE SendAcknowledged(w) \/ SendFails(w)
      <4>1. /\ pc[w] = "send" /\ UNCHANGED op
            /\ sends' = [sends EXCEPT ![k] = sends[k] + 1]
            /\ Keeps(w, "complete") \/ Keeps(w, "fail")
        BY <3>2, WorkerMoves DEF SendAcknowledged, SendFails, store
      <4>. QED
        BY <3>0, <4>1, SendUsesAttempt
    <3>3. CASE /\ ~(BeginAttempt(w) /\ CanStartAttempt(op[k]))
               /\ ~(SendAcknowledged(w) \/ SendFails(w))
      <4>1. UNCHANGED sends
        BY <2>3, <3>3 DEF AttemptStep, Load, MakeReady, BeginAttempt, GetPayload, Complete,
               ClearOutbox, LoadFailed, MarkFailed, Decide, Schedule, Exhaust, ghosts
      <4>2. /\ \A j \in Keys : op'[j].attempt >= op[j].attempt
            /\ \A v \in Workers : pc'[v] \in {"payload", "send"} =>
                   pc[v] \in {"payload", "send"} /\ key'[v] = key[v]
        <5>1. CASE BeginAttempt(w) /\ ~CanStartAttempt(op[k])
          BY <2>a, <5>1, WorkerMoves DEF BeginAttempt, Leaves, OthersStay
        <5>2. CASE pc[w] # "begin"
          BY <2>3, <2>a, <5>2, AttemptStepEffect DEF Keeps, Leaves, OthersStay, OnlyWrites
        <5>3. pc[w] = "begin" => BeginAttempt(w)
          BY <2>3 DEF AttemptStep, Load, MakeReady, GetPayload, SendAcknowledged, SendFails,
                 Complete, ClearOutbox, LoadFailed, MarkFailed, Decide, Schedule, Exhaust
        <5>. QED
          BY <3>3, <5>1, <5>2, <5>3
      <4>. QED
        BY <2>a, <4>1, <4>2, NoNewSender
    <3>. QED
      BY <3>1, <3>2, <3>3
  <2>4. ASSUME NEW w \in Workers, Crash(w) PROVE AttemptsCoverSends'
    <3>1. Leaves(w) /\ UNCHANGED <<op, sends>>
      BY <2>4, WorkerMoves DEF Crash, store, ghosts
    <3>. QED
      BY <2>a, <3>1, NoNewSender DEF Leaves, OthersStay
  <2>5. CASE BackoffEnds
    BY <2>a, <2>5, NoNewSender DEF BackoffEnds, ghosts, worker
  <2>7. CASE Purge
    <3>1. PICK k \in Keys :
            /\ \A w \in Workers : ~Holds(w, k)
            /\ op' = [op EXCEPT ![k] = NoOperation]
            /\ sends' = [sends EXCEPT ![k] = 0]
            /\ UNCHANGED <<pc, key>>
      BY <2>7 DEF Purge, worker
    <3>2. ASSUME NEW j \in Keys PROVE sends'[j] + Cardinality(AboutToSend(j)') <= op'[j].attempt
      <4>1. CASE j = k
        <5>1. AboutToSend(j)' = {}
          BY <3>1, <4>1 DEF AboutToSend, Holds
        <5>2. sends'[j] = 0 /\ op'[j].attempt = 0
          BY <3>1, <4>1 DEF NoOperation, TypeInv, TypeOK
        <5>. QED
          BY <5>1, <5>2, FS_EmptySet
      <4>2. CASE j # k
        <5>1. AboutToSend(j)' = AboutToSend(j)
          BY <3>1 DEF AboutToSend
        <5>2. sends'[j] = sends[j] /\ op'[j] = op[j]
          BY <2>a, <3>1, <4>2 DEF TypeInv, TypeOK
        <5>. QED
          BY <5>1, <5>2 DEF AttemptsCoverSends
      <4>. QED
        BY <4>1, <4>2
    <3>. QED
      BY <3>2 DEF AttemptsCoverSends
  <2>8. CASE UNCHANGED vars
    BY <2>a, <2>8, NoNewSender DEF vars, store, ghosts, worker
  <2>. QED
    BY <2>1, <2>2, <2>3, <2>4, <2>5, <2>7, <2>8 DEF Next
<1>3. QED
  BY <1>1, <1>2, TypeCorrect, PTL DEF Spec

\* Every transport call was recorded as an attempt first, so that a crash never
\* hides a send, however many workers share the row.
THEOREM NoSendIsHidden == Spec => []SendsAreRecorded
<1>1. TypeInv /\ AttemptsCoverSends => SendsAreRecorded
  <2> SUFFICES ASSUME TypeInv, AttemptsCoverSends, NEW k \in Keys
               PROVE  sends[k] <= op[k].attempt
    BY DEF SendsAreRecorded
  <2>1. op[k].attempt \in Nat /\ sends[k] \in Nat
    BY DEF TypeInv, TypeOK, Row, Operation, NoOperation
  <2>. QED
    BY <2>1, FewAboutToSend DEF AttemptsCoverSends
<1>. QED
  BY <1>1, TypeCorrect, AttemptsInvariant, PTL
=============================================================================
