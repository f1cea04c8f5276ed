-------------------------- MODULE CognitionDelivery --------------------------
(***************************************************************************)
(* The Cognition service: task threads (asyncio.to_thread) that ask the    *)
(* Hermes API for a result, keep it as a receipt in cognition.sqlite3 and  *)
(* account for attempts in operations.sqlite3.                             *)
(*                                                                         *)
(* Covered: CognitionService.process and recover_startup with the          *)
(* RetryEngine calls they make, one step per read that is acted on later   *)
(* and per commit; duplicate requests; releases that touch other requests' *)
(* rows; crashes, also during recovery; the purge; a task id used with two *)
(* idempotency keys.                                                       *)
(*                                                                         *)
(* Left out: validation (a refused task leaves no trace); a key reused for *)
(* another task (refused by both stores, nothing changes); the task cache; *)
(* clocks (which waiting rows are due at a release is left open).          *)
(***************************************************************************)
EXTENDS OperationStore, FiniteSets

CONSTANTS
    Threads,      \* worker threads serving cognition requests
    Keys,         \* idempotency keys
    TaskOf,       \* task_id a request with that key carries
    MaxAttempts,  \* COGNITION_RETRY_POLICY.max_attempts
    NoKey,        \* no row
    MayFail,      \* bound: whether requests may end in an uncaught exception
    MaxPurges,    \* bound: rows purged
    MaxCrashes    \* bound: service crashes explored

ASSUME CognitionAssumption ==
    /\ Keys # {} /\ NoKey \notin Keys
    /\ TaskOf = [k \in Keys |-> TaskOf[k]]
    /\ MaxAttempts \in Nat \ {0}
    /\ MayFail \in BOOLEAN /\ MaxPurges \in Nat /\ MaxCrashes \in Nat

VARIABLES
    op,           \* operations.sqlite3: the cognition row of each key
    receipt,      \* cognition.sqlite3: attempt whose result is stored, 0 for none
    service,      \* "up", "recovering" (before the socket opens), "down"
    interrupted,  \* rows startup recovery has still to treat
    marked,       \* the row startup recovery has marked FAILED_SAFE
    abandoned,    \* ghost: rows whose computing thread ended in an exception
    pc,           \* where each thread is
    job,          \* key each thread works on
    own,          \* the failure being scheduled is the thread's own
    todo,         \* rows a thread has still to release
    result,       \* attempt whose result a thread holds
    reply,        \* attempt whose receipt each client holds, 0 for none or error
    purges,       \* bound counter
    crashes       \* bound counter

database == <<op, receipt>>
process  == <<service, interrupted, marked, abandoned>>
worker   == <<pc, job, own, todo, result, reply>>
bounds   == <<purges, crashes>>
vars     == <<database, process, worker, bounds>>

Location ==
    {"idle", "dedupe", "reserve", "loop", "decide", "exhaust", "schedule",
     "sleep", "wait", "release", "begin", "start", "compute", "mark_failed",
     "save", "complete"}

\* The thread took the row to IN_FLIGHT and has not let go.
Computing == {"compute", "mark_failed", "save", "complete"}

TypeOK ==
    /\ op \in [Keys -> Row]
    /\ receipt \in [Keys -> Nat]
    /\ service \in {"up", "recovering", "down"}
    /\ interrupted \subseteq Keys /\ marked \in Keys \cup {NoKey} /\ abandoned \subseteq Keys
    /\ pc \in [Threads -> Location]
    /\ job \in [Threads -> Keys]
    /\ own \in [Threads -> BOOLEAN]
    /\ todo \in [Threads -> SUBSET Keys]
    /\ result \in [Threads -> Nat] /\ reply \in [Threads -> Nat]
    /\ purges \in 0..MaxPurges /\ crashes \in 0..MaxCrashes

Init ==
    /\ op = [k \in Keys |-> NoOperation]
    /\ receipt = [k \in Keys |-> 0]
    /\ service = "up" /\ interrupted = {} /\ marked = NoKey /\ abandoned = {}
    /\ pc = [t \in Threads |-> "idle"]
    /\ job = [t \in Threads |-> CHOOSE k \in Keys : TRUE]
    /\ own = [t \in Threads |-> FALSE]
    /\ todo = [t \in Threads |-> {}]
    /\ result = [t \in Threads |-> 0]
    /\ reply = [t \in Threads |-> 0]
    /\ purges = 0 /\ crashes = 0

K(t) == job[t]
RowsIn(state) == {k \in Keys : op[k].state = state}
-----------------------------------------------------------------------------
(* Worker bookkeeping *)

Goto(t, next) ==
    /\ pc' = [pc EXCEPT ![t] = next]
    /\ UNCHANGED <<job, own, todo, result, reply>>

\* The client gets a receipt, or an error (0).
Answer(t, r) ==
    /\ pc' = [pc EXCEPT ![t] = "idle"]
    /\ own' = [own EXCEPT ![t] = FALSE]
    /\ todo' = [todo EXCEPT ![t] = {}]
    /\ result' = [result EXCEPT ![t] = 0]
    /\ reply' = [reply EXCEPT ![t] = r]
    /\ UNCHANGED job

AnswerStored(t) == Answer(t, receipt[K(t)])
Fail(t) == Answer(t, 0)

\* A store method that either changes the row of t or raises.
Transition(t, allowed, row, Then) ==
    IF allowed
    THEN op' = [op EXCEPT ![K(t)] = row] /\ Then
    ELSE Fail(t) /\ UNCHANGED op
-----------------------------------------------------------------------------
(* CognitionService.process *)

Receive(t) ==
    /\ service = "up" /\ pc[t] = "idle"
    /\ \E k \in Keys : job' = [job EXCEPT ![t] = k]
    /\ pc' = [pc EXCEPT ![t] = "dedupe"]
    /\ reply' = [reply EXCEPT ![t] = 0]
    /\ UNCHANGED <<database, process, own, todo, result, bounds>>

Dedupe(t) ==
    /\ pc[t] = "dedupe"
    /\ IF receipt[K(t)] # 0 THEN AnswerStored(t) ELSE Goto(t, "reserve")
    /\ UNCHANGED <<database, process, bounds>>

ReserveOperation(t) ==
    /\ pc[t] = "reserve"
    /\ op' = [op EXCEPT ![K(t)] = IF @ = NoOperation THEN Reserved ELSE @]
    /\ Goto(t, "loop")
    /\ UNCHANGED <<receipt, process, bounds>>

\* Top of the retry loop: cached receipt, then _prepare_operation on the row.
\* A completed row without receipt, a row in flight or exhausted is an error.
TryAgain(t) ==
    /\ pc[t] = "loop"
    /\ LET state == op[K(t)].state IN
         IF receipt[K(t)] # 0 THEN AnswerStored(t)
         ELSE CASE state = "prepared" -> Goto(t, "begin")
                [] state = "failed_safe" -> Goto(t, "decide")
                [] state = "retry_wait" -> Goto(t, "wait")
                [] OTHER -> Fail(t)
    /\ UNCHANGED <<database, process, bounds>>

\* The receipt turned up late: complete the row instead of computing again.  No
\* run gets here, which is what ResultKept says.
CompleteLate(t) ==
    /\ op' = [op EXCEPT ![K(t)] = MarkCompleted(@)]
    /\ AnswerStored(t) \/ Fail(t)

\* RetryEngine.schedule_failed_safe: row, receipt store, attempts; then commit.
Decide(t) ==
    /\ pc[t] = "decide"
    /\ IF op[K(t)].state # "failed_safe" THEN Fail(t) /\ UNCHANGED op
       ELSE IF receipt[K(t)] # 0 THEN CompleteLate(t)
       ELSE /\ Goto(t, IF op[K(t)].attempt >= MaxAttempts THEN "exhaust" ELSE "schedule")
            /\ UNCHANGED op
    /\ UNCHANGED <<receipt, process, bounds>>

Exhaust(t) ==
    /\ pc[t] = "exhaust"
    /\ Transition(t, CanMarkExhausted(op[K(t)]), MarkExhausted(op[K(t)]), Fail(t))
    /\ UNCHANGED <<receipt, process, bounds>>

Schedule(t) ==
    /\ pc[t] = "schedule"
    /\ Transition(t, CanScheduleRetry(op[K(t)]), ScheduleRetry(op[K(t)]),
                  Goto(t, IF own[t] THEN "sleep" ELSE "wait"))
    /\ UNCHANGED <<receipt, process, bounds>>

\* After its own failure a thread sleeps and makes the row ready itself.
MakeReady(t) ==
    /\ pc[t] = "sleep"
    /\ Transition(t, CanMakeRetryReady(op[K(t)]), MakeRetryReady(op[K(t)]), Goto(t, "loop"))
    /\ UNCHANGED <<receipt, process, bounds>>

\* For a retry it found waiting it sleeps and calls release_due, which lists
\* the due rows of all cognition requests.
ListDue(t) ==
    /\ pc[t] = "wait"
    /\ \E due \in SUBSET RowsIn("retry_wait") : todo' = [todo EXCEPT ![t] = due]
    /\ pc' = [pc EXCEPT ![t] = "release"]
    /\ UNCHANGED <<database, process, job, own, result, reply, bounds>>

\* Each listed row is completed or made ready; a row changed meanwhile is skipped.
ReleaseOne(t) ==
    /\ pc[t] = "release"
    /\ \E k \in todo[t] :
         /\ todo' = [todo EXCEPT ![t] = todo[t] \ {k}]
         /\ op' = [op EXCEPT ![k] =
                     CASE receipt[k] # 0 /\ CanMarkCompleted("cognition", @) -> MarkCompleted(@)
                       [] receipt[k] = 0 /\ CanMakeRetryReady(@) -> MakeRetryReady(@)
                       [] OTHER -> @]
    /\ UNCHANGED <<receipt, process, pc, job, own, result, reply, bounds>>

Refresh(t) ==
    /\ pc[t] = "release" /\ todo[t] = {}
    /\ CASE op[K(t)].state = "completed" -> AnswerStored(t)
         [] op[K(t)].state = "prepared" -> Goto(t, "begin")
         [] OTHER -> Fail(t)
    /\ UNCHANGED <<database, process, bounds>>

\* RetryEngine.begin_attempt: the third receipt check, then the durable start.
BeginAttempt(t) ==
    /\ pc[t] = "begin"
    /\ IF op[K(t)].state # "prepared" THEN Fail(t) /\ UNCHANGED op
       ELSE IF op[K(t)].attempt > 0 /\ receipt[K(t)] # 0 THEN CompleteLate(t)
       ELSE Goto(t, "start") /\ UNCHANGED op
    /\ UNCHANGED <<receipt, process, bounds>>

\* Mutant: the row another thread started is started again.
StartRegardless(t) ==
    /\ pc[t] = "start"
    /\ op' = [op EXCEPT ![K(t)] = StartAttempt(@)]
    /\ abandoned' = abandoned \ {K(t)}
    /\ result' = [result EXCEPT ![t] = op[K(t)].attempt + 1]
    /\ pc' = [pc EXCEPT ![t] = "compute"]
    /\ UNCHANGED <<receipt, service, interrupted, marked, job, own, todo, reply, bounds>>

Start(t) ==
    /\ pc[t] = "start"
    /\ IF CanStartAttempt(op[K(t)])
       THEN /\ op' = [op EXCEPT ![K(t)] = StartAttempt(@)]
            /\ abandoned' = abandoned \ {K(t)}
            /\ result' = [result EXCEPT ![t] = op[K(t)].attempt + 1]
            /\ pc' = [pc EXCEPT ![t] = "compute"]
            /\ UNCHANGED <<job, own, todo, reply>>
       ELSE Fail(t) /\ UNCHANGED <<op, abandoned>>
    /\ UNCHANGED <<receipt, service, interrupted, marked, bounds>>

\* The API answers, or fails or times out whatever Hermes did with the task.
ComputeEnds(t) ==
    /\ pc[t] = "compute"
    /\ \E next \in {"save", "mark_failed"} : Goto(t, next)
    /\ UNCHANGED <<database, process, bounds>>

MarkFailed(t) ==
    /\ pc[t] = "mark_failed"
    /\ IF CanMarkFailedSafe(op[K(t)])
       THEN /\ op' = [op EXCEPT ![K(t)] = MarkFailedSafe(@)]
            /\ pc' = [pc EXCEPT ![t] = "decide"]
            /\ own' = [own EXCEPT ![t] = TRUE]
            /\ UNCHANGED <<job, todo, result, reply>>
       ELSE Fail(t) /\ UNCHANGED op
    /\ UNCHANGED <<receipt, process, bounds>>

\* INSERT OR REPLACE under two unique columns: a receipt of another key with the
\* same task id is deleted.
SaveReceipt(t) ==
    /\ pc[t] = "save"
    /\ receipt' = [k \in Keys |-> IF k = K(t) THEN result[t]
                                  ELSE IF TaskOf[k] = TaskOf[K(t)] THEN 0
                                  ELSE receipt[k]]
    /\ Goto(t, "complete")
    /\ UNCHANGED <<op, process, bounds>>

\* A state conflict is swallowed: the receipt already answers the client.  The
\* trace line after the commit may fail, and the client gets an error.
Complete(t) ==
    /\ pc[t] = "complete"
    /\ op' = IF CanMarkCompleted("cognition", op[K(t)])
             THEN [op EXCEPT ![K(t)] = MarkCompleted(@)] ELSE op
    /\ \E r \in {0, result[t]} : Answer(t, r)
    /\ UNCHANGED <<receipt, process, bounds>>

\* A trace line or a database call raises where nothing catches it: the request
\* ends in an error, the service stays up, and the row is left as it is.
CallFails(t) ==
    /\ MayFail /\ pc[t] # "idle"
    /\ Fail(t)
    /\ abandoned' = IF pc[t] \in Computing THEN abandoned \cup {K(t)} ELSE abandoned
    /\ UNCHANGED <<database, service, interrupted, marked, bounds>>
-----------------------------------------------------------------------------
(* Process lifetime and maintenance *)

Crash ==
    /\ service # "down" /\ crashes < MaxCrashes
    /\ service' = "down" /\ crashes' = crashes + 1
    /\ interrupted' = {} /\ marked' = NoKey /\ abandoned' = {}
    /\ pc' = [t \in Threads |-> "idle"]
    /\ own' = [t \in Threads |-> FALSE]
    /\ todo' = [t \in Threads |-> {}]
    /\ result' = [t \in Threads |-> 0]
    /\ UNCHANGED <<database, job, reply, purges>>

Restart ==
    /\ service = "down"
    /\ service' = "recovering"
    /\ interrupted' = RowsIn("in_flight")
    /\ UNCHANGED <<database, marked, abandoned, worker, bounds>>

\* Mutant: startup recovery does not look for a receipt.
RecoverWithoutProbe ==
    /\ service = "recovering" /\ marked = NoKey
    /\ \E k \in interrupted :
         /\ interrupted' = interrupted \ {k}
         /\ op' = [op EXCEPT ![k] = MarkFailedSafe(@)]
         /\ marked' = k
    /\ UNCHANGED <<receipt, service, abandoned, worker, bounds>>

\* recover_interrupted_cognition: a saved receipt completes the row.
RecoverRow ==
    /\ service = "recovering" /\ marked = NoKey
    /\ \E k \in interrupted :
         /\ interrupted' = interrupted \ {k}
         /\ op' = [op EXCEPT ![k] = IF receipt[k] # 0 THEN MarkCompleted(@) ELSE MarkFailedSafe(@)]
         /\ marked' = IF receipt[k] # 0 THEN NoKey ELSE k
    /\ UNCHANGED <<receipt, service, abandoned, worker, bounds>>

\* schedule_failed_safe for the row just marked; nobody else runs yet.
RecoverSchedule ==
    /\ service = "recovering" /\ marked # NoKey
    /\ op' = [op EXCEPT ![marked] =
                CASE receipt[marked] # 0 -> MarkCompleted(@)
                  [] receipt[marked] = 0 /\ @.attempt >= MaxAttempts -> MarkExhausted(@)
                  [] OTHER -> ScheduleRetry(@)]
    /\ marked' = NoKey
    /\ UNCHANGED <<receipt, service, interrupted, abandoned, worker, bounds>>

\* Mutant: recovery is left to the requests.
OpenSocketFirst ==
    /\ service = "recovering"
    /\ service' = "up" /\ interrupted' = {} /\ marked' = NoKey
    /\ UNCHANGED <<database, abandoned, worker, bounds>>

OpenSocket ==
    /\ service = "recovering" /\ interrupted = {} /\ marked = NoKey
    /\ service' = "up"
    /\ UNCHANGED <<database, interrupted, marked, abandoned, worker, bounds>>

\* purge_terminal.  Retention (30 days) outlives every request that saw the row.
Purge ==
    /\ purges < MaxPurges
    /\ \E k \in Keys :
         /\ Purgeable("cognition", op[k])
         /\ \A t \in Threads : (pc[t] = "idle" \/ K(t) # k) /\ k \notin todo[t]
         /\ op' = [op EXCEPT ![k] = NoOperation]
    /\ purges' = purges + 1
    /\ UNCHANGED <<receipt, process, worker, crashes>>
-----------------------------------------------------------------------------
ThreadStep(t) ==
    \/ Dedupe(t) \/ ReserveOperation(t) \/ TryAgain(t) \/ Decide(t)
    \/ Exhaust(t) \/ Schedule(t) \/ MakeReady(t)
    \/ ListDue(t) \/ ReleaseOne(t) \/ Refresh(t) \/ BeginAttempt(t) \/ Start(t)
    \/ ComputeEnds(t) \/ MarkFailed(t) \/ SaveReceipt(t) \/ Complete(t)

StartUp == Restart \/ RecoverRow \/ RecoverSchedule \/ OpenSocket

Next ==
    \/ \E t \in Threads : Receive(t) \/ ThreadStep(t) \/ CallFails(t)
    \/ Crash \/ StartUp \/ Purge

Spec == Init /\ [][Next]_vars

\* Threads keep running (the API call has a timeout) and systemd restarts the
\* unit.  Nothing is assumed of clients, of Hermes, of maintenance or of failures.
Fairness ==
    /\ \A t \in Threads : WF_vars(ThreadStep(t))
    /\ WF_vars(StartUp)

FairSpec == Spec /\ Fairness
-----------------------------------------------------------------------------
(* Safety *)

\* Hermes never computes a task twice at the same time.  A row in flight has the
\* thread that computes it, unless recovery is still to run or an exception ended
\* that thread after the row's start; then nobody computes it.
OneComputation ==
    \A k \in Keys :
        /\ \A t, u \in Threads :
             K(t) = k /\ K(u) = k /\ pc[t] \in Computing /\ pc[u] \in Computing => t = u
        /\ op[k].state = "in_flight" /\ service = "up" /\ k \notin abandoned =>
             \E t \in Threads : K(t) = k /\ pc[t] \in Computing
        /\ \A t \in Threads : K(t) = k /\ pc[t] \in Computing => k \notin abandoned

\* A completed row has its receipt, although they live in different databases:
\* what _prepare_operation raises as cognition_completed_receipt_missing.
CompletedHasReceipt == \A k \in Keys : op[k].state = "completed" => receipt[k] # 0

\* A result that was paid for is never computed again or given up: with a
\* receipt the row is completed, or about to be, or purged.
ResultKept ==
    \A k \in Keys : receipt[k] # 0 => op[k].state \in {"in_flight", "completed", "absent"}

\* All clients that ever got a receipt for a key hold the stored one, through
\* duplicates, crashes, retries and INSERT OR REPLACE.
AnswersAgree == \A t \in Threads : reply[t] # 0 => receipt[K(t)] = reply[t]

(* Liveness under FairSpec *)

\* A row in flight does not stay so, unless an exception ended its thread: that
\* row waits for a restart, which nothing brings about.
InFlightResolved ==
    \A k \in Keys : []<>(op[k].state # "in_flight" \/ k \in abandoned)

(* What the documents say and the code does not do; see README, Findings *)

\* HLB-004.1: in_flight says that an attempt is being executed.
InFlightIsExecuting ==
    \A k \in Keys : op[k].state = "in_flight" /\ service = "up" =>
        \E t \in Threads : K(t) = k /\ pc[t] \in Computing

\* HLB-004.7: cognition is capped at max_attempts attempts in total.
AttemptsBounded == \A k \in Keys : op[k].attempt <= MaxAttempts

\* HLB-004.7: a transient failure is retried within the policy, so a row made
\* ready for its next attempt does not stay there.
RetriesGoOn ==
    \A k \in Keys : op[k].state = "prepared" /\ op[k].attempt > 0 ~> op[k].state # "prepared"
=============================================================================
