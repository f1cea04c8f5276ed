--------------------------- MODULE PerceptDelivery ---------------------------
(***************************************************************************)
(* Percepts on their way to the Runtime: gateway and CLI threads submit    *)
(* them, the recovery daemon pumps what is left, and all of them work on   *)
(* the same rows of operations.sqlite3 with no notion of ownership.        *)
(*                                                                         *)
(* Covered: PerceptReliabilityExecutor.submit, attempt and pump, and the   *)
(* RetryEngine calls they make, one step per read that is acted on later   *)
(* and per commit; state conflicts and where they are caught; lost and     *)
(* late acknowledgements, with the percept persisted or not; crashes; the  *)
(* batch limits; the daily purge.                                          *)
(*                                                                         *)
(* Left out: the envelope; a key reused for another event (refused inside  *)
(* the reserving transaction, nothing changes); corrupt rows; the length   *)
(* of a backoff (a retry becomes due at any later time).                   *)
(*                                                                         *)
(* A key's number is its place in the (created_at, operation_id) order     *)
(* that lists and batches follow.                                          *)
(***************************************************************************)
EXTENDS OperationStore, FiniteSets

CONSTANTS
    Submitters,   \* threads of hermes processes handling a message
    Pumps,        \* processes running pump(): the daemon, or --once
    Keys,         \* idempotency keys, in list order
    MaxAttempts,  \* PERCEPT_RETRY_POLICY.max_attempts
    Limit,        \* batch limit of pump() and due_operations()
    MaxRows,      \* bound: rows ever reserved, counting again after a purge
    MaxCrashes    \* bound: worker crashes explored

Workers == Submitters \cup Pumps
NoKey == 0

ASSUME PerceptAssumption ==
    /\ Submitters \cap Pumps = {}
    /\ IsFiniteSet(Workers)
    /\ Keys \subseteq Nat \ {NoKey} /\ IsFiniteSet(Keys)
    /\ MaxAttempts \in Nat \ {0}
    /\ Limit \in Nat \ {0}
    /\ MaxRows \in Nat /\ MaxCrashes \in Nat

VARIABLES
    op,         \* the percept row of each key
    due,        \* next_attempt_at of a RETRY_WAIT row has passed
    outbox,     \* keys with an envelope in percept_outbox
    pc,         \* where each worker is
    key,        \* the row each worker is working on
    phase,      \* loop of pump() a worker is in, or "none"
    todo,       \* rest of that loop's list
    sends,      \* ghost: transport calls per reservation of a key
    answer,     \* ghost: the best answer the Runtime gave since the reservation
    rows,       \* bound counter
    crashes     \* bound counter

store   == <<op, due, outbox>>
worker  == <<pc, key, phase, todo>>
bounds  == <<rows, crashes>>
ghosts  == <<sends, answer>>
vars    == <<store, worker, ghosts, bounds>>

\* What comes with an ok: the percept is persisted, or a safe stop kept it out.
Acknowledgement == {"persisted", "safe_stop"}
Sweep == {"recover", "pending", "release"}
Location ==
    {"idle", "next", "load", "ready", "begin", "payload", "send", "complete",
     "clear", "fail", "mark_failed", "decide", "schedule", "exhaust"}

TypeOK ==
    /\ op \in [Keys -> Row]
    /\ due \in [Keys -> BOOLEAN]
    /\ outbox \subseteq Keys
    /\ pc \in [Workers -> Location]
    /\ key \in [Workers -> Keys \cup {NoKey}]
    /\ phase \in [Workers -> Sweep \cup {"deliver", "none"}]
    /\ todo \in [Workers -> SUBSET Keys]
    /\ sends \in [Keys -> Nat] /\ answer \in [Keys -> {"none"} \cup Acknowledgement]
    /\ rows \in 0..MaxRows /\ crashes \in 0..MaxCrashes

Init ==
    /\ op = [k \in Keys |-> NoOperation]
    /\ due = [k \in Keys |-> FALSE]
    /\ outbox = {}
    /\ pc = [w \in Workers |-> "idle"]
    /\ key = [w \in Workers |-> NoKey]
    /\ phase = [w \in Workers |-> "none"]
    /\ todo = [w \in Workers |-> {}]
    /\ sends = [k \in Keys |-> 0] /\ answer = [k \in Keys |-> "none"]
    /\ rows = 0 /\ crashes = 0
-----------------------------------------------------------------------------
(* Lists and worker bookkeeping *)

RowsIn(state) == {k \in Keys : op[k].state = state}

\* The first n of S in list order.
First(n, S) == {k \in S : Cardinality({j \in S : j < k}) < n}

\* due_operations: the first Limit rows in the order they became due.
DueBatches ==
    LET D == {k \in RowsIn("retry_wait") : due[k]} IN
    {B \in SUBSET D : Cardinality(B) <= Limit /\ (B # D => Cardinality(B) = Limit)}

Goto(w, next) == pc' = [pc EXCEPT ![w] = next] /\ UNCHANGED <<key, phase, todo>>

\* attempt() or a retry call is over; a pump goes on with its loop.
Return(w) ==
    /\ pc' = [pc EXCEPT ![w] = IF phase[w] = "none" THEN "idle" ELSE "next"]
    /\ key' = [key EXCEPT ![w] = NoKey]
    /\ UNCHANGED <<phase, todo>>

Stop(w) ==
    /\ pc' = [pc EXCEPT ![w] = "idle"]
    /\ key' = [key EXCEPT ![w] = NoKey]
    /\ phase' = [phase EXCEPT ![w] = "none"]
    /\ todo' = [todo EXCEPT ![w] = {}]

\* OperationStateConflict: the sweeps of pump() skip the row; elsewhere it ends
\* the submission, or the daemon, which systemd starts again.
Conflict(w) == IF phase[w] \in Sweep THEN Return(w) ELSE Stop(w)

\* A store method that either changes the row of w or raises.
Transition(w, allowed, row, next) ==
    IF allowed
    THEN op' = [op EXCEPT ![key[w]] = row] /\ Goto(w, next)
    ELSE Conflict(w) /\ UNCHANGED op
-----------------------------------------------------------------------------
(* submit() and pump() *)

\* reserve_percept: row and envelope in one transaction; it refuses an
\* unfinished row without envelope.
Submit(s) ==
    /\ pc[s] = "idle"
    /\ \E k \in Keys :
         /\ \/ /\ op[k] = NoOperation /\ rows < MaxRows
               /\ op' = [op EXCEPT ![k] = Reserved]
               /\ outbox' = outbox \cup {k}
               /\ rows' = rows + 1
            \/ /\ op[k] # NoOperation
               /\ op[k].state = "completed" \/ k \in outbox
               /\ UNCHANGED <<op, outbox, rows>>
         /\ key' = [key EXCEPT ![s] = k]
    /\ pc' = [pc EXCEPT ![s] = "load"]
    /\ UNCHANGED <<due, phase, todo, ghosts, crashes>>

\* Enter a loop of pump() with the list it reads first.
Enter(p, loop, list) ==
    /\ phase' = [phase EXCEPT ![p] = loop]
    /\ todo' = [todo EXCEPT ![p] = list]
    /\ pc' = [pc EXCEPT ![p] = "next"]
    /\ UNCHANGED <<store, key, ghosts, bounds>>

StartPump(p) == pc[p] = "idle" /\ Enter(p, "recover", RowsIn("in_flight"))

\* Mutant: nobody releases the rows whose backoff has ended.
NextLoopWithoutRelease(p) ==
    /\ pc[p] = "next" /\ todo[p] = {}
    /\ \/ phase[p] = "recover" /\ Enter(p, "pending", First(Limit, RowsIn("failed_safe")))
       \/ phase[p] = "pending" /\ Enter(p, "deliver", First(Limit, outbox))
       \/ /\ phase[p] = "deliver"
          /\ Stop(p)
          /\ UNCHANGED <<store, ghosts, bounds>>

NextLoop(p) ==
    /\ pc[p] = "next" /\ todo[p] = {}
    /\ \/ phase[p] = "recover" /\ Enter(p, "pending", First(Limit, RowsIn("failed_safe")))
       \/ phase[p] = "pending" /\ \E B \in DueBatches : Enter(p, "release", B)
       \/ phase[p] = "release" /\ Enter(p, "deliver", First(Limit, outbox))
       \/ /\ phase[p] = "deliver"
          /\ Stop(p)
          /\ UNCHANGED <<store, ghosts, bounds>>

\* What a loop does first with the next row of its list.
NextRow(p) ==
    /\ pc[p] = "next"
    /\ \E k \in IF phase[p] = "release" THEN todo[p] ELSE First(1, todo[p]) :
         /\ todo' = [todo EXCEPT ![p] = todo[p] \ {k}]
         /\ IF phase[p] = "deliver" /\ op[k].state # "prepared"
            THEN UNCHANGED <<pc, key>>
            ELSE /\ key' = [key EXCEPT ![p] = k]
                 /\ pc' = [pc EXCEPT ![p] =
                             CASE phase[p] = "recover" -> "mark_failed"
                               [] phase[p] = "pending" -> "decide"
                               [] phase[p] = "release" -> "ready"
                               [] phase[p] = "deliver" -> "load"]
    /\ UNCHANGED <<store, phase, ghosts, bounds>>
-----------------------------------------------------------------------------
(* attempt() *)

Load(w) ==
    /\ pc[w] = "load"
    /\ LET state == op[key[w]].state IN
         \/ state \in {"absent", "completed", "exhausted", "in_flight"} /\ Return(w)
         \/ state = "failed_safe" /\ Goto(w, "fail")
         \/ state = "prepared" /\ Goto(w, "begin")
         \/ /\ state = "retry_wait"
            /\ \E B \in DueBatches : IF key[w] \in B THEN Goto(w, "ready") ELSE Return(w)
    /\ UNCHANGED <<store, ghosts, bounds>>

\* make_retry_ready, also from release_due; both callers expect the conflict.
MakeReady(w) ==
    /\ pc[w] = "ready"
    /\ IF CanMakeRetryReady(op[key[w]])
       THEN /\ op' = [op EXCEPT ![key[w]] = MakeRetryReady(op[key[w]])]
            /\ due' = [due EXCEPT ![key[w]] = FALSE]
            /\ IF phase[w] = "release" THEN Return(w) ELSE Goto(w, "begin")
       ELSE Return(w) /\ UNCHANGED <<op, due>>
    /\ UNCHANGED <<outbox, ghosts, bounds>>

\* Mutant: the claim another worker won is ignored.
BeginAttemptIgnoringClaim(w) ==
    /\ pc[w] = "begin"
    /\ op' = IF CanStartAttempt(op[key[w]])
             THEN [op EXCEPT ![key[w]] = StartAttempt(op[key[w]])] ELSE op
    /\ Goto(w, "payload")
    /\ UNCHANGED <<due, outbox, ghosts, bounds>>

BeginAttempt(w) ==
    /\ pc[w] = "begin"
    /\ IF CanStartAttempt(op[key[w]])
       THEN op' = [op EXCEPT ![key[w]] = StartAttempt(op[key[w]])] /\ Goto(w, "payload")
       ELSE Return(w) /\ UNCHANGED op
    /\ UNCHANGED <<due, outbox, ghosts, bounds>>

GetPayload(w) ==
    /\ pc[w] = "payload"
    /\ Goto(w, IF key[w] \in outbox THEN "send" ELSE "fail")
    /\ UNCHANGED <<store, ghosts, bounds>>

\* The Runtime said ok.  It persisted the percept, now or for an earlier envelope,
\* or stopped safely without: attempt() does not look at receipt.persisted.
SendAcknowledged(w) ==
    /\ pc[w] = "send"
    /\ \E a \in Acknowledgement :
         answer' = [answer EXCEPT ![key[w]] = IF @ = "persisted" THEN @ ELSE a]
    /\ sends' = [sends EXCEPT ![key[w]] = sends[key[w]] + 1]
    /\ Goto(w, "complete")
    /\ UNCHANGED <<store, bounds>>

\* Mutant: whatever came back, or nothing, counts as an acknowledgement.
SendFailureIgnored(w) ==
    /\ pc[w] = "send"
    /\ sends' = [sends EXCEPT ![key[w]] = sends[key[w]] + 1]
    /\ Goto(w, "complete")
    /\ UNCHANGED <<store, answer, bounds>>

\* No connection, a refusal, an answer lost after the percept was persisted, or
\* a timeout with the envelope still to be handled: no ok reaches the bridge.
SendFails(w) ==
    /\ pc[w] = "send"
    /\ sends' = [sends EXCEPT ![key[w]] = sends[key[w]] + 1]
    /\ Goto(w, "fail")
    /\ UNCHANGED <<store, answer, bounds>>

\* Mutant: a completion that lost its row is taken for a completion.
CompleteIgnoringConflict(w) ==
    /\ pc[w] = "complete"
    /\ op' = IF CanMarkCompleted("percept", op[key[w]])
             THEN [op EXCEPT ![key[w]] = MarkCompleted(op[key[w]])] ELSE op
    /\ Goto(w, "clear")
    /\ UNCHANGED <<due, outbox, ghosts, bounds>>

Complete(w) ==
    /\ pc[w] = "complete"
    /\ Transition(w, CanMarkCompleted("percept", op[key[w]]), MarkCompleted(op[key[w]]), "clear")
    /\ UNCHANGED <<due, outbox, ghosts, bounds>>

ClearOutbox(w) ==
    /\ pc[w] = "clear"
    /\ outbox' = outbox \ {key[w]}
    /\ Return(w)
    /\ UNCHANGED <<op, due, ghosts, bounds>>

\* _schedule_failed reads the row again before it decides what is left to do.
LoadFailed(w) ==
    /\ pc[w] = "fail"
    /\ CASE op[key[w]].state = "in_flight" -> Goto(w, "mark_failed")
         [] op[key[w]].state = "failed_safe" -> Goto(w, "decide")
         [] OTHER -> Return(w)
    /\ UNCHANGED <<store, ghosts, bounds>>

\* Also the first step of recover_interrupted_percept for a row of its list.
MarkFailed(w) ==
    /\ pc[w] = "mark_failed"
    /\ Transition(w, CanMarkFailedSafe(op[key[w]]), MarkFailedSafe(op[key[w]]), "decide")
    /\ UNCHANGED <<due, outbox, ghosts, bounds>>
-----------------------------------------------------------------------------
(* RetryEngine.schedule_failed_safe: read and decide, then commit *)

Decide(w) ==
    /\ pc[w] = "decide"
    /\ IF op[key[w]].state # "failed_safe" THEN Conflict(w)
       ELSE Goto(w, IF op[key[w]].attempt >= MaxAttempts THEN "exhaust" ELSE "schedule")
    /\ UNCHANGED <<store, ghosts, bounds>>

Schedule(w) ==
    /\ pc[w] = "schedule"
    /\ IF CanScheduleRetry(op[key[w]])
       THEN /\ op' = [op EXCEPT ![key[w]] = ScheduleRetry(op[key[w]])]
            /\ due' = [due EXCEPT ![key[w]] = FALSE]
            /\ Return(w)
       ELSE Conflict(w) /\ UNCHANGED <<op, due>>
    /\ UNCHANGED <<outbox, ghosts, bounds>>

Exhaust(w) ==
    /\ pc[w] = "exhaust"
    /\ IF CanMarkExhausted(op[key[w]])
       THEN op' = [op EXCEPT ![key[w]] = MarkExhausted(op[key[w]])] /\ Return(w)
       ELSE Conflict(w) /\ UNCHANGED op
    /\ UNCHANGED <<due, outbox, ghosts, bounds>>
-----------------------------------------------------------------------------
(* Time, crashes and maintenance *)

BackoffEnds ==
    /\ \E k \in RowsIn("retry_wait") : ~due[k] /\ due' = [due EXCEPT ![k] = TRUE]
    /\ UNCHANGED <<op, outbox, worker, ghosts, bounds>>

Crash(w) ==
    /\ pc[w] # "idle" /\ crashes < MaxCrashes
    /\ Stop(w)
    /\ crashes' = crashes + 1
    /\ UNCHANGED <<store, ghosts, rows>>

\* A worker that may have read row k before it became terminal.  Retention (30
\* days) outlives every call, so such a worker is gone when the row is purged.
Holds(w, k) ==
    \/ key[w] = k /\ pc[w] # "load"
    \/ k \in todo[w] /\ phase[w] # "deliver"

\* Mutant: foreign keys are off and the envelope outlives its row.
PurgeRowOnly ==
    \E k \in Keys :
        /\ Purgeable("percept", op[k]) /\ \A w \in Workers : ~Holds(w, k)
        /\ op' = [op EXCEPT ![k] = NoOperation]
        /\ sends' = [sends EXCEPT ![k] = 0] /\ answer' = [answer EXCEPT ![k] = "none"]
        /\ UNCHANGED <<due, outbox, worker, bounds>>

\* purge_terminal by the daily timer; the envelope goes with its row.
Purge ==
    \E k \in Keys :
        /\ Purgeable("percept", op[k]) /\ \A w \in Workers : ~Holds(w, k)
        /\ op' = [op EXCEPT ![k] = NoOperation]
        /\ outbox' = outbox \ {k}
        /\ sends' = [sends EXCEPT ![k] = 0] /\ answer' = [answer EXCEPT ![k] = "none"]
        /\ UNCHANGED <<due, worker, bounds>>
-----------------------------------------------------------------------------
AttemptStep(w) ==
    \/ Load(w) \/ MakeReady(w) \/ BeginAttempt(w) \/ GetPayload(w)
    \/ SendAcknowledged(w) \/ SendFails(w) \/ Complete(w) \/ ClearOutbox(w)
    \/ LoadFailed(w) \/ MarkFailed(w) \/ Decide(w) \/ Schedule(w) \/ Exhaust(w)

PumpStep(p) == StartPump(p) \/ NextLoop(p) \/ NextRow(p)

Next ==
    \/ \E s \in Submitters : Submit(s)
    \/ \E p \in Pumps : PumpStep(p)
    \/ \E w \in Workers : AttemptStep(w) \/ Crash(w)
    \/ BackoffEnds \/ Purge

Spec == Init /\ [][Next]_vars

\* Every started call goes on (the socket has timeouts), the daemon pumps again
\* and again, and time passes.  Nothing is assumed of hosts or the Runtime.
Fairness ==
    /\ \A s \in Submitters : WF_vars(AttemptStep(s))
    /\ \A p \in Pumps : WF_vars(PumpStep(p) \/ AttemptStep(p))
    /\ WF_vars(BackoffEnds)

FairSpec == Spec /\ Fairness

\* The maintenance timer runs for ever.
MaintainedSpec == FairSpec /\ WF_vars(Purge)
-----------------------------------------------------------------------------
(* Safety *)

\* A row is completed only after the Runtime said ok to an envelope sent since the
\* row was reserved, whichever worker sent it and whoever recovered or purged the
\* row meanwhile: no lost, refused or late answer passes for an acknowledgement.
CompletedWasAcknowledged == \A k \in Keys : op[k].state = "completed" => answer[k] # "none"

\* A row that may still be attempted or resubmitted keeps its envelope, whoever
\* else completes, clears, recovers or purges it meanwhile.
PayloadKept ==
    \A k \in Keys : op[k].state \in OperationState \ {"completed"} => k \in outbox

\* Every transport call was recorded as an attempt first, so that a crash never
\* hides a send.
SendsAreRecorded == \A k \in Keys : sends[k] <= op[k].attempt

(* Liveness *)

\* MaintainedSpec: no percept is forgotten, not even behind given-up ones that fill
\* the pump's window until they are purged; it is completed or given up.
PerceptsSettle ==
    \A k \in Keys : []<>(op[k].state \in Terminal \cup {"absent"})

\* MaintainedSpec: an envelope orphaned by a crash between completion and
\* clean-up does not stay for ever; maintenance takes it away with its row.
OutboxDrained ==
    \A k \in Keys : []<>(op[k].state \in {"completed", "absent"} => k \notin outbox)

(* What the documents say and the code does not do; see README, Findings *)

\* ROADMAP: the acknowledgement of a percept is an authoritative, persisted one.
CompletedWasPersisted == \A k \in Keys : op[k].state = "completed" => answer[k] = "persisted"

\* HLB-004.3: the total number of attempts is bounded by max_attempts.
AttemptsBounded == \A k \in Keys : op[k].attempt <= MaxAttempts

\* HLB-004.3: recovery takes over percepts interrupted by a process restart, not
\* one a live worker is just delivering.
OnlyInterruptedRecovered ==
    [][\A p \in Pumps, k \in Keys :
          /\ phase[p] = "recover" /\ pc[p] = "mark_failed" /\ key[p] = k
          /\ op[k].state = "in_flight" /\ op'[k].state = "failed_safe"
          => \A w \in Workers : key[w] = k => pc[w] \notin {"payload", "send", "complete"}]_vars

\* pump(): pending percepts are delivered without manual intervention, however
\* many finished ones are still in the outbox.
PendingIsPumped == \A k \in Keys : op[k].state = "prepared" ~> op[k].state # "prepared"
=============================================================================
