--------------------------- MODULE ContactDelivery ---------------------------
(***************************************************************************)
(* The Contact service: intent threads (asyncio.to_thread) over two SQLite *)
(* databases and one external provider.                                    *)
(*                                                                         *)
(* Covered: every commit and every external call of ContactService.process *)
(* and recover_startup as a step of its own, in program order; concurrent  *)
(* duplicate and conflicting requests; a learned route that changes or     *)
(* goes stale between requests; dry-run mode switched by a restart; crash  *)
(* at any step, also during startup recovery; a send that outlives the     *)
(* call (timeout, non-zero exit, crash) and settles later; a database call *)
(* or trace line that raises at any step; rows scheduled by a release      *)
(* before WP-1.                                                            *)
(*                                                                         *)
(* Left out: message text, traces, timestamps, HTTP/socket framing; two    *)
(* contact services at once (systemd runs one; serve() owns the socket).   *)
(*                                                                         *)
(* Consecutive reads are one step when nothing another worker may do in    *)
(* between changes what the handler does next.                             *)
(***************************************************************************)
EXTENDS OperationStore, FiniteSets

CONSTANTS
    Threads,         \* worker threads serving contact requests
    Recovery,        \* the startup-recovery worker
    Keys,            \* idempotency keys
    Bodies,          \* what an intent and its decision say, message aside
    Targets,         \* exact delivery targets
    NoRequest,       \* "nothing reserved", "nothing sent"
    ProbeInstalled,  \* an evidence probe was passed to ContactService
    ProbeTruthful,   \* that probe never contradicts the provider
    LegacyRows,      \* rows an older release may have left for a key
    MaxCrashes       \* bound: service crashes explored

Request == [body : Bodies, target : Targets]
Workers == Threads \cup {Recovery}
LegacyRow == {[state |-> s, attempt |-> 1] : s \in {"prepared", "retry_wait", "exhausted"}}

ASSUME ContactAssumption ==
    /\ Recovery \notin Threads
    /\ Keys # {} /\ Bodies # {} /\ Targets # {} /\ "unavailable" \notin Targets
    /\ NoRequest \notin Request
    /\ ProbeInstalled \in BOOLEAN /\ ProbeTruthful \in BOOLEAN
    /\ LegacyRows \subseteq LegacyRow
    /\ MaxCrashes \in Nat

VARIABLES
    request,         \* contact.sqlite3: requests
    receipt,         \* contact.sqlite3: status of the stored receipt
    reconciliation,  \* contact.sqlite3: decisive reconciliation evidence
    op,              \* operations.sqlite3: the contact row of each key
    route,           \* target the resolved route names, or "unavailable"
    enabled,         \* config.contact_delivery_enabled of this process
    service,         \* "up", "recovering" (before the socket opens), "down"
    interrupted,     \* rows startup recovery has still to reconcile
    abandoned,       \* ghost: keys whose owner this process lost to an exception
    pc,              \* where each worker is
    job,             \* the request each worker is handling
    evidence,        \* decisive evidence a worker holds
    reply,           \* what the client of each thread was told last
    world,           \* provider: what became of the message of a key
    sent,            \* ghost: the request whose message was last sent
    sends,           \* ghost: sends per key
    crashes          \* bound counter

database == <<request, receipt, reconciliation, op>>
process  == <<route, enabled, service, interrupted, abandoned, crashes>>
provider == <<world, sent, sends>>
worker   == <<pc, job, evidence, reply>>
vars     == <<database, process, provider, worker>>

Job == [key : Keys, request : Request]
NoJob == CHOOSE j \in Job : TRUE
Status == {"none", "delivered", "dry_run"}
Evidence == {"none", "delivered", "not_delivered"}
Location ==
    {"idle", "dedupe", "reserve", "dry_run", "reserve_op", "begin", "send",
     "sending", "mark_failed_safe", "mark_unknown", "save", "complete",
     "completed", "reconcile", "probe", "save_evidence", "resolve",
     "save_reconciled"}
Reply ==
    {"none", "rejected", "delivered", "dry_run", "conflict",
     "in_flight", "fresh_decision", "exhausted", "unknown",
     "receipt_unavailable", "error"}

\* A worker at these places took the row to IN_FLIGHT and has not let go.
Owning == {"send", "sending", "mark_failed_safe", "mark_unknown", "save", "complete"}

TypeOK ==
    /\ request \in [Keys -> Request \cup {NoRequest}]
    /\ receipt \in [Keys -> Status]
    /\ reconciliation \in [Keys -> Evidence]
    /\ op \in [Keys -> Row]
    /\ route \in Targets \cup {"unavailable"}
    /\ enabled \in BOOLEAN
    /\ service \in {"up", "recovering", "down"}
    /\ interrupted \subseteq Keys /\ abandoned \subseteq Keys
    /\ pc \in [Workers -> Location]
    /\ job \in [Workers -> Job]
    /\ evidence \in [Workers -> Evidence]
    /\ reply \in [Workers -> Reply]
    /\ world \in [Keys -> {"none", "pending", "delivered", "dropped"}]
    /\ sent \in [Keys -> Request \cup {NoRequest}]
    /\ sends \in [Keys -> Nat]
    /\ crashes \in 0..MaxCrashes

Init ==
    /\ op \in [Keys -> {NoOperation} \cup LegacyRows]
    /\ request \in [Keys -> Request \cup {NoRequest}]
    /\ \A k \in Keys : request[k] = NoRequest <=> op[k] = NoOperation
    /\ receipt = [k \in Keys |-> "none"]
    /\ reconciliation = [k \in Keys |-> "none"]
    /\ route \in Targets
    /\ enabled \in BOOLEAN
    /\ service = "up"
    /\ interrupted = {} /\ abandoned = {}
    /\ pc = [w \in Workers |-> "idle"]
    /\ job = [w \in Workers |-> NoJob]
    /\ evidence = [w \in Workers |-> "none"]
    /\ reply = [w \in Workers |-> "none"]
    /\ world = [k \in Keys |-> "none"]
    /\ sent = [k \in Keys |-> NoRequest]
    /\ sends = [k \in Keys |-> 0]
    /\ crashes = 0
-----------------------------------------------------------------------------
(* Worker bookkeeping *)

Goto(w, next) ==
    /\ pc' = [pc EXCEPT ![w] = next]
    /\ UNCHANGED <<job, evidence, reply>>

Answer(w, r) ==
    /\ pc' = [pc EXCEPT ![w] = "idle"]
    /\ evidence' = [evidence EXCEPT ![w] = "none"]
    /\ reply' = [reply EXCEPT ![w] = r]
    /\ UNCHANGED job

K(w) == job[w].key

-----------------------------------------------------------------------------
(* ContactService.process, one step per commit or external call *)

\* _execution_target and _validate pass; the target is fixed for this request.
Receive(t) ==
    /\ service = "up" /\ pc[t] = "idle"
    /\ route # "unavailable"
    /\ \E k \in Keys, b \in Bodies :
         job' = [job EXCEPT ![t] = [key |-> k, request |-> [body |-> b, target |-> route]]]
    /\ pc' = [pc EXCEPT ![t] = "dedupe"]
    /\ reply' = [reply EXCEPT ![t] = "none"]
    /\ UNCHANGED <<database, process, provider, evidence>>

\* Stale or invalid route, target not allowed, expired or inconsistent intent.
Reject(t) ==
    /\ service = "up" /\ pc[t] = "idle"
    /\ Answer(t, "rejected")
    /\ UNCHANGED <<database, process, provider>>

\* Any stored receipt, a dry run included, answers the request.
Dedupe(t) ==
    /\ pc[t] = "dedupe"
    /\ IF receipt[K(t)] # "none" THEN Answer(t, receipt[K(t)]) ELSE Goto(t, "reserve")
    /\ UNCHANGED <<database, process, provider>>

\* ContactStore.reserve binds the key to the request hash, then the mode decides.
ReserveRequest(t) ==
    /\ pc[t] = "reserve"
    /\ \/ /\ request[K(t)] \in {NoRequest, job[t].request}
          /\ request' = [request EXCEPT ![K(t)] = job[t].request]
          /\ Goto(t, IF enabled THEN "reserve_op" ELSE "dry_run")
       \/ /\ request[K(t)] \notin {NoRequest, job[t].request}
          /\ Answer(t, "conflict")
          /\ UNCHANGED request
    /\ UNCHANGED <<receipt, reconciliation, op, process, provider>>

\* As after the other commits a thread ends with, the trace line may raise.
SaveDryRun(t) ==
    /\ pc[t] = "dry_run"
    /\ receipt' = [receipt EXCEPT ![K(t)] = "dry_run"]
    /\ \E r \in {"dry_run", "error"} : Answer(t, r)
    /\ UNCHANGED <<request, reconciliation, op, process, provider>>

\* OperationStore.reserve, and _prepare_existing on the row it returned.
ReserveOperation(t) ==
    /\ pc[t] = "reserve_op"
    /\ LET row == IF op[K(t)] = NoOperation THEN Reserved ELSE op[K(t)] IN
         /\ op' = [op EXCEPT ![K(t)] = row]
         /\ \/ row = Reserved /\ Goto(t, "begin")
            \/ row.state = "completed" /\ Goto(t, "completed")
            \/ row.state = "delivery_unknown" /\ Goto(t, "reconcile")
            \/ row.state = "in_flight" /\ Answer(t, "in_flight")
            \/ row.state = "exhausted" /\ Answer(t, "exhausted")
            \/ /\ \/ row.state \in {"failed_safe", "retry_wait"}
                  \/ row.state = "prepared" /\ row.attempt > 0
               /\ Answer(t, "fresh_decision")
    /\ UNCHANGED <<request, receipt, reconciliation, process, provider>>

\* Mutant: no compare-and-set on the row.
BeginAttemptUnchecked(t) ==
    /\ pc[t] = "begin"
    /\ op' = [op EXCEPT ![K(t)] = StartAttempt(op[K(t)])]
    /\ Goto(t, "send")
    /\ UNCHANGED <<request, receipt, reconciliation, process, provider>>

\* RetryEngine.begin_attempt; a worker that lost the race gets a state conflict.
BeginAttempt(t) ==
    /\ pc[t] = "begin"
    /\ \/ /\ CanStartAttempt(op[K(t)]) /\ op[K(t)].attempt = 0
          /\ op' = [op EXCEPT ![K(t)] = StartAttempt(op[K(t)])]
          /\ Goto(t, "send")
       \/ /\ ~ (CanStartAttempt(op[K(t)]) /\ op[K(t)].attempt = 0)
          /\ Answer(t, "error")
          /\ UNCHANGED op
    /\ UNCHANGED <<request, receipt, reconciliation, process, provider>>

\* OSError: the hermes child never started.
SpawnFails(t) ==
    /\ pc[t] = "send"
    /\ Goto(t, "mark_failed_safe")
    /\ UNCHANGED <<database, process, provider>>

\* The child runs: from here on the provider may accept the message.
Spawn(t) ==
    /\ pc[t] = "send"
    /\ world' = [world EXCEPT ![K(t)] = "pending"]
    /\ sent' = [sent EXCEPT ![K(t)] = job[t].request]
    /\ sends' = [sends EXCEPT ![K(t)] = sends[K(t)] + 1]
    /\ Goto(t, "sending")
    /\ UNCHANGED <<database, process>>

\* Mutant: the row is completed before the receipt is durable.
SendSucceedsUnrecorded(t) ==
    /\ pc[t] = "sending" /\ world[K(t)] = "delivered"
    /\ Goto(t, "complete")
    /\ UNCHANGED <<database, process, provider>>

\* Exit status 0 is the provider's acceptance.
SendSucceeds(t) ==
    /\ pc[t] = "sending" /\ world[K(t)] = "delivered"
    /\ Goto(t, "save")
    /\ UNCHANGED <<database, process, provider>>

\* Mutants: a failing child proves that nothing was sent, or does not matter.
SendOutcomePresumedSafe(t) ==
    /\ pc[t] = "sending"
    /\ Goto(t, "mark_failed_safe")
    /\ UNCHANGED <<database, process, provider>>
SendOutcomeIgnored(t) ==
    /\ pc[t] = "sending"
    /\ Goto(t, "save")
    /\ UNCHANGED <<database, process, provider>>

\* Timeout, non-zero exit or an unexpected exception prove nothing.
SendOutcomeUnknown(t) ==
    /\ pc[t] = "sending"
    /\ Goto(t, "mark_unknown")
    /\ UNCHANGED <<database, process, provider>>

RecordFailedSafe(t) ==
    /\ pc[t] = "mark_failed_safe"
    /\ IF CanMarkFailedSafe(op[K(t)])
       THEN /\ op' = [op EXCEPT ![K(t)] = MarkFailedSafe(op[K(t)])]
            /\ \E r \in {"fresh_decision", "error"} : Answer(t, r)
       ELSE Answer(t, "error") /\ UNCHANGED op
    /\ UNCHANGED <<request, receipt, reconciliation, process, provider>>

\* Mutant: a doubtful outcome asks for a fresh decision.
RecordUnknownAsRetryable(t) ==
    /\ pc[t] = "mark_unknown"
    /\ op' = [op EXCEPT ![K(t)] = MarkDeliveryUnknown(op[K(t)])]
    /\ Answer(t, "fresh_decision")
    /\ UNCHANGED <<request, receipt, reconciliation, process, provider>>

RecordUnknown(t) ==
    /\ pc[t] = "mark_unknown"
    /\ IF CanMarkDeliveryUnknown("contact", op[K(t)])
       THEN /\ op' = [op EXCEPT ![K(t)] = MarkDeliveryUnknown(op[K(t)])]
            /\ Goto(t, "reconcile")
       ELSE Answer(t, "error") /\ UNCHANGED op
    /\ UNCHANGED <<request, receipt, reconciliation, process, provider>>

\* Provider evidence is durable before the row is completed.
SaveReceipt(t) ==
    /\ pc[t] = "save"
    /\ receipt' = [receipt EXCEPT ![K(t)] = "delivered"]
    /\ Goto(t, "complete")
    /\ UNCHANGED <<request, reconciliation, op, process, provider>>

\* A state conflict is swallowed: the receipt already answers the client.
Complete(t) ==
    /\ pc[t] = "complete"
    /\ op' = IF CanMarkCompleted("contact", op[K(t)])
             THEN [op EXCEPT ![K(t)] = MarkCompleted(op[K(t)])]
             ELSE op
    /\ \E r \in {"delivered", "error"} : Answer(t, r)
    /\ UNCHANGED <<request, receipt, reconciliation, process, provider>>

\* _prepare_existing on a completed row: only reconciliation evidence answers.
AnswerCompleted(t) ==
    /\ pc[t] = "completed"
    /\ IF reconciliation[K(t)] = "delivered"
       THEN Goto(t, "save_reconciled")
       ELSE Answer(t, "receipt_unavailable")
    /\ UNCHANGED <<database, process, provider>>
-----------------------------------------------------------------------------
(* ContactReconciler.reconcile, run by a request or by startup recovery *)

\* Load the row; local evidence first: the receipt, then stored evidence.
LookUpEvidence(w) ==
    LET local == IF receipt[K(w)] = "delivered" THEN "delivered"
                 ELSE reconciliation[K(w)]
    IN
    /\ pc[w] = "reconcile"
    /\ \/ op[K(w)].state # "delivery_unknown" /\ Answer(w, "error")
       \/ /\ op[K(w)].state = "delivery_unknown"
          /\ \/ /\ local # "none"
                /\ evidence' = [evidence EXCEPT ![w] = local]
                /\ pc' = [pc EXCEPT ![w] = "resolve"]
                /\ UNCHANGED <<job, reply>>
             \/ local = "none" /\ ProbeInstalled /\ Goto(w, "probe")
             \/ local = "none" /\ ~ProbeInstalled /\ Answer(w, "unknown")
    /\ UNCHANGED <<database, process, provider>>

\* Mutant: decisive evidence is acted on before it is saved.
ProbeUnrecorded(w) ==
    /\ pc[w] = "probe"
    /\ \E found \in {"delivered", "not_delivered"} :
         evidence' = [evidence EXCEPT ![w] = found]
    /\ pc' = [pc EXCEPT ![w] = "resolve"]
    /\ UNCHANGED <<database, process, provider, job, reply>>

\* The probe asks the provider.  A truthful one calls a message delivered only
\* if it was, and not delivered only if it never will be.
Probe(w) ==
    /\ pc[w] = "probe"
    /\ \/ \E r \in {"unknown", "error"} : Answer(w, r)
       \/ \E found \in {"delivered", "not_delivered"} :
            /\ ProbeTruthful =>
                 world[K(w)] \in IF found = "delivered" THEN {"delivered"} ELSE {"none", "dropped"}
            /\ evidence' = [evidence EXCEPT ![w] = found]
            /\ pc' = [pc EXCEPT ![w] = "save_evidence"]
            /\ UNCHANGED <<job, reply>>
    /\ UNCHANGED <<database, process, provider>>

\* save_reconciliation refuses evidence that contradicts what is stored.
SaveEvidence(w) ==
    /\ pc[w] = "save_evidence"
    /\ IF reconciliation[K(w)] \in {"none", evidence[w]}
       THEN /\ reconciliation' = [reconciliation EXCEPT ![K(w)] = evidence[w]]
            /\ Goto(w, "resolve")
       ELSE Answer(w, "error") /\ UNCHANGED reconciliation
    /\ UNCHANGED <<request, receipt, op, process, provider>>

ResolveDelivered(w) ==
    /\ pc[w] = "resolve" /\ evidence[w] = "delivered"
    /\ IF CanMarkCompleted("contact", op[K(w)])
       THEN /\ op' = [op EXCEPT ![K(w)] = MarkCompleted(op[K(w)])]
            /\ IF w = Recovery THEN Answer(w, "delivered") ELSE Goto(w, "save_reconciled")
       ELSE Answer(w, "error") /\ UNCHANGED op
    /\ UNCHANGED <<request, receipt, reconciliation, process, provider>>

ResolveNotDelivered(w) ==
    /\ pc[w] = "resolve" /\ evidence[w] = "not_delivered"
    /\ IF CanMarkFailedSafe(op[K(w)])
       THEN /\ op' = [op EXCEPT ![K(w)] = MarkFailedSafe(op[K(w)])]
            /\ Answer(w, "fresh_decision")
       ELSE Answer(w, "error") /\ UNCHANGED op
    /\ UNCHANGED <<request, receipt, reconciliation, process, provider>>

\* _reconciled_receipt
SaveReconciledReceipt(t) ==
    /\ pc[t] = "save_reconciled"
    /\ receipt' = [receipt EXCEPT ![K(t)] = "delivered"]
    /\ Answer(t, "delivered")
    /\ UNCHANGED <<request, reconciliation, op, process, provider>>
-----------------------------------------------------------------------------
(* Errors, process lifetime, route and provider *)

\* A call of a database or of the trace raises and ends the request, or startup
\* recovery of this row, where it stands; the process lives on.  Only an
\* exception of the sender itself is caught (SendOutcomeUnknown).
CallFails(w) ==
    /\ pc[w] \notin {"idle", "sending"}
    /\ abandoned' = IF pc[w] \in Owning THEN abandoned \cup {K(w)} ELSE abandoned
    /\ Answer(w, "error")
    /\ UNCHANGED <<database, provider, route, enabled, service, interrupted, crashes>>

\* Every thread dies where it stands; only the databases survive.
Crash ==
    /\ service # "down" /\ crashes < MaxCrashes
    /\ service' = "down"
    /\ crashes' = crashes + 1
    /\ interrupted' = {} /\ abandoned' = {}
    /\ pc' = [w \in Workers |-> "idle"]
    /\ evidence' = [w \in Workers |-> "none"]
    /\ UNCHANGED <<database, provider, route, enabled, job, reply>>

\* Mutants: restart leaves in-flight rows alone, or presumes they failed.
RestartWith(Recovered(_)) ==
    /\ service = "down"
    /\ service' = "recovering"
    /\ enabled' \in BOOLEAN
    /\ interrupted' = {k \in Keys : op[k].state = "in_flight"}
    /\ op' = [k \in Keys |-> Recovered(op[k])]
    /\ UNCHANGED <<request, receipt, reconciliation, provider, worker, route, abandoned, crashes>>
RestartForgetting == RestartWith(LAMBDA o : o)
RestartPresumingFailure ==
    RestartWith(LAMBDA o : IF o.state = "in_flight" THEN MarkFailedSafe(o) ELSE o)

\* serve(): recover_interrupted_contact_operations moves every in-flight row
\* to delivery_unknown in one transaction and returns those rows.
Restart ==
    /\ service = "down"
    /\ service' = "recovering"
    /\ enabled' \in BOOLEAN
    /\ interrupted' = {k \in Keys : op[k].state = "in_flight"}
    /\ op' = [k \in Keys |->
                IF op[k].state = "in_flight" THEN MarkDeliveryUnknown(op[k]) ELSE op[k]]
    /\ UNCHANGED <<request, receipt, reconciliation, provider, worker, route, abandoned, crashes>>

\* recover_startup reconciles those rows one by one; errors are swallowed.
RecoverNext ==
    /\ service = "recovering" /\ pc[Recovery] = "idle"
    /\ \E k \in interrupted :
         /\ interrupted' = interrupted \ {k}
         /\ job' = [job EXCEPT ![Recovery].key = k]
    /\ pc' = [pc EXCEPT ![Recovery] = "reconcile"]
    /\ UNCHANGED <<database, provider, evidence, reply, route, enabled, service, abandoned, crashes>>

OpenSocket ==
    /\ service = "recovering" /\ pc[Recovery] = "idle" /\ interrupted = {}
    /\ service' = "up"
    /\ UNCHANGED <<database, provider, worker, route, enabled, interrupted, abandoned, crashes>>

\* The gateway learns another route, or the learned one ages or is invalidated.
RouteChanges ==
    /\ \E r \in (Targets \cup {"unavailable"}) \ {route} : route' = r
    /\ UNCHANGED <<database, provider, worker, enabled, service, interrupted, abandoned, crashes>>

\* The provider's decision may come long after the call, or the caller, is gone.
ProviderSettles ==
    /\ \E k \in Keys, outcome \in {"delivered", "dropped"} :
         /\ world[k] = "pending"
         /\ world' = [world EXCEPT ![k] = outcome]
    /\ UNCHANGED <<database, process, worker, sent, sends>>
-----------------------------------------------------------------------------
ThreadStep(t) ==
    \/ Dedupe(t) \/ ReserveRequest(t) \/ SaveDryRun(t) \/ ReserveOperation(t)
    \/ BeginAttempt(t) \/ SpawnFails(t) \/ Spawn(t) \/ SendSucceeds(t)
    \/ SendOutcomeUnknown(t) \/ RecordFailedSafe(t) \/ RecordUnknown(t)
    \/ SaveReceipt(t) \/ Complete(t) \/ AnswerCompleted(t)
    \/ SaveReconciledReceipt(t)

ReconcileStep(w) ==
    \/ LookUpEvidence(w) \/ Probe(w) \/ SaveEvidence(w)
    \/ ResolveDelivered(w) \/ ResolveNotDelivered(w)

Next ==
    \/ \E t \in Threads : Receive(t) \/ Reject(t) \/ ThreadStep(t)
    \/ \E w \in Workers : ReconcileStep(w) \/ CallFails(w)
    \/ Crash \/ Restart \/ RecoverNext \/ OpenSocket
    \/ RouteChanges \/ ProviderSettles

Spec == Init /\ [][Next]_vars

\* Worker threads keep running (the child has a timeout) and systemd restarts
\* the unit.  Nothing is assumed of clients, the route or the provider.
Fairness ==
    /\ \A t \in Threads : WF_vars(ThreadStep(t))
    /\ \A w \in Workers : WF_vars(ReconcileStep(w))
    /\ WF_vars(Restart) /\ WF_vars(RecoverNext) /\ WF_vars(OpenSocket)

FairSpec == Spec /\ Fairness
-----------------------------------------------------------------------------
(* Safety *)

\* Whatever is duplicated, retried, crashed or misreported by the probe, the
\* hermes child is started at most once for an idempotency key.
AtMostOneSend == \A k \in Keys : sends[k] <= 1

\* While the service runs, an in-flight row is somebody's: of exactly one thread
\* that will resolve it, or of one that an exception ended; nobody takes over
\* that one's row, sends for it or resolves it, until the next restart does.
InFlightOwned ==
    \A k \in Keys :
        LET owners == {t \in Threads : K(t) = k /\ pc[t] \in Owning} IN
        /\ op[k].state = "in_flight" /\ service # "down" => owners # {} \/ k \in abandoned
        /\ \A t, u \in owners : t = u
        /\ k \in abandoned => owners = {} /\ op[k].state = "in_flight"

\* The ledger never contradicts the provider: completed rows and delivered
\* receipts were delivered, and a row whose attempt ended FAILED_SAFE never will be.
LedgerMatchesProvider ==
    \A k \in Keys :
        /\ op[k].state = "completed" \/ receipt[k] = "delivered" => world[k] = "delivered"
        /\ op[k].state = "failed_safe" => world[k] \in {"none", "dropped"}

\* A completed row always has the durable evidence a later duplicate needs,
\* although the two live in different databases.
CompletionHasEvidence ==
    \A k \in Keys : op[k].state = "completed" =>
        receipt[k] = "delivered" \/ reconciliation[k] = "delivered"

\* Told to make a fresh decision, the Runtime may send a new intent: the old
\* message neither has arrived nor can still arrive.
FreshDecisionIsSafe ==
    \A t \in Threads : reply[t] = "fresh_decision" => world[K(t)] \in {"none", "dropped"}

\* "delivered" is only ever answered for a key whose message arrived.
DeliveredAnswerIsTrue ==
    \A t \in Threads : reply[t] = "delivered" => world[K(t)] = "delivered"

(* Action properties *)

\* delivery_unknown is left only on evidence that is already durable: neither
\* time, a restart nor a duplicate request unlocks it.
UnknownNeedsEvidence ==
    [][\A k \in Keys : op[k].state = "delivery_unknown" /\ op'[k] # op[k] =>
          \/ op'[k].state = "completed" /\ (receipt[k] = "delivered" \/ reconciliation[k] = "delivered")
          \/ op'[k].state = "failed_safe" /\ reconciliation[k] = "not_delivered"]_vars

(* Liveness under FairSpec *)

\* No row stays in flight for ever, crashes or not, if it is not abandoned:
\* threads resolve their own, recovery every other, those abandoned before a
\* crash among them.
InFlightResolved ==
    \A k \in Keys :
        op[k].state = "in_flight" ~> op[k].state # "in_flight" \/ k \in abandoned

(* Refinement *)

LedgerOf(o) ==
    CASE o = NoOperation \/ o = Reserved -> "open"
      [] o.state = "in_flight" -> "claimed"
      [] o.state = "delivery_unknown" -> "doubtful"
      [] o.state = "completed" -> "delivered"
      [] OTHER -> "refused"

Promise == INSTANCE AtMostOnceDelivery WITH
              ledger <- [k \in Keys |-> LedgerOf(op[k])], world <- world

\* Given a truthful probe the whole service, crashes included, is an
\* at-most-once delivery per key whose ledger ends where the message did.
ImplementsPromise == Promise!Spec

(* What the documents say and the code does not do; see README, Findings *)

\* HLB-004.4: a durable receipt heals a crash between receipt and completion.
ReceiptHeals ==
    \A k \in Keys :
        receipt[k] = "delivered" ~> op[k].state = "completed" \/ k \in abandoned

\* HLB-004.1: in_flight means that an attempt is executing.
InFlightIsExecuting ==
    \A k \in Keys : op[k].state = "in_flight" /\ service = "up" =>
        \E t \in Threads : K(t) = k /\ pc[t] \in Owning

\* HLB-004.6: idempotency binds the resolved route, so a delivered answer is for
\* the request that was reserved, its body and its target.
DeliveredAnswerBindsRoute ==
    \A t \in Threads : reply[t] = "delivered" => job[t].request = sent[K(t)]

\* HLB-004.4: a duplicate request never bypasses existing operation state, so a
\* row with an attempt behind it is not answered as a dry run.
DryRunMeansNotSent ==
    \A t \in Threads : reply[t] = "dry_run" => sends[K(t)] = 0

\* HLB-004.4: a durable delivered receipt is returned to a duplicate request.
ReceiptIsReturned ==
    \A t \in Threads : reply[t] = "receipt_unavailable" => receipt[K(t)] # "delivered"

\* HLB-004.3/004.4: FAILED_SAFE gives a contact one bounded retry.
FailedSafeIsRetried ==
    \A t \in Threads : reply[t] = "fresh_decision" => op[K(t)].attempt >= 2
=============================================================================
