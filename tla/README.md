# Hermes Life Bridge: TLA+ specification

Hermes Life Bridge (HLB) connects Hermes, the messaging and cognition surface, with a Life Runtime that decides
why and whether something happens. What HLB adds is reliability: durable operation rows, bounded retries,
at-most-once contact delivery, recovery after a crash. Those are statements about interleavings of threads,
processes, two SQLite databases and a provider, and about crashes between any two commits. The test suite runs
them one at a time. The modules here run them in every order on small instances, and prove the most important
ones for instances of any size.

Paths of the form `contact_service.py:402` are relative to `src/src/hermes_life_bridge/`.

## 1. The system

| Part | Source | State it keeps | Operations | Talks to |
| --- | --- | --- | --- | --- |
| Reliability contract | `reliability_contract.py` | none | the transition table of an operation, per class (percept, cognition, contact) | every store method |
| Operation store | `operation_store.py` | `operations.sqlite3`: one row per idempotency key (state, attempt, outcome, next attempt), `percept_outbox` | reserve, start_attempt, mark_*, schedule_retry, make_retry_ready, mark_exhausted, recover_interrupted_contacts, purge_terminal; each one `BEGIN IMMEDIATE` transaction | the three services |
| Retry engine | `retry_engine.py` | none of its own; reads a row, decides, then calls a store method in a *second* transaction | begin_attempt, schedule_failed_safe, release_due, recover_interrupted_percept / cognition | operation store |
| Contact service | `contact_service.py`, `contact_store.py`, `contact_delivery.py`, `contact_reconciliation.py` | `contact.sqlite3`: requests, receipts, reconciliation evidence; the contact rows | process, reconcile, recover_startup | `hermes send` child process, evidence probe, route store |
| Percept delivery | `percept_delivery.py`, `percept_recovery_service.py`, `bridge.py`, `transport.py` | percept rows, envelopes in the outbox | submit, attempt, pump | the Runtime's ingress socket |
| Cognition service | `cognition_service.py`, `cognition_store.py`, `hermes_api.py` | `cognition.sqlite3`: tasks, receipts; cognition rows | process, recover_startup | the Hermes API (blocking, minutes) |
| Maintenance | `maintenance.py` | none | retention, WAL checkpoints | operation store |
| Work shadow ledger | `work_store.py`, `work_projection.py`, `work_adapter.py` | `work_ledger`, `shadow_outbox`, `session_epochs`, `work_metrics_daily` | accept, note_activity, evaluate_due | producers, activity hooks, evaluator |
| Work producer | `work_producer.py` | in-memory tool evidence registry behind a lock | observe a tool call, select evidence, post an event | plugin hooks, work ingress |
| Owner decision routing | `codex_decision.py`, `plugin.py`, lookup in `contact_store.py` | session routes of the plugin (LRU, time to live) | observe a gateway turn, resolve an approval | contact database, decision socket |
| Plugin hooks | `plugin.py`, `bridge.py` | session routes | message hooks, tool hook, registration | percept delivery, work producer, route store, evidence file |
| Route lifecycle | `routing.py` | the route file and its one temporary file | save, load, invalidate, status | contact service, doctor |
| Operational trace | `trace.py` | the trace, its rotated files, a lock file | emit (with rotation), tail | every other part |
| Doctor and compatibility | `doctor.py`, `compatibility.py`, `core_observation.py` | the compatibility evidence file | record, publish, classify | plugin hooks, live update |
| Representation and privacy migrations | `representation*.py`, `privacy_*.py` | - | one-time rewriting of rows and files, services stopped | trace, route file, databases |
| Interest producer, soak | `interest_producer.py`, `soak.py` | none | one advisory post; a measuring loop | - |
| Normalisation, configuration, command lines | `normalize.py`, `model.py`, `config.py`, `*_cli.py` | - | pure conversions, entry points | - |
| Installation and live update | `src/scripts/*.sh` | systemd units, plugin directory, code backups | install, update, roll back | systemd, doctor |

### How the parts interact

A service accepts requests on a Unix socket and hands each to a thread (`asyncio.to_thread`). A thread makes
several separate commits, in two databases that share no transaction, around one external call that may take
effect and then fail, time out, or outlive the process. Duplicates of a request arrive at any time, on any thread.
After a crash systemd restarts the service, which runs startup recovery *before* it opens the socket
(`contact_service.py:661`). Percepts have no service of their own: gateway processes, the command line and the
recovery daemon work on the same rows with no notion of ownership.

Three things are shared through files rather than databases. Every Hermes process replaces the route file and the
evidence file through a temporary file with *one* name and without a lock. Every process appends to one trace under an
advisory lock, renames its files when it is full, and is read without the lock. And the updater replaces the code
under all of them.

### What is hard, and what must be true

* **Contact.** The message must go out at most once per key, whatever is duplicated, times out or crashes; what the
  databases say must agree with what the provider did; an unknown outcome may be resolved only on durable
  evidence; a crash between the receipt (one database) and the completion (the other) must lose neither.
* **Percepts.** Delivery is at least once and the Runtime deduplicates, so: no row completed that the Runtime never
  acknowledged, no envelope lost while it may still be needed, every transport call counted before it is made,
  attempts bounded, every percept completed or given up in the end. The retry decision is taken on a row read before
  the transaction that applies it, and recovery fails rows that a live worker still holds.
* **Cognition.** A computation costs money: one at a time per task, its result never lost, one answer for all
  duplicates. `release_due` touches rows that other requests wait for.
* **Work ledger.** Three tables tell one story; work is proposed only after a watched idle stretch; a decision is final.
* **Owner decisions.** Consent is given to the request the owner was asked about, on the route it was asked on, and
  "accepted" is said only if the companion took exactly that decision.
* **Work producer.** Evidence disappears from the bounded registry only for a reason, although hooks read their
  clocks before they take the lock.
* **Message hooks and route.** Two hooks may be between opening, writing and renaming the same temporary file, and a
  renamed file keeps its writers. Whatever a reader finds, a contact goes only where the owner wrote from lately
  or where the configuration says; the route of a turn is there before its percept; one percept is submitted for each
  message, although Hermes calls both hooks for it.
* **Trace.** The order of records survives races, and a crash between two renames; what a failure costs is bounded;
  a reader that takes no lock sees nothing twice and nothing out of order.
* **Live update and migration.** The old code and the real route are each kept somewhere at every moment; success
  and rollback mean what they say; evidence is not lost to a failed write.

Each hazard has an entry with its line in `PROJECT.json` (`hazards`).

## 2. The modules

| Module | Models | Correspondence |
| --- | --- | --- |
| `ReliabilityContract` | `reliability_contract.py` | `AllowedTransitions`, `IsOperationTransitionAllowed` are the table and the guard of the same names; a row is `[state, attempt]` |
| `OperationStore` | one row's view of `operation_store.py` | `CanX(row)` is what method X's builder refuses, `X(row)` the row it writes; callers use the pair as one step because the method is one transaction |
| `AtMostOnceDelivery` | abstract promise of the contact path | a ledger entry and a message per key, no threads, databases or crashes |
| `ContactDelivery` | contact service | one action per commit or external call of `process` and `recover_startup`, in program order; `pc` says where each thread is, the database variables survive `Crash`, the rest does not; `world` is the provider; `CallFails` is an exception no `except` of the call catches, `abandoned` the rows in flight it left |
| `PerceptDelivery` | percept delivery, daemon, outbox, purge | `phase` and `todo` are the four loops of `pump` and what is left of their lists; `Decide` and `Schedule`/`Exhaust` are the read and the later commit of `schedule_failed_safe`; `answer` is history: how the Runtime acknowledged, by persisting the percept or by a safe stop, both of which come as `ok` |
| `CognitionDelivery` | cognition service | as the contact service; `own` distinguishes whose failure a thread schedules, `todo` the rows it still releases; `CallFails` and `abandoned` likewise |
| `WorkLedger` | work ledger | one action per call, since each is one transaction; `disturbed` is history, kept for the properties |
| `OwnerDecision` | session routes, lookup, decision socket | `routes` is the ordered dictionary of the plugin, `OnRoute`/`Listed` the SQL query and the loop over its rows, `mail` the decisions under way (with `by = None` once the call has timed out) |
| `WorkProducer` | evidence registry | `order` and `bucket` are the ordered dictionary of deques; `ToolEnds` reads the clock, `Observe` takes the lock later |
| `PrivateFile` | how `RouteStore` and `CompatibilityEvidenceStore` replace a file | operators on `[live, tmp, atTmp, atLive]`: what is under the two names, and who still has a descriptor on the file under each; text written over a longer one does not parse, unless all that is left of that is its newline |
| `GatewayIngress` | the two message hooks, `routing.py`, the target a contact gets | one action per file operation and per call that may raise; `called` is what Hermes did: each hook once for a turn, for a gateway message both, so that only the platform check of `PreLlmCall` keeps the second from it; `AdviceFails`, `RouteFails` and `SubmitFails` are the exceptions the hooks swallow; `ExecutionTarget` and `ContactHealth` are what the Contact service and Doctor make of the file at that moment |
| `CompatibilityEvidence` | `compatibility.py`'s evidence file, Doctor's ingress verdict | `Record` reads and changes, `Open`, `Write`, `Replace` are the save; `Leave` is a process that ends |
| `LiveUpdate` | `scripts/update_code_preserve_config.sh` | `step` is the script's program counter, the action `CommandFails` the EXIT trap, the `Undo...` actions the rollback; extends `CompatibilityEvidence`, because Doctor's verdict is the last gate and the gateway's restart ends a process that may be writing |
| `TraceLog` | `trace.py` | `file[i]` is the trace (0) or a rotated file; `at` is the next rename a lock holder makes; `reading` is the next file of `tail` |
| `PrivacyMigration` | `privacy_migrate_v0033.py` on a `TraceLog` | `step` is where `migrate` is, `todo` the files its present loop has not treated, `RunEnds` a failure or kill |
| `MC*` | - | named instances and symmetry sets for TLC |
| `ContactDelivery_proofs`, `CognitionDelivery_proofs`, `PerceptDelivery_proofs`, `WorkLedger_proofs`, `OwnerDecision_proofs`, `GatewayIngress_proofs`, `TraceLog_proofs`, `LiveUpdate_proofs` | - | theorems (section 5); `ContactDelivery_proofs` begins with those about `OperationStore`, `WorkLedger_proofs` ends with those about `WorkProducer`, `TraceLog_proofs` with those about `PrivacyMigration` |

`OperationStore` extends `ReliabilityContract`; the three delivery modules extend `OperationStore`, so the
guards and rows they use are the ones the theorem about the contract covers. `ContactDelivery` instantiates
`AtMostOnceDelivery` under a refinement mapping. `OwnerDecision` sees the contact database through the
commits of the contact service it can observe. `GatewayIngress` and `CompatibilityEvidence` extend `PrivateFile`,
`LiveUpdate` runs beside `CompatibilityEvidence`, and `PrivacyMigration` beside `TraceLog`: each composed
specification interleaves the steps of both. `GatewayIngress` submits a percept in one step, since `PerceptDelivery`
has the rest, and `ContactDelivery` lets the route change at any time, since `GatewayIngress` shows how.

`PROJECT.json` (`map`) gives the source lines of every definition that models code. Definitions marked
`Mutant:` are plausible bugs, one per property; replacing the definition they stand beside makes the property fail.

### What the models abstract

Text, hashes, timestamps and framing are left out: a body, a target or a task is a value that is equal to another or
not. A backoff "ends at some time". Consecutive reads are one step when nothing another worker may do in
between changes what the handler does next. A request that validation refuses leaves no trace. What each module
covers and leaves out is in its header.

The environment is as hostile as the code allows for: `hermes send` may succeed, fail to start, or end without a
known outcome and settle later or never; acknowledgements get lost or come late; the probe of the reconciliation may
be absent (as shipped), truthful, or contradict the provider and itself; routes change between requests; trace lines
and database calls may raise wherever no `except` is around them, which ends the call but not the service; the
Hermes API fails; the Runtime acknowledges without persisting; the companion answers late, differently, or never;
disks fill, writes are short, processes end between any two file operations; every command of the updater and of its
rollback may fail.

## 3. The runs

All run with `tlc -config <name>.cfg <module>` in this directory. Deadlock is checked in all of them but
`work_ledger`, where the facts get decided and the bounds stop the producers, and `gateway_turns`, where all
messages are handled and time is up.

| Run | Instance | Distinct states | Question and result |
| --- | --- | --- | --- |
| `contact_races` | 2 threads, 1 key, 2 bodies, 2 targets, truthful probe, legacy rows, 1 crash | 848,694 | Duplicates and conflicts of one key, changing route, dry-run mode, a crash at any step. `AtMostOneSend`; `LedgerMatchesProvider`; `CompletionHasEvidence`; `FreshDecisionIsSafe` (told to decide anew, the Runtime cannot cause a second message); `DeliveredAnswerIsTrue`; `UnknownNeedsEvidence`; and `ImplementsPromise`, the refinement of `AtMostOnceDelivery` |
| `contact_recovery` | 2 threads, 1 key, fallible probe, 2 crashes, fair | 117,294 | Two requests look at the provider at the same time and see different things; a second crash hits recovery; any call may end in an exception. `InFlightOwned`, `InFlightResolved`: only a row whose thread such an exception took is in flight without an owner |
| `percept_races` | 2 submitters, daemon, 1 percept, 2 attempts, 1 purge-and-resubmit, 1 crash | 265,194 | `CompletedWasAcknowledged`, `PayloadKept`, `SendsAreRecorded` |
| `percept_drains` | 1 submitter, daemon, 2 percepts, pump window of 1, 2 attempts, 1 crash, maintenance, fair | 1,198,146 | `PerceptsSettle`, also behind a percept that was given up and fills the window until it is purged; `OutboxDrained` through retries and a crash between completion and clean-up |
| `cognition_tasks` | 2 threads, 2 tasks, 2 attempts, exceptions anywhere, 1 purge, 1 crash, fair | 1,251,910 | `OneComputation`, `ResultKept`, `AnswersAgree`, `InFlightResolved` |
| `work_ledger` | 5 facts contending for 3 ids and 3 keys, 2 sessions, 2 activities each | 18,585 | `TablesAgree`, `CandidateWasIdle`, `DecisionsAreFinal` |
| `owner_answers` | 2 contacts, 2 sessions, 1-entry cache, 2 decisions, time to live passed | 1,385,472 | `EventOfOwnRoute` and `RecordedContactHidesOlder` with contacts moving between lookup and send; `RouteIsCurrent`; `AcceptedMeansTaken` although an earlier, opposite decision may still be under way |
| `work_evidence` | 2 turns, 2 threads, registry of 1 turn and 2 items, 3 tool calls | 2,601,179 | `EvidenceRetained` |
| `gateway_turns` | 2 processes, 2 gateway messages from 2 targets, 1 without a target, 1 CLI turn, three of the four handled, invalidations, 3 moments, crashes | 2,252,304 | `ContactsStayOnTheRoute`: whatever becomes of the two files, a contact takes no route that is old, revoked or nobody's; `RouteIsWhole` unless two writers met; `RouteBeforePercept`; `OneHookPerMessage`, both hooks being called for each gateway message |
| `live_update` | 2 workers, gateway and command line, 2 runs, 1 kill, reboot or worker crash | 2,351,305 | `AlwaysAWayBack`, `WorkersRunWholeCode`, `SuccessMeansNew`, `RollbackRestores`, `EvidenceKept`, each command failing or not |
| `trace_migration` | 2 writers, 1 reader, 2 rotated files of 2 records, 7 records, 1 crash or short write, 2 runs of the migration | 469,509 | `LogInOrder`, `TailInOrder`; `RedactingLosesNothing` (a crash costs at most one file, a short write two records, redacting none); `MigratesInOrder`; `RouteSurvives` |
| `contact_route_binding` | smallest that shows it | - | violated: section 4 |

`owner_window.cfg` is a larger instance for two of the owner properties: 3 contacts on 2 routes, so that the
query's window of rows hides one (1,281,120 states, no error).

### Why the bounds are enough

*Threads.* A conflict in this code is always between two holders of one row: the store re-checks the state in its
transaction, so a third worker meets a row one of the two left. With three kinds of workers (percepts) three are
used. *Keys.* Rows of different keys share nothing but the lists of recovery, pumping and releasing;
`cognition_tasks` has two because a release touches other rows, `percept_drains` because one percept may fill the
pump's window, which there holds one, before the other. *Exceptions.* `MayFail` switches them on in
`cognition_tasks` and off where a smaller graph shows a disagreement; for contacts they are always on, and their
number is not bounded. *Attempts.* Two are needed to see a retry and its limit; the third and fifth repeat the
second. *Crashes.* One crash reaches every pair of commits; the second (in `contact_recovery`) hits recovery from
the first. *Bodies and targets.* Two are equal or not. *Files.* Two writers are enough for one to rename what the
other still writes, and a third turn with no route for a reader to see both outcomes. *Trace.* Two rotated files
make every kind of rename (delete, shift, the file itself), seven records fill and rotate the set once more than it
holds, and two processes are a lock holder and one that waits. *Update.* Two runs are a run on what a killed one
left; two workers are one that was stopped and one that was not. *Caches.* One entry less than there are users of it
is what an eviction needs. Every bound is a constant named `Max...`, `Window` or `Limit`, and the bounding ones sit
in guards, so that liveness is checked on the whole graph. Symmetry is used on threads, workers and turns, in runs
without liveness properties only.

### Fairness

`FairSpec` assumes what the code and its deployment give: a running thread takes its next step (every child
process, HTTP and socket call has a timeout, and SQLite waits are bounded); a crashed service is restarted and its
startup recovery runs (`Restart=` of the systemd units); a backoff ends; the daemon loops. `percept_drains` adds the
maintenance timer, without which a window full of given-up percepts would hold back the rest for ever
(`percept_window`). The steps of the startup recovery of cognition share one condition, `StartUp`, as they are one sequence. An
exception is never fair, and a row it abandoned stays in flight until the service happens to restart: no
fairness says it does. Nothing is assumed of the provider, the Runtime, the companion, routes or clients, and crashes
are never fair. The work, owner, gateway, update and trace runs check safety only and assume no fairness at all.

## 4. Disagreements between code and documents

`contact_route_binding` is a run of the project (`PROJECT.json`, `findings`): a stored receipt is returned
before the request hash is compared, with the target of the *new* route put in (`contact_service.py:345`), while
HLB-004.6:135 says that contact idempotency binds the resolved route.

The others have a configuration beside the runs, each with one property TLC finds violated. They are kept
for whoever changes that code:

| Configuration | Property | What happens |
| --- | --- | --- |
| `percept_attempt_bound` | `AttemptsBounded` | `schedule_failed_safe` compares the attempt it read before its transaction (`retry_engine.py:179`), which re-checks the state only; the decision for attempt *n* is applied to *n + 1*, one attempt too many (HLB-004.3:385) |
| `cognition_stranded` | `RetriesGoOn` | `release_due` makes rows ready that another request sleeps on (`cognition_service.py:116`); that request's own step conflicts, its client gets an error, and nobody drives the task (HLB-004.7:156) |
| `contact_receipt_heals` | `ReceiptHeals` | recovery reconciles only rows it has just moved out of `in_flight`; a second crash leaves a receipt beside a row that stays `delivery_unknown` (HLB-004.4:193) |
| `contact_dry_run` | `DryRunMeansNotSent` | restarted into dry-run mode, a sent message is recorded as a dry run (HLB-004.4:196) |
| `contact_receipt_returned` | `ReceiptIsReturned` | a duplicate overtaken between two reads is refused although the receipt is stored (HLB-004.4:121) |
| `percept_live_recovery` | `OnlyInterruptedRecovered` | the daemon's sweep fails rows a live submitter is delivering (HLB-004.3:307) |
| `percept_window` | `PendingIsPumped` | exhausted rows stay in the outbox and fill the window the pump delivers from (`percept_delivery.py:159`) |
| `cognition_shared_task` | `CompletedHasReceipt` | two keys of one task id replace each other's receipt (`cognition_store.py:75`) |
| `owner_newest` | `NewestDeliveredDecides` | the lookup orders by creation, not by delivery (HLB-005:47) |
| `owner_reaches_back` | `NeverReachesBack` | a contact that arrived with an unknown outcome hides nothing (`contact_store.py:159`, comment at 178) |
| `gateway_silent_loss` | `FailuresAreVisible` | an advisory post that raises ends the hook before the route is stored, the percept submitted, or anything written to the trace (`plugin.py:176-187`); SECURITY.md:9 calls bridge errors fail-visible |
| `update_leaves_stopped` | `FailureLeavesItRunning` | a command that fails between the first stop and `SWAPPED=1` leaves the workers stopped, and a half-copied tree after a failed `rsync`; HLB-006:57 promises the prior deployment is restarted |
| `migration_loses_route` | `RouteRecoverable` | the trace is redacted before the route is saved (`privacy_migrate_v0033.py:188`); a run cut off between the two leaves the next one no copy to recover (HLB-003.3) |

Nine more properties are stated in the modules and fail in the instances named here:

* `InFlightIsExecuting` (`ContactDelivery`, the instance of `contact_recovery`; `CognitionDelivery`, that of
  `cognition_tasks`): HLB-004.1:62 explains `in_flight` as an attempt that is executing. The trace line after the
  committed `begin_attempt` (`contact_service.py:403`, `cognition_service.py:182`) and the storing of the receipt
  (`contact_service.py:525`, `cognition_service.py:255`) stand outside any `try`. When one raises, the client gets
  an error and the row stays in flight with nobody at it until the next restart.
* `CompletedWasPersisted` (`PerceptDelivery`, the instance of `percept_attempt_bound`): the row is completed on
  `receipt.ok` alone (`percept_delivery.py:135`), and `tests/test_safe_stop_receipt.py:20` has a safe stop answer `ok`
  without having persisted anything; ROADMAP.md:10 claims "authoritative persisted ACK consistency", and
  HLB-001.1:6 lists taking such an answer for an advance among the faults it repaired.

* `FailedSafeIsRetried` (`ContactDelivery`, the instance of `contact_dry_run`): a contact that failed safely is never
  scheduled, a fresh decision is demanded (HLB-004.4:124); newer comments in the code want it so.
* `AttemptsBounded` (`CognitionDelivery`, two threads on one key): the stale retry decision of
  `percept_attempt_bound`, for cognition (HLB-004.7:102).
* `ReadyMeansReady` (`GatewayIngress`, `Configured = a`): Doctor says "Governed proactive contact is ready"
  (`doctor.py:278`) over a learned route the configured exact target refuses.
* `NoFallbackToIntent` (`GatewayIngress`, `Configured = Unset`): with no learned route the target of the
  intent itself is taken (`contact_service.py:184`); HLB-004.6 allows an explicitly configured one only.
* `SuccessMeansLoaded` (`LiveUpdate`): the updater passes on a registration the previous deployment recorded,
  before the gateway has loaded the new plugin.
* `RegistrationStays` (`LiveUpdate`, two hosts): of two processes at the evidence file one may undo what the other
  recorded, or replace it with a text nobody can parse; Doctor then blocks until the plugin is loaded again.
* `TailIsWhole` (`PrivacyMigration`, without `SYMMETRY`): a rotation between two reads of `tail` leaves a gap.

## 5. The proofs

Checked with `tlapm`, for every value of the constants that satisfies the named assumptions of the modules
(`ContactAssumption`, `PerceptAssumption`, `CognitionAssumption`, `WorkAssumption`, `ProducerAssumption`, `OwnerAssumption`,
`IngressAssumption`, `TraceAssumption`, `MigrationAssumption`, `EvidenceAssumption`, `UpdateAssumption`). They say that the
constants have their types, that sets used as such are not empty or are finite, and that values meaning "none" are
no other value. Two say a little more: `PerceptAssumption` that keys are numbers, which the pump's ordered lists
use; `MigrationAssumption` that the records an early release left fit the first file. Two more hypotheses are written in
the theorems that need them: `ProbeTruthful`, that the reconciliation's look at the provider does not contradict
it; and, for `AnswersDoAgree`, that keys have task ids of their own.

No safety property of a run is inductive alone, as each says nothing of the worker that is about to break it. Each proof
therefore has an invariant that says for every step of the code what a worker standing there relies on;
TLC checked these invariants on the instances of section 3 before they were proved.

### Contacts

* `MethodsRespectContract`: whenever a store method's guard holds, the row it writes is one the contract allows,
  for every class and row. It justifies leaving `_persist_transition`'s second check out of the delivery modules.
* `TypeCorrect`, `SendInvariant`, `SendsAtMostOnce` (`AtMostOneSend`). `SendInv`: threads run only while the service is
  up; a thread between `start_attempt` and its result finds the row `in_flight`, and is alone on its key; reconciliation
  starts from a row in doubt; a row never tried was never sent; a thread at the spawn has sent nothing yet. The last
  two are what a claim hands over: only a `prepared` row with no attempt behind it can be claimed, and no crash,
  recovery or evidence makes a claimed row that again.
* `EvidenceInvariant`, `InFlightIsOwned`, `CompletedHasEvidence`, `DoubtNeedsEvidence` (`InFlightOwned`,
  `CompletionHasEvidence`, `UnknownNeedsEvidence`). `EvidenceInv` says that a row in flight has a thread or recovery
  ahead of it unless an exception ended that thread (`abandoned`), and that such a row is really in flight and nobody's,
  that a thread about to complete a row has stored the receipt before, that a worker that holds a verdict
  finds it stored, and how dry-run mode decides. Nothing is assumed of the probe.
* `TruthInvariant`, `LedgerIsTrue`, `FreshDecisionsAreSafe`, `DeliveredAnswersAreTrue`, under `ProbeTruthful`.
  `TruthInv` relates what each row, each receipt and verdict, and each worker's last observation say to what the provider
  did; the hard case is a message that settles *after* its row went into doubt, so a row in doubt allows every
  outcome and only a stored verdict excludes one.
* `PromiseKept` (`ImplementsPromise`), under `ProbeTruthful`: the refinement. `Init` maps to the abstract `Init`, and
  each of the service's actions to one abstract step or none. The store's commit is the abstract step, so of two threads
  with one key only the one whose transaction wins takes it; startup recovery's one transaction over all rows
  is the abstract loss of every send under way.

### Percepts and cognition

* `PerceptDelivery`: `TypeCorrect`; `PayloadInvariant` with `CompletedIsAcknowledged` and `EnvelopeIsKept`
  (`CompletedWasAcknowledged`, `PayloadKept`). `PayloadInv` adds that a worker about to complete a row has an
  acknowledgement, of a percept persisted or kept out by a safe stop, which the code does not tell apart,
  and that one about to clear an envelope finds the row completed: recovery, which takes rows from live
  workers, never takes a completed one, and retention takes old ones only.
* `AttemptsInvariant`, `NoSendIsHidden` (`SendsAreRecorded`). Several workers may be about to send the *same* row, as
  recovery hands it to the next while the first still waits. The invariant counts them: sends made, plus workers
  past `begin_attempt` and not yet sent, are at most the recorded attempts.
* `CognitionDelivery`: `TypeCorrect`; `ComputationInvariant` with `NeverComputedTwice` and `ResultIsKept`
  (`OneComputation`, `ResultKept`): who computes holds the row in flight, alone; only recovery takes it away, when
  no thread runs; a row an exception abandoned stays in flight, so nobody can start on it; a row not yet reserved
  has no result. `AnswersDoAgree` (`AnswersAgree`) adds that a thread which saves a receipt is the first, unless
  another key with the same task id replaced it, which `cognition_shared_task` shows.

### Work, owner decisions, message hooks

* `WorkLedger`: `LedgerInvariant`, `IdleBeforeCandidate`, `DecisionsStay`: `TablesAgree` as part of the
  inductive `IInv == TypeOK /\ TablesAgree /\ PendingIsCurrent /\ DisturbedIsNotWaiting`, and from it the action
  properties `CandidateWasIdle` and `DecisionsAreFinal`. `evaluate_due` decides from the
  outbox, `note_activity` selects from it, and both write the ledger through fact ids. `PendingIsCurrent` also shows
  that the branch `idle_epoch_mismatch` of `evaluate_due` is never taken.
* `WorkProducer`: `ProducerInvariant`, `EvidenceIsRetained` (`EvidenceRetained`), `RegistryIsBounded`. The property speaks of
  the log of all tool calls, the code of two bounded lists. `ProducerInv` connects them: a bucket holds evidence of its
  own turn in the order of the log (`Recorded`); whoever comes later in the dictionary was observed after all that was
  observed of whoever comes before (`ByUse`), so that a turn pushed out has seen `max_contexts` others in use since; each
  tool call is in the log once (`OncePerCall`), so that newer evidence can be counted; and clocks read before
  the lock are never ahead (`Timely`), so that pruning with an old reading only keeps more. What a
  comprehension over a list keeps is `Only`, a recursive function over the list's length; what is needed of it
  (`OnlyFacts`) is proved by the least length at which it fails.
* `OwnerDecision`: `OwnerInvariant`, and from it `TypeCorrect`, `EventIsOwn`, `AcceptedIsTaken`, `RouteStaysCurrent`,
  `OlderStayHidden` (`EventOfOwnRoute`, `AcceptedMeansTaken`, `RouteIsCurrent`, `RecordedContactHidesOlder`).
  `SessionInv`: the ordered dictionary has one entry for a session and it is the last observation. `ContactInv`: a contact
  has one row, and is recorded as delivered exactly when its receipt says so. `CallInv`: whatever of a call is
  under way is its own decision on its own event. The last theorem needs that among the rows of a
  route there is a newest, and that the query's window, however small, contains it.
* `GatewayIngress`: `TypeCorrect`; `HookInvariant`, `OnePercept` (`OneHookPerMessage`); `RouteInvariant`, `ContactsStay`
  (`ContactsStayOnTheRoute`); `OrderInvariant`, `RouteStaysWhole`, `RouteComesFirst` (`RouteIsWhole`, `RouteBeforePercept`).
  `RouteInv` follows every text that may be under the two names or in a hook's hands: each names somebody the owner
  wrote from and when, each turn writes once, no route is valid under both names, and no revoked route can become valid again,
  not even through a descriptor on a file that was renamed. `OrderInv` says, as long as no two writers met, what the
  files hold at each step of the one writer. `HookInv` says that at most one
  hook holds a message and that it was not submitted before. Its case of interest is the hook Hermes calls second for a
  gateway message: nothing but the platform check of `plugin.py:200` keeps that one from it.

### Trace, migration, update

* `TraceLog`: `TraceInOrder`: `Spec => [](LogInOrder /\ TailInOrder)`. The order of the files says nothing of a rotation
  in progress: the invariant adds that only the lock holder is past the lock; that below
  the file it moves next one name is free; and, for `tail`, that what it has collected is older than whatever the
  files still to be read can hold. The last is what makes reading without the lock sound: records only move to
  names that have been read.
* `RecentRecordsAreKept`: `Spec => []RecentRecordsKept`. How much can be read depends on every failure there ever was, so
  the invariant, `Account`, says where each line ever written is: the first `lost` ones are deleted, all others have a
  place in a file (`Placed`); a line can be read at its place unless it is among at most two for each short write
  (`Spoilt`; one may be spoilt yet while the newest line has no end); and, of the names behind the newest file, those that are
  free although something older exists are at most the failed emits, apart from the one a rotation under way is about
  to fill (`Rotating`). Once something was deleted, every file that is not such a hole is full, since only a full
  file is rotated, and counting their lines, each at a place of its own, gives the bound. TLC checked `Account` with
  the witnesses carried along as history variables, for two failures and ten records.
* `PrivacyMigration`: `MigrationInvariant`, `OrderSurvivesMigration`, `MigrationOrder`, `RouteIsNotLost`,
  `RedactingKeepsRecords` (`LogInOrder`, `TailInOrder`, `MigratesInOrder`, `RouteSurvives`,
  `RedactingLosesNothing`). The last carries `Account` through the migration up to the attestation: a redacted copy
  has the same lines. The migration runs without the trace's lock beside its writers; `MigrationInv` says at each of
  its steps what is gone, saved and attested, whatever a run cut off before left.
* `LiveUpdate`: `AWayBack`, `WholeCode`, `Success`, `Rollback`, `Evidence`, one theorem for each property of the
  run, for any number of workers, processes, runs and faults. `UpdateInv` says at which step of the script
  the backup is filled (`BackupInv`), what the tree, the timer and the workers are between the copy and the verdict
  (`NewInv`), and, as long as no copy, rollback command or run was lost (`WholeInv`), that half a tree is only there
  while every worker is stopped and how far a rollback has restored. `EvidenceInv` says of a process alone at the file
  that what it is about to write contains all that was saved, and that the temporary file is its own.

### Only model-checked

All liveness: leads-to under fairness, and anything about `ENABLED`; the provers have no rules for them. These are
`InFlightResolved` (contacts and cognition), `PerceptsSettle` and `OutboxDrained`. Every safety invariant, every action
property and the refinement that the passing runs check is a theorem.

## 6. Plan

The modules were written in the order of the table in section 2: the contract and the store first since all else
rests on them, then the contact path as the one whose failure reaches a person, percepts and cognition, the work
ledger, the two in-memory components, and last the files. The proofs followed the same order. What is
left is the composition of `GatewayIngress` with `ContactDelivery` (a route that is replaced while a contact
resolves it), and the checkpoints of `maintenance.py` if a property comes to depend on them.

## 7. Not modelled

* The arithmetic of retry delays and deadlines: every later time is explored instead.
* WAL checkpoints, file modes, socket permissions, HTTP and JSON framing, redaction of text: no property here
  depends on them.
* Two instances of one service: systemd runs one, and the second cannot take the socket.
* Migrations other than `privacy_migrate_v0033`: they rewrite strings in one pass, while the services are
  stopped, and recover nothing. Of that one its lock file, which it takes for a backup, and its temporary files.
* The first installation: a straight line of commands that is run again when it fails.
* Interest producer, health probes, the published compatibility report, soak, configuration, command lines: no
  state, or read-only.
* Known gaps inside modelled parts: a fact observed before an activity but accepted after it takes the newer
  epoch and counts as idle (`work_store.py:267`); startup recovery of cognition leaves rescheduled rows until a new
  request comes (`cognition_service.py:274`); no document says what should happen, so no property is stated.
