-------------------------- MODULE PrivacyMigration --------------------------
(***************************************************************************)
(* privacy_migrate_v0033: the exact routes an early release left in the    *)
(* trace and its backups are redacted, and the last real one is put back   *)
(* into the private route file, which a self-test may have overwritten.    *)
(*                                                                         *)
(* Covered: the steps in order, a failure or a crash between any two, the  *)
(* migration run again on what is left, emits and tails in between.  The   *)
(* operator stops the writers first, as HLB-003.4 orders: no emit begins   *)
(* while the migration runs.  The lock file, which the migration takes for *)
(* a backup and deletes, and its own temporary files are left out: with    *)
(* the writers stopped nothing depends on them.                            *)
(***************************************************************************)
EXTENDS TraceLog

CONSTANTS
    History,  \* records the early release wrote
    MaxRuns   \* bound: how often the migration is started

\* Three records in files of at most two lines are there when it begins.
ASSUME MigrationAssumption ==
    /\ MaxRuns \in Nat
    /\ History \subseteq 1..3 /\ Capacity >= 2 /\ MaxRecords >= 3

VARIABLES
    exact,      \* records on disk that still hold the exact route
    routeFile,  \* the route file: "real", "synthetic" or "none"
    found,      \* recover_route found the route
    step,       \* where the migration is
    artifacts,  \* files it has listed
    todo,       \* of these, the ones the present step has still to treat
    attested,   \* the attestation: "none", "planned" or "final"
    outcome,    \* how the last run ended
    cut,        \* ghost: a run ended after it had begun to redact, before the
                \* route was saved
    runs        \* bound counter

migration == <<exact, routeFile, found, step, artifacts, todo, attested, outcome, cut, runs>>

MigrationInit ==
    /\ file = [i \in Indexes |->
                  CASE i = 0 -> <<Line(3)>>
                    [] i = 1 -> <<Line(1), Line(2)>>
                    [] OTHER -> Missing]
    /\ emitted = 3
    /\ holder = Nobody /\ at = [w \in Writers |-> Idle]
    /\ reading = -1 /\ lines = <<>>
    /\ broken = 0 /\ short = 0
    /\ exact \in SUBSET History
    /\ routeFile \in {"real", "synthetic", "none"}
    /\ found = FALSE /\ step = "none"
    /\ artifacts = {} /\ todo = {}
    /\ attested = "none" /\ outcome = "none" /\ cut = FALSE
    /\ runs = 0

Exact(i) == exact \cap Records(file[i])

From(this, next) == step = this /\ step' = next
-----------------------------------------------------------------------------
\* trace_artifacts and recover_route.
Begin ==
    /\ step = "none" /\ runs < MaxRuns
    /\ \A w \in Writers : at[w] = Idle
    /\ runs' = runs + 1
    /\ artifacts' = {i \in Indexes : file[i] # Missing}
    /\ found' = (routeFile = "real" \/ exact # {})
    /\ IF artifacts' # {} /\ found'
       THEN step' = "redact" /\ outcome' = "running"
       ELSE step' = "none" /\ outcome' = "nothing_to_recover"
    /\ todo' = artifacts'
    /\ UNCHANGED <<file, exact, routeFile, attested, cut>>

\* Every line of a redacted copy is ended, a line cut short as well.
Redacted(content) == [n \in DOMAIN content |-> [content[n] EXCEPT !.ended = TRUE]]

\* sanitize: the redacted copy is renamed over the file.
Redact(i) ==
    /\ step = "redact" /\ i \in todo
    /\ exact' = exact \ Exact(i)
    /\ file' = [file EXCEPT ![i] = Redacted(@)]
    /\ todo' = todo \ {i}
    /\ UNCHANGED <<routeFile, found, step, artifacts, attested, outcome, cut, runs>>

\* Mutant: the route is not put back.
AllRedactedUnsaved ==
    /\ From("redact", "attest") /\ todo = {}
    /\ \A i \in artifacts : Exact(i) = {}
    /\ UNCHANGED <<file, exact, routeFile, found, artifacts, todo, attested, outcome, cut, runs>>

\* assert_trace_clean
AllRedacted ==
    /\ From("redact", "save") /\ todo = {}
    /\ \A i \in artifacts : Exact(i) = {}
    /\ UNCHANGED <<file, exact, routeFile, found, artifacts, todo, attested, outcome, cut, runs>>

SaveRoute ==
    /\ From("save", "attest")
    /\ routeFile' = "real"
    /\ UNCHANGED <<file, exact, found, artifacts, todo, attested, outcome, cut, runs>>

Attest ==
    /\ From("attest", "remove")
    /\ attested' = "planned"
    /\ todo' = artifacts \ {0}
    /\ UNCHANGED <<file, exact, routeFile, found, artifacts, outcome, cut, runs>>

\* Mutant: a backup goes as soon as it is redacted.
RemoveRedacted(i) ==
    /\ step \in {"redact", "remove"} /\ i \in artifacts \ {0}
    /\ Exact(i) = {}
    /\ file' = [file EXCEPT ![i] = Missing]
    /\ todo' = todo \ {i}
    /\ UNCHANGED <<exact, routeFile, found, step, artifacts, attested, outcome, cut, runs>>

RemoveBackup(i) ==
    /\ step = "remove" /\ i \in todo
    /\ file' = [file EXCEPT ![i] = Missing]
    /\ todo' = todo \ {i}
    /\ UNCHANGED <<exact, routeFile, found, step, artifacts, attested, outcome, cut, runs>>

AttestAgain ==
    /\ From("remove", "scan") /\ todo = {}
    /\ attested' = "final"
    /\ UNCHANGED <<file, exact, routeFile, found, artifacts, todo, outcome, cut, runs>>

\* No backup is left, and no exact route outside the route file.
Scan ==
    /\ From("scan", "none")
    /\ \A i \in Indexes \ {0} : file[i] = Missing
    /\ Exact(0) = {}
    /\ outcome' = "ok"
    /\ UNCHANGED <<file, exact, routeFile, found, artifacts, todo, attested, cut, runs>>

\* A check or a call fails, or the process is killed: there is no clean-up.
RunEnds ==
    /\ step # "none"
    /\ step' = "none" /\ outcome' = "failed"
    /\ cut' = (cut \/ (step \in {"redact", "save"} /\ todo # artifacts))
    /\ UNCHANGED <<file, exact, routeFile, found, artifacts, todo, attested, runs>>

MigrationStep ==
    \/ Begin \/ AllRedacted \/ SaveRoute \/ Attest \/ AttestAgain \/ Scan \/ RunEnds
    \/ \E i \in Indexes : Redact(i) \/ RemoveBackup(i)

\* A rotation takes the exact routes of the oldest file with it.
EmitStepOn(w) ==
    /\ EmitStep(w)
    /\ exact' = exact \cap UNION {Records(file'[i]) : i \in Indexes}

MigrationNext ==
    \/ /\ MigrationStep
       /\ UNCHANGED <<holder, at, emitted, reading, lines, broken, short>>
    \/ /\ step = "none"
       /\ \E w \in Writers : EmitStepOn(w)
       /\ UNCHANGED <<routeFile, found, step, artifacts, todo, attested, outcome, cut, runs>>
    \/ TailStep /\ UNCHANGED migration

MigrationSpec == MigrationInit /\ [][MigrationNext]_<<vars, migration>>
-----------------------------------------------------------------------------
(* Properties *)

\* A backup is only deleted when its exact routes are gone from every file, the
\* real route is back in its file and the attestation is written; and "ok" is
\* only said when all of this, and no backup, is there: also on what earlier
\* runs left that were cut off at any step.
MigratesInOrder ==
    [][/\ step # "none" /\ (\E i \in Indexes : file[i] # Missing /\ file'[i] = Missing) =>
            exact = {} /\ routeFile = "real" /\ attested # "none"
       /\ outcome' = "ok" /\ outcome # "ok" =>
            /\ exact = {} /\ routeFile = "real" /\ attested = "final"
            /\ \A i \in Indexes \ {0} : file[i] = Missing]_<<vars, migration>>

\* Until the migration has removed a backup it costs no record of the trace.
RedactingLosesNothing == attested = "none" => RecentRecordsKept

\* A real route that was somewhere on disk stays somewhere on disk when the
\* migration has ended, unless it was cut off half-way; an emit may rotate the
\* evidence away before that.
RouteSurvives ==
    [][found /\ step # "none" /\ step' = "none" /\ ~cut' =>
         routeFile' = "real" \/ exact' # {}]_<<vars, migration>>

(* What the documents say and the code does not do; see README *)

\* HLB-003.3: recover the last real delivery route even if RouteStore was
\* overwritten.  A run cut off after redacting leaves the next one nothing.
RouteRecoverable ==
    [][found /\ step # "none" /\ step' = "none" =>
         routeFile' = "real" \/ exact' # {}]_<<vars, migration>>
=============================================================================
