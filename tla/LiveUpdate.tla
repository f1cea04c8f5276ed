----------------------------- MODULE LiveUpdate -----------------------------
(***************************************************************************)
(* scripts/update_code_preserve_config.sh: the code of a live deployment   *)
(* is replaced under running services, and a failed gate rolls it back.    *)
(*                                                                         *)
(* Covered: every command that changes the deployment, in order, and each  *)
(* of them failing (set -e, EXIT trap); copies that stop half-way; workers *)
(* that crash and come back on whatever code is there; a gateway that is   *)
(* not stopped and reloads the plugin, the evidence it leaves and Doctor's *)
(* verdict on it; the script killed or the machine rebooted at any point,  *)
(* and the script run again.                                               *)
(*                                                                         *)
(* Left out: the checks before anything is changed, the names of services, *)
(* the package metadata and the environment file (refreshing or comparing  *)
(* them fails like any other command), and the contents of the tree: it is *)
(* the old code, the new code, or a mix.                                   *)
(***************************************************************************)
EXTENDS CompatibilityEvidence

CONSTANTS
    Gateway,   \* the Hermes process the script restarts
    Units,     \* HLB worker services
    MaxRuns,   \* bound: how often the script is started
    MaxFaults  \* bound: kills, reboots and crashes explored

ASSUME UpdateAssumption ==
    /\ Gateway \in Hosts
    /\ MaxRuns \in Nat /\ MaxFaults \in Nat

VARIABLES
    step,      \* where the script is
    swapped,   \* SWAPPED
    tree,      \* code in the plugin directory
    backup,    \* what this run's BACKUP_DIR holds
    backups,   \* whole copies under code-backups/
    unit,      \* code each worker runs, or "stopped"
    timer,     \* the maintenance timer is active
    plugin,    \* code the gateway's plugin was loaded from
    outcome,   \* how the last run ended
    before,    \* ghost: code in the plugin directory when the run began
    damaged,   \* ghost: a copy or a command of a rollback failed, or a run was killed
    runs,      \* bound counter
    faults     \* bound counter

deployment == <<tree, backup, backups, unit, timer>>
script     == <<step, swapped, outcome, before, damaged, runs>>
outside    == <<plugin, faults>>
allVars    == <<observers, deployment, script, outside>>

Code == {"old", "new", "half"}

UpdateInit ==
    /\ Init
    /\ step = "none" /\ swapped = FALSE
    /\ tree = "old" /\ backup = "none" /\ backups = {}
    /\ unit = [u \in Units |-> "old"] /\ timer = TRUE
    /\ plugin = "old"
    /\ outcome = "none" /\ before = "old" /\ damaged = FALSE
    /\ runs = 0 /\ faults = 0
-----------------------------------------------------------------------------
(* The script *)

From(this, next) == step = this /\ step' = next

\* The parts of the script's state a command leaves alone.
SameRun == UNCHANGED <<outcome, before, runs>>

Begin ==
    /\ From("none", "backup")
    /\ runs < MaxRuns
    /\ runs' = runs + 1
    /\ before' = tree /\ swapped' = FALSE
    /\ outcome' = "running"
    /\ backup' = "none"
    /\ UNCHANGED <<tree, backups, unit, timer, damaged>>

\* Mutant: one backup directory, written over by every run.
BackUpInPlace ==
    /\ From("backup", "stop")
    /\ backup' = tree
    /\ backups' = {tree}
    /\ SameRun /\ UNCHANGED <<tree, unit, timer, swapped, damaged>>

BackUp ==
    /\ From("backup", "stop")
    /\ backup' = tree
    /\ backups' = backups \cup {tree}
    /\ SameRun /\ UNCHANGED <<tree, unit, timer, swapped, damaged>>

StopUnit(u) ==
    /\ step = "stop" /\ unit[u] # "stopped"
    /\ unit' = [unit EXCEPT ![u] = "stopped"]
    /\ SameRun /\ UNCHANGED <<step, tree, backup, backups, timer, swapped, damaged>>

\* Mutant: the workers are not waited for.
CopyStartsEarly ==
    /\ From("stop", "copy")
    /\ timer' \in {FALSE, timer} /\ tree' = "half"
    /\ SameRun /\ UNCHANGED <<backup, backups, unit, swapped, damaged>>

\* Whether or not the timer stops, rsync begins.
CopyStarts ==
    /\ From("stop", "copy")
    /\ \A u \in Units : unit[u] = "stopped"
    /\ timer' \in {FALSE, timer} /\ tree' = "half"
    /\ SameRun /\ UNCHANGED <<backup, backups, unit, swapped, damaged>>

CopyEnds ==
    /\ From("copy", "restart")
    /\ tree' = "new" /\ swapped' = TRUE
    /\ SameRun /\ UNCHANGED <<backup, backups, unit, timer, damaged>>

\* restart_live for the workers and the timer; the gateway comes last.
RestartLive(next) ==
    /\ unit' = [u \in Units |-> tree]
    /\ timer' = TRUE
    /\ step' = next
    /\ SameRun /\ UNCHANGED <<tree, backup, backups, swapped>>

\* Mutant: the timer that was stopped is forgotten.
RestartWithoutTimer ==
    /\ From("restart", "wait")
    /\ unit' = [u \in Units |-> tree]
    /\ SameRun /\ UNCHANGED <<tree, backup, backups, timer, swapped, damaged>>

Restart ==
    /\ step = "restart"
    /\ RestartLive("wait")
    /\ UNCHANGED damaged

\* wait_live, and both versions; the settings are as they were.
GatesPassed ==
    /\ From("wait", "doctor")
    /\ \A u \in Units : unit[u] # "stopped"
    /\ tree = "new"
    /\ SameRun /\ UNCHANGED <<deployment, swapped, damaged>>

DoctorHealthy ==
    /\ From("doctor", "none")
    /\ IngressHealth = "healthy"
    /\ \A u \in Units : unit[u] # "stopped"
    /\ outcome' = "pass"
    /\ UNCHANGED <<deployment, swapped, before, damaged, runs>>

\* Any command of the update fails, any gate is not passed: the EXIT trap.
CommandFails ==
    /\ step \in {"backup", "stop", "copy", "restart", "wait", "doctor"}
    /\ IF swapped
       THEN step' = "undo_stop" /\ UNCHANGED outcome
       ELSE step' = "none" /\ outcome' = "failed"
    /\ damaged' = (damaged \/ step = "copy")
    /\ UNCHANGED <<deployment, swapped, before, runs>>
-----------------------------------------------------------------------------
(* The rollback: errors are ignored *)

UndoStop ==
    /\ From("undo_stop", "undo_copy")
    /\ \E left \in SUBSET Units :
         /\ unit' = [u \in Units |-> IF u \in left THEN unit[u] ELSE "stopped"]
         /\ damaged' = (damaged \/ \E u \in left : unit[u] # "stopped")
    /\ SameRun /\ UNCHANGED <<tree, backup, backups, timer, swapped>>

UndoCopyStarts ==
    /\ From("undo_copy", "undo_copying")
    /\ tree' = "half"
    /\ SameRun /\ UNCHANGED <<backup, backups, unit, timer, swapped, damaged>>

UndoCopyEnds ==
    /\ From("undo_copying", "undo_restart")
    /\ \/ tree' = backup /\ UNCHANGED damaged
       \/ UNCHANGED tree /\ damaged' = TRUE
    /\ SameRun /\ UNCHANGED <<backup, backups, unit, timer, swapped>>

\* Mutant: the code is restored and nothing is started again.
UndoWithoutRestart ==
    /\ From("undo_restart", "undo_wait")
    /\ SameRun /\ UNCHANGED <<deployment, swapped, damaged>>

UndoRestart ==
    /\ step = "undo_restart"
    /\ \/ RestartLive("undo_wait") /\ UNCHANGED damaged
       \/ /\ From("undo_restart", "undo_wait")
          /\ damaged' = TRUE
          /\ SameRun /\ UNCHANGED <<deployment, swapped>>

\* HLB_CODE_ROLLBACK=PASS
UndoEnds ==
    /\ From("undo_wait", "none")
    /\ outcome' = "rolled_back"
    /\ UNCHANGED <<deployment, swapped, before, damaged, runs>>

ScriptStep ==
    \/ Begin \/ BackUp \/ (\E u \in Units : StopUnit(u)) \/ CopyStarts \/ CopyEnds
    \/ GatesPassed \/ DoctorHealthy \/ CommandFails
    \/ UndoStop \/ UndoCopyStarts \/ UndoCopyEnds \/ UndoEnds

\* The last thing restart_live does: the gateway process ends.
RestartStep ==
    /\ Restart \/ UndoRestart
    /\ Leave(Gateway)
-----------------------------------------------------------------------------
(* Around the script *)

Fault == faults < MaxFaults /\ faults' = faults + 1

\* Restart=on-failure: a worker crashes and comes back on the code it finds.
UnitReturns(u) ==
    /\ unit[u] # "stopped"
    /\ Fault
    /\ unit' = [unit EXCEPT ![u] = tree]
    /\ UNCHANGED <<observers, tree, backup, backups, timer, script, plugin>>

\* kill -9: no trap runs.
Kill ==
    /\ step # "none"
    /\ Fault
    /\ step' = "none" /\ outcome' = "killed" /\ damaged' = TRUE
    /\ UNCHANGED <<observers, deployment, swapped, before, runs, plugin>>

\* The units are enabled: everything starts, on the code that is there.
Reboot ==
    /\ Fault
    /\ unit' = [u \in Units |-> tree] /\ timer' = TRUE
    /\ step' = "none"
    /\ outcome' = IF step = "none" THEN outcome ELSE "killed"
    /\ damaged' = (damaged \/ step # "none")
    /\ Leave(Gateway)
    /\ UNCHANGED <<tree, backup, backups, swapped, before, runs, plugin>>

\* A Hermes process loads the plugin from the tree, or cannot.
LoadPlugin(h) ==
    /\ Register(h)
    /\ plugin' = IF h = Gateway THEN tree ELSE plugin
    /\ UNCHANGED <<deployment, script, faults>>

HostStep(h) ==
    /\ \/ h = Gateway /\ Observe(h)
       \/ Open(h) \/ Write(h) \/ Replace(h) \/ Fail(h)
       \/ h # Gateway /\ at[h] # "unloaded" /\ Leave(h)
    /\ UNCHANGED <<deployment, script, outside>>

UpdateNext ==
    \/ ScriptStep /\ UNCHANGED <<observers, outside>>
    \/ RestartStep /\ UNCHANGED outside
    \/ \E u \in Units : UnitReturns(u)
    \/ Kill \/ Reboot
    \/ \E h \in Hosts : LoadPlugin(h) \/ HostStep(h)

UpdateSpec == UpdateInit /\ [][UpdateNext]_allVars
-----------------------------------------------------------------------------
(* Properties *)

UpdateTypeOK ==
    /\ tree \in Code /\ backup \in Code \cup {"none"} /\ backups \subseteq Code
    /\ unit \in [Units -> Code \cup {"stopped"}]
    /\ plugin \in Code
    /\ swapped \in BOOLEAN /\ timer \in BOOLEAN /\ damaged \in BOOLEAN
    /\ runs \in 0..MaxRuns /\ faults \in 0..MaxFaults

\* The updater only reports success on a deployment that is the new one
\* throughout: tree, timer and every worker, none of them brought up on old or
\* half-copied code by a crash meanwhile.
SuccessMeansNew ==
    [][outcome' = "pass" /\ outcome # "pass" =>
         /\ tree = "new" /\ timer
         /\ \A u \in Units : unit[u] = "new"]_allVars

\* HLB-006: a gate that fails after the swap restores the backed-up code and
\* the prior deployment runs again, as long as the rollback's own commands
\* work and no run was killed before.
RollbackRestores ==
    [][outcome' = "rolled_back" /\ outcome # "rolled_back" /\ ~damaged =>
         /\ tree = before /\ timer
         /\ \A u \in Units : unit[u] = before]_allVars

\* The code that was deployed first exists whole somewhere, in the plugin
\* directory or under code-backups/, also when runs are killed half-way and
\* started again on what they left.
AlwaysAWayBack == tree = "old" \/ "old" \in backups

\* No worker ever runs half-copied code, unless a run was killed, or a copy or
\* a rollback went wrong.
WorkersRunWholeCode ==
    ~damaged => \A u \in Units : unit[u] # "half"

(* What the documents say and the code does not do; see README *)

\* HLB-006: any failed gate restarts the prior live deployment.
FailureLeavesItRunning ==
    outcome = "failed" => tree = before /\ \A u \in Units : unit[u] # "stopped"

\* HLB-006: Doctor is required to be healthy at the end.  The registration it
\* goes by may be one the previous deployment left.
SuccessMeansLoaded ==
    [][outcome' = "pass" /\ outcome # "pass" => plugin = "new"]_allVars
=============================================================================
