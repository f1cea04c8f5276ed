------------------------- MODULE LiveUpdate_proofs -------------------------
(***************************************************************************)
(* What the updater promises, for any number of workers, Hermes processes, *)
(* runs and faults.                                                        *)
(***************************************************************************)
EXTENDS LiveUpdate, FiniteSetTheorems, TLAPS

AllStopped == \A u \in Units : unit[u] = "stopped"
AllRun(code) == \A u \in Units : unit[u] = code

\* A step of the script that has a backup of what it found.
Secured == {"stop", "copy", "restart", "wait", "doctor",
            "undo_stop", "undo_copy", "undo_copying", "undo_restart", "undo_wait"}

TypeInv ==
    /\ unit \in [Units -> Code \cup {"stopped"}]
    /\ step \in {"none", "backup"} \cup Secured
    /\ tree \in Code /\ (step \in Secured => backup \in Code)
    /\ damaged \in BOOLEAN /\ swapped \in BOOLEAN

\* The new code is complete between the copy and the verdict, and whatever has
\* been started since runs it.
NewInv ==
    /\ step \in {"restart", "wait", "doctor"} => tree = "new" /\ swapped
    /\ step \in {"wait", "doctor"} => timer /\ AllRun("new")
    /\ step \in {"backup", "stop", "copy"} => ~swapped

\* As long as nothing has gone wrong in a way nobody handles: half a tree only
\* while a copy runs and the workers are stopped, and a rollback that has got
\* this far has restored this much.
WholeInv ==
    ~damaged =>
      /\ tree = "half" => step \in {"copy", "undo_copying"}
      /\ before # "half" /\ \A u \in Units : unit[u] # "half"
      /\ step = "backup" => tree = before
      /\ step \in Secured => backup = before
      /\ step = "stop" => tree = before
      /\ step \in {"copy", "undo_copy", "undo_copying", "undo_restart"} => AllStopped
      /\ step \in {"undo_restart", "undo_wait"} => tree = before
      /\ step = "undo_wait" => timer /\ AllRun(before)

\* The code first deployed is in a backup before the tree is touched.
BackupInv == AlwaysAWayBack /\ (step \in Secured => "old" \in backups)

UpdateInv == TypeInv /\ NewInv /\ WholeInv /\ BackupInv

\* The file, with nobody holding a descriptor on the live name.
Quiet(live, tmp, writers) ==
    [live |-> live, tmp |-> tmp, atTmp |-> writers, atLive |-> {}]

\* One process is at the evidence file at a time: what it is about to write
\* holds all that has been saved, and the temporary file is its own.
AloneInv ==
    /\ facts \in [Hosts -> SUBSET Facts] /\ Known \subseteq Facts
    /\ \E live, tmp, writers : evidence = Quiet(live, tmp, writers)
    /\ \A g, h \in Hosts : at[g] \in Writing /\ at[h] \in Writing => g = h
    /\ proven \subseteq Known
    /\ \A h \in evidence.atTmp : h \in Hosts /\ at[h] = "write"
    /\ \A h \in Hosts :
         /\ at[h] \in Writing => proven \subseteq facts[h]
         /\ at[h] = "write" => h \in evidence.atTmp /\ evidence.tmp = Empty
         /\ at[h] = "replace" => evidence.tmp = Text(facts[h], SizeOf(facts[h]))

EvidenceInv ==
    /\ at \in [Hosts -> {"unloaded", "idle"} \cup Writing]
    /\ met \in BOOLEAN
    /\ ~met => AloneInv
-----------------------------------------------------------------------------
(* The script *)

\* A command of the script, or of its rollback.
LEMMA CommandStep ==
    ASSUME UpdateInv, ScriptStep \/ Restart \/ UndoRestart
    PROVE  UpdateInv'
<1> USE DEF UpdateInv, TypeInv, NewInv, WholeInv, BackupInv, AlwaysAWayBack,
            AllStopped, AllRun, Secured, Code, From, SameRun, deployment
<1>1. CASE Begin
  BY <1>1 DEF Begin
<1>2. CASE BackUp
  BY <1>2 DEF BackUp
<1>3. ASSUME NEW u \in Units, StopUnit(u) PROVE UpdateInv'
  BY <1>3 DEF StopUnit
<1>4. CASE CopyStarts
  BY <1>4 DEF CopyStarts
<1>5. CASE CopyEnds
  BY <1>5 DEF CopyEnds
<1>6. CASE GatesPassed
  BY <1>6 DEF GatesPassed
<1>7. CASE DoctorHealthy
  BY <1>7 DEF DoctorHealthy
<1>8. CASE CommandFails
  BY <1>8 DEF CommandFails
<1>9. CASE UndoStop
  BY <1>9 DEF UndoStop
<1>10. CASE UndoCopyStarts
  BY <1>10 DEF UndoCopyStarts
<1>11. CASE UndoCopyEnds
  BY <1>11 DEF UndoCopyEnds
<1>12. CASE UndoEnds
  BY <1>12 DEF UndoEnds
<1>13. CASE Restart
  BY <1>13 DEF Restart, RestartLive
<1>14. CASE UndoRestart
  BY <1>14 DEF UndoRestart, RestartLive
<1>. QED
  BY <1>1, <1>2, <1>3, <1>4, <1>5, <1>6, <1>7, <1>8, <1>9, <1>10, <1>11, <1>12, <1>13, <1>14
  DEF ScriptStep

\* What happens around the script while it runs or does not.
LEMMA AroundStep ==
    ASSUME UpdateInv,
           \/ \E u \in Units : UnitReturns(u)
           \/ Kill
           \/ Reboot
           \/ UNCHANGED <<deployment, script>>
    PROVE  UpdateInv'
<1> USE DEF UpdateInv, TypeInv, NewInv, WholeInv, BackupInv, AlwaysAWayBack,
            AllStopped, AllRun, Secured, Code, deployment, script
<1>1. ASSUME NEW u \in Units, UnitReturns(u) PROVE UpdateInv'
  BY <1>1 DEF UnitReturns
<1>2. CASE Kill
  BY <1>2 DEF Kill
<1>3. CASE Reboot
  BY <1>3 DEF Reboot
<1>4. CASE UNCHANGED <<deployment, script>>
  BY <1>4
<1>. QED
  BY <1>1, <1>2, <1>3, <1>4
-----------------------------------------------------------------------------
(* The evidence file *)

LEMMA FewFacts == \A s \in SUBSET Facts : SizeOf(s) \in 0..4
<1>1. IsFiniteSet(Facts) /\ Cardinality(Facts) \in 0..2
  <2>1. IsFiniteSet({Seen}) /\ Cardinality({Seen}) = 1
    BY FS_Singleton
  <2>2. Facts = {Seen} \cup {Registered} /\ Registered \notin {Seen}
    BY DEF Facts, Seen, Registered
  <2>. QED
    BY <2>1, <2>2, FS_AddElement
<1>2. \A s \in SUBSET Facts : IsFiniteSet(s) /\ Cardinality(s) <= Cardinality(Facts)
  BY <1>1, FS_Subset
<1>3. \A s \in SUBSET Facts : Cardinality(s) \in 0..2
  BY <1>1, <1>2, FS_CardinalityType
<1>. QED
  BY <1>3 DEF SizeOf

LEMMA QuietFields ==
    ASSUME NEW live, NEW tmp, NEW writers
    PROVE  LET file == Quiet(live, tmp, writers)
           IN  file.live = live /\ file.tmp = tmp /\ file.atTmp = writers
BY DEF Quiet

\* A process reads what is there and adds what it has seen.
LEMMA RecordKeeps ==
    ASSUME EvidenceInv, NEW h \in Hosts, NEW new \in SUBSET Facts,
           at[h] \in {"unloaded", "idle"}, Record(h, new)
    PROVE  EvidenceInv'
<1> USE DEF Record, Become
<1>1. /\ at' \in [Hosts -> {"unloaded", "idle"} \cup Writing] /\ met' \in BOOLEAN
  BY DEF EvidenceInv, Writing
<1>2. ASSUME ~met' PROVE AloneInv'
  <2>1. AloneInv /\ \A g \in Hosts : at[g] \notin Writing
    BY <1>2 DEF EvidenceInv, Writing
  <2>2. Known' = Known
    BY DEF Known
  <2>3. facts' \in [Hosts -> SUBSET Facts] /\ facts'[h] = Known \cup new
    BY <2>1 DEF AloneInv
  <2>. QED
    BY <2>1, <2>2, <2>3 DEF EvidenceInv, AloneInv, Writing
<1>. QED
  BY <1>1, <1>2 DEF EvidenceInv

\* The three steps of a save.
LEMMA SaveKeeps ==
    ASSUME EvidenceInv, NEW h \in Hosts, Open(h) \/ Write(h) \/ Replace(h)
    PROVE  EvidenceInv'
<1>1. /\ at' \in [Hosts -> {"unloaded", "idle"} \cup Writing]
      /\ met' = met
  BY DEF EvidenceInv, Open, Write, Replace, Done, Become, Writing
<1>2. ASSUME ~met PROVE AloneInv'
  <2> DEFINE text == Text(facts[h], SizeOf(facts[h]))
  <2>1. AloneInv
    BY <1>2 DEF EvidenceInv
  <2>2. PICK live, tmp, writers : evidence = Quiet(live, tmp, writers)
    BY <2>1 DEF AloneInv
  <2>3. CASE Open(h)
    <3>1. evidence' = Quiet(live, Empty, writers \cup {h})
      BY <2>2, <2>3 DEF Open, Opened, Quiet
    <3>2. Known' = Known
      BY <2>2, <3>1 DEF Known, Loaded, Exists, Quiet
    <3>. QED
      BY <2>1, <2>2, <2>3, <3>1, <3>2, QuietFields DEF Open, AloneInv, EvidenceInv, Become, Writing
  <2>4. CASE Write(h)
    <3>1. facts[h] \in SUBSET Facts /\ SizeOf(facts[h]) \in 0..4
      BY <2>1, FewFacts DEF AloneInv
    <3>2. Over(text, Empty) = text
      BY <3>1 DEF Over, Empty, Text
    <3>3. h \in writers /\ tmp = Empty
      BY <2>1, <2>2, <2>4 DEF Write, AloneInv, Quiet
    <3>4. evidence' = Quiet(live, text, writers \ {h})
      BY <2>2, <2>4, <3>2, <3>3 DEF Write, Written, Quiet
    <3>5. Known' = Known
      BY <2>2, <3>4 DEF Known, Loaded, Exists, Quiet
    <3>. QED
      BY <2>1, <2>2, <2>4, <3>4, <3>5, QuietFields DEF Write, AloneInv, EvidenceInv, Become, Writing
  <2>5. CASE Replace(h)
    <3>1. writers = {} /\ tmp = text
      <4>1. ASSUME NEW g \in writers PROVE g \in Hosts /\ at[g] = "write"
        BY <2>1, <2>2 DEF AloneInv, Quiet
      <4>. QED
        BY <2>1, <2>2, <2>5, <4>1 DEF Replace, AloneInv, Writing, Quiet
    <3>2. evidence' = Quiet(text, Gone, {})
      BY <2>2, <2>5, <3>1 DEF Replace, Replaced, Quiet
    <3>3. Known' = facts[h] /\ facts[h] \in SUBSET Facts
      <4>1. facts[h] \in SUBSET Facts /\ SizeOf(facts[h]) \in 0..4
        BY <2>1, FewFacts DEF AloneInv
      <4>2. text # Gone /\ facts[h] # NoDoc
        BY <4>1, EvidenceAssumption
      <4>. QED
        BY <3>2, <4>1, <4>2 DEF Known, Loaded, Exists, Text, Quiet
    <3>. QED
      BY <2>1, <2>5, <3>2, <3>3, QuietFields
      DEF Replace, Done, AloneInv, EvidenceInv, Become, Writing
  <2>. QED
    BY <2>3, <2>4, <2>5
<1>. QED
  BY <1>1, <1>2 DEF EvidenceInv

\* A save that fails, and a process that ends.
LEMMA LeaveKeeps ==
    ASSUME EvidenceInv, NEW h \in Hosts, Fail(h) \/ Leave(h)
    PROVE  EvidenceInv'
<1>1. /\ at' \in [Hosts -> {"unloaded", "idle"} \cup Writing]
      /\ met' = met /\ proven' = proven
      /\ evidence' = Abandoned(evidence, h)
      /\ at' = [at EXCEPT ![h] = at'[h]] /\ at'[h] \in {"unloaded", "idle"}
      /\ facts' = [facts EXCEPT ![h] = {}]
  BY DEF EvidenceInv, Fail, Leave, Done, Become
<1>2. ASSUME ~met PROVE AloneInv'
  <2>1. AloneInv
    BY <1>2 DEF EvidenceInv
  <2>2. PICK live, tmp, writers : evidence = Quiet(live, tmp, writers)
    BY <2>1 DEF AloneInv
  <2>3. evidence' = Quiet(live, tmp, writers \ {h})
    BY <1>1, <2>2 DEF Abandoned, Quiet
  <2>4. Known' = Known
    BY <2>2, <2>3 DEF Known, Loaded, Exists, Quiet
  <2>. QED
    BY <1>1, <2>1, <2>2, <2>3, <2>4, QuietFields DEF EvidenceInv, AloneInv, Writing
<1>. QED
  BY <1>1, <1>2 DEF EvidenceInv
-----------------------------------------------------------------------------
(* The invariants of the specification *)

LEMMA InitStep == UpdateInit => UpdateInv /\ EvidenceInv
<1>. SUFFICES ASSUME UpdateInit PROVE UpdateInv /\ EvidenceInv
  OBVIOUS
<1>1. UpdateInv
  BY DEF UpdateInit, UpdateInv, TypeInv, NewInv, WholeInv, BackupInv, AlwaysAWayBack,
         Secured, Code
<1>2. AloneInv
  <2>1. SizeOf(Facts) \in 0..4
    BY FewFacts
  <2>2. evidence.live = Text(Facts, SizeOf(Facts))
    BY DEF UpdateInit, Init, NewFile
  <2>3. Known = Facts
    BY <2>1, <2>2, EvidenceAssumption DEF Known, Loaded, Exists, Text
  <2>4. evidence = Quiet(Text(Facts, SizeOf(Facts)), Gone, {})
    BY DEF UpdateInit, Init, NewFile, Quiet
  <2>5. evidence.atTmp = {} /\ \A h \in Hosts : at[h] = "unloaded" /\ facts[h] = {}
    BY <2>4 DEF UpdateInit, Init, Quiet
  <2>6. facts \in [Hosts -> SUBSET Facts] /\ proven = Facts
    BY DEF UpdateInit, Init
  <2>. QED
    BY <2>3, <2>4, <2>5, <2>6 DEF AloneInv, Writing
<1>. QED
  BY <1>1, <1>2 DEF UpdateInit, Init, EvidenceInv

LEMMA NextStep ==
    UpdateInv /\ EvidenceInv /\ [UpdateNext]_allVars => (UpdateInv /\ EvidenceInv)'
<1>. SUFFICES ASSUME UpdateInv, EvidenceInv, [UpdateNext]_allVars
              PROVE  UpdateInv' /\ EvidenceInv'
  OBVIOUS
<1>1. UpdateInv'
  <2>1. CASE ScriptStep \/ RestartStep
    BY <2>1, CommandStep DEF RestartStep
  <2>2. CASE UNCHANGED <<deployment, script>>
    BY <2>2, AroundStep
  <2>3. CASE (\E u \in Units : UnitReturns(u)) \/ Kill \/ Reboot
    BY <2>3, AroundStep
  <2>4. ASSUME NEW h \in Hosts, LoadPlugin(h) \/ HostStep(h)
        PROVE  UNCHANGED <<deployment, script>>
    BY <2>4 DEF LoadPlugin, HostStep
  <2>. QED
    BY <2>1, <2>2, <2>3, <2>4 DEF UpdateNext, allVars
<1>2. EvidenceInv'
  <2>1. CASE UNCHANGED observers
    BY <2>1 DEF observers, EvidenceInv, AloneInv, Known
  <2>2. CASE Leave(Gateway)
    BY <2>2, LeaveKeeps, UpdateAssumption
  <2>3. ASSUME NEW h \in Hosts, LoadPlugin(h) PROVE EvidenceInv'
    BY <2>3, RecordKeeps DEF LoadPlugin, Register, Facts
  <2>4. ASSUME NEW h \in Hosts, HostStep(h) PROVE EvidenceInv'
    BY <2>4, RecordKeeps, SaveKeeps, LeaveKeeps DEF HostStep, Observe, Facts
  <2>5. ((\E u \in Units : UnitReturns(u)) \/ Kill) => UNCHANGED observers
    BY DEF UnitReturns, Kill
  <2>6. RestartStep \/ Reboot => Leave(Gateway)
    BY DEF RestartStep, Reboot
  <2>. QED
    BY <2>1, <2>2, <2>3, <2>4, <2>5, <2>6 DEF UpdateNext, allVars
<1>. QED
  BY <1>1, <1>2

LEMMA Invariants == UpdateSpec => [](UpdateInv /\ EvidenceInv)
BY InitStep, NextStep, PTL DEF UpdateSpec
-----------------------------------------------------------------------------
\* However often the updater is run, killed, or finds its commands failing, the
\* code that was deployed first exists whole: in the plugin directory, or in a
\* backup.  BACKUP_DIR is made, and filled, before rsync is let at the tree.
THEOREM AWayBack == UpdateSpec => []AlwaysAWayBack
<1>1. UpdateInv => AlwaysAWayBack
  BY DEF UpdateInv, BackupInv
<1>. QED
  BY <1>1, Invariants, PTL

\* Workers are stopped while a copy runs, by the update and by its rollback, so
\* that none can crash and come back on half-copied code.
THEOREM WholeCode == UpdateSpec => []WorkersRunWholeCode
<1>1. UpdateInv => WorkersRunWholeCode
  BY DEF UpdateInv, WholeInv, WorkersRunWholeCode
<1>. QED
  BY <1>1, Invariants, PTL

\* HLB_CODE_UPDATE=PASS is only printed over a tree, a timer and workers that
\* are the new deployment.
THEOREM Success == UpdateSpec => SuccessMeansNew
<1>1. UpdateInv /\ [UpdateNext]_allVars =>
        (outcome' = "pass" /\ outcome # "pass" =>
           /\ tree = "new" /\ timer
           /\ \A u \in Units : unit[u] = "new")
  <2>. SUFFICES ASSUME UpdateInv, [UpdateNext]_allVars,
                       outcome' = "pass", outcome # "pass"
                PROVE  DoctorHealthy
    BY DEF UpdateInv, NewInv, AllRun, DoctorHealthy, From
  <2>. QED
    BY DEF UpdateNext, allVars, ScriptStep, RestartStep, script, outside, SameRun,
           Begin, BackUp, StopUnit, CopyStarts, CopyEnds, GatesPassed, CommandFails,
           UndoStop, UndoCopyStarts, UndoCopyEnds, UndoEnds, Restart, UndoRestart,
           RestartLive, UnitReturns, Kill, Reboot, LoadPlugin, HostStep
<1>. QED
  BY <1>1, Invariants, PTL DEF UpdateSpec, SuccessMeansNew

\* HLB_CODE_ROLLBACK=PASS after a rollback whose own commands worked means what
\* ran before runs again.
THEOREM Rollback == UpdateSpec => RollbackRestores
<1>1. UpdateInv /\ [UpdateNext]_allVars =>
        (outcome' = "rolled_back" /\ outcome # "rolled_back" /\ ~damaged =>
           /\ tree = before /\ timer
           /\ \A u \in Units : unit[u] = before)
  <2>. SUFFICES ASSUME UpdateInv, [UpdateNext]_allVars,
                       outcome' = "rolled_back", outcome # "rolled_back", ~damaged
                PROVE  UndoEnds
    BY DEF UpdateInv, WholeInv, AllRun, UndoEnds, From
  <2>. QED
    BY DEF UpdateNext, allVars, ScriptStep, RestartStep, script, outside, SameRun,
           Begin, BackUp, StopUnit, CopyStarts, CopyEnds, GatesPassed, DoctorHealthy,
           CommandFails, UndoStop, UndoCopyStarts, UndoCopyEnds, Restart, UndoRestart,
           RestartLive, UnitReturns, Kill, Reboot, LoadPlugin, HostStep
<1>. QED
  BY <1>1, Invariants, PTL DEF UpdateSpec, RollbackRestores

\* Evidence a process has saved is on disk as long as no two processes have
\* been at the file together, however many there are and whatever fails.
THEOREM Evidence == UpdateSpec => []EvidenceKept
<1>1. EvidenceInv => EvidenceKept
  BY DEF EvidenceInv, AloneInv, EvidenceKept
<1>. QED
  BY <1>1, Invariants, PTL
=============================================================================
