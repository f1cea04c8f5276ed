----------------------- MODULE CompatibilityEvidence -----------------------
(***************************************************************************)
(* The evidence that Hermes runs the plugin: every Hermes process that     *)
(* loads it records the registration, the gateway records each message it  *)
(* hands to the hook, and Doctor reads what is there.                      *)
(*                                                                         *)
(* Covered: load, change and replace of one small file by several          *)
(* processes without a lock, failures at any of its steps, processes that  *)
(* end and start.  A record holds the two facts Doctor's verdict on the    *)
(* ingress depends on; timestamps, versions and platforms are left out.    *)
(***************************************************************************)
EXTENDS PrivateFile, FiniteSets

CONSTANT Hosts  \* Hermes processes: gateways and command lines

Registered == "gateway_hook_registered"
Seen == "gateway_hook_observed"
Facts == {Registered, Seen}

\* A fact is longer than the newline a text ends with.
SizeOf(record) == 2 * Cardinality(record)

\* A record, no record and no file are three things.
ASSUME EvidenceAssumption ==
    /\ \A doc \in SUBSET Facts : NoDoc # doc
    /\ \A doc \in (SUBSET Facts) \cup {NoDoc}, n \in 0..4 : Gone # Text(doc, n)

VARIABLES
    evidence,  \* compatibility-evidence.json
    at,        \* where each process is: no plugin loaded, idle, or writing
    facts,     \* the record it is about to write
    proven,    \* ghost: facts some process has saved
    met        \* ghost: two processes have been at the file together

observers == <<evidence, at, facts, proven, met>>

\* The file a healthy deployment has.
Init ==
    /\ evidence = [NewFile EXCEPT !.live = Text(Facts, SizeOf(Facts))]
    /\ at = [h \in Hosts |-> "unloaded"]
    /\ facts = [h \in Hosts |-> {}]
    /\ proven = Facts
    /\ met = FALSE

Writing == {"open", "write", "replace"}

Become(h, place) == at' = [at EXCEPT ![h] = place]

Done(h) ==
    /\ Become(h, "idle")
    /\ facts' = [facts EXCEPT ![h] = {}]
-----------------------------------------------------------------------------
Known == IF Loaded(evidence) = NoDoc THEN {} ELSE Loaded(evidence)

\* Mutant: what is on disk is not read before it is replaced.
RecordAlone(h, new) ==
    /\ facts' = [facts EXCEPT ![h] = new]
    /\ met' = (met \/ \E g \in Hosts \ {h} : at[g] \in Writing)
    /\ Become(h, "open")
    /\ UNCHANGED <<evidence, proven>>

\* _load and update: what is on disk and what this process has seen.
Record(h, new) ==
    /\ facts' = [facts EXCEPT ![h] = Known \cup new]
    /\ met' = (met \/ \E g \in Hosts \ {h} : at[g] \in Writing)
    /\ Become(h, "open")
    /\ UNCHANGED <<evidence, proven>>

\* register(): record_registration.
Register(h) == at[h] = "unloaded" /\ Record(h, {Registered})

\* record_gateway_event, first thing in on_pre_gateway_dispatch.
Observe(h) == at[h] = "idle" /\ Record(h, {Seen})

Open(h) ==
    /\ at[h] = "open"
    /\ evidence' = Opened(evidence, h)
    /\ Become(h, "write")
    /\ UNCHANGED <<facts, proven, met>>

Write(h) ==
    /\ at[h] = "write"
    /\ evidence' = Written(evidence, h, Text(facts[h], SizeOf(facts[h])))
    /\ Become(h, "replace")
    /\ UNCHANGED <<facts, proven, met>>

Replace(h) ==
    /\ at[h] = "replace" /\ CanReplace(evidence)
    /\ evidence' = Replaced(evidence)
    /\ proven' = proven \cup facts[h]
    /\ Done(h)
    /\ UNCHANGED met

\* The disk is full, or another process has renamed the temporary file; the
\* caller swallows the exception.
Fail(h) ==
    /\ at[h] \in Writing
    /\ evidence' = Abandoned(evidence, h)
    /\ Done(h)
    /\ UNCHANGED <<proven, met>>

\* The process ends, at any step.
Leave(h) ==
    /\ evidence' = Abandoned(evidence, h)
    /\ Become(h, "unloaded")
    /\ facts' = [facts EXCEPT ![h] = {}]
    /\ UNCHANGED <<proven, met>>

\* run_doctor's ingress component, with the Runtime socket answering.
IngressHealth ==
    CASE Registered \notin Known -> "blocked"
      [] Registered \in Known /\ Seen \notin Known -> "degraded"
      [] OTHER -> "healthy"
-----------------------------------------------------------------------------
\* Evidence once saved stays on disk across crashes, failed writes and later
\* observations, as long as no two processes were at the file together.
EvidenceKept == ~met => proven \subseteq Known

\* HLB-004.5: registration is observed rather than assumed.  Two processes at
\* the file can lose it; Doctor then blocks until Hermes loads the plugin again.
RegistrationStays == Registered \in proven => IngressHealth # "blocked"
=============================================================================
