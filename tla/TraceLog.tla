------------------------------ MODULE TraceLog ------------------------------
(***************************************************************************)
(* BridgeTracer: the gateway, the services and the command lines append to *)
(* one operational trace, rotate it when it is full, and read its end.     *)
(*                                                                         *)
(* Covered: emit under the advisory lock with the rotation one rename at a *)
(* time; a process that dies, or a call that fails, between two of them;   *)
(* a short write, whose result nobody looks at; tail, which takes no lock, *)
(* one file at a time.  A record is its number in the order of writing and *)
(* every record has the same size; what it says is left out.               *)
(***************************************************************************)
EXTENDS Integers, SequencesExt, FiniteSetsExt

CONSTANTS
    Writers,      \* processes that emit
    Nobody,       \* holder of a free lock
    Capacity,     \* max_bytes, in records
    BackupCount,  \* rotated files
    MaxRecords,   \* bound: records emitted
    MaxFailures   \* bound: crashes and short writes

ASSUME TraceAssumption ==
    /\ Nobody \notin Writers
    /\ Capacity \in Nat \ {0} /\ BackupCount \in Nat \ {0}
    /\ MaxRecords \in Nat /\ MaxFailures \in Nat

VARIABLES
    file,     \* path (0) and path.1 to path.<backup_count>, oldest last
    holder,   \* who holds the lock
    at,       \* what each process does next: move the file of this index, append
    emitted,  \* records appended so far
    reading,  \* file tail() reads next; -1 when it has read all
    lines,    \* what tail() has collected
    broken,   \* ghost: emits that ended without their append
    short     \* ghost: short writes

vars == <<file, holder, at, emitted, reading, lines, broken, short>>

Indexes == 0..BackupCount
ToAppend == -1
Idle == -2

\* A missing file and an empty one are alike to every step below.
Missing == <<>>

\* What one emit writes: the record it parses to (0 for none), and whether the
\* line is ended.
Line(record) == [record |-> record, ended |-> TRUE]
Stump == [record |-> 0, ended |-> FALSE]

Init ==
    /\ file = [i \in Indexes |-> Missing]
    /\ holder = Nobody /\ at = [w \in Writers |-> Idle]
    /\ emitted = 0
    /\ reading = -1 /\ lines = <<>>
    /\ broken = 0 /\ short = 0
-----------------------------------------------------------------------------
(* emit *)

\* Behind a line that is not ended nothing parses.
Written(content, line) ==
    IF content # <<>> /\ ~Last(content).ended
    THEN Append(content, [line EXCEPT !.record = 0])
    ELSE Append(content, line)

Full == file[0] # Missing /\ Len(file[0]) + 1 > Capacity

GoTo(w, next) == at' = [at EXCEPT ![w] = next]

\* Mutant: nobody waits for the lock.
LockIgnored(w) ==
    /\ at[w] = Idle /\ emitted < MaxRecords
    /\ holder' = w
    /\ GoTo(w, IF Full THEN BackupCount ELSE ToAppend)
    /\ UNCHANGED <<file, emitted, reading, lines, broken, short>>

\* The lock, and whether to rotate.
Lock(w) ==
    /\ at[w] = Idle /\ emitted < MaxRecords
    /\ holder = Nobody /\ holder' = w
    /\ GoTo(w, IF Full THEN BackupCount ELSE ToAppend)
    /\ UNCHANGED <<file, emitted, reading, lines, broken, short>>

\* Mutant: the newest backup is moved first.
ShiftUpwards(w) ==
    /\ at[w] \in Indexes
    /\ LET i == BackupCount - at[w] IN
       file' = IF i = BackupCount
               THEN file
               ELSE [file EXCEPT ![i + 1] = file[i], ![i] = Missing]
    /\ GoTo(w, at[w] - 1)
    /\ UNCHANGED <<holder, emitted, reading, lines, broken, short>>

\* One step of _rotate_locked: the oldest file is deleted, each of the others
\* takes the name after its own.
Shift(w) ==
    /\ at[w] \in Indexes
    /\ LET i == at[w] IN
       file' = CASE i = BackupCount -> [file EXCEPT ![i] = Missing]
                 [] i < BackupCount /\ file[i] = Missing -> file
                 [] OTHER -> [file EXCEPT ![i + 1] = file[i], ![i] = Missing]
    /\ GoTo(w, at[w] - 1)
    /\ UNCHANGED <<holder, emitted, reading, lines, broken, short>>

Release(w) == holder' = Nobody /\ GoTo(w, Idle)

AppendRecord(w) ==
    /\ at[w] = ToAppend
    /\ file' = [file EXCEPT ![0] = Written(@, Line(emitted + 1))]
    /\ emitted' = emitted + 1
    /\ Release(w)
    /\ UNCHANGED <<reading, lines, broken, short>>

\* os.write writes a part of the line; emit returns as if all were well.
WriteShort(w) ==
    /\ at[w] = ToAppend
    /\ broken + short < MaxFailures /\ short' = short + 1
    /\ file' = [file EXCEPT ![0] = Written(@, Stump)]
    /\ emitted' = emitted + 1
    /\ Release(w)
    /\ UNCHANGED <<reading, lines, broken>>

\* The process dies or a call fails: either way the lock is free again.
EmitFails(w) ==
    /\ at[w] # Idle
    /\ broken + short < MaxFailures /\ broken' = broken + 1
    /\ Release(w)
    /\ UNCHANGED <<file, emitted, reading, lines, short>>
-----------------------------------------------------------------------------
(* tail *)

StartTail ==
    /\ reading = -1
    /\ reading' = BackupCount /\ lines' = <<>>
    /\ UNCHANGED <<file, holder, at, emitted, broken, short>>

\* Mutant: the newest file first.
ReadNewestFirst ==
    /\ reading # -1
    /\ lines' = lines \o file[BackupCount - reading]
    /\ reading' = reading - 1
    /\ UNCHANGED <<file, holder, at, emitted, broken, short>>

ReadNext ==
    /\ reading # -1
    /\ lines' = lines \o file[reading]
    /\ reading' = reading - 1
    /\ UNCHANGED <<file, holder, at, emitted, broken, short>>

EmitStep(w) == Lock(w) \/ Shift(w) \/ AppendRecord(w) \/ WriteShort(w) \/ EmitFails(w)

TailStep == StartTail \/ ReadNext

Next == (\E w \in Writers : EmitStep(w)) \/ TailStep

Spec == Init /\ [][Next]_vars
-----------------------------------------------------------------------------
(* Properties *)

Lines == [record : 0..MaxRecords, ended : BOOLEAN]

TypeOK ==
    /\ file \in [Indexes -> Seq(Lines)]
    /\ holder \in Writers \cup {Nobody}
    /\ at \in [Writers -> Indexes \cup {ToAppend, Idle}]
    /\ reading \in Indexes \cup {-1}
    /\ emitted \in 0..MaxRecords
    /\ broken \in 0..MaxFailures /\ short \in 0..MaxFailures

\* The records that can be read in a file.
Records(content) == {content[n].record : n \in DOMAIN content} \ {0}

Increasing(content) ==
    \A m, n \in DOMAIN content :
        m < n /\ content[m].record # 0 /\ content[n].record # 0
        => content[m].record < content[n].record

OlderThan(content, other) == \A r \in Records(content), q \in Records(other) : r < q

\* Whatever writers race, fail or die at any rename: the files in the order of
\* their names hold the records in the order of writing, each once, and no
\* file grows past its limit.
LogInOrder ==
    /\ \A i \in Indexes : Increasing(file[i]) /\ Len(file[i]) <= Capacity
    /\ \A i, j \in Indexes : i < j => OlderThan(file[j], file[i])

\* The newest records, a full set of backups of them, can be read.  A rotation
\* that is cut off leaves a gap that costs one file, a short write costs the
\* record and the one after it, and no failure costs more.
RecentRecordsKept ==
    LET readable == UNION {Records(file[i]) : i \in Indexes}
        recent == (Capacity * (BackupCount - broken)) - 2 * short
    IN  Cardinality({r \in readable : r > emitted - BackupCount * Capacity})
          >= Min({recent, emitted - 2 * short})

\* What tail() returns is in the order of writing, and has nothing twice,
\* although files change their names under it.
TailInOrder == Increasing(lines)

(* Nothing in the code or the documents promises this; see README *)

\* A tail without a hole.  A rotation between two reads makes one.
TailIsWhole ==
    broken + short = 0 =>
        \A n \in DOMAIN lines : n > 1 => lines[n].record = lines[n - 1].record + 1
=============================================================================
