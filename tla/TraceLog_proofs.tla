-------------------------- MODULE TraceLog_proofs --------------------------
(***************************************************************************)
(* The order of the trace, on disk and as tail() returns it, for any       *)
(* number of writers, files and records, with the migration running or not;*)
(* what the migration does before it deletes anything; and how many of the *)
(* newest records can be read, whatever fails.                             *)
(***************************************************************************)
EXTENDS PrivacyMigration, SequenceTheorems, FiniteSetTheorems, TLAPS

UpTo(content, last) == \A r \in Records(content) : r <= last

\* A writer under way holds the lock, and one about to append has found room.
LockInv ==
    /\ \A w \in Writers : at[w] # Idle => holder = w /\ emitted < MaxRecords
    /\ \A w \in Writers : at[w] = ToAppend => Len(file[0]) < Capacity

\* Nothing is newer than the count of records, and what tail() has collected is
\* older than what it has still to read.
ReadInv ==
    /\ \A i \in Indexes : UpTo(file[i], emitted)
    /\ UpTo(lines, emitted)
    /\ \A i \in Indexes : i <= reading => OlderThan(lines, file[i])

IInv ==
    /\ TypeOK /\ lines \in Seq(Lines)
    /\ LockInv /\ ReadInv
    /\ LogInOrder /\ TailInOrder
-----------------------------------------------------------------------------
(* One content *)

\* Nothing can be wrong with a missing file.
LEMMA MissingIsFine ==
    /\ Missing \in Seq(Lines) /\ Len(Missing) = 0
    /\ Increasing(Missing)
    /\ \A last : UpTo(Missing, last)
    /\ \A c : OlderThan(Missing, c) /\ OlderThan(c, Missing)
  BY DEF Missing, Increasing, UpTo, OlderThan, Records

\* Records are numbers.
LEMMA RecordsAreNumbers == \A c \in Seq(Lines) : Records(c) \subseteq Nat
<1> SUFFICES ASSUME NEW c \in Seq(Lines), NEW n \in DOMAIN c PROVE c[n].record \in Nat
  BY DEF Records
<1>1. c[n] \in Lines
  OBVIOUS
<1>. QED
  BY <1>1 DEF Lines

\* A line behind the others keeps a content in order when its record is newer.
LEMMA AppendLine ==
    ASSUME NEW c \in Seq(Lines), NEW last \in Nat, UpTo(c, last), Increasing(c),
           NEW line \in Lines, line.record \in {0, last + 1}
    PROVE  /\ Append(c, line) \in Seq(Lines)
           /\ Len(Append(c, line)) = Len(c) + 1
           /\ Increasing(Append(c, line))
           /\ Records(Append(c, line)) \subseteq Records(c) \cup {last + 1}
<1> DEFINE d == Append(c, line)
<1>1. d \in Seq(Lines) /\ Len(d) = Len(c) + 1
  OBVIOUS
<1>2. /\ DOMAIN c = 1..Len(c) /\ DOMAIN d = 1..(Len(c) + 1)
      /\ \A n \in 1..Len(c) : d[n] = c[n]
      /\ d[Len(c) + 1] = line
  OBVIOUS
<1>3. \A n \in DOMAIN c : c[n].record \in Nat /\ (c[n].record # 0 => c[n].record <= last)
  <2>1. \A n \in DOMAIN c : c[n] \in Lines
    OBVIOUS
  <2>. QED
    BY <2>1 DEF UpTo, Records, Lines
<1>4. Records(d) \subseteq Records(c) \cup {last + 1}
  BY <1>2, <1>3 DEF Records
<1>5. Increasing(d)
  <2> SUFFICES ASSUME NEW m \in DOMAIN d, NEW n \in DOMAIN d, m < n,
                      d[m].record # 0, d[n].record # 0
               PROVE  d[m].record < d[n].record
    BY DEF Increasing
  <2>1. CASE n = Len(c) + 1
    BY <2>1, <1>2, <1>3
  <2>2. CASE n # Len(c) + 1
    BY <2>2, <1>2 DEF Increasing
  <2>. QED
    BY <2>1, <2>2
<1>. QED
  BY <1>1, <1>4, <1>5

\* Older lines before newer ones.
LEMMA Concatenation ==
    ASSUME NEW c \in Seq(Lines), NEW d \in Seq(Lines),
           Increasing(c), Increasing(d), OlderThan(c, d)
    PROVE  /\ c \o d \in Seq(Lines)
           /\ Increasing(c \o d)
           /\ Records(c \o d) \subseteq Records(c) \cup Records(d)
<1> DEFINE b == c \o d
<1>1. b \in Seq(Lines)
  OBVIOUS
<1>2. /\ DOMAIN c = 1..Len(c) /\ DOMAIN d = 1..Len(d) /\ DOMAIN b = 1..(Len(c) + Len(d))
      /\ \A n \in 1..Len(c) : b[n] = c[n]
      /\ \A n \in DOMAIN b : n > Len(c) => n - Len(c) \in 1..Len(d) /\ b[n] = d[n - Len(c)]
  OBVIOUS
<1>3. Records(b) \subseteq Records(c) \cup Records(d)
  BY <1>2 DEF Records
<1>4. Increasing(b)
  <2> SUFFICES ASSUME NEW m \in DOMAIN b, NEW n \in DOMAIN b, m < n,
                      b[m].record # 0, b[n].record # 0
               PROVE  b[m].record < b[n].record
    BY DEF Increasing
  <2>1. CASE n <= Len(c)
    BY <2>1, <1>2 DEF Increasing
  <2>2. CASE m > Len(c)
    <3>1. /\ m - Len(c) \in DOMAIN d /\ n - Len(c) \in DOMAIN d
          /\ m - Len(c) < n - Len(c)
          /\ b[m] = d[m - Len(c)] /\ b[n] = d[n - Len(c)]
      BY <2>2, <1>2
    <3>. QED
      BY <3>1 DEF Increasing
  <2>3. CASE m <= Len(c) /\ n > Len(c)
    <3>1. b[m].record \in Records(c) /\ b[n].record \in Records(d)
      BY <2>3, <1>2 DEF Records
    <3>. QED
      BY <3>1 DEF OlderThan
  <2>. QED
    BY <2>1, <2>2, <2>3, <1>2
<1>. QED
  BY <1>1, <1>3, <1>4
-----------------------------------------------------------------------------
(* The steps *)

\* One step of the rotation.
LEMMA ShiftStep ==
    ASSUME IInv, NEW w \in Writers, Shift(w)
    PROVE  IInv'
<1> DEFINE k == at[w]
<1>1. /\ k \in Indexes /\ at' = [at EXCEPT ![w] = k - 1]
      /\ BackupCount \in Nat \ {0} /\ Capacity \in Nat \ {0} /\ emitted \in Nat
      /\ UNCHANGED <<holder, emitted, reading, lines, broken, short>>
  BY TraceAssumption DEF Shift, GoTo, IInv, TypeOK
<1>2. /\ file \in [Indexes -> Seq(Lines)] /\ lines \in Seq(Lines)
      /\ reading \in Indexes \cup {-1}
  BY DEF IInv, TypeOK
<1>3. \/ file' = [file EXCEPT ![k] = Missing]
      \/ k < BackupCount /\ file[k] = Missing /\ file' = file
      \/ k < BackupCount /\ file' = [file EXCEPT ![k + 1] = file[k], ![k] = Missing]
  BY <1>1 DEF Shift, Indexes
<1>4. /\ file' \in [Indexes -> Seq(Lines)]
      /\ file'[k] = Missing
      /\ \A i \in Indexes : \/ file'[i] = Missing
                            \/ file'[i] = file[i]
                            \/ i = k + 1 /\ file'[i] = file[k]
      /\ \A i \in Indexes : i # k /\ i # k + 1 => file'[i] = file[i]
  BY <1>1, <1>2, <1>3, MissingIsFine DEF Indexes
<1>5. TypeOK'
  <2>1. at' \in [Writers -> Indexes \cup {ToAppend, Idle}]
    BY <1>1 DEF IInv, TypeOK, Indexes, ToAppend
  <2>. QED
    BY <1>1, <1>4, <2>1 DEF IInv, TypeOK
<1>6. LockInv'
  <2>1. \A v \in Writers : v # w => at'[v] = at[v] /\ at[v] = Idle
    BY <1>1 DEF IInv, LockInv, Indexes, Idle
  <2>2. at'[w] = k - 1 /\ holder = w /\ emitted < MaxRecords
    BY <1>1 DEF IInv, TypeOK, LockInv, Indexes, Idle
  <2>3. k - 1 = ToAppend => Len(file'[0]) < Capacity
    BY <1>1, <1>4, MissingIsFine DEF ToAppend
  <2>. QED
    BY <1>1, <2>1, <2>2, <2>3 DEF LockInv, Idle, ToAppend
<1>7. LogInOrder'
  <2>a. \A i \in Indexes : Increasing(file[i]) /\ Len(file[i]) <= Capacity
    BY DEF IInv, LogInOrder
  <2>1. ASSUME NEW i \in Indexes
        PROVE  Increasing(file'[i]) /\ Len(file'[i]) <= Capacity
    <3>1. CASE file'[i] = Missing
      BY <3>1, <1>1, MissingIsFine
    <3>2. CASE file'[i] = file[i]
      BY <3>2, <2>a
    <3>3. CASE file'[i] = file[k]
      BY <3>3, <2>a, <1>1
    <3>. QED
      BY <3>1, <3>2, <3>3, <1>4
  <2>2. ASSUME NEW i \in Indexes, NEW j \in Indexes, i < j
        PROVE  OlderThan(file'[j], file'[i])
    <3>1. CASE i = k \/ j = k
      BY <3>1, <1>4, MissingIsFine
    <3>2. CASE i # k /\ j # k
      <4>1. (i = k + 1 => k < j) /\ (j = k + 1 => i < k)
        BY <3>2, <2>2, <1>1 DEF Indexes
      <4>2. \A x, y \in Indexes : x < y => OlderThan(file[y], file[x])
        BY DEF IInv, LogInOrder
      <4>3. CASE file'[i] = Missing \/ file'[j] = Missing
        BY <4>3, MissingIsFine
      <4>4. CASE i = k + 1 /\ file'[i] = file[k] /\ file'[j] = file[j]
        BY <4>1, <4>2, <4>4, <1>1
      <4>5. CASE j = k + 1 /\ file'[j] = file[k] /\ file'[i] = file[i]
        BY <4>1, <4>2, <4>5, <1>1
      <4>6. CASE file'[i] = file[i] /\ file'[j] = file[j]
        BY <4>2, <4>6, <2>2
      <4>. QED
        <5>1. i # j
          BY <2>2 DEF Indexes
        <5>. QED
          BY <5>1, <4>3, <4>4, <4>5, <4>6, <1>4
    <3>. QED
      BY <3>1, <3>2
  <2>. QED
    BY <2>1, <2>2 DEF LogInOrder
<1>8. ReadInv'
  <2>1. \A i \in Indexes : UpTo(file'[i], emitted)
    BY <1>1, <1>4, MissingIsFine DEF IInv, ReadInv
  <2>2. ASSUME NEW i \in Indexes, i <= reading
        PROVE  OlderThan(lines, file'[i])
    <3>1. k + 1 = i => k <= reading
      BY <1>1, <1>2, <2>2 DEF Indexes
    <3>2. OlderThan(lines, file[i]) /\ (k <= reading => OlderThan(lines, file[k]))
      BY <1>1, <2>2 DEF IInv, ReadInv
    <3>. QED
      BY <3>1, <3>2, <1>4, MissingIsFine
  <2>. QED
    BY <2>1, <2>2, <1>1 DEF IInv, ReadInv
<1>. QED
  BY <1>1, <1>5, <1>6, <1>7, <1>8 DEF IInv, TailInOrder

\* The end of an emit: a line is appended and the lock is free.
LEMMA AppendStep ==
    ASSUME IInv, NEW w \in Writers, AppendRecord(w) \/ WriteShort(w)
    PROVE  IInv'
<1>1. /\ BackupCount \in Nat \ {0} /\ Capacity \in Nat \ {0} /\ MaxRecords \in Nat
      /\ 0 \in Indexes
  BY TraceAssumption DEF Indexes
<1>2. /\ file \in [Indexes -> Seq(Lines)] /\ lines \in Seq(Lines)
      /\ emitted \in Nat /\ emitted < MaxRecords /\ Len(file[0]) < Capacity
  <2>1. at[w] = ToAppend /\ at[w] # Idle
    BY DEF AppendRecord, WriteShort, ToAppend, Idle
  <2>2. emitted < MaxRecords /\ Len(file[0]) < Capacity
    BY <2>1 DEF IInv, LockInv
  <2>. QED
    BY <1>1, <2>2 DEF IInv, TypeOK
<1>3. PICK line \in Lines : /\ line.record \in {0, emitted + 1}
                             /\ file' = [file EXCEPT ![0] = Append(file[0], line)]
  <2>1. PICK l \in Lines : /\ l.record \in {0, emitted + 1}
                            /\ file' = [file EXCEPT ![0] = Written(file[0], l)]
    <3>1. Line(emitted + 1) \in Lines /\ Line(emitted + 1).record = emitted + 1
      BY <1>1, <1>2 DEF Line, Lines
    <3>2. Stump \in Lines /\ Stump.record = 0
      BY <1>1 DEF Stump, Lines
    <3>. QED
      BY <3>1, <3>2 DEF AppendRecord, WriteShort
  <2>2. [l EXCEPT !.record = 0] \in Lines /\ [l EXCEPT !.record = 0].record = 0
    BY <1>1 DEF Lines
  <2>. QED
    BY <2>1, <2>2 DEF Written
<1>4. /\ Append(file[0], line) \in Seq(Lines)
      /\ Len(Append(file[0], line)) = Len(file[0]) + 1
      /\ Increasing(Append(file[0], line))
      /\ Records(Append(file[0], line)) \subseteq Records(file[0]) \cup {emitted + 1}
  <2>1. UpTo(file[0], emitted) /\ Increasing(file[0])
    BY <1>1 DEF IInv, ReadInv, LogInOrder
  <2>. QED
    BY <1>1, <1>2, <1>3, <2>1, AppendLine
<1>5. /\ file' \in [Indexes -> Seq(Lines)]
      /\ file'[0] = Append(file[0], line)
      /\ \A i \in Indexes : i # 0 => file'[i] = file[i]
  BY <1>1, <1>2, <1>3, <1>4
<1>6. /\ emitted' = emitted + 1 /\ UNCHANGED <<reading, lines>>
      /\ at' = [at EXCEPT ![w] = Idle] /\ holder' = Nobody
  BY DEF AppendRecord, WriteShort, Release, GoTo
<1>7. TypeOK'
  <2>1. at' \in [Writers -> Indexes \cup {ToAppend, Idle}]
    BY <1>6 DEF IInv, TypeOK
  <2>2. broken' \in 0..MaxFailures /\ short' \in 0..MaxFailures
    BY TraceAssumption DEF IInv, TypeOK, AppendRecord, WriteShort
  <2>. QED
    BY <1>1, <1>2, <1>5, <1>6, <2>2 DEF IInv, TypeOK
<1>8. LockInv'
  <2>1. \A v \in Writers : v # w => at[v] = Idle
    BY DEF IInv, LockInv, AppendRecord, WriteShort, ToAppend, Idle
  <2>2. \A v \in Writers : at'[v] = Idle
    BY <1>6, <2>1 DEF IInv, TypeOK
  <2>. QED
    BY <2>2 DEF LockInv, Idle, ToAppend
<1>9. LogInOrder'
  <2>1. ASSUME NEW i \in Indexes
        PROVE  Increasing(file'[i]) /\ Len(file'[i]) <= Capacity
    <3>1. Increasing(file[i]) /\ Len(file[i]) <= Capacity
      BY DEF IInv, LogInOrder
    <3>2. Len(file[0]) \in Nat
      BY <1>1, <1>2
    <3>3. CASE i = 0
      BY <3>3, <1>1, <1>2, <1>4, <1>5
    <3>4. CASE i # 0
      BY <3>1, <3>4, <1>5
    <3>. QED
      BY <3>3, <3>4
  <2>2. ASSUME NEW i \in Indexes, NEW j \in Indexes, i < j
        PROVE  OlderThan(file'[j], file'[i])
    <3>1. j # 0 /\ file'[j] = file[j]
      BY <1>5, <2>2 DEF Indexes
    <3>2. OlderThan(file[j], file[i]) /\ UpTo(file[j], emitted)
      BY <2>2 DEF IInv, LogInOrder, ReadInv
    <3>3. \A r \in Records(file[j]) : r < emitted + 1
      <4>1. file[j] \in Seq(Lines)
        BY <1>2
      <4>2. Records(file[j]) \subseteq Nat
        BY <4>1, RecordsAreNumbers
      <4>. QED
        BY <3>2, <4>2, <1>2 DEF UpTo
    <3>4. CASE i = 0
      BY <3>2, <3>3, <3>4, <1>4, <1>5 DEF OlderThan
    <3>5. CASE i # 0
      BY <3>1, <3>2, <3>5, <1>5
    <3>. QED
      BY <3>4, <3>5
  <2>. QED
    BY <2>1, <2>2 DEF LogInOrder
<1>10. ReadInv'
  <2>1. ASSUME NEW i \in Indexes
        PROVE  UpTo(file'[i], emitted + 1)
    <3>1. file[i] \in Seq(Lines) /\ UpTo(file[i], emitted)
      BY <1>2 DEF IInv, ReadInv
    <3>2. Records(file[i]) \subseteq Nat
      BY <3>1, RecordsAreNumbers
    <3>3. Records(file'[i]) \subseteq Records(file[i]) \cup {emitted + 1}
      BY <1>4, <1>5
    <3>. QED
      BY <3>1, <3>2, <3>3, <1>2 DEF UpTo
  <2>2. Records(lines) \subseteq Nat /\ UpTo(lines, emitted)
    BY <1>2, RecordsAreNumbers DEF IInv, ReadInv
  <2>3. UpTo(lines, emitted + 1)
    BY <1>2, <2>2 DEF UpTo
  <2>4. ASSUME NEW i \in Indexes, i <= reading
        PROVE  OlderThan(lines, file'[i])
    <3>1. OlderThan(lines, file[i])
      BY <2>4 DEF IInv, ReadInv
    <3>2. CASE i = 0
      BY <3>1, <3>2, <2>2, <1>2, <1>4, <1>5 DEF OlderThan, UpTo
    <3>3. CASE i # 0
      BY <3>1, <3>3, <1>5
    <3>. QED
      BY <3>2, <3>3
  <2>. QED
    BY <2>1, <2>3, <2>4, <1>6 DEF ReadInv
<1>. QED
  BY <1>6, <1>7, <1>8, <1>9, <1>10 DEF IInv, TailInOrder

\* The lock is taken, or an emit fails: the files stay.
LEMMA LockStep ==
    ASSUME IInv, NEW w \in Writers, Lock(w) \/ EmitFails(w)
    PROVE  IInv'
<1>1. UNCHANGED <<file, emitted, reading, lines, short>>
  BY DEF Lock, EmitFails
<1>2. TypeOK'
  <2>1. at' \in [Writers -> Indexes \cup {ToAppend, Idle}]
    <3>1. at \in [Writers -> Indexes \cup {ToAppend, Idle}] /\ BackupCount \in Indexes
      BY TraceAssumption DEF IInv, TypeOK, Indexes
    <3>2. PICK next \in Indexes \cup {ToAppend, Idle} : at' = [at EXCEPT ![w] = next]
      BY <3>1 DEF Lock, EmitFails, GoTo, Release
    <3>. QED
      BY <3>1, <3>2
  <2>2. holder' \in Writers \cup {Nobody} /\ broken' \in 0..MaxFailures
    BY TraceAssumption DEF IInv, TypeOK, Lock, EmitFails, Release
  <2>. QED
    BY <1>1, <2>1, <2>2 DEF IInv, TypeOK
<1>3. LockInv'
  <2>1. CASE Lock(w)
    <3>1. \A v \in Writers : v # w => at'[v] = Idle
      BY <2>1, TraceAssumption DEF Lock, GoTo, IInv, LockInv
    <3>2. /\ holder' = w /\ emitted < MaxRecords
          /\ at'[w] = IF Full THEN BackupCount ELSE ToAppend
      BY <2>1 DEF Lock, GoTo, IInv, TypeOK
    <3>3. at'[w] = ToAppend => Len(file[0]) < Capacity
      <4>1. file[0] = Missing => Len(file[0]) < Capacity
        BY TraceAssumption, MissingIsFine
      <4>2. Len(file[0]) \in Nat /\ Capacity \in Nat
        BY TraceAssumption DEF IInv, TypeOK, Indexes
      <4>3. ~Full => Len(file[0]) < Capacity
        BY <4>1, <4>2 DEF Full
      <4>. QED
        BY <3>2, <4>3, TraceAssumption DEF ToAppend
    <3>. QED
      BY <3>1, <3>2, <3>3, <1>1 DEF LockInv, Idle, ToAppend
  <2>2. CASE EmitFails(w)
    <3>1. \A v \in Writers : at'[v] = Idle
      BY <2>2 DEF EmitFails, Release, GoTo, IInv, TypeOK, LockInv
    <3>. QED
      BY <3>1 DEF LockInv, Idle, ToAppend
  <2>. QED
    BY <2>1, <2>2
<1>. QED
  BY <1>1, <1>2, <1>3
  DEF IInv, LogInOrder, ReadInv, TailInOrder, Increasing, OlderThan, UpTo, Records, Indexes

\* tail() begins, or has read one more file.
LEMMA ReadStep ==
    ASSUME IInv, TailStep
    PROVE  IInv'
<1>1. /\ UNCHANGED <<file, holder, at, emitted, broken, short>>
      /\ BackupCount \in Nat \ {0} /\ emitted \in Nat
  BY TraceAssumption DEF TailStep, StartTail, ReadNext, IInv, TypeOK
<1>2. CASE StartTail
  <2>1. reading' = BackupCount /\ lines' = Missing
    BY <1>2 DEF StartTail, Missing
  <2>2. TypeOK' /\ lines' \in Seq(Lines)
    <3>1. BackupCount \in Indexes
      BY <1>1 DEF Indexes
    <3>. QED
      BY <1>1, <2>1, <3>1, MissingIsFine DEF IInv, TypeOK
  <2>3. LockInv' /\ LogInOrder'
    BY <1>1 DEF IInv, LockInv, LogInOrder
  <2>4. TailInOrder'
    BY <2>1, MissingIsFine DEF TailInOrder, Increasing
  <2>5. ReadInv'
    <3>1. \A i \in Indexes : UpTo(file[i], emitted)
      BY DEF IInv, ReadInv
    <3>. QED
      BY <3>1, <1>1, <2>1, MissingIsFine DEF ReadInv
  <2>. QED
    BY <2>2, <2>3, <2>4, <2>5 DEF IInv
<1>3. CASE ReadNext
  <2>1. /\ reading \in Indexes /\ reading' = reading - 1
        /\ lines' = lines \o file[reading]
    BY <1>3 DEF ReadNext, IInv, TypeOK
  <2>2. /\ lines \in Seq(Lines) /\ file[reading] \in Seq(Lines)
        /\ Increasing(lines) /\ Increasing(file[reading])
        /\ OlderThan(lines, file[reading])
        /\ UpTo(lines, emitted) /\ UpTo(file[reading], emitted)
    <3>1. reading <= reading
      BY <2>1 DEF Indexes
    <3>. QED
      BY <2>1, <3>1 DEF IInv, TypeOK, LogInOrder, TailInOrder, ReadInv
  <2>3. /\ lines' \in Seq(Lines) /\ Increasing(lines')
        /\ Records(lines') \subseteq Records(lines) \cup Records(file[reading])
    BY <2>1, <2>2, Concatenation
  <2>4. TypeOK'
    <3>1. reading - 1 \in Indexes \cup {-1}
      BY <1>1, <2>1 DEF Indexes
    <3>. QED
      BY <1>1, <2>1, <3>1 DEF IInv, TypeOK
  <2>5. LockInv' /\ LogInOrder'
    BY <1>1 DEF IInv, LockInv, LogInOrder
  <2>6. ReadInv'
    <3>1. \A i \in Indexes : UpTo(file[i], emitted)
      BY DEF IInv, ReadInv
    <3>2. \A r \in Records(lines') : r <= emitted
      BY <2>2, <2>3 DEF UpTo
    <3>3. ASSUME NEW i \in Indexes, i <= reading - 1
          PROVE  OlderThan(lines', file[i])
      <4>1. i < reading /\ i <= reading
        BY <2>1, <3>3 DEF Indexes
      <4>2. OlderThan(lines, file[i]) /\ OlderThan(file[reading], file[i])
        BY <2>1, <4>1 DEF IInv, ReadInv, LogInOrder
      <4>. QED
        BY <2>3, <4>2 DEF OlderThan
    <3>. QED
      BY <3>1, <3>2, <3>3, <1>1, <2>1 DEF ReadInv, UpTo, OlderThan, Records
  <2>. QED
    BY <2>3, <2>4, <2>5, <2>6 DEF IInv, TailInOrder
<1>. QED
  BY <1>2, <1>3 DEF TailStep

LEMMA NextStep == IInv /\ [Next]_vars => IInv'
<1> SUFFICES ASSUME IInv, [Next]_vars PROVE IInv'
  OBVIOUS
<1>1. ASSUME NEW w \in Writers, EmitStep(w) PROVE IInv'
  BY <1>1, LockStep, ShiftStep, AppendStep DEF EmitStep
<1>2. CASE TailStep
  BY <1>2, ReadStep
<1>3. CASE UNCHANGED vars
  <2>1. TypeOK' /\ lines' \in Seq(Lines) /\ LockInv'
    BY <1>3 DEF vars, IInv, TypeOK, LockInv
  <2>2. ReadInv'
    BY <1>3 DEF vars, IInv, ReadInv
  <2>3. LogInOrder' /\ TailInOrder'
    BY <1>3 DEF vars, IInv, LogInOrder, TailInOrder
  <2>. QED
    BY <2>1, <2>2, <2>3 DEF IInv
<1>. QED
  BY <1>1, <1>2, <1>3 DEF Next

LEMMA InitStep == Init => IInv
<1> SUFFICES ASSUME Init PROVE IInv
  OBVIOUS
<1>1. /\ BackupCount \in Nat \ {0} /\ Capacity \in Nat \ {0} /\ MaxRecords \in Nat
      /\ MaxFailures \in Nat
  BY TraceAssumption
<1>2. \A i \in Indexes : file[i] = Missing
  BY DEF Init
<1>3. lines = Missing /\ reading = -1 /\ \A w \in Writers : at[w] = Idle
  BY DEF Init, Missing
<1>4. file \in [Indexes -> Seq(Lines)]
  BY MissingIsFine DEF Init
<1>5. TypeOK
  BY <1>1, <1>4 DEF Init, TypeOK
<1>6. LockInv
  BY <1>3 DEF LockInv, Idle, ToAppend
<1>7. LogInOrder
  BY <1>1, <1>2, MissingIsFine DEF LogInOrder
<1>8. ReadInv
  BY <1>2, <1>3, MissingIsFine DEF ReadInv
<1>. QED
  BY <1>3, <1>5, <1>6, <1>7, <1>8, MissingIsFine DEF IInv, TailInOrder

\* However many processes emit, fail and die, the files hold the records in
\* order and within their size, and tail(), which takes no lock, returns them
\* in order.
THEOREM TraceInOrder == Spec => [](LogInOrder /\ TailInOrder)
<1>1. IInv => LogInOrder /\ TailInOrder
  BY DEF IInv
<1>. QED
  BY <1>1, InitStep, NextStep, PTL DEF Spec
-----------------------------------------------------------------------------
(* The migration *)

\* A redacted copy holds the records of the file, line by line.
LEMMA RedactedIsTheSame ==
    ASSUME NEW c \in Seq(Lines)
    PROVE  /\ Redacted(c) \in Seq(Lines) /\ Len(Redacted(c)) = Len(c)
           /\ Records(Redacted(c)) = Records(c)
           /\ Increasing(c) => Increasing(Redacted(c))
           /\ Redacted(c) = Missing => c = Missing
<1> DEFINE d == Redacted(c)
<1>1. /\ DOMAIN c = 1..Len(c) /\ Len(c) \in Nat
      /\ \A n \in 1..Len(c) : c[n] \in Lines
  OBVIOUS
<1>2. /\ DOMAIN d = 1..Len(c)
      /\ \A n \in 1..Len(c) : d[n] = [c[n] EXCEPT !.ended = TRUE]
  BY <1>1 DEF Redacted
<1>3. \A n \in 1..Len(c) : d[n] \in Lines /\ d[n].record = c[n].record
  BY <1>1, <1>2 DEF Lines
<1>4. d \in [1..Len(c) -> Lines]
  BY <1>1, <1>3 DEF Redacted
<1>5. d \in Seq(Lines) /\ Len(d) = Len(c)
  BY <1>1, <1>4, IsASeq, LenProperties
<1>6. Records(d) = Records(c)
  BY <1>1, <1>2, <1>3 DEF Records
<1>7. Increasing(c) => Increasing(d)
  BY <1>1, <1>2, <1>3 DEF Increasing
<1>8. d = Missing => c = Missing
  BY <1>1, <1>5, EmptySeq DEF Missing
<1>. QED
  BY <1>5, <1>6, <1>7, <1>8

\* Whoever deletes files, or writes them again with the records they hold,
\* leaves the order of the trace alone.
LEMMA FilesStep ==
    ASSUME IInv, UNCHANGED <<holder, at, emitted, reading, lines, broken, short>>,
           file' \in [Indexes -> Seq(Lines)],
           \A i \in Indexes :
               \/ file'[i] = Missing
               \/ file'[i] = file[i]
               \/ file'[i] = Redacted(file[i])
    PROVE  IInv'
<1>1. /\ BackupCount \in Nat \ {0} /\ Capacity \in Nat \ {0} /\ 0 \in Indexes
      /\ file \in [Indexes -> Seq(Lines)]
  BY TraceAssumption DEF Indexes, IInv, TypeOK
<1>2. ASSUME NEW i \in Indexes
      PROVE  /\ Increasing(file'[i]) /\ Len(file'[i]) <= Capacity
             /\ Len(file[i]) < Capacity => Len(file'[i]) < Capacity
             /\ Records(file'[i]) \subseteq Records(file[i])
  <2>1. file[i] \in Seq(Lines) /\ Increasing(file[i]) /\ Len(file[i]) <= Capacity
    BY <1>1 DEF IInv, LogInOrder
  <2>2. CASE file'[i] = Missing
    BY <2>2, <1>1, MissingIsFine DEF Records
  <2>3. CASE file'[i] = file[i]
    BY <2>1, <2>3
  <2>4. CASE file'[i] = Redacted(file[i])
    BY <2>1, <2>4, RedactedIsTheSame
  <2>. QED
    BY <2>2, <2>3, <2>4
<1>3. TypeOK'
  BY DEF IInv, TypeOK
<1>4. LockInv'
  BY <1>1, <1>2 DEF IInv, LockInv
<1>5. LogInOrder'
  <2>1. \A i, j \in Indexes : i < j => OlderThan(file'[j], file'[i])
    BY <1>2 DEF IInv, LogInOrder, OlderThan
  <2>. QED
    BY <1>2, <2>1 DEF LogInOrder
<1>6. ReadInv'
  <2>1. \A i \in Indexes : UpTo(file'[i], emitted)
    BY <1>2 DEF IInv, ReadInv, UpTo
  <2>2. \A i \in Indexes : i <= reading => OlderThan(lines, file'[i])
    BY <1>2 DEF IInv, ReadInv, OlderThan
  <2>. QED
    BY <2>1, <2>2 DEF IInv, ReadInv
<1>. QED
  BY <1>3, <1>4, <1>5, <1>6 DEF IInv, TailInOrder

OnDisk == UNION {Records(file[i]) : i \in Indexes}

\* How far the migration is.  While it redacts, its list is the files there are,
\* and until it has begun what it has found is still there; from the check on
\* no exact route is left; the route is saved, then attested.
MigrationInv ==
    /\ exact \subseteq OnDisk
    /\ step \in {"none", "redact", "save", "attest", "remove", "scan"}
    /\ step # "none" => artifacts # {}
    /\ step = "redact" =>
          /\ \A i \in Indexes : file[i] # Missing => i \in artifacts
          /\ todo \subseteq artifacts
          /\ todo = artifacts /\ found => routeFile = "real" \/ exact # {}
    /\ step = "save" => todo = {}
    /\ step \in {"save", "attest", "remove", "scan"} => exact = {}
    /\ step \in {"attest", "remove", "scan"} => routeFile = "real"
    /\ step \in {"remove", "scan"} => attested # "none"
    /\ step = "scan" => attested = "final"

MInv == IInv /\ MigrationInv

\* A step of the migration.
LEMMA MigrationKeeps ==
    ASSUME MInv, MigrationStep, UNCHANGED <<holder, at, emitted, reading, lines, broken, short>>
    PROVE  MInv'
<1>1. /\ BackupCount \in Nat \ {0} /\ 0 \in Indexes
      /\ file \in [Indexes -> Seq(Lines)] /\ IInv /\ MigrationInv
  BY TraceAssumption DEF Indexes, MInv, IInv, TypeOK
<1>2. CASE Begin
  <2>1. UNCHANGED file /\ UNCHANGED exact
    BY <1>2 DEF Begin
  <2>2. IInv'
    BY <2>1, <1>1, FilesStep
  <2>3. MigrationInv'
    <3>1. OnDisk' = OnDisk /\ exact \subseteq OnDisk
      BY <1>1, <2>1 DEF MigrationInv, OnDisk
    <3>2. CASE step' = "none"
      BY <2>1, <3>1, <3>2 DEF MigrationInv
    <3>3. CASE step' = "redact"
      <4>1. /\ artifacts' = {i \in Indexes : file[i] # Missing} /\ artifacts' # {}
            /\ todo' = artifacts' /\ UNCHANGED <<file, exact, routeFile>>
            /\ found' => routeFile = "real" \/ exact # {}
        BY <1>2, <3>3 DEF Begin
      <4>. QED
        BY <3>1, <3>3, <4>1 DEF MigrationInv
    <3>. QED
      BY <1>2, <3>2, <3>3 DEF Begin
  <2>. QED
    BY <2>2, <2>3 DEF MInv
<1>3. ASSUME NEW i \in Indexes, Redact(i) PROVE MInv'
  <2>1. /\ file' = [file EXCEPT ![i] = Redacted(file[i])]
        /\ file[i] \in Seq(Lines)
    BY <1>1, <1>3 DEF Redact
  <2>2. /\ file' \in [Indexes -> Seq(Lines)] /\ file'[i] = Redacted(file[i])
        /\ \A j \in Indexes \ {i} : file'[j] = file[j]
        /\ \A j \in Indexes : Records(file'[j]) = Records(file[j])
        /\ \A j \in Indexes : file'[j] # Missing => file[j] # Missing
    <3>1. /\ Redacted(file[i]) \in Seq(Lines)
          /\ Records(Redacted(file[i])) = Records(file[i])
          /\ Len(Redacted(file[i])) = Len(file[i])
      BY <2>1, RedactedIsTheSame
    <3>2. file[i] = Missing => Redacted(file[i]) = Missing
      BY <3>1, EmptySeq DEF Missing
    <3>. QED
      BY <1>1, <2>1, <3>1, <3>2
  <2>3. IInv'
    BY <2>2, <1>1, FilesStep
  <2>4. (exact \subseteq OnDisk)'
    <3>1. exact' \subseteq exact /\ OnDisk' = OnDisk
      BY <1>3, <2>2 DEF Redact, OnDisk
    <3>. QED
      BY <3>1, <1>1 DEF MigrationInv
  <2>5. /\ step = "redact" /\ i \in todo /\ todo' = todo \ {i}
        /\ UNCHANGED <<routeFile, found, step, artifacts, attested>>
    BY <1>3 DEF Redact
  <2>6. MigrationInv'
    BY <1>1, <2>2, <2>4, <2>5 DEF MigrationInv
  <2>. QED
    BY <2>3, <2>6 DEF MInv
<1>4. ASSUME NEW i \in Indexes, RemoveBackup(i) PROVE MInv'
  <2>1. /\ step = "remove" /\ exact = {} /\ exact' = {}
        /\ file' = [file EXCEPT ![i] = Missing]
    BY <1>1, <1>4 DEF RemoveBackup, MigrationInv
  <2>2. /\ file' \in [Indexes -> Seq(Lines)]
        /\ \A j \in Indexes : file'[j] = Missing \/ file'[j] = file[j]
    BY <1>1, <2>1, MissingIsFine
  <2>3. IInv'
    BY <2>2, <1>1, FilesStep
  <2>4. MigrationInv'
    BY <1>1, <1>4 DEF RemoveBackup, MigrationInv
  <2>. QED
    BY <2>3, <2>4 DEF MInv
<1>5. CASE AllRedacted \/ SaveRoute \/ Attest \/ AttestAgain \/ Scan \/ RunEnds
  <2>1. UNCHANGED <<file, exact, artifacts>>
    BY <1>5 DEF AllRedacted, SaveRoute, Attest, AttestAgain, Scan, RunEnds
  <2>2. IInv'
    BY <2>1, <1>1, FilesStep
  <2>3. AllRedacted => exact = {}
    <3> SUFFICES ASSUME AllRedacted, NEW r \in exact PROVE FALSE
      OBVIOUS
    <3>1. PICK i \in Indexes : r \in Records(file[i])
      BY <1>1 DEF MigrationInv, OnDisk
    <3>2. i \in artifacts
      BY <1>1, <3>1 DEF AllRedacted, From, MigrationInv, Missing, Records
    <3>. QED
      BY <3>1, <3>2 DEF AllRedacted, Exact
  <2>4. OnDisk' = OnDisk
    BY <2>1 DEF OnDisk, Records, Indexes
  <2>5. MigrationInv'
    BY <1>1, <2>1, <2>3, <2>4 DEF MigrationInv, From, AllRedacted, SaveRoute, Attest, AttestAgain,
           Scan, RunEnds
  <2>. QED
    BY <2>2, <2>5 DEF MInv
<1>. QED
  BY <1>2, <1>3, <1>4, <1>5 DEF MigrationStep

LEMMA MigrationNextStep == MInv /\ [MigrationNext]_<<vars, migration>> => MInv'
<1> SUFFICES ASSUME MInv, [MigrationNext]_<<vars, migration>> PROVE MInv'
  OBVIOUS
<1>1. CASE MigrationStep /\ UNCHANGED <<holder, at, emitted, reading, lines, broken, short>>
  BY <1>1, MigrationKeeps
<1>2. ASSUME step = "none", NEW w \in Writers, EmitStepOn(w),
             UNCHANGED <<routeFile, found, step, artifacts, todo, attested, outcome, cut, runs>>
      PROVE  MInv'
  <2>1. IInv'
    BY <1>2, NextStep DEF EmitStepOn, Next, MInv
  <2>2. MigrationInv'
    BY <1>2 DEF EmitStepOn, MigrationInv, OnDisk
  <2>. QED
    BY <2>1, <2>2 DEF MInv
<1>3. CASE TailStep /\ UNCHANGED migration
  <2>1. IInv' /\ UNCHANGED file
    BY <1>3, NextStep DEF Next, MInv, TailStep, StartTail, ReadNext
  <2>2. MigrationInv'
    BY <1>3, <2>1 DEF migration, MigrationInv, OnDisk, MInv
  <2>. QED
    BY <2>1, <2>2 DEF MInv
<1>4. CASE UNCHANGED <<vars, migration>>
  <2>1. IInv' /\ UNCHANGED file
    BY <1>4, NextStep DEF vars, MInv
  <2>2. MigrationInv'
    BY <1>4, <2>1 DEF migration, MigrationInv, OnDisk, MInv
  <2>. QED
    BY <2>1, <2>2 DEF MInv
<1>. QED
  BY <1>1, <1>2, <1>3, <1>4 DEF MigrationNext

LEMMA MigrationInitStep == MigrationInit => MInv
<1> SUFFICES ASSUME MigrationInit PROVE MInv
  OBVIOUS
<1>1. /\ BackupCount \in Nat \ {0} /\ Capacity \in Nat /\ MaxRecords \in Nat
      /\ MaxFailures \in Nat /\ Capacity >= 2 /\ MaxRecords >= 3
      /\ 0 \in Indexes /\ 1 \in Indexes
  BY TraceAssumption, MigrationAssumption DEF Indexes
<1>2. /\ file[0] = <<Line(3)>> /\ file[1] = <<Line(1), Line(2)>>
      /\ \A i \in Indexes \ {0, 1} : file[i] = Missing
      /\ DOMAIN file = Indexes
  BY <1>1 DEF MigrationInit, Missing
<1>3. Line(1) \in Lines /\ Line(2) \in Lines /\ Line(3) \in Lines
  BY <1>1 DEF Line, Lines
<1>4. /\ file[0] \in Seq(Lines) /\ Len(file[0]) = 1 /\ Records(file[0]) = {3}
      /\ Increasing(file[0])
  BY <1>2, <1>3 DEF Records, Increasing, Line
<1>5. /\ file[1] \in Seq(Lines) /\ Len(file[1]) = 2 /\ Records(file[1]) = {1, 2}
      /\ Increasing(file[1])
  BY <1>2, <1>3 DEF Records, Increasing, Line
<1>6. file \in [Indexes -> Seq(Lines)]
  BY <1>4, <1>5, MissingIsFine DEF MigrationInit
<1>7. /\ lines = Missing /\ reading = -1 /\ emitted = 3
      /\ \A w \in Writers : at[w] = Idle
  BY DEF MigrationInit, Missing
<1>8. TypeOK
  BY <1>1, <1>6 DEF MigrationInit, TypeOK
<1>9. LockInv
  BY <1>7 DEF LockInv, Idle, ToAppend
<1>10. LogInOrder
  <2>1. \A i \in Indexes : Increasing(file[i]) /\ Len(file[i]) <= Capacity
    BY <1>1, <1>2, <1>4, <1>5, MissingIsFine
  <2>2. ASSUME NEW i \in Indexes, NEW j \in Indexes, i < j PROVE OlderThan(file[j], file[i])
    <3>1. CASE i = 0 /\ j = 1
      BY <3>1, <1>4, <1>5 DEF OlderThan
    <3>2. CASE ~(i = 0 /\ j = 1)
      <4>1. j \notin {0, 1}
        BY <2>2, <3>2 DEF Indexes
      <4>. QED
        BY <4>1, <1>2, MissingIsFine
    <3>. QED
      BY <3>1, <3>2
  <2>. QED
    BY <2>1, <2>2 DEF LogInOrder
<1>11. ReadInv
  <2>1. \A i \in Indexes : UpTo(file[i], emitted)
    <3>1. UpTo(file[0], 3) /\ UpTo(file[1], 3)
      BY <1>4, <1>5 DEF UpTo
    <3>. QED
      BY <3>1, <1>2, <1>7, MissingIsFine
  <2>. QED
    BY <2>1, <1>7, MissingIsFine DEF ReadInv
<1>12. MigrationInv
  <2>1. OnDisk = 1..3
    <3>1. Records(file[0]) \cup Records(file[1]) = 1..3
      BY <1>4, <1>5
    <3>2. \A i \in Indexes : Records(file[i]) \subseteq 1..3
      BY <3>1, <1>2, MissingIsFine DEF Missing, Records
    <3>. QED
      BY <3>1, <3>2, <1>1 DEF OnDisk
  <2>. QED
    BY <2>1, MigrationAssumption DEF MigrationInit, MigrationInv
<1>. QED
  BY <1>7, <1>8, <1>9, <1>10, <1>11, <1>12, MissingIsFine DEF MInv, IInv, TailInOrder

\* What the migration knows at each of its steps holds, wherever earlier runs
\* were cut off.
THEOREM MigrationInvariant == MigrationSpec => []MInv
  BY MigrationInitStep, MigrationNextStep, PTL DEF MigrationSpec

\* The trace keeps its order, on disk and as tail() returns it, although the
\* migration rewrites and deletes files under it.
THEOREM OrderSurvivesMigration == MigrationSpec => [](LogInOrder /\ TailInOrder)
<1>1. MInv => LogInOrder /\ TailInOrder
  BY DEF MInv, IInv
<1>. QED
  BY <1>1, MigrationInvariant, PTL

\* No backup goes, and no run says "ok", before every exact route is gone, the
\* real one is back and the attestation written; whatever was cut off before.
THEOREM MigrationOrder == MigrationSpec => MigratesInOrder
<1> DEFINE Ordered ==
      /\ step # "none" /\ (\E i \in Indexes : file[i] # Missing /\ file'[i] = Missing) =>
            exact = {} /\ routeFile = "real" /\ attested # "none"
      /\ outcome' = "ok" /\ outcome # "ok" =>
            /\ exact = {} /\ routeFile = "real" /\ attested = "final"
            /\ \A i \in Indexes \ {0} : file[i] = Missing
<1>1. ASSUME MInv, [MigrationNext]_<<vars, migration>>
      PROVE  [Ordered]_<<vars, migration>>
  <2>1. MigrationInv /\ file \in [Indexes -> Seq(Lines)]
    BY <1>1 DEF MInv, IInv, TypeOK
  <2>2. CASE UNCHANGED <<file, outcome>>
    BY <2>2 DEF Indexes
  <2>3. ASSUME NEW i \in Indexes, Redact(i)
        PROVE  Ordered
    <3>1. /\ file' = [file EXCEPT ![i] = Redacted(file[i])] /\ outcome' = outcome
          /\ file[i] \in Seq(Lines)
      BY <2>1, <2>3 DEF Redact
    <3>2. \A j \in Indexes : file'[j] = Missing => file[j] = Missing
      BY <2>1, <3>1, RedactedIsTheSame
    <3>. QED
      BY <3>1, <3>2
  <2>4. ASSUME NEW i \in Indexes, RemoveBackup(i)
        PROVE  Ordered
    BY <2>1, <2>4 DEF RemoveBackup, MigrationInv
  <2>5. CASE Begin \/ AllRedacted \/ SaveRoute \/ Attest \/ AttestAgain \/ RunEnds
    BY <2>5 DEF Begin, AllRedacted, SaveRoute, Attest, AttestAgain, RunEnds
  <2>6. CASE Scan
    BY <2>1, <2>6 DEF Scan, From, MigrationInv
  <2>7. CASE step = "none" /\ outcome' = outcome
    BY <2>7
  <2>. QED
    BY <1>1, <2>3, <2>4, <2>5, <2>6 DEF MigrationNext, MigrationStep, TailStep, StartTail, ReadNext,
           migration
<1>. QED
  BY <1>1, MigrationInvariant, PTL DEF MigrationSpec, MigratesInOrder

\* A run that found the real route leaves it on disk, in the route file or in
\* the trace, unless it was cut off between redacting and saving.
THEOREM RouteIsNotLost == MigrationSpec => RouteSurvives
<1> DEFINE Survives ==
      found /\ step # "none" /\ step' = "none" /\ ~cut' => routeFile' = "real" \/ exact' # {}
<1>1. ASSUME MInv, [MigrationNext]_<<vars, migration>>
      PROVE  [Survives]_<<vars, migration>>
  <2> SUFFICES ASSUME found, step # "none", step' = "none", ~cut'
               PROVE  routeFile' = "real" \/ exact' # {}
    OBVIOUS
  <2>1. MigrationInv
    BY <1>1 DEF MInv
  <2>2. Scan \/ RunEnds
    BY <1>1 DEF MigrationNext, MigrationStep, migration, From, Begin, Redact, AllRedacted,
           SaveRoute, Attest, RemoveBackup, AttestAgain
  <2>3. CASE Scan
    BY <2>1, <2>3 DEF Scan, From, MigrationInv
  <2>4. CASE RunEnds
    <3>1. step \in {"redact", "save"} => todo = artifacts
      BY <2>4 DEF RunEnds
    <3>. QED
      BY <2>1, <2>4 DEF RunEnds, MigrationInv
  <2>. QED
    BY <2>2, <2>3, <2>4
<1>. QED
  BY <1>1, MigrationInvariant, PTL DEF MigrationSpec, RouteSurvives
-----------------------------------------------------------------------------
(* Where every record is *)

Size(i) == Len(file[i])

\* Something older than the file i was written: it is behind i or deleted.
Older(lost, i) == lost > 0 \/ \E j \in Indexes : j > i /\ Size(j) > 0

\* The name a rotation under way has moved a file from and not yet to.
Vacated(i) == \E w \in Writers : at[w] \in 0..(BackupCount - 1) /\ i = at[w] + 1

Holes(lost) == {i \in 1..BackupCount : Size(i) = 0 /\ Older(lost, i) /\ ~Vacated(i)}

\* The first lost lines ever written are deleted.  All others are in the files:
\* a file holds the lines that follow the first[i] ones before it.
Placed(lost, first) ==
    /\ \A i \in Indexes : Size(i) > 0 => lost <= first[i] /\ first[i] + Size(i) <= emitted
    /\ Size(0) > 0 => first[0] + Size(0) = emitted
    /\ \A i, j \in Indexes : i < j /\ Size(i) > 0 /\ Size(j) > 0 => first[j] + Size(j) <= first[i]
    /\ \A e \in (lost + 1)..emitted : \E i \in Indexes : e - first[i] \in 1..Size(i)

\* A line can be read unless it is spoilt.  A short write spoils two at most: its
\* own and, as long as the file is the newest, the next.
Spoilt(first, bad) ==
    /\ \A i \in Indexes : \A n \in 1..Size(i) :
         file[i][n].record = first[i] + n \/ first[i] + n \in bad
    /\ Cardinality(bad) <= 2 * short
    /\ Size(0) > 0 /\ ~Last(file[0]).ended => Cardinality(bad) < 2 * short

\* Only a full file is rotated, and each hole is the work of an emit that failed.
Rotating(lost) ==
    /\ \A i \in Indexes : Vacated(i) => Size(i) = 0
    /\ \A w \in Writers : at[w] \in Indexes => Size(0) = Capacity
    /\ \A i \in Indexes \ {0} : Size(i) > 0 /\ Older(lost, i) => Size(i) = Capacity
    /\ Cardinality(Holes(lost)) <= broken

Accounted(lost, first, bad) ==
    /\ lost \in 0..emitted /\ first \in [Indexes -> Nat] /\ bad \in SUBSET (1..emitted)
    /\ Placed(lost, first) /\ Spoilt(first, bad) /\ Rotating(lost)

Account == \E lost, first, bad : Accounted(lost, first, bad)

\* The types the account needs.
LEMMA Sizes ==
    ASSUME IInv
    PROVE  /\ BackupCount \in Nat \ {0} /\ Capacity \in Nat \ {0} /\ 0 \in Indexes
           /\ file \in [Indexes -> Seq(Lines)]
           /\ emitted \in Nat /\ broken \in Nat /\ short \in Nat
           /\ \A i \in Indexes : /\ Size(i) \in Nat /\ Size(i) <= Capacity
                                 /\ Size(i) = 0 <=> file[i] = Missing
<1>1. /\ BackupCount \in Nat \ {0} /\ Capacity \in Nat \ {0} /\ 0 \in Indexes
      /\ MaxRecords \in Nat /\ MaxFailures \in Nat
  BY TraceAssumption DEF Indexes
<1>2. /\ file \in [Indexes -> Seq(Lines)]
      /\ emitted \in 0..MaxRecords /\ broken \in 0..MaxFailures /\ short \in 0..MaxFailures
  BY DEF IInv, TypeOK
<1>3. ASSUME NEW i \in Indexes
      PROVE  Size(i) \in Nat /\ Size(i) <= Capacity /\ (Size(i) = 0 <=> file[i] = Missing)
  <2>1. file[i] \in Seq(Lines) /\ Len(file[i]) <= Capacity
    BY <1>2 DEF IInv, LogInOrder
  <2>. QED
    BY <2>1, EmptySeq DEF Size, Missing
<1>. QED
  BY <1>1, <1>2, <1>3

\* Holes can be counted.
LEMMA HolesAreFew ==
    ASSUME BackupCount \in Nat
    PROVE  \A lost : IsFiniteSet(Holes(lost)) /\ Cardinality(Holes(lost)) \in Nat
<1>1. IsFiniteSet(1..BackupCount)
  BY FS_Interval
<1> SUFFICES ASSUME NEW lost PROVE IsFiniteSet(Holes(lost)) /\ Cardinality(Holes(lost)) \in Nat
  OBVIOUS
<1>2. Holes(lost) \in SUBSET (1..BackupCount)
  BY DEF Holes
<1>. QED
  BY <1>1, <1>2, FS_Subset, FS_CardinalityType

\* One element for another.
LEMMA Exchange ==
    ASSUME NEW S, IsFiniteSet(S), NEW x \in S, NEW y, y \notin S
    PROVE  Cardinality((S \ {x}) \cup {y}) = Cardinality(S)
<1>1. IsFiniteSet(S \ {x}) /\ Cardinality(S \ {x}) = Cardinality(S) - 1
  BY FS_RemoveElement
<1>2. Cardinality((S \ {x}) \cup {y}) = Cardinality(S \ {x}) + 1
  BY <1>1, FS_AddElement
<1>3. Cardinality(S) \in Nat
  BY FS_CardinalityType
<1>. QED
  BY <1>1, <1>2, <1>3

\* The same lines in the same files: nothing to account for.
LEMMA SameLines ==
    ASSUME IInv, NEW lost, NEW first, NEW bad, Accounted(lost, first, bad),
           UNCHANGED <<at, emitted, broken, short>>,
           \A i \in Indexes :
               /\ Size(i)' = Size(i)
               /\ \A n \in 1..Size(i) : file'[i][n].record = file[i][n].record,
           Size(0) > 0 => Last(file'[0]).ended \/ file'[0] = file[0]
    PROVE  Accounted(lost, first, bad)'
<1>. USE DEF Accounted
<1>1. 0 \in Indexes
  BY Sizes
<1>2. Placed(lost, first)'
  BY <1>1 DEF Placed
<1>3. Spoilt(first, bad)'
  BY <1>1 DEF Spoilt
<1>4. /\ \A i : Vacated(i)' = Vacated(i)
      /\ \A i \in Indexes : Older(lost, i)' = Older(lost, i)
  BY DEF Vacated, Older
<1>5. Holes(lost)' = Holes(lost)
  BY <1>4 DEF Holes, Indexes
<1>6. Rotating(lost)'
  BY <1>1, <1>4, <1>5 DEF Rotating
<1>. QED
  BY <1>2, <1>3, <1>6

\* No rotation is under way where nobody emits or somebody appends.
LEMMA NoRotation ==
    ASSUME \A w \in Writers : at[w] \in {Idle, ToAppend, BackupCount}, BackupCount \in Nat
    PROVE  \A i : ~Vacated(i)
  BY DEF Vacated, Idle, ToAppend

LEMMA LockAccounts ==
    ASSUME IInv, NEW w \in Writers, Lock(w), NEW lost, NEW first, NEW bad,
           Accounted(lost, first, bad)
    PROVE  Accounted(lost, first, bad)'
<1>. USE DEF Accounted
<1>1. UNCHANGED <<file, emitted, broken, short>> /\ 0 \in Indexes
  BY Sizes DEF Lock
<1>2. \A v \in Writers : at[v] = Idle
  BY TraceAssumption DEF Lock, IInv, LockInv
<1>3. /\ \A v \in Writers : at'[v] \in {Idle, ToAppend, BackupCount}
      /\ \A v \in Writers : at'[v] \in Indexes => Full
  <2>1. at' = [at EXCEPT ![w] = IF Full THEN BackupCount ELSE ToAppend]
    BY DEF Lock, GoTo
  <2>2. at \in [Writers -> Indexes \cup {ToAppend, Idle}]
    BY DEF IInv, TypeOK
  <2>3. Idle \notin Indexes /\ ToAppend \notin Indexes
    BY DEF Idle, ToAppend, Indexes
  <2>. QED
    BY <1>2, <2>1, <2>2, <2>3
<1>4. \A i : ~Vacated(i) /\ ~Vacated(i)'
  <2>1. BackupCount \in Nat
    BY Sizes
  <2>2. \A i : ~Vacated(i)
    BY <1>2, <2>1, NoRotation
  <2>3. \A i : ~Vacated(i)'
    BY <1>3, <2>1 DEF Vacated, Idle, ToAppend
  <2>. QED
    BY <2>2, <2>3
<1>5. /\ \A i \in Indexes : Size(i)' = Size(i) /\ Older(lost, i)' = Older(lost, i)
      /\ Holes(lost)' = Holes(lost)
  BY <1>1, <1>4 DEF Size, Older, Holes, Indexes
<1>6. Full => Size(0) = Capacity
  BY Sizes DEF Full, Size
<1>7. Placed(lost, first)'
  BY <1>1 DEF Placed, Size
<1>8. Spoilt(first, bad)'
  BY <1>1 DEF Spoilt, Size
<1>9. Rotating(lost)'
  BY <1>1, <1>3, <1>4, <1>5, <1>6 DEF Rotating
<1>. QED
  BY <1>1, <1>7, <1>8, <1>9

\* An emit that fails leaves one hole more at most.
LEMMA FailureAccounts ==
    ASSUME IInv, NEW w \in Writers, EmitFails(w), NEW lost, NEW first, NEW bad,
           Accounted(lost, first, bad)
    PROVE  Accounted(lost, first, bad)'
<1>. USE DEF Accounted
<1>1. UNCHANGED <<file, emitted, short>> /\ broken' = broken + 1 /\ 0 \in Indexes
  BY Sizes DEF EmitFails
<1>2. /\ \A v \in Writers : v # w => at[v] = Idle
      /\ \A v \in Writers : at'[v] = Idle
  BY DEF EmitFails, Release, GoTo, IInv, LockInv, TypeOK
<1>3. \A i : Vacated(i) => i = at[w] + 1
  BY <1>2 DEF Vacated, Idle
<1>4. \A i : ~Vacated(i)'
  BY <1>2 DEF Vacated, Idle
<1>5. \A i \in Indexes : Size(i)' = Size(i) /\ Older(lost, i)' = Older(lost, i)
  BY <1>1 DEF Size, Older, Indexes
<1>6. Cardinality(Holes(lost)') <= broken + 1
  <2>. DEFINE H == Holes(lost)
              x == at[w] + 1
              G == H \cup {x}
  <2>1. Holes(lost)' \in SUBSET G
    BY <1>3, <1>5 DEF Holes, Indexes
  <2>2. IsFiniteSet(H) /\ Cardinality(H) \in Nat /\ Cardinality(H) <= broken
    BY Sizes, HolesAreFew DEF Rotating
  <2>. HIDE DEF H, x
  <2>3. IsFiniteSet(G) /\ Cardinality(G) <= Cardinality(H) + 1
    BY <2>2, FS_AddElement
  <2>4. Cardinality(G) \in Nat
    BY <2>3, FS_CardinalityType
  <2>. HIDE DEF G
  <2>5. /\ Cardinality(Holes(lost)') <= Cardinality(G)
        /\ Cardinality(Holes(lost)') \in Nat
    BY <2>1, <2>3, FS_Subset, FS_CardinalityType
  <2>. QED
    BY <2>2, <2>3, <2>4, <2>5, Sizes
<1>7. Placed(lost, first)'
  BY <1>1 DEF Placed, Size
<1>8. Spoilt(first, bad)'
  BY <1>1 DEF Spoilt, Size
<1>9. Rotating(lost)'
  <2>1. \A v \in Writers : at'[v] \notin Indexes
    BY <1>2 DEF Idle, Indexes
  <2>. QED
    BY <1>1, <1>4, <1>5, <1>6, <2>1 DEF Rotating
<1>. QED
  BY <1>1, <1>7, <1>8, <1>9

\* A rotation deletes the oldest file: the lines up to its last are lost.
LEMMA DeletionAccounts ==
    ASSUME IInv, NEW w \in Writers, Shift(w), at[w] = BackupCount,
           NEW lost, NEW first, NEW bad, Accounted(lost, first, bad)
    PROVE  Account'
<1>0. PICK last : last = IF Size(BackupCount) > 0
                           THEN first[BackupCount] + Size(BackupCount) ELSE lost
  OBVIOUS
<1>1. /\ BackupCount \in Nat \ {0} /\ BackupCount \in Indexes /\ 0 \in Indexes /\ 0 # BackupCount
      /\ emitted \in Nat /\ first \in [Indexes -> Nat] /\ lost \in 0..emitted
      /\ \A i \in Indexes : Size(i) \in Nat
      /\ \A i \in Indexes : i # BackupCount => i < BackupCount
  BY Sizes DEF Accounted, Indexes
<1>2. /\ UNCHANGED <<emitted, broken, short>>
      /\ file' = [file EXCEPT ![BackupCount] = Missing] /\ at' = [at EXCEPT ![w] = BackupCount - 1]
  <2>1. UNCHANGED <<emitted, broken, short>> /\ at' = [at EXCEPT ![w] = BackupCount - 1]
    BY DEF Shift, GoTo
  <2>2. file' = [file EXCEPT ![BackupCount] = Missing]
    BY <1>1 DEF Shift
  <2>. QED
    BY <2>1, <2>2
<1>3. /\ Size(BackupCount)' = 0
      /\ \A i \in Indexes \ {BackupCount} : file'[i] = file[i] /\ Size(i)' = Size(i)
  BY <1>1, <1>2, Sizes, MissingIsFine DEF Size
<1>4. /\ \A v \in Writers : v # w => at[v] = Idle /\ at'[v] = Idle
      /\ at'[w] = BackupCount - 1
  <2>1. at \in [Writers -> Indexes \cup {ToAppend, Idle}] /\ at[w] # Idle
    BY <1>1 DEF IInv, TypeOK, Indexes, Idle
  <2>. QED
    BY <1>2, <2>1 DEF IInv, LockInv
<1>5. \A i : ~Vacated(i) /\ (Vacated(i)' <=> i = BackupCount)
  BY <1>1, <1>4 DEF Vacated, Idle
<1>6. /\ Placed(lost, first) /\ Spoilt(first, bad) /\ Rotating(lost) /\ bad \in SUBSET (1..emitted)
  BY DEF Accounted
<1>7. last \in 0..emitted /\ (Size(BackupCount) > 0 => last > 0)
  BY <1>0, <1>1, <1>6 DEF Placed
<1>8. Placed(last, first)'
  <2>1. ASSUME NEW i \in Indexes, Size(i)' > 0
        PROVE  last <= first[i] /\ first[i] + Size(i)' <= emitted'
    <3>a. i # BackupCount
      BY <2>1, <1>3
    <3>1. i # BackupCount /\ i < BackupCount /\ Size(i) > 0 /\ Size(i)' = Size(i)
      BY <2>1, <3>a, <1>1, <1>3
    <3>. QED
      BY <3>1, <1>0, <1>1, <1>2, <1>6 DEF Placed
  <2>2. (Size(0) > 0 => first[0] + Size(0) = emitted)'
    BY <1>1, <1>2, <1>3, <1>6 DEF Placed
  <2>3. (\A i, j \in Indexes : i < j /\ Size(i) > 0 /\ Size(j) > 0 =>
                                 first[j] + Size(j) <= first[i])'
    BY <1>1, <1>2, <1>3, <1>6 DEF Placed
  <2>4. ASSUME NEW e \in (last + 1)..emitted
        PROVE  \E i \in Indexes : e - first[i] \in 1..Size(i)'
    <3>1. e \in (lost + 1)..emitted
      BY <1>0, <1>1, <1>6 DEF Placed
    <3>2. PICK i \in Indexes : e - first[i] \in 1..Size(i)
      BY <3>1, <1>6 DEF Placed
    <3>3. i # BackupCount
      BY <3>2, <1>0, <1>1
    <3>. QED
      BY <3>2, <3>3, <1>3
  <2>. QED
    BY <2>1, <2>2, <2>3, <2>4, <1>2 DEF Placed
<1>9. Spoilt(first, bad)'
  <2>1. ASSUME NEW i \in Indexes, NEW n \in 1..Size(i)'
        PROVE  file'[i][n].record = first[i] + n \/ first[i] + n \in bad
    <3>1. i # BackupCount /\ file'[i] = file[i] /\ n \in 1..Size(i)
      BY <2>1, <1>1, <1>3
    <3>. QED
      BY <3>1, <1>6 DEF Spoilt
  <2>. QED
    BY <2>1, <1>1, <1>2, <1>3, <1>6 DEF Spoilt
<1>10. Rotating(last)'
  <2>1. \A i \in Indexes \ {BackupCount} : Older(last, i)' => Older(lost, i)
    <3> SUFFICES ASSUME NEW i \in Indexes, i # BackupCount, Older(last, i)' PROVE Older(lost, i)
      OBVIOUS
    <3>1. CASE lost > 0 \/ Size(BackupCount) > 0
      BY <3>1, <1>1 DEF Older
    <3>2. CASE ~(lost > 0 \/ Size(BackupCount) > 0)
      <4>1. ~(last > 0)
        BY <3>2, <1>0
      <4>2. PICK j \in Indexes : j > i /\ Size(j)' > 0
        BY <4>1 DEF Older
      <4>3. j # BackupCount
        BY <4>2, <1>3
      <4>. QED
        BY <4>2, <4>3, <1>3 DEF Older
    <3>. QED
      BY <3>1, <3>2
  <2>2. Holes(last)' \in SUBSET Holes(lost)
    BY <1>1, <1>3, <1>5, <2>1 DEF Holes, Indexes
  <2>3. Cardinality(Holes(last)') <= Cardinality(Holes(lost)) /\ Cardinality(Holes(last)') \in Nat
    BY <1>1, <2>2, HolesAreFew, FS_Subset, FS_CardinalityType
  <2>4. Cardinality(Holes(last)') <= broken
    BY <2>3, <1>1, <1>6, Sizes, HolesAreFew DEF Rotating
  <2>5. \A v \in Writers : (at[v] \in Indexes => Size(0) = Capacity)'
    BY <1>1, <1>3, <1>4, <1>6 DEF Rotating, Idle, Indexes
  <2>6. \A i \in Indexes \ {0} : (Size(i) > 0 /\ Older(last, i) => Size(i) = Capacity)'
    <3> SUFFICES ASSUME NEW i \in Indexes \ {0}, Size(i)' > 0, Older(last, i)'
                 PROVE  Size(i)' = Capacity
      OBVIOUS
    <3>1. i # BackupCount
      BY <1>3
    <3>. QED
      BY <3>1, <1>1, <1>3, <1>6, <2>1 DEF Rotating
  <2>. QED
    BY <1>2, <1>3, <1>5, <2>4, <2>5, <2>6 DEF Rotating
<1>11. Accounted(last, first, bad)'
  BY <1>1, <1>2, <1>6, <1>7, <1>8, <1>9, <1>10 DEF Accounted
<1>. QED
  BY <1>11 DEF Account

\* A rotation that moves a file vacates one name after the other.
LEMMA MovesOn ==
    ASSUME IInv, NEW w \in Writers, Shift(w), at[w] # BackupCount, NEW k, k = at[w]
    PROVE  /\ \A v \in Writers : v # w => at[v] = Idle /\ at'[v] = Idle
           /\ at'[w] = k - 1
           /\ \A i \in Indexes : (Vacated(i) <=> i = k + 1) /\ (Vacated(i)' <=> i = k /\ k # 0)
<1>1. BackupCount \in Nat \ {0}
  BY Sizes
<1>2. k \in Indexes /\ k < BackupCount /\ k \in 0..(BackupCount - 1)
  BY <1>1 DEF Shift, Indexes
<1>3. at' = [at EXCEPT ![w] = k - 1]
  BY DEF Shift, GoTo
<1>4. /\ \A v \in Writers : v # w => at[v] = Idle /\ at'[v] = Idle
      /\ at'[w] = k - 1
  <2>1. at \in [Writers -> Indexes \cup {ToAppend, Idle}] /\ at[w] # Idle
    BY <1>2 DEF IInv, TypeOK, Indexes, Idle
  <2>. QED
    BY <1>3, <2>1 DEF IInv, LockInv
<1>5. \A i \in Indexes : (Vacated(i) <=> i = k + 1) /\ (Vacated(i)' <=> i = k /\ k # 0)
  <2>1. \A v \in Writers : /\ at[v] \in 0..(BackupCount - 1) <=> v = w
                           /\ at'[v] \in 0..(BackupCount - 1) <=> v = w /\ k # 0
    <3> SUFFICES ASSUME NEW v \in Writers
                 PROVE  /\ at[v] \in 0..(BackupCount - 1) <=> v = w
                        /\ at'[v] \in 0..(BackupCount - 1) <=> v = w /\ k # 0
      OBVIOUS
    <3>1. CASE v = w
      <4>1. at[v] = k /\ at'[v] = k - 1
        BY <3>1, <1>4
      <4>2. k - 1 \in 0..(BackupCount - 1) <=> k # 0
        BY <1>1, <1>2
      <4>. QED
        BY <3>1, <4>1, <4>2, <1>2
    <3>2. CASE v # w
      BY <3>2, <1>1, <1>4 DEF Idle
    <3>. QED
      BY <3>1, <3>2
  <2>2. \A i \in Indexes : Vacated(i) <=> i = k + 1
    BY <2>1 DEF Vacated
  <2>3. \A i \in Indexes : Vacated(i)' <=> i = k /\ k # 0
    <3>1. (k - 1) + 1 = k
      BY <1>2 DEF Indexes
    <3>. QED
      BY <2>1, <3>1, <1>4 DEF Vacated
  <2>. QED
    BY <2>2, <2>3
<1>. QED
  BY <1>4, <1>5

\* A rotation moves a file on: the name it leaves is the next to be filled.
LEMMA MoveAccounts ==
    ASSUME IInv, NEW w \in Writers, Shift(w), at[w] # BackupCount, Size(at[w]) > 0,
           NEW lost, NEW first, NEW bad, Accounted(lost, first, bad)
    PROVE  Account'
<1>0. PICK k : k = at[w]
  OBVIOUS
<1>1. /\ BackupCount \in Nat \ {0} /\ 0 \in Indexes
      /\ emitted \in Nat /\ first \in [Indexes -> Nat] /\ lost \in 0..emitted
      /\ file \in [Indexes -> Seq(Lines)]
      /\ \A i \in Indexes : Size(i) \in Nat
  BY Sizes DEF Accounted
<1>2. /\ k \in Indexes /\ k + 1 \in Indexes /\ k < BackupCount /\ k \in 0..(BackupCount - 1)
      /\ k + 1 # 0 /\ k + 1 # k
  BY <1>0, <1>1 DEF Shift, Indexes
<1>3. UNCHANGED <<emitted, broken, short>> /\ at' = [at EXCEPT ![w] = k - 1]
  BY <1>0 DEF Shift, GoTo
<1>4. file' = [file EXCEPT ![k + 1] = file[k], ![k] = Missing]
  <2>1. file[k] # Missing
    BY <1>0, <1>2, Sizes
  <2>. QED
    BY <1>0, <1>1, <1>2, <2>1 DEF Shift
<1>5. /\ file'[k + 1] = file[k] /\ Size(k + 1)' = Size(k) /\ Size(k)' = 0
      /\ \A i \in Indexes \ {k, k + 1} : file'[i] = file[i] /\ Size(i)' = Size(i)
  BY <1>1, <1>2, <1>4, MissingIsFine DEF Size
<1>6. /\ \A v \in Writers : v # w => at[v] = Idle /\ at'[v] = Idle
      /\ at'[w] = k - 1
      /\ \A i \in Indexes : (Vacated(i) <=> i = k + 1) /\ (Vacated(i)' <=> i = k /\ k # 0)
  BY <1>0, MovesOn
<1>8. /\ Placed(lost, first) /\ Spoilt(first, bad) /\ Rotating(lost)
      /\ Size(k) > 0 /\ Size(k + 1) = 0 /\ bad \in SUBSET (1..emitted)
  BY <1>0, <1>2, <1>6 DEF Accounted, Rotating
<1>9. PICK now : now = [first EXCEPT ![k + 1] = first[k]]
  OBVIOUS
<1>10. /\ now \in [Indexes -> Nat] /\ now[k + 1] = first[k]
       /\ \A i \in Indexes \ {k + 1} : now[i] = first[i]
  BY <1>1, <1>2, <1>9
\* Where the lines of the file i were before.
<1>11. PICK old : old = [i \in Indexes |-> IF i = k + 1 THEN k ELSE i]
  OBVIOUS
<1>12. \A i \in Indexes : Size(i)' > 0 =>
          /\ i # k /\ old[i] \in Indexes /\ file'[i] = file[old[i]]
          /\ Size(i)' = Size(old[i]) /\ now[i] = first[old[i]]
          /\ (old[i] = i \/ (old[i] = k /\ i = k + 1))
  <2> SUFFICES ASSUME NEW i \in Indexes, Size(i)' > 0
               PROVE  /\ i # k /\ old[i] \in Indexes /\ file'[i] = file[old[i]]
                      /\ Size(i)' = Size(old[i]) /\ now[i] = first[old[i]]
                      /\ (old[i] = i \/ (old[i] = k /\ i = k + 1))
    OBVIOUS
  <2>1. i # k
    BY <1>5
  <2>2. CASE i = k + 1
    BY <2>1, <2>2, <1>2, <1>5, <1>10, <1>11
  <2>3. CASE i # k + 1
    BY <2>1, <2>3, <1>5, <1>10, <1>11
  <2>. QED
    BY <2>2, <2>3
<1>13. \A i \in Indexes : Size(i) > 0 =>
         \E j \in Indexes : /\ now[j] = first[i] /\ Size(j)' = Size(i)
                            /\ j = i \/ (i = k /\ j = k + 1)
  <2> SUFFICES ASSUME NEW i \in Indexes, Size(i) > 0
               PROVE  \E j \in Indexes : /\ now[j] = first[i] /\ Size(j)' = Size(i)
                                         /\ j = i \/ (i = k /\ j = k + 1)
    OBVIOUS
  <2>1. i # k + 1
    BY <1>8
  <2>2. CASE i = k
    BY <2>2, <1>2, <1>5, <1>10
  <2>3. CASE i # k
    BY <2>1, <2>3, <1>5, <1>10
  <2>. QED
    BY <2>2, <2>3
<1>14. Placed(lost, now)'
  <2>1. ASSUME NEW i \in Indexes, Size(i)' > 0
        PROVE  lost <= now[i] /\ now[i] + Size(i)' <= emitted'
    BY <2>1, <1>3, <1>8, <1>12 DEF Placed
  <2>2. Size(0)' > 0 => now[0] + Size(0)' = emitted'
    BY <1>1, <1>2, <1>3, <1>8, <1>12 DEF Placed
  <2>3. ASSUME NEW i \in Indexes, NEW j \in Indexes, i < j, Size(i)' > 0, Size(j)' > 0
        PROVE  now[j] + Size(j)' <= now[i]
    <3>1. old[i] < old[j]
      <4>1. i # k /\ j # k /\ (i = k + 1 => old[i] = k) /\ (j = k + 1 => old[j] = k)
            /\ (i # k + 1 => old[i] = i) /\ (j # k + 1 => old[j] = j)
        BY <2>3, <1>11, <1>12
      <4>. QED
        BY <2>3, <4>1, <1>2 DEF Indexes
    <3>2. /\ old[i] \in Indexes /\ old[j] \in Indexes
          /\ Size(old[i]) > 0 /\ Size(old[j]) > 0
          /\ now[i] = first[old[i]] /\ now[j] = first[old[j]] /\ Size(j)' = Size(old[j])
      BY <2>3, <1>12
    <3>. QED
      BY <3>1, <3>2, <1>8 DEF Placed
  <2>4. ASSUME NEW e \in (lost + 1)..emitted
        PROVE  \E i \in Indexes : e - now[i] \in 1..Size(i)'
    <3>1. PICK i \in Indexes : e - first[i] \in 1..Size(i)
      BY <1>8 DEF Placed
    <3>2. Size(i) > 0
      BY <3>1, <1>1
    <3>. QED
      BY <3>1, <3>2, <1>13
  <2>. QED
    BY <2>1, <2>2, <2>3, <2>4, <1>3 DEF Placed
<1>15. Spoilt(now, bad)'
  <2>1. ASSUME NEW i \in Indexes, NEW n \in 1..Size(i)'
        PROVE  file'[i][n].record = now[i] + n \/ now[i] + n \in bad
    <3>1. Size(i)' > 0
      <4>1. Size(i)' = 0 \/ Size(i)' > 0
        <5>1. CASE i = k
          BY <5>1, <1>5
        <5>2. CASE i = k + 1
          BY <5>2, <1>1, <1>2, <1>5
        <5>3. CASE i # k /\ i # k + 1
          BY <5>3, <1>1, <1>5
        <5>. QED
          BY <5>1, <5>2, <5>3
      <4>. QED
        BY <2>1, <4>1
    <3>2. /\ old[i] \in Indexes /\ file'[i] = file[old[i]] /\ n \in 1..Size(old[i])
          /\ now[i] = first[old[i]]
      BY <2>1, <3>1, <1>12
    <3>. QED
      BY <3>2, <1>8 DEF Spoilt
  <2>2. Size(0)' > 0 => file'[0] = file[0] /\ Size(0)' = Size(0)
    BY <1>1, <1>2, <1>5
  <2>. QED
    BY <2>1, <2>2, <1>3, <1>8 DEF Spoilt
<1>16. \A i \in Indexes \ {k} : Older(lost, i)' <=> Older(lost, i)
  <2> SUFFICES ASSUME NEW i \in Indexes, i # k, ~(lost > 0)
               PROVE  (\E j \in Indexes : j > i /\ Size(j)' > 0)
                        <=> (\E j \in Indexes : j > i /\ Size(j) > 0)
    BY DEF Older
  <2>1. ASSUME NEW j \in Indexes, j > i, Size(j)' > 0 PROVE old[j] > i /\ Size(old[j]) > 0
    BY <2>1, <1>2, <1>12 DEF Indexes
  <2>2. ASSUME NEW j \in Indexes, j > i, Size(j) > 0
        PROVE  \E m \in Indexes : m > i /\ Size(m)' > 0
    <3>1. PICK m \in Indexes : Size(m)' = Size(j) /\ (m = j \/ (j = k /\ m = k + 1))
      BY <2>2, <1>13
    <3>2. m > i
      BY <2>2, <3>1 DEF Indexes
    <3>. QED
      BY <2>2, <3>1, <3>2
  <2>. QED
    BY <2>1, <2>2, <1>12
<1>17. Rotating(lost)'
  <2>1. Holes(lost)' = Holes(lost)
    <3> SUFFICES ASSUME NEW i \in 1..BackupCount
                 PROVE  (Size(i)' = 0 /\ Older(lost, i)' /\ ~Vacated(i)')
                          <=> (Size(i) = 0 /\ Older(lost, i) /\ ~Vacated(i))
      BY <1>3 DEF Holes
    <3>0. i \in Indexes
      BY DEF Indexes
    <3>1. CASE i = k
      BY <3>0, <3>1, <1>1, <1>6, <1>8
    <3>2. CASE i = k + 1
      BY <3>0, <3>2, <1>5, <1>6, <1>8
    <3>3. CASE i # k /\ i # k + 1
      BY <3>0, <3>3, <1>5, <1>6, <1>16
    <3>. QED
      BY <3>1, <3>2, <3>3
  <2>2. \A i \in Indexes : Vacated(i)' => Size(i)' = 0
    BY <1>5, <1>6
  <2>3. \A v \in Writers : at'[v] \in Indexes => Size(0)' = Capacity
    <3>1. Size(0) = Capacity
      BY <1>0, <1>2, <1>8 DEF Rotating
    <3>2. ASSUME NEW v \in Writers, at'[v] \in Indexes PROVE 0 \notin {k, k + 1}
      BY <3>2, <1>2, <1>6 DEF Idle, Indexes
    <3>. QED
      BY <3>1, <3>2, <1>1, <1>5
  <2>4. ASSUME NEW i \in Indexes \ {0}, Size(i)' > 0, Older(lost, i)'
        PROVE  Size(i)' = Capacity
    <3>1. i # k /\ Older(lost, i)
      BY <2>4, <1>12, <1>16
    <3>2. CASE i = k + 1
      <4>1. Older(lost, k)
        BY <3>1, <3>2, <1>2 DEF Older, Indexes
      <4>2. Size(k) = Capacity
        BY <4>1, <1>0, <1>2, <1>8 DEF Rotating
      <4>. QED
        BY <3>2, <4>2, <1>5
    <3>3. CASE i # k + 1
      BY <2>4, <3>1, <3>3, <1>5, <1>8 DEF Rotating
    <3>. QED
      BY <3>2, <3>3
  <2>. QED
    BY <2>1, <2>2, <2>3, <2>4, <1>3, <1>8 DEF Rotating
<1>18. Accounted(lost, now, bad)'
  BY <1>1, <1>3, <1>8, <1>10, <1>14, <1>15, <1>17 DEF Accounted
<1>. QED
  BY <1>18 DEF Account

\* There is nothing to move: a hole moves on, if it is one.
LEMMA HoleAccounts ==
    ASSUME IInv, NEW w \in Writers, Shift(w), at[w] # BackupCount, Size(at[w]) = 0,
           NEW lost, NEW first, NEW bad, Accounted(lost, first, bad)
    PROVE  Accounted(lost, first, bad)'
<1>0. PICK k : k = at[w]
  OBVIOUS
<1>1. /\ BackupCount \in Nat \ {0} /\ Capacity \in Nat \ {0} /\ 0 \in Indexes
      /\ emitted \in Nat /\ \A i \in Indexes : Size(i) \in Nat
  BY Sizes
<1>2. /\ k \in Indexes /\ k + 1 \in Indexes /\ k < BackupCount /\ k \in 0..(BackupCount - 1)
      /\ k + 1 # 0 /\ k + 1 # k
  BY <1>0, <1>1 DEF Shift, Indexes
<1>3. UNCHANGED <<emitted, broken, short>> /\ at' = [at EXCEPT ![w] = k - 1]
  BY <1>0 DEF Shift, GoTo
<1>4. file' = file
  <2>1. file[k] = Missing
    BY <1>0, <1>2, Sizes
  <2>. QED
    BY <1>0, <1>1, <1>2, <2>1 DEF Shift
<1>5. \A i \in Indexes : Size(i)' = Size(i) /\ Older(lost, i)' = Older(lost, i)
  BY <1>4 DEF Size, Older, Indexes
<1>6. /\ \A v \in Writers : v # w => at[v] = Idle /\ at'[v] = Idle
      /\ at'[w] = k - 1
      /\ \A i \in Indexes : (Vacated(i) <=> i = k + 1) /\ (Vacated(i)' <=> i = k /\ k # 0)
  BY <1>0, MovesOn
<1>8. /\ Placed(lost, first) /\ Spoilt(first, bad) /\ Rotating(lost)
      /\ Size(k) = 0 /\ Size(k + 1) = 0 /\ k # 0 /\ Size(0) = Capacity
  BY <1>0, <1>1, <1>2, <1>6 DEF Accounted, Rotating
<1>9. Older(lost, k + 1) <=> Older(lost, k)
  <2>1. \A j \in Indexes : j > k <=> j = k + 1 \/ j > k + 1
    BY <1>2 DEF Indexes
  <2>. QED
    BY <2>1, <1>8 DEF Older
<1>10. Cardinality(Holes(lost)') <= broken
  <2>1. k \in 1..BackupCount /\ k + 1 \in 1..BackupCount /\ 1..BackupCount \subseteq Indexes
    BY <1>2, <1>8 DEF Indexes
  <2>2. Cardinality(Holes(lost)) <= broken
    BY <1>8 DEF Rotating
  <2>3. ASSUME NEW i \in 1..BackupCount, i # k, i # k + 1
        PROVE  i \in Holes(lost)' <=> i \in Holes(lost)
    BY <2>1, <2>3, <1>5, <1>6 DEF Holes
  <2>4. k \notin Holes(lost)' /\ k + 1 \notin Holes(lost)
    BY <2>1, <1>6, <1>8 DEF Holes
  <2>5. (k \in Holes(lost) <=> Older(lost, k)) /\ (k + 1 \in Holes(lost)' <=> Older(lost, k))
    BY <2>1, <1>2, <1>5, <1>6, <1>8, <1>9 DEF Holes
  <2>6. Holes(lost) \subseteq 1..BackupCount /\ Holes(lost)' \subseteq 1..BackupCount
    BY DEF Holes
  <2>7. CASE Older(lost, k)
    <3>1. Holes(lost)' = (Holes(lost) \ {k}) \cup {k + 1}
      BY <2>1, <2>3, <2>4, <2>5, <2>6, <2>7
    <3>. QED
      BY <3>1, <2>2, <2>4, <2>5, <2>7, <1>1, HolesAreFew, Exchange
  <2>8. CASE ~Older(lost, k)
    <3>1. Holes(lost)' = Holes(lost)
      BY <2>1, <2>3, <2>4, <2>5, <2>6, <2>8
    <3>. QED
      BY <3>1, <2>2
  <2>. QED
    BY <2>7, <2>8
<1>11. Placed(lost, first)'
  BY <1>3, <1>4, <1>8 DEF Placed, Size
<1>12. Spoilt(first, bad)'
  BY <1>3, <1>4, <1>8 DEF Spoilt, Size
<1>13. Rotating(lost)'
  <2>1. \A i \in Indexes \ {0} : Size(i) > 0 /\ Older(lost, i) => Size(i) = Capacity
    BY <1>8 DEF Rotating
  <2>2. \A i \in Indexes : Vacated(i)' => Size(i)' = 0
    BY <1>5, <1>6, <1>8
  <2>. QED
    BY <2>1, <2>2, <1>1, <1>3, <1>5, <1>8, <1>10 DEF Rotating
<1>. QED
  BY <1>3, <1>11, <1>12, <1>13 DEF Accounted

\* A line is appended: it has its place, whether it can be read or not.
LEMMA AppendAccounts ==
    ASSUME IInv, NEW w \in Writers, AppendRecord(w) \/ WriteShort(w),
           NEW lost, NEW first, NEW bad, Accounted(lost, first, bad)
    PROVE  Account'
<1>1. /\ BackupCount \in Nat \ {0} /\ 0 \in Indexes
      /\ file \in [Indexes -> Seq(Lines)] /\ file[0] \in Seq(Lines)
      /\ emitted \in Nat /\ short \in Nat /\ first \in [Indexes -> Nat] /\ lost \in 0..emitted
      /\ \A i \in Indexes : Size(i) \in Nat
  BY Sizes DEF Accounted
<1>2. /\ emitted' = emitted + 1 /\ broken' = broken /\ at' = [at EXCEPT ![w] = Idle]
      /\ at[w] = ToAppend
  BY DEF AppendRecord, WriteShort, Release, GoTo
<1>3. \A v \in Writers : at[v] \in {Idle, ToAppend} /\ at'[v] = Idle
  BY <1>2 DEF IInv, TypeOK, LockInv, ToAppend, Idle
<1>4. \A i : ~Vacated(i) /\ ~Vacated(i)'
  BY <1>3 DEF Vacated, Idle, ToAppend
<1>5. /\ Placed(lost, first) /\ Spoilt(first, bad) /\ Rotating(lost) /\ bad \in SUBSET (1..emitted)
  BY DEF Accounted
<1>6. IsFiniteSet(bad) /\ Cardinality(bad) \in Nat
  <2>1. IsFiniteSet(1..emitted)
    BY <1>1, FS_Interval
  <2>. QED
    BY <1>5, <2>1, FS_Subset, FS_CardinalityType
\* What is written, and what it spoils.
<1>7. PICK line :
        /\ file' = [file EXCEPT ![0] = Append(file[0], line)]
        /\ line.record \in {0, emitted + 1}
        /\ \/ line.record = emitted + 1 /\ line.ended /\ short' = short
           \/ /\ line.record = 0 /\ line.ended /\ short' = short
              /\ Size(0) > 0 /\ ~Last(file[0]).ended
           \/ line.record = 0 /\ short' = short + 1
  <2>1. file[0] # <<>> <=> Size(0) > 0
    BY <1>1, Sizes DEF Missing
  <2>2. CASE AppendRecord(w)
    <3>1. file' = [file EXCEPT ![0] = Written(file[0], Line(emitted + 1))] /\ short' = short
      BY <2>2 DEF AppendRecord
    <3>2. CASE Size(0) > 0 /\ ~Last(file[0]).ended
      <4>1. PICK l : l = [Line(emitted + 1) EXCEPT !.record = 0]
        OBVIOUS
      <4>2. l.record = 0 /\ l.ended
        BY <4>1 DEF Line
      <4>3. Written(file[0], Line(emitted + 1)) = Append(file[0], l)
        BY <2>1, <3>2, <4>1 DEF Written
      <4>. QED
        BY <3>1, <3>2, <4>2, <4>3
    <3>3. CASE ~(Size(0) > 0 /\ ~Last(file[0]).ended)
      <4>1. PICK l : l = Line(emitted + 1)
        OBVIOUS
      <4>2. l.record = emitted + 1 /\ l.ended
        BY <4>1 DEF Line
      <4>3. Written(file[0], Line(emitted + 1)) = Append(file[0], l)
        BY <2>1, <3>3, <4>1 DEF Written
      <4>. QED
        BY <3>1, <4>2, <4>3
    <3>. QED
      BY <3>2, <3>3
  <2>3. CASE WriteShort(w)
    <3>1. file' = [file EXCEPT ![0] = Written(file[0], Stump)] /\ short' = short + 1
      BY <2>3 DEF WriteShort
    <3>2. PICK l : l.record = 0 /\ Written(file[0], Stump) = Append(file[0], l)
      <4>1. Stump.record = 0 /\ [Stump EXCEPT !.record = 0].record = 0
        BY DEF Stump
      <4>. QED
        BY <4>1 DEF Written
    <3>. QED
      BY <3>1, <3>2
  <2>. QED
    BY <2>2, <2>3
<1>8. /\ file'[0] = Append(file[0], line) /\ Size(0)' = Size(0) + 1
      /\ file'[0][Size(0) + 1] = line /\ Last(file'[0]) = line
      /\ \A n \in 1..Size(0) : file'[0][n] = file[0][n]
      /\ \A i \in Indexes \ {0} : file'[i] = file[i] /\ Size(i)' = Size(i)
  <2>1. file'[0] = Append(file[0], line) /\ \A i \in Indexes \ {0} : file'[i] = file[i]
    BY <1>1, <1>7
  <2>2. /\ Len(Append(file[0], line)) = Len(file[0]) + 1
        /\ Append(file[0], line)[Len(file[0]) + 1] = line
        /\ \A n \in 1..Len(file[0]) : Append(file[0], line)[n] = file[0][n]
    BY <1>1
  <2>3. Last(file'[0]) = line
    BY <2>1, <2>2 DEF Last
  <2>. QED
    BY <2>1, <2>2, <2>3 DEF Size
<1>9. PICK now : now = [first EXCEPT ![0] = IF Size(0) = 0 THEN emitted ELSE first[0]]
  OBVIOUS
<1>10. /\ now \in [Indexes -> Nat] /\ now[0] + Size(0) = emitted
       /\ \A i \in Indexes \ {0} : now[i] = first[i]
       /\ Size(0) > 0 => now[0] = first[0]
  BY <1>1, <1>5, <1>9 DEF Placed
<1>11. PICK ill : ill = IF line.record = 0 THEN bad \cup {emitted + 1} ELSE bad
  OBVIOUS
<1>12. Placed(lost, now)'
  <2>1. ASSUME NEW i \in Indexes, Size(i)' > 0
        PROVE  lost <= now[i] /\ now[i] + Size(i)' <= emitted + 1
    <3>1. CASE i = 0 /\ Size(0) = 0
      BY <3>1, <1>1, <1>8, <1>10
    <3>2. CASE i = 0 /\ Size(0) > 0
      BY <3>2, <1>1, <1>5, <1>8, <1>10 DEF Placed
    <3>3. CASE i # 0
      BY <2>1, <3>3, <1>1, <1>5, <1>8, <1>10 DEF Placed
    <3>. QED
      BY <3>1, <3>2, <3>3, <1>1
  <2>2. now[0] + Size(0)' = emitted + 1
    BY <1>1, <1>8, <1>10
  <2>3. ASSUME NEW i \in Indexes, NEW j \in Indexes, i < j, Size(i)' > 0, Size(j)' > 0
        PROVE  now[j] + Size(j)' <= now[i]
    <3>1. j # 0 /\ now[j] = first[j] /\ Size(j)' = Size(j) /\ Size(j) > 0
      <4>1. j # 0
        BY <2>3 DEF Indexes
      <4>. QED
        BY <2>3, <4>1, <1>8, <1>10
    <3>2. CASE i = 0 /\ Size(0) = 0
      BY <3>1, <3>2, <1>1, <1>5, <1>10 DEF Placed
    <3>3. CASE i = 0 /\ Size(0) > 0
      BY <2>3, <3>1, <3>3, <1>5, <1>10 DEF Placed
    <3>4. CASE i # 0
      BY <2>3, <3>1, <3>4, <1>5, <1>8, <1>10 DEF Placed
    <3>. QED
      BY <3>2, <3>3, <3>4, <1>1
  <2>4. ASSUME NEW e \in (lost + 1)..(emitted + 1)
        PROVE  \E i \in Indexes : e - now[i] \in 1..Size(i)'
    <3>1. CASE e = emitted + 1
      <4>1. /\ now[0] \in Nat /\ Size(0) \in Nat /\ emitted \in Nat
            /\ now[0] + Size(0) = emitted
        BY <1>1, <1>10
      <4>2. e - now[0] = Size(0) + 1
        BY <3>1, <4>1
      <4>3. e - now[0] \in 1..Size(0)'
        BY <4>1, <4>2, <1>8
      <4>. QED
        BY <4>3, <1>1
    <3>2. CASE e # emitted + 1
      <4>0. e \in (lost + 1)..emitted
        BY <2>4, <3>2, <1>1
      <4>1. PICK i \in Indexes : e - first[i] \in 1..Size(i)
        BY <4>0, <1>5 DEF Placed
      <4>2. now[i] = first[i]
        BY <4>1, <1>1, <1>10
      <4>3. CASE i = 0
        BY <4>1, <4>2, <4>3, <1>1, <1>8
      <4>4. CASE i # 0
        BY <4>1, <4>2, <4>4, <1>8
      <4>. QED
        BY <4>3, <4>4
    <3>. QED
      BY <3>1, <3>2
  <2>. QED
    BY <2>1, <2>2, <2>3, <2>4, <1>2 DEF Placed
<1>13. ill \in SUBSET (1..emitted') /\ bad \subseteq ill
  BY <1>1, <1>2, <1>5, <1>11
<1>14. Spoilt(now, ill)'
  <2>1. ASSUME NEW i \in Indexes, NEW n \in 1..Size(i)'
        PROVE  file'[i][n].record = now[i] + n \/ now[i] + n \in ill
    <3>1. CASE i # 0
      BY <2>1, <3>1, <1>5, <1>8, <1>10, <1>13 DEF Spoilt
    <3>2. CASE i = 0 /\ n \in 1..Size(0)
      <4>0. Size(0) > 0
        BY <3>2, <1>1
      <4>1. now[0] = first[0] /\ file'[0][n] = file[0][n]
        BY <3>2, <4>0, <1>8, <1>10
      <4>2. file[0][n].record = first[0] + n \/ first[0] + n \in bad
        BY <3>2, <1>5 DEF Spoilt
      <4>. QED
        BY <3>2, <4>1, <4>2, <1>13
    <3>3. CASE i = 0 /\ n = Size(0) + 1
      <4>a. /\ now[0] \in Nat /\ Size(0) \in Nat /\ emitted \in Nat
            /\ now[0] + Size(0) = emitted
        BY <1>1, <1>10
      <4>b. now[0] + n = emitted + 1
        BY <3>3, <4>a
      <4>1. now[0] + n = emitted + 1 /\ file'[0][n] = line
        BY <3>3, <4>b, <1>8
      <4>2. line.record = emitted + 1 \/ emitted + 1 \in ill
        BY <1>7, <1>11
      <4>. QED
        BY <3>3, <4>1, <4>2
    <3>. QED
      BY <2>1, <3>1, <3>2, <3>3, <1>1, <1>8
  <2>2. /\ Cardinality(ill) <= 2 * short'
        /\ ~line.ended => Cardinality(ill) < 2 * short'
    <3>1. /\ Cardinality(bad) <= 2 * short
          /\ Size(0) > 0 /\ ~Last(file[0]).ended => Cardinality(bad) < 2 * short
      BY <1>5 DEF Spoilt
    <3>2. Cardinality(bad \cup {emitted + 1}) <= Cardinality(bad) + 1
          /\ Cardinality(bad \cup {emitted + 1}) \in Nat
      <4>1. /\ IsFiniteSet(bad \cup {emitted + 1})
            /\ Cardinality(bad \cup {emitted + 1}) =
                 IF emitted + 1 \in bad THEN Cardinality(bad) ELSE Cardinality(bad) + 1
        BY <1>6, FS_AddElement
      <4>. QED
        BY <4>1, <1>6
    <3>3. CASE line.record = emitted + 1 /\ line.ended /\ short' = short
      <4>1. ill = bad
        BY <3>3, <1>1, <1>11
      <4>. QED
        BY <3>1, <3>3, <4>1
    <3>4. CASE /\ line.record = 0 /\ line.ended /\ short' = short
               /\ Size(0) > 0 /\ ~Last(file[0]).ended
      BY <3>1, <3>2, <3>4, <1>1, <1>6, <1>11
    <3>5. CASE line.record = 0 /\ short' = short + 1
      BY <3>1, <3>2, <3>5, <1>1, <1>6, <1>11
    <3>. QED
      BY <3>3, <3>4, <3>5, <1>7
  <2>. QED
    BY <2>1, <2>2, <1>8 DEF Spoilt
<1>15. Rotating(lost)'
  <2>1. \A i \in Indexes : Older(lost, i)' = Older(lost, i)
    <3>1. \A i, j \in Indexes : j > i => Size(j)' = Size(j)
      BY <1>8 DEF Indexes
    <3>. QED
      BY <3>1 DEF Older
  <2>2. Holes(lost)' = Holes(lost)
    <3>1. \A i \in 1..BackupCount : Size(i)' = Size(i) /\ Older(lost, i)' = Older(lost, i)
      BY <2>1, <1>8 DEF Indexes
    <3>. QED
      BY <3>1, <1>4 DEF Holes
  <2>3. \A v \in Writers : at'[v] \notin Indexes
    BY <1>3 DEF Idle, Indexes
  <2>4. \A i \in Indexes \ {0} : (Size(i) > 0 /\ Older(lost, i) => Size(i) = Capacity)'
    BY <2>1, <1>5, <1>8 DEF Rotating
  <2>. QED
    BY <2>2, <2>3, <2>4, <1>2, <1>4, <1>5 DEF Rotating
<1>16. Accounted(lost, now, ill)'
  BY <1>1, <1>2, <1>10, <1>12, <1>13, <1>14, <1>15 DEF Accounted
<1>. QED
  BY <1>16 DEF Account

\* Every step of an emit keeps the account.
LEMMA EmitAccounts == IInv /\ Account /\ (\E w \in Writers : EmitStep(w)) => Account'
<1> SUFFICES ASSUME IInv, NEW lost, NEW first, NEW bad, Accounted(lost, first, bad),
                    NEW w \in Writers, EmitStep(w)
             PROVE  Account'
  BY DEF Account
<1>1. CASE Lock(w) \/ EmitFails(w)
  <2>1. Accounted(lost, first, bad)'
    BY <1>1, LockAccounts, FailureAccounts
  <2>. QED
    BY <2>1 DEF Account
<1>2. CASE Shift(w)
  <2>1. CASE at[w] = BackupCount
    BY <1>2, <2>1, DeletionAccounts
  <2>2. CASE at[w] # BackupCount /\ Size(at[w]) > 0
    BY <1>2, <2>2, MoveAccounts
  <2>3. CASE at[w] # BackupCount /\ Size(at[w]) = 0
    <3>1. Accounted(lost, first, bad)'
      BY <1>2, <2>3, HoleAccounts
    <3>. QED
      BY <3>1 DEF Account
  <2>4. Size(at[w]) > 0 \/ Size(at[w]) = 0
    BY <1>2, Sizes DEF Shift
  <2>. QED
    BY <2>1, <2>2, <2>3, <2>4
<1>3. CASE AppendRecord(w) \/ WriteShort(w)
  BY <1>3, AppendAccounts
<1>. QED
  BY <1>1, <1>2, <1>3 DEF EmitStep

\* tail() reads; nothing else changes.
LEMMA FilesAccount == IInv /\ Account /\ UNCHANGED <<file, at, emitted, broken, short>> => Account'
<1> SUFFICES ASSUME IInv, NEW lost, NEW first, NEW bad, Accounted(lost, first, bad),
                    UNCHANGED <<file, at, emitted, broken, short>>
             PROVE  Account'
  BY DEF Account
<1>1. \A i \in Indexes : Size(i)' = Size(i)
  BY DEF Size
<1>2. Accounted(lost, first, bad)'
  BY <1>1, SameLines
<1>. QED
  BY <1>2 DEF Account

\* Redacted copies hold the same lines.
LEMMA RedactAccounts ==
    ASSUME IInv, Account, NEW r \in Indexes, Redact(r),
           UNCHANGED <<at, emitted, broken, short>>
    PROVE  Account'
<1>1. file \in [Indexes -> Seq(Lines)] /\ 0 \in Indexes
  BY Sizes
<1>2. /\ file' = [file EXCEPT ![r] = Redacted(file[r])] /\ file[r] \in Seq(Lines)
  BY <1>1 DEF Redact
<1>3. /\ Len(Redacted(file[r])) = Len(file[r])
      /\ \A n \in 1..Len(file[r]) : /\ Redacted(file[r])[n].record = file[r][n].record
                                    /\ Redacted(file[r])[n].ended
  <2>1. Len(Redacted(file[r])) = Len(file[r]) /\ DOMAIN file[r] = 1..Len(file[r])
    BY <1>2, RedactedIsTheSame
  <2>2. \A n \in 1..Len(file[r]) : /\ file[r][n] \in Lines
                                   /\ Redacted(file[r])[n] = [file[r][n] EXCEPT !.ended = TRUE]
    BY <1>2, <2>1 DEF Redacted
  <2>3. \A n \in 1..Len(file[r]) : /\ Redacted(file[r])[n].record = file[r][n].record
                                   /\ Redacted(file[r])[n].ended
    BY <2>2 DEF Lines
  <2>. QED
    BY <2>1, <2>3
<1>4. /\ Size(r)' = Size(r) /\ file'[r] = Redacted(file[r])
      /\ \A i \in Indexes \ {r} : file'[i] = file[i] /\ Size(i)' = Size(i)
  BY <1>1, <1>2, <1>3 DEF Size
<1>5. /\ \A i \in Indexes : Size(i)' = Size(i)
      /\ \A i \in Indexes : \A n \in 1..Size(i) : file'[i][n].record = file[i][n].record
  BY <1>3, <1>4 DEF Size
<1>6. Size(0) > 0 => Last(file'[0]).ended \/ file'[0] = file[0]
  <2>1. CASE r = 0
    <3>1. Len(file'[0]) = Len(file[0]) /\ Len(file[0]) \in Nat
      BY <2>1, <1>2, <1>3, <1>4
    <3>2. Size(0) > 0 => Len(file[0]) \in 1..Len(file[0])
      BY <3>1 DEF Size
    <3>. QED
      BY <2>1, <3>1, <3>2, <1>3, <1>4 DEF Last
  <2>2. CASE r # 0
    BY <2>2, <1>1, <1>4
  <2>. QED
    BY <2>1, <2>2
<1>7. PICK lost, first, bad : Accounted(lost, first, bad)
  BY DEF Account
<1>8. Accounted(lost, first, bad)'
  BY <1>5, <1>6, <1>7, SameLines
<1>. QED
  BY <1>8 DEF Account

\* Nothing has been written yet.
LEMMA InitAccounts == Init => Account
<1> SUFFICES ASSUME Init PROVE Account
  OBVIOUS
<1>1. /\ BackupCount \in Nat \ {0} /\ Capacity \in Nat \ {0} /\ 0 \in Indexes
      /\ \A i \in Indexes : Size(i) = 0
  BY TraceAssumption, MissingIsFine DEF Init, Indexes, Size
<1>2. emitted = 0 /\ short = 0 /\ broken = 0 /\ \A w \in Writers : at[w] = Idle
  BY DEF Init
<1>3. PICK first : first = [i \in Indexes |-> 0]
  OBVIOUS
<1>4. Placed(0, first)
  BY <1>1, <1>2 DEF Placed
<1>5. Spoilt(first, {})
  BY <1>1, <1>2, FS_EmptySet DEF Spoilt
<1>6. Rotating(0)
  <2>1. \A i : ~Vacated(i)
    BY <1>2 DEF Vacated, Idle
  <2>2. Holes(0) = {}
    BY <1>1 DEF Holes, Older
  <2>. QED
    BY <1>1, <1>2, <2>1, <2>2, FS_EmptySet DEF Rotating, Idle, Indexes
<1>7. first \in [Indexes -> Nat]
  BY <1>3
<1>8. Accounted(0, first, {})
  BY <1>2, <1>4, <1>5, <1>6, <1>7 DEF Accounted
<1>. QED
  BY <1>8 DEF Account

\* The three records an early release left.
LEMMA HistoryAccounts == MigrationInit => Account
<1> SUFFICES ASSUME MigrationInit PROVE Account
  OBVIOUS
<1>1. /\ BackupCount \in Nat \ {0} /\ Capacity \in Nat \ {0} /\ 0 \in Indexes /\ 1 \in Indexes
  BY TraceAssumption DEF Indexes
<1>2. /\ file[0] = <<Line(3)>> /\ file[1] = <<Line(1), Line(2)>>
      /\ \A i \in Indexes \ {0, 1} : file[i] = Missing
  BY <1>1 DEF MigrationInit, Missing
<1>3. emitted = 3 /\ short = 0 /\ broken = 0 /\ \A w \in Writers : at[w] = Idle
  BY DEF MigrationInit
<1>4. Size(0) = 1 /\ Size(1) = 2 /\ \A i \in Indexes \ {0, 1} : Size(i) = 0
  BY <1>2, MissingIsFine DEF Size
<1>5. PICK first : first = [i \in Indexes |-> IF i = 0 THEN 2 ELSE 0]
  OBVIOUS
<1>6. first \in [Indexes -> Nat] /\ first[0] = 2 /\ first[1] = 0
  BY <1>1, <1>5
<1>7. Placed(0, first)
  <2>1. \A i \in Indexes : Size(i) > 0 => i \in {0, 1}
    BY <1>4
  <2>2. \A i \in Indexes : Size(i) > 0 => 0 <= first[i] /\ first[i] + Size(i) <= emitted
    BY <2>1, <1>3, <1>4, <1>6
  <2>3. \A i, j \in Indexes : i < j /\ Size(i) > 0 /\ Size(j) > 0 => first[j] + Size(j) <= first[i]
    <3> SUFFICES ASSUME NEW i \in Indexes, NEW j \in Indexes, i < j, Size(i) > 0, Size(j) > 0
                 PROVE  first[j] + Size(j) <= first[i]
      OBVIOUS
    <3>1. i = 0 /\ j = 1
      BY <2>1
    <3>. QED
      BY <3>1, <1>4, <1>6
  <2>4. ASSUME NEW e \in (0 + 1)..emitted PROVE \E i \in Indexes : e - first[i] \in 1..Size(i)
    <3>1. CASE e = 3
      BY <3>1, <1>1, <1>4, <1>6
    <3>2. CASE e # 3
      <4>1. e - first[1] \in 1..Size(1)
        BY <3>2, <1>3, <1>4, <1>6
      <4>. QED
        BY <4>1, <1>1
    <3>. QED
      BY <3>1, <3>2
  <2>. QED
    BY <2>2, <2>3, <2>4, <1>3, <1>4, <1>6 DEF Placed
<1>8. Spoilt(first, {})
  <2>1. ASSUME NEW i \in Indexes, NEW n \in 1..Size(i) PROVE file[i][n].record = first[i] + n
    <3>1. CASE i = 0
      <4>1. n = 1
        BY <3>1, <1>4
      <4>. QED
        BY <3>1, <4>1, <1>2, <1>6 DEF Line
    <3>2. CASE i = 1
      <4>1. n = 1 \/ n = 2
        BY <3>2, <1>4
      <4>. QED
        BY <3>2, <4>1, <1>2, <1>6 DEF Line
    <3>3. CASE i \notin {0, 1}
      BY <3>3, <1>4
    <3>. QED
      BY <3>1, <3>2, <3>3
  <2>2. Last(file[0]).ended
    BY <1>2 DEF Last, Line
  <2>. QED
    BY <2>1, <2>2, <1>3, FS_EmptySet DEF Spoilt
<1>9. Rotating(0)
  <2>1. \A i : ~Vacated(i)
    BY <1>3 DEF Vacated, Idle
  <2>2. \A i \in Indexes \ {0} : ~Older(0, i)
    <3> SUFFICES ASSUME NEW i \in Indexes \ {0}, NEW j \in Indexes, j > i, Size(j) > 0 PROVE FALSE
      BY DEF Older
    <3>1. j \in {0, 1}
      BY <1>4
    <3>. QED
      BY <3>1 DEF Indexes
  <2>3. Size(1) # 0 /\ \A i \in 1..BackupCount : i \in Indexes \ {0}
    BY <1>4 DEF Indexes
  <2>4. Holes(0) = {}
    BY <2>2, <2>3 DEF Holes
  <2>. QED
    BY <2>1, <2>2, <2>4, <1>1, <1>3, FS_EmptySet DEF Rotating, Idle, Indexes
<1>10. Accounted(0, first, {})
  BY <1>3, <1>6, <1>7, <1>8, <1>9 DEF Accounted
<1>. QED
  BY <1>10 DEF Account

\* The readable records that count as recent.
Recent == {r \in UNION {Records(file[i]) : i \in Indexes} : r > emitted - BackupCount * Capacity}

\* What is not lost, not too old and not spoilt can be read.
LEMMA PlacedIsReadable ==
    ASSUME IInv, NEW lost, NEW first, NEW bad, Accounted(lost, first, bad),
           NEW low \in Nat, low <= emitted, lost <= low, emitted - BackupCount * Capacity <= low
    PROVE  Cardinality(Recent) >= (emitted - low) - 2 * short /\ Cardinality(Recent) \in Nat
<1>. DEFINE W == (low + 1)..emitted
<1>1. /\ emitted \in Nat /\ short \in Nat /\ BackupCount \in Nat /\ Capacity \in Nat
      /\ file \in [Indexes -> Seq(Lines)]
      /\ \A i \in Indexes : Size(i) \in Nat
      /\ lost \in Nat /\ first \in [Indexes -> Nat] /\ bad \in SUBSET (1..emitted)
      /\ Placed(lost, first) /\ Spoilt(first, bad)
  BY Sizes DEF Accounted
<1>2. Recent \in SUBSET (1..emitted)
  <2> SUFFICES ASSUME NEW i \in Indexes, NEW r \in Records(file[i]) PROVE r \in 1..emitted
    BY DEF Recent
  <2>1. r \in Nat /\ r # 0
    BY <1>1, RecordsAreNumbers DEF Records
  <2>2. r <= emitted
    BY DEF IInv, ReadInv, UpTo
  <2>. QED
    BY <1>1, <2>1, <2>2
<1>3. BackupCount * Capacity \in Nat
  BY <1>1
<1>4. W \ bad \in SUBSET Recent
  <2> SUFFICES ASSUME NEW e \in W, e \notin bad PROVE e \in Recent
    OBVIOUS
  <2>1. e \in (lost + 1)..emitted /\ e # 0 /\ e \in Nat
    BY <1>1
  <2>2. PICK i \in Indexes : e - first[i] \in 1..Size(i)
    BY <2>1, <1>1 DEF Placed
  <2>3. PICK n : n = e - first[i]
    OBVIOUS
  <2>4. n \in 1..Size(i) /\ first[i] + n = e
    BY <2>1, <2>2, <2>3, <1>1
  <2>5. file[i][n].record = e
    BY <2>4, <1>1 DEF Spoilt
  <2>6. n \in DOMAIN file[i]
    BY <2>4, <1>1 DEF Size
  <2>7. e \in Records(file[i])
    BY <2>1, <2>5, <2>6 DEF Records
  <2>8. e > emitted - BackupCount * Capacity
    BY <1>1, <1>3
  <2>. QED
    BY <2>7, <2>8 DEF Recent
<1>5. IsFiniteSet(W) /\ Cardinality(W) = emitted - low
  <2>1. low + 1 \in Int /\ emitted \in Int
    BY <1>1
  <2>2. IsFiniteSet(W) /\ Cardinality(W) = IF low + 1 > emitted THEN 0 ELSE emitted - (low + 1) + 1
    BY <2>1, FS_Interval
  <2>. QED
    BY <2>2, <1>1
<1>6. IsFiniteSet(bad) /\ Cardinality(bad) \in Nat /\ Cardinality(bad) <= 2 * short
  <2>1. IsFiniteSet(1..emitted)
    BY <1>1, FS_Interval
  <2>. QED
    BY <2>1, <1>1, FS_Subset, FS_CardinalityType DEF Spoilt
<1>7. IsFiniteSet(Recent) /\ Cardinality(Recent) \in Nat
  <2>1. IsFiniteSet(1..emitted)
    BY <1>1, FS_Interval
  <2>. QED
    BY <2>1, <1>2, FS_Subset, FS_CardinalityType
<1>. HIDE DEF W
<1>8. IsFiniteSet(W \ bad) /\ Cardinality(W \ bad) = Cardinality(W) - Cardinality(W \cap bad)
  BY <1>5, FS_Difference
<1>9. Cardinality(W \cap bad) <= Cardinality(bad) /\ Cardinality(W \cap bad) \in Nat
  BY <1>6, FS_Intersection, FS_CardinalityType
<1>10. Cardinality(W \ bad) <= Cardinality(Recent)
  BY <1>4, <1>7, FS_Subset
<1>. QED
  BY <1>1, <1>5, <1>6, <1>7, <1>8, <1>9, <1>10

\* Arithmetic the provers do not find by themselves.
LEMMA Monotonic == \A a, b, c \in Int : c >= 0 /\ a >= b => a * c >= c * b
  OBVIOUS

\* Behind a deleted file every file is full, except where an emit failed.
LEMMA FullFiles ==
    ASSUME IInv, NEW lost, NEW first, NEW bad, Accounted(lost, first, bad), lost > 0
    PROVE  emitted - lost >= Capacity * (BackupCount - broken)
<1>1. /\ emitted \in Nat /\ broken \in Nat /\ BackupCount \in Nat \ {0} /\ Capacity \in Nat \ {0}
      /\ 0 \in Indexes
      /\ \A i \in Indexes : Size(i) \in Nat
      /\ lost \in Nat /\ lost <= emitted /\ first \in [Indexes -> Nat]
      /\ Placed(lost, first) /\ Rotating(lost)
  BY Sizes DEF Accounted
<1>2. \A i : Older(lost, i)
  BY DEF Older
\* All names but the one a rotation fills next, or the first.
<1>3. PICK open \in Indexes : /\ \A i \in 1..BackupCount : Vacated(i) => i = open
                              /\ open # 0 => Size(0) = Capacity
  <2>1. CASE \E w \in Writers : at[w] \in 0..(BackupCount - 1)
    <3>1. PICK w \in Writers : at[w] \in 0..(BackupCount - 1)
      BY <2>1
    <3>2. \A v \in Writers : v # w => at[v] = Idle
      BY <3>1, <1>1 DEF IInv, LockInv, Idle
    <3>3. \A i : Vacated(i) => i = at[w] + 1
      BY <3>1, <3>2 DEF Vacated, Idle
    <3>4. at[w] + 1 \in Indexes /\ Size(0) = Capacity
      <4>0. \A k \in 0..(BackupCount - 1) : k \in Indexes /\ k + 1 \in Indexes
        BY <1>1 DEF Indexes
      <4>1. at[w] \in Indexes /\ at[w] + 1 \in Indexes
        BY <3>1, <4>0
      <4>. QED
        BY <4>1, <1>1 DEF Rotating
    <3>. QED
      BY <3>3, <3>4
  <2>2. CASE ~\E w \in Writers : at[w] \in 0..(BackupCount - 1)
    <3>1. \A i : ~Vacated(i)
      BY <2>2 DEF Vacated
    <3>. QED
      BY <3>1, <1>1
  <2>. QED
    BY <2>1, <2>2
<1>4. PICK files : files = (Indexes \ {open}) \ Holes(lost)
  OBVIOUS
<1>5. \A i \in files : i \in Indexes /\ Size(i) = Capacity
  <2> SUFFICES ASSUME NEW i \in files PROVE i \in Indexes /\ Size(i) = Capacity
    OBVIOUS
  <2>1. i \in Indexes /\ i # open /\ i \notin Holes(lost)
    BY <1>4
  <2>2. CASE i = 0
    BY <2>1, <2>2, <1>3
  <2>3. CASE i # 0
    <3>1. i \in 1..BackupCount
      BY <2>1, <2>3 DEF Indexes
    <3>2. Size(i) # 0
      BY <2>1, <3>1, <1>2, <1>3 DEF Holes
    <3>. QED
      BY <2>1, <2>3, <3>2, <1>1, <1>2 DEF Rotating
  <2>. QED
    BY <2>2, <2>3
<1>6. IsFiniteSet(files) /\ Cardinality(files) \in Nat /\ Cardinality(files) >= BackupCount - broken
  <2>1. IsFiniteSet(Indexes) /\ Cardinality(Indexes) = BackupCount + 1
    BY <1>1, FS_Interval DEF Indexes
  <2>2. IsFiniteSet(Indexes \ {open}) /\ Cardinality(Indexes \ {open}) = BackupCount
    BY <2>1, <1>1, <1>3, FS_RemoveElement
  <2>3. IsFiniteSet(files) /\ Cardinality(files) \in Nat
    BY <2>2, <1>4, FS_Difference, FS_CardinalityType
  <2>4. Cardinality(files) = BackupCount - Cardinality((Indexes \ {open}) \cap Holes(lost))
    BY <2>2, <1>4, FS_Difference
  <2>5. /\ Cardinality((Indexes \ {open}) \cap Holes(lost)) <= Cardinality(Holes(lost))
        /\ Cardinality((Indexes \ {open}) \cap Holes(lost)) \in Nat
    BY <1>1, HolesAreFew, FS_Intersection, FS_CardinalityType
  <2>6. Cardinality(Holes(lost)) <= broken /\ Cardinality(Holes(lost)) \in Nat
    BY <1>1, HolesAreFew DEF Rotating
  <2>. QED
    BY <2>3, <2>4, <2>5, <2>6, <1>1
\* Each line of these files has a place of its own behind the lost ones.
<1>7. PICK f : f = [p \in files \X (1..Capacity) |-> first[p[1]] + p[2]]
  OBVIOUS
<1>8. f \in Injection(files \X (1..Capacity), (lost + 1)..emitted)
  <2>1. \A i \in files, n \in 1..Capacity : f[<<i, n>>] = first[i] + n
    BY <1>7
  <2>2. ASSUME NEW i \in files, NEW n \in 1..Capacity
        PROVE  first[i] + n \in (lost + 1)..emitted
    <3>1. i \in Indexes /\ Size(i) = Capacity /\ first[i] \in Nat
      BY <1>1, <1>5
    <3>2. lost <= first[i] /\ first[i] + Capacity <= emitted
      BY <3>1, <1>1 DEF Placed
    <3>. QED
      BY <3>1, <3>2, <1>1
  <2>3. ASSUME NEW i \in files, NEW j \in files, NEW m \in 1..Capacity, NEW n \in 1..Capacity,
               first[i] + m = first[j] + n
        PROVE  i = j /\ m = n
    <3>1. /\ i \in Indexes /\ j \in Indexes /\ Size(i) = Capacity /\ Size(j) = Capacity
          /\ first[i] \in Nat /\ first[j] \in Nat
      BY <1>1, <1>5
    <3>2. i < j => first[j] + Capacity <= first[i]
      BY <3>1, <1>1 DEF Placed
    <3>3. j < i => first[i] + Capacity <= first[j]
      BY <3>1, <1>1 DEF Placed
    <3>4. i = j
      <4>1. ~(i < j) /\ ~(j < i)
        BY <2>3, <3>1, <3>2, <3>3, <1>1
      <4>. QED
        BY <3>1, <4>1 DEF Indexes
    <3>. QED
      BY <2>3, <3>1, <3>4
  <2>4. f \in [files \X (1..Capacity) -> (lost + 1)..emitted]
    BY <2>2, <1>7
  <2>5. IsInjective(f)
    <3> SUFFICES ASSUME NEW p \in files \X (1..Capacity), NEW q \in files \X (1..Capacity),
                        f[p] = f[q]
                 PROVE  p = q
      BY <2>4 DEF IsInjective
    <3>1. PICK i \in files, m \in 1..Capacity : p = <<i, m>>
      OBVIOUS
    <3>2. PICK j \in files, n \in 1..Capacity : q = <<j, n>>
      OBVIOUS
    <3>3. first[i] + m = first[j] + n
      BY <2>1, <3>1, <3>2
    <3>. QED
      BY <2>3, <3>1, <3>2, <3>3
  <2>. QED
    BY <2>4, <2>5 DEF Injection
<1>9. IsFiniteSet((lost + 1)..emitted) /\ Cardinality((lost + 1)..emitted) = emitted - lost
  <2>1. lost + 1 \in Int /\ emitted \in Int
    BY <1>1
  <2>2. /\ IsFiniteSet((lost + 1)..emitted)
        /\ Cardinality((lost + 1)..emitted)
             = IF lost + 1 > emitted THEN 0 ELSE emitted - (lost + 1) + 1
    BY <2>1, FS_Interval
  <2>. QED
    BY <2>2, <1>1
<1>10. IsFiniteSet(1..Capacity) /\ Cardinality(1..Capacity) = Capacity
  <2>1. 1 \in Int /\ Capacity \in Int
    BY <1>1
  <2>2. /\ IsFiniteSet(1..Capacity)
        /\ Cardinality(1..Capacity) = IF 1 > Capacity THEN 0 ELSE Capacity - 1 + 1
    BY <2>1, FS_Interval
  <2>. QED
    BY <2>2, <1>1
<1>11. Cardinality(files \X (1..Capacity)) = Cardinality(files) * Capacity
  BY <1>6, <1>10, FS_Product
<1>12. Cardinality(files \X (1..Capacity)) <= emitted - lost
  BY <1>8, <1>9, FS_Injection
<1>13. Cardinality(files) * Capacity >= Capacity * (BackupCount - broken)
  BY <1>1, <1>6, Monotonic
<1>14. Cardinality(files) * Capacity \in Int /\ Capacity * (BackupCount - broken) \in Int
  BY <1>1, <1>6
<1>. QED
  BY <1>1, <1>11, <1>12, <1>13, <1>14

\* The smaller of two.
LEMMA MinOfTwo == \A a, b \in Int : Min({a, b}) \in {a, b} /\ Min({a, b}) <= a /\ Min({a, b}) <= b
<1> SUFFICES ASSUME NEW a \in Int, NEW b \in Int
             PROVE  Min({a, b}) \in {a, b} /\ Min({a, b}) <= a /\ Min({a, b}) <= b
  OBVIOUS
<1>1. \E x \in {a, b} : \A y \in {a, b} : x =< y
  OBVIOUS
<1>. QED
  BY <1>1 DEF Min

\* The account says how much can be read.
LEMMA AccountedIsKept == IInv /\ Account => RecentRecordsKept
<1> SUFFICES ASSUME IInv, Account PROVE RecentRecordsKept
  OBVIOUS
<1>1. PICK lost, first, bad : Accounted(lost, first, bad)
  BY DEF Account
<1>2. /\ emitted \in Nat /\ short \in Nat /\ broken \in Nat
      /\ BackupCount \in Nat /\ Capacity \in Nat
      /\ lost \in Nat /\ lost <= emitted
  BY <1>1, Sizes DEF Accounted
<1>3. PICK all, recent : all = BackupCount * Capacity /\ recent = Capacity * (BackupCount - broken)
  OBVIOUS
<1>4. all \in Nat /\ recent \in Int /\ recent <= all
  <2>1. Capacity * (BackupCount - broken) <= BackupCount * Capacity
    BY <1>2, Monotonic
  <2>. QED
    BY <1>2, <1>3, <2>1
<1>5. PICK low : low = IF lost >= emitted - all THEN lost ELSE emitted - all
  OBVIOUS
<1>6. low \in Nat /\ low <= emitted /\ lost <= low /\ emitted - all <= low
  BY <1>2, <1>4, <1>5
<1>7. Cardinality(Recent) >= (emitted - low) - 2 * short /\ Cardinality(Recent) \in Nat
  BY <1>1, <1>3, <1>6, PlacedIsReadable
<1>8. emitted - low >= recent \/ emitted - low = emitted
  <2>1. CASE low = emitted - all
    BY <2>1, <1>2, <1>4
  <2>2. CASE low = lost /\ lost > 0
    BY <2>2, <1>1, <1>3, FullFiles
  <2>3. CASE low = lost /\ lost = 0
    BY <2>3, <1>2
  <2>. QED
    BY <2>1, <2>2, <2>3, <1>2, <1>5
<1>9. PICK a, b : a = recent - 2 * short /\ b = emitted - 2 * short
  OBVIOUS
<1>10. a \in Int /\ b \in Int /\ (Cardinality(Recent) >= a \/ Cardinality(Recent) >= b)
  BY <1>2, <1>4, <1>6, <1>7, <1>8, <1>9
<1>11. Min({a, b}) \in Int /\ Min({a, b}) <= a /\ Min({a, b}) <= b
  BY <1>10, MinOfTwo
<1>12. Cardinality(Recent) >= Min({a, b})
  BY <1>7, <1>10, <1>11
<1>. QED
  BY <1>3, <1>9, <1>12 DEF RecentRecordsKept, Recent
-----------------------------------------------------------------------------
\* However many processes emit, fail, die and write short, the newest records can
\* be read: a full set of backups, less one file for each emit that failed and
\* two records for each short write.
THEOREM RecentRecordsAreKept == Spec => []RecentRecordsKept
<1>1. IInv /\ Account /\ [Next]_vars => (IInv /\ Account)'
  <2> SUFFICES ASSUME IInv, Account, [Next]_vars PROVE Account'
    BY NextStep
  <2>1. CASE \E w \in Writers : EmitStep(w)
    BY <2>1, EmitAccounts
  <2>2. CASE TailStep
    BY <2>2, FilesAccount DEF TailStep, StartTail, ReadNext
  <2>3. CASE UNCHANGED vars
    BY <2>3, FilesAccount DEF vars
  <2>. QED
    BY <2>1, <2>2, <2>3 DEF Next
<1>2. Init => IInv /\ Account
  BY InitStep, InitAccounts
<1>3. IInv /\ Account => RecentRecordsKept
  BY AccountedIsKept
<1>. QED
  BY <1>1, <1>2, <1>3, PTL DEF Spec

\* The migration rewrites the trace while routes are being redacted, and may be
\* cut off anywhere in it: until it has attested, and may delete, the newest
\* records can be read as if it had never run.
THEOREM RedactingKeepsRecords == MigrationSpec => []RedactingLosesNothing
<1>. DEFINE Inv == MInv /\ (attested = "none" => Account)
<1>1. Inv /\ [MigrationNext]_<<vars, migration>> => Inv'
  <2> SUFFICES ASSUME MInv, attested = "none" => Account, [MigrationNext]_<<vars, migration>>,
                      attested' = "none"
               PROVE  Account'
    BY MigrationNextStep
  <2>1. IInv /\ MigrationInv
    BY DEF MInv
  <2>2. attested = "none"
    BY DEF MigrationNext, MigrationStep, migration, Begin, Redact, AllRedacted, SaveRoute, Attest,
           RemoveBackup, AttestAgain, Scan, RunEnds
  <2>3. ASSUME NEW i \in Indexes, Redact(i), UNCHANGED <<at, emitted, broken, short>>
        PROVE  Account'
    BY <2>1, <2>2, <2>3, RedactAccounts
  <2>4. ASSUME NEW i \in Indexes, RemoveBackup(i)
        PROVE  FALSE
    BY <2>1, <2>2, <2>4 DEF RemoveBackup, MigrationInv
  <2>5. CASE \E w \in Writers : EmitStepOn(w)
    BY <2>1, <2>2, <2>5, EmitAccounts DEF EmitStepOn
  <2>6. CASE UNCHANGED <<file, at, emitted, broken, short>>
    BY <2>1, <2>2, <2>6, FilesAccount
  <2>7. Begin \/ AllRedacted \/ SaveRoute \/ Attest \/ AttestAgain \/ Scan \/ RunEnds =>
          UNCHANGED file
    BY DEF Begin, AllRedacted, SaveRoute, Attest, AttestAgain, Scan, RunEnds
  <2>8. TailStep => UNCHANGED <<file, at, emitted, broken, short>>
    BY DEF TailStep, StartTail, ReadNext
  <2>9. CASE UNCHANGED <<vars, migration>>
    BY <2>6, <2>9 DEF vars
  <2>10. CASE MigrationStep /\ UNCHANGED <<holder, at, emitted, reading, lines, broken, short>>
    BY <2>3, <2>4, <2>6, <2>7, <2>10 DEF MigrationStep
  <2>. QED
    BY <2>5, <2>6, <2>8, <2>9, <2>10 DEF MigrationNext
<1>2. MigrationInit => Inv
  BY MigrationInitStep, HistoryAccounts
<1>3. Inv => RedactingLosesNothing
  BY AccountedIsKept DEF MInv, RedactingLosesNothing
<1>. QED
  BY <1>1, <1>2, <1>3, PTL DEF MigrationSpec
=============================================================================
