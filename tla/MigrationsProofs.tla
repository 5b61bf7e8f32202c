--------------------------- MODULE MigrationsProofs ---------------------------
(***************************************************************************)
(* Proofs about module Migrations, for every set of files, every number of *)
(* templates and every bound on the crashes.                               *)
(***************************************************************************)
EXTENDS Migrations, FiniteSetTheorems, TLAPS

\* What the loop over the files knows: the releases embed a prefix of the versions, the
\* version read at the start covers every row of that time (if it was read), and every
\* embedded file up to the one in progress is recorded.
LoopOK ==
  /\ \A v \in known, w \in Versions : w <= v => w \in known
  /\ current \in recorded \cup {0}
  /\ pc \in {"files", "seed", "up"} => \A w \in known : w <= ver => w \in recorded
  /\ pc \in {"seed", "up"} => known \subseteq recorded
  /\ pc \in {"files", "exec", "failed"} /\ ~misread =>
       \A w \in recorded : w <= current \/ w <= ver
  /\ pc \in {"exec", "failed"} =>
       /\ ver \in known /\ (ver \notin recorded \/ misread)
       /\ \A w \in known : w < ver => w \in recorded
  /\ pc = "exec" => \A i \in 1..(stmt - 1) : <<ver, i>> \in schema
  /\ pc = "down" => ver = 0
  /\ pc = "failed" => \E i \in Statements(ver) : <<ver, i>> \in schema /\ Script[ver][i] = "alter"

IInv == TypeOK /\ RecordedIsApplied /\ LoopOK

\* Versions are positive, and the statements of a file are numbered from 1.
LEMMA VersionFacts ==
  /\ \A v \in Versions : v \in Nat /\ v > 0 /\ v \in Int
  /\ \A v \in Versions : Last(v) \in Nat /\ Statements(v) = 1..Last(v)
<1>1. \A v \in Versions : v \in Nat /\ v > 0 /\ v \in Int
  BY MigrationsAssumption
<1>2. ASSUME NEW v \in Versions PROVE Last(v) \in Nat /\ Statements(v) = 1..Last(v)
  <2>1. IsFiniteSet(Statements(v)) /\ Statements(v) = 1..Last(v)
    BY MigrationsAssumption
  <2>2. Cardinality(Statements(v)) \in Nat
    BY <2>1, FS_CardinalityType
  <2> QED BY <2>1, <2>2 DEF Last
<1> QED BY <1>1, <1>2

\* Type correctness: every step of the start-up, every crash and every change of release
\* keeps the file and the process's variables in their types.
THEOREM TypeCorrect == Spec => []TypeOK
<1>1. Init => TypeOK
  <2> SUFFICES ASSUME Init PROVE TypeOK
    OBVIOUS
  <2>1. misread \in BOOLEAN
    BY DEF Init
  <2> QED BY <2>1, MigrationsAssumption DEF Init, TypeOK
<1>2. TypeOK /\ [Next]_vars => TypeOK'
  <2> SUFFICES ASSUME TypeOK, [Next]_vars PROVE TypeOK'
    OBVIOUS
  <2> USE VersionFacts DEF TypeOK, fileVars
  <2>1. ASSUME NEW newest \in Versions, Open(newest) PROVE TypeOK'
    <3>1. misread' \in BOOLEAN
      BY <2>1 DEF Open
    <3>2. crashes' \in 0..MaxCrashes
      BY <2>1, MigrationsAssumption DEF Open
    <3> QED BY <2>1, <3>1, <3>2 DEF Open
  <2>2. ASSUME NEW v \in Versions, NextFile(v) PROVE TypeOK'
    <3>1. stmt' \in 1..(Last(v) + 1)
      BY <2>2 DEF NextFile
    <3> QED BY <2>2, <3>1 DEF NextFile
  <2>3. CASE Migrated
    BY <2>3 DEF Migrated
  <2>4. CASE ExecStatement
    <3>1. ver \in Versions /\ stmt \in 1..Last(ver)
      BY <2>4 DEF ExecStatement
    <3>2. stmt' \in 1..(Last(ver) + 1) /\ <<ver, stmt>> \in Versions \X Nat
      BY <2>4, <3>1 DEF ExecStatement
    <3> QED BY <2>4, <3>1, <3>2 DEF ExecStatement
  <2>5. CASE RecordVersion
    BY <2>5 DEF RecordVersion
  <2>6. CASE OpenFails
    BY <2>6 DEF OpenFails
  <2>7. CASE Serve
    BY <2>7 DEF Serve
  <2>8. ASSUME NEW t \in Templates, SeedTemplate(t) PROVE TypeOK'
    BY <2>8 DEF SeedTemplate
  <2>9. CASE Crash
    <3>1. misread' \in BOOLEAN
      BY <2>9 DEF Crash, Gone
    <3>2. crashes' \in 0..MaxCrashes
      BY <2>9, MigrationsAssumption DEF Crash
    <3> QED BY <2>9, <3>1, <3>2 DEF Crash, Gone
  <2>10. CASE Restart
    BY <2>10 DEF Restart, Gone
  <2>11. CASE UNCHANGED vars
    BY <2>11 DEF vars
  <2> QED BY <2>1, <2>2, <2>3, <2>4, <2>5, <2>6, <2>7, <2>8, <2>9, <2>10, <2>11 DEF Next, Step
<1> QED BY <1>1, <1>2, PTL DEF Spec

\* The inductive invariant holds on a new file.
LEMMA InitIInv == Init => RecordedIsApplied /\ LoopOK
  BY DEF Init, RecordedIsApplied, LoopOK

\* Every step keeps the inductive invariant: the file taken next is the least pending one,
\* so every earlier one is recorded, and its own version is not.
LEMMA NextIInv == TypeOK /\ RecordedIsApplied /\ LoopOK /\ [Next]_vars => (RecordedIsApplied /\ LoopOK)'
<1> SUFFICES ASSUME TypeOK, RecordedIsApplied, LoopOK, [Next]_vars
             PROVE  (RecordedIsApplied /\ LoopOK)'
  OBVIOUS
<1> USE VersionFacts
<1>a. known \subseteq Versions /\ recorded \subseteq Versions /\ current \in Nat /\ ver \in Nat
  BY DEF TypeOK
<1>1. ASSUME NEW newest \in Versions, Open(newest) PROVE (RecordedIsApplied /\ LoopOK)'
  <2>1. /\ current' \in recorded \cup {0}
        /\ misread' \/ \A v \in recorded : v <= current'
    BY <1>1 DEF Open
  <2>2. RecordedIsApplied'
    BY <1>1 DEF RecordedIsApplied, Open, fileVars
  <2>3. ver' = 0 /\ pc' = "files" /\ recorded' = recorded /\ known' = {v \in Versions : v <= newest}
    BY <1>1 DEF Open, LoopOK, fileVars
  <2> QED BY <1>a, <2>1, <2>2, <2>3 DEF LoopOK
<1>2. ASSUME NEW v \in Versions, NextFile(v) PROVE (RecordedIsApplied /\ LoopOK)'
  <2>1. RecordedIsApplied'
    BY <1>2 DEF RecordedIsApplied, NextFile, fileVars
  <2>2. v \in known /\ v > current /\ v > ver /\ pc = "files"
    BY <1>2 DEF NextFile, Pending
  <2>3. v \notin recorded \/ misread
    BY <2>2, <1>a DEF LoopOK
  <2>4. ASSUME NEW w \in known, w < v PROVE w \in recorded
    <3>1. w <= current \/ w <= ver
      BY <1>2, <2>4, <1>a DEF NextFile, Pending
    <3>2. CASE w <= ver
      BY <3>2, <2>2 DEF LoopOK
    <3>3. CASE w <= current
      <4>1. current \in recorded
        BY <3>3, <1>a DEF LoopOK
      <4> QED BY <4>1, <3>3, <1>a DEF RecordedIsApplied
    <3> QED BY <3>1, <3>2, <3>3
  <2>5. misread \/ \A w \in recorded : w <= current \/ w <= v
    BY <2>2, <1>a DEF LoopOK
  <2>6. ver' = v /\ stmt' = 1 /\ pc' = "exec" /\ UNCHANGED <<schema, recorded, known, current, misread>>
    BY <1>2 DEF NextFile, fileVars
  <2> QED BY <2>1, <2>2, <2>3, <2>4, <2>5, <2>6 DEF LoopOK
<1>3. CASE Migrated
  <2>1. \A w \in known : w \in recorded
    <3> SUFFICES ASSUME NEW w \in known PROVE w \in recorded
      OBVIOUS
    <3>1. w <= current \/ w <= ver
      BY <1>3, <1>a DEF Migrated, Pending
    <3>2. CASE w <= ver
      BY <3>2, <1>3 DEF LoopOK, Migrated
    <3>3. CASE w <= current
      <4>1. current \in recorded
        BY <3>3, <1>a DEF LoopOK
      <4> QED BY <4>1, <3>3, <1>a DEF RecordedIsApplied
    <3> QED BY <3>1, <3>2, <3>3
  <2> QED BY <1>3, <2>1 DEF Migrated, RecordedIsApplied, LoopOK, fileVars
<1>4. CASE ExecStatement
  <2>1. pc = "exec" /\ pc' = "exec" /\ ver \in Versions /\ stmt \in Nat /\ stmt' = stmt + 1
    BY <1>4 DEF ExecStatement, TypeOK
  <2>2. schema' = schema \cup {<<ver, stmt>>} /\ UNCHANGED <<recorded, known, current, ver, misread>>
    BY <1>4 DEF ExecStatement
  <2>3. \A i \in 1..(stmt' - 1) : <<ver, i>> \in schema'
    BY <2>1, <2>2 DEF LoopOK
  <2>4. RecordedIsApplied'
    BY <2>2 DEF RecordedIsApplied
  <2> QED BY <2>1, <2>2, <2>3, <2>4 DEF LoopOK
<1>5. CASE RecordVersion
  <2>1. pc = "exec" /\ stmt = Last(ver) + 1 /\ ver \in Versions /\ ver \in known
    BY <1>5 DEF RecordVersion, TypeOK, LoopOK
  <2>2. recorded' = recorded \cup {ver} /\ pc' = "files" /\ UNCHANGED <<schema, known, current, ver, misread>>
    BY <1>5 DEF RecordVersion
  <2>3. \A i \in Statements(ver) : <<ver, i>> \in schema
    BY <2>1 DEF LoopOK
  <2>4. ASSUME NEW w \in Versions, w <= ver PROVE w \in recorded'
    BY <2>1, <2>2, <2>4, <1>a DEF LoopOK
  <2>5. RecordedIsApplied'
    <3> SUFFICES ASSUME NEW v \in recorded', NEW w \in Versions, w <= v
                 PROVE  w \in recorded' /\ \A i \in Statements(w) : <<w, i>> \in schema'
      BY DEF RecordedIsApplied
    <3>1. CASE v \in recorded
      BY <3>1, <2>2 DEF RecordedIsApplied
    <3>2. CASE v = ver
      <4>1. w \in recorded'
        BY <3>2, <2>4
      <4>2. CASE w = ver
        BY <4>1, <4>2, <2>2, <2>3
      <4>3. CASE w # ver
        BY <4>1, <4>3, <2>2, <1>a DEF RecordedIsApplied
      <4> QED BY <4>2, <4>3
    <3> QED BY <3>1, <3>2, <2>2
  <2>6. misread \/ \A w \in recorded' : w <= current \/ w <= ver
    BY <2>1, <2>2, <1>a DEF LoopOK
  <2> QED BY <2>1, <2>2, <2>4, <2>5, <2>6, <1>a DEF LoopOK
<1>6. CASE OpenFails
  <2>1. pc = "exec" /\ pc' = "failed" /\ stmt \in Statements(ver)
        /\ Script[ver][stmt] = "alter" /\ <<ver, stmt>> \in schema
    BY <1>6 DEF OpenFails, Duplicate
  <2>2. UNCHANGED <<schema, recorded, known, current, ver, misread>>
    BY <1>6 DEF OpenFails, fileVars
  <2> QED BY <2>1, <2>2 DEF LoopOK, RecordedIsApplied
<1>7. CASE Serve
  BY <1>7 DEF Serve, fileVars, LoopOK, RecordedIsApplied
<1>8. ASSUME NEW t \in Templates, SeedTemplate(t) PROVE (RecordedIsApplied /\ LoopOK)'
  BY <1>8 DEF SeedTemplate, LoopOK, RecordedIsApplied
<1>9. CASE Crash \/ Restart
  BY <1>9 DEF Crash, Restart, Gone, fileVars, LoopOK, RecordedIsApplied
<1>10. CASE UNCHANGED vars
  BY <1>10 DEF vars, fileVars, LoopOK, RecordedIsApplied
<1> QED BY <1>1, <1>2, <1>3, <1>4, <1>5, <1>6, <1>7, <1>8, <1>9, <1>10 DEF Next, Step

LEMMA Inductive == Spec => []IInv
<1>1. Init => RecordedIsApplied /\ LoopOK
  BY InitIInv
<1>2. TypeOK /\ RecordedIsApplied /\ LoopOK /\ [Next]_vars => (RecordedIsApplied /\ LoopOK)'
  BY NextIInv
<1> QED BY <1>1, <1>2, TypeCorrect, PTL DEF Spec, IInv

\* The file is consistent with schema_version after any crashes and changes of release.
THEOREM RecordsAreApplied == Spec => []RecordedIsApplied
<1>1. IInv => RecordedIsApplied
  BY DEF IInv
<1> QED BY <1>1, Inductive, PTL

\* A server that is up has the whole schema of its release, however often an earlier start
\* was interrupted.
THEOREM UpIsComplete == Spec => []UpHasSchema
<1>1. IInv => UpHasSchema
  <2> SUFFICES ASSUME IInv, pc = "up", NEW v \in known
               PROVE  \A i \in Statements(v) : <<v, i>> \in schema
    BY DEF UpHasSchema
  <2>1. v \in recorded /\ v \in Versions
    BY DEF IInv, LoopOK, TypeOK
  <2>2. v <= v
    BY <2>1, VersionFacts
  <2> QED BY <2>1, <2>2 DEF IInv, RecordedIsApplied
<1> QED BY <1>1, Inductive, PTL

\* A start-up only fails on a file an earlier crash left torn, or when it could not read
\* the version.
THEOREM FailuresAreTorn == Spec => []FailureIsTornAlter
<1>1. IInv => FailureIsTornAlter
  BY DEF IInv, LoopOK, TypeOK, FailureIsTornAlter, Torn
<1> QED BY <1>1, Inductive, PTL

\* The templates SeedTemplates is done with have exactly one row.
SeedOK ==
  /\ \A t \in Templates : seeded[t] \in {0, 1}
  /\ pc \in {"seed", "up"} => \A t \in Templates \ todo : seeded[t] = 1
  /\ pc = "up" => todo = {}

\* Seeding is idempotent across crashes: every default template has at most one row, and
\* exactly one when the server is up.
THEOREM SeedTheorem == Spec => []SeededOnce
<1>1. Init => SeedOK
  BY DEF Init, SeedOK
<1>2. TypeOK /\ SeedOK /\ [Next]_vars => SeedOK'
  <2> SUFFICES ASSUME TypeOK, SeedOK, [Next]_vars PROVE SeedOK'
    OBVIOUS
  <2> USE DEF SeedOK, fileVars
  <2>1. ASSUME NEW newest \in Versions, Open(newest) PROVE SeedOK'
    BY <2>1 DEF Open
  <2>2. ASSUME NEW v \in Versions, NextFile(v) PROVE SeedOK'
    BY <2>2 DEF NextFile
  <2>3. CASE Migrated \/ Serve
    BY <2>3 DEF Migrated, Serve
  <2>4. CASE ExecStatement \/ RecordVersion \/ OpenFails
    BY <2>4 DEF ExecStatement, RecordVersion, OpenFails
  <2>5. ASSUME NEW t \in Templates, SeedTemplate(t) PROVE SeedOK'
    BY <2>5 DEF SeedTemplate, TypeOK
  <2>6. CASE Crash \/ Restart
    BY <2>6 DEF Crash, Restart, Gone
  <2>7. CASE UNCHANGED vars
    BY <2>7 DEF vars
  <2> QED BY <2>1, <2>2, <2>3, <2>4, <2>5, <2>6, <2>7 DEF Next, Step
<1>3. SeedOK => SeededOnce
  BY DEF SeedOK, SeededOnce
<1> QED BY <1>1, <1>2, <1>3, TypeCorrect, PTL DEF Spec

=============================================================================
