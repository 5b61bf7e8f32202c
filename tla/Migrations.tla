------------------------------ MODULE Migrations ------------------------------
(***************************************************************************)
(* Start-up of the database (internal/store/store.go, templates.go): the   *)
(* migrations this release embeds are executed statement by statement,     *)
(* each in a transaction of its own, then the default templates are        *)
(* seeded. The process may die between any two statements, and the next    *)
(* start may be another release on the same file.                          *)
(***************************************************************************)
EXTENDS Integers, FiniteSets

CONSTANTS
  Script,      \* Script[v]: the statements of migration v before the INSERT of its version
  Templates,   \* names of defaultTemplates
  MaxCrashes   \* bound: crashes, failed statements and failed queries

\* "create" is CREATE ... IF NOT EXISTS, "alter" is ALTER TABLE ... ADD COLUMN.
Kinds == {"create", "alter"}
Versions == DOMAIN Script
Statements(v) == DOMAIN Script[v]
Last(v) == Cardinality(Statements(v))

ASSUME MigrationsAssumption ==
  /\ Versions \subseteq Nat \ {0} /\ IsFiniteSet(Versions)
  /\ \A v \in Versions :
       /\ IsFiniteSet(Statements(v)) /\ Statements(v) = 1..Last(v)
       /\ \A i \in Statements(v) : Script[v][i] \in Kinds
  /\ MaxCrashes \in Nat

VARIABLES
  schema,    \* statements in effect on the file, as pairs <<version, index>>
  recorded,  \* rows of schema_version
  seeded,    \* number of rows of session_templates, per default template
  pc,        \* the process
  known,     \* versions of the files embedded in the running release
  current,   \* currentVersion, read when migrate starts
  ver, stmt, \* the file being executed and its next statement
  todo,      \* templates still to seed
  misread,   \* the query of currentVersion failed on a file that has versions
  crashes

fileVars == <<schema, recorded, seeded>>
vars == <<fileVars, pc, known, current, ver, stmt, todo, misread, crashes>>

Init ==
  /\ schema = {} /\ recorded = {} /\ seeded = [t \in Templates |-> 0]
  /\ pc = "down" /\ known = {}
  /\ current = 0 /\ ver = 0 /\ stmt = 1 /\ todo = {}
  /\ misread = FALSE /\ crashes = 0
-----------------------------------------------------------------------------
\* A release embeds every file up to its newest one. The error of the query is ignored:
\* currentVersion stays 0 on a new file, which has no schema_version, and also when the
\* query fails on another.
Open(newest) ==
  /\ pc = "down"
  /\ known' = {v \in Versions : v <= newest}
  /\ \/ /\ \E latest \in recorded \cup {0} :
             (\A v \in recorded : v <= latest) /\ current' = latest
        /\ UNCHANGED <<misread, crashes>>
     \/ /\ crashes < MaxCrashes /\ crashes' = crashes + 1
        /\ current' = 0 /\ misread' = TRUE
  /\ pc' = "files"
  /\ UNCHANGED <<fileVars, ver, stmt, todo>>

\* Mutant: the loop does not advance.
PendingRepeats == {v \in known : v > current}

\* The loop over the files, in the order of their names.
Pending == {v \in known : v > current /\ v > ver}

\* Mutant: the files are taken in any order.
NextFileUnordered(v) ==
  /\ pc = "files" /\ v \in Pending
  /\ ver' = v /\ stmt' = 1
  /\ pc' = "exec"
  /\ UNCHANGED <<fileVars, known, current, todo, misread, crashes>>

NextFile(v) ==
  /\ pc = "files" /\ v \in Pending /\ \A w \in Pending : v <= w
  /\ ver' = v /\ stmt' = 1
  /\ pc' = "exec"
  /\ UNCHANGED <<fileVars, known, current, todo, misread, crashes>>

\* Mutant: the loop breaks, instead of continuing, at a file that is applied.
MigratedBreaks ==
  /\ pc = "files" /\ (Pending = {} \/ current > 0)
  /\ todo' = Templates
  /\ pc' = "seed"
  /\ UNCHANGED <<fileVars, known, current, ver, stmt, misread, crashes>>

\* migrate returned; SeedTemplates starts.
Migrated ==
  /\ pc = "files" /\ Pending = {}
  /\ todo' = Templates
  /\ pc' = "seed"
  /\ UNCHANGED <<fileVars, known, current, ver, stmt, misread, crashes>>

\* Mutant: the CREATE statements lack IF NOT EXISTS.
DuplicateAny == <<ver, stmt>> \in schema

\* ADD COLUMN fails when the column is there.
Duplicate == Script[ver][stmt] = "alter" /\ <<ver, stmt>> \in schema

ExecStatement ==
  /\ pc = "exec" /\ stmt \in Statements(ver)
  /\ ~Duplicate
  /\ schema' = schema \cup {<<ver, stmt>>}
  /\ stmt' = stmt + 1
  /\ UNCHANGED <<recorded, seeded, pc, known, current, ver, todo, misread, crashes>>

\* The last statement of a file is INSERT OR IGNORE INTO schema_version.
RecordVersion ==
  /\ pc = "exec" /\ stmt = Last(ver) + 1
  /\ recorded' = recorded \cup {ver}
  /\ pc' = "files"
  /\ UNCHANGED <<schema, seeded, known, current, ver, stmt, todo, misread, crashes>>

\* migrate returns the error of the statement; main logs it and exits.
OpenFails ==
  /\ pc = "exec" /\ stmt \in Statements(ver)
  /\ Duplicate
  /\ pc' = "failed"
  /\ UNCHANGED <<fileVars, known, current, ver, stmt, todo, misread, crashes>>

\* Mutant: a template is inserted without the COUNT.
SeedTemplateAlways(t) ==
  /\ pc = "seed" /\ t \in todo
  /\ seeded' = [seeded EXCEPT ![t] = @ + 1]
  /\ todo' = todo \ {t}
  /\ UNCHANGED <<schema, recorded, pc, known, current, ver, stmt, misread, crashes>>

\* One round of SeedTemplates: COUNT, and INSERT if there is none; nobody else inserts.
SeedTemplate(t) ==
  /\ pc = "seed" /\ t \in todo
  /\ seeded' = [seeded EXCEPT ![t] = IF @ > 0 THEN @ ELSE 1]
  /\ todo' = todo \ {t}
  /\ UNCHANGED <<schema, recorded, pc, known, current, ver, stmt, misread, crashes>>

Serve ==
  /\ pc = "seed" /\ todo = {}
  /\ pc' = "up"
  /\ UNCHANGED <<fileVars, known, current, ver, stmt, todo, misread, crashes>>

\* The process is gone: its variables are, the file stays.
Gone == pc' = "down" /\ known' = {} /\ current' = 0 /\ ver' = 0 /\ stmt' = 1 /\ todo' = {} /\ misread' = FALSE

\* Killed at any step, or a statement failed (disk full, SQLITE_BUSY) and main exited.
Crash ==
  /\ pc \in {"files", "exec", "seed"} /\ crashes < MaxCrashes
  /\ Gone
  /\ crashes' = crashes + 1
  /\ UNCHANGED fileVars

\* The orchestrator starts the process again, or the operator stops it.
Restart ==
  /\ pc \in {"failed", "up"}
  /\ Gone
  /\ UNCHANGED <<fileVars, crashes>>
-----------------------------------------------------------------------------
Step ==
  \/ \E v \in Versions : NextFile(v)
  \/ Migrated \/ ExecStatement \/ RecordVersion \/ OpenFails \/ Serve
  \/ \E t \in Templates : SeedTemplate(t)

Next ==
  \/ \E newest \in Versions : Open(newest)
  \/ Step \/ Crash \/ Restart

Spec == Init /\ [][Next]_vars

\* A started process runs; a failed one is started again.
FairSpec ==
  /\ Spec
  /\ WF_vars(Step) /\ WF_vars(\E newest \in Versions : Open(newest))
  /\ WF_vars(pc = "failed" /\ Restart)
-----------------------------------------------------------------------------
TypeOK ==
  /\ schema \subseteq Versions \X Nat
  /\ recorded \subseteq Versions
  /\ seeded \in [Templates -> Nat]
  /\ pc \in {"down", "files", "exec", "seed", "up", "failed"}
  /\ known \subseteq Versions
  /\ current \in Versions \cup {0} /\ ver \in Versions \cup {0}
  /\ pc = "exec" => ver \in Versions /\ stmt \in 1..(Last(ver) + 1)
  /\ todo \subseteq Templates
  /\ misread \in BOOLEAN /\ crashes \in 0..MaxCrashes

\* A version in schema_version means that its file and every earlier one took effect
\* completely, whatever crashes and changes of release happened: a database on which
\* migrate skips files has what those files define (store.go:58-91).
RecordedIsApplied ==
  \A v \in recorded, w \in Versions :
    w <= v => w \in recorded /\ \A i \in Statements(w) : <<w, i>> \in schema

\* A release that serves finds every table and column its own files define.
UpHasSchema ==
  pc = "up" => \A v \in known : \A i \in Statements(v) : <<v, i>> \in schema

\* Start-up fails only on a torn file, where a column was added and the process died before
\* the version was recorded (005, 006; store.go:88), or when the version was not read.
Torn == \E v \in Versions \ recorded : \E i \in Statements(v) :
          <<v, i>> \in schema /\ Script[v][i] = "alter"
FailureIsTornAlter == pc = "failed" => Torn \/ misread

\* "Seed again should be idempotent" (store_test.go:257), also across crashes: every
\* default template is there at most once, and once when the server is up.
SeededOnce ==
  \A t \in Templates : seeded[t] <= 1 /\ (pc = "up" => seeded[t] = 1)

\* A stopped server comes up again, after any number of crashes that tear no file.
ComesUp == (pc = "down") ~> (pc = "up" \/ Torn)

\* "Open again - migrations should not fail" (store_test.go:73).
OpenNeverFails == pc # "failed"
=============================================================================
