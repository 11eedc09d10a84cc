-------------------------------- MODULE Schema --------------------------------
(***************************************************************************)
(* The database file and its schema: InitDB of internal/storage/storage.go,*)
(* which every mode of the program runs first.  Processes may run it at the*)
(* same time (a status bar starts one every second), and one may die       *)
(* between two statements.                                                 *)
(*                                                                         *)
(* A migration is a list of statements, each a transaction of its own, and *)
(* the INSERT that records its version is one more.  The statements are    *)
(* CREATE ... IF NOT EXISTS, INSERT OR IGNORE, an UPDATE of what is NULL,  *)
(* and ALTER TABLE ADD COLUMN, whose error the second time isAlreadyExists *)
(* swallows: a statement that was run can be run again.                    *)
(***************************************************************************)
EXTENDS Naturals

CONSTANTS Procs,      \* processes, each started once, in the order of their numbers
          Last,       \* the newest version in `migrations'
          Length,     \* per version, its number of statements
          Faults,     \* kinds of failure looked at
          MaxFaults   \* bound: failures

ASSUME ProcsAssumption == Procs \subseteq Nat
ASSUME LastAssumption == Last \in Nat
ASSUME LengthAssumption == Length \in [1..Last -> Nat \ {0}]
ASSUME MaxFaultsAssumption == MaxFaults \in Nat

VARIABLES
  applied,   \* per version, how many of its statements have taken effect
  recorded,  \* the versions in schema_version
  at,        \* per process, what it does next
  version,   \* ... the migration it is in
  stmt,      \* ... the statement of it to run
  faults     \* failures so far

dbVars == <<applied, recorded>>
procVars == <<at, version, stmt>>
schemaVars == <<dbVars, procVars, faults>>

Versions == 1..Last

\* InitDB, and what the program does before and after it.
InInitDB == {"open", "read", "run", "record"}

SchemaTypeOK(places) ==
  /\ applied \in [Versions -> Nat]
  /\ recorded \subseteq Versions
  /\ at \in [Procs -> places]
  /\ version \in [Procs -> 0..(Last + 1)]
  /\ stmt \in [Procs -> Nat]
  /\ faults \in 0..MaxFaults

\* The file as some earlier version of the program left it, or none.
SchemaInit ==
  /\ \E k \in 0..Last :
       /\ recorded = 1..k
       /\ applied = [v \in Versions |-> IF v <= k THEN Length[v] ELSE 0]
  /\ at = [p \in Procs |-> "new"]
  /\ version = [p \in Procs |-> 0]
  /\ stmt = [p \in Procs |-> 1]
  /\ faults = 0

Fault(kind) == kind \in Faults /\ faults < MaxFaults /\ faults' = faults + 1

Goto(p, place) == at' = [at EXCEPT ![p] = place]

-------------------------------------------------------------------------------
\* Open, in five attempts and with three pragmas, and ensureSchemaVersionTable.
Open(p) ==
  /\ at[p] = "open"
  /\ Goto(p, "read")
  /\ UNCHANGED <<dbVars, version, stmt, faults>>

\* The migration to run after version v, if there is one.
Migrate(p, v) ==
  /\ version' = [version EXCEPT ![p] = v + 1]
  /\ stmt' = [stmt EXCEPT ![p] = 1]
  /\ Goto(p, IF v < Last THEN "run" ELSE "ready")

\* currentVersion: the newest version recorded, read once.
ReadVersion(p) ==
  /\ at[p] = "read"
  /\ \E v \in recorded \union {0} :
       /\ \A w \in recorded : w <= v
       /\ Migrate(p, v)
  /\ UNCHANGED <<dbVars, faults>>

\* Mutant: an object that exists already is an error.
RunStatementOnce(p) ==
  /\ at[p] = "run"
  /\ IF applied[version[p]] < stmt[p]
     THEN /\ applied' = [applied EXCEPT ![version[p]] = stmt[p]]
          /\ IF stmt[p] < Length[version[p]]
             THEN stmt' = [stmt EXCEPT ![p] = @ + 1] /\ UNCHANGED at
             ELSE Goto(p, "record") /\ UNCHANGED stmt
     ELSE Goto(p, "over") /\ UNCHANGED <<applied, stmt>>
  /\ UNCHANGED <<recorded, version, faults>>

\* Mutant: off by one, the last statement is never reached.
RunStatementShort(p) ==
  /\ at[p] = "run"
  /\ applied' = [applied EXCEPT ![version[p]] = IF @ < stmt[p] THEN stmt[p] ELSE @]
  /\ IF stmt[p] + 1 < Length[version[p]]
     THEN stmt' = [stmt EXCEPT ![p] = @ + 1] /\ UNCHANGED at
     ELSE Goto(p, "record") /\ UNCHANGED stmt
  /\ UNCHANGED <<recorded, version, faults>>

\* One statement of the migration; it changes nothing that is there already.
RunStatement(p) ==
  /\ at[p] = "run"
  /\ applied' = [applied EXCEPT ![version[p]] = IF @ < stmt[p] THEN stmt[p] ELSE @]
  /\ IF stmt[p] < Length[version[p]]
     THEN stmt' = [stmt EXCEPT ![p] = @ + 1] /\ UNCHANGED at
     ELSE Goto(p, "record") /\ UNCHANGED stmt
  /\ UNCHANGED <<recorded, version, faults>>

\* INSERT INTO schema_version, and the next migration.
Record(p) ==
  /\ at[p] = "record" /\ version[p] \notin recorded
  /\ recorded' = recorded \union {version[p]}
  /\ Migrate(p, version[p])
  /\ UNCHANGED <<applied, faults>>

\* The version is the primary key: another process has recorded it meanwhile.
RecordFails(p, next) ==
  /\ at[p] = "record" /\ version[p] \in recorded
  /\ Goto(p, next)
  /\ UNCHANGED <<dbVars, version, stmt, faults>>

\* A statement fails; InitDB closes the file and returns the error.
StatementFails(p, next) ==
  /\ at[p] \in InInitDB
  /\ Fault("sql")
  /\ Goto(p, next)
  /\ UNCHANGED <<dbVars, version, stmt>>

\* InitDB; on an error the program goes on at `next'.
InitDB(p, next) ==
  \/ Open(p) \/ ReadVersion(p) \/ RunStatement(p) \/ Record(p) \/ RecordFails(p, next)

-------------------------------------------------------------------------------
\* A recorded version is in the file as a whole, and so is every earlier one.
RecordedIsDone ==
  \A v \in recorded : applied[v] = Length[v] /\ \A w \in 1..v : w \in recorded

(* Whoever got past InitDB works on the newest schema, however many        *)
(* processes migrate the file at once and wherever one of them died; and   *)
(* schema_version never claims more than the file has.                     *)
Migrated(past) ==
  /\ RecordedIsDone
  /\ \A p \in Procs : at[p] \in past => recorded = Versions

(* A failure apart, of the processes that open the file one gets to use it:*)
(* each of them may lose the race to record a version, not all, and a file *)
(* left half migrated is no obstacle.                                      *)
SomebodyStarts ==
  \A n \in 0..MaxFaults :
    ((\E p \in Procs : at[p] = "open") /\ faults = n)
      ~> ((\E p \in Procs : at[p] = "ready") \/ faults > n)
===============================================================================
