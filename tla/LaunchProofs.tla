----------------------------- MODULE LaunchProofs -----------------------------
(***************************************************************************)
(* Proofs about Launch, for any number of processes, of migrations and of  *)
(* statements in them: InitDB leaves the newest schema behind whoever runs *)
(* it and wherever a process dies, and one tray holds the mutex.           *)
(***************************************************************************)
EXTENDS Launch, TLAPS

USE LastAssumption, LengthAssumption, MaxFaultsAssumption, NobodyAssumption DEF Versions

\* No migration has more statements applied than it has.
AppliedBounded == \A v \in Versions : applied[v] <= Length[v]

\* Whoever runs a migration found, or made, every earlier one complete, and has
\* run its statements up to the one it is at.
MigratesInOrder ==
  \A p \in Procs :
    at[p] \in {"run", "record"} =>
      /\ version[p] \in Versions
      /\ \A w \in 1..(version[p] - 1) : w \in recorded
      /\ stmt[p] \in 1..Length[version[p]]
      /\ at[p] = "run" => stmt[p] <= applied[version[p]] + 1
      /\ at[p] = "record" => Length[version[p]] <= applied[version[p]]

SchemaInv == AppliedBounded /\ MigratesInOrder /\ SchemaIsCurrent

\* The primary that has the mutex.
Owns(p) == mode[p] = "tray" /\ at[p] \in Primary /\ p \notin alone

\* It has a handle, and no process is a tray before it has looked at the mutex.
OwnerHasHandle ==
  \A p \in Procs :
    /\ Owns(p) => p \in handles
    /\ at[p] = "new" => mode[p] = "other"

IInv == TypeOK /\ SchemaInv /\ OwnerHasHandle /\ OneTray

-------------------------------------------------------------------------------
LEMMA InitInv == Init => IInv
<1> SUFFICES ASSUME Init PROVE IInv
  OBVIOUS
<1>1. PICK k \in 0..Last : /\ recorded = 1..k
                           /\ applied = [v \in Versions |-> IF v <= k THEN Length[v] ELSE 0]
  BY DEF Init, SchemaInit
<1>2. TypeOK
  BY <1>1 DEF Init, SchemaInit, TypeOK, SchemaTypeOK, Places, InInitDB, Idle
<1>3. AppliedBounded
  BY <1>1 DEF AppliedBounded
<1>4. MigratesInOrder
  BY DEF Init, SchemaInit, MigratesInOrder
<1>5. SchemaIsCurrent
  BY <1>1 DEF Init, SchemaInit, SchemaIsCurrent, Migrated, RecordedIsDone, Past
<1>6. OwnerHasHandle /\ OneTray
  BY DEF Init, SchemaInit, OwnerHasHandle, OneTray, Owns, Primary, InInitDB, Past
<1> QED
  BY <1>2, <1>3, <1>4, <1>5, <1>6 DEF IInv, SchemaInv

-------------------------------------------------------------------------------
(* The schema.                                                             *)

\* Going somewhere outside a migration, and past InitDB only from there,
\* disturbs nothing.
LEMMA MoveKeepsSchema ==
  ASSUME NEW p \in Procs, NEW place, TypeOK, SchemaInv,
         Goto(p, place), UNCHANGED <<dbVars, version, stmt>>,
         place \notin {"run", "record"}, place \in Past => at[p] \in Past
  PROVE  SchemaInv'
BY DEF TypeOK, SchemaTypeOK, SchemaInv, AppliedBounded, MigratesInOrder, SchemaIsCurrent,
       Migrated, RecordedIsDone, Goto, dbVars

\* The step to the migration after v, when v and all before it are recorded.
LEMMA MigrateKeepsSchema ==
  ASSUME NEW p \in Procs, NEW v \in 0..Last, TypeOK, AppliedBounded, MigratesInOrder,
         Migrate(p, v), RecordedIsDone', applied' = applied, recorded \subseteq recorded',
         recorded' \subseteq Versions,
         \A w \in 1..v : w \in recorded',
         \A q \in Procs : at[q] \in Past => recorded = Versions
  PROVE  SchemaInv'
<1> USE DEF TypeOK, SchemaTypeOK, Migrate, Goto
<1>1. AppliedBounded'
  BY DEF AppliedBounded
<1>2. MigratesInOrder'
  <2>1. \A q \in Procs \ {p} : at'[q] = at[q] /\ version'[q] = version[q] /\ stmt'[q] = stmt[q]
    OBVIOUS
  <2>2. at'[p] = "run" => v + 1 \in Versions /\ version'[p] = v + 1 /\ stmt'[p] = 1
        /\ at'[p] \in {"run", "ready"}
    OBVIOUS
  <2> QED
    BY <2>1, <2>2 DEF MigratesInOrder, AppliedBounded
<1>3. \A q \in Procs : at'[q] \in Past => recorded' = Versions
  <2> SUFFICES ASSUME NEW q \in Procs, at'[q] \in Past PROVE recorded' = Versions
    OBVIOUS
  <2>1. CASE q = p
    <3>1. v = Last
      BY <2>1 DEF Past
    <3> QED
      BY <3>1
  <2>2. CASE q # p
    BY <2>2
  <2> QED
    BY <2>1, <2>2
<1> QED
  BY <1>1, <1>2, <1>3 DEF SchemaInv, SchemaIsCurrent, Migrated

LEMMA InitDBKeepsSchema ==
  ASSUME NEW p \in Procs, NEW failed \in {"over", "unlisten"}, TypeOK, SchemaInv,
         InitDB(p, failed)
  PROVE  SchemaInv'
<1> USE DEF SchemaInv
<1>a. AppliedBounded /\ MigratesInOrder /\ RecordedIsDone
      /\ \A q \in Procs : at[q] \in Past => recorded = Versions
  BY DEF SchemaIsCurrent, Migrated
<1>1. CASE Open(p)
  BY <1>1, MoveKeepsSchema DEF Open, Past
<1>2. CASE ReadVersion(p)
  <2>1. PICK v \in recorded \union {0} : (\A w \in recorded : w <= v) /\ Migrate(p, v)
    BY <1>2 DEF ReadVersion
  <2>2. v \in 0..Last
    BY DEF TypeOK, SchemaTypeOK
  <2>3. \A w \in 1..v : w \in recorded
    BY <1>a, <2>2 DEF RecordedIsDone
  <2>4. recorded' = recorded /\ applied' = applied
    BY <1>2 DEF ReadVersion, dbVars
  <2>5. RecordedIsDone' /\ recorded' \subseteq Versions
    BY <1>a, <2>4 DEF RecordedIsDone, TypeOK, SchemaTypeOK
  <2> QED
    BY <1>a, <2>1, <2>2, <2>3, <2>4, <2>5, MigrateKeepsSchema
<1>3. CASE RunStatement(p)
  <2> USE <1>3 DEF RunStatement
  <2>1. /\ version[p] \in Versions /\ stmt[p] \in 1..Length[version[p]]
        /\ stmt[p] <= applied[version[p]] + 1
        /\ \A w \in 1..(version[p] - 1) : w \in recorded
    BY DEF MigratesInOrder
  <2>2. /\ \A v \in Versions : applied[v] <= applied'[v] /\ applied'[v] <= Length[v]
        /\ stmt[p] <= applied'[version[p]]
    <3>1. applied' = [applied EXCEPT ![version[p]] =
                        IF applied[version[p]] < stmt[p] THEN stmt[p] ELSE applied[version[p]]]
      OBVIOUS
    <3>2. /\ applied \in [Versions -> Nat] /\ stmt[p] \in Nat
          /\ \A v \in Versions : applied[v] <= Length[v] /\ Length[v] \in Nat
      BY <2>1 DEF TypeOK, SchemaTypeOK, AppliedBounded
    <3> HIDE <1>3 DEF RunStatement, SchemaInv
    <3> QED
      BY <2>1, <3>1, <3>2
  <2>3. AppliedBounded'
    BY <2>2 DEF AppliedBounded
  <2>4. \A q \in Procs \ {p} : at'[q] = at[q] /\ stmt'[q] = stmt[q]
    BY DEF Goto, TypeOK, SchemaTypeOK
  <2>5. MigratesInOrder'
    <3> SUFFICES ASSUME NEW q \in Procs, at'[q] \in {"run", "record"}
                 PROVE /\ version[q] \in Versions
                       /\ \A w \in 1..(version[q] - 1) : w \in recorded
                       /\ stmt'[q] \in 1..Length[version[q]]
                       /\ at'[q] = "run" => stmt'[q] <= applied'[version[q]] + 1
                       /\ at'[q] = "record" => Length[version[q]] <= applied'[version[q]]
      BY DEF MigratesInOrder
    <3>1. CASE q = p
      <4>1. /\ stmt[p] \in Nat /\ Length[version[p]] \in Nat /\ applied'[version[p]] \in Nat
            /\ at[p] = "run" /\ p \in DOMAIN at /\ p \in DOMAIN stmt
            /\ stmt[p] >= 1 /\ stmt[p] <= applied'[version[p]]
        BY <2>1, <2>2 DEF TypeOK, SchemaTypeOK
      <4>2. CASE /\ stmt[p] < Length[version[p]]
                 /\ stmt' = [stmt EXCEPT ![p] = stmt[p] + 1] /\ UNCHANGED at
        <5>1. stmt'[p] = stmt[p] + 1 /\ at'[p] = "run" /\ stmt[p] < Length[version[p]]
          BY <4>1, <4>2
        <5> HIDE <1>3 DEF RunStatement, SchemaInv
        <5>2. stmt'[p] \in 1..Length[version[p]] /\ stmt'[p] <= applied'[version[p]] + 1
          BY <4>1, <5>1
        <5> QED
          BY <2>1, <3>1, <5>1, <5>2
      <4>3. CASE /\ ~ stmt[p] < Length[version[p]]
                 /\ at' = [at EXCEPT ![p] = "record"] /\ UNCHANGED stmt
        <5>1. stmt'[p] = stmt[p] /\ at'[p] = "record" /\ ~ stmt[p] < Length[version[p]]
          BY <4>1, <4>3
        <5> HIDE <1>3 DEF RunStatement, SchemaInv
        <5>2. Length[version[p]] <= applied'[version[p]]
          BY <4>1, <5>1
        <5> QED
          BY <2>1, <3>1, <5>1, <5>2
      <4> QED
        BY <4>2, <4>3 DEF Goto
    <3>2. CASE q # p
      <4>1. at[q] = at'[q] /\ stmt'[q] = stmt[q]
        BY <3>2, <2>4
      <4>2. /\ version[q] \in Versions /\ stmt[q] \in 1..Length[version[q]]
            /\ \A w \in 1..(version[q] - 1) : w \in recorded
            /\ at[q] = "run" => stmt[q] <= applied[version[q]] + 1
            /\ at[q] = "record" => Length[version[q]] <= applied[version[q]]
        BY <4>1 DEF MigratesInOrder
      <4>3. /\ applied[version[q]] \in Nat /\ applied'[version[q]] \in Nat
            /\ applied[version[q]] <= applied'[version[q]]
            /\ stmt[q] \in Nat /\ Length[version[q]] \in Nat
        BY <4>2, <2>2 DEF TypeOK, SchemaTypeOK
      <4> HIDE DEF RunStatement
      <4> HIDE <1>3
      <4> QED
        BY <4>1, <4>2, <4>3
    <3> QED
      BY <3>1, <3>2
  <2>6. RecordedIsDone'
    BY <1>a, <2>2 DEF RecordedIsDone, TypeOK, SchemaTypeOK
  <2>7. \A q \in Procs : at'[q] \in Past => at[q] \in Past
    BY DEF Goto, TypeOK, SchemaTypeOK, Past
  <2> QED
    BY <1>a, <2>3, <2>5, <2>6, <2>7 DEF SchemaIsCurrent, Migrated
<1>4. CASE Record(p)
  <2> DEFINE v == version[p]
  <2>1. /\ v \in Versions /\ Length[v] <= applied[v] /\ \A w \in 1..(v - 1) : w \in recorded
    BY <1>4 DEF Record, MigratesInOrder
  <2>2. applied[v] = Length[v]
    BY <2>1 DEF AppliedBounded, TypeOK, SchemaTypeOK
  <2>3. recorded' = recorded \union {v} /\ applied' = applied /\ Migrate(p, v)
    BY <1>4 DEF Record
  <2>4. \A w \in 1..v : w \in recorded'
    BY <2>1, <2>3
  <2>5. RecordedIsDone'
    BY <1>a, <2>2, <2>3, <2>4 DEF RecordedIsDone
  <2> HIDE DEF v
  <2>6. recorded' \subseteq Versions
    BY <2>1, <2>3 DEF TypeOK, SchemaTypeOK
  <2>7. v \in 0..Last
    BY <2>1
  <2> QED
    BY <1>a, <2>3, <2>4, <2>5, <2>6, <2>7, MigrateKeepsSchema
<1>5. CASE RecordFails(p, failed)
  BY <1>5, MoveKeepsSchema DEF RecordFails, Past
<1> QED
  BY <1>1, <1>2, <1>3, <1>4, <1>5 DEF InitDB

-------------------------------------------------------------------------------
(* The types, and the mutex.                                               *)

Busy == [at : {"app", "create", "post"}, of : Procs, app : 0..2]
Windows == Procs \X (0..2)

LEMMA StayKeepsSchemaTypes ==
  ASSUME TypeOK, UNCHANGED schemaVars
  PROVE  SchemaTypeOK(Places)'
BY DEF TypeOK, SchemaTypeOK, schemaVars, dbVars, procVars

LEMMA FaultyMoveKeepsSchemaTypes ==
  ASSUME NEW p \in Procs, NEW place \in Places, TypeOK, Move(p, place),
         faults' = faults \/ \E kind : Fault(kind)
  PROVE  SchemaTypeOK(Places)'
<1>1. at' \in [Procs -> Places] /\ UNCHANGED <<applied, recorded, version, stmt>>
  BY DEF TypeOK, SchemaTypeOK, Move, Goto, dbVars
<1>2. faults' \in 0..MaxFaults
  BY DEF TypeOK, SchemaTypeOK, Fault
<1> QED
  BY <1>1, <1>2 DEF TypeOK, SchemaTypeOK

LEMMA AppTypes ==
  ASSUME TypeOK
  PROVE  /\ server \in [Procs -> {Idle} \union Busy] /\ fyneApp \in [Procs -> 0..2]
         /\ running \in [Procs -> 0..2] /\ posted \in [Procs -> SUBSET Windows]
         /\ inbox \in [Procs -> SUBSET Procs] /\ opened \subseteq Procs
BY DEF TypeOK, Busy, Windows

LEMMA InitDBKeepsRest ==
  ASSUME NEW p \in Procs, TypeOK, SchemaInv, OwnerHasHandle, OneTray,
         InitDB(p, Failed(p)) \/ StatementFails(p, Failed(p)),
         UNCHANGED <<launchVars, ipcVars, appVars>>
  PROVE  TypeOK' /\ OwnerHasHandle' /\ OneTray'
<1>1. /\ applied' \in [Versions -> Nat] /\ recorded' \subseteq Versions
      /\ version' \in [Procs -> 0..(Last + 1)] /\ stmt' \in [Procs -> Nat]
      /\ faults' \in 0..MaxFaults
  <2>0. /\ applied \in [Versions -> Nat] /\ recorded \subseteq Versions
        /\ version \in [Procs -> 0..(Last + 1)] /\ stmt \in [Procs -> Nat]
        /\ faults \in 0..MaxFaults
    BY DEF TypeOK, SchemaTypeOK
  <2>1. CASE Open(p) \/ RecordFails(p, Failed(p)) \/ StatementFails(p, Failed(p))
    <3>1. UNCHANGED <<applied, recorded, version, stmt>>
      BY <2>1 DEF Open, RecordFails, StatementFails, dbVars
    <3>2. faults' = faults \/ (faults < MaxFaults /\ faults' = faults + 1)
      BY <2>1 DEF Open, RecordFails, StatementFails, Fault
    <3> QED
      BY <2>0, <3>1, <3>2
  <2>2. CASE ReadVersion(p)
    <3>1. PICK v \in recorded \union {0} : Migrate(p, v)
      BY <2>2 DEF ReadVersion
    <3>2. v + 1 \in 0..(Last + 1)
      BY <2>0
    <3>3. applied' = applied /\ recorded' = recorded /\ faults' = faults
      BY <2>2 DEF ReadVersion, dbVars
    <3> QED
      BY <2>0, <3>1, <3>2, <3>3 DEF Migrate
  <2>3. CASE RunStatement(p)
    <3>1. /\ applied' = [applied EXCEPT ![version[p]] =
                           IF applied[version[p]] < stmt[p] THEN stmt[p] ELSE applied[version[p]]]
          /\ stmt' = stmt \/ stmt' = [stmt EXCEPT ![p] = stmt[p] + 1]
          /\ recorded' = recorded /\ version' = version /\ faults' = faults
      BY <2>3 DEF RunStatement
    <3>2. version[p] \in Versions
      BY <2>3 DEF RunStatement, SchemaInv, MigratesInOrder
    <3>3. applied' \in [Versions -> Nat]
      BY <2>0, <3>1, <3>2
    <3>4. stmt' \in [Procs -> Nat]
      BY <2>0, <3>1
    <3> QED
      BY <2>0, <3>1, <3>3, <3>4
  <2>4. CASE Record(p)
    <3>1. version[p] \in Versions
      BY <2>4 DEF Record, SchemaInv, MigratesInOrder
    <3>2. version[p] + 1 \in 0..(Last + 1)
      BY <3>1
    <3>3. /\ version' = [version EXCEPT ![p] = version[p] + 1] /\ stmt' = [stmt EXCEPT ![p] = 1]
          /\ applied' = applied /\ recorded' = recorded \union {version[p]} /\ faults' = faults
      BY <2>4 DEF Record, Migrate
    <3> QED
      BY <2>0, <3>1, <3>2, <3>3
  <2> QED
    BY <2>1, <2>2, <2>3, <2>4 DEF InitDB
<1>2. \E place \in InInitDB \union {"ready", Failed(p)} : at' = [at EXCEPT ![p] = place]
  BY DEF InitDB, StatementFails, Open, ReadVersion, RunStatement, Record, RecordFails, Migrate,
         Goto, InInitDB, TypeOK, SchemaTypeOK
<1>3. at[p] \in InInitDB
  BY DEF InitDB, StatementFails, Open, ReadVersion, RunStatement, Record, RecordFails, InInitDB
<1>4. TypeOK'
  <2>1. InInitDB \union {"ready", Failed(p)} \subseteq Places
    BY DEF Places, InInitDB, Failed
  <2>2. at' \in [Procs -> Places]
    BY <1>2, <2>1 DEF TypeOK, SchemaTypeOK
  <2> QED
    BY <1>1, <2>2 DEF TypeOK, SchemaTypeOK, launchVars, ipcVars, appVars
<1>5. OwnerHasHandle' /\ OneTray'
  BY <1>2, <1>3 DEF OwnerHasHandle, OneTray, Owns, Primary, InInitDB, Past, Failed,
                    TypeOK, SchemaTypeOK, launchVars, ipcVars
<1> QED
  BY <1>4, <1>5

\* A step that is not InitDB's goes to another place, or stays.
LEMMA StayKeepsSchema ==
  ASSUME SchemaInv, UNCHANGED <<dbVars, procVars>>
  PROVE  SchemaInv'
BY DEF SchemaInv, AppliedBounded, MigratesInOrder, SchemaIsCurrent, Migrated, RecordedIsDone,
       dbVars, procVars

\* The rest of the invariant when process p moves, the mutex and the modes unchanged.
LEMMA MoveKeepsOwner ==
  ASSUME NEW p \in Procs, NEW place, TypeOK, OwnerHasHandle, OneTray,
         Goto(p, place), place # "new", place \in Primary => at[p] \in Primary,
         mode' = mode, alone \subseteq alone', handles \ {p} \subseteq handles',
         p \in handles /\ p \notin handles' => place \notin Primary \/ p \in alone'
  PROVE  OwnerHasHandle' /\ OneTray'
BY DEF OwnerHasHandle, OneTray, Owns, Goto, TypeOK, SchemaTypeOK

LEMMA StayKeepsOwner ==
  ASSUME OwnerHasHandle, OneTray, UNCHANGED <<at, mode, alone, handles>>
  PROVE  OwnerHasHandle' /\ OneTray'
BY DEF OwnerHasHandle, OneTray, Owns

LEMMA StepInv == IInv /\ [Next]_vars => IInv'
<1> SUFFICES ASSUME IInv, [Next]_vars PROVE IInv'
  OBVIOUS
<1>a. TypeOK /\ SchemaInv /\ OwnerHasHandle /\ OneTray
  BY DEF IInv
<1>1. ASSUME NEW p \in Procs, NEW withPath \in BOOLEAN, CreateMutex(p, withPath) PROVE IInv'
  <2> USE <1>1 DEF CreateMutex, Move
  <2>1. PICK place \in {"listen", "second"} :
          Goto(p, place) /\ (place = "listen" => handles = {})
    OBVIOUS
  <2>2. TypeOK'
    BY <1>a, <2>1 DEF TypeOK, SchemaTypeOK, Places, dbVars, appVars, Goto
  <2>3. SchemaInv'
    BY <1>a, <2>1, MoveKeepsSchema DEF Past
  <2>4. /\ \A q \in Procs \ {p} : at'[q] = at[q] /\ mode'[q] = mode[q]
        /\ at'[p] = place /\ alone' = alone /\ handles' = handles \union {p}
    BY <1>a, <2>1 DEF TypeOK, SchemaTypeOK, Goto
  <2>5. OwnerHasHandle' /\ OneTray'
    BY <1>a, <2>1, <2>4 DEF OwnerHasHandle, OneTray, Owns, Primary, InInitDB, Past
  <2> QED
    BY <2>2, <2>3, <2>5 DEF IInv
<1>2. ASSUME NEW p \in Procs, StartOther(p) PROVE IInv'
  <2> DEFINE place == "open"
  <2>1. Goto(p, place) /\ UNCHANGED <<dbVars, version, stmt>>
    BY <1>2 DEF StartOther, Move
  <2>2. TypeOK'
    BY <1>a, <1>2 DEF StartOther, Move, Goto, TypeOK, SchemaTypeOK, Places, InInitDB, Fault,
       dbVars, launchVars, ipcVars, appVars
  <2>3. SchemaInv'
    BY <1>a, <2>1, MoveKeepsSchema DEF Past
  <2>4. OwnerHasHandle' /\ OneTray'
    BY <1>a, <1>2, <2>1 DEF StartOther, Starts, OwnerHasHandle, OneTray, Owns, Goto, launchVars, ipcVars,
       TypeOK, SchemaTypeOK
  <2> QED
    BY <2>2, <2>3, <2>4 DEF IInv
<1>3. ASSUME NEW p \in Procs, ListenPipe(p) PROVE IInv'
  <2> DEFINE place == "open"
  <2>1. Goto(p, place) /\ UNCHANGED <<dbVars, version, stmt>>
    BY <1>3 DEF ListenPipe, Move
  <2>2. TypeOK'
    <3>1. at' \in [Procs -> Places]
      BY <1>a, <2>1 DEF Goto, TypeOK, SchemaTypeOK, Places, InInitDB
    <3> QED
      BY <1>a, <1>3, <2>1, <3>1 DEF ListenPipe, TypeOK, SchemaTypeOK, dbVars, launchVars, appVars
  <2>3. SchemaInv'
    BY <1>a, <1>3, <2>1, MoveKeepsSchema DEF ListenPipe, Past
  <2>4. OwnerHasHandle' /\ OneTray'
    BY <1>a, <1>3, <2>1, MoveKeepsOwner
       DEF ListenPipe, Primary, Past, InInitDB, TypeOK, launchVars, ipcVars
  <2> QED
    BY <2>2, <2>3, <2>4 DEF IInv
<1>4. ASSUME NEW p \in Procs, ListenFails(p) PROVE IInv'
  <2> DEFINE place == "open"
  <2>1. Goto(p, place) /\ UNCHANGED <<dbVars, version, stmt>>
    BY <1>4 DEF ListenFails, Move
  <2>2. TypeOK'
    <3>1. at' \in [Procs -> Places]
      BY <1>a, <2>1 DEF Goto, TypeOK, SchemaTypeOK, Places, InInitDB
    <3> QED
      BY <1>a, <1>4, <2>1, <3>1 DEF ListenFails, TypeOK, SchemaTypeOK, Fault, dbVars, appVars
  <2>3. SchemaInv'
    BY <1>a, <1>4, <2>1, MoveKeepsSchema DEF ListenFails, Past
  <2>4. OwnerHasHandle' /\ OneTray'
    BY <1>a, <1>4, <2>1, MoveKeepsOwner
       DEF ListenFails, Primary, Past, InInitDB, TypeOK, launchVars, ipcVars
  <2> QED
    BY <2>2, <2>3, <2>4 DEF IInv
<1>5. ASSUME NEW p \in Procs, BowOut(p) PROVE IInv'
  <2> DEFINE place == IF path[p] THEN "forward" ELSE "over"
  <2>1. Goto(p, place) /\ UNCHANGED <<dbVars, version, stmt>>
    BY <1>5 DEF BowOut, Move
  <2>2. TypeOK'
    BY <1>a, <1>5 DEF BowOut, Move, Goto, TypeOK, SchemaTypeOK, Places, InInitDB, Fault,
       dbVars, launchVars, ipcVars, appVars
  <2>3. SchemaInv'
    BY <1>a, <1>5, <2>1, MoveKeepsSchema DEF BowOut, Past
  <2>4. OwnerHasHandle' /\ OneTray'
    BY <1>a, <1>5, <2>1, MoveKeepsOwner
       DEF BowOut, Primary, Past, InInitDB, TypeOK, launchVars, ipcVars
  <2> QED
    BY <2>2, <2>3, <2>4 DEF IInv
<1>6. ASSUME NEW p \in Procs, Forward(p) PROVE IInv'
  <2> DEFINE place == "over"
  <2>1. Goto(p, place) /\ UNCHANGED <<dbVars, version, stmt>>
    BY <1>6 DEF Forward, Move
  <2>2. TypeOK'
    BY <1>a, <1>6 DEF Forward, Move, Goto, TypeOK, SchemaTypeOK, Places, InInitDB, Fault,
       dbVars, launchVars, ipcVars, appVars
  <2>3. SchemaInv'
    BY <1>a, <1>6, <2>1, MoveKeepsSchema DEF Forward, Past
  <2>4. OwnerHasHandle' /\ OneTray'
    BY <1>a, <1>6, <2>1, MoveKeepsOwner
       DEF Forward, Primary, Past, InInitDB, TypeOK, launchVars, ipcVars
  <2> QED
    BY <2>2, <2>3, <2>4 DEF IInv
<1>7. ASSUME NEW p \in Procs, ForwardFails(p) PROVE IInv'
  <2> DEFINE place == "over"
  <2>1. Goto(p, place) /\ UNCHANGED <<dbVars, version, stmt>>
    BY <1>7 DEF ForwardFails, Move
  <2>2. TypeOK'
    <3>1. SchemaTypeOK(Places)'
      BY <1>a, <1>7, FaultyMoveKeepsSchemaTypes DEF ForwardFails, Places
    <3> QED
      BY <1>a, <1>7, <3>1 DEF ForwardFails, TypeOK, launchVars, ipcVars, appVars
  <2>3. SchemaInv'
    BY <1>a, <1>7, <2>1, MoveKeepsSchema DEF ForwardFails, Past
  <2>4. OwnerHasHandle' /\ OneTray'
    BY <1>a, <1>7, <2>1, MoveKeepsOwner
       DEF ForwardFails, Primary, Past, InInitDB, TypeOK, launchVars, ipcVars
  <2> QED
    BY <2>2, <2>3, <2>4 DEF IInv
<1>8. ASSUME NEW p \in Procs, FinishOther(p) PROVE IInv'
  <2> DEFINE place == "over"
  <2>1. Goto(p, place) /\ UNCHANGED <<dbVars, version, stmt>>
    BY <1>8 DEF FinishOther, Move
  <2>2. TypeOK'
    BY <1>a, <1>8 DEF FinishOther, Move, Goto, TypeOK, SchemaTypeOK, Places, InInitDB, Fault,
       dbVars, launchVars, ipcVars, appVars
  <2>3. SchemaInv'
    BY <1>a, <1>8, <2>1, MoveKeepsSchema DEF FinishOther, Past
  <2>4. OwnerHasHandle' /\ OneTray'
    BY <1>a, <1>8, <2>1, MoveKeepsOwner
       DEF FinishOther, Primary, Past, InInitDB, TypeOK, launchVars, ipcVars
  <2> QED
    BY <2>2, <2>3, <2>4 DEF IInv
<1>9. ASSUME NEW p \in Procs, MainReadsApp(p) PROVE IInv'
  <2> DEFINE place == IF fyneApp[p] = 0 THEN "create" ELSE "loop"
  <2>1. Goto(p, place) /\ UNCHANGED <<dbVars, version, stmt>>
    BY <1>9 DEF MainReadsApp, Move
  <2>2. TypeOK'
    BY <1>a, <1>9 DEF MainReadsApp, Move, Goto, TypeOK, SchemaTypeOK, Places, InInitDB, Fault,
       dbVars, launchVars, ipcVars, appVars
  <2>3. SchemaInv'
    BY <1>a, <1>9, <2>1, MoveKeepsSchema DEF MainReadsApp, Past
  <2>4. OwnerHasHandle' /\ OneTray'
    BY <1>a, <1>9, <2>1, MoveKeepsOwner
       DEF MainReadsApp, Primary, Past, InInitDB, TypeOK, launchVars, ipcVars
  <2> QED
    BY <2>2, <2>3, <2>4 DEF IInv
<1>10. ASSUME NEW p \in Procs, MainCreatesApp(p) PROVE IInv'
  <2> DEFINE place == "loop"
  <2>1. Goto(p, place) /\ UNCHANGED <<dbVars, version, stmt>>
    BY <1>10 DEF MainCreatesApp, Move
  <2>2. TypeOK'
    <3>1. SchemaTypeOK(Places)'
      BY <1>a, <1>10, FaultyMoveKeepsSchemaTypes DEF MainCreatesApp, Places
    <3> QED
      BY <1>a, <1>10, <3>1 DEF MainCreatesApp, TypeOK, launchVars, ipcVars, appVars
  <2>3. SchemaInv'
    BY <1>a, <1>10, <2>1, MoveKeepsSchema DEF MainCreatesApp, Past
  <2>4. OwnerHasHandle' /\ OneTray'
    BY <1>a, <1>10, <2>1, MoveKeepsOwner
       DEF MainCreatesApp, Primary, Past, InInitDB, TypeOK, launchVars, ipcVars
  <2> QED
    BY <2>2, <2>3, <2>4 DEF IInv
<1>11. ASSUME NEW p \in Procs, Quit(p) PROVE IInv'
  <2> DEFINE place == IF p \in alone THEN "over" ELSE "unlisten"
  <2>1. Goto(p, place) /\ UNCHANGED <<dbVars, version, stmt>>
    BY <1>11 DEF Quit, Move
  <2>2. TypeOK'
    BY <1>a, <1>11 DEF Quit, Move, Goto, TypeOK, SchemaTypeOK, Places, InInitDB, Fault,
       dbVars, launchVars, ipcVars, appVars
  <2>3. SchemaInv'
    BY <1>a, <1>11, <2>1, MoveKeepsSchema DEF Quit, Past
  <2>4. OwnerHasHandle' /\ OneTray'
    BY <1>a, <1>11, <2>1, MoveKeepsOwner
       DEF Quit, Primary, Past, InInitDB, TypeOK, launchVars, ipcVars
  <2> QED
    BY <2>2, <2>3, <2>4 DEF IInv
<1>12. ASSUME NEW p \in Procs, Unlisten(p) PROVE IInv'
  <2> DEFINE place == "release"
  <2>1. Goto(p, place) /\ UNCHANGED <<dbVars, version, stmt>>
    BY <1>12 DEF Unlisten, Move
  <2>2. TypeOK'
    BY <1>a, <1>12 DEF Unlisten, Move, Goto, TypeOK, SchemaTypeOK, Places, InInitDB, Fault,
       dbVars, launchVars, ipcVars, appVars
  <2>3. SchemaInv'
    BY <1>a, <1>12, <2>1, MoveKeepsSchema DEF Unlisten, Past
  <2>4. OwnerHasHandle' /\ OneTray'
    BY <1>a, <1>12, <2>1, MoveKeepsOwner
       DEF Unlisten, Primary, Past, InInitDB, TypeOK, launchVars, ipcVars
  <2> QED
    BY <2>2, <2>3, <2>4 DEF IInv
<1>13. ASSUME NEW p \in Procs, Release(p) PROVE IInv'
  <2> DEFINE place == "over"
  <2>1. Goto(p, place) /\ UNCHANGED <<dbVars, version, stmt>>
    BY <1>13 DEF Release, Move
  <2>2. TypeOK'
    BY <1>a, <1>13 DEF Release, Move, Goto, TypeOK, SchemaTypeOK, Places, InInitDB, Fault,
       dbVars, launchVars, ipcVars, appVars
  <2>3. SchemaInv'
    BY <1>a, <1>13, <2>1, MoveKeepsSchema DEF Release, Past
  <2>4. OwnerHasHandle' /\ OneTray'
    BY <1>a, <1>13, <2>1, MoveKeepsOwner
       DEF Release, Primary, Past, InInitDB, TypeOK, launchVars, ipcVars
  <2> QED
    BY <2>2, <2>3, <2>4 DEF IInv
<1>14. ASSUME NEW p \in Procs, Crash(p) PROVE IInv'
  <2> DEFINE place == "over"
  <2>1. Goto(p, place) /\ UNCHANGED <<dbVars, version, stmt>>
    BY <1>14 DEF Crash, Move
  <2>2. TypeOK'
    <3>1. SchemaTypeOK(Places)'
      BY <1>a, <1>14, FaultyMoveKeepsSchemaTypes DEF Crash, Places
    <3> QED
      BY <1>a, <1>14, <3>1 DEF Crash, TypeOK, launchVars, ipcVars, appVars
  <2>3. SchemaInv'
    BY <1>a, <1>14, <2>1, MoveKeepsSchema DEF Crash, Past
  <2>4. OwnerHasHandle' /\ OneTray'
    BY <1>a, <1>14, <2>1, MoveKeepsOwner
       DEF Crash, Primary, Past, InInitDB, TypeOK, launchVars, ipcVars
  <2> QED
    BY <2>2, <2>3, <2>4 DEF IInv
<1>15. ASSUME NEW p \in Procs, Accept(p) PROVE IInv'
  <2>1. UNCHANGED <<dbVars, procVars, at, mode, alone, handles>>
    BY <1>15 DEF Accept, schemaVars, procVars, launchVars, ipcVars
  <2>2. TypeOK'
    <3>1. SchemaTypeOK(Places)'
      BY <1>a, <1>15, StayKeepsSchemaTypes DEF Accept
    <3>2. inbox' \in [Procs -> SUBSET Procs]
      BY <1>a, <1>15, AppTypes DEF Accept
    <3>3. server' \in [Procs -> {Idle} \union Busy]
      <4>1. PICK m \in Procs : server' = [server EXCEPT ![p] = [at |-> "app", of |-> m, app |-> 0]]
        BY <1>a, <1>15, AppTypes DEF Accept
      <4>2. [at |-> "app", of |-> m, app |-> 0] \in Busy
        BY DEF Busy
      <4> QED
        BY <1>a, <4>1, <4>2, AppTypes
    <3> QED
      BY <1>a, <1>15, <3>1, <3>2, <3>3 DEF Accept, TypeOK, Busy, Windows, launchVars, ipcVars
  <2> QED
    BY <1>a, <2>1, <2>2, StayKeepsSchema, StayKeepsOwner DEF IInv
<1>16. ASSUME NEW p \in Procs, ServerReadsApp(p) PROVE IInv'
  <2>1. UNCHANGED <<dbVars, procVars, at, mode, alone, handles>>
    BY <1>16 DEF ServerReadsApp, schemaVars, procVars, launchVars, ipcVars
  <2>2. TypeOK'
    <3>1. SchemaTypeOK(Places)'
      BY <1>a, <1>16, StayKeepsSchemaTypes DEF ServerReadsApp
    <3>2. server' \in [Procs -> {Idle} \union Busy]
      <4> DEFINE new == [at |-> IF fyneApp[p] = 0 THEN "create" ELSE "post",
                         of |-> server[p].of, app |-> fyneApp[p]]
      <4>1. server[p] \in Busy
        <5>1. server[p] \in {Idle} \union Busy
          BY <1>a, AppTypes
        <5>2. server[p].at # "idle"
          BY <1>16 DEF ServerReadsApp
        <5> QED
          BY <5>1, <5>2 DEF Idle
      <4>2. server' = [server EXCEPT ![p] = new]
        BY <1>16 DEF ServerReadsApp
      <4>3. new \in Busy
        BY <1>a, <4>1, AppTypes DEF Busy
      <4> HIDE DEF new
      <4> QED
        BY <1>a, <4>2, <4>3, AppTypes
    <3> QED
      BY <1>a, <1>16, <3>1, <3>2 DEF ServerReadsApp, TypeOK, Busy, Windows, launchVars, ipcVars
  <2> QED
    BY <1>a, <2>1, <2>2, StayKeepsSchema, StayKeepsOwner DEF IInv
<1>17. ASSUME NEW p \in Procs, ServerCreatesApp(p) PROVE IInv'
  <2>1. UNCHANGED <<dbVars, procVars, at, mode, alone, handles>>
    BY <1>17 DEF ServerCreatesApp, schemaVars, procVars, launchVars, ipcVars
  <2>2. TypeOK'
    <3>1. SchemaTypeOK(Places)'
      BY <1>a, <1>17, StayKeepsSchemaTypes DEF ServerCreatesApp
    <3>2. server' \in [Procs -> {Idle} \union Busy]
      <4> DEFINE new == [at |-> "post", of |-> server[p].of, app |-> 2]
      <4>1. server[p] \in Busy
        <5>1. server[p] \in {Idle} \union Busy
          BY <1>a, AppTypes
        <5>2. server[p].at # "idle"
          BY <1>17 DEF ServerCreatesApp
        <5> QED
          BY <5>1, <5>2 DEF Idle
      <4>2. server' = [server EXCEPT ![p] = new]
        BY <1>17 DEF ServerCreatesApp
      <4>3. new \in Busy
        BY <4>1 DEF Busy
      <4> HIDE DEF new
      <4> QED
        BY <1>a, <4>2, <4>3, AppTypes
    <3>3. fyneApp' \in [Procs -> 0..2]
      BY <1>a, <1>17, AppTypes DEF ServerCreatesApp
    <3> QED
      BY <1>a, <1>17, <3>1, <3>2, <3>3 DEF ServerCreatesApp, TypeOK, Busy, Windows, launchVars, ipcVars
  <2> QED
    BY <1>a, <2>1, <2>2, StayKeepsSchema, StayKeepsOwner DEF IInv
<1>18. ASSUME NEW p \in Procs, Post(p) PROVE IInv'
  <2>1. UNCHANGED <<dbVars, procVars, at, mode, alone, handles>>
    BY <1>18 DEF Post, schemaVars, procVars, launchVars, ipcVars
  <2>2. TypeOK'
    <3>1. SchemaTypeOK(Places)'
      BY <1>a, <1>18, StayKeepsSchemaTypes DEF Post
    <3>2. server' \in [Procs -> {Idle} \union Busy]
      BY <1>a, <1>18, AppTypes DEF Post
    <3>3. posted' \in [Procs -> SUBSET Windows]
      <4>1. server[p] \in Busy
        <5>1. server[p] \in {Idle} \union Busy
          BY <1>a, AppTypes
        <5>2. server[p].at # "idle"
          BY <1>18 DEF Post
        <5> QED
          BY <5>1, <5>2 DEF Idle
      <4>2. <<server[p].of, server[p].app>> \in Windows
        BY <4>1 DEF Busy, Windows
      <4> QED
        BY <1>a, <1>18, <4>2, AppTypes DEF Post
    <3> QED
      BY <1>a, <1>18, <3>1, <3>2, <3>3 DEF Post, TypeOK, Busy, Windows, launchVars, ipcVars
  <2> QED
    BY <1>a, <2>1, <2>2, StayKeepsSchema, StayKeepsOwner DEF IInv
<1>19. ASSUME NEW p \in Procs, OpenPending(p) PROVE IInv'
  <2>1. UNCHANGED <<dbVars, procVars, at, mode, alone, handles>>
    BY <1>19 DEF OpenPending, schemaVars, procVars, launchVars, ipcVars
  <2>2. TypeOK'
    <3>1. SchemaTypeOK(Places)'
      BY <1>a, <1>19, StayKeepsSchemaTypes DEF OpenPending
    <3>2. path' \in [Procs -> BOOLEAN]
      BY <1>a, <1>19, AppTypes DEF OpenPending, TypeOK
    <3>3. posted' \in [Procs -> SUBSET Windows]
      BY <1>a, <1>19, AppTypes DEF OpenPending, Windows
    <3> QED
      BY <1>a, <1>19, <3>1, <3>2, <3>3 DEF OpenPending, TypeOK, Busy, Windows, launchVars, ipcVars
  <2> QED
    BY <1>a, <2>1, <2>2, StayKeepsSchema, StayKeepsOwner DEF IInv
<1>20. ASSUME NEW p \in Procs, ShowPreview(p) PROVE IInv'
  <2>1. UNCHANGED <<dbVars, procVars, at, mode, alone, handles>>
    BY <1>20 DEF ShowPreview, schemaVars, procVars, launchVars, ipcVars
  <2>2. TypeOK'
    <3>1. SchemaTypeOK(Places)'
      BY <1>a, <1>20, StayKeepsSchemaTypes DEF ShowPreview
    <3>2. posted' \in [Procs -> SUBSET Windows]
      BY <1>a, <1>20, AppTypes DEF ShowPreview, Windows
    <3>3. opened' \in SUBSET Procs
      <4>1. PICK w \in posted[p] : opened' = opened \/ opened' = opened \union {w[1]}
        BY <1>20 DEF ShowPreview
      <4>2. w \in Windows
        BY <1>a, <4>1, AppTypes
      <4>3. w[1] \in Procs
        BY <4>2 DEF Windows
      <4> QED
        BY <1>a, <4>1, <4>3, AppTypes
    <3> QED
      BY <1>a, <1>20, <3>1, <3>2, <3>3 DEF ShowPreview, TypeOK, Busy, Windows, launchVars, ipcVars
  <2> QED
    BY <1>a, <2>1, <2>2, StayKeepsSchema, StayKeepsOwner DEF IInv
<1>21. ASSUME NEW p \in Procs, InitDBStep(p) PROVE IInv'
  <2>1. SchemaInv'
    BY <1>a, <1>21, InitDBKeepsSchema DEF InitDBStep, Failed
  <2>2. TypeOK' /\ OwnerHasHandle' /\ OneTray'
    BY <1>a, <1>21, InitDBKeepsRest DEF InitDBStep
  <2> QED
    BY <2>1, <2>2 DEF IInv
<1>22. ASSUME NEW p \in Procs, InitDBFails(p) PROVE IInv'
  <2>1. SchemaInv'
    BY <1>a, <1>22, MoveKeepsSchema DEF InitDBFails, StatementFails, Failed, Past
  <2>2. TypeOK' /\ OwnerHasHandle' /\ OneTray'
    BY <1>a, <1>22, InitDBKeepsRest DEF InitDBFails
  <2> QED
    BY <2>1, <2>2 DEF IInv
<1>23. CASE UNCHANGED vars
  <2>1. UNCHANGED <<dbVars, procVars, at, mode, alone, handles>>
    BY <1>23 DEF vars, schemaVars, procVars, launchVars, ipcVars
  <2>2. TypeOK'
    BY <1>a, <1>23 DEF TypeOK, SchemaTypeOK, vars, schemaVars, dbVars, procVars, launchVars, ipcVars, appVars
  <2> QED
    BY <1>a, <2>1, <2>2, StayKeepsSchema, StayKeepsOwner DEF IInv
<1> QED
  BY <1>1, <1>2, <1>3, <1>4, <1>5, <1>6, <1>7, <1>8, <1>9, <1>10, <1>11, <1>12, <1>13, <1>14, <1>15, <1>16, <1>17, <1>18, <1>19, <1>20, <1>21, <1>22, <1>23 DEF Next, Main, Others, Serve

THEOREM Invariance == Spec => []IInv
<1>1. Init => IInv
  BY InitInv
<1>2. IInv /\ [Next]_vars => IInv'
  BY StepInv
<1> QED
  BY <1>1, <1>2, PTL DEF Spec

(* Every reachable state has its type.                                     *)
THEOREM TypeCorrect == Spec => []TypeOK
<1>1. IInv => TypeOK
  BY DEF IInv
<1> QED
  BY <1>1, Invariance, PTL

(* However many processes run InitDB at once, and wherever some of them    *)
(* die or fail, whoever gets past it has the newest schema, whatever the   *)
(* number of migrations and of their statements.                           *)
THEOREM SchemaCorrect == Spec => []SchemaIsCurrent
<1>1. IInv => SchemaIsCurrent
  BY DEF IInv, SchemaInv
<1> QED
  BY <1>1, Invariance, PTL

(* At most one tray is primary by the mutex.                               *)
THEOREM SingleInstance == Spec => []OneTray
<1>1. IInv => OneTray
  BY DEF IInv
<1> QED
  BY <1>1, Invariance, PTL
===============================================================================
