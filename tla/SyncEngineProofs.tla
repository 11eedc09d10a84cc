--------------------------- MODULE SyncEngineProofs ---------------------------
(***************************************************************************)
(* Proofs about SyncEngine, for any number of calendars and goroutines:    *)
(* the per-calendar lock excludes, the status shown tells the truth, the   *)
(* stop function really waits, and the lock implements CalendarMutex.      *)
(***************************************************************************)
EXTENDS SyncEngine, TLAPS

\* A mutex is held by exactly the goroutine syncing under it.
LockMatchesSync ==
  \A c \in Calendars, t \in Threads : lock[c] = t <=> InEngine(t, c)

\* A goroutine on its way through syncOne has a calendar in hand.
SyncHasCalendar ==
  \A t \in Threads :
    pc[t] \in {"lookup", "lock", "begin", "work", "unlock"} => cal[t] \in Calendars

\* Engine.run works for the running engine only, and never looks up.
LoopIsRunning ==
  /\ mode[Loop] = "running"
  /\ pc[Loop] \notin {"idle", "lookup"}
  /\ \A t \in Clients : pc[t] \notin {"off", "select", "next", "exited"}

\* How far the process has come tells how far Engine.run has.
LoopFollowsMain ==
  /\ main = "boot" => pc[Loop] = "off"
  /\ main = "up" /\ ~running => pc[Loop] = "off"
  /\ done => pc[Loop] = "exited"
  /\ main = "stopped" => done
  /\ main = "down" => pc[Loop] \in {"off", "exited"}

\* The event loop knows the calendar of the dialog it is in.
DialogHasCalendar == ui # "idle" => uiCal \in Calendars

IInv ==
  /\ TypeOK
  /\ LockMatchesSync
  /\ SyncHasCalendar
  /\ LoopIsRunning
  /\ LoopFollowsMain
  /\ DialogHasCalendar
  /\ StatusTellsTheTruth

USE LoopAssumption, NoneAssumption DEF Threads, Statuses, PCs

LEMMA InitInv == Init => IInv
<1> SUFFICES ASSUME Init PROVE IInv
  OBVIOUS
<1> USE DEF Init
<1>1. TypeOK
  BY DEF TypeOK
<1>2. LockMatchesSync /\ SyncHasCalendar /\ StatusTellsTheTruth
  BY DEF LockMatchesSync, SyncHasCalendar, StatusTellsTheTruth, InEngine, InSync
<1>3. LoopIsRunning /\ LoopFollowsMain /\ DialogHasCalendar
  BY DEF LoopIsRunning, LoopFollowsMain, DialogHasCalendar
<1> QED
  BY <1>1, <1>2, <1>3 DEF IInv

LEMMA StepInv == IInv /\ [Next]_vars => IInv'
<1> SUFFICES ASSUME IInv, [Next]_vars PROVE IInv'
  OBVIOUS
<1> USE DEF IInv, TypeOK, LockMatchesSync, SyncHasCalendar, LoopIsRunning, LoopFollowsMain,
            DialogHasCalendar, StatusTellsTheTruth, InEngine, InSync,
            engineVars, threadVars, mainVars, uiVars
<1>1. CASE StartEngine
  BY <1>1 DEF StartEngine
<1>2. CASE StartFails
  BY <1>2 DEF StartFails
<1>3. CASE CloseStop
  BY <1>3 DEF CloseStop
<1>4. CASE AwaitDone
  BY <1>4 DEF AwaitDone
<1>5. CASE Exit
  <2> USE <1>5 DEF Exit
  <2>1. TypeOK'
    OBVIOUS
  <2>2. LockMatchesSync' /\ SyncHasCalendar' /\ StatusTellsTheTruth'
    OBVIOUS
  <2>3. LoopIsRunning' /\ DialogHasCalendar'
    OBVIOUS
  <2>4. LoopFollowsMain'
    OBVIOUS
  <2> QED
    BY <2>1, <2>2, <2>3, <2>4
<1>6. CASE Down
  BY <1>6 DEF Down, vars
<1>7. CASE RegisterCalendar
  BY <1>7 DEF RegisterCalendar, UIChanges
<1>8. CASE UnregisterCalendar
  BY <1>8 DEF UnregisterCalendar
<1>9. CASE Tick
  BY <1>9 DEF Tick, ThreadChanges
<1>10. CASE StartSyncAll
  <2> USE <1>10 DEF StartSyncAll, ThreadChanges
  <2>1. TypeOK'
    OBVIOUS
  <2>2. LockMatchesSync' /\ SyncHasCalendar' /\ StatusTellsTheTruth'
    OBVIOUS
  <2>3. LoopIsRunning' /\ DialogHasCalendar'
    OBVIOUS
  <2>4. LoopFollowsMain'
    OBVIOUS
  <2> QED
    BY <2>1, <2>2, <2>3, <2>4
<1>11. CASE NextCalendar
  BY <1>11 DEF NextCalendar, ThreadChanges
<1>12. CASE EndSyncAll
  BY <1>12 DEF EndSyncAll, ThreadChanges
<1>13. CASE LoopExit
  BY <1>13 DEF LoopExit, ThreadChanges
<1>14. ASSUME NEW c \in Calendars, SaveCalendar(c) PROVE IInv'
  BY <1>14 DEF SaveCalendar, UIChanges
<1>15. ASSUME NEW c \in Calendars, DeleteCalendar(c) PROVE IInv'
  BY <1>15 DEF DeleteCalendar, UIChanges
<1>16. ASSUME NEW t \in Clients, NEW c \in Calendars, SyncNow(t, c) PROVE IInv'
  BY <1>16 DEF SyncNow, ThreadChanges
<1>17. ASSUME NEW t \in Threads, Lookup(t) PROVE IInv'
  BY <1>17 DEF Lookup, ThreadChanges, SetStatus
<1>18. ASSUME NEW t \in Threads, Acquire(t) PROVE IInv'
  BY <1>18 DEF Acquire, ThreadChanges, SetStatus
<1>19. ASSUME NEW t \in Threads, BeginSync(t) PROVE IInv'
  BY <1>19 DEF BeginSync, ThreadChanges, SetStatus
<1>20. ASSUME NEW t \in Threads, FinishSync(t) PROVE IInv'
  BY <1>20 DEF FinishSync, ThreadChanges, SetStatus
<1>21. ASSUME NEW t \in Threads, Release(t) PROVE IInv'
  BY <1>21 DEF Release, ThreadChanges, SetStatus
<1>22. CASE UNCHANGED vars
  BY <1>22 DEF vars
<1> QED
  BY <1>1, <1>2, <1>3, <1>4, <1>5, <1>6, <1>7, <1>8, <1>9, <1>10, <1>11, <1>12, <1>13, <1>14, <1>15, <1>16, <1>17, <1>18, <1>19, <1>20, <1>21, <1>22 DEF Next, SyncStep, LoopStep

LEMMA Invariance == Spec => []IInv
BY InitInv, StepInv, PTL DEF Spec

-------------------------------------------------------------------------------
(* Every variable keeps its type: the engine's maps never hold a goroutine *)
(* or a calendar that does not exist.                                      *)
THEOREM TypeCorrect == Spec => []TypeOK
<1>1. IInv => TypeOK
  BY DEF IInv
<1> QED
  BY <1>1, Invariance, PTL

(* calLock excludes: with any number of calendars, tickers and buttons, no *)
(* two goroutines of the running engine sync the same calendar at a time.  *)
THEOREM Exclusion == Spec => []CalendarExclusion
<1>1. IInv => CalendarExclusion
  BY DEF IInv, LockMatchesSync, CalendarExclusion
<1> QED
  BY <1>1, Invariance, PTL

(* The status a calendar shows is "in progress" only while a sync of it is *)
(* at work, and a sync at work shows nothing else unless unregistered.     *)
THEOREM StatusTruth == Spec => []StatusTellsTheTruth
<1>1. IInv => StatusTellsTheTruth
  BY DEF IInv
<1> QED
  BY <1>1, Invariance, PTL

(* After the stop function returned, Engine.run syncs nothing: the process *)
(* can exit without cutting a background sync short.                       *)
THEOREM StopIsSafe == Spec => []StopWaitsForLoop
<1>1. IInv => StopWaitsForLoop
  <2> SUFFICES ASSUME IInv, main \in {"stopped", "down"} PROVE
        pc[Loop] \in {"off", "exited"} /\ \A c \in Calendars : lock[c] # Loop
    BY DEF StopWaitsForLoop
  <2>1. pc[Loop] \in {"off", "exited"}
    BY DEF IInv, LoopFollowsMain
  <2> QED
    BY <2>1 DEF IInv, LockMatchesSync, InEngine, InSync
<1> QED
  BY <1>1, Invariance, PTL

-------------------------------------------------------------------------------
(* The refinement: syncOne under calLock implements the abstract mutex.    *)

\* A step that moves no goroutine into or out of syncOne stutters.
LEMMA SameHolders ==
  ASSUME \A t \in Threads, c \in Calendars : InEngine(t, c)' <=> InEngine(t, c)
  PROVE  Holders' = Holders
BY DEF Holders

(* Taking the mutex is Enter, giving it back is Leave, and no other step   *)
(* is seen: the abstract specification of the lock holds of the engine.    *)
THEOREM Refinement == Spec => ImplementsMutex
<1>1. Init => Mutex!Init
  BY DEF Init, Mutex!Init, Holders, InEngine, InSync
<1>2. IInv /\ [Next]_vars => [Mutex!Next]_Holders
  <2> SUFFICES ASSUME IInv, [Next]_vars PROVE [Mutex!Next]_Holders
    OBVIOUS
  <2> DEFINE Stays == \A t \in Threads, c \in Calendars : InEngine(t, c)' <=> InEngine(t, c)
  <2>0. Stays => [Mutex!Next]_Holders
    BY SameHolders
  <2> HIDE DEF Stays
  <2>1. ASSUME UNCHANGED <<pc, cal, mode>> PROVE Stays
    BY <2>1 DEF Stays, InEngine, InSync
  <2>2. CASE StartEngine
    BY <2>2, <2>0 DEF StartEngine, Stays, IInv, TypeOK, LoopIsRunning, LoopFollowsMain, InEngine, InSync
  <2>3. CASE StartFails \/ CloseStop \/ AwaitDone \/ Exit \/ Down
    BY <2>3, <2>1, <2>0 DEF StartFails, CloseStop, AwaitDone, Exit, Down, vars, threadVars
  <2>4. CASE RegisterCalendar \/ UnregisterCalendar
    BY <2>4, <2>1, <2>0 DEF RegisterCalendar, UnregisterCalendar, UIChanges, threadVars
  <2>5. ASSUME NEW c \in Calendars, SaveCalendar(c) \/ DeleteCalendar(c) PROVE Stays
    BY <2>5, <2>1 DEF SaveCalendar, DeleteCalendar, UIChanges, threadVars
  <2>6. ASSUME NEW t \in Clients, NEW c \in Calendars, SyncNow(t, c) PROVE Stays
    BY <2>6 DEF SyncNow, Stays, IInv, TypeOK, InEngine, InSync
  <2>7. ASSUME NEW t \in Threads, Lookup(t) PROVE Stays
    BY <2>7 DEF Lookup, Stays, IInv, TypeOK, InEngine, InSync
  <2>8. ASSUME NEW t \in Threads, BeginSync(t) \/ FinishSync(t) PROVE Stays
    BY <2>8 DEF BeginSync, FinishSync, Stays, IInv, TypeOK, InEngine, InSync
  <2>9. CASE Tick
    BY <2>9, <2>1, <2>0 DEF Tick, threadVars
  <2>10. CASE LoopStep \/ LoopExit
    BY <2>10, <2>0 DEF LoopStep, StartSyncAll, NextCalendar, EndSyncAll, LoopExit, Stays,
       IInv, TypeOK, InEngine, InSync
  <2>11. ASSUME NEW t \in Threads, Acquire(t) PROVE [Mutex!Next]_Holders
    <3>1. CASE mode[t] = "tmp"
      BY <2>11, <3>1, <2>0 DEF Acquire, Stays, IInv, TypeOK, InEngine, InSync
    <3>2. CASE mode[t] = "running"
      <4>1. cal[t] \in Calendars
        BY <2>11 DEF Acquire, IInv, SyncHasCalendar
      <4>2. Holders[cal[t]] = {}
        BY <2>11, <3>2, <4>1 DEF Acquire, Holders, IInv, LockMatchesSync
      <4>3. \A d \in Calendars : t \notin Holders[d]
        BY <2>11 DEF Acquire, Holders, InEngine, InSync
      <4>4. Holders' = [Holders EXCEPT ![cal[t]] = {t}]
        <5>1. \A u \in Threads, c \in Calendars :
                InEngine(u, c)' <=> InEngine(u, c) \/ (u = t /\ c = cal[t])
          BY <2>11, <3>2, <4>1 DEF Acquire, IInv, TypeOK, InEngine, InSync
        <5>2. \A u \in Threads : ~InEngine(u, cal[t])
          BY <4>1, <4>2 DEF Holders
        <5>3. \A c \in Calendars :
                {u \in Threads : InEngine(u, c)'} =
                  IF c = cal[t] THEN {t} ELSE {u \in Threads : InEngine(u, c)}
          BY <5>1, <5>2
        <5> QED
          BY <5>3, <4>1 DEF Holders
      <4> QED
        BY <4>1, <4>2, <4>3, <4>4 DEF Mutex!Next, Mutex!Enter
    <3> QED
      BY <3>1, <3>2 DEF IInv, TypeOK
  <2>12. ASSUME NEW t \in Threads, Release(t) PROVE [Mutex!Next]_Holders
    <3>1. CASE mode[t] = "tmp"
      BY <2>12, <3>1, <2>0 DEF Release, Stays, IInv, TypeOK, InEngine, InSync
    <3>2. CASE mode[t] = "running"
      <4>1. cal[t] \in Calendars /\ InEngine(t, cal[t])
        BY <2>12, <3>2 DEF Release, IInv, SyncHasCalendar, InEngine, InSync
      <4>2. Holders[cal[t]] = {t}
        BY <4>1 DEF Holders, IInv, LockMatchesSync
      <4>3. Holders' = [Holders EXCEPT ![cal[t]] = {}]
        <5>1. \A u \in Threads, c \in Calendars :
                InEngine(u, c)' <=> InEngine(u, c) /\ u # t
          BY <2>12, <3>2 DEF Release, IInv, TypeOK, InEngine, InSync
        <5>2. \A u \in Threads, c \in Calendars :
                InEngine(u, c) /\ c # cal[t] => u # t
          BY DEF InEngine, InSync
        <5> QED
          BY <5>1, <5>2, <4>1, <4>2 DEF Holders
      <4> QED
        BY <4>1, <4>2, <4>3 DEF Mutex!Next, Mutex!Leave
    <3> QED
      BY <3>1, <3>2 DEF IInv, TypeOK
  <2>13. CASE UNCHANGED vars
    BY <2>13, <2>1, <2>0 DEF vars, threadVars
  <2> QED
    BY <2>0, <2>2, <2>3, <2>4, <2>5, <2>6, <2>7, <2>8, <2>9, <2>10, <2>11, <2>12, <2>13
       DEF Next, SyncStep
<1> QED
  BY <1>1, <1>2, Invariance, PTL DEF Spec, ImplementsMutex, Mutex!Spec
===============================================================================
