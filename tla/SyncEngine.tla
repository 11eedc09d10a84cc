------------------------------ MODULE SyncEngine ------------------------------
(***************************************************************************)
(* The scheduling half of the Sync Engine: which goroutine syncs which     *)
(* calendar when (internal/syncer/engine.go), the package variable through *)
(* which the user interface reaches the live engine                        *)
(* (internal/syncwire/syncwire.go), and the tray or daemon process that    *)
(* starts and stops it (ui/tray.go, main.go).                              *)
(*                                                                         *)
(* What one sync does to events, outbox and conflicts is module            *)
(* SyncCalendar's; here a sync is its status changes under the calendar's  *)
(* lock.  SyncNow falls back to a throwaway engine with locks of its own   *)
(* (mode "tmp"): nothing a throwaway engine holds can exclude anybody.     *)
(***************************************************************************)
EXTENDS Naturals, FiniteSets

CONSTANTS Calendars,  \* remote calendars the user may configure
          Clients,    \* goroutines started by "Sync Now" buttons
          Loop,       \* the goroutine Engine.run
          None        \* no calendar, no goroutine

Threads == Clients \union {Loop}

ASSUME LoopAssumption == Loop \notin Clients
ASSUME NoneAssumption == None \notin Calendars /\ None \notin Threads

VARIABLES
  configured, \* calendars whose row yields a usable adapter (persistent)
  running,    \* syncwire.running # nil
  adapters,   \* Engine.adapters of the running engine
  statuses,   \* Engine.statuses
  lock,       \* Engine.syncLocks: holder of each calendar's mutex, or None
  pc, cal, mode, \* per goroutine: where it is, its calendar, whose engine
  snapshot,   \* the calendars SyncAll copied and has not synced yet
  tick,       \* ticker.C holds a tick (capacity one)
  main,       \* the process: boot, up, stopping, stopped, down
  stop, done, \* the engine's two channels are closed
  ui, uiCal   \* the event loop inside a multi-step calendar dialog

engineVars == <<adapters, statuses, lock>>
threadVars == <<pc, cal, mode>>
mainVars   == <<main, stop, done, running>>
uiVars     == <<configured, ui, uiCal>>
vars == <<engineVars, threadVars, snapshot, tick, mainVars, uiVars>>

\* A sync that is over has left its time or its error.
Statuses == {"absent", "inProgress", "over"}
PCs == {"idle", "lookup", "lock", "begin", "work", "unlock",
        "off", "select", "next", "exited"}

TypeOK ==
  /\ configured \subseteq Calendars
  /\ running \in BOOLEAN
  /\ adapters \subseteq Calendars
  /\ statuses \in [Calendars -> Statuses]
  /\ lock \in [Calendars -> Threads \union {None}]
  /\ pc \in [Threads -> PCs]
  /\ cal \in [Threads -> Calendars \union {None}]
  /\ mode \in [Threads -> {"running", "tmp"}]
  /\ snapshot \subseteq Calendars
  /\ tick \in BOOLEAN
  /\ main \in {"boot", "up", "stopping", "stopped", "down"}
  /\ stop \in BOOLEAN
  /\ done \in BOOLEAN
  /\ ui \in {"idle", "register", "unregister"}
  /\ uiCal \in Calendars \union {None}

\* A fresh process: configured is what the database holds.
Init ==
  /\ configured \in SUBSET Calendars
  /\ running = FALSE
  /\ adapters = {}
  /\ statuses = [c \in Calendars |-> "absent"]
  /\ lock = [c \in Calendars |-> None]
  /\ pc = [t \in Threads |-> IF t = Loop THEN "off" ELSE "idle"]
  /\ cal = [t \in Threads |-> None]
  /\ mode = [t \in Threads |-> "running"]
  /\ snapshot = {}
  /\ tick = FALSE
  /\ main = "boot"
  /\ stop = FALSE
  /\ done = FALSE
  /\ ui = "idle"
  /\ uiCal = None

-------------------------------------------------------------------------------
(* The process: RunTray and the daemon mode of main.                       *)

\* syncwire.Start: BuildEngine registers the enabled calendars it can build
\* an adapter for (any of the configured ones: an enabled flag or a client ID
\* may be missing), publishes the engine and launches Engine.run.
StartEngine ==
  /\ main = "boot"
  /\ main' = "up"
  /\ running' = TRUE
  /\ adapters' \in SUBSET configured
  /\ pc' = [pc EXCEPT ![Loop] = "select"]
  /\ UNCHANGED <<statuses, lock, cal, mode, snapshot, tick, stop, done, uiVars>>

\* syncwire.Start fails (config or database); the process goes on without it.
StartFails ==
  /\ main = "boot"
  /\ main' = "up"
  /\ UNCHANGED <<engineVars, threadVars, snapshot, tick, stop, done, running, uiVars>>

\* The event loop has returned and the stop function closes Engine.stop.
CloseStop ==
  /\ main = "up" /\ running
  /\ main' = "stopping"
  /\ stop' = TRUE
  /\ UNCHANGED <<engineVars, threadVars, snapshot, tick, done, running, uiVars>>

\* Mutant: Stop does not wait for the goroutine.
AwaitNothing ==
  /\ main = "stopping"
  /\ main' = "stopped"
  /\ UNCHANGED <<engineVars, threadVars, snapshot, tick, stop, done, running, uiVars>>

\* ... then waits for Engine.done.
AwaitDone ==
  /\ main = "stopping" /\ done
  /\ main' = "stopped"
  /\ UNCHANGED <<engineVars, threadVars, snapshot, tick, stop, done, running, uiVars>>

\* ... then clears syncwire.running; the process exits.
Exit ==
  /\ \/ main = "stopped"
     \/ main = "up" /\ ~running     \* the stop function of a failed start
  /\ main' = "down"
  /\ running' = FALSE
  /\ UNCHANGED <<engineVars, threadVars, snapshot, tick, stop, done, uiVars>>

\* The process is gone; a later launch starts again from Init.
Down == main = "down" /\ UNCHANGED vars

-------------------------------------------------------------------------------
(* The calendar dialogs, on the event loop of the user interface.          *)

UIChanges == main = "up" /\ UNCHANGED <<statuses, lock, threadVars, snapshot, tick, mainVars>>

\* Saving the dialog stores sync_url: the row now yields an adapter.
SaveCalendar(c) ==
  /\ UIChanges
  /\ ui = "idle"
  /\ configured' = configured \union {c}
  /\ ui' = "register"
  /\ uiCal' = c
  /\ UNCHANGED adapters

\* Mutant: the dialog forgets its calendar before it registers it.
RegisterForgotten ==
  /\ UIChanges
  /\ ui = "register"
  /\ \/ running /\ adapters' = adapters \union {None}
     \/ UNCHANGED adapters
  /\ ui' = "idle"
  /\ uiCal' = None
  /\ UNCHANGED configured

\* RegisterCalendar on the live engine; not reached, or an error, when the
\* credentials cannot be stored, the config cannot be read or no engine runs.
RegisterCalendar ==
  /\ UIChanges
  /\ ui = "register"
  /\ \/ running /\ adapters' = adapters \union {uiCal}
     \/ UNCHANGED adapters
  /\ ui' = "idle"
  /\ uiCal' = None
  /\ UNCHANGED configured

\* Deleting a calendar removes the row first ...
DeleteCalendar(c) ==
  /\ UIChanges
  /\ ui = "idle"
  /\ c \in configured
  /\ configured' = configured \ {c}
  /\ ui' = "unregister"
  /\ uiCal' = c
  /\ UNCHANGED adapters

\* UnregisterCalendar: ... then forgets the adapter and the status.
UnregisterCalendar ==
  /\ main = "up"
  /\ ui = "unregister"
  /\ IF running
     THEN /\ adapters' = adapters \ {uiCal}
          /\ statuses' = [statuses EXCEPT ![uiCal] = "absent"]
     ELSE UNCHANGED <<adapters, statuses>>
  /\ ui' = "idle"
  /\ uiCal' = None
  /\ UNCHANGED <<configured, lock, threadVars, snapshot, tick, mainVars>>

-------------------------------------------------------------------------------
(* The goroutines: SyncNow, SyncAll and syncOne.                           *)

\* What no step of a goroutine touches.
ThreadChanges == main # "down" /\ UNCHANGED <<adapters, main, stop, running, uiVars>>

\* SyncNow picks the engine: the running one when it owns the calendar.
SyncNow(t, c) ==
  /\ ThreadChanges
  /\ main = "up"
  /\ t \in Clients
  /\ pc[t] = "idle"
  /\ pc' = [pc EXCEPT ![t] = "lookup"]
  /\ cal' = [cal EXCEPT ![t] = c]
  /\ mode' = [mode EXCEPT ![t] = IF running /\ c \in adapters THEN "running" ELSE "tmp"]
  /\ UNCHANGED <<statuses, lock, snapshot, tick, done>>

\* Engine.Sync finds the adapter again; the one-shot path builds one from the
\* database.  Either may have gone since SyncNow looked.
Lookup(t) ==
  /\ ThreadChanges
  /\ pc[t] = "lookup"
  /\ LET found == IF mode[t] = "running" THEN cal[t] \in adapters
                                         ELSE cal[t] \in configured
     IN  /\ pc' = [pc EXCEPT ![t] = IF found THEN "lock" ELSE "idle"]
         /\ cal' = [cal EXCEPT ![t] = IF found THEN @ ELSE None]
         /\ mode' = [mode EXCEPT ![t] = IF found THEN @ ELSE "running"]
  /\ UNCHANGED <<statuses, lock, snapshot, tick, done>>

\* Mutant: calLock makes a new mutex each time.
AcquireFresh(t) ==
  /\ ThreadChanges
  /\ pc[t] = "lock"
  /\ lock' = IF mode[t] = "running" THEN [lock EXCEPT ![cal[t]] = t] ELSE lock
  /\ pc' = [pc EXCEPT ![t] = "begin"]
  /\ UNCHANGED <<cal, mode, statuses, snapshot, tick, done>>

\* calLock(...).Lock(); a throwaway engine's mutex is always free.
Acquire(t) ==
  /\ ThreadChanges
  /\ pc[t] = "lock"
  /\ IF mode[t] = "running"
     THEN lock[cal[t]] = None /\ lock' = [lock EXCEPT ![cal[t]] = t]
     ELSE UNCHANGED lock
  /\ pc' = [pc EXCEPT ![t] = "begin"]
  /\ UNCHANGED <<cal, mode, statuses, snapshot, tick, done>>

\* setStatus on the engine the goroutine works for; a throwaway engine's
\* statuses are seen by nobody.
SetStatus(t, s) ==
  statuses' = IF mode[t] = "running" THEN [statuses EXCEPT ![cal[t]] = s]
                                     ELSE statuses

BeginSync(t) ==
  /\ ThreadChanges
  /\ pc[t] = "begin"
  /\ SetStatus(t, "inProgress")
  /\ pc' = [pc EXCEPT ![t] = "work"]
  /\ UNCHANGED <<cal, mode, lock, snapshot, tick, done>>

\* Mutant: an error return leaves the status alone.
FinishSyncSilently(t) ==
  /\ ThreadChanges
  /\ pc[t] = "work"
  /\ SetStatus(t, "over") \/ UNCHANGED statuses
  /\ pc' = [pc EXCEPT ![t] = "unlock"]
  /\ UNCHANGED <<cal, mode, lock, snapshot, tick, done>>

\* LoadSyncState or FetchChanges failed, or the sync completed.
FinishSync(t) ==
  /\ ThreadChanges
  /\ pc[t] = "work"
  /\ SetStatus(t, "over")
  /\ pc' = [pc EXCEPT ![t] = "unlock"]
  /\ UNCHANGED <<cal, mode, lock, snapshot, tick, done>>

\* Mutant: a return without Unlock.
ReleaseNothing(t) ==
  /\ ThreadChanges
  /\ pc[t] = "unlock"
  /\ pc' = [pc EXCEPT ![t] = IF t = Loop THEN "next" ELSE "idle"]
  /\ cal' = [cal EXCEPT ![t] = None]
  /\ mode' = [mode EXCEPT ![t] = "running"]
  /\ UNCHANGED <<lock, statuses, snapshot, tick, done>>

\* The deferred Unlock; SyncNow returns, SyncAll goes on.
Release(t) ==
  /\ ThreadChanges
  /\ pc[t] = "unlock"
  /\ lock' = IF mode[t] = "running" THEN [lock EXCEPT ![cal[t]] = None] ELSE lock
  /\ pc' = [pc EXCEPT ![t] = IF t = Loop THEN "next" ELSE "idle"]
  /\ cal' = [cal EXCEPT ![t] = None]
  /\ mode' = [mode EXCEPT ![t] = "running"]
  /\ UNCHANGED <<statuses, snapshot, tick, done>>

\* time.Ticker drops a tick nobody has received yet.
Tick ==
  /\ ThreadChanges
  /\ pc[Loop] \notin {"off", "exited"}
  /\ tick' = TRUE
  /\ UNCHANGED <<threadVars, statuses, lock, snapshot, done>>

\* run receives a tick: SyncAll copies the adapters.  With stop closed as
\* well, select may still choose this branch.
StartSyncAll ==
  /\ ThreadChanges
  /\ pc[Loop] = "select" /\ tick
  /\ tick' = FALSE
  /\ snapshot' = adapters
  /\ pc' = [pc EXCEPT ![Loop] = "next"]
  /\ UNCHANGED <<cal, mode, statuses, lock, done>>

\* SyncAll turns to any calendar left in its copy.
NextCalendar ==
  /\ ThreadChanges
  /\ pc[Loop] = "next"
  /\ \E c \in snapshot :
       /\ snapshot' = snapshot \ {c}
       /\ cal' = [cal EXCEPT ![Loop] = c]
       /\ pc' = [pc EXCEPT ![Loop] = "lock"]
  /\ UNCHANGED <<mode, statuses, lock, tick, done>>

\* Mutant: run returns when SyncAll does.
EndRun ==
  /\ ThreadChanges
  /\ pc[Loop] = "next"
  /\ snapshot = {}
  /\ pc' = [pc EXCEPT ![Loop] = "exited"]
  /\ done' = TRUE
  /\ UNCHANGED <<cal, mode, statuses, lock, snapshot, tick>>

EndSyncAll ==
  /\ ThreadChanges
  /\ pc[Loop] = "next"
  /\ snapshot = {}
  /\ pc' = [pc EXCEPT ![Loop] = "select"]
  /\ UNCHANGED <<cal, mode, statuses, lock, snapshot, tick, done>>

\* Mutant: run returns without closing Engine.done.
LoopExitSilently ==
  /\ ThreadChanges
  /\ pc[Loop] = "select" /\ stop
  /\ pc' = [pc EXCEPT ![Loop] = "exited"]
  /\ UNCHANGED <<cal, mode, statuses, lock, snapshot, tick, done>>

\* run sees Engine.stop closed: it returns, closing Engine.done.
LoopExit ==
  /\ ThreadChanges
  /\ pc[Loop] = "select" /\ stop
  /\ pc' = [pc EXCEPT ![Loop] = "exited"]
  /\ done' = TRUE
  /\ UNCHANGED <<cal, mode, statuses, lock, snapshot, tick>>

-------------------------------------------------------------------------------
SyncStep(t) == Lookup(t) \/ BeginSync(t) \/ FinishSync(t) \/ Release(t)
LoopStep == StartSyncAll \/ NextCalendar \/ EndSyncAll

Next ==
  \/ StartEngine \/ StartFails \/ CloseStop \/ AwaitDone \/ Exit \/ Down
  \/ \E c \in Calendars : SaveCalendar(c) \/ DeleteCalendar(c)
  \/ RegisterCalendar \/ UnregisterCalendar
  \/ \E t \in Clients, c \in Calendars : SyncNow(t, c)
  \/ \E t \in Threads : SyncStep(t) \/ Acquire(t)
  \/ LoopStep \/ Tick \/ LoopExit

Spec == Init /\ [][Next]_vars

(* Goroutines that can run do run, HTTP calls time out, a waiter on a      *)
(* sync.Mutex is not starved (Go hands the mutex to a waiter of more than  *)
(* a millisecond), and select picks among ready branches at random, so a   *)
(* closed stop channel offered again and again is taken.  Nobody must      *)
(* click, quit or restart.                                                 *)
Fairness ==
  /\ \A t \in Threads : WF_vars(SyncStep(t)) /\ SF_vars(Acquire(t))
  /\ WF_vars(LoopStep) /\ WF_vars(Tick) /\ SF_vars(LoopExit)
  /\ WF_vars(AwaitDone)
  /\ WF_vars(main = "stopped" /\ Exit)

FairSpec == Spec /\ Fairness

-------------------------------------------------------------------------------
\* t is between taking and giving back the mutex of c.
InSync(t, c) == pc[t] \in {"begin", "work", "unlock"} /\ cal[t] = c

\* The same, on the engine whose locks and statuses are shared.
InEngine(t, c) == InSync(t, c) /\ mode[t] = "running"

(* One sync per calendar on the engine the application runs, whoever asks: *)
(* the ticker, one button or two (calLock, syncOne).                       *)
CalendarExclusion ==
  \A c \in Calendars : \A t, u \in Threads :
    InEngine(t, c) /\ InEngine(u, c) => t = u

(* "In progress" is shown exactly while somebody syncs: it never outlives  *)
(* the sync, however the sync ended, and a running sync shows something    *)
(* else only when the calendar was unregistered under it (setStatus and    *)
(* UnregisterAdapter race).                                                *)
StatusTellsTheTruth ==
  \A c \in Calendars :
    /\ statuses[c] = "inProgress" => \E t \in Threads : InEngine(t, c) /\ pc[t] = "work"
    /\ \A t \in Threads : InEngine(t, c) /\ pc[t] = "work"
         => statuses[c] \in {"inProgress", "absent"}

(* Once the stop function has returned from waiting, the background        *)
(* goroutine syncs nothing and never will: what follows in the process     *)
(* (closing the daemon, exiting) cannot cut one of its syncs short.        *)
StopWaitsForLoop ==
  main \in {"stopped", "down"} =>
    /\ pc[Loop] \in {"off", "exited"}
    /\ \A c \in Calendars : lock[c] # Loop

(* Stop returns, whatever the ticker and the buttons do meanwhile.         *)
StopReturns == (main = "stopping") ~> (main = "down")

(* A click on Sync Now ends: its goroutine comes back, unless the process  *)
(* has gone.                                                               *)
SyncNowReturns ==
  \A t \in Clients : (pc[t] = "lookup") ~> (pc[t] = "idle" \/ main = "down")

(* A calendar that stays registered is synced by the ticker again and      *)
(* again, however many syncs of other calendars or buttons compete.        *)
KeepsSyncing ==
  \A c \in Calendars :
    []<>(main # "up" \/ c \notin adapters \/ InSync(Loop, c))

(* The per-calendar lock of the running engine is the abstract mutex.      *)
Holders == [c \in Calendars |-> {t \in Threads : InEngine(t, c)}]

Mutex == INSTANCE CalendarMutex WITH syncing <- Holders
ImplementsMutex == Mutex!Spec
===============================================================================
