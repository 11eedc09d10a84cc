---------------------------- MODULE CalendarMutex ----------------------------
(***************************************************************************)
(* What the per-calendar lock of the Sync Engine promises, and nothing     *)
(* else: a calendar is being synced by at most one goroutine at a time,    *)
(* and a goroutine syncs at most one calendar.  internal/syncer/engine.go  *)
(* states the promise in the comment of calLock; module SyncEngine is      *)
(* shown to implement it.                                                  *)
(***************************************************************************)
CONSTANTS Calendars,  \* the calendars an engine may own
          Threads     \* the goroutines that call into the engine

VARIABLE syncing      \* syncing[c] = the goroutines inside syncOne for c

Init == syncing = [c \in Calendars |-> {}]

\* A goroutine starts syncing a calendar nobody else is syncing.
Enter(t, c) ==
  /\ syncing[c] = {}
  /\ \A d \in Calendars : t \notin syncing[d]
  /\ syncing' = [syncing EXCEPT ![c] = {t}]

Leave(t, c) ==
  /\ syncing[c] = {t}
  /\ syncing' = [syncing EXCEPT ![c] = {}]

Next == \E t \in Threads, c \in Calendars : Enter(t, c) \/ Leave(t, c)

Spec == Init /\ [][Next]_syncing
==============================================================================
