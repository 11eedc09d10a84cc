------------------------------ MODULE Reminders -------------------------------
(***************************************************************************)
(* The reminder daemon (internal/daemon/daemon.go): every Interval it loads*)
(* the configuration, asks the store for the events whose reminder_ts lies *)
(* in the next Window (GetDueReminders of internal/api/api.go) and shows   *)
(* each once per session.  Meanwhile the user and the sync write events,   *)
(* and whoever has preferences to save writes config.toml (Settings).      *)
(*                                                                         *)
(* A poll is over within the unit of time it begins in; the mobile push,   *)
(* sent on a goroutine of its own and never looked at again, is left out.  *)
(***************************************************************************)
EXTENDS Settings, Sequences

CONSTANTS Events,       \* event ids
          Null,         \* reminder_ts IS NULL
          Gone,         \* the event has been deleted
          Interval,     \* between polls (30 s)
          Window,       \* how far a poll looks ahead (120 s)
          MaxFailures,  \* bound: queries and notifications that fail
          MaxWrites,    \* bound: events written
          MaxTime       \* bound: the clock

ASSUME TimesAssumption == Interval \in Nat \ {0} /\ Window \in Nat /\ MaxTime \in Nat
ASSUME BoundsAssumption == MaxFailures \in Nat /\ MaxWrites \in Nat
ASSUME NullAssumption == Null \notin Nat /\ Gone \notin Nat
\* A window has more polls than fail: with 30 s and 120 s three may.
ASSUME MarginAssumption == Interval * (MaxFailures + 1) <= Window

VARIABLES
  clock,
  reminder,  \* the reminder_ts column
  writes,
  phase,     \* of the daemon: down, waiting for its ticker, or in a poll
  next,      \* when the ticker fires
  cfg,       \* the configuration the poll loaded
  batch,     \* the rows it read and has not come to
  notified,  \* the daemon's map
  failures,
  shown,     \* history: the reminders shown in this session, per event
  late,      \* history: events whose reminder was set, or the daemon started or
             \* the computer woke, within Window of it; or with notifications off
  moved      \* history: events whose reminder was changed after its first one
             \* in this session was shown or at least read

daemonVars == <<phase, next, cfg, batch, notified, failures, shown>>
vars == <<settingsVars, daemonVars, clock, reminder, writes, late, moved>>

Row == [id : Events, at : Nat]

TypeOK ==
  /\ SettingsTypeOK
  /\ clock \in Nat /\ next \in Nat /\ writes \in 0..MaxWrites
  /\ reminder \in [Events -> Nat \union {Null, Gone}]
  /\ phase \in {"down", "wait", "query", "show"}
  /\ cfg \in Config
  /\ batch \subseteq Row
  /\ notified \subseteq Events /\ late \subseteq Events /\ moved \subseteq Events
  /\ failures \in 0..MaxFailures
  /\ shown \in [Events -> Seq(Nat)]

Init ==
  /\ SettingsInit
  /\ clock = 0 /\ writes = 0 /\ next = 0 /\ failures = 0
  /\ reminder = [i \in Events |-> Null]
  /\ phase = "down" /\ cfg = Zero /\ batch = {} /\ notified = {}
  /\ shown = [i \in Events |-> <<>>]
  /\ late = {} /\ moved = {}

-------------------------------------------------------------------------------
(* The events table.                                                       *)

Reading(i) == \E e \in batch : e.id = i

\* The events whose reminder comes up before time t + Window.
Imminent(t) == {i \in Events : reminder[i] \in Nat /\ reminder[i] < t + Window}

\* CreateEvent, CreateExceptionEvent, UpdateEvent with a reminder.
SetReminder(i, at) ==
  /\ writes < MaxWrites
  /\ writes' = writes + 1
  /\ reminder[i] # Gone
  /\ reminder' = [reminder EXCEPT ![i] = at]
  /\ late' = IF at < clock + Window THEN late \union {i} ELSE late \ {i}
  /\ moved' = IF i \in notified \/ Reading(i) THEN moved \union {i} ELSE moved \ {i}
  /\ UNCHANGED <<settingsVars, daemonVars, clock>>

\* UpdateEventFromRemote: no adapter fills in a reminder.
ClearReminder(i) ==
  /\ reminder[i] \in Nat
  /\ reminder' = [reminder EXCEPT ![i] = Null]
  /\ late' = late \ {i} /\ moved' = moved \ {i}
  /\ UNCHANGED <<settingsVars, daemonVars, clock, writes>>

DeleteEvent(i) ==
  /\ reminder[i] \in Nat
  /\ reminder' = [reminder EXCEPT ![i] = Gone]
  /\ late' = late \ {i} /\ moved' = moved \ {i}
  /\ UNCHANGED <<settingsVars, daemonVars, clock, writes>>

-------------------------------------------------------------------------------
(* The daemon.                                                             *)

\* New and Run: the map is empty, the first poll is at once.
StartDaemon ==
  /\ phase = "down"
  /\ phase' = "wait"
  /\ next' = clock
  /\ late' = late \union Imminent(clock)
  /\ UNCHANGED <<settingsVars, clock, reminder, writes, cfg, batch, notified, failures,
                 shown, moved>>

\* Stop, or the process dies: what it remembered is lost.
StopDaemon ==
  /\ phase # "down"
  /\ phase' = "down"
  /\ batch' = {} /\ cfg' = Zero
  /\ notified' = {} /\ moved' = {}
  /\ shown' = [i \in Events |-> <<>>]
  /\ UNCHANGED <<settingsVars, clock, reminder, writes, next, failures, late>>

\* checkReminders: config.Load ...
Poll ==
  /\ phase = "wait"
  /\ clock = next
  /\ cfg' = Load
  /\ phase' = "query"
  /\ UNCHANGED <<settingsVars, clock, reminder, writes, next, batch, notified, failures,
                 shown, late, moved>>

\* Mutant: WHERE reminder_ts > now.
DueLater ==
  {[id |-> i, at |-> reminder[i]] :
     i \in {j \in Events : reminder[j] \in (clock + 1)..(clock + Window)}}

\* GetDueReminders.
Due ==
  {[id |-> i, at |-> reminder[i]] :
     i \in {j \in Events : reminder[j] \in clock..(clock + Window)}}

\* ... the query ...
Query ==
  /\ phase = "query"
  /\ batch' = Due
  /\ phase' = "show"
  /\ UNCHANGED <<settingsVars, clock, reminder, writes, next, cfg, notified, failures,
                 shown, late, moved>>

Fails == failures < MaxFailures /\ failures' = failures + 1

QueryFails ==
  /\ phase = "query"
  /\ Fails
  /\ phase' = "show"
  /\ UNCHANGED <<settingsVars, clock, reminder, writes, next, cfg, batch, notified,
                 shown, late, moved>>

\* ... and the rows, ORDER BY reminder_ts.
Takes(e) ==
  /\ phase = "show"
  /\ \A f \in batch : e.at <= f.at
  /\ batch' = batch \ {e}
  /\ UNCHANGED <<settingsVars, clock, reminder, writes, phase, next, cfg, moved>>

SkipNotified(e) ==
  /\ Takes(e)
  /\ e.id \in notified
  /\ UNCHANGED <<notified, failures, shown, late>>

\* Notifications are off, or the file was just being written.
SkipDisabled(e) ==
  /\ Takes(e)
  /\ e.id \notin notified /\ ~cfg.desktop
  /\ notified' = notified \union {e.id}
  /\ late' = late \union {e.id}
  /\ UNCHANGED <<failures, shown>>

\* Mutant: what has been shown is not remembered.
NotifyUnmarked(e) ==
  /\ Takes(e)
  /\ e.id \notin notified /\ cfg.desktop
  /\ shown' = [shown EXCEPT ![e.id] = Append(@, e.at)]
  /\ UNCHANGED <<notified, failures, late>>

Notify(e) ==
  /\ Takes(e)
  /\ e.id \notin notified /\ cfg.desktop
  /\ shown' = [shown EXCEPT ![e.id] = Append(@, e.at)]
  /\ notified' = notified \union {e.id}
  /\ UNCHANGED <<failures, late>>

\* It stays unmarked, and the next poll tries again.
NotifyFails(e) ==
  /\ Takes(e)
  /\ e.id \notin notified /\ cfg.desktop
  /\ Fails
  /\ UNCHANGED <<notified, shown, late>>

EndPoll ==
  /\ phase = "show" /\ batch = {}
  /\ phase' = "wait"
  /\ next' = next + Interval
  /\ cfg' = Zero
  /\ UNCHANGED <<settingsVars, clock, reminder, writes, batch, notified, failures,
                 shown, late, moved>>

-------------------------------------------------------------------------------
(* Time.  A poll begins when the ticker fires.                             *)

Tick ==
  /\ clock < MaxTime
  /\ phase = "down" \/ (phase = "wait" /\ clock < next)
  /\ clock' = clock + 1
  /\ UNCHANGED <<settingsVars, daemonVars, reminder, writes, late, moved>>

\* The computer sleeps; the ticker fires some time within an interval after.
Sleep ==
  /\ phase = "wait"
  /\ \E t \in (clock + 1)..MaxTime :
       /\ clock' = t
       /\ next' \in t..(t + Interval)
       /\ late' = late \union Imminent(t)
  /\ UNCHANGED <<settingsVars, reminder, writes, phase, cfg, batch, notified, failures,
                 shown, moved>>

Next ==
  \/ SettingsNext /\ UNCHANGED <<daemonVars, clock, reminder, writes, late, moved>>
  \/ \E i \in Events : \/ \E at \in 0..MaxTime : SetReminder(i, at)
                       \/ ClearReminder(i) \/ DeleteEvent(i)
  \/ StartDaemon \/ StopDaemon \/ Poll \/ Query \/ QueryFails
  \/ \E e \in batch : SkipNotified(e) \/ SkipDisabled(e) \/ Notify(e) \/ NotifyFails(e)
  \/ EndPoll
  \/ Tick \/ Sleep

Spec == Init /\ [][Next]_vars

-------------------------------------------------------------------------------
WasShown(i, at) == \E k \in 1..Len(shown[i]) : shown[i][k] = at

(* A session shows an event's reminder at most once, however many polls    *)
(* see it, fail halfway or overlap with edits.                             *)
OncePerSession == \A i \in Events : Len(shown[i]) <= 1

(* While the daemon runs, a reminder set a window ahead is shown by its    *)
(* time although MaxFailures queries or notifications fail; unless the     *)
(* event had its one notification of the session, or a poll that saw it    *)
(* found notifications off.                                                *)
ShownInTime ==
  phase # "down" =>
    \A i \in Events :
      reminder[i] \in Nat /\ clock > reminder[i] =>
        WasShown(i, reminder[i]) \/ i \in late \union moved
===============================================================================
