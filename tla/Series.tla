-------------------------------- MODULE Series --------------------------------
(***************************************************************************)
(* Recurring events of a local calendar: how the views expand a master row *)
(* into occurrences (internal/api/expand.go), and how the event window     *)
(* edits them (ui/event_detail.go, internal/api/recurring_ops.go).         *)
(*                                                                         *)
(* A save is a sequence of SQL statements of one callback of the event     *)
(* loop: one may fail, and the process may die between two of them.        *)
(*                                                                         *)
(* Time is a number of ticks; a day has Slots times of day besides         *)
(* midnight, and the local time is UTC.  The rule is a daily one: every    *)
(* rule of the Add Event dialog repeats at a fixed time of day.  One event *)
(* window is open at a time.                                               *)
(***************************************************************************)
EXTENDS Integers, FiniteSets

CONSTANTS Days,       \* bound: the days the views can show
          Slots,      \* times of day
          Untils,     \* the dates the user may have typed as the end
          MaxEdits,   \* bound: how often the user saves
          Careful,    \* the user types a date that fits the scope
          MaxFaults   \* bound: failed statements and crashes

ASSUME DaysAssumption == Days \in Nat \ {0} /\ Slots \in Nat \ {0}
ASSUME UntilsAssumption == Untils \subseteq 1..Days /\ Untils # {}
ASSUME BoundsAssumption == MaxEdits \in Nat /\ MaxFaults \in Nat
ASSUME CarefulAssumption == Careful \in BOOLEAN

VARIABLES
  rows,    \* the events table
  lastId,  \* its AUTOINCREMENT counter
  dlg,     \* the event window and its scope dialog
  edits,   \* how often the user has saved; numbers the titles
  faults   \* failures that have happened

vars == <<rows, lastId, dlg, edits, faults>>

DayLength == Slots + 1
Day == 0..(Days - 1)
Midnight(d) == d * DayLength
At(d, s) == Midnight(d) + s
DayOf(t) == t \div DayLength       \* localDayKey
Time == 0..Midnight(Days)

\* parent: the master an exception belongs to.  until: the last tick of the
\* rule; Midnight(Days) lies beyond the horizon.
Row == [id : Nat, title : Nat, start : Time, repeats : BOOLEAN, until : Int, parent : Nat]

\* What the views show: rows, and virtual occurrences with id 0.
Entry == [id : Nat, parent : Nat, title : Nat, start : Time]

Phases == {"closed", "form", "scope", "trim", "new", "clear"}
NoRow  == [id |-> 0, title |-> 0, start |-> 0, repeats |-> FALSE, until |-> 0, parent |-> 0]
Closed == [phase |-> "closed", row |-> NoRow, virtual |-> FALSE, occurrence |-> 0,
           title |-> 0, start |-> 0]

TypeOK ==
  /\ rows \subseteq Row
  /\ lastId \in Nat
  /\ dlg \in [phase : Phases, row : Row, virtual : BOOLEAN, occurrence : Time,
              title : Nat, start : Time]
  /\ edits \in 0..MaxEdits
  /\ faults \in 0..MaxFaults

-------------------------------------------------------------------------------
(* The views: GetEvents over a window of days.                             *)

RawIn(lo, hi) == {r \in rows : lo <= r.start /\ r.start <= hi}
Masters(rs) == {r \in rs : r.repeats /\ r.parent = 0}

\* Mutant: masters that start before the window are not fetched.
NoEarlyMasters(lo) == {}

\* queryEarlyRecurringMasters.
EarlyMasters(lo) == {r \in Masters(rows) : r.start < lo}

\* Mutant: an exception hides only the occurrence at its own time.
OverriddenAt(raw, m, t) == \E e \in raw : e.parent = m.id /\ e.start = t

\* An exception row of the master stands on the day of the occurrence.
Overridden(raw, m, t) == \E e \in raw : e.parent = m.id /\ DayOf(e.start) = DayOf(t)

Occurrences(start, until) ==
  {t \in Time : start <= t /\ t <= until /\ (t - start) % DayLength = 0}

\* expandMaster: the first occurrence is the master row itself.
Virtual(raw, m, lo, hi) ==
  {[id |-> 0, parent |-> m.id, title |-> m.title, start |-> t] :
     t \in {u \in Occurrences(m.start, m.until) \ {m.start} :
              lo <= u /\ u <= hi /\ ~Overridden(raw, m, u)}}

\* expandEvents.
GetEvents(lo, hi) ==
  LET raw == RawIn(lo, hi) IN
    {[id |-> r.id, parent |-> r.parent, title |-> r.title, start |-> r.start] : r \in raw}
    \union UNION {Virtual(raw, m, lo, hi) : m \in Masters(raw) \union EarlyMasters(lo)}

\* eventsForDay.
EventsForDay(events, d) ==
  {e \in events : Midnight(d) <= e.start /\ e.start < Midnight(d + 1)}

Shown(d) == EventsForDay(GetEvents(0, Midnight(Days)), d)

\* The master an entry or a row belongs to.
SeriesOf(e) == IF e.parent = 0 THEN e.id ELSE e.parent

-------------------------------------------------------------------------------
\* One series, as the Add Event dialog makes it: buildRRULE turns the date the
\* user typed into an UNTIL at its midnight.
Init ==
  /\ \E s \in 1..Slots, u \in Untils :
       rows = {[id |-> 1, title |-> 0, start |-> At(0, s), repeats |-> TRUE,
                until |-> Midnight(u), parent |-> 0]}
  /\ lastId = 1
  /\ dlg = Closed
  /\ edits = 0
  /\ faults = 0

Fails == faults < MaxFaults /\ faults' = faults + 1

Insert(title, start, repeats, until, parent) ==
  /\ lastId' = lastId + 1
  /\ rows' = rows \union {[id |-> lastId + 1, title |-> title, start |-> start,
                           repeats |-> repeats, until |-> until, parent |-> parent]}

-------------------------------------------------------------------------------
(* The event window.  A statement that fails before anything is changed    *)
(* leaves the window as it was.                                            *)

\* ShowEventDetailWindow: of an occurrence it shows the master, and remembers
\* when the occurrence is.
Open ==
  /\ dlg.phase = "closed"
  /\ \E d \in Day : \E e \in Shown(d) : \E r \in rows :
       /\ r.id = (IF e.id = 0 THEN e.parent ELSE e.id)
       /\ dlg' = [Closed EXCEPT !.phase = "form", !.row = r, !.virtual = (e.id = 0),
                                !.occurrence = e.start]
  /\ UNCHANGED <<rows, lastId, edits, faults>>

\* Mutant: the clock time typed is not checked.
StartsUnchecked ==
  {At(d, s) : d \in {DayOf(dlg.row.start), DayOf(dlg.occurrence)}, s \in 1..Midnight(Days)}

\* The Start field holds the start of the row: the user leaves its date or
\* types the one that was clicked, and any time of day.
Starts == {At(d, s) : d \in {DayOf(dlg.row.start), DayOf(dlg.occurrence)}, s \in 1..Slots}

\* UpdateEvent with the title and the start of the form.
WriteFields(title, start) ==
  rows' = {IF r.id = dlg.row.id THEN [r EXCEPT !.title = title, !.start = start] ELSE r : r \in rows}

\* Save on a row: UpdateEvent; the exceptions of a master are cleared next.
SaveRow ==
  /\ dlg.phase = "form" /\ ~dlg.virtual
  /\ edits < MaxEdits
  /\ edits' = edits + 1
  /\ \E start \in Starts : WriteFields(edits + 1, start)
  /\ dlg' = IF dlg.row.repeats THEN [dlg EXCEPT !.phase = "clear"] ELSE Closed
  /\ UNCHANGED <<lastId, faults>>

\* Save on an occurrence asks for the scope.
SaveOccurrence ==
  /\ dlg.phase = "form" /\ dlg.virtual
  /\ edits < MaxEdits
  /\ edits' = edits + 1
  /\ \E start \in Starts :
       dlg' = [dlg EXCEPT !.phase = "scope", !.title = edits + 1, !.start = start]
  /\ UNCHANGED <<rows, lastId, faults>>

Fits(t) == Careful => DayOf(dlg.start) = DayOf(t)

\* applyJustThis: CreateExceptionEvent at the start typed.
JustThis ==
  /\ dlg.phase = "scope" /\ Fits(dlg.occurrence)
  /\ Insert(dlg.title, dlg.start, FALSE, 0, dlg.row.id)
  /\ dlg' = Closed
  /\ UNCHANGED <<edits, faults>>

\* AddUntilToRRule: one second before the occurrence.
Capped(t) == t - 1

\* applyThisAndFollowing: the rule the window has read is capped ...
Split ==
  /\ dlg.phase = "scope" /\ Fits(dlg.occurrence)
  /\ rows' = {IF r.id = dlg.row.id THEN [r EXCEPT !.until = Capped(dlg.occurrence)] ELSE r : r \in rows}
  /\ dlg' = [dlg EXCEPT !.phase = "trim"]
  /\ UNCHANGED <<lastId, edits, faults>>

\* Mutant: all exceptions go.
ExceptionsFrom(t) == {r \in rows : r.parent = dlg.row.id}

\* DeleteExceptionsOnOrAfter.
ExceptionsOnOrAfter(t) == {r \in rows : r.parent = dlg.row.id /\ r.start >= t}

\* ... the later exceptions go; on an error the scope dialog stays open ...
Trim ==
  /\ dlg.phase = "trim"
  /\ \/ /\ rows' = rows \ ExceptionsOnOrAfter(dlg.occurrence)
        /\ dlg' = [dlg EXCEPT !.phase = "new"]
        /\ UNCHANGED faults
     \/ Fails /\ dlg' = [dlg EXCEPT !.phase = "scope"] /\ UNCHANGED rows
  /\ UNCHANGED <<lastId, edits>>

\* Mutant: the new series inherits the cap.
CappedClone(until, start) == Capped(dlg.occurrence)

\* CloneRRuleForNewSeries: an UNTIL already over is dropped.
CloneUntil(until, start) == IF until < start THEN Midnight(Days) ELSE until

\* ... and CreateEvent makes the new series.
NewSeries ==
  /\ dlg.phase = "new"
  /\ \/ /\ Insert(dlg.title, dlg.start, TRUE, CloneUntil(dlg.row.until, dlg.start), 0)
        /\ dlg' = Closed
        /\ UNCHANGED faults
     \/ Fails /\ dlg' = [dlg EXCEPT !.phase = "scope"] /\ UNCHANGED <<rows, lastId>>
  /\ UNCHANGED edits

\* applyAllEvents: UpdateEvent on the master ...
AllEvents ==
  /\ dlg.phase = "scope" /\ Fits(dlg.row.start)
  /\ WriteFields(dlg.title, dlg.start)
  /\ dlg' = [dlg EXCEPT !.phase = "clear"]
  /\ UNCHANGED <<lastId, edits, faults>>

\* ... and DeleteExceptionsForMaster, whose failure is logged.
Clear ==
  /\ dlg.phase = "clear"
  /\ \/ rows' = {r \in rows : r.parent # dlg.row.id} /\ UNCHANGED faults
     \/ Fails /\ UNCHANGED rows
  /\ dlg' = Closed
  /\ UNCHANGED <<lastId, edits>>

\* Cancel closes the scope dialog, or the window.
Cancel ==
  /\ dlg.phase \in {"form", "scope"}
  /\ dlg' = IF dlg.phase = "form" THEN Closed ELSE [dlg EXCEPT !.phase = "form"]
  /\ UNCHANGED <<rows, lastId, edits, faults>>

\* Delete, and the window closes: DeleteEvent of the row shown, the master of
\* an occurrence.  Exceptions keep their rows.
Delete ==
  /\ dlg.phase = "form"
  /\ rows' = {r \in rows : r.id # dlg.row.id}
  /\ dlg' = Closed
  /\ UNCHANGED <<lastId, edits, faults>>

Crash ==
  /\ dlg.phase \in {"trim", "new", "clear"}
  /\ Fails
  /\ dlg' = Closed
  /\ UNCHANGED <<rows, lastId, edits>>

Next ==
  \/ Open \/ SaveRow \/ SaveOccurrence \/ Cancel \/ Delete
  \/ JustThis \/ Split \/ Trim \/ NewSeries \/ AllEvents \/ Clear
  \/ Crash

Spec == Init /\ [][Next]_vars

-------------------------------------------------------------------------------
\* Windows of whole days: the day, week and month views.
DayWindows == {w \in Day \X Day : w[1] <= w[2]}

(* The day, the week and the month view show the same events on a day, at  *)
(* whatever day their window begins and ends: series that began before it  *)
(* are expanded, and exceptions hide what they replace in every view.      *)
ViewsAgree ==
  \A w \in DayWindows : \A d \in w[1]..w[2] :
    EventsForDay(GetEvents(Midnight(w[1]), Midnight(w[2] + 1)), d) = Shown(d)

(* A series stands on a day at most once, as its master, an occurrence or  *)
(* an exception, after any number of saves with a date that fits: no edit  *)
(* of one occurrence leaves the old one beside it.                         *)
SeriesOncePerDay ==
  \A d \in Day : \A e, f \in Shown(d) : SeriesOf(e) = SeriesOf(f) => e = f

Changed(d) == (Shown(d) \ Shown(d)') \union (Shown(d)' \ Shown(d))

(* A save touches what its scope names and nothing else: the occurrence    *)
(* clicked, that day and what follows, or the one series; whether or not   *)
(* it is completed.                                                        *)
ScopeIsKept ==
  [][\A d \in Day : \A e \in Changed(d) :
       /\ SeriesOf(e) \in {SeriesOf(dlg.row), lastId'}
       /\ dlg.phase = "scope" /\ dlg'.phase = "closed" => d = DayOf(dlg.occurrence)
       /\ {dlg.phase, dlg'.phase} \intersect {"trim", "new"} # {} => d >= DayOf(dlg.occurrence)]_vars

(* A split that is completed, be it at the second attempt, loses no day:   *)
(* wherever the old rule had an occurrence from that day on, before the    *)
(* day it ends, the new event stands, once, and the old series does not.   *)
SplitIsWhole ==
  [][dlg.phase = "new" /\ lastId' > lastId =>
       \A t \in Occurrences(dlg.row.start, dlg.row.until) :
         t >= dlg.occurrence /\ DayOf(t) < DayOf(dlg.row.until) =>
           LET e == (Shown(DayOf(t)))' IN
             /\ Cardinality({f \in e : SeriesOf(f) = lastId' /\ f.title = dlg.title}) = 1
             /\ \A f \in e : SeriesOf(f) # dlg.row.id]_vars
===============================================================================
