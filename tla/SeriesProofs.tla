------------------------------ MODULE SeriesProofs ------------------------------
(***************************************************************************)
(* Proofs about Series, for any number of days, times of day, saves and    *)
(* failures: the views agree and, when the dates fit, a series stands on a *)
(* day at most once, a completed split loses no day and a save keeps to    *)
(* its scope.                                                              *)
(***************************************************************************)
EXTENDS Series, FiniteSetTheorems, TLAPS

-------------------------------------------------------------------------------
(* Days and times.                                                         *)

LEMMA DayLengthType == DayLength \in Nat \ {0}
  BY DaysAssumption DEF DayLength

LEMMA MidnightOrder ==
  ASSUME NEW a \in Nat, NEW b \in Nat
  PROVE  /\ Midnight(a) \in Nat
         /\ Midnight(a + 1) = Midnight(a) + DayLength
         /\ a <= b => Midnight(a) <= Midnight(b)
         /\ a < b => Midnight(a) + DayLength <= Midnight(b)
  BY DayLengthType DEF Midnight

LEMMA DayIs ==
  ASSUME NEW t \in Nat, NEW d \in Nat
  PROVE  /\ DayOf(t) \in Nat
         /\ DayOf(t) = d <=> Midnight(d) <= t /\ t < Midnight(d + 1)
  BY DayLengthType DEF DayOf, Midnight

LEMMA DayOrder ==
  ASSUME NEW t \in Nat, NEW u \in Nat, t <= u
  PROVE  DayOf(t) <= DayOf(u)
<1> DEFINE a == DayOf(t)  b == DayOf(u)
<1>1. a \in Nat /\ b \in Nat
  BY DayIs
<1>2. Midnight(a) <= t /\ u < Midnight(b + 1)
  BY <1>1, DayIs
<1> HIDE DEF a, b
<1>3. ~ b + 1 <= a
  BY <1>1, <1>2, MidnightOrder
<1>4. a <= b
  BY <1>1, <1>3
<1> QED
  BY <1>4 DEF a, b

(* At stands on its day. *)
LEMMA AtDay ==
  ASSUME NEW d \in Day, NEW s \in 1..Slots
  PROVE  At(d, s) \in Time /\ DayOf(At(d, s)) = d
<1>1. d \in Nat /\ d + 1 <= Days /\ Days \in Nat
  BY DaysAssumption DEF Day
<1>2. /\ Midnight(d) \in Nat
      /\ Midnight(d + 1) = Midnight(d) + DayLength
      /\ Midnight(d + 1) <= Midnight(Days)
      /\ Midnight(Days) \in Nat /\ Midnight(d + 1) \in Nat
  BY <1>1, MidnightOrder
<1>3. DayLength = Slots + 1 /\ Slots \in Nat
  BY DaysAssumption DEF DayLength
<1>4. At(d, s) \in Nat /\ Midnight(d) <= At(d, s) /\ At(d, s) < Midnight(d + 1)
  BY <1>2, <1>3 DEF At
<1>5. At(d, s) \in 0..Midnight(Days)
  BY <1>2, <1>4
<1>6. DayOf(At(d, s)) = d
  BY <1>1, <1>4, DayIs
<1> QED
  BY <1>5, <1>6 DEF Time

(* A rule puts one occurrence on a day. *)
LEMMA OneADay ==
  ASSUME NEW t \in Nat, NEW u \in Nat, NEW s \in Nat, s <= t, s <= u,
         (t - s) % DayLength = 0, (u - s) % DayLength = 0,
         DayOf(t) = DayOf(u)
  PROVE  t = u
<1> DEFINE L == DayLength  d == DayOf(t)  a == (t - s) \div L  b == (u - s) \div L
<1>1. L \in Nat \ {0}
  BY DayLengthType
<1>2. d \in Nat /\ Midnight(d) <= t /\ t < Midnight(d) + L
                /\ Midnight(d) <= u /\ u < Midnight(d) + L
  BY DayIs, MidnightOrder
<1>3. a \in Int /\ b \in Int /\ t - s = a * L /\ u - s = b * L
  BY <1>1
<1>4. Midnight(d) \in Nat
  BY <1>2, MidnightOrder
<1>5. t - u < L /\ u - t < L
  BY <1>1, <1>2, <1>4
<1> HIDE DEF L, d, a, b
<1>6. a < b => a * L + L <= b * L
  BY <1>1, <1>3
<1>7. b < a => b * L + L <= a * L
  BY <1>1, <1>3
<1>8. a = b
  BY <1>1, <1>3, <1>5, <1>6, <1>7
<1> QED
  BY <1>3, <1>8

-------------------------------------------------------------------------------
(* What stands on a day.                                                   *)

\* An exception hides the occurrences of its day.
Hidden(m, t) == \E e \in rows : e.parent = m.id /\ DayOf(e.start) = DayOf(t)

ShownRow(r) == [id |-> r.id, parent |-> r.parent, title |-> r.title, start |-> r.start]
ShownVirtual(m, t) == [id |-> 0, parent |-> m.id, title |-> m.title, start |-> t]

RowOn(e, d) == \E r \in rows : DayOf(r.start) = d /\ e = ShownRow(r)
VirtualOn(e, d) ==
  \E m \in Masters(rows) : \E t \in Occurrences(m.start, m.until) \ {m.start} :
    DayOf(t) = d /\ ~Hidden(m, t) /\ e = ShownVirtual(m, t)

(* In a window of whole days the entries of a day are its rows, and the    *)
(* occurrences of that day no exception hides, wherever the window begins  *)
(* and ends (expandEvents).                                                *)
LEMMA DayShows ==
  ASSUME rows \subseteq Row,
         NEW a \in Nat, NEW b \in Nat, NEW d \in a..b, b + 1 <= Days, NEW e
  PROVE  e \in EventsForDay(GetEvents(Midnight(a), Midnight(b + 1)), d)
           <=> RowOn(e, d) \/ VirtualOn(e, d)
<1> DEFINE lo == Midnight(a)  hi == Midnight(b + 1)
           raw == RawIn(lo, hi)
           ms == Masters(raw) \union EarlyMasters(lo)
<1>1. d \in Nat /\ Days \in Nat
  BY DaysAssumption
<1>2. /\ lo \in Nat /\ hi \in Nat /\ lo <= Midnight(d) /\ Midnight(d + 1) <= hi
      /\ hi <= Midnight(Days) /\ Midnight(Days) \in Nat
      /\ Midnight(d) \in Nat /\ Midnight(d + 1) \in Nat
  BY <1>1, MidnightOrder
<1>3. ASSUME NEW t \in Nat
      PROVE  Midnight(d) <= t /\ t < Midnight(d + 1) <=> DayOf(t) = d
  BY <1>1, DayIs
<1>4. \A r \in rows : r.start \in Nat /\ r.id \in Nat
  BY <1>2 DEF Row, Time
<1>5. \A r \in rows : DayOf(r.start) = d => r \in raw
  BY <1>2, <1>3, <1>4 DEF RawIn
<1>6. raw \subseteq rows /\ ms \subseteq Masters(rows)
  BY DEF RawIn, Masters, EarlyMasters
<1>7. ASSUME NEW m, NEW t \in Nat, DayOf(t) = d
      PROVE  Overridden(raw, m, t) <=> Hidden(m, t)
  BY <1>5, <1>6, <1>7 DEF Overridden, Hidden
<1>8. ASSUME e \in EventsForDay(GetEvents(lo, hi), d)
      PROVE  RowOn(e, d) \/ VirtualOn(e, d)
  <2>1. Midnight(d) <= e.start /\ e.start < Midnight(d + 1) /\ e \in GetEvents(lo, hi)
    BY <1>8 DEF EventsForDay
  <2>2. CASE \E r \in raw : e = ShownRow(r)
    <3>1. PICK r \in raw : e = ShownRow(r)
      BY <2>2
    <3>2. e.start = r.start
      BY <3>1 DEF ShownRow
    <3> QED
      BY <1>3, <1>4, <1>6, <2>1, <3>1, <3>2 DEF RowOn
  <2>3. CASE \E m \in ms : e \in Virtual(raw, m, lo, hi)
    <3>1. PICK m \in ms : e \in Virtual(raw, m, lo, hi)
      BY <2>3
    <3>2. PICK t \in Occurrences(m.start, m.until) \ {m.start} :
            ~Overridden(raw, m, t) /\ e = ShownVirtual(m, t)
      BY <3>1 DEF Virtual, ShownVirtual
    <3>3. e.start = t /\ t \in Nat
      BY <3>2, <1>2 DEF ShownVirtual, Occurrences, Time
    <3>4. DayOf(t) = d
      BY <1>3, <2>1, <3>3
    <3> QED
      BY <1>6, <1>7, <3>2, <3>3, <3>4 DEF VirtualOn
  <2> QED
    BY <2>1, <2>2, <2>3 DEF GetEvents, ShownRow
<1>9. ASSUME RowOn(e, d)
      PROVE  e \in EventsForDay(GetEvents(lo, hi), d)
  <2>1. PICK r \in rows : DayOf(r.start) = d /\ e = ShownRow(r)
    BY <1>9 DEF RowOn
  <2>2. e \in GetEvents(lo, hi)
    BY <1>5, <2>1 DEF GetEvents, ShownRow
  <2>3. e.start = r.start
    BY <2>1 DEF ShownRow
  <2> QED
    BY <1>3, <1>4, <2>1, <2>2, <2>3 DEF EventsForDay
<1>10. ASSUME VirtualOn(e, d)
       PROVE  e \in EventsForDay(GetEvents(lo, hi), d)
  <2>0. PICK m \in Masters(rows) :
          \E t \in Occurrences(m.start, m.until) \ {m.start} :
            DayOf(t) = d /\ ~Hidden(m, t) /\ e = ShownVirtual(m, t)
    BY <1>10 DEF VirtualOn
  <2>1. PICK t \in Occurrences(m.start, m.until) \ {m.start} :
          DayOf(t) = d /\ ~Hidden(m, t) /\ e = ShownVirtual(m, t)
    BY <2>0
  <2>2. t \in Nat /\ m.start <= t
    BY <1>2, <2>1 DEF Occurrences, Time
  <2>3. lo <= t /\ t <= hi
    BY <1>2, <1>3, <2>1, <2>2
  <2>4. m \in rows /\ m.repeats /\ m.parent = 0 /\ m.start \in Nat
    BY <1>4, <2>1 DEF Masters
  <2>5. m \in ms
    <3>1. CASE m.start < lo
      BY <2>1, <3>1 DEF EarlyMasters
    <3>2. CASE ~ m.start < lo
      <4>1. m \in raw
        BY <1>2, <2>2, <2>3, <2>4, <3>2 DEF RawIn
      <4> QED
        BY <2>4, <4>1 DEF Masters
    <3> QED
      BY <3>1, <3>2
  <2>6. e \in Virtual(raw, m, lo, hi)
    BY <1>7, <2>1, <2>2, <2>3 DEF Virtual, ShownVirtual
  <2>7. e \in GetEvents(lo, hi)
    BY <2>5, <2>6 DEF GetEvents
  <2>8. e.start = t
    BY <2>1 DEF ShownVirtual
  <2> QED
    BY <1>3, <2>1, <2>2, <2>7, <2>8 DEF EventsForDay
<1> QED
  BY <1>8, <1>9, <1>10

LEMMA ShownOn ==
  ASSUME rows \subseteq Row, NEW d \in Day, NEW e
  PROVE  e \in Shown(d) <=> RowOn(e, d) \/ VirtualOn(e, d)
<1>1. d \in Nat /\ Days \in Nat /\ Days - 1 \in Nat /\ d \in 0..(Days - 1)
  BY DaysAssumption DEF Day
<1>2. Midnight(0) = 0 /\ (Days - 1) + 1 = Days
  BY DayLengthType, DaysAssumption DEF Midnight
<1>3. e \in EventsForDay(GetEvents(Midnight(0), Midnight((Days - 1) + 1)), d)
        <=> RowOn(e, d) \/ VirtualOn(e, d)
  BY <1>1, DayShows
<1> QED
  BY <1>2, <1>3 DEF Shown

(* Rows of the right type are all the views need to agree. *)
LEMMA ViewsAgreeOn == rows \subseteq Row => ViewsAgree
<1> SUFFICES ASSUME rows \subseteq Row, NEW w \in DayWindows, NEW d \in w[1]..w[2]
             PROVE  EventsForDay(GetEvents(Midnight(w[1]), Midnight(w[2] + 1)), d) = Shown(d)
  BY DEF ViewsAgree
<1>1. w[1] \in Nat /\ w[2] \in Nat /\ w[2] + 1 <= Days /\ d \in Day
  BY DaysAssumption DEF DayWindows, Day
<1>2. \A e : e \in EventsForDay(GetEvents(Midnight(w[1]), Midnight(w[2] + 1)), d)
               <=> e \in Shown(d)
  BY <1>1, DayShows, ShownOn
<1> QED
  BY <1>2 DEF EventsForDay, Shown

-------------------------------------------------------------------------------
(* The type invariant.  What TypeOK needs beside itself: every start that  *)
(* is read back lies on a day the views can show.                          *)

RowsOK ==
  /\ \A r \in rows : r.id \in 1..lastId /\ r.parent \in 0..lastId /\ DayOf(r.start) \in Day
  /\ \A r, s \in rows : r.id = s.id => r = s

DialogOK ==
  /\ dlg.phase # "closed" =>
       /\ dlg.row.id \in 1..lastId
       /\ DayOf(dlg.row.start) \in Day
       /\ DayOf(dlg.occurrence) \in Day
  /\ dlg.phase \in {"scope", "trim", "new"} => DayOf(dlg.start) \in Day

TInv == TypeOK /\ RowsOK /\ DialogOK

(* A save rewrites a row and keeps whose it is.                            *)
LEMMA RewriteKeepsRows ==
  ASSUME TInv, NEW f \in [rows -> Row], lastId' = lastId,
         \A r \in rows : f[r].id = r.id /\ f[r].parent = r.parent /\ DayOf(f[r].start) \in Day,
         rows' = {f[r] : r \in rows}
  PROVE  rows' \subseteq Row /\ RowsOK'
  BY DEF TInv, RowsOK

LEMMA InsertKeepsRows ==
  ASSUME TInv, NEW new \in Row, new.id = lastId + 1, new.parent \in 0..lastId,
         DayOf(new.start) \in Day, rows' = rows \union {new}, lastId' = lastId + 1
  PROVE  rows' \subseteq Row /\ RowsOK' /\ lastId' \in Nat
<1>1. lastId \in Nat
  BY DEF TInv, TypeOK
<1>2. \A r \in rows' : r.id \in 1..lastId' /\ r.parent \in 0..lastId' /\ DayOf(r.start) \in Day
  BY <1>1 DEF TInv, RowsOK
<1>3. \A r, s \in rows' : r.id = s.id => r = s
  BY <1>1 DEF TInv, RowsOK
<1> QED
  BY <1>1, <1>2, <1>3 DEF TInv, TypeOK, RowsOK

LEMMA FewerRows ==
  ASSUME TInv, rows' \subseteq rows, lastId' = lastId
  PROVE  rows' \subseteq Row /\ RowsOK'
  BY DEF TInv, TypeOK, RowsOK

LEMMA StartsOnDay ==
  ASSUME TInv, dlg.phase # "closed", NEW start \in Starts
  PROVE  /\ start \in Time /\ DayOf(start) \in Day
         /\ DayOf(start) \in {DayOf(dlg.row.start), DayOf(dlg.occurrence)}
  BY AtDay DEF TInv, DialogOK, Starts

LEMMA WriteFieldsKeepsRows ==
  ASSUME TInv, NEW title \in Nat, NEW start \in Time, DayOf(start) \in Day,
         WriteFields(title, start), lastId' = lastId
  PROVE  rows' \subseteq Row /\ RowsOK'
<1> DEFINE f == [r \in rows |-> IF r.id = dlg.row.id THEN [r EXCEPT !.title = title, !.start = start] ELSE r]
<1>1. \A r \in rows : f[r] \in Row /\ f[r].id = r.id /\ f[r].parent = r.parent /\ DayOf(f[r].start) \in Day
  BY DEF TInv, TypeOK, RowsOK, Row
<1>2. f \in [rows -> Row]
  BY <1>1
<1>3. rows' = {f[r] : r \in rows}
  BY DEF WriteFields
<1> HIDE DEF f
<1> QED
  BY <1>1, <1>2, <1>3, RewriteKeepsRows

LEMMA InitTyped == Init => TInv
<1> SUFFICES ASSUME Init PROVE TInv
  OBVIOUS
<1>1. PICK s \in 1..Slots, u \in Untils :
        rows = {[id |-> 1, title |-> 0, start |-> At(0, s), repeats |-> TRUE,
                 until |-> Midnight(u), parent |-> 0]}
  BY DEF Init
<1>2. 0 \in Day /\ Slots \in Nat /\ u \in Nat
  BY DaysAssumption, UntilsAssumption DEF Day
<1>3. At(0, s) \in Time /\ DayOf(At(0, s)) = 0
  BY <1>2, AtDay
<1>4. Midnight(u) \in Nat /\ 0 \in Time
  BY <1>2, MidnightOrder, DaysAssumption DEF Time
<1>5. rows \subseteq Row
  BY <1>1, <1>3, <1>4 DEF Row
<1>6. dlg \in [phase : Phases, row : Row, virtual : BOOLEAN, occurrence : Time,
               title : Nat, start : Time]
  BY <1>4 DEF Init, Closed, NoRow, Phases, Row
<1>7. TypeOK
  BY <1>5, <1>6, BoundsAssumption DEF Init, TypeOK
<1>8. RowsOK
  <2> DEFINE r == [id |-> 1, title |-> 0, start |-> At(0, s), repeats |-> TRUE,
                   until |-> Midnight(u), parent |-> 0]
  <2>1. rows = {r} /\ r.id = 1 /\ r.parent = 0 /\ DayOf(r.start) = 0
    BY <1>1, <1>3
  <2> HIDE DEF r
  <2>2. lastId = 1
    BY DEF Init
  <2> QED
    BY <1>2, <2>1, <2>2 DEF RowsOK
<1>9. DialogOK
  BY DEF Init, DialogOK, Closed
<1> QED
  BY <1>7, <1>8, <1>9 DEF TInv

LEMMA ClosedTyped == Closed \in [phase : Phases, row : Row, virtual : BOOLEAN, occurrence : Time,
                                 title : Nat, start : Time]
<1>1. 0 \in Time
  BY MidnightOrder, DaysAssumption DEF Time
<1> QED
  BY <1>1 DEF Closed, NoRow, Phases, Row

(* What the user clicks on is a row, or a visible occurrence of a master.  *)
LEMMA OpenReads ==
  ASSUME TInv, Open
  PROVE  \E r \in rows, t \in Time :
           /\ DayOf(t) \in Day
           /\ \/ /\ dlg' = [Closed EXCEPT !.phase = "form", !.row = r, !.virtual = FALSE,
                                          !.occurrence = t]
                 /\ t = r.start
              \/ /\ dlg' = [Closed EXCEPT !.phase = "form", !.row = r, !.virtual = TRUE,
                                          !.occurrence = t]
                 /\ r \in Masters(rows)
                 /\ t \in Occurrences(r.start, r.until) \ {r.start}
                 /\ ~Hidden(r, t)
<1> DEFINE Clicked(e, r) ==
             /\ r.id = (IF e.id = 0 THEN e.parent ELSE e.id)
             /\ dlg' = [Closed EXCEPT !.phase = "form", !.row = r, !.virtual = (e.id = 0),
                                      !.occurrence = e.start]
<1>0. PICK d \in Day : \E e \in Shown(d) : \E r \in rows : Clicked(e, r)
  BY DEF Open
<1>1. PICK e \in Shown(d), r \in rows : Clicked(e, r)
  BY <1>0
<1>2. rows \subseteq Row
  BY DEF TInv, TypeOK
<1>3. RowOn(e, d) \/ VirtualOn(e, d)
  BY <1>1, <1>2, ShownOn
<1>4. CASE RowOn(e, d)
  <2>1. PICK q \in rows : DayOf(q.start) = d /\ e = ShownRow(q)
    BY <1>4 DEF RowOn
  <2>2. e.id = q.id /\ e.start = q.start /\ q.id # 0
    BY <2>1 DEF ShownRow, TInv, RowsOK
  <2>3. q = r
    BY <1>1, <2>2 DEF TInv, RowsOK
  <2> QED
    BY <1>1, <1>2, <2>1, <2>2, <2>3 DEF Row
<1>5. CASE VirtualOn(e, d)
  <2>0. PICK m \in Masters(rows) :
          \E t \in Occurrences(m.start, m.until) \ {m.start} :
            DayOf(t) = d /\ ~Hidden(m, t) /\ e = ShownVirtual(m, t)
    BY <1>5 DEF VirtualOn
  <2>1. PICK t \in Occurrences(m.start, m.until) \ {m.start} :
          DayOf(t) = d /\ ~Hidden(m, t) /\ e = ShownVirtual(m, t)
    BY <2>0
  <2>2. e.id = 0 /\ e.parent = m.id /\ e.start = t
    BY <2>1 DEF ShownVirtual
  <2>3. m = r
    BY <1>1, <2>2 DEF Masters, TInv, RowsOK
  <2>4. t \in Time
    BY DEF Occurrences
  <2> QED
    BY <1>1, <2>1, <2>2, <2>3, <2>4
<1> QED
  BY <1>3, <1>4, <1>5

LEMMA StepTyped == TInv /\ [Next]_vars => TInv'
<1> SUFFICES ASSUME TInv, [Next]_vars PROVE TInv'
  OBVIOUS
<1> USE DEF TInv
<1>1. CASE Open
  <2>1. PICK r \in rows, t \in Time, v \in BOOLEAN :
          /\ DayOf(t) \in Day
          /\ dlg' = [Closed EXCEPT !.phase = "form", !.row = r, !.virtual = v, !.occurrence = t]
    BY <1>1, OpenReads
  <2>2. TypeOK'
    BY <1>1, <2>1, ClosedTyped DEF Open, TypeOK, Phases
  <2>3. RowsOK'
    BY <1>1 DEF Open, RowsOK
  <2>4. DialogOK'
    BY <1>1, <2>1 DEF Open, DialogOK, Closed, RowsOK
  <2> QED
    BY <2>2, <2>3, <2>4
<1>2. CASE SaveRow
  <2>1. PICK start \in Starts : WriteFields(edits + 1, start)
    BY <1>2 DEF SaveRow
  <2>2. rows' \subseteq Row /\ RowsOK'
    BY <1>2, <2>1, StartsOnDay, WriteFieldsKeepsRows DEF SaveRow, TypeOK
  <2>3. TypeOK'
    BY <1>2, <2>2, ClosedTyped, BoundsAssumption DEF SaveRow, TypeOK, Phases
  <2>4. DialogOK'
    BY <1>2 DEF SaveRow, DialogOK, Closed
  <2> QED
    BY <2>2, <2>3, <2>4
<1>3. CASE SaveOccurrence
  <2>1. PICK start \in Starts :
          dlg' = [dlg EXCEPT !.phase = "scope", !.title = edits + 1, !.start = start]
    BY <1>3 DEF SaveOccurrence
  <2>2. start \in Time /\ DayOf(start) \in Day
    BY <1>3, StartsOnDay DEF SaveOccurrence
  <2>3. TypeOK'
    <3>1. edits' \in 0..MaxEdits /\ edits + 1 \in Nat /\ UNCHANGED <<rows, lastId, faults>>
      BY <1>3, BoundsAssumption DEF SaveOccurrence, TypeOK
    <3> QED
      BY <2>1, <2>2, <3>1 DEF TypeOK, Phases
  <2>4. RowsOK' /\ DialogOK'
    BY <1>3, <2>1, <2>2 DEF SaveOccurrence, RowsOK, DialogOK, TypeOK
  <2> QED
    BY <2>3, <2>4
<1>4. CASE JustThis
  <2> DEFINE new == [id |-> lastId + 1, title |-> dlg.title, start |-> dlg.start,
                     repeats |-> FALSE, until |-> 0, parent |-> dlg.row.id]
  <2>1. /\ dlg.title \in Nat /\ dlg.start \in Time /\ DayOf(dlg.start) \in Day
        /\ dlg.row.id \in 1..lastId /\ lastId \in Nat
    BY <1>4 DEF JustThis, TypeOK, DialogOK
  <2>2. new \in Row /\ new.id = lastId + 1 /\ new.parent \in 0..lastId /\ DayOf(new.start) \in Day
    BY <2>1 DEF Row
  <2>3. rows' = rows \union {new} /\ lastId' = lastId + 1
    BY <1>4 DEF JustThis, Insert
  <2> HIDE DEF new
  <2>4. rows' \subseteq Row /\ RowsOK' /\ lastId' \in Nat
    BY <2>2, <2>3, InsertKeepsRows
  <2>5. TypeOK' /\ DialogOK'
    BY <1>4, <2>4, ClosedTyped DEF JustThis, TypeOK, DialogOK, Closed
  <2> QED
    BY <2>4, <2>5
<1>5. CASE Split
  <2> DEFINE f == [r \in rows |-> IF r.id = dlg.row.id THEN [r EXCEPT !.until = Capped(dlg.occurrence)] ELSE r]
  <2>1. Capped(dlg.occurrence) \in Int
    BY MidnightOrder, DaysAssumption DEF TypeOK, Capped, Time
  <2>2. \A r \in rows : f[r] \in Row /\ f[r].id = r.id /\ f[r].parent = r.parent /\ DayOf(f[r].start) \in Day
    BY <2>1 DEF TypeOK, RowsOK, Row
  <2>3. f \in [rows -> Row]
    BY <2>2
  <2>4. rows' = {f[r] : r \in rows} /\ lastId' = lastId
    BY <1>5 DEF Split
  <2> HIDE DEF f
  <2>5. rows' \subseteq Row /\ RowsOK'
    BY <2>2, <2>3, <2>4, RewriteKeepsRows
  <2>6. TypeOK' /\ DialogOK'
    BY <1>5, <2>5 DEF Split, TypeOK, DialogOK, Phases
  <2> QED
    BY <2>5, <2>6
<1>6. CASE Trim
  <2>1. rows' \subseteq rows /\ lastId' = lastId
    BY <1>6 DEF Trim
  <2>2. rows' \subseteq Row /\ RowsOK'
    BY <2>1, FewerRows
  <2>3. TypeOK' /\ DialogOK'
    BY <1>6, <2>2, BoundsAssumption DEF Trim, Fails, TypeOK, DialogOK, Phases
  <2> QED
    BY <2>2, <2>3
<1>7. CASE NewSeries
  <2>1. CASE Fails /\ dlg' = [dlg EXCEPT !.phase = "scope"] /\ UNCHANGED <<rows, lastId>>
    BY <1>7, <2>1, BoundsAssumption DEF NewSeries, Fails, TypeOK, RowsOK, DialogOK, Phases
  <2>2. CASE /\ Insert(dlg.title, dlg.start, TRUE, CloneUntil(dlg.row.until, dlg.start), 0)
             /\ dlg' = Closed
             /\ UNCHANGED faults
    <3> DEFINE new == [id |-> lastId + 1, title |-> dlg.title, start |-> dlg.start, repeats |-> TRUE,
                       until |-> CloneUntil(dlg.row.until, dlg.start), parent |-> 0]
    <3>1. CloneUntil(dlg.row.until, dlg.start) \in Int
      BY MidnightOrder, DaysAssumption DEF CloneUntil, TypeOK, Row
    <3>2. /\ dlg.title \in Nat /\ dlg.start \in Time /\ DayOf(dlg.start) \in Day /\ lastId \in Nat
          /\ 0 \in Time
      BY <1>7, DaysAssumption, MidnightOrder DEF NewSeries, TypeOK, DialogOK, Time
    <3>3. new \in Row /\ new.id = lastId + 1 /\ new.parent \in 0..lastId /\ DayOf(new.start) \in Day
      BY <3>1, <3>2 DEF Row
    <3>4. rows' = rows \union {new} /\ lastId' = lastId + 1
      BY <2>2 DEF Insert
    <3> HIDE DEF new
    <3>5. rows' \subseteq Row /\ RowsOK' /\ lastId' \in Nat
      BY <3>3, <3>4, InsertKeepsRows
    <3>6. TypeOK' /\ DialogOK'
      BY <1>7, <2>2, <3>5, ClosedTyped DEF NewSeries, TypeOK, DialogOK, Closed
    <3> QED
      BY <3>5, <3>6
  <2> QED
    BY <1>7, <2>1, <2>2 DEF NewSeries
<1>8. CASE AllEvents
  <2>1. rows' \subseteq Row /\ RowsOK'
    BY <1>8, WriteFieldsKeepsRows DEF AllEvents, TypeOK, DialogOK
  <2>2. TypeOK' /\ DialogOK'
    BY <1>8, <2>1 DEF AllEvents, TypeOK, DialogOK, Phases
  <2> QED
    BY <2>1, <2>2
<1>9. CASE Clear
  <2>1. rows' \subseteq rows /\ lastId' = lastId
    BY <1>9 DEF Clear
  <2>2. rows' \subseteq Row /\ RowsOK'
    BY <2>1, FewerRows
  <2>3. TypeOK' /\ DialogOK'
    BY <1>9, <2>2, ClosedTyped, BoundsAssumption DEF Clear, Fails, TypeOK, DialogOK, Closed
  <2> QED
    BY <2>2, <2>3
<1>10. CASE Cancel
  BY <1>10, ClosedTyped DEF Cancel, TypeOK, RowsOK, DialogOK, Closed, Phases
<1>11. CASE Delete
  <2>1. rows' \subseteq rows /\ lastId' = lastId
    BY <1>11 DEF Delete
  <2>2. rows' \subseteq Row /\ RowsOK'
    BY <2>1, FewerRows
  <2>3. TypeOK' /\ DialogOK'
    BY <1>11, <2>2, ClosedTyped DEF Delete, TypeOK, DialogOK, Closed
  <2> QED
    BY <2>2, <2>3
<1>12. CASE Crash
  BY <1>12, ClosedTyped, BoundsAssumption DEF Crash, Fails, TypeOK, RowsOK, DialogOK, Closed
<1>13. CASE UNCHANGED vars
  BY <1>13 DEF vars, TypeOK, RowsOK, DialogOK
<1> QED
  BY <1>1, <1>2, <1>3, <1>4, <1>5, <1>6, <1>7, <1>8, <1>9, <1>10, <1>11, <1>12, <1>13 DEF Next

LEMMA Typed == Spec => []TInv
  BY InitTyped, StepTyped, PTL DEF Spec

(* The rows and the event window keep their types: in particular every     *)
(* start the form writes lies on a day that can be shown.                  *)
THEOREM TypeCorrect == Spec => []TypeOK
  BY Typed, PTL DEF TInv

(* Whatever is saved, in whatever scope, and wherever it is cut short: the *)
(* day, the week and the month view show the same events on a day          *)
(* (GetEvents, for any number of days and any rule).                       *)
THEOREM ViewsShowTheSame == Spec => []ViewsAgree
<1>1. TInv => ViewsAgree
  BY ViewsAgreeOn DEF TInv, TypeOK
<1> QED
  BY <1>1, Typed, PTL

-------------------------------------------------------------------------------
(* A series stands on a day at most once.                                  *)

\* A series has one row a day.
OneRowADay ==
  \A r, s \in rows : SeriesOf(r) = SeriesOf(s) /\ DayOf(r.start) = DayOf(s.start) => r = s

\* The row the window has read is the one in the table, but for what this save
\* has changed; the occurrence has nobody else on its day.
WindowAgrees ==
  dlg.phase # "closed" =>
    /\ \A r \in rows : r.id = dlg.row.id =>
         r.parent = dlg.row.parent /\ DayOf(r.start) = DayOf(dlg.row.start)
    /\ ~dlg.virtual => dlg.occurrence = dlg.row.start
    /\ dlg.phase \in {"scope", "trim", "new"} => dlg.virtual
    /\ dlg.virtual /\ dlg.phase # "clear" =>
         /\ dlg.row.parent = 0
         /\ DayOf(dlg.occurrence) # DayOf(dlg.row.start)
         /\ \A r \in rows : r.parent = dlg.row.id => DayOf(r.start) # DayOf(dlg.occurrence)

\* The date typed fits the scope.
DateFits == dlg.phase \in {"trim", "new"} => DayOf(dlg.start) = DayOf(dlg.occurrence)

SInv == TInv /\ OneRowADay /\ WindowAgrees /\ DateFits

LEMMA InitOnce == Init => OneRowADay /\ WindowAgrees /\ DateFits
  BY DEF Init, OneRowADay, WindowAgrees, DateFits, Closed

LEMMA RewriteKeepsOnce ==
  ASSUME SInv, NEW f \in [rows -> Row], lastId' = lastId,
         \A r \in rows : f[r].id = r.id /\ f[r].parent = r.parent /\ DayOf(f[r].start) = DayOf(r.start),
         rows' = {f[r] : r \in rows}
  PROVE  /\ OneRowADay'
         /\ \A r \in rows' : \E q \in rows :
              r.id = q.id /\ r.parent = q.parent /\ DayOf(r.start) = DayOf(q.start)
<1>1. ASSUME NEW r \in rows, NEW s \in rows, SeriesOf(f[r]) = SeriesOf(f[s]),
             DayOf(f[r].start) = DayOf(f[s].start)
      PROVE  f[r] = f[s]
  <2>1. SeriesOf(r) = SeriesOf(s) /\ DayOf(r.start) = DayOf(s.start)
    BY <1>1 DEF SeriesOf
  <2> QED
    BY <2>1 DEF SInv, OneRowADay
<1> QED
  BY <1>1 DEF OneRowADay

LEMMA FewerKeepsOnce ==
  ASSUME SInv, rows' \subseteq rows
  PROVE  OneRowADay'
  BY DEF SInv, OneRowADay, SeriesOf

LEMMA WriteFieldsKeepsOnce ==
  ASSUME SInv, dlg.phase # "closed", NEW title \in Nat, NEW start \in Time,
         DayOf(start) = DayOf(dlg.row.start),
         WriteFields(title, start), lastId' = lastId
  PROVE  /\ OneRowADay'
         /\ \A r \in rows' : \E q \in rows :
              r.id = q.id /\ r.parent = q.parent /\ DayOf(r.start) = DayOf(q.start)
<1> DEFINE f == [r \in rows |-> IF r.id = dlg.row.id THEN [r EXCEPT !.title = title, !.start = start] ELSE r]
<1>1. \A r \in rows : f[r] \in Row /\ f[r].id = r.id /\ f[r].parent = r.parent
                                   /\ DayOf(f[r].start) = DayOf(r.start)
  BY DEF SInv, TInv, TypeOK, WindowAgrees, Row
<1>2. f \in [rows -> Row]
  BY <1>1
<1>3. rows' = {f[r] : r \in rows}
  BY DEF WriteFields
<1> HIDE DEF f
<1> QED
  BY <1>1, <1>2, <1>3, RewriteKeepsOnce

(* The occurrence of a rule stands on another day than the master.         *)
LEMMA OtherDay ==
  ASSUME rows \subseteq Row, NEW m \in rows, NEW t \in Occurrences(m.start, m.until) \ {m.start}
  PROVE  DayOf(t) # DayOf(m.start)
<1>1. t \in Nat /\ m.start \in Nat /\ m.start <= t /\ (t - m.start) % DayLength = 0
  BY DaysAssumption, MidnightOrder DEF Occurrences, Time, Row
<1>2. (m.start - m.start) % DayLength = 0
  BY <1>1, DayLengthType
<1> QED
  BY <1>1, <1>2, OneADay

LEMMA StepOnce == Careful /\ SInv /\ [Next]_vars => (OneRowADay /\ WindowAgrees /\ DateFits)'
<1> SUFFICES ASSUME Careful, SInv, [Next]_vars PROVE (OneRowADay /\ WindowAgrees /\ DateFits)'
  OBVIOUS
<1>t. TInv /\ TypeOK /\ RowsOK /\ DialogOK /\ OneRowADay /\ WindowAgrees /\ DateFits
  BY DEF SInv, TInv
<1>1. CASE Open
  <2>1. PICK r \in rows, t \in Time :
          /\ DayOf(t) \in Day
          /\ \/ /\ dlg' = [Closed EXCEPT !.phase = "form", !.row = r, !.virtual = FALSE,
                                         !.occurrence = t]
                /\ t = r.start
             \/ /\ dlg' = [Closed EXCEPT !.phase = "form", !.row = r, !.virtual = TRUE,
                                         !.occurrence = t]
                /\ r \in Masters(rows)
                /\ t \in Occurrences(r.start, r.until) \ {r.start}
                /\ ~Hidden(r, t)
    BY <1>1, <1>t, OpenReads
  <2>2. rows' = rows
    BY <1>1 DEF Open
  <2>3. OneRowADay' /\ DateFits'
    BY <1>t, <2>1, <2>2 DEF OneRowADay, DateFits, Closed
  <2>4. dlg'.row = r /\ dlg'.phase = "form" /\ dlg'.occurrence = t
    BY <2>1 DEF Closed
  <2>5. \A q \in rows : q.id = r.id => q = r
    BY <1>t DEF RowsOK
  <2>6. CASE dlg' = [Closed EXCEPT !.phase = "form", !.row = r, !.virtual = FALSE, !.occurrence = t]
             /\ t = r.start
    <3>1. ~dlg'.virtual
      BY <2>6 DEF Closed
    <3> QED
      BY <2>2, <2>3, <2>4, <2>5, <2>6, <3>1 DEF WindowAgrees
  <2>7. CASE /\ r \in Masters(rows)
             /\ t \in Occurrences(r.start, r.until) \ {r.start}
             /\ ~Hidden(r, t)
             /\ dlg' = [Closed EXCEPT !.phase = "form", !.row = r, !.virtual = TRUE, !.occurrence = t]
    <3>1. DayOf(t) # DayOf(r.start) /\ r.parent = 0
      BY <1>t, <2>7, OtherDay DEF TypeOK, Masters
    <3>2. dlg'.virtual
      BY <2>7 DEF Closed
    <3> QED
      BY <2>2, <2>3, <2>4, <2>5, <2>7, <3>1, <3>2 DEF WindowAgrees, Hidden
  <2> QED
    BY <2>1, <2>6, <2>7
<1>2. CASE SaveRow
  <2>1. PICK start \in Starts : WriteFields(edits + 1, start)
    BY <1>2 DEF SaveRow
  <2>2. start \in Time /\ DayOf(start) = DayOf(dlg.row.start)
    BY <1>2, <1>t, StartsOnDay DEF SaveRow, WindowAgrees
  <2>3. /\ OneRowADay'
        /\ \A r \in rows' : \E q \in rows :
             r.id = q.id /\ r.parent = q.parent /\ DayOf(r.start) = DayOf(q.start)
    <3>1. edits + 1 \in Nat /\ dlg.phase # "closed" /\ lastId' = lastId
      BY <1>2, <1>t, BoundsAssumption DEF SaveRow, TypeOK
    <3> QED
      BY <2>1, <2>2, <3>1, WriteFieldsKeepsOnce
  <2>4. dlg' = Closed \/ dlg' = [dlg EXCEPT !.phase = "clear"]
    BY <1>2 DEF SaveRow
  <2>5. WindowAgrees' /\ DateFits'
    BY <1>2, <1>t, <2>3, <2>4 DEF SaveRow, TypeOK, WindowAgrees, DateFits, Closed
  <2> QED
    BY <2>3, <2>5
<1>3. CASE SaveOccurrence
  BY <1>3, <1>t DEF SaveOccurrence, TypeOK, OneRowADay, WindowAgrees, DateFits
<1>4. CASE JustThis
  <2> DEFINE new == [id |-> lastId + 1, title |-> dlg.title, start |-> dlg.start,
                     repeats |-> FALSE, until |-> 0, parent |-> dlg.row.id]
  <2>1. rows' = rows \union {new} /\ dlg' = Closed
    BY <1>4 DEF JustThis, Insert
  <2>2. DayOf(new.start) = DayOf(dlg.occurrence)
    BY <1>4 DEF JustThis, Fits
  <2>3. dlg.row.id # 0 /\ SeriesOf(new) = dlg.row.id
    BY <1>4, <1>t DEF JustThis, DialogOK, SeriesOf
  <2>4. ASSUME NEW r \in rows, SeriesOf(r) = dlg.row.id
        PROVE  DayOf(r.start) # DayOf(dlg.occurrence)
    BY <1>4, <1>t, <2>4 DEF JustThis, WindowAgrees, SeriesOf
  <2> HIDE DEF new
  <2>5. OneRowADay'
    BY <1>t, <2>1, <2>2, <2>3, <2>4 DEF OneRowADay, SeriesOf
  <2> QED
    BY <2>1, <2>5 DEF WindowAgrees, DateFits, Closed
<1>5. CASE Split
  <2> DEFINE f == [r \in rows |-> IF r.id = dlg.row.id THEN [r EXCEPT !.until = Capped(dlg.occurrence)] ELSE r]
  <2>1. Capped(dlg.occurrence) \in Int
    BY <1>t, MidnightOrder, DaysAssumption DEF TypeOK, Capped, Time
  <2>2. \A r \in rows : f[r] \in Row /\ f[r].id = r.id /\ f[r].parent = r.parent /\ DayOf(f[r].start) = DayOf(r.start)
    BY <1>t, <2>1 DEF TypeOK, Row
  <2>3. f \in [rows -> Row]
    BY <2>2
  <2>4. rows' = {f[r] : r \in rows} /\ lastId' = lastId
    BY <1>5 DEF Split
  <2> HIDE DEF f
  <2>5. /\ OneRowADay'
        /\ \A r \in rows' : \E q \in rows :
             r.id = q.id /\ r.parent = q.parent /\ DayOf(r.start) = DayOf(q.start)
    BY <2>2, <2>3, <2>4, RewriteKeepsOnce
  <2>6. WindowAgrees' /\ DateFits'
    BY <1>5, <1>t, <2>5 DEF Split, Fits, TypeOK, WindowAgrees, DateFits
  <2> QED
    BY <2>5, <2>6
<1>6. CASE Trim
  <2>1. rows' \subseteq rows
    BY <1>6 DEF Trim
  <2>2. dlg' = [dlg EXCEPT !.phase = "new"] \/ dlg' = [dlg EXCEPT !.phase = "scope"]
    BY <1>6 DEF Trim
  <2>3. WindowAgrees' /\ DateFits'
    BY <1>6, <1>t, <2>1, <2>2 DEF Trim, TypeOK, WindowAgrees, DateFits
  <2> QED
    BY <2>1, <2>3, FewerKeepsOnce
<1>7. CASE NewSeries
  <2>1. CASE Fails /\ dlg' = [dlg EXCEPT !.phase = "scope"] /\ UNCHANGED <<rows, lastId>>
    BY <1>7, <1>t, <2>1 DEF NewSeries, TypeOK, OneRowADay, WindowAgrees, DateFits
  <2>2. CASE /\ Insert(dlg.title, dlg.start, TRUE, CloneUntil(dlg.row.until, dlg.start), 0)
             /\ dlg' = Closed
             /\ UNCHANGED faults
    <3> DEFINE new == [id |-> lastId + 1, title |-> dlg.title, start |-> dlg.start, repeats |-> TRUE,
                       until |-> CloneUntil(dlg.row.until, dlg.start), parent |-> 0]
    <3>1. rows' = rows \union {new}
      BY <2>2 DEF Insert
    <3>2. SeriesOf(new) = lastId + 1
      BY DEF SeriesOf
    <3>3. \A r \in rows : SeriesOf(r) # lastId + 1
      BY <1>t DEF RowsOK, TypeOK, SeriesOf
    <3> HIDE DEF new
    <3>4. OneRowADay'
      BY <1>t, <3>1, <3>2, <3>3 DEF OneRowADay, SeriesOf
    <3> QED
      BY <2>2, <3>4 DEF WindowAgrees, DateFits, Closed
  <2> QED
    BY <1>7, <2>1, <2>2 DEF NewSeries
<1>8. CASE AllEvents
  <2>1. DayOf(dlg.start) = DayOf(dlg.row.start)
    BY <1>8 DEF AllEvents, Fits
  <2>2. /\ OneRowADay'
        /\ \A r \in rows' : \E q \in rows :
             r.id = q.id /\ r.parent = q.parent /\ DayOf(r.start) = DayOf(q.start)
    BY <1>8, <1>t, <2>1, WriteFieldsKeepsOnce DEF AllEvents, TypeOK
  <2>3. WindowAgrees' /\ DateFits'
    BY <1>8, <1>t, <2>2 DEF AllEvents, TypeOK, WindowAgrees, DateFits
  <2> QED
    BY <2>2, <2>3
<1>9. CASE Clear
  <2>1. rows' \subseteq rows /\ dlg' = Closed
    BY <1>9 DEF Clear
  <2> QED
    BY <2>1, FewerKeepsOnce DEF WindowAgrees, DateFits, Closed
<1>10. CASE Cancel
  BY <1>10, <1>t DEF Cancel, TypeOK, OneRowADay, WindowAgrees, DateFits, Closed
<1>11. CASE Delete
  <2>1. rows' \subseteq rows /\ dlg' = Closed
    BY <1>11 DEF Delete
  <2> QED
    BY <2>1, FewerKeepsOnce DEF WindowAgrees, DateFits, Closed
<1>12. CASE Crash
  BY <1>12, <1>t DEF Crash, OneRowADay, WindowAgrees, DateFits, Closed
<1>13. CASE UNCHANGED vars
  BY <1>13, <1>t DEF vars, OneRowADay, WindowAgrees, DateFits
<1> QED
  BY <1>1, <1>2, <1>3, <1>4, <1>5, <1>6, <1>7, <1>8, <1>9, <1>10, <1>11, <1>12, <1>13 DEF Next

(* One row a day is one entry a day: the occurrence of a rule never stands *)
(* beside its master, an exception or another occurrence.                  *)
LEMMA OnceFromRows == SInv => SeriesOncePerDay
<1> SUFFICES ASSUME SInv, NEW d \in Day, NEW e \in Shown(d), NEW f \in Shown(d),
                    SeriesOf(e) = SeriesOf(f)
             PROVE  e = f
  BY DEF SeriesOncePerDay
<1>t. rows \subseteq Row /\ RowsOK /\ OneRowADay
  BY DEF SInv, TInv, TypeOK
<1>0. \A r \in rows : r.id # 0 /\ r.start \in Nat
  BY <1>t, DaysAssumption, MidnightOrder DEF RowsOK, Row, Time
<1>1. ASSUME NEW x, NEW y, RowOn(x, d), VirtualOn(y, d)
      PROVE  SeriesOf(x) # SeriesOf(y)
  <2>1. PICK r \in rows : DayOf(r.start) = d /\ x = ShownRow(r)
    BY <1>1 DEF RowOn
  <2>2. PICK m \in Masters(rows) :
          \E t \in Occurrences(m.start, m.until) \ {m.start} :
            DayOf(t) = d /\ ~Hidden(m, t) /\ y = ShownVirtual(m, t)
    BY <1>1 DEF VirtualOn
  <2>3. PICK t \in Occurrences(m.start, m.until) \ {m.start} :
          DayOf(t) = d /\ ~Hidden(m, t) /\ y = ShownVirtual(m, t)
    BY <2>2
  <2>4. m \in rows /\ m.id # 0
    BY <1>0 DEF Masters
  <2>5. SeriesOf(y) = m.id /\ SeriesOf(x) = SeriesOf(r)
    BY <2>1, <2>3, <2>4 DEF ShownRow, ShownVirtual, SeriesOf
  <2>6. r.parent # m.id
    BY <2>1, <2>3 DEF Hidden
  <2>7. r # m
    BY <1>t, <2>1, <2>3, <2>4, OtherDay
  <2> QED
    BY <1>t, <2>4, <2>5, <2>6, <2>7 DEF RowsOK, SeriesOf
<1>2. RowOn(e, d) \/ VirtualOn(e, d)
  BY <1>t, ShownOn
<1>3. RowOn(f, d) \/ VirtualOn(f, d)
  BY <1>t, ShownOn
<1>4. CASE RowOn(e, d) /\ RowOn(f, d)
  <2>1. PICK r \in rows : DayOf(r.start) = d /\ e = ShownRow(r)
    BY <1>4 DEF RowOn
  <2>2. PICK s \in rows : DayOf(s.start) = d /\ f = ShownRow(s)
    BY <1>4 DEF RowOn
  <2>3. SeriesOf(r) = SeriesOf(s)
    BY <2>1, <2>2 DEF ShownRow, SeriesOf
  <2> QED
    BY <1>t, <2>1, <2>2, <2>3 DEF OneRowADay
<1>5. CASE VirtualOn(e, d) /\ VirtualOn(f, d)
  <2>1. PICK m \in Masters(rows) :
          \E t \in Occurrences(m.start, m.until) \ {m.start} :
            DayOf(t) = d /\ ~Hidden(m, t) /\ e = ShownVirtual(m, t)
    BY <1>5 DEF VirtualOn
  <2>2. PICK t \in Occurrences(m.start, m.until) \ {m.start} :
          DayOf(t) = d /\ ~Hidden(m, t) /\ e = ShownVirtual(m, t)
    BY <2>1
  <2>3. PICK n \in Masters(rows) :
          \E u \in Occurrences(n.start, n.until) \ {n.start} :
            DayOf(u) = d /\ ~Hidden(n, u) /\ f = ShownVirtual(n, u)
    BY <1>5 DEF VirtualOn
  <2>4. PICK u \in Occurrences(n.start, n.until) \ {n.start} :
          DayOf(u) = d /\ ~Hidden(n, u) /\ f = ShownVirtual(n, u)
    BY <2>3
  <2>5. m \in rows /\ n \in rows /\ m.id # 0 /\ n.id # 0
    BY <1>0 DEF Masters
  <2>6. m = n
    BY <1>t, <2>2, <2>4, <2>5 DEF ShownVirtual, SeriesOf, RowsOK
  <2>7. /\ t \in Nat /\ m.start <= t /\ (t - m.start) % DayLength = 0
        /\ u \in Nat /\ m.start <= u /\ (u - m.start) % DayLength = 0
    BY <2>6, DaysAssumption, MidnightOrder DEF Occurrences, Time
  <2>8. t = u
    BY <1>0, <2>2, <2>4, <2>5, <2>7, OneADay
  <2> QED
    BY <2>2, <2>4, <2>6, <2>8
<1> QED
  BY <1>1, <1>2, <1>3, <1>4, <1>5

LEMMA Once == Careful /\ Spec => []SInv
<1> SUFFICES ASSUME Careful PROVE Spec => []SInv
  OBVIOUS
<1>1. SInv /\ [Next]_vars => SInv'
  BY StepOnce, StepTyped DEF SInv
<1>2. Init => SInv
  BY InitOnce, InitTyped DEF SInv
<1> QED
  BY <1>1, <1>2, PTL DEF Spec

(* For any number of saves, failed statements and crashes, a user who      *)
(* types dates that fit the scope never sees a series twice on a day       *)
(* (applyJustThis, applyThisAndFollowing, applyAllEvents, expandMaster).   *)
THEOREM OncePerDay == Careful /\ Spec => []SeriesOncePerDay
  BY Once, OnceFromRows, PTL

-------------------------------------------------------------------------------
(* A split loses no day.                                                   *)

\* The occurrence is one of the rule the window has read, and a split on its
\* way has left nothing of the old series from that day on.
SplitOK ==
  /\ \A r \in rows : r.until \in Time
  /\ dlg.phase # "closed" => dlg.row.until \in Time
  /\ dlg.virtual /\ dlg.phase \notin {"closed", "clear"} =>
       /\ dlg.row.start < dlg.occurrence
       /\ (dlg.occurrence - dlg.row.start) % DayLength = 0
       /\ \A r \in rows : r.id = dlg.row.id => r.start = dlg.row.start
  /\ dlg.phase \in {"trim", "new"} =>
       \A r \in rows : r.id = dlg.row.id => r.until < dlg.occurrence
  /\ dlg.phase = "new" =>
       \A r \in rows : r.parent = dlg.row.id => r.start < dlg.occurrence

LEMMA TimeIsNat == Time \subseteq Nat /\ 0 \in Time /\ Midnight(Days) \in Time
  BY MidnightOrder, DaysAssumption DEF Time

LEMMA InitSplit == Init => SplitOK
<1> SUFFICES ASSUME Init PROVE SplitOK
  OBVIOUS
<1>1. PICK s \in 1..Slots, u \in Untils :
        rows = {[id |-> 1, title |-> 0, start |-> At(0, s), repeats |-> TRUE,
                 until |-> Midnight(u), parent |-> 0]}
  BY DEF Init
<1>2. Midnight(u) \in Time
  BY UntilsAssumption, DaysAssumption, MidnightOrder DEF Time
<1>3. \A r \in rows : r.until \in Time
  BY <1>1, <1>2
<1>4. dlg.phase = "closed"
  BY DEF Init, Closed
<1> QED
  BY <1>3, <1>4 DEF SplitOK

LEMMA StepSplit == Careful /\ SInv /\ SplitOK /\ [Next]_vars => SplitOK'
<1> SUFFICES ASSUME Careful, SInv, SplitOK, [Next]_vars PROVE SplitOK'
  OBVIOUS
<1>t. TInv /\ TypeOK /\ RowsOK /\ DialogOK /\ WindowAgrees
  BY DEF SInv, TInv
<1>1. CASE Open
  <2>1. PICK r \in rows, t \in Time :
          /\ DayOf(t) \in Day
          /\ \/ /\ dlg' = [Closed EXCEPT !.phase = "form", !.row = r, !.virtual = FALSE,
                                         !.occurrence = t]
                /\ t = r.start
             \/ /\ dlg' = [Closed EXCEPT !.phase = "form", !.row = r, !.virtual = TRUE,
                                         !.occurrence = t]
                /\ r \in Masters(rows)
                /\ t \in Occurrences(r.start, r.until) \ {r.start}
                /\ ~Hidden(r, t)
    BY <1>1, <1>t, OpenReads
  <2>2. rows' = rows
    BY <1>1 DEF Open
  <2>3. dlg'.row = r /\ dlg'.phase = "form" /\ dlg'.occurrence = t
    BY <2>1 DEF Closed
  <2>4. \A q \in rows : q.id = r.id => q = r
    BY <1>t DEF RowsOK
  <2>5. CASE ~dlg'.virtual
    BY <2>2, <2>3, <2>5 DEF SplitOK
  <2>6. CASE dlg'.virtual
    <3>1. t \in Occurrences(r.start, r.until) \ {r.start}
      BY <2>1, <2>6 DEF Closed
    <3>a. r.start <= t /\ (t - r.start) % DayLength = 0 /\ t # r.start
      BY <3>1 DEF Occurrences
    <3>b. r.start \in Nat /\ t \in Nat
      BY <1>t, TimeIsNat DEF TypeOK, Row
    <3>2. r.start < t /\ (t - r.start) % DayLength = 0
      BY <3>a, <3>b
    <3> QED
      BY <2>2, <2>3, <2>4, <3>2 DEF SplitOK
  <2> QED
    BY <2>5, <2>6
<1>2. CASE SaveRow
  <2>1. PICK start \in Starts : WriteFields(edits + 1, start)
    BY <1>2 DEF SaveRow
  <2>2. \A r \in rows' : \E q \in rows : r.until = q.until
    BY <1>t, <2>1 DEF WriteFields, TypeOK, Row
  <2>3. dlg' = Closed \/ dlg' = [dlg EXCEPT !.phase = "clear"]
    BY <1>2 DEF SaveRow
  <2> QED
    BY <1>2, <1>t, <2>2, <2>3 DEF SaveRow, TypeOK, SplitOK, Closed
<1>3. CASE SaveOccurrence
  BY <1>3, <1>t DEF SaveOccurrence, TypeOK, SplitOK
<1>4. CASE JustThis
  <2> DEFINE new == [id |-> lastId + 1, title |-> dlg.title, start |-> dlg.start,
                     repeats |-> FALSE, until |-> 0, parent |-> dlg.row.id]
  <2>1. rows' = rows \union {new} /\ dlg' = Closed /\ new.until = 0
    BY <1>4 DEF JustThis, Insert
  <2> HIDE DEF new
  <2> QED
    BY <2>1, TimeIsNat DEF SplitOK, Closed
<1>5. CASE Split
  <2>1. dlg.virtual /\ dlg.row.start < dlg.occurrence
    BY <1>5, <1>t DEF Split, WindowAgrees, SplitOK
  <2>2. dlg.row.start \in Nat /\ dlg.occurrence \in Time
    BY <1>t, TimeIsNat DEF TypeOK, Row
  <2>3. Capped(dlg.occurrence) \in Time /\ Capped(dlg.occurrence) < dlg.occurrence
    BY <2>1, <2>2, TimeIsNat DEF Capped, Time
  <2>4. ASSUME NEW r \in rows'
        PROVE  \E q \in rows : /\ r.id = q.id /\ r.start = q.start
                               /\ r.until = IF q.id = dlg.row.id THEN Capped(dlg.occurrence) ELSE q.until
    <3>1. PICK q \in rows : r = IF q.id = dlg.row.id THEN [q EXCEPT !.until = Capped(dlg.occurrence)] ELSE q
      BY <1>5, <2>4 DEF Split
    <3> QED
      BY <1>t, <3>1 DEF TypeOK, Row
  <2>5. dlg' = [dlg EXCEPT !.phase = "trim"]
    BY <1>5 DEF Split
  <2> QED
    BY <1>5, <1>t, <2>3, <2>4, <2>5 DEF Split, TypeOK, SplitOK
<1>6. CASE Trim
  <2>1. rows' \subseteq rows
    BY <1>6 DEF Trim
  <2>2. CASE dlg' = [dlg EXCEPT !.phase = "scope"]
    BY <1>6, <1>t, <2>1, <2>2 DEF Trim, TypeOK, SplitOK
  <2>3. CASE dlg' = [dlg EXCEPT !.phase = "new"] /\ rows' = rows \ ExceptionsOnOrAfter(dlg.occurrence)
    <3>1. \A r \in rows' : r.parent = dlg.row.id => r.start < dlg.occurrence
      BY <1>t, <2>3, TimeIsNat DEF ExceptionsOnOrAfter, TypeOK, Row
    <3> QED
      BY <1>6, <1>t, <2>1, <2>3, <3>1 DEF Trim, TypeOK, SplitOK
  <2> QED
    BY <1>6, <2>2, <2>3 DEF Trim
<1>7. CASE NewSeries
  <2>1. CASE Fails /\ dlg' = [dlg EXCEPT !.phase = "scope"] /\ UNCHANGED <<rows, lastId>>
    BY <1>7, <1>t, <2>1 DEF NewSeries, TypeOK, SplitOK
  <2>2. CASE /\ Insert(dlg.title, dlg.start, TRUE, CloneUntil(dlg.row.until, dlg.start), 0)
             /\ dlg' = Closed
             /\ UNCHANGED faults
    <3> DEFINE new == [id |-> lastId + 1, title |-> dlg.title, start |-> dlg.start, repeats |-> TRUE,
                       until |-> CloneUntil(dlg.row.until, dlg.start), parent |-> 0]
    <3>1. new.until \in Time
      BY <1>7, TimeIsNat DEF NewSeries, CloneUntil, SplitOK
    <3>2. rows' = rows \union {new}
      BY <2>2 DEF Insert
    <3> HIDE DEF new
    <3> QED
      BY <2>2, <3>1, <3>2 DEF SplitOK, Closed
  <2> QED
    BY <1>7, <2>1, <2>2 DEF NewSeries
<1>8. CASE AllEvents
  <2>1. \A r \in rows' : \E q \in rows : r.until = q.until
    <3>1. rows \subseteq Row
      BY <1>t DEF TypeOK
    <3>2. \A r \in Row : \A title, start : [r EXCEPT !.title = title, !.start = start].until = r.until
      BY DEF Row
    <3>3. rows' = {IF r.id = dlg.row.id THEN [r EXCEPT !.title = dlg.title, !.start = dlg.start] ELSE r :
                     r \in rows}
      BY <1>8 DEF AllEvents, WriteFields
    <3>4. \A r \in rows : (IF r.id = dlg.row.id THEN [r EXCEPT !.title = dlg.title, !.start = dlg.start]
                             ELSE r).until = r.until
      BY <3>1, <3>2
    <3> QED
      BY <3>3, <3>4
  <2> QED
    BY <1>8, <1>t, <2>1 DEF AllEvents, TypeOK, SplitOK
<1>9. CASE Clear
  <2>1. rows' \subseteq rows /\ dlg' = Closed
    BY <1>9 DEF Clear
  <2> QED
    BY <2>1 DEF SplitOK, Closed
<1>10. CASE Cancel
  BY <1>10, <1>t DEF Cancel, TypeOK, SplitOK, Closed
<1>11. CASE Delete
  <2>1. rows' \subseteq rows /\ dlg' = Closed
    BY <1>11 DEF Delete
  <2> QED
    BY <2>1 DEF SplitOK, Closed
<1>12. CASE Crash
  BY <1>12 DEF Crash, SplitOK, Closed
<1>13. CASE UNCHANGED vars
  BY <1>13 DEF vars, SplitOK
<1> QED
  BY <1>1, <1>2, <1>3, <1>4, <1>5, <1>6, <1>7, <1>8, <1>9, <1>10, <1>11, <1>12, <1>13 DEF Next

ShowsRowsAndRules ==
  rows \subseteq Row => \A d \in Day : \A e : e \in Shown(d) <=> RowOn(e, d) \/ VirtualOn(e, d)

LEMMA ShownOnAll == ShowsRowsAndRules
  BY ShownOn DEF ShowsRowsAndRules

LEMMA ShownOnNext == ShowsRowsAndRules'
  BY ShownOnAll, PTL

(* An occurrence of the old rule has one of the new on its day.            *)
LEMMA MovedOccurrence ==
  ASSUME NEW start \in Time, NEW t \in Time, NEW until \in Time,
         DayOf(start) <= DayOf(t), DayOf(t) < DayOf(until)
  PROVE  /\ DayOf(t) \in Day
         /\ \E u \in Occurrences(start, CloneUntil(until, start)) : DayOf(u) = DayOf(t)
<1> DEFINE d == DayOf(t)  L == DayLength  k == d - DayOf(start)  u == start + k * L
<1>1. start \in Nat /\ t \in Nat /\ until \in Nat /\ Days \in Nat /\ L \in Nat \ {0}
      /\ until <= Midnight(Days) /\ Midnight(Days) \in Nat
  BY TimeIsNat, DaysAssumption, DayLengthType, MidnightOrder DEF Time
<1>2. DayOf(start) \in Nat /\ d \in Nat /\ DayOf(until) \in Nat
  BY <1>1, DayIs
<1>3. DayOf(Midnight(Days)) = Days
  BY <1>1, MidnightOrder, DayIs
<1>4. DayOf(until) <= Days
  BY <1>1, <1>3, DayOrder
<1>5. d \in Day
  BY <1>1, <1>2, <1>4 DEF Day
<1>6. k \in Nat /\ k * L \in Nat /\ d = DayOf(start) + k
  BY <1>1, <1>2
<1>7. Midnight(d) = Midnight(DayOf(start)) + k * L /\ Midnight(d + 1) = Midnight(DayOf(start) + 1) + k * L
  BY <1>1, <1>2, <1>6 DEF Midnight
<1>8. /\ Midnight(DayOf(start)) <= start /\ start < Midnight(DayOf(start) + 1)
      /\ Midnight(DayOf(start)) \in Nat /\ Midnight(DayOf(start) + 1) \in Nat
  <2>1. DayOf(start) + 1 \in Nat
    BY <1>2
  <2> QED
    BY <1>1, <1>2, <2>1, DayIs, MidnightOrder
<1>9. u \in Nat /\ start <= u /\ u - start = k * L
  BY <1>1, <1>6
<1>10. Midnight(d) <= u /\ u < Midnight(d + 1)
  BY <1>1, <1>6, <1>7, <1>8
<1>11. DayOf(u) = d
  BY <1>2, <1>9, <1>10, DayIs
<1>12. (k * L) % L = 0
  <2>1. \A n \in Nat : \A j \in Nat \ {0} : (n * j) % j = 0
    OBVIOUS
  <2> QED
    BY <1>1, <1>6, <2>1
<1> HIDE DEF u, k, d, L
<1>13. u < until
  BY <1>1, <1>2, <1>9, <1>11, DayOrder DEF d
<1>14. u \in Time /\ u <= CloneUntil(until, start)
  BY <1>1, <1>9, <1>13 DEF CloneUntil, Time
<1>15. u \in Occurrences(start, CloneUntil(until, start))
  BY <1>9, <1>12, <1>14 DEF Occurrences, L
<1> QED
  BY <1>5, <1>11, <1>15 DEF d

LEMMA SplitStep ==
  ASSUME SInv, SplitOK, OneRowADay', TInv', SeriesOncePerDay', NewSeries, lastId' > lastId,
         NEW t \in Occurrences(dlg.row.start, dlg.row.until),
         t >= dlg.occurrence, DayOf(t) < DayOf(dlg.row.until)
  PROVE  LET e == (Shown(DayOf(t)))' IN
           /\ Cardinality({f \in e : SeriesOf(f) = lastId' /\ f.title = dlg.title}) = 1
           /\ \A f \in e : SeriesOf(f) # dlg.row.id
<1> DEFINE d == DayOf(t)  o == dlg.occurrence
<1>t. TInv /\ TypeOK /\ RowsOK /\ DialogOK /\ WindowAgrees /\ DateFits /\ lastId \in Nat
  BY DEF SInv, TInv, TypeOK
<1>1. dlg.phase = "new" /\ dlg.virtual
  BY <1>t DEF NewSeries, WindowAgrees
<1>2. PICK new :
        /\ rows' = rows \union {new} /\ lastId' = lastId + 1
        /\ new = [id |-> lastId + 1, title |-> dlg.title, start |-> dlg.start, repeats |-> TRUE,
                  until |-> CloneUntil(dlg.row.until, dlg.start), parent |-> 0]
  <2> DEFINE n == [id |-> lastId + 1, title |-> dlg.title, start |-> dlg.start, repeats |-> TRUE,
                   until |-> CloneUntil(dlg.row.until, dlg.start), parent |-> 0]
  <2>1. rows' = rows \union {n} /\ lastId' = lastId + 1
    BY <1>t DEF NewSeries, Insert
  <2> QED
    BY <2>1
<1>3. /\ dlg.row.start \in Nat /\ o \in Time /\ o \in Nat /\ dlg.start \in Time /\ t \in Time /\ t \in Nat
      /\ dlg.row.until \in Time /\ dlg.row.start < o /\ (o - dlg.row.start) % DayLength = 0
  BY <1>t, <1>1, TimeIsNat DEF TypeOK, Row, SplitOK, Occurrences
<1>4. DayOf(dlg.start) = DayOf(o) /\ DayOf(o) <= d /\ d \in Nat /\ DayOf(o) \in Nat
  BY <1>t, <1>1, <1>3, DayOrder, DayIs DEF DateFits
<1>5. /\ d \in Day
      /\ \E u \in Occurrences(dlg.start, CloneUntil(dlg.row.until, dlg.start)) : DayOf(u) = d
  BY <1>3, <1>4, MovedOccurrence
<1>6. \A e : e \in (Shown(d))' <=> (RowOn(e, d) \/ VirtualOn(e, d))'
  BY <1>5, ShownOnNext DEF ShowsRowsAndRules, TInv, TypeOK
<1>f. /\ new.id = lastId + 1 /\ new.parent = 0 /\ new.title = dlg.title /\ new.start = dlg.start
      /\ new.until = CloneUntil(dlg.row.until, dlg.start) /\ new.repeats
      /\ SeriesOf(new) = lastId + 1
  BY <1>2 DEF SeriesOf
<1>g. dlg.row.id \in 1..lastId
  BY <1>t, <1>1 DEF DialogOK
<1> HIDE DEF d, o
<1>7. \E e \in (Shown(d))' : SeriesOf(e) = lastId' /\ e.title = dlg.title
  <2>1. PICK u \in Occurrences(new.start, new.until) : DayOf(u) = d
    BY <1>5, <1>f
  <2>2. CASE u = new.start
    <3>1. RowOn(ShownRow(new), d)'
      BY <1>2, <2>1, <2>2 DEF RowOn, ShownRow
    <3>2. SeriesOf(ShownRow(new)) = lastId' /\ ShownRow(new).title = dlg.title
      BY <1>2, <1>f DEF ShownRow, SeriesOf
    <3> QED
      BY <1>6, <3>1, <3>2
  <2>3. CASE u # new.start
    <3>1. new \in Masters(rows') /\ u \in Occurrences(new.start, new.until) \ {new.start}
      BY <1>2, <1>f, <2>1, <2>3 DEF Masters
    <3>2. \A r \in rows' : r.parent # new.id
      BY <1>t, <1>2, <1>f DEF RowsOK
    <3>3. ~Hidden(new, u)'
      BY <3>2 DEF Hidden
    <3>4. VirtualOn(ShownVirtual(new, u), d)'
      BY <2>1, <3>1, <3>3 DEF VirtualOn, ShownVirtual
    <3>5. SeriesOf(ShownVirtual(new, u)) = lastId' /\ ShownVirtual(new, u).title = dlg.title
      BY <1>t, <1>2, <1>f DEF ShownVirtual, SeriesOf
    <3> QED
      BY <1>6, <3>4, <3>5
  <2> QED
    BY <2>2, <2>3
<1>8. ASSUME NEW e \in (Shown(d))', SeriesOf(e) = dlg.row.id
      PROVE  FALSE
  <2>1. RowOn(e, d)' \/ VirtualOn(e, d)'
    BY <1>6
  <2>2. CASE RowOn(e, d)'
    <3>1. PICK r \in rows' : DayOf(r.start) = d /\ e = ShownRow(r)
      BY <2>2 DEF RowOn
    <3>2. SeriesOf(r) = dlg.row.id
      BY <1>8, <3>1 DEF ShownRow, SeriesOf
    <3>3. r \in rows
      <4>1. r # new
        BY <1>t, <1>f, <1>g, <3>2
      <4> QED
        BY <1>2, <3>1, <4>1
    <3>4. CASE r.parent = dlg.row.id
      <4>1. r.start < o /\ DayOf(r.start) # DayOf(o)
        BY <1>t, <1>1, <3>3, <3>4 DEF SplitOK, WindowAgrees, o
      <4>2. r.start \in Nat
        BY <1>t, <3>3, TimeIsNat DEF TypeOK, Row
      <4>3. DayOf(r.start) <= DayOf(o) /\ DayOf(r.start) \in Nat
        BY <1>3, <4>1, <4>2, DayOrder, DayIs
      <4> QED
        BY <1>4, <3>1, <4>1, <4>3
    <3>5. CASE r.id = dlg.row.id
      <4>1. DayOf(r.start) = DayOf(dlg.row.start) /\ DayOf(dlg.row.start) # DayOf(o)
        BY <1>t, <1>1, <3>3, <3>5 DEF WindowAgrees, o
      <4>2. DayOf(dlg.row.start) <= DayOf(o) /\ DayOf(dlg.row.start) \in Nat
        BY <1>3, DayOrder, DayIs
      <4> QED
        BY <1>4, <3>1, <4>1, <4>2
    <3> QED
      BY <3>2, <3>4, <3>5 DEF SeriesOf
  <2>3. CASE VirtualOn(e, d)'
    <3>1. PICK m \in Masters(rows') :
            \E u \in Occurrences(m.start, m.until) \ {m.start} :
              DayOf(u) = d /\ e = ShownVirtual(m, u)
      BY <2>3 DEF VirtualOn
    <3>2. PICK u \in Occurrences(m.start, m.until) \ {m.start} :
            DayOf(u) = d /\ e = ShownVirtual(m, u)
      BY <3>1
    <3>3. m \in rows' /\ e.id = 0 /\ e.parent = m.id
      BY <3>1, <3>2 DEF Masters, ShownVirtual
    <3>4. m.id # 0
      BY <1>t, <1>2, <1>f, <3>3 DEF RowsOK
    <3>5. m.id = dlg.row.id
      BY <1>8, <3>3, <3>4 DEF SeriesOf
    <3>6. m \in rows
      BY <1>t, <1>2, <1>f, <1>g, <3>3, <3>5
    <3>7. m.until < o /\ m.start = dlg.row.start /\ m.until \in Nat
      BY <1>1, <3>5, <3>6, TimeIsNat DEF SplitOK, o
    <3>8. u \in Nat /\ m.start <= u /\ u <= m.until /\ (u - m.start) % DayLength = 0
      BY <3>2, TimeIsNat DEF Occurrences
    <3>9. u <= o /\ DayOf(u) = DayOf(o)
      BY <1>3, <1>4, <3>2, <3>7, <3>8, DayOrder
    <3>a. (o - m.start) % DayLength = 0 /\ m.start \in Nat /\ m.start <= o
      BY <1>3, <3>7
    <3>10. u = o
      BY <1>3, <3>8, <3>9, <3>a, OneADay
    <3> QED
      BY <1>3, <3>7, <3>8, <3>10
  <2> QED
    BY <2>1, <2>2, <2>3
<1>9. \A e, f \in (Shown(d))' : SeriesOf(e) = SeriesOf(f) => e = f
  BY <1>5 DEF SeriesOncePerDay
<1>10. Cardinality({f \in (Shown(d))' : SeriesOf(f) = lastId' /\ f.title = dlg.title}) = 1
  <2>1. PICK e \in (Shown(d))' : SeriesOf(e) = lastId' /\ e.title = dlg.title
    BY <1>7
  <2>2. {f \in (Shown(d))' : SeriesOf(f) = lastId' /\ f.title = dlg.title} = {e}
    BY <1>9, <2>1
  <2> QED
    BY <2>2, FS_Singleton
<1> QED
  BY <1>8, <1>10 DEF d

(* For any horizon, any rule and any date typed that fits: a split that is *)
(* completed, at whatever attempt, leaves every day from there on to the   *)
(* day the rule ends with the new event once and the old series not at all *)
(* (applyThisAndFollowing, CloneRRuleForNewSeries).                        *)
THEOREM SplitLosesNoDay == Careful /\ Spec => SplitIsWhole
<1> SUFFICES ASSUME Careful PROVE Spec => SplitIsWhole
  OBVIOUS
<1> DEFINE Whole ==
             dlg.phase = "new" /\ lastId' > lastId =>
               \A t \in Occurrences(dlg.row.start, dlg.row.until) :
                 t >= dlg.occurrence /\ DayOf(t) < DayOf(dlg.row.until) =>
                   LET e == (Shown(DayOf(t)))' IN
                     /\ Cardinality({f \in e : SeriesOf(f) = lastId' /\ f.title = dlg.title}) = 1
                     /\ \A f \in e : SeriesOf(f) # dlg.row.id
<1>1. SInv /\ SplitOK /\ [Next]_vars => (SInv /\ SplitOK)'
  BY StepOnce, StepTyped, StepSplit DEF SInv
<1>2. Init => SInv /\ SplitOK
  BY InitOnce, InitTyped, InitSplit DEF SInv
<1>3. (SInv => SeriesOncePerDay)'
  BY OnceFromRows, PTL
<1>4. SInv /\ SplitOK /\ [Next]_vars => [Whole]_vars
  <2> SUFFICES ASSUME SInv, SplitOK, Next, dlg.phase = "new", lastId' > lastId
               PROVE  Whole
    BY DEF vars
  <2>1. NewSeries
    <3>1. TypeOK
      BY DEF SInv, TInv
    <3> QED
      BY <3>1 DEF Next, Open, SaveRow, SaveOccurrence, Cancel, Delete, JustThis, Split, Trim,
                  AllEvents, Clear, Crash, TypeOK
  <2>2. SInv' /\ SeriesOncePerDay'
    BY <1>1, <1>3
  <2> QED
    BY <2>1, <2>2, SplitStep DEF SInv
<1> QED
  BY <1>1, <1>2, <1>4, PTL DEF Spec, SplitIsWhole

-------------------------------------------------------------------------------
(* A save touches what its scope names.                                    *)

\* Exceptions do not repeat, so what is cleared are the exceptions of a
\* master; a rule that is capped reaches to where it is capped.
ScopeOK ==
  /\ \A r \in rows : r.repeats => r.parent = 0
  /\ dlg.row.repeats => dlg.row.parent = 0
  /\ dlg.phase = "clear" => dlg.row.parent = 0
  /\ dlg.virtual /\ dlg.phase \notin {"closed", "clear"} =>
       \A r \in rows : r.id = dlg.row.id => Capped(dlg.occurrence) <= r.until

LEMMA InitScope == Init => ScopeOK
  BY DEF Init, ScopeOK, Closed, NoRow

(* Rows rewritten in place: who belongs to whom, what repeats and until    *)
(* when stay as they were.                                                 *)
LEMMA WriteFieldsKeepsRule ==
  ASSUME rows \subseteq Row, NEW title, NEW start, WriteFields(title, start), NEW r \in rows'
  PROVE  \E q \in rows : /\ r.id = q.id /\ r.parent = q.parent
                         /\ r.repeats = q.repeats /\ r.until = q.until
<1>1. PICK q \in rows : r = IF q.id = dlg.row.id THEN [q EXCEPT !.title = title, !.start = start] ELSE q
  BY DEF WriteFields
<1> QED
  BY <1>1 DEF Row

LEMMA SplitRewrites ==
  ASSUME rows \subseteq Row, Split, NEW r \in rows'
  PROVE  \E q \in rows : /\ r.id = q.id /\ r.parent = q.parent /\ r.title = q.title
                         /\ r.start = q.start /\ r.repeats = q.repeats
                         /\ r.until = IF q.id = dlg.row.id THEN Capped(dlg.occurrence) ELSE q.until
<1>1. PICK q \in rows : r = IF q.id = dlg.row.id THEN [q EXCEPT !.until = Capped(dlg.occurrence)] ELSE q
  BY DEF Split
<1> QED
  BY <1>1 DEF Row

LEMMA StepScope == SInv /\ ScopeOK /\ [Next]_vars => ScopeOK'
<1> SUFFICES ASSUME SInv, ScopeOK, [Next]_vars PROVE ScopeOK'
  OBVIOUS
<1>t. TInv /\ TypeOK /\ RowsOK /\ WindowAgrees /\ rows \subseteq Row
  BY DEF SInv, TInv, TypeOK
<1>1. CASE Open
  <2>1. PICK r \in rows, t \in Time :
          /\ DayOf(t) \in Day
          /\ \/ /\ dlg' = [Closed EXCEPT !.phase = "form", !.row = r, !.virtual = FALSE,
                                         !.occurrence = t]
                /\ t = r.start
             \/ /\ dlg' = [Closed EXCEPT !.phase = "form", !.row = r, !.virtual = TRUE,
                                         !.occurrence = t]
                /\ r \in Masters(rows)
                /\ t \in Occurrences(r.start, r.until) \ {r.start}
                /\ ~Hidden(r, t)
    BY <1>1, <1>t, OpenReads
  <2>2. rows' = rows
    BY <1>1 DEF Open
  <2>3. dlg'.row = r /\ dlg'.phase = "form" /\ dlg'.occurrence = t
    BY <2>1 DEF Closed
  <2>4. \A q \in rows : q.id = r.id => q = r
    BY <1>t DEF RowsOK
  <2>5. dlg'.virtual => Capped(t) <= r.until
    <3>1. CASE dlg'.virtual
      <4>1. t \in Occurrences(r.start, r.until)
        BY <2>1, <3>1 DEF Closed
      <4>2. t <= r.until /\ t \in Nat /\ r.until \in Int
        BY <1>t, <4>1, TimeIsNat DEF Occurrences, Row
      <4> QED
        BY <4>2 DEF Capped
    <3> QED
      BY <3>1
  <2> QED
    BY <2>2, <2>3, <2>4, <2>5 DEF ScopeOK
<1>2. CASE SaveRow
  <2>1. PICK start \in Starts : WriteFields(edits + 1, start)
    BY <1>2 DEF SaveRow
  <2>2. \A r \in rows' : \E q \in rows : r.parent = q.parent /\ r.repeats = q.repeats
    BY <1>t, <2>1, WriteFieldsKeepsRule
  <2>3. dlg' = IF dlg.row.repeats THEN [dlg EXCEPT !.phase = "clear"] ELSE Closed
    BY <1>2 DEF SaveRow
  <2> QED
    BY <1>2, <1>t, <2>2, <2>3 DEF SaveRow, TypeOK, ScopeOK, Closed, NoRow
<1>3. CASE SaveOccurrence
  BY <1>3, <1>t DEF SaveOccurrence, TypeOK, ScopeOK
<1>4. CASE JustThis
  <2>1. \A r \in rows' : r.repeats => r \in rows
    BY <1>4 DEF JustThis, Insert
  <2>2. dlg' = Closed
    BY <1>4 DEF JustThis
  <2> QED
    BY <2>1, <2>2 DEF ScopeOK, Closed, NoRow
<1>5. CASE Split
  <2>1. dlg' = [dlg EXCEPT !.phase = "trim"] /\ dlg.phase = "scope"
    BY <1>5 DEF Split
  <2>2. \A r \in rows' : r.repeats => r.parent = 0
    BY <1>5, <1>t, SplitRewrites DEF ScopeOK
  <2>3. \A r \in rows' : r.id = dlg.row.id => r.until = Capped(dlg.occurrence)
    BY <1>5, <1>t, SplitRewrites
  <2>4. Capped(dlg.occurrence) \in Int
    <3>1. dlg.occurrence \in Nat
      BY <1>t, TimeIsNat DEF TypeOK
    <3> QED
      BY <3>1 DEF Capped
  <2> QED
    BY <1>t, <2>1, <2>2, <2>3, <2>4 DEF TypeOK, ScopeOK
<1>6. CASE Trim
  <2>1. rows' \subseteq rows
    BY <1>6 DEF Trim
  <2>2. dlg' = [dlg EXCEPT !.phase = "new"] \/ dlg' = [dlg EXCEPT !.phase = "scope"]
    BY <1>6 DEF Trim
  <2> QED
    BY <1>6, <1>t, <2>1, <2>2 DEF Trim, TypeOK, ScopeOK
<1>7. CASE NewSeries
  <2>1. CASE dlg' = [dlg EXCEPT !.phase = "scope"] /\ UNCHANGED <<rows, lastId>>
    BY <1>7, <1>t, <2>1 DEF NewSeries, TypeOK, ScopeOK
  <2>2. CASE /\ Insert(dlg.title, dlg.start, TRUE, CloneUntil(dlg.row.until, dlg.start), 0)
             /\ dlg' = Closed
    <3>1. \A r \in rows' : r \in rows \/ r.parent = 0
      BY <2>2 DEF Insert
    <3> QED
      BY <2>2, <3>1 DEF ScopeOK, Closed, NoRow
  <2> QED
    BY <1>7, <2>1, <2>2 DEF NewSeries
<1>8. CASE AllEvents
  <2>1. \A r \in rows' : \E q \in rows : r.parent = q.parent /\ r.repeats = q.repeats
    BY <1>8, <1>t, WriteFieldsKeepsRule DEF AllEvents
  <2>2. dlg.row.parent = 0 /\ dlg' = [dlg EXCEPT !.phase = "clear"]
    BY <1>8, <1>t DEF AllEvents, WindowAgrees
  <2> QED
    BY <1>t, <2>1, <2>2 DEF TypeOK, ScopeOK
<1>9. CASE Clear
  <2>1. rows' \subseteq rows /\ dlg' = Closed
    BY <1>9 DEF Clear
  <2> QED
    BY <2>1 DEF ScopeOK, Closed, NoRow
<1>10. CASE Cancel
  BY <1>10, <1>t DEF Cancel, TypeOK, ScopeOK, Closed, NoRow
<1>11. CASE Delete
  <2>1. rows' \subseteq rows /\ dlg' = Closed
    BY <1>11 DEF Delete
  <2> QED
    BY <2>1 DEF ScopeOK, Closed, NoRow
<1>12. CASE Crash
  BY <1>12 DEF Crash, ScopeOK, Closed, NoRow
<1>13. CASE UNCHANGED vars
  BY <1>13 DEF vars, ScopeOK
<1> QED
  BY <1>1, <1>2, <1>3, <1>4, <1>5, <1>6, <1>7, <1>8, <1>9, <1>10, <1>11, <1>12, <1>13 DEF Next

-------------------------------------------------------------------------------
(* What a change of the rows changes in the views.                         *)

\* What the rows R show on a day.
EntryOn(R, e, d) ==
  \/ \E r \in R : DayOf(r.start) = d /\ e = ShownRow(r)
  \/ \E m \in Masters(R) : \E t \in Occurrences(m.start, m.until) \ {m.start} :
       /\ DayOf(t) = d /\ e = ShownVirtual(m, t)
       /\ \A x \in R : x.parent = m.id => DayOf(x.start) # d

\* On the day d, Q has what R has.
RowsKept(R, Q, d) == \A r \in R : DayOf(r.start) = d => \E q \in Q : ShownRow(q) = ShownRow(r)
RulesKept(R, Q, d) ==
  \A m \in Masters(R) : \A t \in Occurrences(m.start, m.until) \ {m.start} : DayOf(t) = d =>
    \E n \in Masters(Q) : ShownRow(n) = ShownRow(m) /\ t \in Occurrences(n.start, n.until)
DayKept(R, Q, d) ==
  RowsKept(R, Q, d) /\ RowsKept(Q, R, d) /\ RulesKept(R, Q, d) /\ RulesKept(Q, R, d)

\* Outside the series S, Q has what R has.
OthersKept(R, Q, S) == \A r \in R : r \in Q \/ SeriesOf(r) \in S

LEMMA ChangedIs ==
  ASSUME TInv, TInv', NEW d \in Day, NEW e \in Changed(d)
  PROVE  EntryOn(rows, e, d) # EntryOn(rows', e, d)
<1>1. e \in Shown(d) <=> RowOn(e, d) \/ VirtualOn(e, d)
  BY ShownOnAll DEF ShowsRowsAndRules, TInv, TypeOK
<1>2. e \in (Shown(d))' <=> (RowOn(e, d) \/ VirtualOn(e, d))'
  BY ShownOnNext DEF ShowsRowsAndRules, TInv, TypeOK
<1>3. EntryOn(rows, e, d) <=> RowOn(e, d) \/ VirtualOn(e, d)
  BY DEF EntryOn, RowOn, VirtualOn, Hidden
<1>4. EntryOn(rows', e, d) <=> (RowOn(e, d) \/ VirtualOn(e, d))'
  BY DEF EntryOn, RowOn, VirtualOn, Hidden
<1>5. e \in Shown(d) <=> ~ e \in (Shown(d))'
  BY DEF Changed
<1> QED
  BY <1>1, <1>2, <1>3, <1>4, <1>5

(* What R shows and Q does not is of a series in S.                        *)
LEMMA OthersStand ==
  ASSUME NEW R, NEW Q, NEW S, \A r \in R : r.id # 0,
         OthersKept(R, Q, S), OthersKept(Q, R, S),
         NEW d, NEW e, EntryOn(R, e, d), ~EntryOn(Q, e, d)
  PROVE  SeriesOf(e) \in S
<1>1. CASE \E r \in R : DayOf(r.start) = d /\ e = ShownRow(r)
  <2>1. PICK r \in R : DayOf(r.start) = d /\ e = ShownRow(r)
    BY <1>1
  <2>2. r \notin Q
    BY <2>1 DEF EntryOn
  <2>3. SeriesOf(e) = SeriesOf(r)
    BY <2>1 DEF ShownRow, SeriesOf
  <2> QED
    BY <2>2, <2>3 DEF OthersKept
<1>2. CASE \E m \in Masters(R) : \E t \in Occurrences(m.start, m.until) \ {m.start} :
             /\ DayOf(t) = d /\ e = ShownVirtual(m, t)
             /\ \A x \in R : x.parent = m.id => DayOf(x.start) # d
  <2>0. PICK m \in Masters(R) : \E t \in Occurrences(m.start, m.until) \ {m.start} :
             /\ DayOf(t) = d /\ e = ShownVirtual(m, t)
             /\ \A x \in R : x.parent = m.id => DayOf(x.start) # d
    BY <1>2
  <2>1. PICK t \in Occurrences(m.start, m.until) \ {m.start} :
             /\ DayOf(t) = d /\ e = ShownVirtual(m, t)
             /\ \A x \in R : x.parent = m.id => DayOf(x.start) # d
    BY <2>0
  <2>2. m \in R /\ m.id # 0 /\ m.parent = 0 /\ m.repeats
    BY DEF Masters
  <2>3. SeriesOf(e) = m.id /\ SeriesOf(m) = m.id
    BY <2>1, <2>2 DEF ShownVirtual, SeriesOf
  <2>4. CASE m \notin Q
    BY <2>2, <2>3, <2>4 DEF OthersKept
  <2>5. CASE m \in Q
    <3>1. m \in Masters(Q)
      BY <2>2, <2>5 DEF Masters
    <3>2. PICK x \in Q : x.parent = m.id /\ DayOf(x.start) = d
      BY <2>1, <3>1 DEF EntryOn
    <3>3. x \notin R /\ SeriesOf(x) = m.id
      BY <2>1, <2>2, <3>2 DEF SeriesOf
    <3> QED
      BY <2>3, <3>3 DEF OthersKept
  <2> QED
    BY <2>4, <2>5
<1> QED
  BY <1>1, <1>2 DEF EntryOn

(* A day that is kept shows what it showed.                                *)
LEMMA DayStands ==
  ASSUME NEW R, NEW Q, NEW d, NEW e, RowsKept(R, Q, d), RowsKept(Q, R, d), RulesKept(R, Q, d),
         EntryOn(R, e, d)
  PROVE  EntryOn(Q, e, d)
<1>1. CASE \E r \in R : DayOf(r.start) = d /\ e = ShownRow(r)
  <2>1. PICK r \in R : DayOf(r.start) = d /\ e = ShownRow(r)
    BY <1>1
  <2>2. PICK q \in Q : ShownRow(q) = ShownRow(r)
    BY <2>1 DEF RowsKept
  <2>3. q.start = r.start
    BY <2>2 DEF ShownRow
  <2> QED
    BY <2>1, <2>2, <2>3 DEF EntryOn
<1>2. CASE \E m \in Masters(R) : \E t \in Occurrences(m.start, m.until) \ {m.start} :
             /\ DayOf(t) = d /\ e = ShownVirtual(m, t)
             /\ \A x \in R : x.parent = m.id => DayOf(x.start) # d
  <2>0. PICK m \in Masters(R) : \E t \in Occurrences(m.start, m.until) \ {m.start} :
             /\ DayOf(t) = d /\ e = ShownVirtual(m, t)
             /\ \A x \in R : x.parent = m.id => DayOf(x.start) # d
    BY <1>2
  <2>1. PICK t \in Occurrences(m.start, m.until) \ {m.start} :
             /\ DayOf(t) = d /\ e = ShownVirtual(m, t)
             /\ \A x \in R : x.parent = m.id => DayOf(x.start) # d
    BY <2>0
  <2>2. PICK n \in Masters(Q) : ShownRow(n) = ShownRow(m) /\ t \in Occurrences(n.start, n.until)
    BY <2>1 DEF RulesKept
  <2>3. n.id = m.id /\ n.title = m.title /\ n.start = m.start
    BY <2>2 DEF ShownRow
  <2>4. e = ShownVirtual(n, t) /\ t \in Occurrences(n.start, n.until) \ {n.start}
    BY <2>1, <2>2, <2>3 DEF ShownVirtual
  <2>5. ASSUME NEW x \in Q, x.parent = n.id, DayOf(x.start) = d
        PROVE  FALSE
    <3>1. PICK y \in R : ShownRow(y) = ShownRow(x)
      BY <2>5 DEF RowsKept
    <3>2. y.parent = x.parent /\ y.start = x.start
      BY <3>1 DEF ShownRow
    <3> QED
      BY <2>1, <2>3, <2>5, <3>2
  <2> QED
    BY <2>1, <2>4, <2>5 DEF EntryOn
<1> QED
  BY <1>1, <1>2 DEF EntryOn

(* So a change is of a series that was written, on a day that was not kept. *)
LEMMA ChangeIsOfSeries ==
  ASSUME TInv, TInv', NEW S, OthersKept(rows, rows', S), OthersKept(rows', rows, S),
         NEW d \in Day, NEW e \in Changed(d)
  PROVE  SeriesOf(e) \in S
<1>1. \A r \in rows : r.id # 0
  BY DEF TInv, RowsOK
<1>2. \A r \in rows' : r.id # 0
  BY DEF TInv, RowsOK
<1>3. EntryOn(rows, e, d) # EntryOn(rows', e, d)
  BY ChangedIs
<1>4. CASE EntryOn(rows, e, d) /\ ~EntryOn(rows', e, d)
  BY <1>1, <1>4, OthersStand
<1>5. CASE EntryOn(rows', e, d) /\ ~EntryOn(rows, e, d)
  BY <1>2, <1>5, OthersStand
<1>6. EntryOn(rows, e, d) \in BOOLEAN /\ EntryOn(rows', e, d) \in BOOLEAN
  BY DEF EntryOn
<1> QED
  BY <1>3, <1>4, <1>5, <1>6

LEMMA ChangeIsOnDay ==
  ASSUME TInv, TInv', NEW d \in Day, NEW e \in Changed(d)
  PROVE  ~DayKept(rows, rows', d)
<1> SUFFICES ASSUME DayKept(rows, rows', d) PROVE FALSE
  OBVIOUS
<1>1. EntryOn(rows, e, d) # EntryOn(rows', e, d)
  BY ChangedIs
<1>2. EntryOn(rows, e, d) => EntryOn(rows', e, d)
  BY DayStands DEF DayKept
<1>3. EntryOn(rows', e, d) => EntryOn(rows, e, d)
  BY DayStands DEF DayKept
<1>4. EntryOn(rows, e, d) \in BOOLEAN /\ EntryOn(rows', e, d) \in BOOLEAN
  BY DEF EntryOn
<1> QED
  BY <1>1, <1>2, <1>3, <1>4

-------------------------------------------------------------------------------
(* Whose rows each action writes.                                          *)

WrittenSeries == {SeriesOf(dlg.row), lastId'}

LEMMA SeriesWritten ==
  ASSUME SInv, ScopeOK, Next, rows' # rows
  PROVE  OthersKept(rows, rows', WrittenSeries) /\ OthersKept(rows', rows, WrittenSeries)
<1>t. TInv /\ TypeOK /\ RowsOK /\ DialogOK /\ WindowAgrees /\ rows \subseteq Row
  BY DEF SInv, TInv, TypeOK
<1>w. dlg.phase # "closed" =>
        \A r \in rows : r.id = dlg.row.id => SeriesOf(r) = SeriesOf(dlg.row)
  BY <1>t DEF WindowAgrees, SeriesOf
<1>v. dlg.phase \in {"scope", "trim", "new", "clear"} => SeriesOf(dlg.row) = dlg.row.id
  BY <1>t DEF WindowAgrees, ScopeOK, SeriesOf
<1>i. dlg.phase # "closed" => dlg.row.id # 0
  BY <1>t DEF DialogOK
<1>1. ASSUME NEW title, NEW start, WriteFields(title, start), dlg.phase # "closed"
      PROVE  OthersKept(rows, rows', WrittenSeries) /\ OthersKept(rows', rows, WrittenSeries)
  <2>1. ASSUME NEW r \in rows, r.id # dlg.row.id
        PROVE  r \in rows'
    BY <1>1, <2>1 DEF WriteFields
  <2>2. ASSUME NEW r \in rows', r \notin rows
        PROVE  SeriesOf(r) = SeriesOf(dlg.row)
    <3>1. PICK q \in rows :
            r = IF q.id = dlg.row.id THEN [q EXCEPT !.title = title, !.start = start] ELSE q
      BY <1>1 DEF WriteFields
    <3>2. q.id = dlg.row.id /\ r.id = q.id /\ r.parent = q.parent
      BY <1>t, <2>2, <3>1 DEF Row
    <3> QED
      BY <1>1, <1>w, <3>2 DEF SeriesOf
  <2> QED
    BY <1>1, <1>w, <2>1, <2>2 DEF OthersKept, WrittenSeries
<1>2. CASE SaveRow
  BY <1>1, <1>2 DEF SaveRow
<1>3. CASE AllEvents
  BY <1>1, <1>3 DEF AllEvents
<1>4. CASE JustThis
  <2> DEFINE n == [id |-> lastId + 1, title |-> dlg.title, start |-> dlg.start,
                    repeats |-> FALSE, until |-> 0, parent |-> dlg.row.id]
  <2>a. rows' = rows \union {n} /\ n.parent = dlg.row.id
    BY <1>4 DEF JustThis, Insert
  <2> HIDE DEF n
  <2>1. PICK new : rows' = rows \union {new} /\ new.parent = dlg.row.id
    BY <2>a
  <2>2. SeriesOf(new) = SeriesOf(dlg.row)
    BY <1>4, <1>v, <1>i, <2>1 DEF JustThis, SeriesOf
  <2> QED
    BY <2>1, <2>2 DEF OthersKept, WrittenSeries
<1>5. CASE Split
  <2>1. ASSUME NEW r \in rows, r.id # dlg.row.id
        PROVE  r \in rows'
    BY <1>5, <2>1 DEF Split
  <2>2. ASSUME NEW r \in rows', r \notin rows
        PROVE  SeriesOf(r) = SeriesOf(dlg.row)
    <3>1. PICK q \in rows :
            r = IF q.id = dlg.row.id THEN [q EXCEPT !.until = Capped(dlg.occurrence)] ELSE q
      BY <1>5 DEF Split
    <3>2. q.id = dlg.row.id /\ r.id = q.id /\ r.parent = q.parent
      BY <1>t, <2>2, <3>1 DEF Row
    <3> QED
      BY <1>5, <1>w, <3>2 DEF Split, SeriesOf
  <2>3. dlg.phase # "closed"
    BY <1>5 DEF Split
  <2> QED
    BY <1>w, <2>1, <2>2, <2>3 DEF OthersKept, WrittenSeries
<1>6. CASE Trim
  <2>1. \A r \in rows : r \in rows' \/ r.parent = dlg.row.id
    BY <1>6 DEF Trim, ExceptionsOnOrAfter
  <2>2. rows' \subseteq rows /\ dlg.phase = "trim"
    BY <1>6 DEF Trim
  <2> QED
    BY <1>v, <1>i, <2>1, <2>2 DEF OthersKept, WrittenSeries, SeriesOf
<1>7. CASE NewSeries
  <2> DEFINE n == [id |-> lastId + 1, title |-> dlg.title, start |-> dlg.start, repeats |-> TRUE,
                    until |-> CloneUntil(dlg.row.until, dlg.start), parent |-> 0]
  <2>a. rows' = rows \union {n} /\ n.parent = 0 /\ n.id = lastId'
    BY <1>7 DEF NewSeries, Insert
  <2> HIDE DEF n
  <2>1. PICK new : rows' = rows \union {new} /\ new.parent = 0 /\ new.id = lastId'
    BY <2>a
  <2>2. SeriesOf(new) = lastId'
    BY <2>1 DEF SeriesOf
  <2> QED
    BY <2>1, <2>2 DEF OthersKept, WrittenSeries
<1>8. CASE Clear
  <2>1. \A r \in rows : r \in rows' \/ r.parent = dlg.row.id
    BY <1>8 DEF Clear
  <2>2. rows' \subseteq rows /\ dlg.phase = "clear"
    BY <1>8 DEF Clear
  <2> QED
    BY <1>v, <1>i, <2>1, <2>2 DEF OthersKept, WrittenSeries, SeriesOf
<1>9. CASE Delete
  <2>1. \A r \in rows : r \in rows' \/ r.id = dlg.row.id
    BY <1>9 DEF Delete
  <2>2. rows' \subseteq rows /\ dlg.phase # "closed"
    BY <1>9 DEF Delete
  <2> QED
    BY <1>w, <2>1, <2>2 DEF OthersKept, WrittenSeries
<1> QED
  BY <1>2, <1>3, <1>4, <1>5, <1>6, <1>7, <1>8, <1>9 DEF Next, Open, SaveOccurrence, Cancel, Crash

-------------------------------------------------------------------------------
(* Which days each scope leaves alone.                                     *)

(* An exception stands on one day and has no occurrences.                  *)
LEMMA JustThisKeeps ==
  ASSUME Careful, JustThis, NEW d, d # DayOf(dlg.occurrence)
  PROVE  DayKept(rows, rows', d)
<1> DEFINE n == [id |-> lastId + 1, title |-> dlg.title, start |-> dlg.start,
                 repeats |-> FALSE, until |-> 0, parent |-> dlg.row.id]
<1>a. rows' = rows \union {n} /\ ~n.repeats /\ n.start = dlg.start
  BY DEF JustThis, Insert
<1> HIDE DEF n
<1>1. PICK new : rows' = rows \union {new} /\ ~new.repeats /\ new.start = dlg.start
  BY <1>a
<1>2. DayOf(new.start) # d
  BY <1>1 DEF JustThis, Fits
<1>3. Masters(rows') = Masters(rows)
  BY <1>1 DEF Masters
<1>4. RowsKept(rows, rows', d) /\ RowsKept(rows', rows, d)
  BY <1>1, <1>2 DEF RowsKept
<1>5. RulesKept(rows, rows', d) /\ RulesKept(rows', rows, d)
  BY <1>3 DEF RulesKept
<1> QED
  BY <1>4, <1>5 DEF DayKept

(* A cap takes the occurrences from the one clicked on.                    *)
LEMMA SplitKeeps ==
  ASSUME SInv, ScopeOK, Split, NEW d \in Day, d < DayOf(dlg.occurrence)
  PROVE  DayKept(rows, rows', d)
<1>t. TInv /\ TypeOK /\ RowsOK /\ WindowAgrees /\ rows \subseteq Row
  BY DEF SInv, TInv, TypeOK
<1>o. dlg.occurrence \in Nat /\ Capped(dlg.occurrence) = dlg.occurrence - 1
  BY <1>t, TimeIsNat DEF TypeOK, Capped
<1>1. dlg.virtual /\ dlg.phase = "scope"
  BY <1>t DEF Split, WindowAgrees
<1>2. ASSUME NEW q \in rows
      PROVE  \E r \in rows' : /\ r.id = q.id /\ r.parent = q.parent /\ r.title = q.title
                              /\ r.start = q.start /\ r.repeats = q.repeats
                              /\ r.until = IF q.id = dlg.row.id THEN Capped(dlg.occurrence) ELSE q.until
  <2> DEFINE r == IF q.id = dlg.row.id THEN [q EXCEPT !.until = Capped(dlg.occurrence)] ELSE q
  <2>1. r \in rows'
    BY DEF Split
  <2>2. /\ r.id = q.id /\ r.parent = q.parent /\ r.title = q.title
        /\ r.start = q.start /\ r.repeats = q.repeats
        /\ r.until = IF q.id = dlg.row.id THEN Capped(dlg.occurrence) ELSE q.until
    BY <1>t DEF Row
  <2> HIDE DEF r
  <2> QED
    BY <2>1, <2>2
<1>3. ASSUME NEW t \in Time, DayOf(t) = d
      PROVE  t <= Capped(dlg.occurrence)
  <2>1. t \in Nat
    BY TimeIsNat
  <2>2. DayOf(t) \in Nat /\ DayOf(dlg.occurrence) \in Nat
    BY <1>o, <2>1, DayIs
  <2>3. ~ dlg.occurrence <= t
    BY <1>o, <1>3, <2>1, <2>2, DayOrder
  <2> QED
    BY <1>o, <2>1, <2>3
<1>4. RowsKept(rows, rows', d)
  BY <1>2 DEF RowsKept, ShownRow
<1>5. RowsKept(rows', rows, d)
  BY <1>t, SplitRewrites DEF RowsKept, ShownRow
<1>6. RulesKept(rows, rows', d)
  <2> SUFFICES ASSUME NEW m \in Masters(rows), NEW t \in Occurrences(m.start, m.until) \ {m.start},
                      DayOf(t) = d
               PROVE  \E n \in Masters(rows') :
                        ShownRow(n) = ShownRow(m) /\ t \in Occurrences(n.start, n.until)
    BY DEF RulesKept
  <2>1. m \in rows /\ m.repeats /\ m.parent = 0
    BY DEF Masters
  <2>2. PICK n \in rows' : /\ n.id = m.id /\ n.parent = m.parent /\ n.title = m.title
                           /\ n.start = m.start /\ n.repeats = m.repeats
                           /\ n.until = IF m.id = dlg.row.id THEN Capped(dlg.occurrence) ELSE m.until
    BY <1>2, <2>1
  <2>3. n \in Masters(rows') /\ ShownRow(n) = ShownRow(m)
    BY <2>1, <2>2 DEF Masters, ShownRow
  <2>4. t \in Time /\ t <= n.until
    BY <1>3, <2>2 DEF Occurrences
  <2>5. t \in Occurrences(n.start, n.until)
    BY <2>2, <2>4 DEF Occurrences
  <2> QED
    BY <2>3, <2>5
<1>7. RulesKept(rows', rows, d)
  <2> SUFFICES ASSUME NEW n \in Masters(rows'), NEW t \in Occurrences(n.start, n.until) \ {n.start},
                      DayOf(t) = d
               PROVE  \E m \in Masters(rows) :
                        ShownRow(m) = ShownRow(n) /\ t \in Occurrences(m.start, m.until)
    BY DEF RulesKept
  <2>1. n \in rows' /\ n.repeats /\ n.parent = 0
    BY DEF Masters
  <2>2. PICK m \in rows : /\ n.id = m.id /\ n.parent = m.parent /\ n.title = m.title
                          /\ n.start = m.start /\ n.repeats = m.repeats
                          /\ n.until = IF m.id = dlg.row.id THEN Capped(dlg.occurrence) ELSE m.until
    BY <1>t, <2>1, SplitRewrites
  <2>3. m \in Masters(rows) /\ ShownRow(m) = ShownRow(n)
    BY <2>1, <2>2 DEF Masters, ShownRow
  <2>4. t \in Nat /\ t <= n.until /\ m.until \in Int
    BY <1>t, TimeIsNat DEF Occurrences, Row
  <2>5. m.id = dlg.row.id => Capped(dlg.occurrence) <= m.until
    BY <1>1 DEF ScopeOK
  <2>6. t <= m.until
    BY <1>o, <2>2, <2>4, <2>5
  <2>7. t \in Occurrences(m.start, m.until)
    BY <2>2, <2>6 DEF Occurrences
  <2> QED
    BY <2>3, <2>7
<1> QED
  BY <1>4, <1>5, <1>6, <1>7 DEF DayKept

(* What is trimmed begins at the occurrence clicked, or later.             *)
LEMMA TrimKeeps ==
  ASSUME SInv, Trim, NEW d \in Day, d < DayOf(dlg.occurrence)
  PROVE  DayKept(rows, rows', d)
<1>t. TInv /\ TypeOK /\ DialogOK /\ rows \subseteq Row
  BY DEF SInv, TInv, TypeOK
<1>1. rows' \subseteq rows
  BY DEF Trim
<1>2. \A r \in rows : r \in rows' \/ (r.parent = dlg.row.id /\ r.start >= dlg.occurrence)
  BY DEF Trim, ExceptionsOnOrAfter
<1>3. dlg.occurrence \in Nat /\ dlg.row.id # 0
  BY <1>t, TimeIsNat DEF TypeOK, DialogOK, Trim
<1>4. ASSUME NEW r \in rows, DayOf(r.start) = d
      PROVE  r \in rows'
  <2>1. r.start \in Nat
    BY <1>t, TimeIsNat DEF Row
  <2>2. DayOf(r.start) \in Nat /\ DayOf(dlg.occurrence) \in Nat
    BY <1>3, <2>1, DayIs
  <2>3. ~ dlg.occurrence <= r.start
    BY <1>3, <1>4, <2>1, <2>2, DayOrder
  <2> QED
    BY <1>2, <1>3, <2>1, <2>3
<1>5. Masters(rows') = Masters(rows)
  BY <1>1, <1>2, <1>3 DEF Masters
<1>6. RowsKept(rows, rows', d) /\ RowsKept(rows', rows, d)
  BY <1>1, <1>4 DEF RowsKept
<1>7. RulesKept(rows, rows', d) /\ RulesKept(rows', rows, d)
  BY <1>5 DEF RulesKept
<1> QED
  BY <1>6, <1>7 DEF DayKept

(* The new series begins on the day clicked.                               *)
LEMMA NewSeriesKeeps ==
  ASSUME SInv, NewSeries, NEW d \in Day, d < DayOf(dlg.occurrence)
  PROVE  DayKept(rows, rows', d)
<1>t. TypeOK /\ DateFits
  BY DEF SInv, TInv
<1>1. CASE rows' = rows
  <2>1. RowsKept(rows, rows', d) /\ RowsKept(rows', rows, d)
    BY <1>1 DEF RowsKept
  <2>2. RulesKept(rows, rows', d) /\ RulesKept(rows', rows, d)
    BY <1>1 DEF RulesKept
  <2> QED
    BY <2>1, <2>2 DEF DayKept
<1>2. CASE Insert(dlg.title, dlg.start, TRUE, CloneUntil(dlg.row.until, dlg.start), 0)
  <2> DEFINE n == [id |-> lastId + 1, title |-> dlg.title, start |-> dlg.start, repeats |-> TRUE,
                    until |-> CloneUntil(dlg.row.until, dlg.start), parent |-> 0]
  <2>a. rows' = rows \union {n} /\ n.start = dlg.start
    BY <1>2 DEF Insert
  <2> HIDE DEF n
  <2>1. PICK new : rows' = rows \union {new} /\ new.start = dlg.start
    BY <2>a
  <2>2. dlg.start \in Nat /\ DayOf(dlg.start) = DayOf(dlg.occurrence)
    BY <1>t, TimeIsNat DEF TypeOK, DateFits, NewSeries
  <2>3. ASSUME NEW t \in Occurrences(new.start, new.until)
        PROVE  DayOf(t) # d
    <3>1. t \in Nat /\ new.start <= t
      BY TimeIsNat DEF Occurrences
    <3>2. DayOf(dlg.start) <= DayOf(t) /\ DayOf(t) \in Nat /\ DayOf(dlg.start) \in Nat
      BY <2>1, <2>2, <3>1, DayOrder, DayIs
    <3> QED
      BY <2>2, <3>2 DEF Day
  <2>4. DayOf(new.start) # d
    <3>1. DayOf(dlg.start) \in Nat
      BY <2>2, DayIs
    <3> QED
      BY <2>1, <2>2, <3>1 DEF Day
  <2>5. RowsKept(rows, rows', d) /\ RowsKept(rows', rows, d)
    BY <2>1, <2>4 DEF RowsKept
  <2>6. Masters(rows) \subseteq Masters(rows') /\ Masters(rows') \subseteq Masters(rows) \union {new}
    BY <2>1 DEF Masters
  <2>7. RulesKept(rows, rows', d)
    BY <2>6 DEF RulesKept
  <2>8. RulesKept(rows', rows, d)
    BY <2>3, <2>6 DEF RulesKept
  <2> QED
    BY <2>5, <2>7, <2>8 DEF DayKept
<1> QED
  BY <1>1, <1>2 DEF NewSeries

-------------------------------------------------------------------------------
ScopeInv == SInv /\ ScopeOK

\* What ScopeIsKept says of a step.
InScope ==
  \A d \in Day : \A e \in Changed(d) :
    /\ SeriesOf(e) \in {SeriesOf(dlg.row), lastId'}
    /\ dlg.phase = "scope" /\ dlg'.phase = "closed" => d = DayOf(dlg.occurrence)
    /\ {dlg.phase, dlg'.phase} \intersect {"trim", "new"} # {} => d >= DayOf(dlg.occurrence)

LEMMA StepInScope ==
  ASSUME Careful, ScopeInv, ScopeInv', Next
  PROVE  InScope
<1>t. SInv /\ ScopeOK /\ TInv /\ TInv' /\ TypeOK
  BY DEF ScopeInv, SInv, TInv
<1> SUFFICES ASSUME NEW d \in Day, NEW e \in Changed(d)
             PROVE  /\ SeriesOf(e) \in WrittenSeries
                    /\ dlg.phase = "scope" /\ dlg'.phase = "closed" => d = DayOf(dlg.occurrence)
                    /\ {dlg.phase, dlg'.phase} \intersect {"trim", "new"} # {} => d >= DayOf(dlg.occurrence)
  BY DEF InScope, WrittenSeries
<1>0. ~DayKept(rows, rows', d)
  BY <1>t, ChangeIsOnDay
<1>1. rows' # rows
  <2> SUFFICES ASSUME rows' = rows PROVE FALSE
    OBVIOUS
  <2>1. RowsKept(rows, rows', d) /\ RowsKept(rows', rows, d)
    BY DEF RowsKept
  <2>2. RulesKept(rows, rows', d) /\ RulesKept(rows', rows, d)
    BY DEF RulesKept
  <2> QED
    BY <1>0, <2>1, <2>2 DEF DayKept
<1>2. SeriesOf(e) \in WrittenSeries
  <2>1. OthersKept(rows, rows', WrittenSeries) /\ OthersKept(rows', rows, WrittenSeries)
    BY <1>t, <1>1, SeriesWritten
  <2>2. PICK S : S = WrittenSeries
    OBVIOUS
  <2>3. SeriesOf(e) \in S
    BY <1>t, <2>1, <2>2, ChangeIsOfSeries
  <2> QED
    BY <2>2, <2>3
<1>3. ASSUME dlg.phase = "scope", dlg'.phase = "closed"
      PROVE  d = DayOf(dlg.occurrence)
  <2>1. JustThis
    BY <1>t, <1>1, <1>3 DEF TypeOK, Next, Open, SaveRow, SaveOccurrence, Cancel, Delete, Split, Trim,
                            NewSeries, AllEvents, Clear, Crash
  <2> QED
    BY <1>0, <2>1, JustThisKeeps
<1>4. ASSUME {dlg.phase, dlg'.phase} \intersect {"trim", "new"} # {}
      PROVE  d >= DayOf(dlg.occurrence)
  <2>1. dlg.phase \in {"trim", "new"} \/ dlg'.phase \in {"trim", "new"}
    BY <1>4
  <2>2. Split \/ Trim \/ NewSeries
    <3>1. \A phase : [dlg EXCEPT !.phase = phase].phase = phase
      BY <1>t DEF TypeOK
    <3>2. Closed.phase = "closed"
      BY DEF Closed
    <3>3. ~ (Open \/ SaveOccurrence \/ Cancel \/ Crash)
      BY <1>1 DEF Open, SaveOccurrence, Cancel, Crash
    <3>4. ~ SaveRow
      BY <2>1, <3>1, <3>2 DEF SaveRow
    <3>5. ~ (Delete \/ JustThis \/ Clear)
      BY <2>1, <3>2 DEF Delete, JustThis, Clear
    <3>6. ~ AllEvents
      BY <2>1, <3>1 DEF AllEvents
    <3> QED
      BY <3>3, <3>4, <3>5, <3>6 DEF Next
  <2>3. ~ d < DayOf(dlg.occurrence)
    BY <1>t, <1>0, <2>2, SplitKeeps, TrimKeeps, NewSeriesKeeps
  <2>4. d \in Nat /\ DayOf(dlg.occurrence) \in Nat
    <3>1. dlg.occurrence \in Nat
      BY <1>t, TimeIsNat DEF TypeOK
    <3> QED
      BY <3>1, DayIs DEF Day
  <2> QED
    BY <2>3, <2>4
<1> QED
  BY <1>2, <1>3, <1>4

(* For any horizon, rule, number of saves, failed statements and crashes:  *)
(* when the date typed fits the scope, a save changes nothing in the views *)
(* but the series it is about; on the day clicked only, or from that day   *)
(* on, as the scope says, also when it is cut short and tried again        *)
(* (applyJustThis, applyThisAndFollowing, applyAllEvents).                 *)
THEOREM SavesKeepTheirScope == Careful /\ Spec => ScopeIsKept
<1> SUFFICES ASSUME Careful PROVE Spec => ScopeIsKept
  OBVIOUS
<1>1. ScopeInv /\ [Next]_vars => ScopeInv'
  BY StepOnce, StepTyped, StepScope DEF ScopeInv, SInv
<1>2. Init => ScopeInv
  BY InitOnce, InitTyped, InitScope DEF ScopeInv, SInv
<1>3. ScopeInv /\ [Next]_vars => [InScope]_vars
  BY <1>1, StepInScope
<1> QED
  BY <1>1, <1>2, <1>3, PTL DEF Spec, ScopeIsKept, InScope
===============================================================================
