-------------------------------- MODULE Layout --------------------------------
(***************************************************************************)
(* One day of the time grid (ui/grid.go): the events of the day are put    *)
(* into groups that overlap (overlapGroups), each group is laid out in     *)
(* columns by splitting the widest block (bspAssign), and a tap is looked  *)
(* up among the blocks drawn (Tapped).  One step is one turn of a loop.    *)
(*                                                                         *)
(* Times are minutes since the midnight the day begins with; hourHeight is *)
(* 60, so a minute is a pixel.  Of an event only its start and end are     *)
(* kept; hidden and all-day ones are left out.                             *)
(***************************************************************************)
EXTENDS Naturals, Sequences, FiniteSets

CONSTANTS Times,       \* the events there may be: records of a start and an end, 0 for none
          MaxEvents,   \* bound: events of the calendar
          DayLengths,  \* how long a day may be: 24 hours, and 23 or 25 at a clock change
          ColWidth     \* the width of a day

ASSUME TimesAssumption == Times \subseteq [start : Nat, end : Nat]
ASSUME MaxEventsAssumption == MaxEvents \in Nat
ASSUME DayLengthsAssumption == DayLengths \subseteq Nat
ASSUME ColWidthAssumption == ColWidth \in Nat

PopOutWidth == 80
MinHeight == 14
Hour == 60

VARIABLES
  dayLength, \* of this day
  events,    \* those of the day, by start
  at,        \* the loop it is in
  groupOf,   \* per event, the number of its group; 0 while it is not `used'
  rank,      \* ... its place in it
  group,     \* the group that is formed, or laid out
  size,      \* ... its events so far
  next,      \* the event the pass looks at
  changed,   \* the pass has found a member
  blocks,    \* the blocks the day is split into for the group, by rank
  column     \* per event, its block, once its group is laid out

vars == <<dayLength, events, at, groupOf, rank, group, size, next, changed, blocks, column>>

N == Len(events)
All == 1..N
Members(g) == {i \in All : groupOf[i] = g}

\* A block is one of equal parts of the width: from pos / parts to (pos + 1) / parts.
Block == {b \in [parts : Nat, pos : Nat] : b.pos < b.parts}
Whole == [parts |-> 1, pos |-> 0]

TypeOK ==
  /\ dayLength \in DayLengths
  /\ events \in Seq(Times)
  /\ at \in {"group", "scan", "split", "done"}
  /\ groupOf \in [All -> Nat] /\ rank \in [All -> Nat]
  /\ group \in Nat /\ size \in Nat /\ next \in Nat \ {0} /\ changed \in BOOLEAN
  /\ blocks \in Seq(Block) /\ Len(blocks) > 0
  /\ column \in [All -> Block]

Sorted(s) == \A i, j \in DOMAIN s : i < j => s[i].start <= s[j].start

\* eventsForDay counts 24 hours from midnight; ties are in any order.
EventsForDay(s) == Sorted(s) /\ \A i \in DOMAIN s : s[i].start < 24 * Hour

Init ==
  /\ dayLength \in DayLengths
  /\ \E n \in 0..MaxEvents : events \in [1..n -> Times]
  /\ EventsForDay(events)
  /\ at = "group"
  /\ groupOf = [i \in All |-> 0] /\ rank = [i \in All |-> 0]
  /\ group = 0 /\ size = 0 /\ next = 1 /\ changed = FALSE
  /\ blocks = <<Whole>>
  /\ column = [i \in All |-> Whole]

-------------------------------------------------------------------------------
\* effectiveEndTS: an event without an end, or with one that is no later, lasts an hour.
EffectiveEnd(e) == IF e.end > e.start THEN e.end ELSE e.start + Hour

EventsOverlap(a, b) == a.start < EffectiveEnd(b) /\ b.start < EffectiveEnd(a)

Overlap(i, j) == EventsOverlap(events[i], events[j])

\* overlapGroups: the first event not used yet begins a group ...
BeginGroup ==
  /\ at = "group"
  /\ \E i \in All :
       /\ groupOf[i] = 0 /\ \A j \in 1..(i - 1) : groupOf[j] # 0
       /\ groupOf' = [groupOf EXCEPT ![i] = group + 1]
       /\ rank' = [rank EXCEPT ![i] = 1]
  /\ group' = group + 1 /\ size' = 1
  /\ next' = 1 /\ changed' = FALSE
  /\ at' = "scan"
  /\ UNCHANGED <<dayLength, events, blocks, column>>

\* Mutant: an event is compared with the first of the group only.
ScanFirst ==
  /\ at = "scan" /\ next <= N
  /\ next' = next + 1
  /\ IF groupOf[next] = 0 /\ \E k \in Members(group) : rank[k] = 1 /\ Overlap(k, next)
     THEN /\ groupOf' = [groupOf EXCEPT ![next] = group]
          /\ rank' = [rank EXCEPT ![next] = size + 1]
          /\ size' = size + 1 /\ changed' = TRUE
     ELSE UNCHANGED <<groupOf, rank, size, changed>>
  /\ UNCHANGED <<dayLength, events, at, group, blocks, column>>

\* ... which every event joins that overlaps a member ...
Scan ==
  /\ at = "scan" /\ next <= N
  /\ next' = next + 1
  /\ IF groupOf[next] = 0 /\ \E k \in Members(group) : Overlap(k, next)
     THEN /\ groupOf' = [groupOf EXCEPT ![next] = group]
          /\ rank' = [rank EXCEPT ![next] = size + 1]
          /\ size' = size + 1 /\ changed' = TRUE
     ELSE UNCHANGED <<groupOf, rank, size, changed>>
  /\ UNCHANGED <<dayLength, events, at, group, blocks, column>>

\* ... pass after pass, until one finds nobody.
EndPass ==
  /\ at = "scan" /\ next > N
  /\ next' = 1 /\ changed' = FALSE
  /\ at' = IF changed THEN "scan" ELSE "group"
  /\ UNCHANGED <<dayLength, events, groupOf, rank, group, size, blocks, column>>

\* The groups are complete; the first is laid out.
EndGroups ==
  /\ at = "group" /\ \A i \in All : groupOf[i] # 0
  /\ at' = IF N = 0 THEN "done" ELSE "split"
  /\ group' = 1 /\ blocks' = <<Whole>>
  /\ UNCHANGED <<dayLength, events, groupOf, rank, size, next, changed, column>>

-------------------------------------------------------------------------------
\* The first of the widest blocks.
Widest(w) ==
  /\ w \in DOMAIN blocks
  /\ \A b \in DOMAIN blocks : blocks[w].parts <= blocks[b].parts
  /\ \A b \in 1..(w - 1) : blocks[w].parts < blocks[b].parts

LeftHalf(b) == [parts |-> 2 * b.parts, pos |-> 2 * b.pos]
RightHalf(b) == [parts |-> 2 * b.parts, pos |-> 2 * b.pos + 1]

\* Mutant: the alternative ADR-0001 rejects, split the rightmost block.
SplitRightmost ==
  /\ at = "split" /\ Len(blocks) < Cardinality(Members(group))
  /\ LET w == Len(blocks) IN
       blocks' = Append([blocks EXCEPT ![w] = LeftHalf(@)], RightHalf(blocks[w]))
  /\ UNCHANGED <<dayLength, events, at, groupOf, rank, group, size, next, changed, column>>

\* Mutant: the block that was split keeps its width.
SplitKeeps ==
  /\ at = "split" /\ Len(blocks) < Cardinality(Members(group))
  /\ \E w \in DOMAIN blocks :
       /\ Widest(w)
       /\ blocks' = Append(blocks, RightHalf(blocks[w]))
  /\ UNCHANGED <<dayLength, events, at, groupOf, rank, group, size, next, changed, column>>

\* bspAssign: its left half stays with its event, the right half is the next one's.
Split ==
  /\ at = "split" /\ Len(blocks) < Cardinality(Members(group))
  /\ \E w \in DOMAIN blocks :
       /\ Widest(w)
       /\ blocks' = Append([blocks EXCEPT ![w] = LeftHalf(@)], RightHalf(blocks[w]))
  /\ UNCHANGED <<dayLength, events, at, groupOf, rank, group, size, next, changed, column>>

\* renderDayEvents draws the group and turns to the next.
DrawGroup ==
  /\ at = "split" /\ Len(blocks) = Cardinality(Members(group))
  /\ column' = [i \in All |-> IF groupOf[i] = group THEN blocks[rank[i]] ELSE column[i]]
  /\ blocks' = <<Whole>>
  /\ group' = group + 1
  /\ at' = IF \A i \in All : groupOf[i] <= group THEN "done" ELSE "split"
  /\ UNCHANGED <<dayLength, events, groupOf, rank, size, next, changed>>

Next == BeginGroup \/ Scan \/ EndPass \/ EndGroups \/ Split \/ DrawGroup

Spec == Init /\ [][Next]_vars

-------------------------------------------------------------------------------
(* What is drawn, and what a tap at (x, y) opens.                          *)

\* timeOfDayFraction: how far the clock is from its own midnight.
TimeOfDay(t) == IF t < dayLength THEN t ELSE (t - dayLength) % (24 * Hour)

Top(i) == TimeOfDay(events[i].start)

\* An end that is no later on the clock is drawn an hour long.
Bottom(i) ==
  LET end == TimeOfDay(events[i].end)
      last == IF events[i].end # 0 /\ end > Top(i) THEN end ELSE Top(i) + Hour
  IN  IF last - Top(i) < MinHeight THEN Top(i) + MinHeight ELSE last

Left(i) == (column[i].pos * ColWidth) \div column[i].parts + 1
Right(i) == ((column[i].pos + 1) * ColWidth) \div column[i].parts - 1

IsNarrow(i) == Right(i) < Left(i) + PopOutWidth

Hit(i, x, y) == x \in Left(i)..Right(i) /\ y \in Top(i)..Bottom(i)

\* Tapped takes the first block hit, in the order they were drawn.
Tapped(i, x, y) ==
  /\ Hit(i, x, y)
  /\ \A k \in All :
       Hit(k, x, y) => \/ groupOf[i] < groupOf[k]
                       \/ groupOf[i] = groupOf[k] /\ rank[i] <= rank[k]

\* A narrow block opens the Pop-out View of its group.
Opens(i) == IF IsNarrow(i) THEN Members(groupOf[i]) ELSE {i}

-------------------------------------------------------------------------------
\* Group g has all its members.
Closed(g) == g < group \/ at # "scan"

(* Events of different groups do not overlap: two events at the same time  *)
(* are always laid out side by side, whichever events link them.           *)
GroupsApart ==
  \A i, j \in All :
    groupOf[i] # 0 /\ Closed(groupOf[i]) /\ groupOf[j] # groupOf[i] => ~Overlap(i, j)

(* ADR-0001: "no single column ever becomes narrower than half the         *)
(* available space before others do": none is ever more than twice as wide *)
(* as another.                                                             *)
Balanced ==
  \A a, b \in DOMAIN blocks : blocks[a].parts <= 2 * blocks[b].parts

\* One block ends where the other begins, or before.
Before(a, b) == (a.pos + 1) * b.parts <= b.pos * a.parts
Apart(a, b) == Before(a, b) \/ Before(b, a)

(* Events at the same time stand side by side: however they are linked,    *)
(* grouped and ordered, no two of them are given the same part of the day. *)
SideBySide ==
  at = "done" =>
    \A i, j \in All : i # j /\ Overlap(i, j) => Apart(column[i], column[j])

(* Whatever the day holds, every event of it can be opened: some point of  *)
(* its block opens it, or a Pop-out View it is in, though short events are *)
(* drawn longer than they are.  (Not so what begins in the 25th hour of a  *)
(* day: eventsForDay leaves it out.)                                       *)
Reachable ==
  at = "done" =>
    \A i \in All :
      events[i].start < dayLength =>
        \E k \in All :
          i \in Opens(k) /\ \E y \in Top(k)..Bottom(k) : Tapped(k, (Left(k) + Right(k)) \div 2, y)
===============================================================================
