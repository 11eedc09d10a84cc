------------------------------- MODULE LayoutMC -------------------------------
(* Instances of Layout for TLC.                                            *)
EXTENDS Layout

\* Short events in a row, long ones across them, one without an end, one past
\* midnight, and the last and first hour of two days.
SomeTimes ==
  {[start |-> 600, end |-> 605], [start |-> 605, end |-> 610], [start |-> 610, end |-> 700],
   [start |-> 600, end |-> 0], [start |-> 660, end |-> 720], [start |-> 600, end |-> 720],
   [start |-> 0, end |-> 30], [start |-> 1400, end |-> 1450], [start |-> 1380, end |-> 1390]}
===============================================================================
