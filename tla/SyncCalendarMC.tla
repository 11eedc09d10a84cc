---------------------------- MODULE SyncCalendarMC ----------------------------
(* Instances of SyncCalendar for TLC.                                      *)
EXTENDS SyncCalendar, TLC

CONSTANTS w1, w2, none

OneWorker  == {w1}
TwoWorkers == {w1, w2}

\* The ticker and a Sync Now button on the running engine.
SameEngine == [w \in Workers |-> "running"]

Workers2 == Permutations(Workers)
Budget == edits + redits <= 2
NoFaults   == {}
NoButtons  == {}
AllButtons == {"keep-local", "remote-wins"}
===============================================================================
