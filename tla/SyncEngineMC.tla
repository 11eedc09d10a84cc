----------------------------- MODULE SyncEngineMC -----------------------------
(* Instances of SyncEngine for TLC.                                        *)
EXTENDS SyncEngine

CONSTANTS c1, c2, u1, loop, none

MCCalendars == {c1, c2}
OneClient == {u1}

===============================================================================
