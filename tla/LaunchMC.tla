------------------------------- MODULE LaunchMC -------------------------------
(* Instances of Launch for TLC.                                            *)
EXTENDS Launch

CONSTANT nobody

ThreeProcs == 1..3
\* Two migrations, of two statements and of one.
TwoMigrations == <<2, 1>>
===============================================================================
