----------------------------- MODULE AccountsMC -----------------------------
(* Instances of Accounts for TLC.                                          *)
EXTENDS Accounts, TLC

CONSTANTS ui, ticker, click, home, nobody

TwoIds == {2, 3}
AllActors == {ui, ticker, click}
Alike == Permutations(Goroutines)
\* A failure counts as much as two windows.
Budget == moves + 2 * faults <= MaxMoves
===============================================================================
