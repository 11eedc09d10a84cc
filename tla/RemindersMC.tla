------------------------------ MODULE RemindersMC ------------------------------
(* Instances of Reminders and Settings for TLC.                            *)
EXTENDS Reminders

CONSTANTS p1, e1

OnePersister == {p1}
OneEvent == {e1}
===============================================================================
