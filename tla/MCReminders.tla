---------------------------- MODULE MCReminders ----------------------------
(* An instance of Reminders for TLC. *)
EXTENDS Reminders

\* Two days to end on, and a day on which the reminder of the later is not yet due.
Days == {1, 2}
=============================================================================
