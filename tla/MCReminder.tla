---------------------------- MODULE MCReminder ----------------------------
(* Reminder on a small instance. *)
EXTENDS Reminder
=============================================================================
