----------------------------- MODULE MCSchedule -----------------------------
(* Model-checking instance of Schedule: thread names are model values. *)
EXTENDS Schedule

=============================================================================
