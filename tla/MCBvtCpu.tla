----------------------------- MODULE MCBvtCpu -------------------------------
(* Model-checking instance of BvtCpu: threads are model values. *)
EXTENDS BvtCpu, TLC

=============================================================================
