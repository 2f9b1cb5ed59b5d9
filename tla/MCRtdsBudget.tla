---------------------------- MODULE MCRtdsBudget ----------------------------
(* Model-checking instance of RtdsBudget: threads are model values. *)
EXTENDS RtdsBudget, TLC

Sym == Permutations(Vcpu)

=============================================================================
