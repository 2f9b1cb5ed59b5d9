----------------------------- MODULE MCSmpCall ------------------------------
(* Model-checking instance of SmpCall: three pCPUs, of which one may be down. *)
EXTENDS SmpCall

CONSTANTS k1, k2

Cpus == 0 .. 2

UpCpus == 1 .. 2

Quiet == [calls |-> {k1, k2}, timed |-> {}, kicks |-> FALSE]

Noisy == [calls |-> {k1}, timed |-> {k1}, kicks |-> TRUE]

Kicked == [calls |-> {k1, k2}, timed |-> {}, kicks |-> TRUE]

QuietAndNoisy == {Quiet, Noisy}

OnlyKicked == {Kicked}

=============================================================================
