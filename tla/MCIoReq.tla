------------------------------ MODULE MCIoReq -------------------------------
(* Model-checking instance of AsyncIo: both events of a vCPU. *)
EXTENDS AsyncIo

Kinds == {"ioreq", "vint"}

=============================================================================
