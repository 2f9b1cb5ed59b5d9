----------------------------- MODULE MCVcpuRun ------------------------------
(***************************************************************************)
(* One SGI, the timer and one device line on two list registers, so that   *)
(* the three together do not fit.                                          *)
(***************************************************************************)
EXTENDS VcpuRun

CONSTANTS sgi, spi, ppi

MCOrder == <<sgi, ppi, spi>>

MCScenes ==
    {{"self", "timer", "line", "switch"},
     {"sgi", "line", "lower", "mmio", "switch"},
     {"sgi", "self", "timer", "vanish", "switch"},
     {"self", "timer", "switch", "life"},
     {"sgi", "line", "switch", "life"}}

LostScenes == {{"sgi"}}

=============================================================================
