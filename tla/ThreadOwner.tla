----------------------------- MODULE ThreadOwner -----------------------------
(***************************************************************************)
(* What the scheduler of one pCPU promises to the code that uses it: a     *)
(* thread that was put to sleep is never dispatched until it is woken,     *)
(* a switch wakes nobody and puts nobody to sleep, and the pCPU is given   *)
(* to the idle thread only when no thread is awake.                        *)
(***************************************************************************)
CONSTANTS Thread, Idle, None

VARIABLES
    awake,  \* threads that were woken and not put to sleep since
    owner   \* the thread that owns the pCPU

Init == awake = {} /\ owner = None

Sleep(t) == awake' = awake \ {t} /\ UNCHANGED owner

Wake(t) == awake' = awake \cup {t} /\ UNCHANGED owner

Start == owner = None /\ owner' = Idle /\ UNCHANGED awake

Dispatch ==
    /\ owner # None
    /\ owner' \in IF awake = {} THEN {Idle} ELSE awake
    /\ UNCHANGED awake

Next == Start \/ Dispatch \/ \E t \in Thread : Sleep(t) \/ Wake(t)

Spec == Init /\ [][Next]_<<awake, owner>>

=============================================================================
