------------------------------- MODULE Timer --------------------------------
(***************************************************************************)
(* core/timer.c on one pCPU: the sorted list of software timers, the one   *)
(* hardware comparator they share (arch/arm64/timer.c), and the softirq    *)
(* that serves them (core/softirq.c).                                      *)
(*                                                                         *)
(* Callbacks run with interrupts enabled, and a callback that wakes a      *)
(* thread reprograms the scheduler's tick timer: timers come and go while  *)
(* timer_softirq holds a pointer to the next list node.                    *)
(***************************************************************************)
EXTENDS Lists

CONSTANTS
    OneShot, Periodic,  \* the timers of the pCPU
    Period,             \* period_in_cycle of the periodic ones
    Delay,              \* how far ahead one-shot timers are set; 0 is "expired"
    MAX_TIMER_ACTIONS,
    MaxDelta,           \* ARM64_TIMER_MAX_DELTA
    MaxTime,            \* bound of the model's clock
    End                 \* the list head, where an iteration ends

Timers == OneShot \cup Periodic

ASSUME TimerAssumption ==
    /\ OneShot \cap Periodic = {} /\ End \notin Timers
    /\ Period \in Nat \ {0} /\ Delay \subseteq Nat
    /\ MAX_TIMER_ACTIONS \in Nat \ {0} /\ MaxDelta \in Nat \ {0}
    /\ MaxTime \in Nat \ {0}

VARIABLES
    now,      \* cpu_ticks()
    list,     \* cpu_timer->timer_list
    timeout,  \* hv_timer.timeout
    hw,       \* the comparator, 0 when the hardware timer is stopped
    pending,  \* SOFTIRQ_TIMER in softirq_pending
    phase,    \* timer_softirq: not running, at its loop test, in a callback
    pos, n,   \* its list cursors
    tries, current_tsc

vars == <<now, list, timeout, hw, pending, phase, pos, n, tries, current_tsc>>

cursor == <<phase, pos, n, tries, current_tsc>>

Init ==
    /\ now = 1
    /\ list = <<>>
    /\ timeout = [t \in Timers |-> 0]
    /\ hw = 0
    /\ pending = FALSE
    /\ phase = "off"
    /\ pos = End /\ n = End /\ tries = 0 /\ current_tsc = 0

Started(t) == t \in Range(list)

\* node.next of x in list l; a node that was deleted points to itself.
NextNode(l, x) ==
    IF x # End /\ x \notin Range(l) THEN x
    ELSE LET i == IF x = End THEN 0 ELSE CHOOSE j \in DOMAIN l : l[j] = x
         IN  IF i < Len(l) THEN l[i + 1] ELSE End

-----------------------------------------------------------------------------

\* Mutant: a deadline that has passed is not moved into the future.
SetCountNoClamp(deadline) ==
    hw' = IF deadline > now THEN deadline ELSE 0

\* arch_set_timer_count.
SetTimerCount(deadline) ==
    LET delta == IF deadline > now THEN deadline - now ELSE 1
    IN  hw' = now + (IF delta > MaxDelta THEN MaxDelta ELSE delta)

\* update_architecture_timer, for list l with deadlines `to'.
UpdateArchitectureTimer(l, to) ==
    IF l = <<>> THEN UNCHANGED hw ELSE SetTimerCount(to[Head(l)])

\* Mutant: the place of the deadline in the list is not searched for.
InsertAtHead(l, to, t) == <<t>> \o l

\* local_add_timer: before the first timer that is not earlier.
LocalAddTimer(l, to, t) ==
    InsertBefore(l, {i \in DOMAIN l : to[t] <= to[l[i]]}, t)

\* Code that may add and delete timers: a thread, or the callback of another
\* timer (one that wakes a thread reprograms the scheduler's tick timer).
MayChange(t) == phase = "off" \/ (phase = "callback" /\ pos # t)

\* update_timer, then add_timer.
AddTimer(t, deadline) ==
    /\ MayChange(t) /\ ~Started(t)
    /\ timeout' = [timeout EXCEPT ![t] = deadline]
    /\ list' = LocalAddTimer(list, timeout', t)
    /\ IF Head(list') = t THEN UpdateArchitectureTimer(list', timeout')
       ELSE UNCHANGED hw
    /\ UNCHANGED <<now, pending, cursor>>

\* del_timer: the hardware is left alone, and so is the timer's deadline.
DelTimer(t) ==
    /\ MayChange(t) /\ Started(t)
    /\ list' = Unlink(list, t)
    /\ UNCHANGED <<now, timeout, hw, pending, cursor>>

\* cntv_timer_disarm, cntp_timer_disarm: the deadline is cleared as well.  Called
\* by threads, by the timer's own callback, and by the interrupt handler of the
\* guest's timer, which nests anywhere in the softirq.
DisarmTimer(t) ==
    /\ list' = Unlink(list, t)
    /\ timeout' = [timeout EXCEPT ![t] = 0]
    /\ UNCHANGED <<now, hw, pending, cursor>>

\* timer_irq_handler: stop the hardware and raise the softirq.
TimerIrq ==
    /\ hw # 0 /\ hw <= now
    /\ hw' = 0
    /\ pending' = TRUE
    /\ UNCHANGED <<now, list, timeout, cursor>>

-----------------------------------------------------------------------------
\* timer_softirq.

\* do_softirq_internal clears the bit and calls the handler.
SoftirqStart ==
    /\ pending /\ phase = "off"
    /\ pending' = FALSE
    /\ phase' = "test"
    /\ tries' = MAX_TIMER_ACTIONS
    /\ current_tsc' = now
    /\ pos' = NextNode(list, End)
    /\ n' = NextNode(list, pos')
    /\ UNCHANGED <<now, list, timeout, hw>>

Serves == pos # End /\ timeout[pos] <= current_tsc /\ tries - 1 # 0

\* Mutant: the callback is entered with its timer still in the list.
ServeInPlace ==
    /\ phase = "test" /\ Serves
    /\ tries' = tries - 1
    /\ phase' = IF timeout[pos] # 0 THEN "callback" ELSE "served"
    /\ UNCHANGED <<now, list, timeout, hw, pending, pos, n, current_tsc>>

\* The timer at the cursor is removed, and its callback entered unless it was
\* stopped (timeout 0).
SoftirqServe ==
    /\ phase = "test" /\ Serves
    /\ list' = Unlink(list, pos)
    /\ tries' = tries - 1
    /\ phase' = IF timeout[pos] # 0 THEN "callback" ELSE "served"
    /\ UNCHANGED <<now, timeout, hw, pending, pos, n, current_tsc>>

\* Mutant: the next period, even if it has passed.
AdvanceOnce(deadline) == deadline + Period

\* advance_periodic_timer.
AdvancePeriodicTimer(deadline) ==
    LET nextp == deadline + Period
    IN  IF nextp > now THEN nextp
        ELSE nextp + ((now - nextp) \div Period + 1) * Period

\* The callback returns: reinsert a periodic timer, stop a one-shot one, and
\* move the cursor to the node remembered before the callback.
SoftirqNext ==
    /\ phase \in {"callback", "served"}
    /\ IF pos \in Periodic
       THEN /\ current_tsc' = now
            /\ timeout' = [timeout EXCEPT ![pos] = AdvancePeriodicTimer(@)]
            /\ list' = LocalAddTimer(list, timeout', pos)
       ELSE /\ timeout' = [timeout EXCEPT ![pos] = 0]
            /\ UNCHANGED <<list, current_tsc>>
    /\ pos' = n
    /\ n' = NextNode(list', n)
    /\ phase' = "test"
    /\ UNCHANGED <<now, hw, pending, tries>>

\* Nothing more is due, or enough was done: program the hardware and return.
SoftirqEnd ==
    /\ phase = "test" /\ ~Serves
    /\ UpdateArchitectureTimer(list, timeout)
    /\ phase' = "off"
    /\ pos' = End /\ n' = End /\ tries' = 0 /\ current_tsc' = 0
    /\ UNCHANGED <<now, list, timeout, pending>>

Tick ==
    /\ now < MaxTime
    /\ now' = now + 1
    /\ UNCHANGED <<list, timeout, hw, pending, cursor>>

Next ==
    \/ \E t \in OneShot, d \in Delay : AddTimer(t, now + d)
    \/ \E t \in Periodic : AddTimer(t, now + Period)
    \/ \E t \in Timers : DelTimer(t)
    \/ \E t \in OneShot : DisarmTimer(t)
    \/ TimerIrq
    \/ SoftirqStart
    \/ SoftirqServe
    \/ SoftirqNext
    \/ SoftirqEnd
    \/ Tick

Spec == Init /\ [][Next]_vars

-----------------------------------------------------------------------------

\* The list holds each timer at most once; the cursors are timers or the head.
TypeOK ==
    /\ now \in 1 .. MaxTime
    /\ list \in Seq(Timers) /\ \A i, j \in DOMAIN list : list[i] = list[j] => i = j
    /\ timeout \in [Timers -> Nat]
    /\ hw \in Nat /\ pending \in BOOLEAN
    /\ phase \in {"off", "test", "callback", "served"}
    /\ pos \in Timers \cup {End} /\ n \in Timers \cup {End}
    /\ tries \in 0 .. MAX_TIMER_ACTIONS
    /\ current_tsc \in 0 .. now

\* "per-pCPU timer_list, sorted by timeout": also while callbacks add and delete
\* timers around the cursors of timer_softirq.
SortedList ==
    \A i, j \in DOMAIN list : i < j => timeout[list[i]] <= timeout[list[j]]

\* Every timer in the list is going to be served: outside timer_softirq the
\* hardware fires no later than the earliest deadline (at the next tick if that
\* has passed), or the softirq is already raised.
HardwareArmed ==
    (phase = "off" /\ list # <<>> /\ ~pending) =>
        hw # 0 /\ (hw <= timeout[Head(list)] \/ hw <= now + 1)

\* "Periodic timers are wall-clock ticks, not a backlog queue": after a late
\* service the next deadline is the first one of the timer's grid in the future.
PeriodicOnGrid ==
    [][\A t \in Periodic :
         (phase # "off" /\ timeout'[t] # timeout[t] /\ pos = t) =>
            /\ (timeout'[t] - timeout[t]) % Period = 0
            /\ now < timeout'[t] /\ timeout'[t] <= now + Period]_vars

=============================================================================
