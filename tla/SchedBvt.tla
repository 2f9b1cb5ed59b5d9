------------------------------ MODULE SchedBvt ------------------------------
(***************************************************************************)
(* core/sched_bvt.c: borrowed virtual time with bounded warp, the          *)
(* scheduler of an exclusive pCPU.  Its state is the record bq,            *)
(*     queue             the runqueue; it includes the running thread      *)
(*     avt, evt, residual, start   virtual times and start_tsc by thread   *)
(*     left, unwarp      warp_left (not 0 while warp_on) and               *)
(*                       last_unwarp_tsc by thread                         *)
(*     svt               the scheduler virtual time                        *)
(*     timer             timeout of tick_timer, 0 when it is not queued    *)
(* and every function of the file is an operator from bq to bq.            *)
(***************************************************************************)
EXTENDS Schedule, Lists

CONSTANTS
    Mcu,           \* ticks of one minimum charging unit
    CSA,           \* BVT_CSA_MCU, the context switch allowance
    VcpuRatio,     \* vt_ratio of vCPU threads
    HelperRatio,   \* vt_ratio of helper threads, which are never warped
    WarpValue,     \* bvt_warp_value, bvt_warp_limit and
    WarpLimit,     \*   bvt_unwarp_period of vCPU threads, in MCU
    UnwarpPeriod

ASSUME BvtAssumption ==
    /\ {Mcu, VcpuRatio, HelperRatio} \subseteq Nat \ {0}
    /\ {CSA, WarpValue, WarpLimit, UnwarpPeriod} \subseteq Nat

VARIABLES
    now,  \* cpu_ticks()
    bq    \* sched_bvt_control and the sched_bvt_data of every thread

Zero == [t \in Thread |-> 0]

EmptyBq == [queue |-> <<>>, avt |-> Zero, evt |-> Zero, residual |-> Zero,
            start |-> Zero, left |-> Zero, unwarp |-> Zero, svt |-> 0,
            timer |-> 0]

Ratio(t) == IF t \in Vcpu THEN VcpuRatio ELSE HelperRatio

\* sched_bvt_init_data: avt, evt and start_tsc keep what the thread object holds.
BvtInitData(b, t) ==
    [b EXCEPT !.left[t] = 0, !.unwarp[t] = 0, !.residual[t] = 0,
              !.queue = Unlink(@, t)]

UpdateEvt(b, t) ==
    [b EXCEPT !.evt[t] = b.avt[t] - (IF b.left[t] # 0 THEN WarpValue ELSE 0)]

\* runqueue_add: before the first thread with a later EVT.
RunqueueAdd(b, t) ==
    [b EXCEPT !.queue =
        InsertBefore(@, {i \in DOMAIN @ : b.evt[@[i]] > b.evt[t]}, t)]

Requeue(b, t) ==
    IF t \in Range(b.queue)
    THEN RunqueueAdd([b EXCEPT !.queue = Unlink(@, t)], t) ELSE b

CanWarp(b, t) ==
    /\ t \in Vcpu /\ WarpValue > 0
    /\ (UnwarpPeriod # 0 /\ b.unwarp[t] # 0) =>
         now - b.unwarp[t] >= UnwarpPeriod * Mcu

\* Mutant: the changed EVT does not move the thread in the runqueue.
WarpInPlace(b, t) ==
    IF b.left[t] # 0 \/ ~CanWarp(b, t) THEN b
    ELSE UpdateEvt([b EXCEPT !.left[t] = Max({WarpLimit, 1})], t)

\* bvt_start_warp: a window of at least BVT_WARP_LIMIT_DEFAULT = 1.
StartWarp(b, t) ==
    IF b.left[t] # 0 \/ ~CanWarp(b, t) THEN b
    ELSE Requeue(UpdateEvt([b EXCEPT !.left[t] = Max({WarpLimit, 1})], t), t)

\* bvt_update_warp_after_charge.
ChargeWarp(b, t, mcus) ==
    IF b.left[t] = 0 \/ mcus = 0 THEN b
    ELSE IF mcus >= b.left[t]
    THEN [b EXCEPT !.left[t] = 0, !.unwarp[t] = now]
    ELSE [b EXCEPT !.left[t] = @ - mcus]

\* Virtual time, in fractions of an MCU, executed by t but not yet charged.
Uncharged(b, t) ==
    IF now > b.start[t] THEN (now - b.start[t]) * Ratio(t) + b.residual[t] ELSE 0

\* Mutant: the part of an MCU that is left over is dropped.
ChargeRounded(b, t) ==
    LET mcus == Uncharged(b, t) \div Mcu
    IN  Requeue(UpdateEvt(ChargeWarp(
            [b EXCEPT !.avt[t] = @ + mcus, !.residual[t] = 0], t, mcus), t), t)

\* update_vt: charge the running thread up to now.
UpdateVt(b, t) ==
    LET v == Uncharged(b, t)
        mcus == v \div Mcu
        res == IF now > b.start[t] THEN v % Mcu ELSE b.residual[t]
    IN  Requeue(UpdateEvt(ChargeWarp(
            [b EXCEPT !.avt[t] = @ + mcus, !.residual[t] = res], t, mcus), t), t)

\* update_svt: the AVT of the first thread of the runqueue.
UpdateSvt(b) ==
    IF b.queue = <<>> THEN b ELSE [b EXCEPT !.svt = b.avt[Head(b.queue)]]

\* Mutant: the countdown is taken in virtual, not in physical, time.
ArmVirtual(b) ==
    IF Len(b.queue) < 2 THEN [b EXCEPT !.timer = 0]
    ELSE [b EXCEPT !.timer =
            now + (b.evt[b.queue[2]] - b.evt[b.queue[1]] + Ratio(b.queue[1]) * CSA) * Mcu]

\* The one-shot timer: when the first thread has caught up with the second, plus
\* the allowance; no timer for a lone thread.
ArmTimer(b) ==
    IF Len(b.queue) < 2 THEN [b EXCEPT !.timer = 0]
    ELSE LET first == b.queue[1]
             second == b.queue[2]
         IN  [b EXCEPT !.timer =
                now + ((b.evt[second] - b.evt[first]) \div Ratio(first) + CSA) * Mcu]

\* Mutant: the choice needs a second thread to count down to.
ChoiceOfTwo(b) == IF Len(b.queue) < 2 THEN Idle ELSE Head(b.queue)

BvtChoice(b) == IF b.queue = <<>> THEN Idle ELSE Head(b.queue)

\* sched_bvt_pick_next up to the choice, and after it.
BvtCharge(b) == UpdateSvt(IF curr \in Thread THEN UpdateVt(b, curr) ELSE b)

BvtStart(b, t) ==
    IF t = Idle THEN [b EXCEPT !.timer = 0]
    ELSE ArmTimer([b EXCEPT !.start[t] = now])

\* Mutant: only a thread that does not run is taken off the runqueue.
BvtSleepCurrStays(b, t) ==
    IF t = curr THEN b ELSE [b EXCEPT !.queue = Unlink(@, t)]

BvtSleep(b, t) == [b EXCEPT !.queue = Unlink(@, t)]

\* sched_bvt_wake: a long sleeper continues from SVT, then the wakeup boost.
BvtWake(b, t) ==
    LET b1 == [b EXCEPT !.avt[t] = IF @ > b.svt - CSA THEN @ ELSE b.svt]
    IN  RunqueueAdd(UpdateEvt(StartWarp(b1, t), t), t)

\* sched_bvt_prioritize.
BvtPrioritize(b, t) == StartWarp(b, t)

\* The loop of schedule() over the threads with a priority request, in `order'.
BvtPrioritizeAll(b, order) ==
    LET pass[k \in 0 .. Len(order)] ==
            IF k = 0 THEN b ELSE BvtPrioritize(pass[k - 1], order[k])
    IN  pass[Len(order)]

=============================================================================
