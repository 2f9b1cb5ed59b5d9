------------------------------- MODULE BvtCpu -------------------------------
(***************************************************************************)
(* An exclusive pCPU: the framework of Schedule with the BVT policy        *)
(* plugged into its hooks, the tick timer, and a clock.                    *)
(***************************************************************************)
EXTENDS SchedBvt

CONSTANTS
    StartTime,  \* cpu_ticks() when the pCPU comes up
    MaxTime     \* bound of the model's clock

ASSUME ClockAssumption ==
    StartTime \in Nat \ {0} /\ MaxTime \in Nat /\ StartTime <= MaxTime

\* An observer: the virtual time each thread executed, in fractions of an MCU,
\* plus what its wakeups moved it forward by.
VARIABLE spent

bvtvars == <<vars, now, bq, spent>>

BvtInit == Init /\ now = StartTime /\ bq = EmptyBq /\ spent = Zero

\* schedule(): prioritize every runnable requester, then sched_bvt_pick_next.
BvtPick ==
    \E order \in Orders(priority_pending \cap thread_list \cap Awake) :
        LET b == BvtCharge(BvtPrioritizeAll(bq, order))
            t == BvtChoice(b)
        IN  SchedulePick(t) /\ bq' = BvtStart(b, t)

\* sched_tick_handler: the idle thread is left alone if nothing is runnable.
BvtTickHandler ==
    /\ bq.timer # 0 /\ bq.timer <= now
    /\ InHypervisor /\ pc # "trap" /\ curr # None
    /\ IF curr # Idle \/ bq.queue # <<>> THEN TimerTick ELSE UNCHANGED vars
    /\ bq' = [bq EXCEPT !.timer = 0]

BvtWakeThread ==
    \E t \in Thread, from \in Caller :
        /\ WakeThread(t, from)
        /\ bq' = BvtWake(bq, t)
        /\ spent' = [spent EXCEPT ![t] = @ + (bq'.avt[t] - bq.avt[t]) * Mcu]

BvtCalls ==
    \/ \E t \in Thread : InitThreadData(t) /\ bq' = BvtInitData(bq, t)
    \/ \E v \in Vcpu, from \in Caller :
          SleepThread(v, from) /\ bq' = BvtSleep(bq, v)
    \/ \E v \in Injected, from \in Caller :
          VcpuMakeRequest(v, from) /\ UNCHANGED bq

Operation ==
    /\ \/ BvtWakeThread
       \/ /\ \/ BvtCalls
             \/ Steps /\ UNCHANGED bq
             \/ HelperSleep /\ bq' = BvtSleep(bq, curr)
             \/ BvtPick
             \/ BvtTickHandler
          /\ UNCHANGED spent
    /\ UNCHANGED now

\* The thread that executes; the one schedule() has chosen, from the choice on.
Running == IF next # None THEN next ELSE curr

Tick ==
    /\ now < MaxTime
    /\ now' = now + 1
    /\ spent' = [t \in Thread |->
                   IF t = Running THEN spent[t] + Ratio(t) ELSE spent[t]]
    /\ UNCHANGED <<vars, bq>>

BvtSpec == BvtInit /\ [][Operation \/ Tick]_bvtvars

-----------------------------------------------------------------------------

\* The runqueue holds exactly the awake threads, the running one included,
\* through every race of sleep_thread, wake_thread and schedule().
RunqueueIsAwake == Range(bq.queue) = Awake

\* "The runqueue is sorted by EVT": wakeups, charges and warps that change an EVT
\* while the thread is queued all move it to its place.
SortedByEvt ==
    \A i, j \in DOMAIN bq.queue :
        i < j => bq.evt[bq.queue[i]] <= bq.evt[bq.queue[j]]

LiveEvt(t) == bq.evt[t] + Uncharged(bq, t) \div Mcu

\* Bounded unfairness: until the timer is due or a reschedule is requested, the
\* running thread gets ahead of a waiting one by no more than the context-switch
\* allowance, in whole MCUs, although the timer is armed only by pick_next and the
\* set of waiting threads changes under it.
BoundedOverrun ==
    (/\ curr \in Awake /\ pc # "switch" /\ NEED_RESCHEDULE \notin flags
     /\ bq.timer = 0 \/ now <= bq.timer) =>
        \A t \in Awake \ {curr} :
            LiveEvt(curr) <= bq.evt[t] + CSA * Ratio(curr)

\* "AVT remains the long-term fairness ledger": a thread's AVT and residual, with
\* the charge still due, account exactly for what it executed, whatever warps,
\* preemptions and sleeps happened; only wakeups add to it.
AvtIsLedger ==
    \A t \in Thread :
        bq.avt[t] * Mcu + bq.residual[t]
        + (IF t = Running THEN (now - bq.start[t]) * Ratio(t) ELSE 0) = spent[t]

\* pick_next chooses an awake thread whenever there is one: this pCPU implements
\* Schedule.
ImplementsSchedule == Spec

=============================================================================
