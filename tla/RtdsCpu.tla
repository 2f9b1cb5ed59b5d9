------------------------------ MODULE RtdsCpu -------------------------------
(***************************************************************************)
(* A shared pCPU: the framework of Schedule with the RTDS policy plugged   *)
(* into its hooks, the tick timer, and a clock.  Time passes at any point. *)
(***************************************************************************)
EXTENDS SchedRtds

CONSTANTS
    StartTime,  \* cpu_ticks() when the pCPU comes up
    MaxTime     \* bound of the model's clock

ASSUME ClockAssumption ==
    StartTime \in Nat \ {0} /\ MaxTime \in Nat /\ StartTime <= MaxTime

rvars == <<vars, now, rq>>

RtdsInit == Init /\ now = StartTime /\ rq = EmptyRq

\* schedule(): prioritize every runnable requester, then sched_rtds_pick_next.
RtdsPick ==
    \E order \in Orders(priority_pending \cap thread_list \cap Awake) :
        LET r == ChargeAndRefresh(PrioritizeAll(rq, order))
            t == Choice(r)
        IN  SchedulePick(t) /\ rq' = Start(r, t)

\* rtds_timer_handler: the one-shot timer is spent, queues are refreshed.
RtdsTimerHandler ==
    /\ rq.timer # 0 /\ rq.timer <= now
    /\ TimerTick
    /\ rq' = [ChargeAndRefresh(rq) EXCEPT !.timer = 0]

RtdsCalls ==
    \/ \E t \in Thread : InitThreadData(t) /\ rq' = RtdsInitData(rq, t)
    \/ \E v \in Vcpu, from \in Caller :
          SleepThread(v, from) /\ rq' = RtdsSleep(rq, v, from)
    \/ \E t \in Thread, from \in Caller :
          WakeThread(t, from) /\ rq' = RtdsWake(rq, t, from)
    \/ \E v \in Injected, from \in Caller :
          VcpuMakeRequest(v, from) /\ UNCHANGED rq

\* Everything but the passing of time.
Operation ==
    /\ \/ RtdsCalls
       \/ Steps /\ UNCHANGED rq
       \/ HelperSleep /\ rq' = RtdsSleep(rq, curr, "local")
       \/ RtdsPick
       \/ RtdsTimerHandler
    /\ UNCHANGED now

Tick == now < MaxTime /\ now' = now + 1 /\ UNCHANGED <<vars, rq>>

RtdsSpec == RtdsInit /\ [][Operation \/ Tick]_rvars

-----------------------------------------------------------------------------

Queued == Range(rq.ready) \cup Range(rq.depleted)

\* No thread is lost or duplicated: a runnable thread that does not run is on
\* exactly one queue, and a blocked or blocking one on none, through every
\* race of sleep_thread, wake_thread, the timer handler and schedule().
QueuesMatchStatus ==
    /\ Awake \ {curr, next} \subseteq Queued /\ Queued \subseteq Awake
    /\ IsInjective(rq.ready) /\ IsInjective(rq.depleted)
    /\ Range(rq.ready) \cap Range(rq.depleted) = {}

\* The ready queue holds servers with budget, the depleted queue servers
\* without ("ready queue contains runnable servers with budget").
QueuesMatchBudget ==
    /\ \A i \in DOMAIN rq.ready : rq.remaining[rq.ready[i]] > 0
    /\ \A i \in DOMAIN rq.depleted : rq.remaining[rq.depleted[i]] = 0

\* Preemption is armed: while another thread is awake, the running one is
\* stopped by the tick timer or a reschedule is already requested, although
\* remote callers must not program the timer.
PreemptionArmed ==
    (curr \in Awake /\ Awake # {curr} /\ pc # "switch") =>
        rq.timer # 0 \/ NEED_RESCHEDULE \in flags

\* schedule() with RTDS meets the framework's contract of pick_next in every
\* reachable state: this pCPU implements Schedule.
ImplementsSchedule == Spec

\* Earliest deadline first among servers with budget; a depleted server runs
\* only as slack, when no awake server has budget left.
EdfPick ==
    [][(pc' = "switch" /\ next' \in Thread) =>
         \A t \in Awake :
            \/ rq'.remaining[t] = 0 /\ rq'.remaining[next'] > 0
            \/ /\ rq'.remaining[t] > 0 => rq'.remaining[next'] > 0
               /\ rq'.deadline[next'] <= rq'.deadline[t]]_rvars

=============================================================================
