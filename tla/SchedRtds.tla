----------------------------- MODULE SchedRtds ------------------------------
(***************************************************************************)
(* core/sched_rtds.c: the partitioned EDF budget scheduler of a shared     *)
(* pCPU.  Its runqueue is the record rq,                                   *)
(*     ready, depleted   the two queues, as sequences of threads           *)
(*     remaining, deadline, last_start   of each thread's server           *)
(*     timer             timeout of tick_timer, 0 when it is not queued    *)
(* and every function of the file is an operator from runqueue to runqueue *)
(* that reads the framework state (status, curr, be_blocking) and `now`.   *)
(***************************************************************************)
EXTENDS Schedule, Lists

CONSTANTS
    Period,  \* RTDS_DEFAULT_PERIOD_US, in ticks of the model's clock
    Budget   \* RTDS_DEFAULT_BUDGET_US

ASSUME ServerAssumption ==
    /\ Period \in Nat /\ Budget \in Nat
    /\ 0 < Budget /\ Budget <= Period

VARIABLES
    now,  \* cpu_ticks()
    rq    \* sched_rtds_control and the sched_rtds_data of every thread

EmptyRq == [ready |-> <<>>, depleted |-> <<>>,
            remaining |-> [t \in Thread |-> 0],
            deadline |-> [t \in Thread |-> 0],
            last_start |-> [t \in Thread |-> 0],
            timer |-> 0]

\* rtds_next_period_boundary: all servers share one grid of periods.
NextPeriodBoundary == (now \div Period + 1) * Period

RtdsInitData(r, t) ==
    [r EXCEPT !.remaining[t] = Budget,
              !.deadline[t] = NextPeriodBoundary,
              !.last_start[t] = 0]

\* rtds_is_active.
Active(t) == (t = curr /\ t \notin be_blocking) \/ status[t] = "RUNNABLE"

QueueRemove(r, t) ==
    [r EXCEPT !.ready = Unlink(@, t), !.depleted = Unlink(@, t)]

\* rtds_ready_insert: before the first server with a later deadline.
ReadyInsert(r, t) ==
    LET q == Unlink(r.ready, t)
        later == {i \in DOMAIN q : r.deadline[t] < r.deadline[q[i]]}
    IN  [r EXCEPT !.ready = InsertBefore(q, later, t), !.depleted = Unlink(@, t)]

DepletedInsert(r, t) ==
    IF t \in Range(r.depleted) THEN r
    ELSE [r EXCEPT !.ready = Unlink(@, t), !.depleted = Append(@, t)]

\* rtds_account_runtime: charge the running server up to now.
AccountRuntime(r, t) ==
    IF status[t] # "RUNNING" \/ r.last_start[t] = 0 \/ now <= r.last_start[t]
    THEN r
    ELSE [r EXCEPT !.last_start[t] = now,
                   !.remaining[t] = Max({0, @ - (now - r.last_start[t])})]

\* rtds_advance_period: roll over every missed period, refill the budget.
AdvancePeriod(r, t) ==
    IF now < r.deadline[t] THEN r
    ELSE [r EXCEPT !.deadline[t] = @ + ((now - @) \div Period + 1) * Period,
                   !.remaining[t] = Budget]

\* Mutant: an active server is ready whatever its budget.
RefreshIgnoresBudget(r, t) ==
    LET r1 == AdvancePeriod(r, t)
    IN  IF Active(t) THEN ReadyInsert(r1, t) ELSE r1

RefreshThread(r, t) ==
    LET r1 == AdvancePeriod(r, t)
    IN  IF ~Active(t) THEN r1
        ELSE IF r1.remaining[t] > 0 THEN ReadyInsert(r1, t)
        ELSE IF t \notin be_blocking THEN DepletedInsert(r1, t) ELSE r1

\* rtds_refresh_queues: roll the periods of ready, then of depleted servers.
RollReady(r, t) ==
    IF now < r.deadline[t] THEN r
    ELSE RefreshThread(QueueRemove(AdvancePeriod(r, t), t), t)

RefreshReady(r) ==
    LET pass[k \in 0 .. Len(r.ready)] ==
            IF k = 0 THEN r ELSE RollReady(pass[k - 1], r.ready[k])
    IN  pass[Len(r.ready)]

RefreshDepleted(r) ==
    LET pass[k \in 0 .. Len(r.depleted)] ==
            IF k = 0 THEN r ELSE RefreshThread(pass[k - 1], r.depleted[k])
    IN  pass[Len(r.depleted)]

RefreshQueues(r) == RefreshDepleted(RefreshReady(r))

\* The runqueue after the current server is charged and all periods rolled:
\* the common part of rtds_timer_handler and sched_rtds_pick_next.
ChargeAndRefresh(r) ==
    RefreshQueues(IF curr \in Thread
                  THEN RefreshThread(AccountRuntime(r, curr), curr) ELSE r)

Replenishments(r) == {r.deadline[t] : t \in Range(r.depleted)}

\* Mutant: the running server's own budget and deadline are not armed.
TimerReplenishOnly(r, running) ==
    [r EXCEPT !.timer = IF Replenishments(r) = {} THEN 0
                        ELSE Min(Replenishments(r))]

\* Mutant: the running server is stopped at its deadline only.
TimerNoBudgetStop(r, running) ==
    LET due == Replenishments(r) \cup
               {Max({now, r.deadline[t]}) : t \in Thread \cap {running}}
    IN  [r EXCEPT !.timer = IF due = {} THEN 0 ELSE Min(due)]

\* rtds_program_local_timer, with `running` the thread about to run.
ProgramTimer(r, running) ==
    LET left == r.remaining[running]
        stop == (IF r.last_start[running] # 0 THEN r.last_start[running] ELSE now)
                + left
        own == IF running \notin Thread THEN {}
               ELSE IF left > 0
               THEN {Max({now, Min({stop, r.deadline[running]})})}
               ELSE {Max({now, r.deadline[running]})}
        due == own \cup Replenishments(r)
    IN  [r EXCEPT !.timer = IF due = {} THEN 0 ELSE Min(due)]

\* rtds_program_timer: only the owning pCPU may touch its timer.
ProgramTimerFrom(r, running, from) ==
    IF from = "local" THEN ProgramTimer(r, running) ELSE r

\* rtds_pick_depleted_slack: the depleted server that is replenished first.
DepletedSlack(r) ==
    r.depleted[CHOOSE i \in DOMAIN r.depleted :
      \A j \in DOMAIN r.depleted :
        LET di == r.deadline[r.depleted[i]]
            dj == r.deadline[r.depleted[j]]
        IN  di < dj \/ (di = dj /\ i <= j)]

\* Mutant: slack is handed out before reservations.
ChoiceSlackFirst(r) ==
    IF r.depleted # <<>> THEN DepletedSlack(r)
    ELSE IF r.ready # <<>> THEN Head(r.ready) ELSE Idle

\* Mutant: depleted servers get no slack.
ChoiceNoSlack(r) == IF r.ready # <<>> THEN Head(r.ready) ELSE Idle

\* sched_rtds_pick_next's choice: the head of ready, else the depleted server
\* that is replenished first, else the idle thread.
Choice(r) ==
    IF r.ready # <<>> THEN Head(r.ready)
    ELSE IF r.depleted # <<>> THEN DepletedSlack(r)
    ELSE Idle

\* sched_rtds_pick_next, after Choice: dequeue, start charging, arm the timer.
Start(r, t) ==
    ProgramTimer(IF t = Idle THEN r
                 ELSE [QueueRemove(r, t) EXCEPT !.last_start[t] = now], t)

\* Mutant: only the current thread is taken off its queue.
SleepStaysQueued(r, t, from) ==
    LET r1 == IF t = curr THEN QueueRemove(AccountRuntime(r, t), t) ELSE r
        r2 == [r1 EXCEPT !.last_start[t] = 0]
    IN  ProgramTimerFrom(r2, IF t = curr THEN None ELSE curr, from)

RtdsSleep(r, t, from) ==
    LET r1 == IF t = curr THEN AccountRuntime(r, t) ELSE r
        r2 == [QueueRemove(r1, t) EXCEPT !.last_start[t] = 0]
    IN  ProgramTimerFrom(r2, IF t = curr THEN None ELSE curr, from)

RtdsWake(r, t, from) ==
    LET r1 == [AdvancePeriod(r, t) EXCEPT !.last_start[t] = 0]
        r2 == IF r1.remaining[t] > 0 THEN ReadyInsert(r1, t)
              ELSE DepletedInsert(r1, t)
    IN  ProgramTimerFrom(r2, curr, from)

Prioritize(r, t) ==
    LET r1 == AdvancePeriod(r, t)
    IN  IF t # curr /\ r1.remaining[t] > 0 THEN ReadyInsert(r1, t) ELSE r1

\* The loop of schedule() over the threads with a priority request, in `order'.
PrioritizeAll(r, order) ==
    LET pass[k \in 0 .. Len(order)] ==
            IF k = 0 THEN r ELSE Prioritize(pass[k - 1], order[k])
    IN  pass[Len(order)]

=============================================================================
