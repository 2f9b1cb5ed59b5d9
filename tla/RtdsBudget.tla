----------------------------- MODULE RtdsBudget -----------------------------
(***************************************************************************)
(* The reservations of RTDS: RtdsCpu with variables that only observe.  In *)
(* a prompt behaviour the hypervisor takes no time; in the others time     *)
(* passes at any point.                                                    *)
(***************************************************************************)
EXTENDS RtdsCpu

CONSTANT LateTime   \* bound of the clock when time passes at any point

ASSUME LateAssumption == LateTime \in Nat

VARIABLES
    prompt,  \* whether the behaviour is prompt
    ran,     \* ticks each thread executed in the current period
    steady   \* threads awake since the current period began

bvars == <<rvars, prompt, ran, steady>>

\* Nothing is left to do before the next interrupt: a thread runs or the pCPU
\* waits, no reschedule is outstanding and no timer is due.
Quiet ==
    /\ pc \in {"guest", "host", "idle_wfi"}
    /\ NEED_RESCHEDULE \notin flags
    /\ irq = {}
    /\ rq.timer = 0 \/ now < rq.timer

PeriodEnds == (now + 1) % Period = 0

BudgetInit ==
    /\ RtdsInit
    /\ prompt \in BOOLEAN
    /\ ran = [t \in Thread |-> 0]
    /\ steady = {}

BudgetOperation ==
    /\ Operation
    /\ steady' = steady \cap Awake'
    /\ UNCHANGED <<prompt, ran>>

BudgetTick ==
    /\ prompt /\ Quiet
    /\ Tick
    /\ ran' = [t \in Thread |-> IF PeriodEnds THEN 0
                                ELSE IF t = curr THEN ran[t] + 1 ELSE ran[t]]
    /\ steady' = IF PeriodEnds THEN Awake ELSE steady
    /\ UNCHANGED prompt

LateTick ==
    /\ ~prompt /\ now < LateTime
    /\ Tick
    /\ UNCHANGED <<prompt, ran, steady>>

\* Priority requests break reservations (BudgetChargedInPeriod), so the prompt
\* behaviours have none.
CalmOperation == BudgetOperation /\ (prompt => priority_pending' = {})

BudgetSpec == BudgetInit /\ [][CalmOperation \/ BudgetTick \/ LateTick]_bvars

PromptInit == BudgetInit /\ prompt = TRUE

PromptSpec == PromptInit /\ [][BudgetOperation \/ BudgetTick]_bvars

-----------------------------------------------------------------------------

\* A thread awake for a whole period receives its budget in it, as long as the
\* servers fit the pCPU: what the timer, the queues and EDF order are for.
FullBudget ==
    [][(now' # now /\ PeriodEnds) =>
         \A t \in steady : ran[t] + (IF t = curr THEN 1 ELSE 0) >= Budget]_bvars

\* "That execution consumes otherwise idle CPU time and does not reduce the next
\* period's configured budget": what is missing from a server's budget was
\* executed in the same period.
BudgetChargedInPeriod ==
    \A t \in Thread :
        rq.deadline[t] > now => Budget - rq.remaining[t] <= ran[t]

=============================================================================
