------------------------------ MODULE Schedule ------------------------------
(***************************************************************************)
(* The scheduler framework of core/schedule.c on one physical CPU, driven  *)
(* by the three loops that call it on arm64: the idle loop, the guest exit *)
(* path of a vCPU, and a cooperative helper thread.                        *)
(*                                                                         *)
(* Every operation that holds scheduler_lock from its first to its last    *)
(* effect is one action.  schedule() is two actions, because the lock-free *)
(* request_thread_priority can run between pick_next and the clearing of   *)
(* NEED_RESCHEDULE.  The scheduling policy (RTDS or BVT) appears only as   *)
(* the contract of pick_next; see PickContract.                            *)
(***************************************************************************)
CONSTANTS
    Vcpu,      \* vCPU threads pinned to this pCPU
    Helper,    \* host threads pinned to it (shell, VM watchdog)
    Injected,  \* the vCPUs that are sent requests (virtual interrupts, traps)
    Idle,      \* the idle thread of this pCPU
    None       \* NULL

Thread == Vcpu \cup Helper

Obj == Thread \cup {Idle}

ASSUME ThreadAssumption ==
    /\ Vcpu \cap Helper = {}
    /\ Injected \subseteq Vcpu
    /\ Idle \notin Thread
    /\ None \notin Obj

VARIABLES
    status,            \* thread_object.status; "unset" before init_thread_data
    be_blocking,       \* threads with be_blocking set
    priority_pending,  \* threads with priority_pending set
    thread_list,       \* the registered threads
    pending_req,       \* vCPUs with pending_req # 0
    curr,              \* sched_control.curr_obj
    flags,             \* sched_control.flags, the set of its bits
    next,              \* schedule()'s pick, None outside it
    irq,               \* interrupts pending at this pCPU
    fresh,             \* vCPUs whose saved context is still their thread_entry
    entered,           \* how the guest was last entered
    pc                 \* what the pCPU is executing

vars == <<status, be_blocking, priority_pending, thread_list, pending_req,
          curr, flags, next, irq, fresh, entered, pc>>

NEED_RESCHEDULE == "NEED_RESCHEDULE"

\* The inter-processor interrupt of arch_send_reschedule_request and kick_vcpu.
Sgi == "sgi"

Location == {"boot", "idle_check", "idle_nap", "idle_wfi", "entry", "guest",
             "trap", "exit", "exit_checked", "host", "call_schedule", "switch"}

Entry == {"checked", "first", "request", "window"}

\* schedule() holds scheduler_lock between its two actions.
LockFree == pc # "switch"

\* Hypervisor code runs on this pCPU, or an interrupt handler can.
InHypervisor ==
    pc \in {"idle_check", "idle_nap", "host", "call_schedule", "entry", "trap",
            "exit"}

Init ==
    /\ status = [t \in Obj |-> "unset"]
    /\ be_blocking = {}
    /\ priority_pending = {}
    /\ thread_list = {}
    /\ pending_req = {}
    /\ curr = None
    /\ flags = {}
    /\ next = None
    /\ irq = {}
    /\ fresh = Vcpu
    /\ entered = "checked"
    /\ pc = "boot"

\* is_runnable_or_running(t) and not t->be_blocking.
Awake == {t \in Thread : status[t] \in {"RUNNABLE", "RUNNING"}} \ be_blocking

-----------------------------------------------------------------------------

\* Mutant: no SGI is sent to the other pCPU.
MakeRequestNoSgi(from) ==
    /\ flags' = flags \cup {NEED_RESCHEDULE}
    /\ UNCHANGED irq

\* make_reschedule_request, called on this pCPU ("local") or another ("remote").
MakeRescheduleRequest(from) ==
    /\ flags' = flags \cup {NEED_RESCHEDULE}
    /\ irq' = IF from = "remote" THEN irq \cup {Sgi} ELSE irq

\* Where a caller on this pCPU can stand; another pCPU can call at any time.
CallerAt(from) == from = "local" => InHypervisor

InitThreadData(t) ==
    /\ LockFree
    /\ status[t] = "unset"
    /\ status' = [status EXCEPT ![t] = "BLOCKED"]
    /\ priority_pending' = priority_pending \ {t}
    /\ thread_list' = thread_list \cup {t}
    /\ UNCHANGED <<be_blocking, pending_req, curr, flags, next, irq, fresh,
                   entered, pc>>

\* run_idle_thread: register the idle thread and enter its loop.
RunIdleThread ==
    /\ pc = "boot"
    /\ status' = [status EXCEPT ![Idle] = "RUNNING"]
    /\ priority_pending' = priority_pending \ {Idle}
    /\ thread_list' = thread_list \cup {Idle}
    /\ curr' = Idle
    /\ pc' = "idle_check"
    /\ UNCHANGED <<be_blocking, pending_req, flags, next, irq, fresh, entered>>

\* Mutant: a running thread is marked, but no reschedule is requested.
SleepNoRequest(t, from) ==
    /\ LockFree
    /\ from = "local" => pc = "trap"
    /\ status[t] # "unset"
    /\ IF status[t] = "RUNNING"
       THEN be_blocking' = be_blocking \cup {t} /\ UNCHANGED status
       ELSE status' = [status EXCEPT ![t] = "BLOCKED"] /\ UNCHANGED be_blocking
    /\ UNCHANGED <<priority_pending, thread_list, pending_req, curr, flags,
                   next, irq, fresh, entered, pc>>

\* sleep_thread of a vCPU by zombie_vcpu, on this pCPU from the handler of a
\* PSCI call, a hypercall or a failed exit.
SleepThread(t, from) ==
    /\ LockFree
    /\ from = "local" => pc = "trap"
    /\ status[t] # "unset"
    /\ IF status[t] = "RUNNING"
       THEN /\ MakeRescheduleRequest(from)
            /\ be_blocking' = be_blocking \cup {t}
            /\ UNCHANGED status
       ELSE /\ status' = [status EXCEPT ![t] = "BLOCKED"]
            /\ UNCHANGED <<flags, irq, be_blocking>>
    /\ UNCHANGED <<priority_pending, thread_list, pending_req, curr, next,
                   fresh, entered, pc>>

\* Mutant: the woken thread is queued, but no reschedule is requested.
WakeNoRequest(t, from) ==
    /\ LockFree
    /\ CallerAt(from)
    /\ status[t] = "BLOCKED" \/ t \in be_blocking
    /\ status' = [status EXCEPT ![t] = IF @ = "BLOCKED" THEN "RUNNABLE" ELSE @]
    /\ be_blocking' = be_blocking \ {t}
    /\ UNCHANGED <<priority_pending, thread_list, pending_req, curr, flags,
                   next, irq, fresh, entered, pc>>

\* wake_thread: a thread on its way to sleep is kept, a blocked one made runnable.
WakeThread(t, from) ==
    /\ LockFree
    /\ CallerAt(from)
    /\ status[t] = "BLOCKED" \/ t \in be_blocking
    /\ IF status[t] = "BLOCKED"
       THEN /\ status' = [status EXCEPT ![t] = "RUNNABLE"]
            /\ MakeRescheduleRequest(from)
       ELSE UNCHANGED <<status, flags, irq>>
    /\ be_blocking' = be_blocking \ {t}
    /\ UNCHANGED <<priority_pending, thread_list, pending_req, curr, next,
                   fresh, entered, pc>>

\* vcpu_make_request: takes no scheduler lock, so it also runs inside schedule().
VcpuMakeRequest(v, from) ==
    /\ CallerAt(from)
    /\ status[v] # "unset"
    /\ pending_req' = pending_req \cup {v}
    /\ priority_pending' = priority_pending \cup {v}
    /\ MakeRescheduleRequest(from)
    /\ UNCHANGED <<status, be_blocking, thread_list, curr, next, fresh, entered,
                   pc>>

\* The policy's timer handler, run from the timer softirq of this pCPU; a
\* synchronous exit runs no softirq.
TimerTick ==
    /\ InHypervisor
    /\ pc # "trap"
    /\ curr # None
    /\ MakeRescheduleRequest("local")
    /\ UNCHANGED <<status, be_blocking, priority_pending, thread_list,
                   pending_req, curr, next, fresh, entered, pc>>

-----------------------------------------------------------------------------

\* What schedule() requires of pick_next: an awake thread, or the idle thread
\* when there is none.
PickContract(t) == t \in Awake \/ (t = Idle /\ Awake = {})

\* schedule() is called with interrupts masked or from a thread's own loop.
MayCallSchedule ==
    \/ pc = "idle_check" /\ NEED_RESCHEDULE \in flags
    \/ /\ pc = "exit_checked"
       /\ NEED_RESCHEDULE \in flags
       /\ curr \notin pending_req
    \/ pc = "call_schedule"

\* schedule(), first half: take the lock, consume priority requests, pick.
SchedulePick(t) ==
    /\ MayCallSchedule
    /\ priority_pending' = priority_pending \ thread_list
    /\ next' = t
    /\ pc' = "switch"
    /\ UNCHANGED <<status, be_blocking, thread_list, pending_req, curr, flags,
                   irq, fresh, entered>>

\* Where the saved context of t continues.
ResumePoint(t) ==
    IF t = Idle THEN "idle_check"
    ELSE IF t \in Helper THEN "host"
    ELSE IF t \in fresh THEN "entry" ELSE "guest"

\* Mutant: the previous thread keeps its status.
StatusPrevKept(t) == IF t = next THEN "RUNNING" ELSE status[t]

\* Mutant: be_blocking is not looked at, a sleeper stays runnable.
StatusIgnoresBlocking(t) ==
    IF t = next THEN "RUNNING"
    ELSE IF t # curr THEN status[t] ELSE "RUNNABLE"

\* The status of t after a switch from curr to next.
SwitchStatus(t) ==
    IF t = next THEN "RUNNING"
    ELSE IF t # curr THEN status[t]
    ELSE IF t \in be_blocking THEN "BLOCKED" ELSE "RUNNABLE"

\* schedule(), second half: clear the flag, switch if the pick differs, unlock.
ScheduleSwitch ==
    /\ pc = "switch"
    /\ flags' = flags \ {NEED_RESCHEDULE}
    /\ IF next # curr
       THEN /\ status' = [t \in Obj |-> SwitchStatus(t)]
            /\ be_blocking' = be_blocking \ {curr}
            /\ curr' = next
       ELSE UNCHANGED <<status, be_blocking, curr>>
    /\ pc' = ResumePoint(next)
    /\ IF pc' = "guest"
       THEN /\ entered' = "checked"
            /\ pending_req' = pending_req \ {next}
       ELSE UNCHANGED <<entered, pending_req>>
    /\ next' = None
    /\ UNCHANGED <<priority_pending, thread_list, irq, fresh>>

-----------------------------------------------------------------------------
\* The idle loop, default_idle.

Move(from, to) ==
    /\ pc = from
    /\ pc' = to
    /\ UNCHANGED <<status, be_blocking, priority_pending, thread_list,
                   pending_req, curr, flags, next, fresh>>

\* The flag is clear, so the loop is about to execute WFI.
IdleTest ==
    /\ NEED_RESCHEDULE \notin flags
    /\ Move("idle_check", "idle_nap")
    /\ UNCHANGED <<irq, entered>>

\* WFI falls through while an interrupt is pending.
IdleWfi ==
    /\ Move("idle_nap", IF irq = {} THEN "idle_wfi" ELSE "idle_check")
    /\ UNCHANGED <<irq, entered>>

\* Any interrupt ends WFI; its handler runs before the loop tests the flag.
IdleWakeup ==
    /\ Move("idle_wfi", "idle_check")
    /\ irq' = {}
    /\ UNCHANGED entered

\* Interrupts are enabled in host threads: the handler of the reschedule SGI
\* does nothing but acknowledge it.
TakeIrq ==
    /\ pc \in {"idle_check", "idle_nap", "host", "call_schedule", "entry"}
    /\ irq # {}
    /\ irq' = {}
    /\ UNCHANGED <<status, be_blocking, priority_pending, thread_list,
                   pending_req, curr, flags, next, fresh, entered, pc>>

-----------------------------------------------------------------------------
\* A vCPU thread: arch_vcpu_thread, dispatch_vcpu_irq, dispatch_vcpu_trap.

\* First guest entry: the flag is not tested between thread_entry and ERET.
FirstEntry ==
    /\ pc = "entry"
    /\ pc' = "guest"
    /\ fresh' = fresh \ {curr}
    /\ entered' = "first"
    /\ pending_req' = pending_req \ {curr}
    /\ UNCHANGED <<status, be_blocking, priority_pending, thread_list, curr,
                   flags, next, irq>>

\* dispatch_vcpu_irq: a physical interrupt takes the guest out.
GuestIrq ==
    /\ Move("guest", "exit")
    /\ irq' = {}
    /\ UNCHANGED entered

\* dispatch_vcpu_trap: interrupts stay masked and pending.
GuestTrap ==
    /\ Move("guest", "trap")
    /\ UNCHANGED <<irq, entered>>

\* handle_wfx, where WFI is trapped: the vCPU yields.
GuestYield ==
    /\ pc = "trap"
    /\ MakeRescheduleRequest("local")
    /\ UNCHANGED <<status, be_blocking, priority_pending, thread_list,
                   pending_req, curr, next, fresh, entered, pc>>

\* Mutant: only the current thread is looked at.
ClearIfCurrentRunnable ==
    /\ pc \in {"trap", "exit"}
    /\ pc' = "exit_checked"
    /\ flags' = IF curr \notin pending_req /\ curr \in Awake
                THEN flags \ {NEED_RESCHEDULE} ELSE flags
    /\ UNCHANGED <<status, be_blocking, priority_pending, thread_list,
                   pending_req, curr, next, irq, fresh, entered>>

\* sched_clear_reschedule_if_current_only, as schedule_without_guest_resume
\* calls it: the flag is dropped when no other thread could run.
ClearIfCurrentOnly ==
    /\ pc \in {"trap", "exit"}
    /\ pc' = "exit_checked"
    /\ flags' = IF curr \notin pending_req /\ Awake \cap thread_list = {curr}
                THEN flags \ {NEED_RESCHEDULE} ELSE flags
    /\ UNCHANGED <<status, be_blocking, priority_pending, thread_list,
                   pending_req, curr, next, irq, fresh, entered>>

\* Return to EL1 without schedule(): nothing asked for it, a vCPU request is
\* pending, or a deliverable virtual interrupt blocks it ("window").
GuestResume(why) ==
    /\ pc = "exit_checked"
    /\ \/ why = "checked" /\ NEED_RESCHEDULE \notin flags
       \/ /\ why = "request"
          /\ NEED_RESCHEDULE \in flags
          /\ curr \in pending_req
       \/ /\ why = "window"
          /\ NEED_RESCHEDULE \in flags
          /\ curr \notin pending_req
    /\ pc' = "guest"
    /\ entered' = why
    /\ pending_req' = pending_req \ {curr}
    /\ UNCHANGED <<status, be_blocking, priority_pending, thread_list, curr,
                   flags, next, irq, fresh>>

-----------------------------------------------------------------------------
\* A helper thread gives the pCPU up only by itself: shell_thread_main yields,
\* vm_wdt_sleep_period sleeps; both then call schedule().

HelperYield ==
    /\ pc = "host"
    /\ pc' = "call_schedule"
    /\ MakeRescheduleRequest("local")
    /\ UNCHANGED <<status, be_blocking, priority_pending, thread_list,
                   pending_req, curr, next, fresh, entered>>

\* Mutant: the sleeper is the object schedule() picked last, not the current.
HelperSleepStale ==
    /\ pc = "host"
    /\ pc' = "call_schedule"
    /\ MakeRescheduleRequest("local")
    /\ be_blocking' = be_blocking \cup {next}
    /\ UNCHANGED <<status, priority_pending, thread_list, pending_req, curr,
                   next, fresh, entered>>

HelperSleep ==
    /\ pc = "host"
    /\ pc' = "call_schedule"
    /\ MakeRescheduleRequest("local")
    /\ be_blocking' = be_blocking \cup {curr}
    /\ UNCHANGED <<status, priority_pending, thread_list, pending_req, curr,
                   next, fresh, entered>>

-----------------------------------------------------------------------------

Caller == {"local", "remote"}

\* The calls other code makes into the scheduler.
Calls ==
    \/ \E t \in Thread : InitThreadData(t)
    \/ \E v \in Vcpu, from \in Caller : SleepThread(v, from)
    \/ \E t \in Thread, from \in Caller : WakeThread(t, from)
    \/ \E v \in Injected, from \in Caller : VcpuMakeRequest(v, from)

\* The steps of this pCPU that call no hook of the policy.
Steps ==
    \/ RunIdleThread
    \/ ScheduleSwitch
    \/ IdleTest
    \/ IdleWfi
    \/ IdleWakeup
    \/ TakeIrq
    \/ FirstEntry
    \/ GuestIrq
    \/ GuestTrap
    \/ GuestYield
    \/ ClearIfCurrentOnly
    \/ \E why \in Entry : GuestResume(why)
    \/ HelperYield

Next ==
    \/ Calls
    \/ Steps
    \/ HelperSleep
    \/ TimerTick
    \/ \E t \in Obj : PickContract(t) /\ SchedulePick(t)

Spec == Init /\ [][Next]_vars

Pick == \E t \in Obj : PickContract(t) /\ SchedulePick(t)

\* The pCPU keeps executing: code that is running reaches its next step, and a
\* guest leaves EL1 sooner or later (HCR_EL2 routes every physical interrupt to
\* EL2; that a guest always exits again is an assumption about guests).
Progress ==
    /\ WF_vars(RunIdleThread)
    /\ WF_vars(Pick)
    /\ WF_vars(ScheduleSwitch)
    /\ WF_vars(FirstEntry)
    /\ WF_vars(GuestIrq \/ GuestTrap)
    /\ WF_vars(ClearIfCurrentOnly)
    /\ WF_vars(Pick \/ \E why \in Entry : GuestResume(why))
    /\ WF_vars(HelperYield \/ HelperSleep)

\* The code itself does not limit how often a guest-interrupt window recurs;
\* with guests that handle their interrupts it does not recur for ever.
FairSpec == Spec /\ Progress /\ SF_vars(Pick)

-----------------------------------------------------------------------------

\* Every variable has its type; the flag word holds one bit, the SGI is the one
\* interrupt that the framework itself raises.
TypeOK ==
    /\ status \in [Obj -> {"unset", "BLOCKED", "RUNNABLE", "RUNNING"}]
    /\ be_blocking \subseteq Thread
    /\ priority_pending \subseteq Thread
    /\ thread_list \subseteq Obj
    /\ pending_req \subseteq Vcpu
    /\ curr \in Obj \cup {None}
    /\ flags \subseteq {NEED_RESCHEDULE}
    /\ next \in Obj \cup {None}
    /\ irq \subseteq {Sgi}
    /\ fresh \subseteq Vcpu
    /\ entered \in Entry
    /\ pc \in Location

\* One thread owns the pCPU: exactly curr_obj has status RUNNING, whatever
\* sleeps, wakes and switches raced (schedule(), sleep_thread, wake_thread).
OneOwner == \A t \in Obj : status[t] = "RUNNING" <=> t = curr

\* No lost reschedule: whenever the pCPU is owned by a thread that is going to
\* sleep, or idles although a thread is awake, NEED_RESCHEDULE is set.  This is
\* the handshake between be_blocking, wake_thread and schedule().
RescheduleRequested ==
    (curr \notin Awake /\ (curr \in Thread \/ Awake # {})) =>
        NEED_RESCHEDULE \in flags

\* A guest runs with a reschedule outstanding and no interrupt on its way to
\* fetch it back only if it was entered past the flag: on its first entry, with
\* a vCPU request to deliver, or inside a guest-interrupt window.
GuestIsFetchedBack ==
    (pc = "guest" /\ NEED_RESCHEDULE \in flags /\ entered = "checked") =>
        irq # {}

\* sched_clear_reschedule_if_current_only drops a request only when it would
\* have no effect: no other thread is awake ("shared pCPU fairness is
\* preserved because the helper fails as soon as any other runnable object
\* exists").
ClearPreservesFairness ==
    [][(pc # "switch" /\ flags # {} /\ flags' = {}) => Awake = {curr}]_vars

Owner == INSTANCE ThreadOwner WITH awake <- Awake, owner <- curr

\* The framework implements the promise of ThreadOwner: through be_blocking,
\* status, curr_obj and the two halves of schedule(), no sleeping thread is
\* dispatched, no thread falls asleep or wakes as a side effect of a switch, and
\* the idle thread runs only when every thread sleeps.
ImplementsOwner == Owner!Spec

\* sleep_thread_sync returns: a thread asked to sleep stops, or is woken again,
\* once no new request is made for it (zombie_vcpu spins on this from another
\* pCPU).
Settles == <>[](be_blocking \cap pending_req = {})

SleepCompletes ==
    Settles => \A t \in Thread : t \in be_blocking ~> t \notin be_blocking

\* "the idle thread will always check need_reschedule() after it is switched to
\* at schedule()", so no wakeup is lost (core/event.c): a pCPU waits in WFI with a
\* thread awake only if the interrupt that ends WFI is pending.
IdleWakeupNotLost ==
    (pc = "idle_wfi" /\ Awake # {}) => irq # {}

=============================================================================
