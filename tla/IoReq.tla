------------------------------- MODULE IoReq --------------------------------
(***************************************************************************)
(* vCPUs that wait: for the device model to answer an I/O request          *)
(* (sdk/dm/io_req.c), and for an interrupt after HLT.  The vCPUs share one *)
(* pCPU and run the loop of arch/x86/guest/vcpu.c; the device model, the   *)
(* injector of interrupts and zombie_vcpu act from other pCPUs.            *)
(***************************************************************************)
EXTENDS Event

CONSTANTS
    Polling,   \* the vCPUs of VMs with is_polling_ioreq
    Injected   \* the vCPUs that interrupts are injected into

ASSUME IoReqAssumption ==
    /\ Polling \subseteq Thread /\ Injected \subseteq Thread
    /\ Idle \notin Thread /\ None \notin Thread \cup {Idle}
    /\ Kind = {"ioreq", "vint"}

VARIABLES
    vstate,     \* vcpu->state
    processed,  \* acrn_io_request.processed of each vCPU's slot
    pending,    \* vCPUs with pending_req # 0
    remote,     \* calls from other pCPUs that are still to be made
    stopped     \* vCPUs for which sleep_thread_sync has returned

iovars == <<vstate, processed, pending, remote, stopped>>

ivars == <<awake, owner, evars, pc, iovars>>

\* The device model's notify_ioreq_finish, and the injector's signal_event.
Notify(v) == <<"notify", v>>

Signal(v) == <<"signal", v>>

IoInit ==
    /\ Init
    /\ InitEvent
    /\ pc = [v \in Thread |-> "top"]
    /\ vstate = [v \in Thread |-> "INIT"]
    /\ processed = [v \in Thread |-> "FREE"]
    /\ pending = {}
    /\ remote = {}
    /\ stopped = {}

-----------------------------------------------------------------------------
\* core/vcpu.c, called on another pCPU.

LaunchVcpu(v) ==
    /\ vstate[v] = "INIT"
    /\ vstate' = [vstate EXCEPT ![v] = "RUNNING"]
    /\ Wake(v)
    /\ UNCHANGED <<evars, pc, processed, pending, remote, stopped>>

ZombieVcpu(v) ==
    /\ vstate[v] \in {"RUNNING", "INIT"}
    /\ vstate' = [vstate EXCEPT ![v] = "ZOMBIE"]
    /\ IF vstate[v] = "RUNNING" THEN Sleep(v) ELSE UNCHANGED <<awake, owner>>
    /\ UNCHANGED <<evars, pc, processed, pending, remote, stopped>>

\* sleep_thread_sync sees that the thread does not run.
SleepSyncDone(v) ==
    /\ vstate[v] = "ZOMBIE" /\ owner # v
    /\ stopped' = stopped \cup {v}
    /\ UNCHANGED <<awake, owner, evars, pc, vstate, processed, pending, remote>>

-----------------------------------------------------------------------------
\* The pCPU.

Boot == Start /\ UNCHANGED <<evars, pc, iovars>>

IdleSchedule ==
    /\ owner = Idle /\ awake # {}
    /\ Dispatch
    /\ UNCHANGED <<evars, pc, iovars>>

\* The top of the vCPU loop: schedule() if it was requested.
TopSchedule(v) ==
    /\ owner = v /\ pc[v] = "top"
    /\ Dispatch
    /\ Goto(v, "pending")
    /\ UNCHANGED <<evars, iovars>>

Step(v, from, to) ==
    /\ owner = v /\ pc[v] = from
    /\ Goto(v, to)
    /\ UNCHANGED <<awake, owner>>

\* No reschedule is requested, so the thread is not going to sleep
\* (RescheduleRequested of Schedule).
TopContinue(v) ==
    /\ v \in awake
    /\ Step(v, "top", "pending")
    /\ UNCHANGED <<evars, iovars>>

\* acrn_handle_pending_request; of its requests, those that make the vCPU wait
\* for another (WBINVD, split lock) or stop it are left out.
HandlePending(v) ==
    /\ Step(v, "pending", "reset")
    /\ pending' = pending \ {v}
    /\ UNCHANGED <<evars, vstate, processed, remote, stopped>>

ResetVint(v) ==
    /\ Step(v, "reset", "guest")
    /\ ResetEvent(<<v, "vint">>)
    /\ UNCHANGED iovars

\* A VM exit that is handled at once.
Exit(v) == Step(v, "guest", "top") /\ UNCHANGED <<evars, iovars>>

\* Mutant: HLT always waits.
HltAlwaysWaits(v) == Step(v, "guest", "vint") /\ UNCHANGED <<evars, iovars>>

\* hlt_vmexit_handler: wait, unless a request is pending.
HltExit(v) ==
    /\ Step(v, "guest", IF v \in pending THEN "top" ELSE "vint")
    /\ UNCHANGED <<evars, iovars>>

HltWait(v) ==
    /\ WaitEvent(v, "vint", "top") \/ WaitCheck(v, "vint", "top")
    /\ UNCHANGED iovars

\* acrn_insert_request: fill the slot and publish it, or fail if it is in use.
InsertRequest(v) ==
    /\ Step(v, "guest", CASE processed[v] # "FREE" -> "top"
                          [] v \in Polling -> "poll"
                          [] OTHER -> "ioreq")
    /\ processed' = [processed EXCEPT ![v] = IF @ = "FREE" THEN "PENDING" ELSE @]
    /\ UNCHANGED <<evars, vstate, pending, remote, stopped>>

RequestWait(v) ==
    /\ WaitEvent(v, "ioreq", "complete") \/ WaitCheck(v, "ioreq", "complete")
    /\ UNCHANGED iovars

\* The polling loop: another thread may run between two tests.
Poll(v) ==
    /\ owner = v /\ pc[v] = "poll"
    /\ IF processed[v] = "COMPLETE"
       THEN Goto(v, "complete") /\ UNCHANGED <<awake, owner>>
       ELSE Dispatch /\ UNCHANGED pc
    /\ UNCHANGED <<evars, iovars>>

\* dm_emulate_io_complete: the slot is freed if the request was answered.
IoComplete(v) ==
    /\ Step(v, "complete", "top")
    /\ processed' = [processed EXCEPT ![v] = IF @ = "COMPLETE" THEN "FREE" ELSE @]
    /\ UNCHANGED <<evars, vstate, pending, remote, stopped>>

-----------------------------------------------------------------------------
\* The device model in the Service VM: it answers a request, then notifies.

DmAnswer(v) ==
    /\ processed[v] = "PENDING"
    /\ processed' = [processed EXCEPT ![v] = "COMPLETE"]
    /\ remote' = remote \cup {Notify(v)}
    /\ UNCHANGED <<awake, owner, evars, pc, vstate, pending, stopped>>

\* hcall_notify_ioreq_finish.
NotifyIoreqFinish(v) ==
    /\ Notify(v) \in remote
    /\ remote' = remote \ {Notify(v)}
    /\ IF v \in Polling THEN UNCHANGED <<awake, owner, evars>>
       ELSE SignalEvent(<<v, "ioreq">>)
    /\ UNCHANGED <<pc, vstate, processed, pending, stopped>>

\* vcpu_inject_extint and its like: record the request, then signal the event.
Inject(v) ==
    /\ v \in Injected /\ Signal(v) \notin remote
    /\ pending' = pending \cup {v}
    /\ remote' = remote \cup {Signal(v)}
    /\ UNCHANGED <<awake, owner, evars, pc, vstate, processed, stopped>>

InjectSignal(v) ==
    /\ Signal(v) \in remote
    /\ remote' = remote \ {Signal(v)}
    /\ SignalEvent(<<v, "vint">>)
    /\ UNCHANGED <<pc, vstate, processed, pending, stopped>>

-----------------------------------------------------------------------------

ThreadStep(v) ==
    \/ TopSchedule(v)
    \/ TopContinue(v)
    \/ HandlePending(v)
    \/ ResetVint(v)
    \/ Exit(v)
    \/ HltExit(v)
    \/ HltWait(v)
    \/ InsertRequest(v)
    \/ RequestWait(v)
    \/ Poll(v)
    \/ IoComplete(v)
    \/ WaitSchedule(v) /\ UNCHANGED iovars

DmStep(v) == DmAnswer(v) \/ NotifyIoreqFinish(v)

IoNext ==
    \/ Boot
    \/ IdleSchedule
    \/ \E v \in Thread :
          \/ LaunchVcpu(v)
          \/ ZombieVcpu(v)
          \/ SleepSyncDone(v)
          \/ Inject(v)
          \/ InjectSignal(v)
          \/ DmStep(v)
          \/ ThreadStep(v)

IoSpec == IoInit /\ [][IoNext]_ivars

\* schedule() gives the pCPU to v.
SwitchTo(v) ==
    /\ IdleSchedule \/ \E u \in Thread : ThreadStep(u)
    /\ owner' = v

\* The pCPU executes; an awake thread is dispatched sooner or later, whatever
\* the policy; the device model answers and notifies; injectors do not stop
\* between their two steps.
IoFairSpec ==
    /\ IoSpec
    /\ WF_ivars(Boot) /\ WF_ivars(IdleSchedule)
    /\ \A v \in Thread :
          /\ WF_ivars(ThreadStep(v)) /\ SF_ivars(SwitchTo(v))
          /\ WF_ivars(DmStep(v)) /\ WF_ivars(InjectSignal(v))

-----------------------------------------------------------------------------

\* "The wakeup is not lost when signal_event() races with schedule()": a thread
\* registered for an event that is set is awake, wherever it is in sleep_thread,
\* schedule() and the loop of wait_event, unless zombie_vcpu put it to sleep.
SignalWakes ==
    \A e \in Event :
        (e \in set /\ waiting_thread[e] # None) =>
            waiting_thread[e] \in awake \/ vstate[e[1]] = "ZOMBIE"

\* A guest continues only when its I/O request was answered and its slot is
\* free again, so that acrn_insert_request never refuses the next one: no stale
\* signal ends wait_event early.
AnswerBeforeResume ==
    \A v \in Thread :
        pc[v] \in {"top", "pending", "reset", "guest"} => processed[v] = "FREE"

\* A vCPU sleeps in HLT with an interrupt pending only while the injector is
\* about to signal it, although the loop resets the event after it has looked
\* at the pending requests.
HaltHasNoInterrupt ==
    \A v \in Thread :
        (v \in pending /\ v \notin awake /\ waiting_thread[<<v, "vint">>] = v) =>
            Signal(v) \in remote \/ vstate[v] = "ZOMBIE"

\* Every request of a vCPU that is not stopped is answered and the vCPU
\* continues, in both completion modes.
RequestCompletes ==
    \A v \in Thread :
        processed[v] = "PENDING" ~> processed[v] = "FREE" \/ vstate[v] = "ZOMBIE"

\* "If vcpu is in Zombie state and will be destroyed soon. Just mark ioreq done
\* and don't resume vcpu" (dm_emulate_io_complete): a vCPU that sleep_thread_sync
\* has stopped does not execute guest code again.
ZombieStaysStopped ==
    \A v \in stopped : ~(owner = v /\ pc[v] = "guest")

=============================================================================
