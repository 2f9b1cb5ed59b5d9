------------------------------ MODULE VcpuRun -------------------------------
(***************************************************************************)
(* One vCPU of an ARM64 guest on a pCPU it shares with other threads: the  *)
(* exit path of arch/arm64/guest/vcpu_exit.c, the requests and the context *)
(* switch of arch/arm64/guest/vcpu.c, launch, zombie and reset of          *)
(* core/vcpu.c, over the interrupt controller of module VGic.              *)
(*                                                                         *)
(* A sender on another pCPU sends SGIs, drives device lines, and starts    *)
(* and stops the vCPU.  The guest acknowledges and ends interrupts and     *)
(* programs CNTV without an exit.  The scheduler is a choice: module       *)
(* Schedule has its details.                                               *)
(***************************************************************************)
EXTENDS VGic

CONSTANTS
    MaxDelay,    \* bound: ticks to a CNTV deadline
    Written,     \* interrupts the guest enables and disables
    Scenes       \* what the environment does, one set of names per behaviour

VARIABLES
    scene,       \* a member of Scenes
    vgic,        \* vcpu->arch.vgic, the descriptors, gctx and the live registers
    line,        \* the lines the devices hold high
    pc,          \* where the pCPU is
    sender,      \* where the sender is
    request,     \* vcpu->pending_req # 0
    need,        \* NEED_RESCHEDULE of the pCPU
    kick,        \* an IPI is pending at the pCPU
    vstate,      \* vcpu->state
    blocking,    \* thread_obj.be_blocking
    blocked,     \* thread_obj.status = THREAD_STS_BLOCKED
    owed,        \* observer: SGIs sent and not yet acknowledged
    boot         \* observer: "fresh" from the reset of the context to the next entry

vars == <<vgic, line, pc, sender, request, need, kick, vstate, blocking, blocked,
          owed, boot>>

thread == <<vstate, blocking, blocked>>
signals == <<request, need, kick>>

Environment == {"sgi", "self", "line", "lower", "timer", "switch", "life", "mmio", "vanish"}

ASSUME VcpuRunAssumption ==
    /\ MaxDelay \in Nat \ {0}
    /\ Written \subseteq Irq
    /\ Scenes \subseteq SUBSET Environment

\* get_running_vcpu(pcpu_id) == vcpu: curr_obj changes after switch_in.
Current == pc \notin {"out", "loading"}

\* The live registers are those of the vCPU.
Loaded == pc \notin {"out", "saved"}

Init ==
    /\ scene \in Scenes
    /\ vgic = [pending |-> {}, active |-> {}, enabled |-> Irq, lr |-> <<>>,
               hw |-> NoLrs, uie |-> FALSE, ap |-> None,
               cntv |-> Off, backup |-> Off,
               masked |-> FALSE, prio |-> FALSE]
    /\ line = {} /\ pc = "guest" /\ sender = "idle"
    /\ request = FALSE /\ need = FALSE /\ kick = FALSE
    /\ vstate = "RUNNING" /\ blocking = FALSE /\ blocked = FALSE
    /\ owed = [v \in Sgi |-> "no"] /\ boot = "no"

-----------------------------------------------------------------------------
\* The guest and the hardware (external).

GuestAck(v) ==
    /\ pc = "guest" /\ vgic.ap = None
    /\ \E i \in 1..NLR :
         /\ vgic.hw[i].virq = v /\ vgic.hw[i].pending /\ ~vgic.hw[i].active
         /\ vgic' = [vgic EXCEPT !.hw[i].pending = FALSE, !.hw[i].active = TRUE, !.ap = v]
    /\ owed' = [w \in Sgi |-> IF w = v THEN "no" ELSE owed[w]]
    /\ UNCHANGED <<line, pc, sender, signals, thread, boot>>

\* An EOI that finds no active LR only drops the priority.
GuestEoi ==
    /\ pc = "guest" /\ vgic.ap # None
    /\ LET own == {i \in 1..NLR : vgic.hw[i].active /\ vgic.hw[i].virq = vgic.ap}
       IN \/ \E i \in own : vgic' = [vgic EXCEPT !.hw[i].active = FALSE, !.ap = None]
          \/ own = {} /\ vgic' = [vgic EXCEPT !.ap = None]
    /\ UNCHANGED <<line, pc, sender, signals, thread, owed, boot>>

GuestProgram ==
    /\ "timer" \in scene /\ pc = "guest"
    /\ \E d \in {Off} \cup 1..MaxDelay : vgic' = [vgic EXCEPT !.cntv = d]
    /\ UNCHANGED <<line, pc, sender, signals, thread, owed, boot>>

\* The last valid LR is gone without an EOI.
LrVanish ==
    /\ "vanish" \in scene /\ pc = "guest"
    /\ \E i \in 1..NLR :
         /\ vgic.hw[i].pending /\ ~vgic.hw[i].active /\ vgic.hw[i].virq \in Sgi
         /\ \A j \in i+1..NLR : ~Valid(vgic.hw[j])
         /\ vgic' = [vgic EXCEPT !.hw[i] = EmptyLr]
    /\ UNCHANGED <<line, pc, sender, signals, thread, owed, boot>>

Less(t) == IF t \in {Off, 0} THEN t ELSE t - 1

Tick ==
    /\ \E t \in {vgic.cntv, vgic.backup} : t \notin {Off, 0}
    /\ vgic' = [vgic EXCEPT !.cntv = Less(@), !.backup = Less(@)]
    /\ UNCHANGED <<line, pc, sender, signals, thread, owed, boot>>

-----------------------------------------------------------------------------
\* Exits of the guest.

Maintenance ==
    \/ \E i \in 1..NLR : vgic.hw[i].eoi /\ ~Valid(vgic.hw[i])
    \/ vgic.uie /\ Cardinality({i \in 1..NLR : Valid(vgic.hw[i])}) <= 1

MaintenanceExit ==
    /\ pc = "guest" /\ Maintenance
    /\ vgic' = MaintenanceIrqHandler(vgic) /\ pc' = "exit"
    /\ UNCHANGED <<line, sender, signals, thread, owed, boot>>

VirtualTimerExit ==
    /\ pc = "guest" /\ Line(vgic) /\ ~vgic.prio
    /\ vgic' = VirtualTimerIrqHandler(vgic) /\ pc' = "exit"
    /\ UNCHANGED <<line, sender, signals, thread, owed, boot>>

\* cntv_timer_handler of the current vCPU.
CntvTimerExit ==
    /\ pc = "guest" /\ vgic.backup = 0
    /\ vgic' = IF vstate = "RUNNING" /\ Line(vgic) THEN InjectCurrentTimer(vgic)
               ELSE CntvTimerDisarm(vgic)
    /\ pc' = "exit"
    /\ UNCHANGED <<line, sender, signals, thread, owed, boot>>

KickExit ==
    /\ pc = "guest" /\ kick
    /\ kick' = FALSE /\ pc' = "exit"
    /\ UNCHANGED <<vgic, line, sender, request, need, thread, owed, boot>>

SchedulerTickExit ==
    /\ pc = "guest"
    /\ need' = TRUE /\ pc' = "exit"
    /\ UNCHANGED <<vgic, line, sender, request, kick, thread, owed, boot>>

\* handle_sgi1r, the vCPU being its own target.
SelfSgi ==
    /\ "self" \in scene /\ pc = "guest"
    /\ \E v \in Sgi : /\ vgic' = InjectLocked(vgic, v, FALSE, TRUE)
                      /\ owed' = [owed EXCEPT ![v] = "synced"]
    /\ request' = TRUE /\ need' = TRUE /\ pc' = "exit"
    /\ UNCHANGED <<line, sender, kick, thread, boot>>

\* An access to a device that lowers its line.
LowerLine ==
    /\ pc = "guest"
    /\ \E v \in line : line' = line \ {v} /\ vgic' = DeassertIrq(vgic, v, FALSE, TRUE)
    /\ request' = TRUE /\ need' = TRUE /\ pc' = "exit"
    /\ UNCHANGED <<sender, kick, thread, owed, boot>>

MmioExit ==
    /\ "mmio" \in scene /\ pc = "guest"
    /\ \E v \in Written, b \in BOOLEAN : vgic' = WriteEnable(vgic, v, b)
    /\ pc' = "exit"
    /\ UNCHANGED <<line, sender, signals, thread, owed, boot>>

\* PSCI CPU_OFF, SYSTEM_OFF and SYSTEM_RESET: zombie_vcpu of the vCPU itself.
CpuOff ==
    /\ "life" \in scene /\ pc = "guest"
    /\ IF vstate = "RUNNING"
       THEN vstate' = "ZOMBIE" /\ need' = TRUE /\ blocking' = TRUE
       ELSE UNCHANGED <<vstate, need, blocking>>
    /\ pc' = "exit"
    /\ UNCHANGED <<vgic, line, sender, request, kick, blocked, owed, boot>>

-----------------------------------------------------------------------------
\* From the exit to the next entry, with interrupts disabled.

\* refresh_current_vtimer.
Refresh ==
    /\ pc = "exit"
    /\ vgic' = UpdateCurrentVtimer(PollCurrentVtimer(vgic)) /\ pc' = "check"
    /\ UNCHANGED <<line, sender, signals, thread, owed, boot>>

\* sched_clear_reschedule_if_current_only.
ClearReschedule ==
    /\ pc = "check" /\ need /\ ~request /\ ~blocking
    /\ need' = FALSE /\ pc' = "resume"
    /\ UNCHANGED <<vgic, line, sender, request, kick, thread, owed, boot>>

\* The guest's softirq context blocks too.
StayOnCpu ==
    /\ pc = "check" /\ pc' = "resume"
    /\ UNCHANGED <<vgic, line, sender, signals, thread, owed, boot>>

\* schedule() when it picks another thread: switch_out of the vCPU.
SwitchOut ==
    /\ "switch" \in scene /\ pc = "check" /\ need /\ ~request /\ ~PendingIrqBlocksReschedule(vgic)
    /\ vgic' = UnloadVcpu(vgic)
    /\ need' = FALSE /\ pc' = "saved"
    /\ UNCHANGED <<line, sender, request, kick, thread, owed, boot>>

\* The rest of schedule(): the other thread is current.
SwitchedOut ==
    /\ pc = "saved"
    /\ blocked' = blocking /\ blocking' = FALSE /\ pc' = "out"
    /\ UNCHANGED <<vgic, line, sender, signals, vstate, owed, boot>>

\* schedule() when it picks the vCPU: its switch_in.
SwitchIn ==
    /\ pc = "out" /\ ~blocked
    /\ vgic' = LoadVcpu(vgic)
    /\ need' = FALSE /\ kick' = FALSE /\ pc' = "loading"
    /\ UNCHANGED <<line, sender, request, thread, owed, boot>>

\* curr_obj is the vCPU again, and refresh_current_vtimer runs.
SwitchedIn ==
    /\ pc = "loading"
    /\ vgic' = UpdateCurrentVtimer(PollCurrentVtimer(vgic)) /\ pc' = "resume"
    /\ UNCHANGED <<line, sender, signals, thread, owed, boot>>

\* arm64_process_vcpu_requests, prepare_current_guest_resume and ERET.
Resume ==
    /\ pc = "resume" /\ pc' = "guest"
    /\ vgic' = UpdateCurrentVtimer(IF request THEN FlushVcpu(SyncVcpu(vgic, TRUE), TRUE)
                                   ELSE vgic)
    /\ request' = FALSE
    /\ boot' = IF boot = "fresh" THEN "no" ELSE boot
    /\ UNCHANGED <<line, sender, need, kick, thread, owed>>

\* cntv_timer_handler of a vCPU that is not loaded.
CntvTimerOut ==
    /\ pc = "out" /\ vgic.backup = 0
    /\ LET due == vstate = "RUNNING" /\ Line(vgic)
           s == CntvTimerDisarm(vgic)
       IN /\ vgic' = IF due THEN InjectLocked(s, Timer, FALSE, FALSE) ELSE s
          /\ request' = (request \/ due) /\ need' = (need \/ due)
    /\ UNCHANGED <<line, pc, sender, kick, thread, owed, boot>>

-----------------------------------------------------------------------------
\* The sender, on another pCPU.

SendSgi ==
    /\ "sgi" \in scene /\ sender = "idle" /\ sender' = "request"
    /\ \E v \in Sgi :
         /\ vgic' = InjectLocked(vgic, v, Current, FALSE)
         /\ owed' = [owed EXCEPT ![v] = IF Current /\ @ = "no" THEN "raced"
                                        ELSE IF Current THEN @ ELSE "synced"]
    /\ UNCHANGED <<line, pc, signals, thread, boot>>

RaiseLine ==
    /\ "line" \in scene /\ sender = "idle" /\ sender' = "request"
    /\ \E v \in Spi \ line : line' = line \cup {v} /\ vgic' = InjectLocked(vgic, v, Current, FALSE)
    /\ UNCHANGED <<pc, signals, thread, owed, boot>>

LowerLineRemote ==
    /\ "lower" \in scene /\ sender = "idle" /\ sender' = "request"
    /\ \E v \in line : line' = line \ {v} /\ vgic' = DeassertIrq(vgic, v, Current, FALSE)
    /\ UNCHANGED <<pc, signals, thread, owed, boot>>

\* vcpu_make_request.
MakeRequest ==
    /\ sender = "request" /\ sender' = "idle"
    /\ request' = TRUE /\ need' = TRUE /\ kick' = TRUE
    /\ UNCHANGED <<vgic, line, pc, thread, owed, boot>>

\* pause_vm: zombie_vcpu from another pCPU.
PauseVm ==
    /\ "life" \in scene /\ sender = "idle"
    /\ IF vstate = "RUNNING"
       THEN /\ sender' = "pausing" /\ vstate' = "ZOMBIE"
            /\ IF pc = "out" THEN blocked' = TRUE /\ UNCHANGED <<blocking, need, kick>>
               ELSE blocking' = TRUE /\ need' = TRUE /\ kick' = TRUE /\ UNCHANGED blocked
       ELSE sender' = "paused" /\ UNCHANGED <<thread, need, kick>>
    /\ UNCHANGED <<vgic, line, pc, request, owed, boot>>

\* sleep_thread_sync returns.
PauseDone ==
    /\ sender = "pausing" /\ blocked /\ sender' = "paused"
    /\ UNCHANGED <<vgic, line, pc, signals, thread, owed, boot>>

Prepare ==
    /\ vgic' = PrepareContext(vgic, Loaded)
    /\ request' = FALSE
    /\ owed' = [v \in Sgi |-> "no"]
    /\ boot' = IF Loaded \/ boot = "raced" THEN "raced" ELSE "fresh"
    /\ sender' = "launch"

\* reset_vm and start_vm, up to launch_vcpu.
StartVm ==
    /\ sender = "paused" /\ Prepare
    /\ vstate' = "INIT"
    /\ UNCHANGED <<line, pc, need, kick, blocking, blocked>>

\* handle_psci_cpu_on.
CpuOn ==
    /\ "life" \in scene /\ sender = "idle" /\ vstate # "RUNNING" /\ Prepare
    /\ UNCHANGED <<line, pc, need, kick, thread>>

\* launch_vcpu.
LaunchVcpu ==
    /\ sender = "launch" /\ sender' = "idle"
    /\ vstate' = "RUNNING"
    /\ need' = (need \/ blocked) /\ kick' = (kick \/ blocked)
    /\ blocked' = FALSE /\ blocking' = FALSE
    /\ UNCHANGED <<vgic, line, pc, request, owed, boot>>

-----------------------------------------------------------------------------
Guest == (\E v \in Irq : GuestAck(v)) \/ GuestEoi \/ GuestProgram

Exit ==
    \/ MaintenanceExit \/ VirtualTimerExit \/ CntvTimerExit \/ KickExit
    \/ SchedulerTickExit \/ SelfSgi \/ LowerLine \/ MmioExit \/ CpuOff

Entry ==
    \/ Refresh \/ ClearReschedule \/ StayOnCpu \/ SwitchOut \/ SwitchedOut
    \/ SwitchIn \/ SwitchedIn \/ Resume

Sender ==
    \/ SendSgi \/ RaiseLine \/ LowerLineRemote \/ MakeRequest
    \/ PauseVm \/ PauseDone \/ StartVm \/ CpuOn \/ LaunchVcpu

Next ==
    /\ Guest \/ LrVanish \/ Tick \/ Exit \/ Entry \/ CntvTimerOut \/ Sender
    /\ UNCHANGED scene

Spec == Init /\ [][Next]_<<scene, vars>>

HostIrq == Maintenance \/ (Line(vgic) /\ ~vgic.prio) \/ vgic.backup = 0 \/ kick

Place == {"guest", "exit", "check", "saved", "out", "loading", "resume"}

\* Every step of the hypervisor happens, a pending host interrupt is taken, time
\* passes and the scheduler picks the vCPU.  The guest makes progress between its
\* exits, and its handlers return.  The scheduler tick is not needed.  The value
\* of pc tells the steps of the pCPU apart, so fairness is stated over pc.
Fairness ==
    /\ WF_pc(pc \notin {"guest", "out"} /\ pc' \in Place)
    /\ WF_pc(pc = "guest" /\ HostIrq /\ pc' = "exit")
    /\ WF_pc(pc = "out" /\ ~blocked /\ pc' = "loading")
    /\ WF_vars(MakeRequest) /\ WF_vars(PauseDone) /\ WF_vars(StartVm) /\ WF_vars(LaunchVcpu)
    /\ WF_vars(Tick)
    /\ (\A v \in Irq : SF_vars(GuestAck(v))) /\ SF_vars(GuestEoi)

FairSpec == Spec /\ Fairness

-----------------------------------------------------------------------------
\* Properties.  A context that is prepared while the vCPU is on its pCPU is
\* overwritten when the vCPU is saved: nothing is said after that (boot = "raced").

Visible(v) ==
    \/ v \in vgic.pending
    \/ ~Loaded /\ \E i \in 1..Len(vgic.lr) : vgic.lr[i].virq = v /\ vgic.lr[i].pending
    \/ Loaded /\ \E i \in 1..NLR : vgic.hw[i].virq = v /\ vgic.hw[i].pending

\* An SGI that was injected after a sync of its target (vgicv3_sync_vcpu) is
\* acknowledged before its last trace is gone: no exit, EOI, eviction from the
\* LRs, context switch or vanished LR loses the edge.
SyncedEdgeKept ==
    boot # "raced" /\ pc \notin {"guest", "exit"} =>
        \A v \in Sgi : owed[v] = "synced" => Visible(v)

\* No SGI is lost, whenever it was sent (vgicv3.c: "without dropping a pending
\* edge credit").
EdgeKept ==
    boot # "raced" /\ pc \notin {"guest", "exit"} =>
        \A v \in Sgi : owed[v] # "no" => Visible(v)

\* The guest never runs with two valid list registers for one INTID.
OneLrPerIrq ==
    pc = "guest" => \A i, j \in 1..NLR :
        /\ Valid(vgic.hw[i]) /\ Valid(vgic.hw[j])
        /\ vgic.hw[i].virq = vgic.hw[j].virq
        => i = j

InLr(v) == \E i \in 1..NLR : Valid(vgic.hw[i]) /\ vgic.hw[i].virq = v

\* While the guest runs, a pending SGI or timer interrupt that has no list
\* register has a reason for an exit that will give it one: the underflow
\* interrupt is armed, the end of an interrupt is reported, or the sender's IPI
\* is on its way.
PendingHasExit ==
    pc = "guest" /\ boot # "raced" =>
        \A v \in vgic.pending \cap (Sgi \cup {Timer}) :
            InLr(v) \/ vgic.uie \/ Maintenance \/ kick \/ sender = "request"

\* While the guest runs with the host PPI 27 masked, the guest's timer interrupt
\* is in a list register or waits for one, so its EOI brings the unmasking exit.
MaskedTimerOwned ==
    pc = "guest" /\ boot # "raced" /\ vgic.prio =>
        InLr(Timer) \/ Maintenance \/ (Timer \in vgic.pending /\ vgic.uie)

\* The first entry after CPU_ON or a VM reset finds the timer stopped, its host
\* interrupt unmasked, and no interrupt active or left from before
\* (vgicv3_clear_vcpu_boot_irqs), whatever was pending or running at the stop.
CleanBoot ==
    [][pc = "resume" /\ pc' = "guest" /\ boot = "fresh" =>
         /\ vgic'.cntv = Off /\ vgic'.ap = None /\ ~vgic'.prio
         /\ Timer \notin vgic'.pending
         /\ \A i \in 1..NLR : ~vgic'.hw[i].active /\ vgic'.hw[i].virq # Timer]_vars

\* A timer that has expired reaches the guest's handler, whether the vCPU was
\* running, preempted or its list registers were full.
TimerDelivered ==
    Line(vgic) ~> (~Line(vgic) \/ vgic.ap = Timer \/ vstate # "RUNNING" \/ boot = "raced")

\* The interrupts the environment raises.
Sources ==
    UNION {IF {"sgi", "self"} \cap scene = {} THEN {} ELSE Sgi,
           IF "line" \in scene THEN Spi ELSE {},
           IF "timer" \in scene THEN {Timer} ELSE {}}

\* A device line that is high when the pCPU is kicked is taken by the guest,
\* unless it is lowered or disabled, if there is an LR for every source:
\* vgicv3_flush_vcpu fills them in the order of the INTIDs.
LineServed ==
    \A v \in Spi :
        (/\ v \in line /\ v \in vgic.enabled /\ (kick \/ sender = "request")
         /\ Cardinality(Sources) <= NLR)
        ~> (v \notin line \/ v \notin vgic.enabled \/ vgic.ap = v
            \/ vstate # "RUNNING" \/ boot = "raced")

=============================================================================
