# BEAU hypervisor: TLA+ models and proofs

BEAU (a fork of ACRN) runs several guests on a few physical CPUs (pCPUs). This directory models
the part that decides who runs where, who waits for whom and which interrupt reaches a guest: the
scheduler framework with its RTDS and BVT policies, timers, calls between pCPUs, events with the
synchronous and asynchronous I/O requests built on them, and the virtual interrupt controller and
timer of an arm64 vCPU with its exit path, context switch and life cycle. `PROJECT.json` maps
definitions to source lines and lists components, runs, mutants, findings, hazards and theorems.

## The system

| part | source | state | modelled by |
| --- | --- | --- | --- |
| scheduler framework | `core/schedule.c` | partly | `Schedule`, `ThreadOwner`, `ScheduleProofs` |
| guest entry and exit, arm64 | `arch/arm64/guest/vcpu.c`, `vcpu_exit.c` | partly | `Schedule`, `VcpuRun` |
| RTDS policy (shared pCPUs) | `core/sched_rtds.c` | modelled | `SchedRtds`, `RtdsCpu`, `RtdsBudget`, `RtdsProofs` |
| BVT policy (exclusive pCPUs) | `core/sched_bvt.c` | partly | `SchedBvt`, `BvtCpu`, `BvtProofs` |
| SMP calls | `core/notify.c`, `arch/arm64/notify.c` | modelled | `SmpCall`, `SmpCallProofs` |
| events | `core/event.c` | modelled | `Event` |
| I/O requests, their hypercalls | `sdk/dm/io_req.c`, `core/hypercall.c` | partly | `IoReq`, `AsyncIo`, `IoReqProofs`, `AsyncIoProofs` |
| shared buffers | `core/sbuf.c`, `core/vm_event.c` | partly | `AsyncIo`, `AsyncIoProofs` |
| x86 vCPU loop, HLT | `arch/x86/guest/vcpu.c`, `vmexit.c`, `virq.c` | partly | `IoReq` |
| vCPU and VM life cycle | `core/vcpu.c`, `core/vm.c`, `arch/arm64/guest/vm.c` | partly | `VcpuRun`, `IoReq`, `Schedule` |
| timers, softirqs | `core/timer.c`, `core/softirq.c`, `arch/arm64/timer.c` | modelled | `Timer`, `TimerProofs` |
| vGICv3 | `arch/arm64/guest/vgicv3.c`, `virq.c` | partly | `VGic`, `VcpuRun` |
| virtual timer | `arch/arm64/guest/vtimer.c` | partly | `VGic`, `VcpuRun`; `Timer` (disarming) |
| VM watchdog, shell thread | `core/vm_wdt.c`, `sdk/bsp/shell.c` | partly | `Schedule` (helper threads) |
| vGIC ITS, physical and device interrupts, pCPU bring-up, IORR, priority and no-op policies, memory management, device emulation, platforms, boot | | not modelled | see "Not modelled" |

How the parts interact: a thread is pinned to a pCPU and guarded by that pCPU's `scheduler_lock`.
Code anywhere wakes it, puts it to sleep or asks for priority, which sets `NEED_RESCHEDULE` and,
from another pCPU, sends an SGI. The owning pCPU notices the flag in its idle loop, on the guest
exit path or when a helper thread gives up, and calls `schedule()`, which asks the policy for a
thread. Policies stop threads with a software timer. Events sleep and wake on top of this, and a
vCPU waiting for its device model waits on an event. SMP calls use the same SGI as the scheduler.
On arm64 every exit reads the list registers (LRs) of the interrupt controller back into software
state and every entry fills them again; a thread switch saves and loads them together with the
guest's timer, which a software timer of the host backs up while the vCPU is off the pCPU.

## Modules

    ThreadOwner  <--refines (proved)--  Schedule  <--refines (proved)--  RtdsCpu, BvtCpu
        ^ EXTENDS                          ^ EXTENDS: SchedRtds, SchedBvt, ScheduleProofs
      Event <-- IoReq <-- AsyncIo       SmpCall        Timer        VGic <-- VcpuRun

- `ThreadOwner` is the abstract contract of a scheduler: which threads are awake, who owns the
  pCPU. `Event` and `IoReq` are built on it, not on the details of `schedule()`.
- `Schedule` is the framework. One action per section under `scheduler_lock`; `schedule()` is two
  (`SchedulePick`, `ScheduleSwitch`), because `request_thread_priority` takes no lock and can run
  in between. `pc` is what the pCPU executes: idle loop, guest, exit path, helper thread. The
  policy is the contract `PickContract`.
- `SchedRtds` and `SchedBvt` write each function of the policies as an operator on the runqueue;
  `RtdsCpu` and `BvtCpu` conjoin them with the framework's actions and add timer and clock.
  `RtdsBudget` observes execution per period. Its behaviours are of two kinds, chosen at the start:
  time passes anywhere ("late"), or the hypervisor takes no time and nobody asks for priority
  ("prompt"); the reservation is a promise about the second kind only.
- `SmpCall` has a thread and an interrupt handler per pCPU; a non-atomic bit clear is two steps.
  `setting` chooses at the start which calls are made, which are timed, and whether kicks arrive.
- `Event` is `core/event.c`; `IoReq` is the loop of vCPUs that share a pCPU, with device model,
  injector and `zombie_vcpu` on other pCPUs. `AsyncIo` adds the registration of doorbell addresses
  by hypercall, the lookup and insertion by a vCPU, the ring of `core/sbuf.c`, the upcall and the
  consumer. `rings` chooses at the start whether a behaviour has asynchronous I/O; if it has, only
  the `Plain` part of `IoReq` runs beside it.
- `Lists` is the part of `lib/list.h` that the runqueues and the timer list use: unlinking a node,
  linking one before a place, and the orders in which a loop can meet the members of a list that
  is modelled as a set (`thread_list`).
- `Timer` is one pCPU's timer list, the comparator, and the softirq with its remembered next node.
- `VGic` writes each function of `vgicv3.c` and `vtimer.c` that runs under the vGIC lock as an
  operator on one record: descriptors, saved and live LRs, the underflow interrupt, CNTV, its
  backup timer, the mask of the host interrupt. `VcpuRun` puts one vCPU over it: the guest, the
  exit path, `schedule()` away and back, a sender on another pCPU that sends SGIs, drives lines,
  and stops and starts the vCPU. `scene` chooses at the start what the environment does.
- `MC...` modules instantiate these for TLC, `...Proofs` modules hold theorems.

A definition named as a mutant in its comment is a wrong version of the next definition, kept to
show that a property notices it (`mutants` in `PROJECT.json`).

The repository has some 188,000 lines. The map covers the concurrent core listed above, 4,332
lines or about 2.3% of them; most of the rest is device models, platform drivers and libraries.

## Runs

| run | instance | distinct states | what it shows |
| --- | --- | --- | --- |
| `schedule` | 2 vCPUs, 1 helper | 42,121 | one owner, no lost reschedule, guests fetched back, fair clearing of the flag, refinement of `ThreadOwner`, `sleep_thread_sync` returns |
| `rtds` | 1 vCPU, 1 helper, period 4, budget 2, time 3..8 late, 3..12 prompt | 460,661 | queues match status and budget, preemption armed, EDF with slack last, refinement of `Schedule`; prompt: a thread awake for a whole period gets its budget |
| `bvt` | 1 warped vCPU, 1 helper, time 1..5 | 1,367,123 | runqueue is the awake threads by EVT, bounded overrun, AVT accounts exactly for execution, refinement of `Schedule` |
| `smp_call` | 3 pCPUs, 1 down; 2 quiet calls, or 1 timed call with kicks | 31,913 | restricted masks; quiet: completed calls ran exactly once, on live data; both: calls return |
| `ioreq` | a polling and an event vCPU, a ring of 2 | 54,358 | no lost or stale signal, no halt on a pending interrupt, requests complete; the ring is a queue, a doorbell inserts its own descriptor, a full ring lets the vCPU in |
| `timer` | 2 one-shot timers, 1 periodic, time 1..6 | 795,521 | list sorted, hardware armed, periodic timers skip missed periods |
| `vcpu_run` | 1 vCPU, SGI, timer and SPI on 2 LRs, 5 scenes | 180,952 | see below |
| `schedule_idle` | 1 vCPU | - | violated: the idle loop waits although a thread is awake |
| `rtds_overcharge` | 2 vCPUs | - | violated: the new period pays for the old one |
| `smp_kick` | 3 pCPUs, kicks | - | violated: a kick completes a call that did not run |
| `io_zombie` | 1 vCPU | - | violated: a stopped vCPU re-enters the guest |
| `vcpu_lost_edge` | 1 vCPU, 1 sender | - | violated: an SGI to a running vCPU is dropped |

`vcpu_run` checks that an SGI injected after a sync of its target is not lost by an exit, an EOI,
an eviction from the LRs or a context switch (`SyncedEdgeKept`); that the guest never runs with two
LRs for one INTID (`OneLrPerIrq`); that a pending interrupt without an LR has an exit coming
(`PendingHasExit`); that the host's timer interrupt is masked only while the guest's EOI will
unmask it (`MaskedTimerOwned`); that a restart begins clean (`CleanBoot`); and that an expired
timer (`TimerDelivered`) and a device line (`LineServed`) reach the guest.

The five violations are disagreements between code and comments, quoted under `findings`:

1. `schedule_idle`: `default_idle` tests the flag and executes WFI with interrupts enabled. The
   SGI of a wakeup taken in between is gone when WFI starts; the thread waits for the next
   interrupt. `core/event.c` says the wakeup is not lost.
2. `rtds_overcharge`: `sched_rtds_prioritize` of the running thread refills the budget before the
   old period is charged, and the charge is taken from the new budget.
3. `smp_kick`: the mask is published before the slots are filled. A reschedule kick in between
   clears the target's bit after executing nothing, or the previous function.
4. `io_zombie`: the completion of an I/O request wakes a vCPU that `zombie_vcpu` has stopped; the
   loop of the vCPU does not look at the state and enters the guest.
5. `vcpu_lost_edge`: an SGI for a vCPU that runs on another pCPU only sets the pending bit of its
   descriptor. If the guest has just ended the previous SGI of that INTID, the next sync meets the
   EOI report, whose completion clears the bit (`vgicv3.c:829` looks at the LR only).

### What the results do not cover

These restrictions matter more than bounds: outside them the property is known to fail in the
model. Each was observed by lifting it, none has a run of its own.

- **SMP calls that return.** `CallReturns` holds for masks that satisfy `OwnBitsFirst`. The
  single-target callers do (`arm64_shell.c:661`, `x86/cpu.c:558` and `580`, `x86_shell.c:289`). The
  x86 profiling and S3 callers (`profiling.c:751`, `x86/pm.c:191`, and others) pass every active
  pCPU, which satisfies it only when the caller is the lowest. With `AnyMask = TRUE` the model
  deadlocks: the caller's non-atomic clear can restore the bit of a target that has finished. The
  safety of such calls is proved (`SmpCallProofs`).
- **Timed SMP calls.** `DataIsAlive` and `UndisturbedCallsRan` speak of untimed calls without kicks.
  The one caller of the arm64 build (`arm64_shell.c:661`) is timed, with its data in a local
  variable of the shell (line 786). For a timed call `DataIsAlive` fails: a target can execute
  after its caller left.
- **Vanishing LRs with lowered lines.** The scenes of `vcpu_run` do not combine `lower` (a sender
  that deasserts a line) with `vanish` (an LR found empty without an EOI report). In the combined
  scene `SyncedEdgeKept` is violated.
- **More sources than LRs.** `LineServed` requires an LR for every source. `vgicv3_flush_vcpu` fills
  LRs in the order of INTIDs, and with three sources on two LRs a line can wait for ever.
- **CPU_ON racing CPU_OFF.** If the context of a vCPU is prepared while its thread is still on the
  pCPU, saving the thread overwrites it. The properties of `VcpuRun` say nothing after that
  (`boot = "raced"`); `CleanBoot` fails there.
- **EDF among different deadlines.** All RTDS servers have the same period and share one grid of
  deadlines. When `pick_next` chooses, every awake server has the next boundary of that grid as its
  deadline (lemma `ChargedAndRefreshed` of `RtdsProofs`), so what `EdfPick`
  tells apart is the ready and the depleted queue, not an order among different deadlines.

The hazards that no property covers are in `PROJECT.json`. Further places a reviewer may want to
look at, outside the models: `schedule()` releases the lock before `arch_switch_to` has saved the
old stack pointer (`schedule.c:546`; threads are pinned, so only destruction could meet it); the
global `thread_list` is walked under the lock of one pCPU (`schedule.c:439`); a one-shot timer that
its own callback re-arms is zeroed on return although it is listed (`timer.c:267`; no arm64
callback does so); SVT under warp is not the minimum AVT (`sched_bvt.c:224`); an overwriting
producer of a shared buffer moves the consumer's head (`sbuf.c:78`); `request_irq` tests for an
action before it locks the descriptor (`irq.c:141`).

## Bounds

- Threads: the interesting cases need the running thread, one that waits and the idle thread;
  `schedule` has three threads, the policies two, where their queues already reorder.
- Time: `MaxTime` (`LateTime` for the late behaviours of `rtds`) ends a behaviour. Prompt RTDS
  behaviours last more than two periods; BVT opens and closes a second warp window after a
  cool-down; in `Timer` a periodic timer is entered a full period late, but not two, and the
  softirq stops at `MAX_TIMER_ACTIONS` with a timer still due. Ratios, weights and
  `MAX_TIMER_ACTIONS` are scaled down.
- Virtual times and counters do not wrap: 64-bit ticks do not in the life of a machine.
- `SmpCall` counts executions up to 2, enough to tell once from more.
- `IoReq` injects interrupts into one vCPU only. `AsyncIo` has one registration slot for two
  addresses and a ring that is full with two elements; the vCPUs share a pCPU, so contention for
  the asyncio lock does not arise.
- `VcpuRun` has one vCPU, one sender, one interrupt of each kind, one priority, EOImode 0 and
  `MaxDelay = 1` (a timer expired or about to); SGIs are edge-triggered, the others level. Only the
  SPI is enabled and disabled by the guest (`Written`), and only the last valid LR of an SGI
  vanishes. `PendingHasExit` is about SGIs and the timer.
- Symmetry is used only in runs whose properties are invariants or action properties (`timer`,
  `rtds_overcharge`). No run disables the deadlock check.

## Fairness

- `Schedule!FairSpec`: code that runs reaches its next step, a guest is left again (every physical
  interrupt is routed to EL2), and `schedule()` is reached if it is possible again and again. The
  last is strong: the exit path may resume the guest, for a pending virtual interrupt, as often as
  it likes, although its comment speaks of a bounded window. With guests that handle their
  interrupts the window ends; `SleepCompletes` rests on that.
- `SmpCall!FairSpec`: threads and handlers of each pCPU progress separately; that callers run with
  interrupts enabled is an assumption (`notify.c` does not test it). Starting calls, kicks and
  timeouts are not fair.
- `IoReq!IoFairSpec`, `AsyncIo!AioFairSpec`: awake threads are dispatched, whatever the policy; the
  device model answers, notifies and, woken by the upcall, empties the ring. The latter are
  assumptions about the Service VM. `RingAdmits` excludes others filling the ring for ever.
- `VcpuRun!FairSpec`: every step of the pCPU happens (stated over `pc`, which tells the steps
  apart), a pending host interrupt is taken, an awake vCPU is scheduled, time passes, and a sender
  finishes what it began. The guest acknowledges each interrupt that is offered again and again, and
  its handlers return: strong fairness, an assumption about the guest.

## Proofs

Every theorem holds for all values of the constants that satisfy the named assumption, which TLC
evaluates on the instances. All are safety properties that some run also checks.

| module, assumption | theorem | states |
| --- | --- | --- |
| `ScheduleProofs`, `ThreadAssumption` | `TypeCorrect` | `Spec => []TypeOK` |
| | `Ownership` | `Spec => []OneOwner` |
| | `NoLostReschedule` | `Spec => []RescheduleRequested` |
| | `GuestFetchedBack` | `Spec => []GuestIsFetchedBack` |
| | `FairClear` | `Spec => ClearPreservesFairness` |
| | `Refinement` | `Spec => ImplementsOwner` |
| `IoReqProofs`, `IoReqAssumption` | `WaitingExclusive` | `IoSpec => []ExclusiveWaiting` |
| | `NoLostSignal` | `IoSpec => []SignalWakes` |
| | `ResumeAnswered` | `IoSpec => []AnswerBeforeResume` |
| | `HaltAnswered` | `IoSpec => []HaltHasNoInterrupt` |
| `AsyncIoProofs`, and `AsyncIoAssumption` | `RingQueue` | `AioSpec => []RingIsQueue` |
| | `DescriptorOwned` | `AioSpec => OwnDescriptor` |
| `SmpCallProofs`, `SmpAssumption` | `DataAlive` | `Spec => []DataIsAlive` |
| | `ReturnedCallsRan` | `Spec => UndisturbedCallsRan` |
| `TimerProofs`, `TimerAssumption` | `TimerTypeCorrect` | `Spec => []TypeOK` |
| | `ListStaysSorted` | `Spec => [](TypeOK /\ SortedList)` |
| | `EarliestIsArmed` | `Spec => []HardwareArmed` |
| | `GridKept` | `Spec => PeriodicOnGrid` |
| `RtdsProofs`, `ThreadAssumption`, `ServerAssumption`, `ClockAssumption` | `NoServerLost` | `RtdsSpec => []QueuesMatchStatus` |
| | `BudgetDecidesQueue` | `RtdsSpec => []QueuesMatchBudget` |
| | `PreemptionIsArmed` | `RtdsSpec => []PreemptionArmed` |
| | `PicksAreEdf` | `RtdsSpec => EdfPick` |
| | `RtdsImplementsSchedule` | `RtdsSpec => ImplementsSchedule` |
| `BvtProofs`, `ThreadAssumption`, `BvtAssumption`, `ClockAssumption` | `RunqueueHoldsAwake` | `BvtSpec => []RunqueueIsAwake` |
| | `RunqueueSorted` | `BvtSpec => []SortedByEvt` |
| | `Ledger` | `BvtSpec => []AvtIsLedger` |
| | `Overrun` | `BvtSpec => []BoundedOverrun` |
| | `BvtImplementsSchedule` | `BvtSpec => ImplementsSchedule` |

The arguments, each an inductive invariant with one lemma per kind of step:

- `ScheduleProofs`: `IInv` adds two things to the properties. `LocationOwner` says which kind of
  thread owns each location of the pCPU. `Handshake` says that only the owner can be `be_blocking`,
  that initialised threads are on `thread_list`, and that the thread picked in the first half of
  `schedule()` is still a legal pick in the second. Without `Handshake` a switch could go to a
  thread that has fallen asleep, and clearing the flag after a scan of `thread_list` could overlook
  a thread. The refinement follows step by step (`StepImplementsOwner`).
- `IoReqProofs`: `IoInv`. `Registered` ties `waiting_thread` to the place of its thread inside
  `wait_event`; `SlotFollows` ties the state of the request slot to the place of the vCPU and allows
  a notification only after the answer; `HaltSeen` says that an interrupt injected into a halted
  vCPU still has its signal coming; `Woken` is `SignalWakes` for a thread's own event. Without
  `SlotFollows` a signal of an earlier request could be taken for the answer of a later one. These
  theorems are about `IoSpec`, the specification without the ring.
- `AsyncIoProofs`: `AioInv`. `AioPlace` says that the producer owns the pCPU between its two stores
  and that the cell it wrote is the one past the queue; `AioLookup` that an address under way is
  still in its slot. The arithmetic of `sbuf_next_ptr` is in the `Wrap` lemmas.
- `SmpCallProofs`: `SmpInv`. At most one caller owns the mask (`Owns`); each of its targets moves
  from the caller's `mask` to a pending interrupt to a running handler, its bit stays set all that
  time, and it has executed the call exactly if it has passed the last (`Ran`). A bit that the
  caller is about to clear is set as well, so nobody else can store the mask meanwhile: this is
  what makes the non-atomic clear safe. The theorems hold for every mask, also with
  `AnyMask = TRUE`, which the runs exclude because such a call may never return.
- `TimerProofs`: `TimerInv` adds that the timer being served is not in the list (`Detached`), so
  that reinserting it neither duplicates it nor disturbs the order, and that the count of tries
  does not wrap (`TriesLeft`). `AddList`, from the lemmas of `ListProofs`, says what
  `local_add_timer` does to a sorted list and to its head; the head is what the comparator is
  compared with. For `GridKept`, `Due` says that a periodic timer being served was due.
- `ListProofs` has what the other modules share: what `Unlink` and `InsertBefore` do to the members,
  the distinctness and the order of a list, and `CountUp`, a set of numbers that has 0 and every
  successor has them all. Passes over a list are recursive functions; `CountUp`, applied to the set
  of rounds after which a loop invariant holds, gives the induction over their rounds that the
  prover's own induction rules do not (`PassRolls` of `RtdsProofs`, `PassOrder` of `BvtProofs`).
- `RtdsProofs`: `RtdsInv`. `Sound` says that no server is queued twice or on the queue its budget
  forbids, and that every deadline is on the common grid of periods. The grid is the key: on it
  `rtds_advance_period`, which adds whole periods to an old deadline, lands exactly on
  `rtds_next_period_boundary` (`GridStep`), so after the charge and the two refreshing loops of
  `pick_next` all queued servers have the same deadline, and the first of the ready queue is a
  right choice whatever order the insertions left. From the priority requests to
  the refresh of the running thread that one server may be on the wrong queue: `Sound(r, {curr})`
  excepts it and `RefreshServer` repairs it. `Picked` carries the pick and the armed timer over the
  gap between the two halves of `schedule()`, in which time passes and priority is requested.
- `BvtProofs`: `BvtInv`. `QueueOrder` needs every change of an EVT to be followed by a new insertion:
  warping a queued thread, charging the current one and waking one are each shown to do so.
  `Countdown` is the strengthening of `BoundedOverrun`: the run time the armed timer still allows,
  converted to virtual time with the residual of the last charge, stays below the distance to every
  waiting thread plus the allowance and one MCU. It is kept when time passes because it speaks of
  the start of the thread, not of the present, and the MCU is the part of a unit that a charge does
  not book. `Ledger` rests on `Booked`: a charge moves whole units to AVT and keeps the fraction.
- Refinement of `Schedule`: a step of either pCPU is a step of the framework if its pick meets
  `PickContract`; `ChoiceContract` shows that from `RtdsInv` and `BvtInv`. Everything proved in
  `ScheduleProofs` then holds for a pCPU with either policy.

Each strengthened invariant was also checked by TLC, on the instance of its run (`SmpInv` with
`AnyMask = TRUE`, `RtdsInv` over `RtdsSpec` with three threads). The theorems about RTDS are over `RtdsSpec`;
the run `rtds` checks the same properties over `RtdsBudget`, which adds observers to it and, in its
prompt behaviours, leaves steps out.

`ClockAssumption` says that the clock is past 0: the counter behind `cpu_ticks` has been running
since power-on when a scheduler is initialised, and the policies use a time of 0 for a timer that is
not set and a deadline that has not been given. `MaxTime` is any number, so the bound of the runs is
none in the theorems.

Only model-checked:

- `FullBudget` of RTDS. It is about a whole period of prompt behaviour and holds for servers that
  fit on the pCPU together, which the instance does by its constants.
- `VGic` and `VcpuRun` (`SyncedEdgeKept`, `OneLrPerIrq`, `PendingHasExit`, `MaskedTimerOwned`,
  `CleanBoot`): not yet proved.
- All liveness (`SleepCompletes`, `CallReturns`, `RequestCompletes`, `RingAdmits`,
  `TimerDelivered`, `LineServed`), which is beyond the prover.

## Not modelled

- The vGIC's register file, priorities, routing between vCPUs, LPIs and the ITS, and CNTP: `VGic`
  has the paths an interrupt takes once it is routed to a vCPU.
- Physical interrupts and device interrupt remapping (`core/irq.c`, `core/ptdev.c`), pCPU bring-up
  (`core/cpu.c`, `arch/arm64/psci.c`), and the IORR, priority and no-op policies: planned.
- Memory management (`core/mmu.c`, `arch/arm64/mmu.c`): sequential page-table construction; planned
  as functions over small tables.
- Device emulation (`sdk/dm`, `vpl011.c`): register-level state machines of single devices. The
  user-space device model is an external action of `IoReq` and `AsyncIo`.
- Boot, device trees, libraries, x86 and RISC-V platforms: sequential code or register programming.

## Plan

1. Runs for the restrictions listed above: SMP calls with the masks and timeouts of their callers,
   `CPU_ON` racing `CPU_OFF`.
2. Two vCPUs of a VM over `VGic`: routing, and SGIs between siblings.
3. BVT: the order of warp and charge, and SVT under warp, against the comments of `sched_bvt.c`.
4. Interrupt allocation, pCPU bring-up, the VM watchdog, the remaining policies under `Schedule`.
5. Proofs: the LR invariants of `VGic`; the RTDS reservation.
6. Page tables and device emulation as functions over small instances.
