-------------------------------- MODULE VGic --------------------------------
(***************************************************************************)
(* The ARM64 virtual interrupt controller of one vCPU                      *)
(* (arch/arm64/guest/vgicv3.c) with its virtual timer (vtimer.c).          *)
(*                                                                         *)
(* Every function of the two files that runs under the vGIC lock is an     *)
(* operator on a record s:                                                 *)
(*   pending, active, enabled  descriptors with that bit                   *)
(*   lr       ctx->lr[0 .. used_lrs - 1], the software copy of the LRs     *)
(*   hw       the list registers of the pCPU                               *)
(*   uie      ICH_HCR.UIE                                                  *)
(*   ap       the interrupt whose priority is active (ICH_AP1R0), or None  *)
(*   cntv     ticks to the CNTV deadline, or Off: the live registers while *)
(*            the vCPU is loaded and the saved ones (gctx) while it is not   *)
(*   backup   ticks until the host timer cntv_timer expires, or Off        *)
(*   masked   gctx->cntv_el2_masked                                        *)
(*   prio     the host PPI 27 has the masked priority                      *)
(*                                                                         *)
(* Every use of the saved CNTV registers of a loaded vCPU follows a sample *)
(* of the live ones (arm64_vtimer_sample_current, save_current), so one    *)
(* field stands for both.                                                  *)
(*                                                                         *)
(* Interrupts have one priority, and the guest uses EOImode 0.  SGIs are   *)
(* edge-triggered, the others level-triggered.  CNTP (PPI 30), LPIs and    *)
(* interrupts with a physical INTID (desc->hw) are left out.               *)
(***************************************************************************)
EXTENDS Integers, Sequences, FiniteSets, SequencesExt

CONSTANTS
    Sgi,     \* the SGIs
    Spi,     \* the SPIs and other lines of devices
    Timer,   \* ARM64_GIC_PPI_VIRTUAL_TIMER
    Order,   \* all of them, by INTID
    NLR,     \* vgic->lr_count
    None,
    Off

Irq == Sgi \cup Spi \cup {Timer}

ASSUME VGicAssumption ==
    /\ Range(Order) = Irq /\ Len(Order) = Cardinality(Irq)
    /\ Timer \notin Sgi \cup Spi /\ None \notin Irq
    /\ NLR \in Nat \ {0, 1}
    /\ Off \notin Nat

Level(v) == v \notin Sgi

EmptyLr == [virq |-> None, pending |-> FALSE, active |-> FALSE, eoi |-> FALSE]

\* Mutant: the timer is like any level interrupt.
MakeLrStateNoEoi(v, p, a) ==
    [virq |-> v, pending |-> p, active |-> a, eoi |-> a \/ v \in Sgi]

\* make_lr_state: completion is reported for edges, the timer and active LRs.
MakeLrState(v, p, a) ==
    [virq |-> v, pending |-> p, active |-> a, eoi |-> a \/ v \in Sgi \cup {Timer}]

MakeLr(s, v) == MakeLrState(v, v \in s.pending, v \in s.active)

Valid(l) == l.pending \/ l.active

HasLr(s, v) == \E i \in 1..Len(s.lr) : Valid(s.lr[i]) /\ s.lr[i].virq = v

FindLr(s, v) == CHOOSE i \in 1..Len(s.lr) : Valid(s.lr[i]) /\ s.lr[i].virq = v

\* The last LR moves into the hole.
RemoveLr(s, i) ==
    [s EXCEPT !.lr = SubSeq([@ EXCEPT ![i] = s.lr[Len(s.lr)]], 1, Len(s.lr) - 1)]

Add(set, v, b) == IF b THEN set \cup {v} ELSE set \ {v}

SetPending(s, v, b) == [s EXCEPT !.pending = Add(@, v, b)]

SetActive(s, v, b) == [s EXCEPT !.active = Add(@, v, b)]

\* vgic_irq_deliverable; the guest leaves Group 1 enabled.
Deliverable(s, v) == v \in s.enabled

\* vgic_update_irq_lr.
UpdateIrqLr(s, v) ==
    IF ~HasLr(s, v) THEN s
    ELSE LET p == v \in s.enabled /\ v \in s.pending
             a == v \in s.active
         IN IF p \/ a
            THEN [s EXCEPT !.lr[FindLr(s, v)] = MakeLrState(v, p, a)]
            ELSE RemoveLr(s, FindLr(s, v))

NoLrs == [i \in 1..NLR |-> EmptyLr]

\* vgicv3_write_lrs.
WriteLrs(s) == [s EXCEPT !.hw = SubSeq(s.lr \o NoLrs, 1, NLR)]

\* vgicv3_read_lrs: up to the last LR that is valid.
ReadLrs(s) ==
    [s EXCEPT !.lr = SubSeq(s.hw, 1, Max({0} \cup {i \in 1..NLR : Valid(s.hw[i])}))]

\* vgicv3_requeue_lr, of a loaded vCPU.
RequeueLr(s, v) ==
    IF v \notin s.pending \/ ~Deliverable(s, v) \/ HasLr(s, v) THEN s
    ELSE IF Len(s.lr) >= NLR THEN [s EXCEPT !.uie = TRUE]
    ELSE [s EXCEPT !.lr = Append(@, MakeLr(s, v)),
                   !.hw[Len(s.lr) + 1] = MakeLr(s, v)]

-----------------------------------------------------------------------------
\* The virtual timer.

\* The level of the CNTV line, as arm64_vtimer_sample_current computes it.
Line(s) == s.cntv = 0

\* vtimer_set_host_mask, of the vCPU that runs on this pCPU.
SetHostMask(s, b) ==
    IF b THEN [s EXCEPT !.masked = TRUE, !.prio = TRUE]
    ELSE IF s.masked THEN [s EXCEPT !.masked = FALSE, !.prio = FALSE]
    ELSE s

\* cntv_timer_arm; a deadline that has passed is armed for the next tick.
CntvTimerArm(s) ==
    [s EXCEPT !.backup = IF s.cntv = 0 THEN 1 ELSE s.cntv]

CntvTimerDisarm(s) == [s EXCEPT !.backup = Off]

-----------------------------------------------------------------------------
\* vgicv3_sync_vcpu.

\* What remains pending after the end of an interrupt was reported.
KeepPending(s, l) ==
    IF l.virq = Timer THEN Line(s)
    ELSE IF Level(l.virq) THEN l.pending \/ l.virq \in s.pending
    ELSE l.pending /\ l.active

\* An interrupt ends: its descriptor is inactive, and pending if p.
Complete(s, v, p) ==
    LET t == SetActive(SetPending(s, v, p), v, FALSE)
    IN IF v = Timer THEN SetHostMask(t, p) ELSE t

\* One LR of vgicv3_complete_eoi_lrs: the software copy names the interrupt if
\* the LR is invalid by now.
CompleteEoiLr(s, i, old) ==
    LET now == IF i <= Len(s.lr) THEN s.lr[i] ELSE EmptyLr
        l == IF ~Valid(now) /\ i <= Len(old) THEN old[i] ELSE now
        t == Complete(s, l.virq, KeepPending(s, l))
    IN IF ~Valid(l) THEN s
       ELSE IF i <= Len(s.lr) THEN RemoveLr(t, i) ELSE t

CompleteEoiLrs(s, eisr, old) ==
    FoldLeft(LAMBDA t, i : IF i \in eisr THEN CompleteEoiLr(t, i, old) ELSE t,
             s, [n \in 1..NLR |-> NLR + 1 - n])

\* Mutant: a level that was raised again is taken for the completed one.
VanishedLrNoLevel(s, i, old, eisr, loaded) ==
    LET v == old[i].virq
        unproven == old[i].pending /\ i \notin eisr
        line == RequeueLr(SetPending(s, v, Line(s)), v)
        edge == SetPending(s, v, ~Level(v) /\ unproven)
    IN IF ~Valid(old[i]) \/ HasLr(s, v) THEN s
       ELSE IF loaded /\ v = Timer /\ unproven
       THEN SetHostMask(SetActive(line, v, FALSE), Line(s))
       ELSE SetActive(edge, v, FALSE)

\* An interrupt that had an LR and has none any more.
VanishedLr(s, i, old, eisr, loaded) ==
    LET v == old[i].virq
        unproven == old[i].pending /\ i \notin eisr
        queued == Level(v) /\ v \in s.pending
        line == RequeueLr(SetPending(s, v, Line(s)), v)
        edge == SetPending(s, v, queued \/ (~Level(v) /\ unproven))
    IN IF ~Valid(old[i]) \/ HasLr(s, v) THEN s
       ELSE IF loaded /\ v = Timer /\ unproven
       THEN SetHostMask(SetActive(line, v, FALSE), Line(s))
       ELSE IF loaded /\ v = Timer /\ ~queued
       THEN SetHostMask(SetActive(edge, v, FALSE), FALSE)
       ELSE SetActive(edge, v, FALSE)

VanishedLrs(s, old, eisr, loaded) ==
    FoldLeft(LAMBDA t, i : VanishedLr(t, i, old, eisr, loaded),
             s, [i \in 1..Len(old) |-> i])

\* The state of an LR goes back to its descriptor.
RemainingState(s, l) ==
    SetActive(SetPending(s, l.virq,
                         /\ l.virq \in s.pending
                         /\ Level(l.virq) \/ (l.active /\ ~l.pending)),
              l.virq, l.active)

\* One iteration over the LRs that remain, r.idx being the index.
RemainingLr(r, loaded) ==
    LET s == r.s
        l == s.lr[r.idx]
        drop(t) == [r EXCEPT !.s = RemoveLr(t, r.idx)]
        next(t) == [s |-> t, idx |-> r.idx + 1]
        timer == loaded /\ l.virq = Timer
        sampled == Complete(s, Timer, Line(s))
    IN IF timer /\ l.active /\ s.ap = None THEN drop(sampled)
       ELSE IF timer /\ l.pending /\ ~l.active
       THEN IF Line(s) THEN next(sampled) ELSE drop(sampled)
       ELSE IF Valid(l) THEN next(RemainingState(s, l))
       ELSE drop(RemainingState(s, l))

\* The loop ends after as many iterations as there are LRs.
RemainingLrs(s, loaded) ==
    FoldLeft(LAMBDA r, n : IF r.idx <= Len(r.s.lr) THEN RemainingLr(r, loaded) ELSE r,
             [s |-> s, idx |-> 1], [n \in 1..Len(s.lr) |-> n]).s

SyncVcpu(s, loaded) ==
    LET eisr == IF loaded THEN {i \in 1..NLR : s.hw[i].eoi /\ ~Valid(s.hw[i])} ELSE {}
        read == IF loaded THEN ReadLrs(s) ELSE s
        done == RemainingLrs(VanishedLrs(CompleteEoiLrs(read, eisr, s.lr),
                                         s.lr, eisr, loaded), loaded)
    IN IF loaded THEN RequeueLr(done, Timer) ELSE done

-----------------------------------------------------------------------------
\* vgicv3_flush_vcpu.

\* Edges are consumed once they are in an LR.
Consumed(s, v) == IF Level(v) THEN s ELSE SetPending(s, v, FALSE)

\* Mutant: an edge is consumed although there is no LR for it.
FlushIrqConsumes(s, v) ==
    IF s.uie \/ v \notin s.pending \/ ~Deliverable(s, v) THEN s
    ELSE IF HasLr(s, v)
    THEN Consumed([s EXCEPT !.lr[FindLr(s, v)] = MakeLr(s, v)], v)
    ELSE IF Len(s.lr) >= NLR THEN Consumed([s EXCEPT !.uie = TRUE], v)
    ELSE Consumed([s EXCEPT !.lr = Append(@, MakeLr(s, v))], v)

\* Mutant: nothing asks for an exit when the LRs are full.
FlushIrqSilent(s, v) ==
    IF v \notin s.pending \/ ~Deliverable(s, v) THEN s
    ELSE IF HasLr(s, v)
    THEN Consumed([s EXCEPT !.lr[FindLr(s, v)] = MakeLr(s, v)], v)
    ELSE IF Len(s.lr) >= NLR THEN s
    ELSE Consumed([s EXCEPT !.lr = Append(@, MakeLr(s, v))], v)

\* Mutant: the LR an interrupt has already is not looked for.
FlushIrqAppends(s, v) ==
    IF s.uie \/ v \notin s.pending \/ ~Deliverable(s, v) THEN s
    ELSE IF Len(s.lr) >= NLR THEN [s EXCEPT !.uie = TRUE]
    ELSE Consumed([s EXCEPT !.lr = Append(@, MakeLr(s, v))], v)

FlushIrq(s, v) ==
    IF s.uie \/ v \notin s.pending \/ ~Deliverable(s, v) THEN s
    ELSE IF HasLr(s, v)
    THEN Consumed([s EXCEPT !.lr[FindLr(s, v)] = MakeLr(s, v)], v)
    ELSE IF Len(s.lr) >= NLR THEN [s EXCEPT !.uie = TRUE]
    ELSE Consumed([s EXCEPT !.lr = Append(@, MakeLr(s, v))], v)

\* The pending interrupts in the order of their INTIDs, until the LRs are full.
FlushVcpu(s, loaded) ==
    LET t == FoldLeft(FlushIrq, [s EXCEPT !.uie = FALSE], Order)
    IN IF loaded THEN WriteLrs(t) ELSE t

-----------------------------------------------------------------------------
\* The entry points.

\* The timer's LR follows the line.
SyncTimerLr(s, level) ==
    IF ~HasLr(s, Timer) THEN s
    ELSE LET i == FindLr(s, Timer)
         IN IF level \/ s.lr[i].active
            THEN [s EXCEPT !.lr[i] = MakeLrState(Timer, level, @.active)]
            ELSE RemoveLr(s, i)

\* arm64_vgicv3_sync_current_timer_line.
SyncCurrentTimerLine(s, level) ==
    LET t == SetHostMask(SyncTimerLr(SetPending(SyncVcpu(s, TRUE), Timer, level), level),
                         level)
    IN FlushVcpu(IF level THEN CntvTimerDisarm(t) ELSE CntvTimerArm(t), TRUE)

\* arm64_vgicv3_update_current_vtimer.
UpdateCurrentVtimer(s) == SyncCurrentTimerLine(s, Line(s))

\* vtimer_inject_current of PPI 27 for the current vCPU.
InjectCurrentTimer(s) == SyncCurrentTimerLine(CntvTimerDisarm(s), TRUE)

\* arm64_vgicv3_poll_current_vtimer.
PollCurrentVtimer(s) ==
    IF Line(s) THEN InjectCurrentTimer(SetHostMask(s, TRUE)) ELSE s

\* arm64_vgicv3_virtual_timer_irq_handler.
VirtualTimerIrqHandler(s) == InjectCurrentTimer(SetHostMask(s, TRUE))

\* arm64_vgicv3_maintenance_irq_handler.
MaintenanceIrqHandler(s) == FlushVcpu(SyncVcpu(s, TRUE), TRUE)

\* vgic_inject_locked: `remote' if the vCPU runs on another pCPU, `loaded' if
\* it runs on this one.
InjectLocked(s, v, remote, loaded) ==
    LET t == SetPending(IF remote THEN s ELSE SyncVcpu(s, loaded), v, TRUE)
    IN IF loaded THEN FlushVcpu(t, TRUE) ELSE t

\* arm64_vgicv3_deassert_irq.
DeassertIrq(s, v, remote, loaded) ==
    LET t == UpdateIrqLr(SetPending(IF remote THEN s ELSE SyncVcpu(s, loaded), v, FALSE), v)
    IN IF loaded THEN FlushVcpu(t, TRUE) ELSE t

\* The handler of GICR_ISENABLER and GICR_ICENABLER, written by the vCPU itself.
WriteEnable(s, v, b) ==
    LET t == SyncVcpu(s, TRUE)
    IN FlushVcpu(UpdateIrqLr([t EXCEPT !.enabled = Add(@, v, b)], v), TRUE)

\* arm64_vgicv3_pending_irq_blocks_reschedule.
PendingIrqBlocksReschedule(s) ==
    \/ s.ap # None
    \/ \E i \in 1..Len(s.lr) : s.lr[i].pending
    \/ \E v \in s.pending : Deliverable(s, v) /\ (~Level(v) \/ ~HasLr(s, v))

\* arm64_vtimer_save_current.
VtimerSaveCurrent(s) == IF s.masked /\ ~Line(s) THEN SetHostMask(s, FALSE) ELSE s

\* arm64_vgicv3_save_vcpu; then the LRs and the PPI belong to the next vCPU.
VgicSaveVcpu(s) == [ReadLrs(s) EXCEPT !.hw = NoLrs, !.prio = FALSE]

UnloadVcpu(s) ==
    CntvTimerArm(VgicSaveVcpu(UpdateCurrentVtimer(VtimerSaveCurrent(s))))

\* arm64_vtimer_load_current.
VtimerLoadCurrent(s) == CntvTimerArm([s EXCEPT !.prio = s.masked])

LoadVcpu(s) == WriteLrs(VtimerLoadCurrent(s))

\* vgicv3_clear_vcpu_boot_irqs.
ClearVcpuBootIrqs(s) == [s EXCEPT !.pending = @ \cap Spi, !.active = @ \cap Spi]

\* arm64_vgicv3_reset_vcpu_boot_state: what is live on the pCPU stays.
ResetVcpuBootState(s, loaded) ==
    LET t == [CntvTimerDisarm(s) EXCEPT !.lr = <<>>]
    IN ClearVcpuBootIrqs(IF loaded THEN t ELSE [t EXCEPT !.ap = None, !.uie = FALSE])

\* Mutant: the saved timer survives the reset.
PrepareContextKeepsTimer(s, loaded) ==
    ResetVcpuBootState([s EXCEPT !.masked = FALSE], loaded)

\* arm64_prepare_linux_vcpu_context.
PrepareContext(s, loaded) ==
    LET t == [s EXCEPT !.masked = FALSE]
    IN ResetVcpuBootState(IF loaded THEN t ELSE [t EXCEPT !.cntv = Off], loaded)

=============================================================================
