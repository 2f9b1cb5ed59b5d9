------------------------------ MODULE SmpCall -------------------------------
(***************************************************************************)
(* core/notify.c: a function call on other pCPUs, announced by one global  *)
(* mask and one slot per pCPU, delivered by an inter-processor interrupt   *)
(* that the scheduler also uses to kick a pCPU.                            *)
(*                                                                         *)
(* Each pCPU has a thread, which may call, and an interrupt handler, which *)
(* preempts it.  bitmap_clear_non_atomic on the shared mask is a load and  *)
(* a store.                                                                *)
(***************************************************************************)
EXTENDS Integers, FiniteSets, FiniteSetsExt

CONSTANTS
    Cpu,        \* pCPU ids, natural numbers (ffs64 takes the lowest first)
    Active,     \* the pCPUs that are up
    Call,       \* the (function, data) pairs that are passed
    AnyMask,    \* whether masks are arbitrary; see OwnBitsFirst
    Settings,   \* what a behaviour has: the calls that are made, those made by
                \* smp_call_function_timeout, and reschedule kicks
    NULL

ASSUME SmpAssumption ==
    /\ Cpu \subseteq Nat /\ IsFiniteSet(Cpu)
    /\ Active \subseteq Cpu
    /\ NULL \notin Call
    /\ AnyMask \in BOOLEAN
    /\ Settings \subseteq
           [calls : SUBSET Call, timed : SUBSET Call, kicks : BOOLEAN]

VARIABLES
    setting,        \* a member of Settings
    smp_call_mask,  \* targets that have not finished
    info,           \* per_cpu(smp_call_info)
    sgi,            \* pCPUs with the interrupt pending
    pc, call, mask, \* each thread: place, call made, and its `mask` variable
    loaded,         \* value read by bitmap_clear_non_atomic
    hpc, hcall,     \* each handler: place and the call it executes
    target,         \* the mask a thread passed (orig_mask)
    ran             \* how often each pCPU executed a call since it was made

vars == <<smp_call_mask, info, sgi, pc, call, mask, loaded, hpc, hcall, target,
          ran>>

Busy == {"setup", "clear", "wait", "abort"}

Init ==
    /\ setting \in Settings
    /\ smp_call_mask = {}
    /\ info = [c \in Cpu |-> NULL]
    /\ sgi = {}
    /\ pc = [c \in Cpu |-> "idle"]
    /\ call = [c \in Cpu |-> NULL]
    /\ mask = [c \in Cpu |-> {}]
    /\ loaded = [c \in Cpu |-> {}]
    /\ hpc = [c \in Cpu |-> "none"]
    /\ hcall = [c \in Cpu |-> NULL]
    /\ target = [c \in Cpu |-> {}]
    /\ ran = [k \in Call |-> [c \in Cpu |-> 0]]

\* The thread of c is not interrupted.
Runs(c) == hpc[c] = "none"

Executed(k, p) == [ran EXCEPT ![k][p] = Min({2, @ + 1})]

-----------------------------------------------------------------------------

\* The bits that the caller clears itself, its own and those of pCPUs that are
\* down, come before the first pCPU it interrupts.  Single-target callers meet
\* this; x86 profiling and S3 pass all active pCPUs and meet it only on the
\* lowest of them.
OwnBitsFirst(c, m) ==
    \A p \in m, q \in m :
        (p = c \/ p \notin Active) /\ q # c /\ q \in Active => p < q

\* smp_call_function or smp_call_function_timeout is called.
Begin(c, k, m) ==
    /\ Runs(c) /\ pc[c] = "idle" /\ c \in Active
    /\ k \in setting.calls /\ \A d \in Cpu : call[d] # k
    /\ AnyMask \/ OwnBitsFirst(c, m)
    /\ pc' = [pc EXCEPT ![c] = "spin"]
    /\ call' = [call EXCEPT ![c] = k]
    /\ mask' = [mask EXCEPT ![c] = m]
    /\ target' = [target EXCEPT ![c] = m]
    /\ ran' = [ran EXCEPT ![k] = [p \in Cpu |-> 0]]
    /\ UNCHANGED <<smp_call_mask, info, sgi, loaded, hpc, hcall>>

\* Mutant: the mask is stored without waiting for the previous call.
AcquireNoWait(c) ==
    /\ Runs(c) /\ pc[c] = "spin"
    /\ smp_call_mask' = mask[c]
    /\ pc' = [pc EXCEPT ![c] = "setup"]
    /\ UNCHANGED <<info, sgi, call, mask, loaded, hpc, hcall, target, ran>>

\* atomic_cmpxchg64(&smp_call_mask, 0, mask) succeeds.
Acquire(c) ==
    /\ Runs(c) /\ pc[c] = "spin"
    /\ smp_call_mask = {}
    /\ smp_call_mask' = mask[c]
    /\ pc' = [pc EXCEPT ![c] = "setup"]
    /\ UNCHANGED <<info, sgi, call, mask, loaded, hpc, hcall, target, ran>>

\* One turn of the loop over the targets: execute here, fill the slot and
\* interrupt, or drop a pCPU that is not up.
Setup(c) ==
    /\ Runs(c) /\ pc[c] = "setup"
    /\ mask[c] # {}
    /\ LET p == Min(mask[c]) IN
       /\ mask' = [mask EXCEPT ![c] = @ \ {p}]
       /\ IF p # c /\ p \in Active
          THEN /\ info' = [info EXCEPT ![p] = call[c]]
               /\ sgi' = sgi \cup {p}
               /\ UNCHANGED <<pc, loaded, ran>>
          ELSE /\ pc' = [pc EXCEPT ![c] = "clear"]
               /\ loaded' = [loaded EXCEPT ![c] = smp_call_mask \ {p}]
               /\ ran' = IF p = c THEN Executed(call[c], c) ELSE ran
               /\ UNCHANGED <<info, sgi>>
    /\ UNCHANGED <<smp_call_mask, call, hpc, hcall, target>>

\* The store of bitmap_clear_non_atomic.
SetupClear(c) ==
    /\ Runs(c) /\ pc[c] = "clear"
    /\ smp_call_mask' = loaded[c]
    /\ loaded' = [loaded EXCEPT ![c] = {}]
    /\ pc' = [pc EXCEPT ![c] = "setup"]
    /\ UNCHANGED <<info, sgi, call, mask, hpc, hcall, target, ran>>

SetupDone(c) ==
    /\ Runs(c) /\ pc[c] = "setup"
    /\ mask[c] = {}
    /\ pc' = [pc EXCEPT ![c] = "wait"]
    /\ UNCHANGED <<smp_call_mask, info, sgi, call, mask, loaded, hpc, hcall,
                   target, ran>>

Return(c) ==
    /\ pc' = [pc EXCEPT ![c] = "idle"]
    /\ call' = [call EXCEPT ![c] = NULL]
    /\ target' = [target EXCEPT ![c] = {}]

\* wait_smp_call_done sees the mask empty.
WaitDone(c) ==
    /\ Runs(c) /\ pc[c] = "wait"
    /\ smp_call_mask = {}
    /\ Return(c)
    /\ UNCHANGED <<smp_call_mask, info, sgi, mask, loaded, hpc, hcall, ran>>

\* The timeout of wait_smp_call_done passes with the mask not empty.
WaitTimeout(c) ==
    /\ Runs(c) /\ pc[c] = "wait"
    /\ call[c] \in setting.timed
    /\ smp_call_mask # {}
    /\ pc' = [pc EXCEPT ![c] = "abort"]
    /\ UNCHANGED <<smp_call_mask, info, sgi, call, mask, loaded, hpc, hcall,
                   target, ran>>

\* clear_smp_call_info, then the mask is reset.
Abort(c) ==
    /\ Runs(c) /\ pc[c] = "abort"
    /\ info' = [p \in Cpu |-> IF p \in target[c] THEN NULL ELSE info[p]]
    /\ smp_call_mask' = {}
    /\ Return(c)
    /\ UNCHANGED <<sgi, mask, loaded, hpc, hcall, ran>>

-----------------------------------------------------------------------------
\* kick_notification, in interrupt context.

TakeSgi(p) ==
    /\ p \in sgi /\ hpc[p] = "none"
    /\ sgi' = sgi \ {p}
    /\ IF p \in smp_call_mask
       THEN /\ hpc' = [hpc EXCEPT ![p] = "run"]
            /\ hcall' = [hcall EXCEPT ![p] = info[p]]
       ELSE UNCHANGED <<hpc, hcall>>
    /\ UNCHANGED <<smp_call_mask, info, pc, call, mask, loaded, target, ran>>

\* Mutant: the bit is cleared before the function is executed.
ClearBeforeRun(p) ==
    /\ hpc[p] = "run"
    /\ hpc' = [hpc EXCEPT ![p] = "finish"]
    /\ smp_call_mask' = smp_call_mask \ {p}
    /\ UNCHANGED <<ran, info, sgi, pc, call, mask, loaded, hcall, target>>

\* Mutant: the handler asks to be entered again and leaves the bit set.
HandlerForgets(p) ==
    /\ hpc[p] = "finish"
    /\ hpc' = [hpc EXCEPT ![p] = "none"]
    /\ hcall' = [hcall EXCEPT ![p] = NULL]
    /\ sgi' = sgi \cup {p}
    /\ UNCHANGED <<smp_call_mask, info, pc, call, mask, loaded, target, ran>>

\* The slot's function, if any, is executed.
HandlerRun(p) ==
    /\ hpc[p] = "run"
    /\ hpc' = [hpc EXCEPT ![p] = "finish"]
    /\ ran' = IF hcall[p] # NULL THEN Executed(hcall[p], p) ELSE ran
    /\ UNCHANGED <<smp_call_mask, info, sgi, pc, call, mask, loaded, hcall,
                   target>>

HandlerFinish(p) ==
    /\ hpc[p] = "finish"
    /\ hpc' = [hpc EXCEPT ![p] = "none"]
    /\ hcall' = [hcall EXCEPT ![p] = NULL]
    /\ smp_call_mask' = smp_call_mask \ {p}
    /\ UNCHANGED <<info, sgi, pc, call, mask, loaded, target, ran>>

\* make_reschedule_request or kick_vcpu: the same interrupt, without a call.
Kick(p) ==
    /\ setting.kicks /\ p \in Active
    /\ sgi' = sgi \cup {p}
    /\ UNCHANGED <<smp_call_mask, info, pc, call, mask, loaded, hpc, hcall,
                   target, ran>>

-----------------------------------------------------------------------------

ThreadStep(c) ==
    \/ Acquire(c)
    \/ Setup(c)
    \/ SetupClear(c)
    \/ SetupDone(c)
    \/ WaitDone(c)
    \/ Abort(c)

HandlerStep(p) ==
    \/ TakeSgi(p)
    \/ HandlerRun(p)
    \/ HandlerFinish(p)

Next ==
    /\ \E c \in Cpu :
          \/ \E k \in Call, m \in (SUBSET Cpu) \ {{}} : Begin(c, k, m)
          \/ WaitTimeout(c)
          \/ Kick(c)
          \/ ThreadStep(c)
          \/ HandlerStep(c)
    /\ UNCHANGED setting

Spec == Init /\ [][Next]_<<setting, vars>>

\* Every pCPU keeps executing and takes its interrupts.  That callers have
\* interrupts enabled is assumed; notify.c does not test it.
FairSpec ==
    /\ Spec
    /\ \A c \in Cpu : WF_vars(ThreadStep(c)) /\ WF_vars(HandlerStep(c))

-----------------------------------------------------------------------------

\* When smp_call_function returns, every target that is up has executed the
\* function exactly once ("The registered callback will be invoked").
CompletedCallsRan ==
    [][\A c \in Cpu :
         (pc[c] = "wait" /\ pc'[c] = "idle") =>
             \A p \in target[c] \cap Active : ran[call[c]][p] = 1]_vars

Undisturbed == setting.timed = {} /\ ~setting.kicks

\* Without kicks and timeouts, smp_call_function returns only when every target
\* that is up has executed the function exactly once: what the callers rely on
\* when they read the results.
UndisturbedCallsRan ==
    [][Undisturbed => \A c \in Cpu :
         (pc[c] = "wait" /\ pc'[c] = "idle") =>
             \A p \in target[c] \cap Active : ran[call[c]][p] = 1]_vars

\* Without kicks and timeouts, a handler executes a function only while its
\* caller waits for it: the data it is passed is a local variable of the caller.
DataIsAlive ==
    \A p \in Cpu : Undisturbed /\ hpc[p] = "run" =>
        \E c \in Cpu : /\ pc[c] \in Busy
                       /\ call[c] = hcall[p]
                       /\ p \in target[c]

\* smp_call_function returns ("wait for current smp call complete"), unless calls
\* queue up for ever: the waiter tests the one global mask, which the next call
\* fills again.
CallReturns ==
    (<>[](\A c \in Cpu : pc[c] # "spin")) =>
        \A c \in Cpu : pc[c] = "setup" ~> pc[c] = "idle"

=============================================================================
