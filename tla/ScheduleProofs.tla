--------------------------- MODULE ScheduleProofs ---------------------------
(***************************************************************************)
(* Proofs about Schedule for every set of vCPUs and helper threads.        *)
(***************************************************************************)
EXTENDS Schedule, TLAPS

\* The thread that each location of the pCPU belongs to.
LocationOwner ==
    /\ pc = "boot" <=> curr = None
    /\ pc \in {"idle_check", "idle_nap", "idle_wfi"} => curr = Idle
    /\ pc \in {"entry", "guest", "trap", "exit", "exit_checked"} => curr \in Vcpu
    /\ pc \in {"host", "call_schedule"} => curr \in Helper

\* What sleep_thread, wake_thread and schedule() keep true between them: only
\* the owner can be on its way to sleep, every initialised thread is on
\* thread_list, and the pick of schedule() is still right when it is applied.
Handshake ==
    /\ be_blocking \subseteq {curr}
    /\ \A t \in Obj : status[t] # "unset" => t \in thread_list
    /\ pc # "boot" => Idle \in thread_list
    /\ pc = "switch" => PickContract(next)

\* The inductive invariant.
IInv ==
    /\ TypeOK
    /\ OneOwner
    /\ LocationOwner
    /\ Handshake
    /\ RescheduleRequested
    /\ GuestIsFetchedBack

USE ThreadAssumption DEF NEED_RESCHEDULE, Sgi

\* The state after init_sched satisfies the inductive invariant.
LEMMA InitIInv == Init => IInv
BY DEF Init, IInv, TypeOK, OneOwner, LocationOwner, Handshake, Awake,
       RescheduleRequested, GuestIsFetchedBack, Thread, Obj, PickContract,
       Entry, Location

\* sleep_thread keeps the inductive invariant: a running thread is only marked,
\* with a reschedule requested; any other one is blocked at once.
LEMMA SleepIInv ==
    ASSUME IInv, NEW t \in Thread, NEW from \in Caller, SleepThread(t, from)
    PROVE  IInv'
<1> USE DEF IInv, TypeOK, OneOwner, LocationOwner, Handshake, Thread, Obj,
            PickContract, Awake, Entry, Location, SleepThread, LockFree,
            MakeRescheduleRequest, Caller
<1>1. CASE status[t] = "RUNNING"
  <2>1. t = curr /\ NEED_RESCHEDULE \in flags'
    BY <1>1
  <2>2. TypeOK'
    BY <1>1, ZenonT(30)
  <2>3. OneOwner' /\ LocationOwner'
    BY <1>1, <2>1
  <2>4. Handshake'
    BY <1>1, <2>1
  <2>5. RescheduleRequested' /\ GuestIsFetchedBack'
    BY <1>1, <2>1 DEF RescheduleRequested, GuestIsFetchedBack
  <2>6. QED
    BY <2>2, <2>3, <2>4, <2>5
<1>2. CASE status[t] # "RUNNING"
  <2>1. t # curr /\ Awake' = Awake \ {t}
    BY <1>2
  <2>2. TypeOK'
    BY <1>2, ZenonT(30)
  <2>3. OneOwner' /\ LocationOwner'
    BY <1>2, <2>1
  <2>4. Handshake'
    BY <1>2, <2>1
  <2>5. RescheduleRequested' /\ GuestIsFetchedBack'
    BY <1>2, <2>1 DEF RescheduleRequested, GuestIsFetchedBack
  <2>6. QED
    BY <2>2, <2>3, <2>4, <2>5
<1>3. QED
  BY <1>1, <1>2

\* wake_thread keeps the inductive invariant: a blocked thread becomes runnable
\* with a reschedule requested, a blocking owner just stays.
LEMMA WakeIInv ==
    ASSUME IInv, NEW t \in Thread, NEW from \in Caller, WakeThread(t, from)
    PROVE  IInv'
<1> USE DEF IInv, TypeOK, OneOwner, LocationOwner, Handshake, Thread, Obj,
            PickContract, Awake, Entry, Location, WakeThread, LockFree,
            MakeRescheduleRequest, Caller, CallerAt, InHypervisor
<1>1. CASE status[t] = "BLOCKED"
  <2>1. t # curr /\ NEED_RESCHEDULE \in flags'
    BY <1>1
  <2>2. TypeOK'
    BY <1>1, ZenonT(30)
  <2>3. OneOwner' /\ LocationOwner'
    BY <1>1, <2>1
  <2>4. Handshake'
    BY <1>1, <2>1
  <2>5. RescheduleRequested' /\ GuestIsFetchedBack'
    BY <1>1, <2>1 DEF RescheduleRequested, GuestIsFetchedBack
  <2>6. QED
    BY <2>2, <2>3, <2>4, <2>5
<1>2. CASE status[t] # "BLOCKED"
  <2>1. t = curr /\ t \in Awake'
    BY <1>2
  <2>2. QED
    BY <1>2, <2>1, ZenonT(30) DEF RescheduleRequested, GuestIsFetchedBack
<1>3. QED
  BY <1>1, <1>2

\* The second half of schedule() changes the owner but not who is awake.
LEMMA SwitchKeepsAwake ==
    ASSUME IInv, ScheduleSwitch
    PROVE  /\ Awake' = Awake
           /\ curr' = next
           /\ next \in Obj
           /\ PickContract(next)
BY DEF IInv, TypeOK, OneOwner, LocationOwner, Handshake, Thread, Obj, Awake,
       PickContract, ScheduleSwitch, SwitchStatus, ResumePoint

\* schedule() keeps the inductive invariant.
LEMMA SwitchIInv ==
    ASSUME IInv, ScheduleSwitch
    PROVE  IInv'
<1> USE SwitchKeepsAwake
      DEF IInv, TypeOK, OneOwner, LocationOwner, Handshake, Thread, Obj,
          ScheduleSwitch, SwitchStatus, ResumePoint, Entry, Location
<1>1. curr # None
  OBVIOUS
<1>2. TypeOK'
  BY <1>1
<1>3. OneOwner' /\ LocationOwner'
  BY <1>1
<1>4. Handshake'
  BY <1>1 DEF PickContract, Awake
<1>5. RescheduleRequested' /\ GuestIsFetchedBack'
  BY <1>1 DEF PickContract, RescheduleRequested, GuestIsFetchedBack
<1>6. QED
  BY <1>2, <1>3, <1>4, <1>5

\* What the invariant says of who is awake.
LEMMA FrameworkFacts ==
    ASSUME IInv
    PROVE  /\ status \in [Obj -> {"unset", "BLOCKED", "RUNNABLE", "RUNNING"}]
           /\ Awake \subseteq Thread /\ Awake \subseteq thread_list
           /\ be_blocking \subseteq {curr}
           /\ \A t \in Thread : t \in be_blocking => t = curr /\ t \notin Awake
           /\ curr \in Thread => status[curr] = "RUNNING"
           /\ curr \in Thread /\ curr \notin Awake => NEED_RESCHEDULE \in flags
BY DEF IInv, TypeOK, OneOwner, Handshake, RescheduleRequested, Awake, Thread, Obj

\* Every step of the pCPU and of its callers keeps the inductive invariant.
LEMMA NextIInv == IInv /\ [Next]_vars => IInv'
<1> SUFFICES ASSUME IInv, [Next]_vars
             PROVE  IInv'
  OBVIOUS
<1> USE DEF IInv, TypeOK, OneOwner, LocationOwner, Handshake, Awake,
            RescheduleRequested, GuestIsFetchedBack, Thread, Obj, PickContract,
            Entry, Location
<1>1. CASE UNCHANGED vars
  BY <1>1 DEF vars
<1>2. ASSUME NEW t \in Thread, InitThreadData(t)
      PROVE  IInv'
  BY <1>2 DEF InitThreadData, LockFree
<1>3. CASE RunIdleThread
  BY <1>3 DEF RunIdleThread
<1>4. ASSUME NEW v \in Vcpu, NEW from \in Caller, SleepThread(v, from)
      PROVE  IInv'
  BY <1>4, SleepIInv
<1>5. ASSUME NEW t \in Thread, NEW from \in Caller, WakeThread(t, from)
      PROVE  IInv'
  BY <1>5, WakeIInv
<1>6. ASSUME NEW v \in Injected, NEW from \in Caller, VcpuMakeRequest(v, from)
      PROVE  IInv'
  BY <1>6 DEF VcpuMakeRequest, CallerAt, InHypervisor,
              MakeRescheduleRequest, Caller
<1>7. CASE TimerTick
  BY <1>7 DEF TimerTick, InHypervisor, MakeRescheduleRequest
<1>8. ASSUME NEW t \in Obj, PickContract(t), SchedulePick(t)
      PROVE  IInv'
  BY <1>8 DEF SchedulePick, MayCallSchedule
<1>9. CASE ScheduleSwitch
  BY <1>9, SwitchIInv
<1>10. CASE IdleTest
  BY <1>10 DEF IdleTest, Move
<1>11. CASE IdleWfi
  BY <1>11 DEF IdleWfi, Move
<1>12. CASE IdleWakeup
  BY <1>12 DEF IdleWakeup, Move
<1>13. CASE TakeIrq
  BY <1>13 DEF TakeIrq
<1>14. CASE FirstEntry
  BY <1>14 DEF FirstEntry
<1>15. CASE GuestIrq
  BY <1>15 DEF GuestIrq, Move
<1>16. CASE GuestTrap
  BY <1>16 DEF GuestTrap, Move
<1>17. CASE GuestYield
  BY <1>17 DEF GuestYield, MakeRescheduleRequest
<1>18. CASE ClearIfCurrentOnly
  BY <1>18 DEF ClearIfCurrentOnly
<1>19. ASSUME NEW why \in Entry, GuestResume(why)
      PROVE  IInv'
  BY <1>19 DEF GuestResume
<1>20. CASE HelperYield
  BY <1>20 DEF HelperYield, MakeRescheduleRequest
<1>21. CASE HelperSleep
  BY <1>21 DEF HelperSleep, MakeRescheduleRequest
<1> HIDE DEF IInv
<1>22. QED
  BY <1>1, <1>2, <1>3, <1>4, <1>5, <1>6, <1>7, <1>8, <1>9, <1>10, <1>11,
     <1>12, <1>13, <1>14, <1>15, <1>16, <1>17, <1>18, <1>19, <1>20, <1>21
  DEF Next, Calls, Steps

\* The inductive invariant holds in every reachable state.
THEOREM Invariance == Spec => []IInv
BY InitIInv, NextIInv, PTL DEF Spec

\* Type correctness of the framework's state.
THEOREM TypeCorrect == Spec => []TypeOK
BY Invariance, PTL DEF IInv

\* schedule(), sleep_thread and wake_thread never leave two threads RUNNING, or
\* an owner that is not RUNNING.
THEOREM Ownership == Spec => []OneOwner
BY Invariance, PTL DEF IInv

\* No interleaving of sleep_thread, wake_thread, ticks, the clearing of
\* NEED_RESCHEDULE and schedule() loses a reschedule that is needed.
THEOREM NoLostReschedule == Spec => []RescheduleRequested
BY Invariance, PTL DEF IInv

\* A guest that was entered with the flag tested is always fetched back by an
\* interrupt when a reschedule is requested.
THEOREM GuestFetchedBack == Spec => []GuestIsFetchedBack
BY Invariance, PTL DEF IInv

\* sched_clear_reschedule_if_current_only never drops a request that another
\* thread needs.
THEOREM FairClear == Spec => ClearPreservesFairness
<1>1. ASSUME IInv, [Next]_vars, ~UNCHANGED vars,
             pc # "switch", flags # {}, flags' = {}
      PROVE  Awake = {curr}
  <2>1. CASE ClearIfCurrentOnly
    <3>1. Awake \subseteq thread_list
      BY <1>1 DEF IInv, TypeOK, Handshake, Awake, Thread, Obj
    <3>2. QED
      BY <1>1, <2>1, <3>1 DEF ClearIfCurrentOnly
  <2>2. CASE ~ClearIfCurrentOnly
    BY <1>1, <2>2
       DEF Next, Calls, Steps, InitThreadData, SleepThread, WakeThread,
           VcpuMakeRequest, MakeRescheduleRequest, RunIdleThread,
           ScheduleSwitch, IdleTest, IdleWfi, IdleWakeup, Move, TakeIrq,
           FirstEntry, GuestIrq, GuestTrap, GuestYield, GuestResume,
           HelperYield, HelperSleep, TimerTick, SchedulePick
  <2>3. QED
    BY <2>1, <2>2
<1>2. IInv /\ [Next]_vars =>
        [(pc # "switch" /\ flags # {} /\ flags' = {}) => Awake = {curr}]_vars
  BY <1>1
<1>3. QED
  BY <1>2, Invariance, PTL DEF Spec, ClearPreservesFairness

\* Every step of the framework is a step of ThreadOwner, or none: only
\* sleep_thread and wake_thread change who is awake, only schedule() and
\* run_idle_thread who owns the pCPU.
LEMMA StepImplementsOwner ==
    IInv /\ [Next]_vars => [Owner!Next]_<<Awake, curr>>
<1> SUFFICES ASSUME IInv, [Next]_vars
             PROVE  [Owner!Next]_<<Awake, curr>>
  OBVIOUS
<1> USE DEF Owner!Next
<1>1. CASE UNCHANGED vars
  BY <1>1 DEF vars, Awake
<1>2. ASSUME NEW v \in Vcpu, NEW from \in Caller, SleepThread(v, from)
      PROVE  Owner!Sleep(v)
  <2>1. Awake' = Awake \ {v}
    BY <1>2 DEF SleepThread, Awake, IInv, TypeOK, Thread, Obj
  <2>2. QED
    BY <1>2, <2>1 DEF Owner!Sleep, SleepThread
<1>3. ASSUME NEW t \in Thread, NEW from \in Caller, WakeThread(t, from)
      PROVE  Owner!Wake(t)
  <2>1. Awake' = Awake \cup {t}
    BY <1>3 DEF WakeThread, Awake, IInv, TypeOK, OneOwner, Handshake, Thread, Obj
  <2>2. QED
    BY <1>3, <2>1 DEF Owner!Wake, WakeThread
<1>4. CASE HelperSleep
  <2>1. Awake' = Awake \ {curr} /\ curr \in Thread
    BY <1>4 DEF HelperSleep, Awake, IInv, LocationOwner, Thread
  <2>2. QED
    BY <1>4, <2>1 DEF Owner!Sleep, HelperSleep
<1>5. CASE RunIdleThread
  BY <1>5 DEF RunIdleThread, Awake, Owner!Start, IInv, LocationOwner, TypeOK,
              Thread, Obj
<1>6. CASE ScheduleSwitch
  BY <1>6, SwitchKeepsAwake
     DEF Owner!Dispatch, PickContract, ScheduleSwitch, IInv, LocationOwner
<1>7. ASSUME NEW t \in Thread, InitThreadData(t)
      PROVE  UNCHANGED <<Awake, curr>>
  BY <1>7 DEF InitThreadData, Awake, IInv, TypeOK, Thread, Obj
<1>8. QED
  BY <1>1, <1>2, <1>3, <1>4, <1>5, <1>6, <1>7
     DEF Next, Calls, Steps, VcpuMakeRequest, IdleTest, IdleWfi, IdleWakeup,
         Move, TakeIrq, FirstEntry, GuestIrq, GuestTrap, GuestYield,
         ClearIfCurrentOnly, GuestResume, HelperYield, TimerTick, SchedulePick,
         Awake, Thread

\* The scheduler framework implements the promise it makes to its callers.
THEOREM Refinement == Spec => ImplementsOwner
<1>1. Init => Owner!Init
  BY DEF Init, Owner!Init, Awake, Thread, Obj
<1>2. QED
  BY <1>1, Invariance, StepImplementsOwner, PTL
     DEF Spec, ImplementsOwner, Owner!Spec

=============================================================================
