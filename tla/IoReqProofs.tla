---------------------------- MODULE IoReqProofs -----------------------------
(***************************************************************************)
(* Proofs about waiting vCPUs (IoReq) for every set of vCPUs, every choice *)
(* of the polling ones and of the ones interrupts are injected into.       *)
(***************************************************************************)
EXTENDS IoReq, TLAPS

Place == {"top", "pending", "reset", "guest", "vint", "ioreq", "poll", "complete"}

IoTypeOK ==
    /\ awake \subseteq Thread
    /\ set \subseteq Event
    /\ waiting_thread \in [Event -> Thread \cup {None}]
    /\ phase \in [Thread -> {"enter", "schedule", "check"}]
    /\ pc \in [Thread -> Place]
    /\ vstate \in [Thread -> {"INIT", "RUNNING", "ZOMBIE"}]
    /\ processed \in [Thread -> {"FREE", "PENDING", "COMPLETE"}]

\* A thread is registered for an event exactly while it is in the loop of
\* wait_event for it.
Registered ==
    \A v \in Thread :
        /\ phase[v] # "enter" => pc[v] \in Kind
        /\ \A k \in Kind :
             /\ waiting_thread[<<v, k>>] \in {v, None}
             /\ waiting_thread[<<v, k>>] = v <=> pc[v] = k /\ phase[v] # "enter"

\* The slot of a vCPU follows the place it is at; of a vCPU that waits with an
\* event, the notification and the signal come only after the answer.
SlotFollows ==
    \A v \in Thread :
        /\ processed[v] = "FREE" <=> pc[v] \notin {"ioreq", "poll", "complete"}
        /\ pc[v] = "complete" => processed[v] = "COMPLETE"
        /\ pc[v] = "ioreq" => v \notin Polling
        /\ pc[v] = "poll" => v \in Polling
        /\ <<v, "ioreq">> \in set \/ (Notify(v) \in remote /\ v \notin Polling) =>
              pc[v] = "ioreq" /\ processed[v] = "COMPLETE"
        /\ <<v, "ioreq">> \in set => Notify(v) \notin remote

\* A vCPU in HLT has seen no interrupt pending when it decided to wait.
HaltSeen ==
    \A v \in Thread :
        pc[v] = "vint" /\ v \in pending =>
            Signal(v) \in remote \/ <<v, "vint">> \in set

\* SignalWakes, for a thread and its own event.
Woken ==
    \A v \in Thread, k \in Kind :
        <<v, k>> \in set /\ waiting_thread[<<v, k>>] # None =>
            v \in awake \/ vstate[v] = "ZOMBIE"

\* The inductive invariant.
IoInv == IoTypeOK /\ Registered /\ SlotFollows /\ HaltSeen /\ Woken

USE IoReqAssumption DEF Notify, Signal

-----------------------------------------------------------------------------

\* Nothing waits at first.
LEMMA IoInitInv == IoInit => IoInv
BY DEF IoInit, Init, InitEvent, IoInv, IoTypeOK, Registered, SlotFollows, HaltSeen,
       Woken, Event, Place

\* Registrations stay right when only threads outside of wait_event move.
LEMMA RegisteredFrame ==
    ASSUME Registered, waiting_thread' = waiting_thread, phase' = phase,
           \A u \in Thread : pc'[u] = pc[u] \/ phase[u] = "enter"
    PROVE  Registered'
<1> SUFFICES ASSUME NEW u \in Thread
             PROVE  /\ phase'[u] # "enter" => pc'[u] \in Kind
                    /\ \A k \in Kind :
                         /\ waiting_thread'[<<u, k>>] \in {u, None}
                         /\ waiting_thread'[<<u, k>>] = u <=> pc'[u] = k /\ phase'[u] # "enter"
  BY Zenon DEF Registered
<1>1. CASE pc'[u] = pc[u]
  BY <1>1 DEF Registered
<1>2. CASE phase[u] = "enter"
  BY <1>2 DEF Registered
<1>3. QED
  BY <1>1, <1>2

\* They stay right when one thread, in wait_event or not, changes its own.
LEMMA RegisteredStep ==
    ASSUME Registered, NEW v \in Thread,
           \A u \in Thread \ {v} :
               /\ pc'[u] = pc[u] /\ phase'[u] = phase[u]
               /\ \A k \in Kind : waiting_thread'[<<u, k>>] = waiting_thread[<<u, k>>],
           phase'[v] # "enter" => pc'[v] \in Kind,
           \A k \in Kind :
               /\ waiting_thread'[<<v, k>>] \in {v, None}
               /\ waiting_thread'[<<v, k>>] = v <=> pc'[v] = k /\ phase'[v] # "enter"
    PROVE  Registered'
<1> SUFFICES ASSUME NEW u \in Thread
             PROVE  /\ phase'[u] # "enter" => pc'[u] \in Kind
                    /\ \A k \in Kind :
                         /\ waiting_thread'[<<u, k>>] \in {u, None}
                         /\ waiting_thread'[<<u, k>>] = u <=> pc'[u] = k /\ phase'[u] # "enter"
  BY Zenon DEF Registered
<1>1. CASE u = v
  BY <1>1
<1>2. CASE u # v
  BY <1>2 DEF Registered
<1>3. QED
  BY <1>1, <1>2

\* A step that leaves events and places alone, and neither adds a request, an
\* answer, a signal or a notification nor puts a vCPU to sleep that is not a
\* zombie.
LEMMA QuietKeepsInv ==
    ASSUME IoInv,
           UNCHANGED <<set, waiting_thread, phase, pc, processed, pending, remote>>,
           awake' \in SUBSET Thread,
           vstate' \in [Thread -> {"INIT", "RUNNING", "ZOMBIE"}],
           \A v \in Thread : v \in awake \/ vstate[v] = "ZOMBIE" =>
                                 v \in awake' \/ vstate'[v] = "ZOMBIE"
    PROVE  IoInv'
<1> USE DEF IoInv
<1>1. IoTypeOK'
  BY DEF IoTypeOK
<1>2. Registered'
  BY RegisteredFrame
<1>3. SlotFollows' /\ HaltSeen'
  BY DEF SlotFollows, HaltSeen
<1>4. Woken'
  BY Zenon DEF Woken
<1>5. QED
  BY <1>1, <1>2, <1>3, <1>4

\* The pCPU starts and dispatches; vCPUs are launched and stopped.
LEMMA LifeKeepsInv ==
    ASSUME IoInv,
           Boot \/ IdleSchedule
           \/ \E v \in Thread : LaunchVcpu(v) \/ ZombieVcpu(v) \/ SleepSyncDone(v)
    PROVE  IoInv'
<1> USE DEF IoInv, evars, iovars
<1>1. CASE Boot \/ IdleSchedule
  BY <1>1, QuietKeepsInv DEF Boot, Start, IdleSchedule, Dispatch, IoTypeOK
<1>2. ASSUME NEW v \in Thread, LaunchVcpu(v) \/ ZombieVcpu(v) \/ SleepSyncDone(v)
      PROVE  IoInv'
  BY <1>2, QuietKeepsInv DEF LaunchVcpu, ZombieVcpu, SleepSyncDone, Sleep, Wake, IoTypeOK
<1>3. QED
  BY <1>1, <1>2

\* A vCPU that moves outside of wait_event and of its I/O request, where pending
\* requests may be forgotten and HLT is reached with none.
LEMMA MoveKeepsInv ==
    ASSUME IoInv, NEW v \in Thread, NEW to \in {"pending", "reset", "guest", "top", "vint"},
           pc[v] \in {"top", "pending", "reset", "guest"},
           pc' = [pc EXCEPT ![v] = to],
           UNCHANGED <<awake, set, waiting_thread, phase, vstate, processed, remote>>,
           pending' \in {pending, pending \ {v}},
           to = "vint" => v \notin pending'
    PROVE  IoInv'
<1> USE DEF IoInv
<1>1. IoTypeOK'
  BY DEF IoTypeOK, Place
<1>2. Registered'
  <2>1. phase[v] = "enter" /\ \A k \in Kind : waiting_thread[<<v, k>>] = None
    BY DEF Registered
  <2>2. \A u \in Thread \ {v} : pc'[u] = pc[u]
    BY DEF IoTypeOK
  <2>3. QED
    BY <2>1, <2>2, RegisteredFrame
<1>3. SlotFollows'
  BY Zenon DEF SlotFollows, IoTypeOK
<1>4. HaltSeen'
  BY DEF HaltSeen, IoTypeOK
<1>5. Woken'
  BY Zenon DEF Woken
<1>6. QED
  BY <1>1, <1>2, <1>3, <1>4, <1>5

\* The steps of the vCPU loop up to HLT, the reset of the event apart.
LEMMA LoopKeepsInv ==
    ASSUME IoInv, NEW v \in Thread,
           TopSchedule(v) \/ TopContinue(v) \/ HandlePending(v) \/ Exit(v) \/ HltExit(v)
    PROVE  IoInv'
<1> USE MoveKeepsInv DEF evars, iovars, Step, Goto
<1>1. CASE TopSchedule(v)
  BY <1>1, Zenon DEF TopSchedule, Dispatch
<1>2. CASE TopContinue(v)
  BY <1>2, Zenon DEF TopContinue
<1>3. CASE HandlePending(v)
  BY <1>3, Zenon DEF HandlePending
<1>4. CASE Exit(v)
  BY <1>4, Zenon DEF Exit
<1>5. CASE HltExit(v)
  BY <1>5, Zenon DEF HltExit
<1>6. QED
  BY <1>1, <1>2, <1>3, <1>4, <1>5

\* The reset of the interrupt event: nobody is registered for it then, and the
\* vCPU is not in HLT.
LEMMA ResetKeepsInv ==
    ASSUME IoInv, NEW v \in Thread, ResetVint(v)
    PROVE  IoInv'
<1> USE DEF IoInv, evars, iovars
<1>1. /\ pc[v] = "reset" /\ pc' = [pc EXCEPT ![v] = "guest"]
      /\ set' = set \ {<<v, "vint">>}
      /\ UNCHANGED <<awake, owner, phase, vstate, processed, pending, remote>>
  BY DEF ResetVint, ResetEvent, Step, Goto
<1>2. phase[v] = "enter" /\ \A k \in Kind : waiting_thread[<<v, k>>] = None
  BY <1>1 DEF Registered
<1>3. waiting_thread' = waiting_thread
  BY <1>2 DEF ResetVint, ResetEvent, IoTypeOK, Event
<1>4. \A u \in Thread \ {v} : pc'[u] = pc[u]
  BY <1>1 DEF IoTypeOK
<1>5. IoTypeOK'
  BY <1>1, <1>3 DEF IoTypeOK, Place
<1>6. Registered'
  BY <1>1, <1>2, <1>3, <1>4, RegisteredFrame
<1>7. SlotFollows' /\ HaltSeen'
  BY <1>1, <1>4 DEF SlotFollows, HaltSeen, IoTypeOK
<1>8. Woken'
  BY <1>1, <1>3, Zenon DEF Woken
<1>9. QED
  BY <1>5, <1>6, <1>7, <1>8

\* The slot is filled, polled and freed.
LEMMA RequestKeepsInv ==
    ASSUME IoInv, NEW v \in Thread, InsertRequest(v) \/ Poll(v) \/ IoComplete(v)
    PROVE  IoInv'
<1> USE DEF IoInv, evars, iovars, Step, Goto
<1>1. CASE InsertRequest(v)
  <2>1. /\ pc[v] = "guest" /\ processed[v] = "FREE"
        /\ pc' = [pc EXCEPT ![v] = IF v \in Polling THEN "poll" ELSE "ioreq"]
        /\ processed' = [processed EXCEPT ![v] = "PENDING"]
        /\ UNCHANGED <<awake, set, waiting_thread, phase, vstate, pending, remote>>
    BY <1>1, Zenon DEF InsertRequest, SlotFollows
  <2>2. phase[v] = "enter" /\ \A k \in Kind : waiting_thread[<<v, k>>] = None
    BY <2>1 DEF Registered
  <2>3. IoTypeOK'
    BY <2>1 DEF IoTypeOK, Place
  <2>4. Registered'
    BY <2>1, <2>2, RegisteredFrame DEF IoTypeOK
  <2>5. SlotFollows' /\ HaltSeen' /\ Woken'
    BY <2>1, <2>2 DEF SlotFollows, HaltSeen, Woken, IoTypeOK
  <2>6. QED
    BY <2>3, <2>4, <2>5
<1>2. CASE Poll(v)
  <2>1. CASE processed[v] = "COMPLETE"
    <3>1. /\ pc[v] = "poll" /\ pc' = [pc EXCEPT ![v] = "complete"]
          /\ UNCHANGED <<awake, set, waiting_thread, phase, vstate, processed, pending, remote>>
      BY <1>2, <2>1 DEF Poll
    <3>2. phase[v] = "enter" /\ \A k \in Kind : waiting_thread[<<v, k>>] = None
      BY <3>1 DEF Registered
    <3>3. IoTypeOK' /\ Woken'
      BY <3>1 DEF IoTypeOK, Place, Woken
    <3>4. Registered'
      BY <3>1, <3>2, RegisteredFrame DEF IoTypeOK
    <3>5. SlotFollows' /\ HaltSeen'
      BY <2>1, <3>1 DEF SlotFollows, HaltSeen, IoTypeOK
    <3>6. QED
      BY <3>3, <3>4, <3>5
  <2>2. CASE processed[v] # "COMPLETE"
    BY <1>2, <2>2, QuietKeepsInv DEF Poll, Dispatch, IoTypeOK
  <2>3. QED
    BY <2>1, <2>2
<1>3. CASE IoComplete(v)
  <2>1. /\ pc[v] = "complete" /\ pc' = [pc EXCEPT ![v] = "top"]
        /\ processed' = [processed EXCEPT ![v] = "FREE"]
        /\ UNCHANGED <<awake, set, waiting_thread, phase, vstate, pending, remote>>
    BY <1>3, Zenon DEF IoComplete, SlotFollows
  <2>2. phase[v] = "enter" /\ \A k \in Kind : waiting_thread[<<v, k>>] = None
    BY <2>1 DEF Registered
  <2>3. IoTypeOK' /\ Woken'
    BY <2>1 DEF IoTypeOK, Place, Woken
  <2>4. Registered'
    BY <2>1, <2>2, RegisteredFrame DEF IoTypeOK
  <2>5. SlotFollows' /\ HaltSeen'
    BY <2>1 DEF SlotFollows, HaltSeen, IoTypeOK
  <2>6. QED
    BY <2>3, <2>4, <2>5
<1>4. QED
  BY <1>1, <1>2, <1>3

\* wait_event for k, which ends at `done': the thread registers and sleeps, or
\* leaves when the event is set.
LEMMA WaitKeepsInv ==
    ASSUME IoInv, NEW v \in Thread, NEW k \in Kind, NEW done \in {"top", "complete"},
           done = (IF k = "vint" THEN "top" ELSE "complete"),
           WaitEvent(v, k, done) \/ WaitCheck(v, k, done), UNCHANGED iovars
    PROVE  IoInv'
<1> USE DEF IoInv, iovars
<1>1. pc[v] = k /\ <<v, k>> \in Event /\ done \in Place /\ done \notin Kind
  BY DEF WaitEvent, WaitCheck, Event, Place
<1>2. \A j \in Kind : j # k => waiting_thread[<<v, j>>] = None
  BY <1>1 DEF Registered
<1>3. CASE Leave(v, k, done)
  <2>1. /\ set' = set \ {<<v, k>>} /\ waiting_thread' = [waiting_thread EXCEPT ![<<v, k>>] = None]
        /\ pc' = [pc EXCEPT ![v] = done] /\ phase' = [phase EXCEPT ![v] = "enter"]
        /\ UNCHANGED <<awake, owner>>
    BY <1>3 DEF Leave, Consume, Goto
  <2>2. <<v, k>> \in set
    <3>1. CASE phase[v] = "check"
      <4>1. waiting_thread[<<v, k>>] = v
        BY <1>1, <3>1, Zenon DEF Registered
      <4>2. pc' # pc
        BY <1>1, <2>1 DEF IoTypeOK
      <4>3. QED
        BY <3>1, <4>1, <4>2 DEF WaitEvent, WaitCheck, GoToSleep
    <3>2. CASE phase[v] # "check"
      <4>1. pc' # pc
        BY <1>1, <2>1 DEF IoTypeOK
      <4>2. QED
        BY <3>2, <4>1 DEF WaitEvent, WaitCheck, GoToSleep
    <3>3. QED
      BY <3>1, <3>2
  <2>3. IoTypeOK'
    BY <1>1, <2>1 DEF IoTypeOK
  <2>4. /\ \A u \in Thread \ {v} : pc'[u] = pc[u] /\ phase'[u] = phase[u]
        /\ pc'[v] = done /\ phase'[v] = "enter"
    BY <2>1 DEF IoTypeOK
  <2>w. /\ waiting_thread'[<<v, k>>] = None
        /\ \A u \in Thread, j \in Kind : u # v \/ j # k =>
              waiting_thread'[<<u, j>>] = waiting_thread[<<u, j>>]
    BY <2>1 DEF IoTypeOK, Event
  <2>5. \A j \in Kind : waiting_thread'[<<v, j>>] = None
    BY <1>2, <2>w
  <2>6. Registered'
    <3>1. \A u \in Thread \ {v} : \A j \in Kind :
             waiting_thread'[<<u, j>>] = waiting_thread[<<u, j>>]
      BY <2>w, Zenon
    <3>2. \A j \in Kind :
             /\ waiting_thread'[<<v, j>>] \in {v, None}
             /\ waiting_thread'[<<v, j>>] = v <=> pc'[v] = j /\ phase'[v] # "enter"
      BY <2>4, <2>5
    <3>3. QED
      BY <2>4, <3>1, <3>2, RegisteredStep
  <2>7. SlotFollows'
    <3>1. CASE k = "vint"
      BY <1>1, <2>1, <2>4, <3>1, ZenonT(30) DEF SlotFollows
    <3>2. CASE k = "ioreq"
      BY <1>1, <2>1, <2>2, <2>4, <3>2, ZenonT(30) DEF SlotFollows
    <3>3. QED
      BY <3>1, <3>2
  <2>8. HaltSeen'
    BY <1>1, <2>1, <2>4 DEF HaltSeen
  <2>9. Woken'
    BY <2>1, <2>5, <2>w, ZenonT(30) DEF Woken
  <2>10. QED
    BY <2>3, <2>6, <2>7, <2>8, <2>9
<1>4. CASE ~Leave(v, k, done)
  <2>1. /\ <<v, k>> \notin set /\ waiting_thread' = [waiting_thread EXCEPT ![<<v, k>>] = v]
        /\ awake' = awake \ {v} /\ phase' = [phase EXCEPT ![v] = "schedule"]
        /\ UNCHANGED <<set, pc>>
    <3>1. CASE WaitEvent(v, k, done)
      BY <1>4, <3>1 DEF WaitEvent, GoToSleep, Sleep
    <3>2. CASE WaitCheck(v, k, done)
      <4>1. waiting_thread[<<v, k>>] = v
        <5>1. phase[v] = "check"
          BY <3>2 DEF WaitCheck
        <5>2. QED
          BY <1>1, <5>1, Zenon DEF Registered
      <4>2. waiting_thread = [waiting_thread EXCEPT ![<<v, k>>] = v]
        BY <1>1, <4>1 DEF IoTypeOK
      <4>3. GoToSleep(v) /\ UNCHANGED waiting_thread /\ <<v, k>> \notin set
        BY <1>4, <3>2 DEF WaitCheck
      <4>4. QED
        BY <4>2, <4>3 DEF GoToSleep, Sleep
    <3>3. QED
      BY <3>1, <3>2
  <2>2. IoTypeOK'
    BY <1>1, <2>1 DEF IoTypeOK
  <2>w. /\ waiting_thread'[<<v, k>>] = v
        /\ \A u \in Thread, j \in Kind : u # v \/ j # k =>
              waiting_thread'[<<u, j>>] = waiting_thread[<<u, j>>]
    BY <2>1 DEF IoTypeOK, Event
  <2>3. /\ \A u \in Thread \ {v} : phase'[u] = phase[u]
        /\ phase'[v] = "schedule"
    BY <2>1 DEF IoTypeOK
  <2>4. Registered'
    <3>1. \A u \in Thread \ {v} : \A j \in Kind :
             waiting_thread'[<<u, j>>] = waiting_thread[<<u, j>>]
      BY <2>w, Zenon
    <3>2. \A j \in Kind :
             /\ waiting_thread'[<<v, j>>] \in {v, None}
             /\ waiting_thread'[<<v, j>>] = v <=> pc'[v] = j /\ phase'[v] # "enter"
      BY <1>1, <1>2, <2>1, <2>3, <2>w
    <3>3. QED
      BY <1>1, <2>1, <2>3, <3>1, <3>2, RegisteredStep
  <2>5. SlotFollows' /\ HaltSeen'
    BY <2>1 DEF SlotFollows, HaltSeen
  <2>6. Woken'
    <3> SUFFICES ASSUME NEW u \in Thread, NEW j \in Kind,
                        <<u, j>> \in set, waiting_thread'[<<u, j>>] # None
                 PROVE  u \in awake' \/ vstate'[u] = "ZOMBIE"
      BY <2>1, Zenon DEF Woken
    <3>1. u # v
      BY <1>2, <2>1, <2>w
    <3>2. QED
      BY <2>1, <2>w, <3>1, Zenon DEF Woken
  <2>7. QED
    BY <2>2, <2>4, <2>5, <2>6
<1>5. QED
  BY <1>3, <1>4

\* schedule() within wait_event.
LEMMA WaitScheduleKeepsInv ==
    ASSUME IoInv, NEW v \in Thread, WaitSchedule(v), UNCHANGED iovars
    PROVE  IoInv'
<1> USE DEF IoInv, iovars
<1>1. /\ phase[v] = "schedule" /\ phase' = [phase EXCEPT ![v] = "check"]
      /\ UNCHANGED <<set, waiting_thread, pc, awake>>
  BY DEF WaitSchedule, Dispatch
<1>2. IoTypeOK'
  BY <1>1 DEF IoTypeOK
<1>3. phase'[v] = "check" /\ \A u \in Thread \ {v} : phase'[u] = phase[u]
  BY <1>1 DEF IoTypeOK
<1>4. Registered'
  <2>1. /\ pc[v] \in Kind
        /\ \A k \in Kind : /\ waiting_thread[<<v, k>>] \in {v, None}
                           /\ waiting_thread[<<v, k>>] = v <=> pc[v] = k
    BY <1>1 DEF Registered
  <2>2. QED
    BY <1>1, <1>3, <2>1, RegisteredStep
<1>5. SlotFollows' /\ HaltSeen' /\ Woken'
  BY <1>1 DEF SlotFollows, HaltSeen, Woken
<1>6. QED
  BY <1>2, <1>4, <1>5

\* signal_event: the event is set, and the thread registered for it is woken.
LEMMA SignalEffect ==
    ASSUME IoInv, NEW v \in Thread, NEW k \in Kind, SignalEvent(<<v, k>>),
           UNCHANGED <<pc, vstate>>
    PROVE  /\ set' = set \cup {<<v, k>>} /\ UNCHANGED <<waiting_thread, phase>>
           /\ awake' \subseteq Thread
           /\ Registered' /\ Woken'
<1> USE DEF IoInv
<1>1. set' = set \cup {<<v, k>>} /\ UNCHANGED <<waiting_thread, phase>>
  BY DEF SignalEvent
<1>2. waiting_thread[<<v, k>>] \in {v, None}
  BY Zenon DEF Registered
<1>3. /\ awake \subseteq awake' /\ awake' \subseteq Thread
      /\ waiting_thread[<<v, k>>] # None => v \in awake'
  BY <1>2 DEF SignalEvent, Wake, IoTypeOK
<1>4. Registered'
  BY <1>1, RegisteredFrame
<1>5. Woken'
  BY <1>1, <1>3, Zenon DEF Woken
<1>6. QED
  BY <1>1, <1>3, <1>4, <1>5

\* The device model answers and notifies.
LEMMA DmKeepsInv ==
    ASSUME IoInv, NEW v \in Thread, DmStep(v)
    PROVE  IoInv'
<1> USE DEF IoInv, evars
<1>1. CASE DmAnswer(v)
  <2>1. /\ processed[v] = "PENDING" /\ processed' = [processed EXCEPT ![v] = "COMPLETE"]
        /\ remote' = remote \cup {Notify(v)}
        /\ UNCHANGED <<awake, set, waiting_thread, phase, pc, vstate, pending>>
    BY <1>1 DEF DmAnswer
  <2>2. IoTypeOK' /\ Woken'
    BY <2>1 DEF IoTypeOK, Woken
  <2>3. Registered'
    BY <2>1, RegisteredFrame
  <2>4. SlotFollows' /\ HaltSeen'
    <3>1. /\ \A u \in Thread \ {v} : processed'[u] = processed[u]
          /\ processed'[v] = "COMPLETE" /\ pc[v] \in {"ioreq", "poll"}
          /\ pc[v] = "poll" => v \in Polling
      BY <2>1, Zenon DEF SlotFollows, IoTypeOK, Place
    <3>2. SlotFollows'
      BY <2>1, <3>1, Zenon DEF SlotFollows
    <3>3. HaltSeen'
      BY <2>1 DEF HaltSeen
    <3>4. QED
      BY <3>2, <3>3
  <2>5. QED
    BY <2>2, <2>3, <2>4
<1>2. CASE NotifyIoreqFinish(v)
  <2>1. /\ Notify(v) \in remote /\ remote' = remote \ {Notify(v)}
        /\ UNCHANGED <<pc, vstate, processed, pending>>
    BY <1>2 DEF NotifyIoreqFinish
  <2>2. CASE v \in Polling
    <3>1. UNCHANGED <<awake, set, waiting_thread, phase>>
      BY <1>2, <2>2 DEF NotifyIoreqFinish
    <3>2. IoTypeOK' /\ Woken'
      BY <2>1, <3>1 DEF IoTypeOK, Woken
    <3>3. Registered'
      BY <2>1, <3>1, RegisteredFrame
    <3>4. SlotFollows' /\ HaltSeen'
      BY <2>1, <3>1 DEF SlotFollows, HaltSeen
    <3>5. QED
      BY <3>2, <3>3, <3>4
  <2>3. CASE v \notin Polling
    <3>1. /\ set' = set \cup {<<v, "ioreq">>} /\ UNCHANGED <<waiting_thread, phase>>
          /\ awake' \subseteq Thread
          /\ Registered' /\ Woken'
      BY <1>2, <2>1, <2>3, SignalEffect, Zenon DEF NotifyIoreqFinish
    <3>2. IoTypeOK'
      BY <2>1, <3>1 DEF IoTypeOK, Event
    <3>3. SlotFollows' /\ HaltSeen'
      BY <2>1, <2>3, <3>1 DEF SlotFollows, HaltSeen
    <3>4. QED
      BY <3>1, <3>2, <3>3
  <2>4. QED
    BY <2>2, <2>3
<1>3. QED
  BY <1>1, <1>2 DEF DmStep

\* An interrupt is injected and signalled.
LEMMA InjectKeepsInv ==
    ASSUME IoInv, NEW v \in Thread, Inject(v) \/ InjectSignal(v)
    PROVE  IoInv'
<1> USE DEF IoInv, evars
<1>1. CASE Inject(v)
  <2>1. /\ pending' = pending \cup {v} /\ remote' = remote \cup {Signal(v)}
        /\ UNCHANGED <<awake, set, waiting_thread, phase, pc, vstate, processed>>
    BY <1>1 DEF Inject
  <2>2. IoTypeOK' /\ Woken'
    BY <2>1 DEF IoTypeOK, Woken
  <2>3. Registered'
    BY <2>1, RegisteredFrame
  <2>4. SlotFollows' /\ HaltSeen'
    BY <2>1 DEF SlotFollows, HaltSeen
  <2>5. QED
    BY <2>2, <2>3, <2>4
<1>2. CASE InjectSignal(v)
  <2>1. /\ remote' = remote \ {Signal(v)}
        /\ UNCHANGED <<pc, vstate, processed, pending>>
    BY <1>2 DEF InjectSignal
  <2>2. /\ set' = set \cup {<<v, "vint">>} /\ UNCHANGED <<waiting_thread, phase>>
        /\ awake' \subseteq Thread
        /\ Registered' /\ Woken'
    BY <1>2, <2>1, SignalEffect, Zenon DEF InjectSignal
  <2>3. IoTypeOK'
    BY <2>1, <2>2 DEF IoTypeOK, Event
  <2>4. SlotFollows' /\ HaltSeen'
    BY <2>1, <2>2 DEF SlotFollows, HaltSeen
  <2>5. QED
    BY <2>2, <2>3, <2>4
<1>3. QED
  BY <1>1, <1>2

\* Every step keeps the inductive invariant.
LEMMA IoNextInv == IoInv /\ [IoNext]_ivars => IoInv'
<1> SUFFICES ASSUME IoInv, [IoNext]_ivars PROVE IoInv'
  OBVIOUS
<1>1. ASSUME NEW v \in Thread, ThreadStep(v) PROVE IoInv'
  <2>1. CASE HltWait(v)
    BY <2>1, WaitKeepsInv DEF HltWait
  <2>2. CASE RequestWait(v)
    BY <2>2, WaitKeepsInv DEF RequestWait
  <2>3. QED
    BY <1>1, <2>1, <2>2, LoopKeepsInv, ResetKeepsInv, RequestKeepsInv,
       WaitScheduleKeepsInv DEF ThreadStep
<1>2. CASE IoNext
  BY <1>1, <1>2, LifeKeepsInv, DmKeepsInv, InjectKeepsInv DEF IoNext
<1>3. CASE UNCHANGED ivars
  BY <1>3, QuietKeepsInv DEF ivars, evars, iovars, IoInv, IoTypeOK
<1>4. QED
  BY <1>2, <1>3

-----------------------------------------------------------------------------

\* wait_event never finds another thread registered.
THEOREM WaitingExclusive == IoSpec => []ExclusiveWaiting
<1>1. IoInv => ExclusiveWaiting
  BY Zenon DEF IoInv, Registered, ExclusiveWaiting
<1>2. QED
  BY <1>1, IoInitInv, IoNextInv, PTL DEF IoSpec

\* No signal_event is lost: the registered thread of a set event is awake.
THEOREM NoLostSignal == IoSpec => []SignalWakes
<1>1. IoInv => SignalWakes
  <2> SUFFICES ASSUME IoInv, NEW e \in Event, e \in set, waiting_thread[e] # None
               PROVE  waiting_thread[e] \in awake \/ vstate[e[1]] = "ZOMBIE"
    BY DEF SignalWakes
  <2>1. PICK v \in Thread, k \in Kind : e = <<v, k>>
    BY DEF Event
  <2>2. waiting_thread[<<v, k>>] = v /\ e[1] = v
    BY <2>1, Zenon DEF IoInv, Registered
  <2>3. QED
    BY <2>1, <2>2, Zenon DEF IoInv, Woken
<1>2. QED
  BY <1>1, IoInitInv, IoNextInv, PTL DEF IoSpec

\* No vCPU passes dm_emulate_io_complete before its request was answered.
THEOREM ResumeAnswered == IoSpec => []AnswerBeforeResume
<1>1. IoInv => AnswerBeforeResume
  BY Zenon DEF IoInv, SlotFollows, AnswerBeforeResume
<1>2. QED
  BY <1>1, IoInitInv, IoNextInv, PTL DEF IoSpec

\* No vCPU sleeps in HLT on an interrupt whose injection is complete.
THEOREM HaltAnswered == IoSpec => []HaltHasNoInterrupt
<1>1. IoInv => HaltHasNoInterrupt
  <2> SUFFICES ASSUME IoInv, NEW v \in Thread, v \in pending, v \notin awake,
                      waiting_thread[<<v, "vint">>] = v
               PROVE  Signal(v) \in remote \/ vstate[v] = "ZOMBIE"
    BY DEF HaltHasNoInterrupt
  <2>1. pc[v] = "vint"
    BY Zenon DEF IoInv, Registered
  <2>2. QED
    BY <2>1, Zenon DEF IoInv, HaltSeen, Woken
<1>2. QED
  BY <1>1, IoInitInv, IoNextInv, PTL DEF IoSpec

=============================================================================
