------------------------------- MODULE Event --------------------------------
(***************************************************************************)
(* core/event.c: an event that one thread waits for and others signal, on  *)
(* top of the scheduler of one pCPU.  The scheduler appears as what it     *)
(* promises, ThreadOwner, which Schedule is proved to implement.           *)
(*                                                                         *)
(* Each operation holds the event's lock to its last effect; wait_event    *)
(* drops it around schedule().                                             *)
(***************************************************************************)
EXTENDS ThreadOwner

CONSTANT Kind   \* the events each thread has

Event == Thread \X Kind

VARIABLES
    set,             \* events with event.set
    waiting_thread,  \* event.waiting_thread
    phase,           \* how far each thread is in wait_event
    pc               \* where each thread stands; k in wait_event of its event k

evars == <<set, waiting_thread, phase>>

InitEvent ==
    /\ set = {}
    /\ waiting_thread = [e \in Event |-> None]
    /\ phase = [t \in Thread |-> "enter"]

Goto(t, place) == pc' = [pc EXCEPT ![t] = place]

ResetEvent(e) ==
    /\ set' = set \ {e}
    /\ waiting_thread' = [waiting_thread EXCEPT ![e] = None]
    /\ UNCHANGED phase

\* Mutant: the event stays set when the waiter leaves.
ConsumeNothing(e) ==
    /\ waiting_thread' = [waiting_thread EXCEPT ![e] = None]
    /\ UNCHANGED set

\* Mutant: the waiter stays registered.
ConsumeRegistered(e) ==
    /\ set' = set \ {e}
    /\ UNCHANGED waiting_thread

Consume(e) ==
    /\ set' = set \ {e}
    /\ waiting_thread' = [waiting_thread EXCEPT ![e] = None]

\* The end of wait_event: t continues at `done'.
Leave(t, k, done) ==
    /\ Consume(<<t, k>>)
    /\ Goto(t, done)
    /\ phase' = [phase EXCEPT ![t] = "enter"]
    /\ UNCHANGED <<awake, owner>>

\* The body of the loop of wait_event, up to schedule().
GoToSleep(t) ==
    /\ Sleep(t)
    /\ phase' = [phase EXCEPT ![t] = "schedule"]
    /\ UNCHANGED <<set, pc>>

\* wait_event up to its first schedule(): t registers and, unless the event is
\* set already, goes to sleep.  The assertion that nobody else is registered
\* is the property ExclusiveWaiting.
WaitEvent(t, k, done) ==
    /\ owner = t
    /\ pc[t] = k /\ phase[t] = "enter"
    /\ IF <<t, k>> \in set
       THEN Leave(t, k, done)
       ELSE /\ waiting_thread' = [waiting_thread EXCEPT ![<<t, k>>] = t]
            /\ GoToSleep(t)

\* schedule() in the loop of wait_event: it may come back to t at once.
WaitSchedule(t) ==
    /\ owner = t
    /\ phase[t] = "schedule"
    /\ Dispatch
    /\ phase' = [phase EXCEPT ![t] = "check"]
    /\ UNCHANGED <<set, waiting_thread, pc>>

\* t has the pCPU again and tests the loop condition.
WaitCheck(t, k, done) ==
    /\ owner = t
    /\ pc[t] = k /\ phase[t] = "check"
    /\ IF <<t, k>> \in set \/ waiting_thread[<<t, k>>] = None
       THEN Leave(t, k, done)
       ELSE GoToSleep(t) /\ UNCHANGED waiting_thread

\* Mutant: a waiter that still owns the pCPU is taken to be awake.
SignalSkipsOwner(e) ==
    /\ set' = set \cup {e}
    /\ IF waiting_thread[e] \in {None, owner}
       THEN UNCHANGED <<awake, owner>>
       ELSE Wake(waiting_thread[e])
    /\ UNCHANGED <<waiting_thread, phase>>

\* signal_event, from any pCPU.
SignalEvent(e) ==
    /\ set' = set \cup {e}
    /\ IF waiting_thread[e] = None
       THEN UNCHANGED <<awake, owner>>
       ELSE Wake(waiting_thread[e])
    /\ UNCHANGED <<waiting_thread, phase>>

-----------------------------------------------------------------------------

\* wait_event's assertion, "only support exclusive waiting": a thread that is
\* about to wait for an event finds nobody registered.
ExclusiveWaiting ==
    \A t \in Thread, k \in Kind :
        (pc[t] = k /\ phase[t] = "enter") => waiting_thread[<<t, k>>] = None

=============================================================================
