---------------------------- MODULE TimerProofs -----------------------------
(***************************************************************************)
(* Proofs about the timer list for every number of timers, every period,   *)
(* every MAX_TIMER_ACTIONS and every reach of the comparator.              *)
(***************************************************************************)
EXTENDS Timer, ListProofs, TLAPS

\* The timer whose callback runs, or has run, is not in the list: nobody else
\* can add it meanwhile.
Detached ==
    phase \in {"callback", "served"} => pos \in Timers /\ ~Started(pos)

\* A pass of the softirq has tries left, so that their number does not wrap.
TriesLeft == phase # "off" => tries # 0

\* The inductive invariant.
TimerInv == TypeOK /\ SortedList /\ Detached /\ TriesLeft /\ HardwareArmed

USE TimerAssumption

-----------------------------------------------------------------------------
\* Lists.

\* local_add_timer: the list gains t, keeps its order, and t or the old first
\* timer is the first.
LEMMA AddList ==
    ASSUME NEW l \in Seq(Timers), Distinct(l), NEW t \in Timers, t \notin Range(l),
           NEW to \in [Timers -> Nat], Sorted(l, to)
    PROVE  LET m == LocalAddTimer(l, to, t)
           IN  /\ m \in Seq(Timers) /\ Distinct(m) /\ Range(m) = Range(l) \cup {t}
               /\ m # <<>> /\ (Head(m) = t \/ (l # <<>> /\ Head(m) = Head(l)))
               /\ Sorted(m, to)
<1> DEFINE stop == {i \in DOMAIN l : to[t] <= to[l[i]]}
           m == LocalAddTimer(l, to, t)
<1>1. m = InsertBefore(l, stop, t) /\ stop \in SUBSET DOMAIN l
  BY DEF LocalAddTimer
<1>2. to \in [Timers -> Int] /\ \A i \in DOMAIN l : to[l[i]] \in Int
  OBVIOUS
<1>3. /\ \A i \in stop : to[t] <= to[l[i]]
      /\ \A i \in DOMAIN l \ stop : to[l[i]] <= to[t]
  BY <1>2
<1> HIDE DEF stop, m
<1>4. /\ m \in Seq(Timers) /\ Distinct(m) /\ Range(m) = Range(l) \cup {t}
      /\ m # <<>> /\ (Head(m) = t \/ (l # <<>> /\ Head(m) = Head(l)))
  BY <1>1, InsertList
<1>5. Sorted(m, to)
  BY <1>1, <1>2, <1>3, InsertSorted, Zenon
<1>6. QED
  BY <1>4, <1>5, Zenon DEF m

\* An iteration stays on timers and the head of the list.
LEMMA NextNodeType ==
    ASSUME NEW l \in Seq(Timers), NEW x \in Timers \cup {End}
    PROVE  NextNode(l, x) \in Timers \cup {End}
<1>1. CASE x # End /\ x \notin Range(l)
  BY <1>1 DEF NextNode
<1>2. CASE ~(x # End /\ x \notin Range(l))
  <2> DEFINE i == IF x = End THEN 0 ELSE CHOOSE j \in DOMAIN l : l[j] = x
  <2>1. i \in 0 .. Len(l) /\ Len(l) \in Nat
    BY <1>2 DEF Range
  <2> HIDE DEF i
  <2>2. i < Len(l) => l[i + 1] \in Timers
    BY <2>1
  <2>3. NextNode(l, x) = IF i < Len(l) THEN l[i + 1] ELSE End
    BY <1>2 DEF NextNode, i
  <2>4. QED
    BY <2>2, <2>3
<1>3. QED
  BY <1>1, <1>2

\* arch_set_timer_count: the comparator expires at the deadline, earlier, or at
\* the next tick if it has passed.
LEMMA CountArms ==
    ASSUME NEW d \in Nat, now \in Nat, SetTimerCount(d)
    PROVE  hw' \in Nat /\ hw' # 0 /\ (hw' <= d \/ hw' <= now + 1)
BY DEF SetTimerCount

\* advance_periodic_timer computes a deadline.
LEMMA AdvanceType ==
    ASSUME NEW d \in Nat, now \in Nat
    PROVE  AdvancePeriodicTimer(d) \in Nat
<1>1. CASE d + Period > now
  BY <1>1 DEF AdvancePeriodicTimer
<1>2. CASE ~(d + Period > now)
  <2> DEFINE q == (now - (d + Period)) \div Period
  <2>1. q \in Nat
    BY <1>2
  <2> HIDE DEF q
  <2>2. (q + 1) * Period \in Nat
    BY <2>1
  <2>3. AdvancePeriodicTimer(d) = d + Period + (q + 1) * Period
    BY <1>2 DEF AdvancePeriodicTimer, q
  <2>4. QED
    BY <2>2, <2>3
<1>3. QED
  BY <1>1, <1>2

-----------------------------------------------------------------------------
\* Steps.

\* The list is empty and the softirq is off at first.
LEMMA TimerInitInv == Init => TimerInv
<1> SUFFICES ASSUME Init PROVE TimerInv
  OBVIOUS
<1>1. list = <<>> /\ list \in Seq(Timers) /\ DOMAIN list = {} /\ phase = "off"
  BY DEF Init
<1>2. /\ now \in 1 .. MaxTime /\ current_tsc \in 0 .. now
      /\ tries \in 0 .. MAX_TIMER_ACTIONS /\ hw \in Nat
  BY DEF Init
<1>3. timeout \in [Timers -> Nat]
  BY DEF Init
<1>4. TypeOK
  BY <1>1, <1>2, <1>3, Zenon DEF Init, TypeOK
<1>5. QED
  BY <1>1, <1>4 DEF TimerInv, SortedList, Detached, TriesLeft, HardwareArmed

\* add_timer and del_timer, in a thread or in the callback of another timer.
LEMMA AddKeeps ==
    ASSUME TimerInv, NEW t \in Timers, NEW d \in Nat, AddTimer(t, d)
    PROVE  TimerInv'
<1>1. /\ list \in Seq(Timers) /\ Distinct(list) /\ Sorted(list, timeout)
      /\ timeout \in [Timers -> Nat] /\ now \in Nat /\ t \notin Range(list)
  BY DEF TimerInv, TypeOK, SortedList, Distinct, Sorted, AddTimer, Started
<1>2. /\ timeout' \in [Timers -> Nat] /\ timeout'[t] = d
      /\ \A u \in Timers \ {t} : timeout'[u] = timeout[u]
  BY <1>1 DEF AddTimer
<1>3. \A u \in Range(list) : u \in Timers /\ timeout'[u] = timeout[u]
  BY <1>1, <1>2 DEF Range
<1>4. Sorted(list, timeout')
  BY <1>1, <1>3, SortedFrame
<1>5. list' = LocalAddTimer(list, timeout', t)
  BY DEF AddTimer
<1>6. /\ list' \in Seq(Timers) /\ Distinct(list') /\ Range(list') = Range(list) \cup {t}
      /\ Sorted(list', timeout') /\ list' # <<>>
      /\ Head(list') = t \/ (list # <<>> /\ Head(list') = Head(list))
  BY <1>1, <1>2, <1>4, <1>5, AddList, Zenon
<1>7. hw' \in Nat /\ HardwareArmed'
  <2>1. CASE Head(list') = t
    <3>1. SetTimerCount(d)
      BY <1>2, <1>6, <2>1, SMTT(30) DEF AddTimer, UpdateArchitectureTimer
    <3>2. hw' \in Nat /\ hw' # 0 /\ (hw' <= d \/ hw' <= now + 1)
      BY <1>1, <3>1, CountArms, SMTT(30)
    <3>3. timeout'[Head(list')] = d /\ now' = now
      BY <1>2, <2>1 DEF AddTimer
    <3>4. QED
      BY <3>2, <3>3 DEF HardwareArmed
  <2>2. CASE Head(list') # t
    <3>1. hw' = hw /\ now' = now /\ phase' = phase /\ pending' = pending
      BY <2>2 DEF AddTimer, cursor
    <3>2. list # <<>> /\ Head(list') = Head(list) /\ Head(list) \in Range(list)
      BY <1>1, <1>6, <2>2 DEF Range
    <3>3. timeout'[Head(list')] = timeout[Head(list)]
      BY <1>3, <3>2
    <3>4. QED
      BY <3>1, <3>2, <3>3, SMTT(30) DEF TimerInv, TypeOK, HardwareArmed
  <2>3. QED
    BY <2>1, <2>2
<1>8. Detached' /\ TriesLeft'
  BY <1>6, Zenon DEF TimerInv, Detached, TriesLeft, AddTimer, MayChange, cursor, Started
<1>9. TypeOK'
  BY <1>2, <1>6, <1>7, Zenon DEF TimerInv, TypeOK, AddTimer, cursor, Distinct
<1>10. QED
  BY <1>6, <1>7, <1>8, <1>9, SMTT(30) DEF TimerInv, SortedList, Sorted

\* A timer is taken off the list and at most its own deadline changes: del_timer,
\* and the disarming of a guest's timer, at any point of the softirq.
LEMMA UnlinkKeeps ==
    ASSUME TimerInv, NEW t \in Timers, NEW d \in Nat,
           list' = Unlink(list, t),
           timeout' = timeout \/ timeout' = [timeout EXCEPT ![t] = d],
           UNCHANGED <<now, hw, pending, cursor>>
    PROVE  TimerInv'
<1>1. /\ list \in Seq(Timers) /\ Distinct(list) /\ Sorted(list, timeout)
      /\ timeout \in [Timers -> Nat]
  BY DEF TimerInv, TypeOK, SortedList, Distinct, Sorted
<1>2. /\ timeout' \in [Timers -> Nat]
      /\ \A u \in Timers \ {t} : timeout'[u] = timeout[u]
  BY <1>1
<1>3. /\ list' \in Seq(Timers) /\ Distinct(list') /\ Range(list') = Range(list) \ {t}
      /\ Sorted(list', timeout)
      /\ list' # <<>> => list # <<>> /\ timeout[Head(list)] <= timeout[Head(list')]
  <2>1. timeout \in [Timers -> Int]
    BY <1>1
  <2>2. QED
    BY <1>1, <2>1, UnlinkList, UnlinkSorted, Zenon
<1>4. \A u \in Range(list') : timeout'[u] = timeout[u]
  <2>1. Range(list') \subseteq Timers
    BY <1>3 DEF Range
  <2>2. QED
    BY <1>2, <1>3, <2>1, SMTT(30)
<1>5. Sorted(list', timeout')
  BY <1>3, <1>4, SortedFrame, SMTT(30)
<1>6. HardwareArmed'
  <2>1. CASE list' = <<>>
    BY <2>1 DEF HardwareArmed
  <2>2. CASE list' # <<>>
    <3>1. Head(list') \in Range(list') /\ Head(list) \in Timers /\ Head(list') \in Timers
      BY <1>1, <1>3, <2>2, SMTT(30) DEF Range
    <3>2. timeout'[Head(list')] = timeout[Head(list')]
      BY <1>4, <3>1, SMTT(30)
    <3>3. timeout[Head(list)] \in Nat /\ timeout[Head(list')] \in Nat /\ hw \in Nat
      BY <1>1, <3>1 DEF TimerInv, TypeOK
    <3>4. now' = now /\ hw' = hw /\ pending' = pending /\ phase' = phase
      BY DEF cursor
    <3>5. QED
      BY <1>3, <2>2, <3>2, <3>3, <3>4, SMTT(30) DEF TimerInv, HardwareArmed
  <2>3. QED
    BY <2>1, <2>2
<1>7. Detached' /\ TriesLeft'
  BY <1>3 DEF TimerInv, Detached, TriesLeft, cursor, Started
<1>8. TypeOK'
  BY <1>2, <1>3, SMTT(30) DEF TimerInv, TypeOK, cursor, Distinct
<1>9. QED
  BY <1>5, <1>6, <1>7, <1>8, SMTT(30) DEF TimerInv, SortedList, Sorted

\* The interrupt, the start of the softirq and the clock leave the list alone.
LEMMA IrqKeeps ==
    ASSUME TimerInv, TimerIrq
    PROVE  TimerInv'
BY SMTT(30) DEF TimerInv, TimerIrq, TypeOK, SortedList, Detached, TriesLeft, HardwareArmed,
       Started, cursor

LEMMA TickKeeps ==
    ASSUME TimerInv, Tick
    PROVE  TimerInv'
<1>1. now \in Nat /\ now' = now + 1 /\ now' \in 1 .. MaxTime /\ hw \in Nat
  BY DEF TimerInv, TypeOK, Tick
<1>2. HardwareArmed'
  BY <1>1 DEF TimerInv, Tick, HardwareArmed, cursor
<1>3. TypeOK'
  BY <1>1 DEF TimerInv, TypeOK, Tick, cursor
<1>4. QED
  BY <1>2, <1>3 DEF TimerInv, Tick, SortedList, Detached, TriesLeft, Started, cursor

LEMMA StartKeeps ==
    ASSUME TimerInv, SoftirqStart
    PROVE  TimerInv'
<1>1. list \in Seq(Timers) /\ list' = list
  BY DEF TimerInv, TypeOK, SoftirqStart
<1>2. pos' \in Timers \cup {End} /\ n' \in Timers \cup {End}
  BY <1>1, NextNodeType DEF SoftirqStart
<1>3. tries' \in 0 .. MAX_TIMER_ACTIONS /\ tries' # 0 /\ current_tsc' \in 0 .. now'
  BY DEF TimerInv, TypeOK, SoftirqStart
<1>4. TypeOK'
  BY <1>1, <1>2, <1>3, Zenon DEF TimerInv, TypeOK, SoftirqStart
<1>5. QED
  BY <1>3, <1>4 DEF TimerInv, SoftirqStart, SortedList, Detached, TriesLeft, HardwareArmed

\* The timer at the cursor leaves the list before its callback.
LEMMA ServeKeeps ==
    ASSUME TimerInv, SoftirqServe
    PROVE  TimerInv'
<1>1. /\ list \in Seq(Timers) /\ Distinct(list) /\ Sorted(list, timeout)
      /\ timeout \in [Timers -> Nat] /\ pos \in Timers
  BY DEF TimerInv, TypeOK, SortedList, Distinct, Sorted, SoftirqServe, Serves
<1>2. /\ list' \in Seq(Timers) /\ Distinct(list') /\ pos \notin Range(list')
      /\ Sorted(list', timeout)
  <2>1. timeout \in [Timers -> Int] /\ list' = Unlink(list, pos)
    BY <1>1 DEF SoftirqServe
  <2>2. pos \notin Range(list) \ {pos}
    OBVIOUS
  <2>3. QED
    BY <1>1, <2>1, <2>2, UnlinkList, UnlinkSorted, Zenon
<1>3. tries' \in 0 .. MAX_TIMER_ACTIONS /\ tries' # 0
  BY DEF TimerInv, TypeOK, TriesLeft, SoftirqServe, Serves
<1>4. TypeOK'
  BY <1>2, <1>3 DEF TimerInv, TypeOK, SoftirqServe, Distinct
<1>5. phase' # "off" /\ timeout' = timeout /\ pos' = pos
  BY DEF SoftirqServe
<1>6. Detached' /\ TriesLeft' /\ HardwareArmed'
  BY <1>1, <1>2, <1>3, <1>5, SMTT(30) DEF Detached, TriesLeft, HardwareArmed, Started
<1>7. QED
  BY <1>2, <1>4, <1>5, <1>6, SMTT(30) DEF TimerInv, SortedList, Sorted

\* A periodic timer is put back at its new deadline.
LEMMA NextKeeps ==
    ASSUME TimerInv, SoftirqNext
    PROVE  TimerInv'
<1>1. /\ list \in Seq(Timers) /\ Distinct(list) /\ Sorted(list, timeout)
      /\ timeout \in [Timers -> Nat] /\ pos \in Timers /\ pos \notin Range(list)
      /\ now \in Nat /\ n \in Timers \cup {End}
  BY DEF TimerInv, TypeOK, SortedList, Distinct, Sorted, SoftirqNext, Detached, Started
<1>2. AdvancePeriodicTimer(timeout[pos]) \in Nat
  BY <1>1, AdvanceType
<1>3. /\ timeout' \in [Timers -> Nat]
      /\ \A u \in Timers \ {pos} : timeout'[u] = timeout[u]
  BY <1>1, <1>2, SMTT(30) DEF SoftirqNext
<1>4. \A u \in Range(list) : timeout'[u] = timeout[u]
  BY <1>1, <1>3 DEF Range
<1>5. Sorted(list, timeout')
  BY <1>1, <1>4, SortedFrame, Zenon
<1>6. list' \in Seq(Timers) /\ Distinct(list') /\ Sorted(list', timeout')
  <2>1. CASE pos \in Periodic
    <3>1. list' = LocalAddTimer(list, timeout', pos)
      BY <2>1 DEF SoftirqNext
    <3>2. QED
      BY <1>1, <1>3, <1>5, <3>1, AddList, Zenon
  <2>2. CASE pos \notin Periodic
    BY <1>1, <1>5, <2>2, SMTT(30) DEF SoftirqNext
  <2>3. QED
    BY <2>1, <2>2
<1>7. /\ pos' \in Timers \cup {End} /\ n' \in Timers \cup {End}
      /\ phase' = "test" /\ now' = now /\ tries' = tries /\ tries # 0
      /\ current_tsc' = now \/ current_tsc' = current_tsc
  BY <1>1, <1>6, NextNodeType, SMTT(30) DEF TimerInv, TriesLeft, SoftirqNext
<1>8. TypeOK'
  BY <1>3, <1>6, <1>7, SMTT(30) DEF TimerInv, TypeOK, SoftirqNext, Distinct
<1>9. QED
  BY <1>6, <1>7, <1>8, SMTT(30)
  DEF TimerInv, SortedList, Sorted, Detached, TriesLeft, HardwareArmed

\* The softirq programs the comparator for the head of the list and returns.
LEMMA EndKeeps ==
    ASSUME TimerInv, SoftirqEnd
    PROVE  TimerInv'
<1>1. /\ list \in Seq(Timers) /\ timeout \in [Timers -> Nat] /\ now \in Nat
      /\ list' = list /\ timeout' = timeout /\ now' = now
  BY DEF TimerInv, TypeOK, SoftirqEnd
<1>2. hw' \in Nat /\ HardwareArmed'
  <2>1. CASE list = <<>>
    BY <1>1, <2>1
    DEF TimerInv, TypeOK, SoftirqEnd, UpdateArchitectureTimer, HardwareArmed
  <2>2. CASE list # <<>>
    <3>1. timeout[Head(list)] \in Nat
      BY <1>1, <2>2
    <3>2. SetTimerCount(timeout[Head(list)])
      BY <2>2 DEF SoftirqEnd, UpdateArchitectureTimer
    <3>3. /\ hw' \in Nat /\ hw' # 0
          /\ hw' <= timeout[Head(list)] \/ hw' <= now + 1
      BY <1>1, <3>1, <3>2, CountArms, SMTT(30)
    <3>4. QED
      BY <1>1, <3>3 DEF HardwareArmed
  <2>3. QED
    BY <2>1, <2>2, SMTT(30)
<1>3. TypeOK'
  BY <1>1, <1>2 DEF TimerInv, TypeOK, SoftirqEnd
<1>4. QED
  BY <1>1, <1>2, <1>3, SMTT(30)
  DEF TimerInv, SoftirqEnd, SortedList, Detached, TriesLeft

\* Every step keeps the invariant.
LEMMA TimerNextInv == TimerInv /\ [Next]_vars => TimerInv'
<1> SUFFICES ASSUME TimerInv, [Next]_vars PROVE TimerInv'
  OBVIOUS
<1>1. now \in Nat
  BY DEF TimerInv, TypeOK
<1>2. CASE \E t \in OneShot, d \in Delay : AddTimer(t, now + d)
  <2>1. PICK t \in OneShot, d \in Delay : AddTimer(t, now + d)
    BY <1>2
  <2>2. t \in Timers /\ now + d \in Nat
    BY <1>1 DEF Timers
  <2>3. QED
    BY <2>1, <2>2, AddKeeps, SMTT(30)
<1>3. CASE \E t \in Periodic : AddTimer(t, now + Period)
  <2>1. PICK t \in Periodic : AddTimer(t, now + Period)
    BY <1>3
  <2>2. t \in Timers /\ now + Period \in Nat
    BY <1>1 DEF Timers
  <2>3. QED
    BY <2>1, <2>2, AddKeeps, SMTT(30)
<1>4. CASE \E t \in Timers : DelTimer(t)
  <2>1. PICK t \in Timers : DelTimer(t)
    BY <1>4
  <2>2. 0 \in Nat
    OBVIOUS
  <2>3. QED
    BY <2>1, <2>2, UnlinkKeeps, Zenon DEF DelTimer
<1>5. CASE \E t \in OneShot : DisarmTimer(t)
  <2>1. PICK t \in OneShot : DisarmTimer(t)
    BY <1>5
  <2>2. t \in Timers /\ 0 \in Nat
    BY DEF Timers
  <2>3. QED
    BY <2>1, <2>2, UnlinkKeeps, Zenon DEF DisarmTimer
<1>6. CASE UNCHANGED vars
  BY <1>6 DEF vars, TimerInv, TypeOK, SortedList, Detached, TriesLeft, HardwareArmed,
              Started
<1>7. QED
  BY <1>2, <1>3, <1>4, <1>5, <1>6, IrqKeeps, StartKeeps, ServeKeeps, NextKeeps,
     EndKeeps, TickKeeps, Zenon DEF Next

-----------------------------------------------------------------------------

\* Type correctness of the timers: also that timer_list holds no timer twice, that
\* the cursors of timer_softirq never leave the timers and the head of the list,
\* and that its number of tries does not wrap.
THEOREM TimerTypeCorrect == Spec => []TypeOK
<1>1. TimerInv => TypeOK
  BY DEF TimerInv
<1>2. QED
  BY <1>1, TimerInitInv, TimerNextInv, PTL DEF Spec

\* core/timer.c keeps its list sorted by deadline, each timer in it at most once,
\* whatever callbacks add and delete while timer_softirq walks over it.
THEOREM ListStaysSorted == Spec => [](TypeOK /\ SortedList)
<1>1. TimerInv => TypeOK /\ SortedList
  BY DEF TimerInv
<1>2. QED
  BY <1>1, TimerInitInv, TimerNextInv, PTL DEF Spec

\* Whenever timer_softirq is neither running nor raised, the comparator is armed
\* for the earliest timer of the list, or for the next tick.
THEOREM EarliestIsArmed == Spec => []HardwareArmed
<1>1. TimerInv => HardwareArmed
  BY DEF TimerInv
<1>2. QED
  BY <1>1, TimerInitInv, TimerNextInv, PTL DEF Spec

-----------------------------------------------------------------------------
\* The grid of a periodic timer.

\* Division with remainder.
LEMMA Grid ==
    ASSUME NEW P \in Nat \ {0}, NEW x \in Nat
    PROVE  /\ (x \div P) \in Nat
           /\ (x \div P) * P <= x /\ x < ((x \div P) + 1) * P
OBVIOUS

\* A multiple leaves no remainder.
LEMMA Multiple ==
    ASSUME NEW P \in Nat \ {0}, NEW k \in Nat
    PROVE  (k * P) % P = 0
OBVIOUS

\* advance_periodic_timer moves a deadline that is due by whole periods to the
\* first one in the future.
LEMMA AdvanceOnGrid ==
    ASSUME NEW d \in Nat, now \in Nat, d <= now
    PROVE  /\ (AdvancePeriodicTimer(d) - d) % Period = 0
           /\ now < AdvancePeriodicTimer(d) /\ AdvancePeriodicTimer(d) <= now + Period
<1>1. CASE d + Period > now
  <2>1. AdvancePeriodicTimer(d) = d + Period
    BY <1>1 DEF AdvancePeriodicTimer
  <2>2. (1 * Period) % Period = 0
    BY Multiple
  <2>3. AdvancePeriodicTimer(d) - d = 1 * Period
    BY <2>1
  <2>4. QED
    BY <1>1, <2>1, <2>2, <2>3, SMTT(30)
<1>2. CASE ~(d + Period > now)
  <2> DEFINE x == now - (d + Period)
             q == x \div Period
  <2>1. x \in Nat /\ x = now - d - Period
    BY <1>2
  <2> HIDE DEF x
  <2>2. q \in Nat /\ q * Period <= x /\ x < (q + 1) * Period
    BY <2>1, Grid
  <2>3. AdvancePeriodicTimer(d) = d + Period + (q + 1) * Period
    BY <1>2 DEF AdvancePeriodicTimer, x
  <2> HIDE DEF q
  <2>4. (q + 1) * Period = q * Period + Period /\ (q + 2) * Period = q * Period + 2 * Period
    BY <2>2
  <2>5. ((q + 2) * Period) % Period = 0
    BY <2>2, Multiple
  <2>6. AdvancePeriodicTimer(d) - d = (q + 2) * Period /\ q * Period \in Nat
    BY <2>2, <2>3, <2>4
  <2>7. QED
    BY <2>1, <2>2, <2>3, <2>4, <2>5, <2>6, SMTT(30)
<1>3. QED
  BY <1>1, <1>2

\* A periodic timer whose callback runs was due.
Due == (phase \in {"callback", "served"} /\ pos \in Periodic) => timeout[pos] <= now

\* Nobody sets the deadline of a periodic timer that is being served.
LEMMA DueNext == TimerInv /\ Due /\ [Next]_vars => Due'
<1> SUFFICES ASSUME TimerInv, Due, [Next]_vars PROVE Due'
  OBVIOUS
<1>1. now \in Nat /\ timeout \in [Timers -> Nat] /\ current_tsc \in 0 .. now
  BY DEF TimerInv, TypeOK
<1>2. ASSUME NEW t \in Timers, NEW d, AddTimer(t, d) PROVE Due'
  <2>1. phase' = phase /\ pos' = pos /\ now' = now
    BY <1>2 DEF AddTimer, cursor
  <2>2. phase \in {"callback", "served"} => pos # t
    BY <1>2 DEF AddTimer, MayChange
  <2>3. (phase \in {"callback", "served"} /\ pos \in Periodic) => timeout'[pos] = timeout[pos]
    BY <1>1, <1>2, <2>2, SMTT(30) DEF AddTimer, Timers
  <2>4. QED
    BY <2>1, <2>3, SMTT(30) DEF Due
<1>3. ASSUME NEW t \in Timers, DelTimer(t) PROVE Due'
  BY <1>3 DEF DelTimer, Due, cursor
<1>4. ASSUME NEW t \in OneShot, DisarmTimer(t) PROVE Due'
  <2>1. phase' = phase /\ pos' = pos /\ now' = now
    BY <1>4 DEF DisarmTimer, cursor
  <2>2. pos \in Periodic => timeout'[pos] = timeout[pos]
    BY <1>1, <1>4, SMTT(30) DEF DisarmTimer, Timers
  <2>3. QED
    BY <2>1, <2>2 DEF Due
<1>5. CASE SoftirqServe
  <2>1. timeout'[pos'] = timeout[pos] /\ pos \in Timers /\ timeout[pos] <= current_tsc /\ now' = now
    BY <1>5 DEF TimerInv, TypeOK, SoftirqServe, Serves
  <2>2. timeout[pos] \in Nat
    BY <1>1, <2>1, SMTT(30)
  <2>3. QED
    BY <1>1, <2>1, <2>2, SMTT(30) DEF Due
<1>6. CASE Tick
  <2>1. phase' = phase /\ pos' = pos /\ now' = now + 1 /\ timeout' = timeout
    BY <1>6 DEF Tick, cursor
  <2>2. pos \in Periodic => timeout[pos] \in Nat
    BY <1>1, SMTT(30) DEF Timers
  <2>3. QED
    BY <1>1, <2>1, <2>2, SMTT(30) DEF Due
<1>7. CASE TimerIrq \/ UNCHANGED vars
  BY <1>7 DEF TimerIrq, vars, cursor, Due
<1>8. CASE SoftirqStart \/ SoftirqNext \/ SoftirqEnd
  BY <1>8 DEF SoftirqStart, SoftirqNext, SoftirqEnd, Due
<1>9. QED
  BY <1>2, <1>3, <1>4, <1>5, <1>6, <1>7, <1>8, Zenon DEF Next, Timers

\* The step behind PeriodicOnGrid: only advance_periodic_timer moves it.
LEMMA GridStep ==
    ASSUME TimerInv, Due, [Next]_vars, NEW t \in Periodic,
           phase # "off", timeout'[t] # timeout[t], pos = t
    PROVE  /\ (timeout'[t] - timeout[t]) % Period = 0
           /\ now < timeout'[t] /\ timeout'[t] <= now + Period
<1>1. /\ now \in Nat /\ timeout \in [Timers -> Nat] /\ t \in Timers /\ t \notin OneShot
      /\ timeout[t] \in Nat
  BY DEF TimerInv, TypeOK, Timers
<1>2. CASE SoftirqNext
  <2>1. timeout'[t] = AdvancePeriodicTimer(timeout[t])
    BY <1>1, <1>2 DEF SoftirqNext
  <2>2. timeout[t] <= now
    BY <1>2 DEF Due, SoftirqNext
  <2>3. QED
    BY <1>1, <2>1, <2>2, AdvanceOnGrid, SMTT(30)
<1>3. ASSUME NEW u \in Timers, NEW d, AddTimer(u, d) PROVE FALSE
  BY <1>1, <1>3 DEF AddTimer, MayChange
<1>4. ASSUME NEW u \in OneShot, DisarmTimer(u) PROVE FALSE
  BY <1>1, <1>4 DEF DisarmTimer
<1>5. ASSUME NEW u \in Timers, DelTimer(u) PROVE FALSE
  BY <1>5, SMTT(30) DEF DelTimer
<1>6. ~(TimerIrq \/ SoftirqStart \/ SoftirqServe \/ SoftirqEnd \/ Tick \/ UNCHANGED vars)
  BY DEF TimerIrq, SoftirqStart, SoftirqServe, SoftirqEnd, Tick, vars
<1>7. QED
  BY <1>2, <1>3, <1>4, <1>5, <1>6, Zenon DEF Next, Timers

\* advance_periodic_timer keeps periodic timers on their grid and leaves no backlog,
\* however late the softirq is and whatever else happens to the timers meanwhile.
THEOREM GridKept == Spec => PeriodicOnGrid
<1>1. Init => Due
  BY DEF Init, Due
<1>2. TimerInv /\ Due /\ [Next]_vars =>
        [\A t \in Periodic :
           (phase # "off" /\ timeout'[t] # timeout[t] /\ pos = t) =>
              /\ (timeout'[t] - timeout[t]) % Period = 0
              /\ now < timeout'[t] /\ timeout'[t] <= now + Period]_vars
  BY GridStep, Zenon
<1>3. QED
  BY <1>1, <1>2, TimerInitInv, TimerNextInv, DueNext, PTL DEF Spec, PeriodicOnGrid

=============================================================================
