----------------------------- MODULE BvtProofs ------------------------------
(***************************************************************************)
(* Proofs about BVT on an exclusive pCPU, for every number of threads,     *)
(* every MCU, allowance and ratio, every warp value, limit and period.     *)
(***************************************************************************)
EXTENDS BvtCpu, ScheduleProofs, ListProofs

\* The runqueue record.
Bq == [queue : Seq(Thread), avt : [Thread -> Int], evt : [Thread -> Int],
       residual : [Thread -> 0 .. Mcu - 1], start : [Thread -> Nat],
       left : [Thread -> Nat], unwarp : [Thread -> Nat], svt : Int, timer : Nat]

\* The runqueue holds no thread twice and is sorted by EVT.
QueueOrder(b) == Distinct(b.queue) /\ Sorted(b.queue, b.evt)

\* The threads of the runqueue, and all that the AVT ledger and the timer are
\* about, stay the same.
SameWork(b, c) ==
    /\ Range(c.queue) = Range(b.queue)
    /\ c.avt = b.avt /\ c.residual = b.residual /\ c.start = b.start
    /\ c.timer = b.timer

\* The clock has started, and no thread started after it.
Clock == now \in Nat \ {0} /\ \A t \in Thread : bq.start[t] <= now

\* A reschedule is the only one to run: no pick is left over outside schedule(),
\* and a thread that init_thread_data has yet to see has nothing to pay.
Fresh ==
    /\ pc # "switch" => next = None
    /\ \A t \in Thread : status[t] = "unset" => bq.residual[t] = 0

\* While no reschedule is requested, the timer stops the running thread before it
\* is ahead of any waiting one by a whole MCU more than the allowance.
Countdown ==
    (Running \in Awake /\ (pc = "switch" \/ NEED_RESCHEDULE \notin flags)) =>
        \A t \in Awake \ {Running} :
            /\ bq.timer # 0
            /\ (bq.timer - bq.start[Running]) * Ratio(Running) + bq.residual[Running]
               < (bq.evt[t] - bq.evt[Running] + CSA * Ratio(Running) + 1) * Mcu

\* The inductive invariant.
BvtInv ==
    /\ IInv
    /\ bq \in Bq /\ spent \in [Thread -> Int]
    /\ QueueOrder(bq)
    /\ RunqueueIsAwake
    /\ Clock
    /\ Fresh
    /\ AvtIsLedger
    /\ Countdown

\* A charge of m units and the fraction r, booked.
LEMMA Booked ==
    ASSUME NEW a \in Int, NEW m \in Int, NEW M \in Int, NEW r \in Int, NEW old \in Int,
           NEW x \in Int, m * M + r = old + x
    PROVE  (a + m) * M + r = a * M + old + x
OBVIOUS

\* One more tick of the clock.
LEMMA OneMore ==
    ASSUME NEW n \in Int, NEW k \in Int, NEW m \in Int, NEW R \in Int, k = n + 1
    PROVE  (n - m) * R \in Int /\ (k - m) * R = (n - m) * R + R
OBVIOUS

\* Gaps from the same thread.
LEMMA Gaps ==
    ASSUME NEW x \in Int, NEW y \in Int, NEW z \in Int, x <= y
    PROVE  y - z \in Int /\ x - z <= y - z
OBVIOUS

\* The first thread, with a gap of e to the second, counts down to the gap and the
\* allowance C: what it executes until then is short of g + C * R + 1 units, for
\* every thread with a gap g of at least e.
LEMMA GapAndAllowance ==
    ASSUME NEW e \in Nat, NEW R \in Nat \ {0}, NEW C \in Nat, NEW M \in Nat \ {0},
           NEW r \in 0 .. M - 1, NEW g \in Int, e <= g
    PROVE  (e \div R + C) * M * R + r < (g + C * R + 1) * M
<1> DEFINE q == e \div R
<1>1. q \in Int /\ q * R <= g
  <2>1. e = q * R + (e % R) /\ e % R \in 0 .. R - 1 /\ q \in Int
    BY WholeUnits
  <2> HIDE DEF q
  <2>2. q * R \in Int
    BY <2>1
  <2>3. QED
    BY <2>1, <2>2
<1> HIDE DEF q
<1>2. (q + C) * M * R = (q * R + C * R) * M
  BY <1>1
<1> DEFINE h == q * R + C * R
           k == g + C * R
<1>3. h \in Int /\ k \in Int /\ h <= k
  BY <1>1
<1> HIDE DEF h, k
<1>4. h * M <= k * M
  BY <1>3
<1>5. h * M + r < (k + 1) * M
  <2>1. (k + 1) * M = k * M + M /\ h * M \in Int /\ k * M \in Int
    BY <1>3
  <2>2. QED
    BY <1>4, <2>1
<1>6. QED
  BY <1>2, <1>5 DEF h, k, q

\* What has executed until x, or before it, is less than D units.
LEMMA ShortOfUnits ==
    ASSUME NEW x \in Int, NEW y \in Int, NEW R \in Nat \ {0}, NEW M \in Nat \ {0},
           NEW r \in Nat, NEW D \in Int, y <= x, x * R + r < D * M
    PROVE  /\ (y * R + r) \div M < D
           /\ 0 <= y => 0 < D
<1>1. y * R <= x * R /\ y * R \in Int /\ x * R \in Int
  OBVIOUS
<1> DEFINE v == y * R + r
           q == v \div M
<1>2. v \in Int /\ v < D * M
  BY <1>1
<1>3. 0 <= y => 0 <= v
  BY <1>1
<1> HIDE DEF v
<1>4. q \in Int /\ v = q * M + (v % M) /\ v % M \in 0 .. M - 1
  BY <1>2, WholeUnits
<1> HIDE DEF q
<1>5. q * M < D * M
  <2>1. q * M \in Int /\ D * M \in Int
    BY <1>4
  <2>2. QED
    BY <1>2, <1>4, <2>1
<1>6. q < D
  BY <1>4, <1>5
<1>7. 0 <= y => 0 < D
  BY <1>2, <1>3
<1>8. QED
  BY <1>6, <1>7 DEF q, v

USE ThreadAssumption, BvtAssumption

-----------------------------------------------------------------------------
\* The runqueue.

\* runqueue_add keeps the order.
LEMMA AddOrder ==
    ASSUME NEW b \in Bq, QueueOrder(b), NEW t \in Thread, t \notin Range(b.queue)
    PROVE  /\ RunqueueAdd(b, t) \in Bq /\ QueueOrder(RunqueueAdd(b, t))
           /\ Range(RunqueueAdd(b, t).queue) = Range(b.queue) \cup {t}
           /\ RunqueueAdd(b, t) = [b EXCEPT !.queue = RunqueueAdd(b, t).queue]
<1> DEFINE q == b.queue
           stop == {i \in DOMAIN q : b.evt[q[i]] > b.evt[t]}
           m == InsertBefore(q, stop, t)
<1>1. q \in Seq(Thread) /\ b.evt \in [Thread -> Int] /\ Distinct(q) /\ Sorted(q, b.evt)
  BY DEF Bq, QueueOrder
<1>2. RunqueueAdd(b, t) = [b EXCEPT !.queue = m]
  BY DEF RunqueueAdd
<1>3. stop \in SUBSET DOMAIN q /\ \A i \in DOMAIN q : b.evt[q[i]] \in Int
  BY <1>1, SMTT(30)
<1>4. /\ \A i \in stop : b.evt[t] <= b.evt[q[i]]
      /\ \A i \in DOMAIN q \ stop : b.evt[q[i]] <= b.evt[t]
  <2>1. b.evt[t] \in Int
    BY <1>1
  <2>2. ASSUME NEW i \in DOMAIN q
        PROVE  IF i \in stop THEN b.evt[t] <= b.evt[q[i]] ELSE b.evt[q[i]] <= b.evt[t]
    BY <1>3, <2>1
  <2>3. QED
    BY <1>3, <2>2
<1> HIDE DEF stop
<1>5. m \in Seq(Thread) /\ Distinct(m) /\ Range(m) = Range(q) \cup {t}
  BY <1>1, <1>3, InsertList
<1>6. Sorted(m, b.evt)
  BY <1>1, <1>3, <1>4, InsertSorted, Zenon
<1> HIDE DEF m
<1>7. [b EXCEPT !.queue = m] \in Bq
  BY <1>5, Zenon DEF Bq
<1>8. [b EXCEPT !.queue = m].queue = m /\ [b EXCEPT !.queue = m].evt = b.evt
  BY DEF Bq
<1>9. QED
  BY <1>2, <1>5, <1>6, <1>7, <1>8 DEF QueueOrder

\* When at most the EVT of t has changed, moving t restores the order.
LEMMA RequeueOrder ==
    ASSUME NEW b \in Bq, QueueOrder(b), NEW t \in Thread, NEW c \in Bq,
           c.queue = b.queue, \A x \in Thread \ {t} : c.evt[x] = b.evt[x]
    PROVE  /\ Requeue(c, t) \in Bq /\ QueueOrder(Requeue(c, t))
           /\ Range(Requeue(c, t).queue) = Range(c.queue)
           /\ Requeue(c, t) = [c EXCEPT !.queue = Requeue(c, t).queue]
<1>1. /\ b.queue \in Seq(Thread) /\ b.evt \in [Thread -> Int] /\ c.evt \in [Thread -> Int]
      /\ Distinct(b.queue) /\ Sorted(b.queue, b.evt)
  BY Zenon DEF Bq, QueueOrder
<1>2. Range(b.queue) \subseteq Thread
  BY <1>1 DEF Range
<1>3. CASE t \notin Range(c.queue)
  <2>1. Sorted(c.queue, c.evt)
    BY <1>1, <1>2, <1>3, SortedFrame, Zenon
  <2>2. Requeue(c, t) = c
    BY <1>3 DEF Requeue
  <2>3. c = [c EXCEPT !.queue = c.queue]
    BY DEF Bq
  <2>4. QED
    BY <1>1, <2>1, <2>2, <2>3 DEF QueueOrder
<1>4. CASE t \in Range(c.queue)
  <2> DEFINE q == Unlink(c.queue, t)
             d == [c EXCEPT !.queue = q]
  <2>1. q \in Seq(Thread) /\ Distinct(q) /\ Range(q) = Range(c.queue) \ {t}
    BY <1>1, UnlinkList, SMTT(30)
  <2>2. Sorted(q, b.evt)
    BY <1>1, UnlinkSorted
  <2>3. \A x \in Range(q) : c.evt[x] = b.evt[x]
    BY <1>2, <2>1
  <2>4. Sorted(q, c.evt)
    BY <2>1, <2>2, <2>3, SortedFrame
  <2> HIDE DEF q
  <2>5. d \in Bq /\ d.queue = q /\ d.evt = c.evt
    BY <2>1, Zenon DEF Bq
  <2>6. QueueOrder(d) /\ t \notin Range(d.queue)
    BY <2>1, <2>4, <2>5 DEF QueueOrder
  <2>7. Requeue(c, t) = RunqueueAdd(d, t)
    BY <1>4 DEF Requeue, q
  <2>8. \A x : [d EXCEPT !.queue = x] = [c EXCEPT !.queue = x]
    BY Zenon DEF Bq
  <2> HIDE DEF d
  <2>9. /\ RunqueueAdd(d, t) \in Bq /\ QueueOrder(RunqueueAdd(d, t))
        /\ Range(RunqueueAdd(d, t).queue) = Range(d.queue) \cup {t}
        /\ RunqueueAdd(d, t) = [d EXCEPT !.queue = RunqueueAdd(d, t).queue]
    BY <2>5, <2>6, AddOrder, Zenon
  <2>10. Range(d.queue) \cup {t} = Range(c.queue)
    BY <1>4, <2>1, <2>5
  <2>11. QED
    BY <2>7, <2>8, <2>9, <2>10, Zenon
<1>5. QED
  BY <1>3, <1>4

\* bvt_update_evt writes the EVT of t only.
LEMMA UpdateEvtFrame ==
    ASSUME NEW b \in Bq, NEW t \in Thread
    PROVE  LET c == UpdateEvt(b, t)
           IN  /\ c \in Bq /\ c.queue = b.queue /\ \A x \in Thread \ {t} : c.evt[x] = b.evt[x]
               /\ c.avt = b.avt /\ c.residual = b.residual /\ c.start = b.start
               /\ c.timer = b.timer
<1> DEFINE e == b.avt[t] - (IF b.left[t] # 0 THEN WarpValue ELSE 0)
<1>1. e \in Int
  <2>1. b.avt[t] \in Int /\ WarpValue \in Int
    BY DEF Bq
  <2>2. QED
    BY <2>1
<1>2. UpdateEvt(b, t) = [b EXCEPT !.evt[t] = e]
  BY DEF UpdateEvt
<1> HIDE DEF e
<1> DEFINE c == [b EXCEPT !.evt[t] = e]
<1>3. c \in Bq
  BY <1>1, Zenon DEF Bq
<1>4. c.evt = [b.evt EXCEPT ![t] = e] /\ b.evt \in [Thread -> Int]
  BY DEF Bq
<1>5. \A x \in Thread \ {t} : c.evt[x] = b.evt[x]
  BY <1>4
<1>6. /\ c.queue = b.queue /\ c.avt = b.avt /\ c.residual = b.residual
      /\ c.start = b.start /\ c.timer = b.timer
  BY DEF Bq
<1>7. QED
  BY <1>2, <1>3, <1>5, <1>6

\* bvt_start_warp moves t forward and changes no thread's accounts.
LEMMA WarpOrder ==
    ASSUME NEW b \in Bq, QueueOrder(b), NEW t \in Thread
    PROVE  /\ StartWarp(b, t) \in Bq /\ QueueOrder(StartWarp(b, t))
           /\ SameWork(b, StartWarp(b, t))
<1>1. CASE b.left[t] # 0 \/ ~CanWarp(b, t)
  <2>1. StartWarp(b, t) = b
    BY <1>1 DEF StartWarp
  <2>2. QED
    BY <2>1 DEF SameWork
<1>2. CASE ~(b.left[t] # 0 \/ ~CanWarp(b, t))
  <2> DEFINE w == Max({WarpLimit, 1})
             d == [b EXCEPT !.left[t] = w]
             c == UpdateEvt(d, t)
  <2>1. w \in Nat
    BY MaxOfTwo
  <2>2. StartWarp(b, t) = Requeue(c, t)
    BY <1>2 DEF StartWarp
  <2> HIDE DEF w
  <2>3. /\ d \in Bq /\ d.queue = b.queue /\ d.evt = b.evt /\ d.avt = b.avt
        /\ d.residual = b.residual /\ d.start = b.start /\ d.timer = b.timer
    BY <2>1, Zenon DEF Bq
  <2> HIDE DEF d
  <2>4. /\ c \in Bq /\ c.queue = d.queue /\ \A x \in Thread \ {t} : c.evt[x] = d.evt[x]
        /\ c.avt = d.avt /\ c.residual = d.residual /\ c.start = d.start /\ c.timer = d.timer
    BY <2>3, UpdateEvtFrame, Zenon
  <2> HIDE DEF c
  <2>5. /\ Requeue(c, t) \in Bq /\ QueueOrder(Requeue(c, t))
        /\ Range(Requeue(c, t).queue) = Range(c.queue)
        /\ Requeue(c, t) = [c EXCEPT !.queue = Requeue(c, t).queue]
    BY <2>3, <2>4, RequeueOrder
  <2>6. \A x : LET f == [c EXCEPT !.queue = x]
               IN f.avt = c.avt /\ f.residual = c.residual /\ f.start = c.start /\ f.timer = c.timer
    BY <2>4 DEF Bq
  <2>7. SameWork(b, Requeue(c, t))
    BY <2>3, <2>4, <2>5, <2>6, ZenonT(30) DEF SameWork
  <2>8. QED
    BY <2>2, <2>5, <2>7
<1>3. QED
  BY <1>1, <1>2

\* p holds the runqueue after each request of the pass over order.
IsBvtPass(p, b, order) ==
    /\ BvtPrioritizeAll(b, order) = p[Len(order)]
    /\ p[0] = b
    /\ \A k \in 1 .. Len(order) : p[k] = BvtPrioritize(p[k - 1], order[k])

\* The recursion over a list of requests is well defined.
LEMMA PassExists ==
    ASSUME NEW b, NEW order \in Seq(Thread)
    PROVE  \E p : IsBvtPass(p, b, order)
<1> DEFINE IsPass(p, n) ==
             p = [k \in 0 .. n |-> IF k = 0 THEN b ELSE BvtPrioritize(p[k - 1], order[k])]
           N == Len(order)
           pass == CHOOSE p : IsPass(p, N)
           G == {n \in 0 .. N : \E p : IsPass(p, n)}
<1>1. N \in Nat
  OBVIOUS
<1>2. 0 \in G
  <2>1. IsPass([k \in 0 .. 0 |-> b], 0)
    OBVIOUS
  <2> HIDE DEF IsPass
  <2>2. \E p : IsPass(p, 0)
    BY <2>1, Zenon
  <2>3. QED
    BY <1>1, <2>2
<1>3. ASSUME NEW n \in 1 .. N, n - 1 \in G PROVE n \in G
  <2>1. PICK s : IsPass(s, n - 1)
    BY <1>3
  <2> DEFINE r == [k \in 0 .. n |-> IF k < n THEN s[k] ELSE BvtPrioritize(s[n - 1], order[n])]
  <2>2. \A k \in 0 .. n : k # 0 => r[k - 1] = s[k - 1]
    BY <1>1
  <2>3. \A k \in 0 .. n - 1 : s[k] = IF k = 0 THEN b ELSE BvtPrioritize(s[k - 1], order[k])
    BY <2>1, Zenon
  <2>4. ASSUME NEW k \in 0 .. n
        PROVE  r[k] = IF k = 0 THEN b ELSE BvtPrioritize(r[k - 1], order[k])
    <3>1. CASE k = n
      BY <1>1, <2>2, <3>1
    <3>2. CASE k # n
      <4>1. k \in 0 .. n - 1 /\ r[k] = s[k]
        BY <1>1, <3>2
      <4>2. QED
        BY <2>2, <2>3, <4>1, SMTT(30)
    <3>3. QED
      BY <3>1, <3>2
  <2>5. IsPass(r, n)
    BY <2>4, Zenon
  <2> HIDE DEF IsPass, r
  <2>6. \E p : IsPass(p, n)
    BY <2>5, Zenon
  <2>7. QED
    BY <1>1, <2>6
<1> HIDE DEF G, N
<1>4. N \in G
  BY <1>1, <1>2, <1>3, CountUp, Zenon
<1> USE DEF N
<1>5. IsPass(pass, N)
  BY <1>4, Zenon DEF G
<1>6. BvtPrioritizeAll(b, order) = pass[N]
  BY DEF BvtPrioritizeAll
<1> HIDE DEF pass
<1>7. \A k \in 0 .. N : pass[k] = IF k = 0 THEN b ELSE BvtPrioritize(pass[k - 1], order[k])
  BY <1>5, Zenon
<1>8. pass[0] = b /\ \A k \in 1 .. N : pass[k] = BvtPrioritize(pass[k - 1], order[k])
  BY <1>1, <1>7
<1>9. IsBvtPass(pass, b, order)
  BY <1>6, <1>8 DEF IsBvtPass
<1>10. QED
  BY <1>9, Zenon

\* Priority requests reorder the runqueue and change no thread's accounts.
LEMMA PassOrder ==
    ASSUME NEW b \in Bq, QueueOrder(b), NEW order \in Seq(Thread)
    PROVE  LET c == BvtPrioritizeAll(b, order)
           IN  c \in Bq /\ QueueOrder(c) /\ SameWork(b, c)
<1>0. PICK p : IsBvtPass(p, b, order)
  BY PassExists, Zenon
<1>1. /\ BvtPrioritizeAll(b, order) = p[Len(order)]
      /\ p[0] = b
      /\ \A k \in 1 .. Len(order) : p[k] = BvtPrioritize(p[k - 1], order[k])
  BY <1>0 DEF IsBvtPass
<1> DEFINE Good(c) == c \in Bq /\ QueueOrder(c) /\ SameWork(b, c)
           G == {n \in 0 .. Len(order) : Good(p[n])}
<1>2. Len(order) \in Nat
  OBVIOUS
<1>3. Good(p[0])
  BY <1>1 DEF SameWork
<1>4. ASSUME NEW c, Good(c), NEW t \in Thread PROVE Good(BvtPrioritize(c, t))
  BY <1>4, WarpOrder DEF BvtPrioritize, SameWork
<1> HIDE DEF Good
<1>5. ASSUME NEW k \in 1 .. Len(order), k - 1 \in G PROVE k \in G
  <2>1. Good(p[k - 1]) /\ order[k] \in Thread /\ p[k] = BvtPrioritize(p[k - 1], order[k])
    BY <1>1, <1>5
  <2>2. Good(p[k])
    BY <1>4, <2>1
  <2>3. QED
    BY <1>2, <2>2
<1>6. 0 \in G
  BY <1>2, <1>3
<1> HIDE DEF G
<1>7. Len(order) \in G
  BY <1>2, <1>5, <1>6, CountUp, Zenon
<1>8. QED
  BY <1>1, <1>7 DEF G, Good

-----------------------------------------------------------------------------
\* Virtual time.

\* A warp that is used up or shortened changes no EVT and no account.
LEMMA ChargeWarpFrame ==
    ASSUME NEW b \in Bq, NEW t \in Thread, NEW mcus \in Nat, now \in Nat
    PROVE  LET c == ChargeWarp(b, t, mcus)
           IN  /\ c \in Bq /\ c.queue = b.queue /\ c.evt = b.evt /\ SameWork(b, c)
<1>1. CASE b.left[t] = 0 \/ mcus = 0
  BY <1>1 DEF ChargeWarp, SameWork
<1>2. CASE ~(b.left[t] = 0 \/ mcus = 0) /\ mcus >= b.left[t]
  BY <1>2, Zenon DEF ChargeWarp, SameWork, Bq
<1>3. CASE ~(b.left[t] = 0 \/ mcus = 0) /\ ~(mcus >= b.left[t])
  <2>1. b.left[t] \in Nat
    BY DEF Bq
  <2>2. b.left[t] - mcus \in Nat
    BY <1>3, <2>1
  <2> DEFINE l == b.left[t] - mcus
  <2>3. ChargeWarp(b, t, mcus) = [b EXCEPT !.left[t] = l]
    BY <1>3 DEF ChargeWarp
  <2> HIDE DEF l
  <2>4. QED
    <3>1. l \in Nat
      BY <2>2 DEF l
    <3>2. [b EXCEPT !.left[t] = l] \in Bq
      BY <3>1, Zenon DEF Bq
    <3>3. QED
      BY <2>3, <3>2, Zenon DEF SameWork, Bq
<1>4. QED
  BY <1>1, <1>2, <1>3

\* update_vt charges t for what it executed since it started, to the fraction of
\* an MCU, and charges no other thread.
LEMMA ChargeVt ==
    ASSUME NEW b \in Bq, QueueOrder(b), NEW t \in Thread, now \in Nat, b.start[t] <= now
    PROVE  LET c == UpdateVt(b, t)
           IN  /\ c \in Bq /\ QueueOrder(c) /\ Range(c.queue) = Range(b.queue)
               /\ c.start = b.start /\ c.timer = b.timer
               /\ c.avt[t] * Mcu + c.residual[t]
                  = b.avt[t] * Mcu + b.residual[t] + (now - b.start[t]) * Ratio(t)
               /\ \A x \in Thread \ {t} : c.avt[x] = b.avt[x] /\ c.residual[x] = b.residual[x]
<1> DEFINE v == Uncharged(b, t)
           mcus == v \div Mcu
           res == IF now > b.start[t] THEN v % Mcu ELSE b.residual[t]
           d == [b EXCEPT !.avt[t] = b.avt[t] + mcus, !.residual[t] = res]
           w == ChargeWarp(d, t, mcus)
           e == UpdateEvt(w, t)
           c == Requeue(e, t)
<1>1. /\ b.start[t] \in Nat /\ b.residual[t] \in 0 .. Mcu - 1 /\ b.avt[t] \in Int
      /\ Ratio(t) \in Nat /\ Mcu \in Nat \ {0}
  BY DEF Bq, Ratio
<1>2. v \in Nat
  <2>1. CASE now > b.start[t]
    <3> DEFINE k == now - b.start[t]
    <3>1. k \in Nat /\ v = k * Ratio(t) + b.residual[t]
      BY <1>1, <2>1 DEF Uncharged
    <3>2. k * Ratio(t) \in Nat
      BY <1>1, <3>1
    <3>3. QED
      BY <1>1, <3>1, <3>2
  <2>2. CASE ~(now > b.start[t])
    BY <2>2 DEF Uncharged
  <2>3. QED
    BY <2>1, <2>2
<1>3. /\ mcus \in Nat /\ res \in 0 .. Mcu - 1
      /\ mcus * Mcu + res = b.residual[t] + (now - b.start[t]) * Ratio(t)
  <2>1. CASE now > b.start[t]
    <3>1. v = (now - b.start[t]) * Ratio(t) + b.residual[t] /\ res = v % Mcu
      BY <2>1 DEF Uncharged
    <3> HIDE DEF v, res
    <3>2. mcus \in Nat /\ v % Mcu \in 0 .. Mcu - 1 /\ v = mcus * Mcu + (v % Mcu)
      <4>1. v \in Int /\ v >= 0
        BY <1>2
      <4>2. /\ v \div Mcu \in Int /\ v % Mcu \in 0 .. Mcu - 1
            /\ v = (v \div Mcu) * Mcu + (v % Mcu)
            /\ v >= 0 => v \div Mcu >= 0
        BY <1>1, <4>1, WholeUnits, Zenon
      <4>3. QED
        BY <4>1, <4>2
    <3> HIDE DEF mcus
    <3>3. (now - b.start[t]) * Ratio(t) \in Int
      BY <1>1
    <3>4. QED
      BY <1>1, <1>2, <3>1, <3>2, <3>3
  <2>2. CASE ~(now > b.start[t])
    <3>1. v = 0 /\ res = b.residual[t] /\ now - b.start[t] = 0
      BY <1>1, <2>2 DEF Uncharged
    <3>2. mcus = 0
      BY <1>1, <3>1
    <3>3. QED
      BY <1>1, <3>1, <3>2
  <2>3. QED
    BY <2>1, <2>2
<1>4. UpdateVt(b, t) = c
  BY DEF UpdateVt
<1> HIDE DEF v, mcus, res
<1>0. b.avt[t] + mcus \in Int
  BY <1>1, <1>3
<1> DEFINE a == b.avt[t] + mcus
<1> HIDE DEF a
<1>5. /\ d \in Bq /\ d.queue = b.queue /\ d.evt = b.evt /\ d.start = b.start /\ d.timer = b.timer
      /\ d.avt = [b.avt EXCEPT ![t] = b.avt[t] + mcus]
      /\ d.residual = [b.residual EXCEPT ![t] = res]
  <2>1. d = [b EXCEPT !.avt[t] = a, !.residual[t] = res]
    BY DEF a
  <2>2. a \in Int
    BY <1>0 DEF a
  <2>3. d \in Bq
    <3>1. [b.avt EXCEPT ![t] = a] \in [Thread -> Int]
      BY <2>2 DEF Bq
    <3>2. [b.residual EXCEPT ![t] = res] \in [Thread -> 0 .. Mcu - 1]
      BY <1>3 DEF Bq
    <3>3. d = [b EXCEPT !.avt = [b.avt EXCEPT ![t] = a],
                        !.residual = [b.residual EXCEPT ![t] = res]]
      BY <2>1 DEF Bq
    <3>4. QED
      BY <3>1, <3>2, <3>3, Zenon DEF Bq
  <2>4. QED
    BY <2>3, Zenon DEF Bq
<1>6. /\ d.avt[t] = b.avt[t] + mcus /\ d.residual[t] = res
      /\ \A x \in Thread \ {t} : d.avt[x] = b.avt[x] /\ d.residual[x] = b.residual[x]
  BY <1>5 DEF Bq
<1> HIDE DEF d
<1>7. w \in Bq /\ w.queue = d.queue /\ w.evt = d.evt /\ SameWork(d, w)
  BY <1>3, <1>5, ChargeWarpFrame
<1> HIDE DEF w
<1>8. /\ e \in Bq /\ e.queue = w.queue /\ \A x \in Thread \ {t} : e.evt[x] = w.evt[x]
      /\ e.avt = w.avt /\ e.residual = w.residual /\ e.start = w.start /\ e.timer = w.timer
  BY <1>7, UpdateEvtFrame, Zenon
<1> HIDE DEF e
<1>9. /\ c \in Bq /\ QueueOrder(c) /\ Range(c.queue) = Range(e.queue)
      /\ c = [e EXCEPT !.queue = c.queue]
  BY <1>5, <1>7, <1>8, RequeueOrder
<1>10. c.avt = e.avt /\ c.residual = e.residual /\ c.start = e.start /\ c.timer = e.timer
  <2>1. \A q : LET f == [e EXCEPT !.queue = q]
               IN f.avt = e.avt /\ f.residual = e.residual /\ f.start = e.start /\ f.timer = e.timer
    BY <1>8 DEF Bq
  <2>2. QED
    BY <1>9, <2>1, Zenon
<1> HIDE DEF c
<1>11. c.avt[t] * Mcu + c.residual[t]
       = b.avt[t] * Mcu + b.residual[t] + (now - b.start[t]) * Ratio(t)
  <2>1. c.avt[t] = b.avt[t] + mcus /\ c.residual[t] = res
    BY <1>6, <1>7, <1>8, <1>10 DEF SameWork
  <2>2. /\ {b.avt[t], mcus, Mcu, res, b.residual[t]} \subseteq Int
        /\ (now - b.start[t]) * Ratio(t) \in Int
    BY <1>1, <1>3
  <2>3. (b.avt[t] + mcus) * Mcu + res
        = b.avt[t] * Mcu + b.residual[t] + (now - b.start[t]) * Ratio(t)
    <3> DEFINE x == (now - b.start[t]) * Ratio(t)
               av == b.avt[t]
               old == b.residual[t]
    <3>1. av \in Int /\ mcus \in Int /\ Mcu \in Int /\ res \in Int /\ old \in Int /\ x \in Int
          /\ mcus * Mcu + res = old + x
      BY <1>3, <2>2
    <3> HIDE DEF x, av, old
    <3>2. (av + mcus) * Mcu + res = av * Mcu + old + x
      BY <3>1, Booked
    <3>3. QED
      BY <3>2 DEF x, av, old
  <2>4. QED
    BY <2>1, <2>3
<1>12. \A x \in Thread \ {t} : c.avt[x] = b.avt[x] /\ c.residual[x] = b.residual[x]
  BY <1>6, <1>7, <1>8, <1>10 DEF SameWork
<1>13. Range(c.queue) = Range(b.queue) /\ c.start = b.start /\ c.timer = b.timer
  BY <1>5, <1>7, <1>8, <1>9, <1>10 DEF SameWork
<1>14. QED
  BY <1>4, <1>9, <1>11, <1>12, <1>13

-----------------------------------------------------------------------------
\* The hooks of the policy.

\* sleep and init_data take a thread off the runqueue.
LEMMA OffOrder ==
    ASSUME NEW b \in Bq, QueueOrder(b), NEW t \in Thread, NEW c \in Bq,
           c.queue = Unlink(b.queue, t), c.evt = b.evt
    PROVE  QueueOrder(c) /\ Range(c.queue) = Range(b.queue) \ {t}
<1>1. /\ b.queue \in Seq(Thread) /\ b.evt \in [Thread -> Int]
      /\ Distinct(b.queue) /\ Sorted(b.queue, b.evt)
  BY DEF Bq, QueueOrder
<1>2. Distinct(c.queue) /\ Range(c.queue) = Range(b.queue) \ {t}
  BY <1>1, UnlinkList
<1>3. Sorted(c.queue, c.evt)
  BY <1>1, UnlinkSorted
<1>4. QED
  BY <1>2, <1>3 DEF QueueOrder

\* sched_bvt_sleep takes t off the runqueue and changes no account.
LEMMA SleepFrame ==
    ASSUME NEW b \in Bq, QueueOrder(b), NEW t \in Thread
    PROVE  LET c == BvtSleep(b, t)
           IN  /\ c \in Bq /\ QueueOrder(c) /\ Range(c.queue) = Range(b.queue) \ {t}
               /\ c = [b EXCEPT !.queue = c.queue]
<1> DEFINE q == Unlink(b.queue, t)
           c == [b EXCEPT !.queue = q]
<1>1. q \in Seq(Thread)
  BY UnlinkList DEF Bq, QueueOrder
<1>2. BvtSleep(b, t) = c
  BY DEF BvtSleep
<1> HIDE DEF q
<1>3. c \in Bq /\ c.queue = q /\ c.evt = b.evt
  BY <1>1, Zenon DEF Bq
<1> HIDE DEF c
<1>4. QueueOrder(c) /\ Range(c.queue) = Range(b.queue) \ {t}
  BY <1>3, OffOrder DEF q
<1>5. QED
  BY <1>2, <1>3, <1>4 DEF c

\* sched_bvt_init_data: a thread object that owes nothing keeps its account.
LEMMA InitDataFrame ==
    ASSUME NEW b \in Bq, QueueOrder(b), NEW t \in Thread, b.residual[t] = 0
    PROVE  LET c == BvtInitData(b, t)
           IN  /\ c \in Bq /\ QueueOrder(c) /\ Range(c.queue) = Range(b.queue) \ {t}
               /\ c.avt = b.avt /\ c.evt = b.evt /\ c.residual = b.residual
               /\ c.start = b.start /\ c.timer = b.timer
<1> DEFINE q == Unlink(b.queue, t)
           c == [b EXCEPT !.left[t] = 0, !.unwarp[t] = 0, !.residual[t] = 0, !.queue = q]
<1>1. q \in Seq(Thread)
  BY UnlinkList DEF Bq, QueueOrder
<1>2. BvtInitData(b, t) = c
  BY DEF BvtInitData
<1> HIDE DEF q
<1>3. [b.residual EXCEPT ![t] = 0] = b.residual
  BY DEF Bq
<1>4. c = [b EXCEPT !.left = [b.left EXCEPT ![t] = 0],
                    !.unwarp = [b.unwarp EXCEPT ![t] = 0], !.queue = q]
  BY <1>3, Zenon DEF Bq
<1>5. /\ [b.left EXCEPT ![t] = 0] \in [Thread -> Nat]
      /\ [b.unwarp EXCEPT ![t] = 0] \in [Thread -> Nat]
  BY Zenon DEF Bq
<1>6. /\ c \in Bq /\ c.queue = q /\ c.avt = b.avt /\ c.evt = b.evt
      /\ c.residual = b.residual /\ c.start = b.start /\ c.timer = b.timer
  BY <1>1, <1>4, <1>5, ZenonT(30) DEF Bq
<1> HIDE DEF c
<1>7. QueueOrder(c) /\ Range(c.queue) = Range(b.queue) \ {t}
  BY <1>6, OffOrder DEF q
<1>8. QED
  BY <1>2, <1>6, <1>7

\* sched_bvt_wake queues a thread and changes no account but the thread's AVT.
LEMMA WakeOrder ==
    ASSUME NEW b \in Bq, QueueOrder(b), NEW t \in Thread, t \notin Range(b.queue)
    PROVE  LET c == BvtWake(b, t)
           IN  /\ c \in Bq /\ QueueOrder(c) /\ Range(c.queue) = Range(b.queue) \cup {t}
               /\ c.residual = b.residual /\ c.start = b.start /\ c.timer = b.timer
               /\ \A x \in Thread \ {t} : c.avt[x] = b.avt[x]
<1> DEFINE a == IF b.avt[t] > b.svt - CSA THEN b.avt[t] ELSE b.svt
           d == [b EXCEPT !.avt[t] = a]
           s == StartWarp(d, t)
           u == UpdateEvt(s, t)
           c == RunqueueAdd(u, t)
<1>1. a \in Int
  BY DEF Bq
<1>2. BvtWake(b, t) = c
  BY DEF BvtWake
<1> HIDE DEF a
<1>3. /\ d \in Bq /\ d.queue = b.queue /\ d.evt = b.evt /\ d.residual = b.residual
      /\ d.start = b.start /\ d.timer = b.timer /\ d.avt = [b.avt EXCEPT ![t] = a]
  BY <1>1, Zenon DEF Bq
<1>4. \A x \in Thread \ {t} : d.avt[x] = b.avt[x]
  BY <1>3 DEF Bq
<1>5. QueueOrder(d)
  BY <1>3 DEF QueueOrder
<1> HIDE DEF d
<1>6. s \in Bq /\ QueueOrder(s) /\ SameWork(d, s)
  BY <1>3, <1>5, WarpOrder
<1> HIDE DEF s
<1>7. /\ u \in Bq /\ u.queue = s.queue /\ \A x \in Thread \ {t} : u.evt[x] = s.evt[x]
      /\ u.avt = s.avt /\ u.residual = s.residual /\ u.start = s.start /\ u.timer = s.timer
  BY <1>6, UpdateEvtFrame, Zenon
<1>8. Range(u.queue) = Range(b.queue)
  BY <1>3, <1>6, <1>7 DEF SameWork
<1> HIDE DEF u
<1>9. QueueOrder(u)
  <2>1. Requeue(u, t) = u
    BY <1>8 DEF Requeue
  <2>2. QueueOrder(Requeue(u, t))
    BY <1>6, <1>7, RequeueOrder
  <2>3. QED
    BY <2>1, <2>2
<1>10. /\ c \in Bq /\ QueueOrder(c) /\ Range(c.queue) = Range(u.queue) \cup {t}
       /\ c = [u EXCEPT !.queue = c.queue]
  BY <1>7, <1>8, <1>9, AddOrder
<1>11. c.avt = u.avt /\ c.residual = u.residual /\ c.start = u.start /\ c.timer = u.timer
  <2>1. \A q : LET f == [u EXCEPT !.queue = q]
               IN f.avt = u.avt /\ f.residual = u.residual /\ f.start = u.start /\ f.timer = u.timer
    BY <1>7 DEF Bq
  <2>2. QED
    BY <1>10, <2>1, ZenonT(30)
<1> HIDE DEF c
<1>12. QED
  BY <1>2, <1>3, <1>4, <1>6, <1>7, <1>8, <1>10, <1>11 DEF SameWork

\* sched_bvt_pick_next up to the choice: curr_obj pays for what it executed.
LEMMA ChargeFrame ==
    ASSUME NEW b \in Bq, QueueOrder(b), now \in Nat, \A t \in Thread : b.start[t] <= now
    PROVE  LET c == BvtCharge(b)
           IN  /\ c \in Bq /\ QueueOrder(c) /\ Range(c.queue) = Range(b.queue)
               /\ c.start = b.start
               /\ \A x \in Thread : c.avt[x] * Mcu + c.residual[x]
                    = b.avt[x] * Mcu + b.residual[x]
                      + (IF x = curr THEN (now - b.start[x]) * Ratio(x) ELSE 0)
               /\ \A x \in Thread \ {curr} : c.residual[x] = b.residual[x]
<1> DEFINE d == IF curr \in Thread THEN UpdateVt(b, curr) ELSE b
           c == UpdateSvt(d)
<1>1. /\ d \in Bq /\ QueueOrder(d) /\ Range(d.queue) = Range(b.queue) /\ d.start = b.start
      /\ \A x \in Thread : d.avt[x] * Mcu + d.residual[x]
           = b.avt[x] * Mcu + b.residual[x]
             + (IF x = curr THEN (now - b.start[x]) * Ratio(x) ELSE 0)
      /\ \A x \in Thread \ {curr} : d.residual[x] = b.residual[x]
  <2>1. ASSUME NEW x \in Thread PROVE b.avt[x] * Mcu + b.residual[x] \in Int
    <3>1. b.avt[x] \in Int /\ b.residual[x] \in Int /\ Mcu \in Int
      BY DEF Bq
    <3>2. b.avt[x] * Mcu \in Int
      BY <3>1
    <3>3. QED
      BY <3>1, <3>2
  <2>2. CASE curr \in Thread
    <3>1. /\ d \in Bq /\ QueueOrder(d) /\ Range(d.queue) = Range(b.queue) /\ d.start = b.start
          /\ d.avt[curr] * Mcu + d.residual[curr]
             = b.avt[curr] * Mcu + b.residual[curr] + (now - b.start[curr]) * Ratio(curr)
          /\ \A x \in Thread \ {curr} :
               d.avt[x] = b.avt[x] /\ d.residual[x] = b.residual[x]
      BY <2>2, ChargeVt
    <3> HIDE DEF d
    <3>2. ASSUME NEW x \in Thread
          PROVE  d.avt[x] * Mcu + d.residual[x]
                 = b.avt[x] * Mcu + b.residual[x]
                   + (IF x = curr THEN (now - b.start[x]) * Ratio(x) ELSE 0)
      <4>1. CASE x = curr
        BY <3>1, <4>1
      <4>2. CASE x # curr
        BY <2>1, <3>1, <4>2
      <4>3. QED
        BY <4>1, <4>2
    <3>3. QED
      BY <3>1, <3>2
  <2>3. CASE curr \notin Thread
    BY <2>1, <2>3
  <2>4. QED
    BY <2>2, <2>3
<1>2. BvtCharge(b) = c
  BY DEF BvtCharge
<1> HIDE DEF d
<1>3. CASE d.queue = <<>>
  BY <1>1, <1>2, <1>3 DEF UpdateSvt
<1>4. CASE d.queue # <<>>
  <2> DEFINE v == d.avt[Head(d.queue)]
  <2>1. c = [d EXCEPT !.svt = v]
    BY <1>4 DEF UpdateSvt
  <2>2. d.queue \in Seq(Thread) /\ d.avt \in [Thread -> Int]
    BY <1>1 DEF Bq
  <2>3. v \in Int
    BY <1>4, <2>2, SMTT(30)
  <2> HIDE DEF v
  <2>4. /\ c \in Bq /\ c.queue = d.queue /\ c.evt = d.evt /\ c.start = d.start
        /\ c.avt = d.avt /\ c.residual = d.residual
    BY <1>1, <2>1, <2>3, Zenon DEF Bq
  <2> HIDE DEF c
  <2>5. QED
    BY <1>1, <1>2, <2>4 DEF QueueOrder
<1>5. QED
  BY <1>3, <1>4

\* The first of a sorted runqueue, and the second.
LEMMA FirstTwo ==
    ASSUME NEW b \in Bq, QueueOrder(b), NEW x \in Range(b.queue) \ {Head(b.queue)}
    PROVE  /\ ~(Len(b.queue) < 2) /\ Head(b.queue) = b.queue[1]
           /\ b.queue[1] \in Thread /\ b.queue[2] \in Thread
           /\ b.evt[b.queue[1]] <= b.evt[b.queue[2]]
           /\ b.evt[b.queue[2]] <= b.evt[x]
<1>1. b.queue \in Seq(Thread) /\ b.evt \in [Thread -> Int]
  BY DEF Bq
<1>2. PICK i \in DOMAIN b.queue : x = b.queue[i]
  BY DEF Range
<1>3. Len(b.queue) \in Nat /\ DOMAIN b.queue = 1 .. Len(b.queue) /\ Head(b.queue) = b.queue[1]
  BY <1>1, SMTT(30)
<1>4. i # 1
  BY <1>2, <1>3
<1>5. 1 \in DOMAIN b.queue /\ 2 \in DOMAIN b.queue /\ 1 < 2 /\ (i = 2 \/ 2 < i)
  BY <1>3, <1>4, SMTT(30)
<1>6. b.evt[b.queue[2]] <= b.evt[x]
  <2>1. CASE i = 2
    BY <1>1, <1>2, <1>5, <2>1, SMTT(30)
  <2>2. CASE 2 < i
    BY <1>2, <1>5, <2>2 DEF QueueOrder, Sorted
  <2>3. QED
    BY <1>5, <2>1, <2>2
<1>7. b.evt[b.queue[1]] <= b.evt[b.queue[2]]
  BY <1>5 DEF QueueOrder, Sorted
<1>8. b.queue[1] \in Thread /\ b.queue[2] \in Thread
  BY <1>1, <1>5, SMTT(30)
<1>9. QED
  BY <1>3, <1>5, <1>6, <1>7, <1>8

\* sched_bvt_pick_next after the choice of t: the timer stops t in time.
LEMMA StartCountdown ==
    ASSUME NEW b \in Bq, QueueOrder(b), now \in Nat \ {0},
           b.queue # <<>>, NEW t, t = Head(b.queue)
    PROVE  LET c == BvtStart(b, t)
           IN  /\ t \in Thread /\ c \in Bq
               /\ c = [b EXCEPT !.start[t] = now, !.timer = c.timer]
               /\ \A x \in Range(b.queue) \ {t} :
                    /\ c.timer # 0
                    /\ (c.timer - now) * Ratio(t) + b.residual[t]
                       < (b.evt[x] - b.evt[t] + CSA * Ratio(t) + 1) * Mcu
<1>1. /\ b.queue \in Seq(Thread) /\ b.evt \in [Thread -> Int]
      /\ b.residual \in [Thread -> 0 .. Mcu - 1] /\ b.start \in [Thread -> Nat]
  BY Zenon DEF Bq
<1>2. t \in Thread
  BY <1>1
<1>3. t # Idle
  BY <1>2
<1> DEFINE d == [b EXCEPT !.start[t] = now]
           c == ArmTimer(d)
<1>4. BvtStart(b, t) = c
  BY <1>3 DEF BvtStart
<1>5. /\ d \in Bq /\ d.queue = b.queue /\ d.evt = b.evt
      /\ \A n : [d EXCEPT !.timer = n] = [b EXCEPT !.start[t] = now, !.timer = n]
  BY <1>2, Zenon DEF Bq
<1>6. \A n \in Nat : [d EXCEPT !.timer = n] \in Bq /\ [d EXCEPT !.timer = n].timer = n
  BY <1>5, ZenonT(30) DEF Bq
<1> HIDE DEF d
<1>7. CASE Len(b.queue) < 2
  <2>1. c = [d EXCEPT !.timer = 0]
    BY <1>5, <1>7, Zenon DEF ArmTimer
  <2>2. Range(b.queue) \ {t} = {}
    BY <1>7, FirstTwo, Zenon
  <2>3. c \in Bq /\ c.timer = 0
    BY <1>6, <2>1, SMTT(30)
  <2>4. c = [b EXCEPT !.start[t] = now, !.timer = c.timer]
    BY <1>5, <2>1, <2>3, Zenon
  <2> HIDE DEF c
  <2>5. QED
    BY <1>2, <1>4, <2>2, <2>3, <2>4, Zenon
<1>8. CASE ~(Len(b.queue) < 2)
  <2> DEFINE gap == b.evt[b.queue[2]] - b.evt[b.queue[1]]
             n == now + (gap \div Ratio(t) + CSA) * Mcu
  <2>1. b.queue[1] = t /\ b.queue[2] \in Thread /\ 1 \in DOMAIN b.queue /\ 2 \in DOMAIN b.queue
    <3>1. Len(b.queue) \in Nat /\ DOMAIN b.queue = 1 .. Len(b.queue)
      BY <1>1, SMTT(30)
    <3>2. 1 \in DOMAIN b.queue /\ 2 \in DOMAIN b.queue
      BY <1>8, <3>1, SMTT(30)
    <3>3. QED
      BY <1>1, <3>2
  <2>2. c = [d EXCEPT !.timer = n]
    BY <1>5, <1>8, <2>1, Zenon DEF ArmTimer
  <2>3. gap \in Nat
    <3>1. b.evt[b.queue[1]] <= b.evt[b.queue[2]]
      BY <2>1 DEF QueueOrder, Sorted
    <3>2. b.evt[b.queue[1]] \in Int /\ b.evt[b.queue[2]] \in Int
      BY <1>1, <1>2, <2>1, Zenon
    <3>3. QED
      BY <3>1, <3>2, SMTT(30)
  <2>4. Ratio(t) \in Nat \ {0} /\ CSA \in Nat /\ Mcu \in Nat \ {0}
    BY DEF Ratio
  <2> HIDE DEF gap
  <2>5. gap \div Ratio(t) \in Nat
    <3>1. gap \in Int /\ gap >= 0
      BY <2>3
    <3>2. gap \div Ratio(t) \in Int /\ (gap >= 0 => gap \div Ratio(t) >= 0)
      BY <2>4, <3>1, WholeUnits, Zenon
    <3>3. QED
      BY <3>1, <3>2
  <2> DEFINE k == (gap \div Ratio(t) + CSA) * Mcu
  <2>6. k \in Nat /\ n = now + k
    BY <2>4, <2>5
  <2>7. n \in Nat /\ n # 0 /\ n - now = k
    <3> HIDE DEF k, n
    <3>1. QED
      BY <2>6
  <2>8. c \in Bq /\ c.timer = n /\ c = [b EXCEPT !.start[t] = now, !.timer = c.timer]
    <3> HIDE DEF n
    <3>1. QED
      BY <1>5, <1>6, <2>2, <2>7, Zenon
  <2>9. ASSUME NEW x \in Range(b.queue) \ {t}
        PROVE  k * Ratio(t) + b.residual[t]
               < (b.evt[x] - b.evt[t] + CSA * Ratio(t) + 1) * Mcu
    <3>1. b.evt[b.queue[2]] <= b.evt[x]
      BY FirstTwo
    <3>2. x \in Thread
      BY <1>1 DEF Range
    <3> DEFINE g == b.evt[x] - b.evt[t]
    <3>3. g \in Int /\ gap <= g
      <4>1. b.evt[x] \in Int /\ b.evt[t] \in Int /\ b.evt[b.queue[2]] \in Int
        BY <1>1, <1>2, <2>1, <3>2, Zenon
      <4>2. gap = b.evt[b.queue[2]] - b.evt[t]
        BY <2>1 DEF gap
      <4>3. g \in Int /\ b.evt[b.queue[2]] - b.evt[t] <= g
        BY <3>1, <4>1, Gaps, Zenon
      <4>4. QED
        BY <4>2, <4>3
    <3>4. b.residual[t] \in 0 .. Mcu - 1
      BY <1>1, <1>2, Zenon
    <3> HIDE DEF g
    <3>5. k * Ratio(t) + b.residual[t] < (g + CSA * Ratio(t) + 1) * Mcu
      BY <2>3, <2>4, <3>3, <3>4, GapAndAllowance, Zenon
    <3>6. QED
      BY <3>5 DEF g
  <2> HIDE DEF k, n, c
  <2>10. QED
    BY <1>2, <1>4, <2>7, <2>8, <2>9, Zenon
<1>9. QED
  BY <1>7, <1>8

-----------------------------------------------------------------------------
\* The inductive invariant.

USE DEF NEED_RESCHEDULE

\* It holds when the pCPU comes up.
LEMMA BvtInitInv == BvtInit => BvtInv
<1> SUFFICES ASSUME BvtInit PROVE BvtInv
  OBVIOUS
<1>1. IInv
  BY InitIInv DEF BvtInit
<1>2. Awake = {} /\ Running = None /\ curr = None /\ next = None
  BY DEF BvtInit, Init, Awake, Thread, Obj, Running
<1>3. bq \in Bq /\ spent \in [Thread -> Int]
  <2>1. <<>> \in Seq(Thread) /\ 0 \in 0 .. Mcu - 1
    OBVIOUS
  <2>2. QED
    BY <2>1 DEF BvtInit, EmptyBq, Zero, Bq
<1>4. /\ bq.queue = <<>> /\ bq.avt = Zero /\ bq.evt = Zero /\ bq.residual = Zero
      /\ bq.start = Zero /\ spent = Zero /\ now = StartTime
  BY DEF BvtInit, EmptyBq
<1>5. QueueOrder(bq) /\ Range(bq.queue) = {}
  BY <1>4 DEF QueueOrder, Distinct, Sorted, Range
<1>6. Clock /\ Fresh
  BY <1>2, <1>4, ClockAssumption DEF Clock, Fresh, Zero
<1>7. AvtIsLedger
  <2>1. None \notin Thread
    BY DEF Obj
  <2>2. 0 * Mcu + 0 + 0 = 0
    OBVIOUS
  <2>3. QED
    BY <1>2, <1>4, <2>1, <2>2 DEF AvtIsLedger, Zero
<1>8. QED
  BY <1>1, <1>2, <1>3, <1>5, <1>6, <1>7 DEF BvtInv, RunqueueIsAwake, Countdown

\* Outside schedule() the thread that runs is curr_obj.
LEMMA RunsCurr ==
    ASSUME BvtInv, pc # "switch"
    PROVE  Running = curr /\ next = None
BY DEF BvtInv, Fresh, Running

\* A step of the framework that leaves the runqueue alone, keeps who runs and who
\* is awake, and requests no less, keeps the invariant.
LEMMA BvtQuiet ==
    ASSUME BvtInv, IInv', UNCHANGED <<now, bq, spent>>, Awake' = Awake, Running' = Running,
           \A t \in Thread : status'[t] = "unset" => status[t] = "unset",
           pc' # "switch" => next' = None,
           \/ flags \subseteq flags' /\ (pc' = "switch" => pc = "switch")
           \/ pc = "switch"
           \/ Awake \subseteq {Running}
    PROVE  BvtInv'
<1> USE DEF BvtInv
<1>1. bq' \in Bq /\ spent' \in [Thread -> Int] /\ QueueOrder(bq')
  OBVIOUS
<1>2. RunqueueIsAwake' /\ Clock'
  BY DEF RunqueueIsAwake, Clock
<1>3. Fresh'
  BY DEF Fresh
<1>4. AvtIsLedger'
  BY DEF AvtIsLedger, Ratio
<1>5. Countdown'
  BY DEF Countdown, Ratio
<1>6. QED
  BY <1>1, <1>2, <1>3, <1>4, <1>5

\* The runqueue that pick_next chooses from: its members and what each has paid.
LEMMA PickFacts ==
    ASSUME BvtInv, NEW order \in Orders(priority_pending \cap thread_list \cap Awake)
    PROVE  LET b == BvtCharge(BvtPrioritizeAll(bq, order))
           IN  /\ b \in Bq /\ QueueOrder(b) /\ Range(b.queue) = Awake /\ b.start = bq.start
               /\ \A x \in Thread : b.avt[x] * Mcu + b.residual[x]
                    = bq.avt[x] * Mcu + bq.residual[x]
                      + (IF x = curr THEN (now - bq.start[x]) * Ratio(x) ELSE 0)
               /\ \A x \in Thread \ {curr} : b.residual[x] = bq.residual[x]
<1> DEFINE d == BvtPrioritizeAll(bq, order)
           b == BvtCharge(d)
<1>1. /\ bq \in Bq /\ QueueOrder(bq) /\ Range(bq.queue) = Awake
      /\ now \in Nat /\ \A t \in Thread : bq.start[t] <= now
  BY DEF BvtInv, RunqueueIsAwake, Clock
<1>2. order \in Seq(Thread)
  <2>1. (priority_pending \cap thread_list \cap Awake) \in SUBSET Thread
    BY DEF Awake
  <2>2. QED
    BY <2>1, OrderIsSeq
<1>3. d \in Bq /\ QueueOrder(d) /\ SameWork(bq, d)
  BY <1>1, <1>2, PassOrder
<1> HIDE DEF d
<1>4. /\ Range(d.queue) = Awake /\ d.start = bq.start /\ d.avt = bq.avt
      /\ d.residual = bq.residual
  BY <1>1, <1>3 DEF SameWork
<1>5. /\ b \in Bq /\ QueueOrder(b) /\ Range(b.queue) = Range(d.queue) /\ b.start = d.start
      /\ \A x \in Thread : b.avt[x] * Mcu + b.residual[x]
           = d.avt[x] * Mcu + d.residual[x]
             + (IF x = curr THEN (now - d.start[x]) * Ratio(x) ELSE 0)
      /\ \A x \in Thread \ {curr} : b.residual[x] = d.residual[x]
  BY <1>1, <1>3, <1>4, ChargeFrame
<1> HIDE DEF b
<1>6. QED
  BY <1>4, <1>5, Zenon DEF b, d

\* The head of the runqueue is a legal pick.
LEMMA ChoiceContract ==
    ASSUME NEW b \in Bq, Range(b.queue) = Awake
    PROVE  /\ BvtChoice(b) \in Obj /\ PickContract(BvtChoice(b))
           /\ b.queue = <<>> => BvtChoice(b) = Idle /\ Awake = {}
           /\ b.queue # <<>> => BvtChoice(b) = Head(b.queue) /\ Head(b.queue) \in Awake
<1>1. b.queue \in Seq(Thread)
  BY DEF Bq
<1>2. CASE b.queue = <<>>
  <2>1. Range(b.queue) = {}
    BY <1>2 DEF Range
  <2>2. QED
    BY <1>2, <2>1 DEF BvtChoice, PickContract, Obj
<1>3. CASE b.queue # <<>>
  <2>1. 1 \in DOMAIN b.queue /\ Head(b.queue) = b.queue[1]
    BY <1>1, <1>3
  <2>2. Head(b.queue) \in Range(b.queue)
    BY <2>1 DEF Range
  <2>3. Head(b.queue) \in Thread
    BY <1>1, <1>3
  <2>4. QED
    BY <1>3, <2>2, <2>3 DEF BvtChoice, PickContract, Obj
<1>4. QED
  BY <1>2, <1>3

\* Every step of this pCPU is a step of the framework, or none: pick_next keeps
\* the contract that schedule() relies on.
LEMMA BvtStepIsScheduleStep ==
    ASSUME BvtInv, [Operation \/ Tick]_bvtvars
    PROVE  [Next]_vars
<1>1. CASE BvtPick
  <2>1. PICK order \in Orders(priority_pending \cap thread_list \cap Awake) :
          SchedulePick(BvtChoice(BvtCharge(BvtPrioritizeAll(bq, order))))
    BY <1>1 DEF BvtPick
  <2> DEFINE b == BvtCharge(BvtPrioritizeAll(bq, order))
  <2>2. b \in Bq /\ Range(b.queue) = Awake
    BY PickFacts, ZenonT(30)
  <2> HIDE DEF b
  <2>3. BvtChoice(b) \in Obj /\ PickContract(BvtChoice(b))
    BY <2>2, ChoiceContract
  <2>4. QED
    BY <2>1, <2>3 DEF Next, b
<1>2. CASE BvtWakeThread
  BY <1>2 DEF BvtWakeThread, Next, Calls
<1>3. CASE BvtCalls
  BY <1>3, Zenon DEF BvtCalls, Next, Calls
<1>4. CASE Steps
  BY <1>4 DEF Next
<1>5. CASE HelperSleep
  BY <1>5 DEF Next
<1>6. CASE BvtTickHandler
  BY <1>6 DEF BvtTickHandler, Next
<1>7. CASE Tick \/ UNCHANGED bvtvars
  BY <1>7 DEF Tick, bvtvars
<1>8. QED
  BY <1>1, <1>2, <1>3, <1>4, <1>5, <1>6, <1>7 DEF Operation

\* schedule()'s pick keeps the invariant: the thread that ran has paid, and the
\* timer is armed for the one that will.
LEMMA BvtPickInv ==
    ASSUME BvtInv, IInv', BvtPick, UNCHANGED <<now, spent>>
    PROVE  BvtInv'
<1>1. PICK order \in Orders(priority_pending \cap thread_list \cap Awake) :
        LET b == BvtCharge(BvtPrioritizeAll(bq, order))
        IN  SchedulePick(BvtChoice(b)) /\ bq' = BvtStart(b, BvtChoice(b))
  BY DEF BvtPick
<1> DEFINE b == BvtCharge(BvtPrioritizeAll(bq, order))
           t == BvtChoice(b)
<1>2. /\ b \in Bq /\ QueueOrder(b) /\ Range(b.queue) = Awake /\ b.start = bq.start
      /\ \A x \in Thread : b.avt[x] * Mcu + b.residual[x]
           = bq.avt[x] * Mcu + bq.residual[x]
             + (IF x = curr THEN (now - bq.start[x]) * Ratio(x) ELSE 0)
      /\ \A x \in Thread \ {curr} : b.residual[x] = bq.residual[x]
  BY PickFacts, Zenon
<1>3. SchedulePick(t) /\ bq' = BvtStart(b, t)
  BY <1>1
<1> HIDE DEF b
<1>4. /\ t \in Obj
      /\ b.queue = <<>> => t = Idle /\ Awake = {}
      /\ b.queue # <<>> => t = Head(b.queue) /\ t \in Awake
  BY <1>2, ChoiceContract
<1> HIDE DEF t
<1>5. Running = curr
  BY <1>3, RunsCurr, Zenon DEF SchedulePick, MayCallSchedule
<1>6. Awake' = Awake /\ Running' = t /\ pc' = "switch" /\ status' = status /\ next' = t
  <2>1. t # None
    BY <1>4
  <2>2. QED
    BY <1>3, <2>1 DEF SchedulePick, Awake, Running
<1>7. now \in Nat \ {0} /\ bq.start \in [Thread -> Nat] /\ \A x \in Thread : bq.start[x] <= now
  BY DEF BvtInv, Clock, Bq
<1>8. /\ bq' \in Bq /\ bq'.queue = b.queue /\ bq'.evt = b.evt /\ bq'.avt = b.avt
      /\ bq'.residual = b.residual
      /\ \A x \in Thread : bq'.start[x] = IF x = t THEN now ELSE bq.start[x]
      /\ t \in Thread => \A x \in Awake \ {t} :
           /\ bq'.timer # 0
           /\ (bq'.timer - now) * Ratio(t) + b.residual[t]
              < (b.evt[x] - b.evt[t] + CSA * Ratio(t) + 1) * Mcu
  <2>1. CASE b.queue = <<>>
    <3>1. t = Idle /\ t \notin Thread
      BY <1>4, <2>1
    <3>2. bq' = [b EXCEPT !.timer = 0]
      BY <1>3, <3>1 DEF BvtStart
    <3>3. QED
      BY <1>2, <3>1, <3>2, ZenonT(30) DEF Bq
  <2>2. CASE b.queue # <<>>
    <3>1. /\ t \in Thread /\ bq' \in Bq
          /\ bq' = [b EXCEPT !.start[t] = now, !.timer = bq'.timer]
          /\ \A x \in Range(b.queue) \ {t} :
               /\ bq'.timer # 0
               /\ (bq'.timer - now) * Ratio(t) + b.residual[t]
                  < (b.evt[x] - b.evt[t] + CSA * Ratio(t) + 1) * Mcu
      BY <1>2, <1>3, <1>4, <1>7, <2>2, StartCountdown, Zenon
    <3>2. \A n : LET f == [b EXCEPT !.start[t] = now, !.timer = n]
                 IN  /\ f.queue = b.queue /\ f.evt = b.evt /\ f.avt = b.avt
                     /\ f.residual = b.residual /\ f.start = [b.start EXCEPT ![t] = now]
      BY <1>2 DEF Bq
    <3>3. /\ bq'.queue = b.queue /\ bq'.evt = b.evt /\ bq'.avt = b.avt
          /\ bq'.residual = b.residual /\ bq'.start = [b.start EXCEPT ![t] = now]
      BY <3>1, <3>2, ZenonT(30)
    <3>4. \A x \in Thread : bq'.start[x] = IF x = t THEN now ELSE bq.start[x]
      BY <1>2, <1>7, <3>3
    <3>5. QED
      BY <1>2, <3>1, <3>3, <3>4
  <2>3. QED
    BY <2>1, <2>2
<1>9. QueueOrder(bq') /\ RunqueueIsAwake'
  BY <1>2, <1>6, <1>8 DEF QueueOrder, RunqueueIsAwake
<1>10. Clock' /\ spent' \in [Thread -> Int]
  <2>1. \A x \in Thread : bq'.start[x] <= now'
    BY <1>7, <1>8
  <2>2. now' \in Nat \ {0} /\ spent' \in [Thread -> Int]
    BY <1>7 DEF BvtInv
  <2>3. QED
    BY <2>1, <2>2 DEF Clock
<1>11. Fresh'
  <2>1. \A x \in Thread : status[x] = "unset" => x # curr /\ bq.residual[x] = 0
    BY FrameworkFacts DEF BvtInv, Fresh
  <2>2. QED
    BY <1>2, <1>6, <1>8, <2>1 DEF Fresh
<1>12. AvtIsLedger'
  <2>1. ASSUME NEW x \in Thread
        PROVE  bq'.avt[x] * Mcu + bq'.residual[x]
               + (IF x = t THEN (now - bq'.start[x]) * Ratio(x) ELSE 0) = spent[x]
    <3>1. bq'.avt[x] * Mcu + bq'.residual[x] = spent[x]
      BY <1>2, <1>5, <1>8 DEF BvtInv, AvtIsLedger
    <3>2. spent[x] \in Int
      BY DEF BvtInv
    <3>3. x = t => (now - bq'.start[x]) * Ratio(x) = 0
      <4>1. Ratio(x) \in Int /\ 0 * Ratio(x) = 0
        BY DEF Ratio
      <4>2. x = t => now - bq'.start[x] = 0
        BY <1>7, <1>8
      <4>3. QED
        BY <4>1, <4>2
    <3>4. QED
      BY <3>1, <3>2, <3>3
  <2>2. QED
    BY <1>6, <2>1 DEF AvtIsLedger, Ratio
<1>13. Countdown'
  <2>1. ASSUME t \in Awake, NEW x \in Awake \ {t}
        PROVE  /\ bq'.timer # 0
               /\ (bq'.timer - bq'.start[t]) * Ratio(t) + bq'.residual[t]
                  < (bq'.evt[x] - bq'.evt[t] + CSA * Ratio(t) + 1) * Mcu
    <3>1. t \in Thread
      BY <2>1 DEF Awake
    <3>2. QED
      BY <1>8, <2>1, <3>1
  <2>2. QED
    BY <1>6, <2>1 DEF Countdown, Ratio
<1>14. QED
  BY <1>8, <1>9, <1>10, <1>11, <1>12, <1>13 DEF BvtInv

\* A call that changes who is awake together with the runqueue, and either leaves
\* the times alone or requests a reschedule, keeps the invariant.
LEMMA BvtCallInv ==
    ASSUME BvtInv, IInv', UNCHANGED <<now, spent, curr, next>>, pc # "switch", pc' # "switch",
           bq' \in Bq, QueueOrder(bq'), Range(bq'.queue) = Awake',
           bq'.avt = bq.avt, bq'.residual = bq.residual, bq'.start = bq.start,
           \A t \in Thread : status'[t] = "unset" => status[t] = "unset",
           \/ NEED_RESCHEDULE \in flags'
           \/ /\ flags' = flags /\ Awake' \subseteq Awake
              /\ bq'.evt = bq.evt /\ bq'.timer = bq.timer
    PROVE  BvtInv'
<1>1. Running = curr /\ next = None /\ Running' = Running
  BY RunsCurr DEF Running
<1>2. RunqueueIsAwake' /\ Clock' /\ Fresh' /\ spent' \in [Thread -> Int]
  BY <1>1, Zenon DEF RunqueueIsAwake, Clock, Fresh, BvtInv
<1>3. AvtIsLedger'
  BY <1>1 DEF AvtIsLedger, BvtInv, Ratio
<1>4. Countdown'
  BY <1>1 DEF Countdown, BvtInv, Ratio
<1>5. QED
  BY <1>2, <1>3, <1>4 DEF BvtInv

\* sleep_thread keeps the invariant.
LEMMA BvtSleepInv ==
    ASSUME BvtInv, IInv', UNCHANGED <<now, spent>>, NEW t \in Thread,
           bq' = BvtSleep(bq, t), NEW from \in Caller,
           SleepThread(t, from) \/ (HelperSleep /\ t = curr)
    PROVE  BvtInv'
<1>0. IInv /\ bq \in Bq /\ QueueOrder(bq) /\ Range(bq.queue) = Awake
  BY DEF BvtInv, RunqueueIsAwake
<1>1. /\ Awake' = Awake \ {t} /\ UNCHANGED <<curr, next>> /\ pc # "switch" /\ pc' # "switch"
      /\ \A x \in Thread : status'[x] = "unset" => status[x] = "unset"
      /\ NEED_RESCHEDULE \in flags' \/ flags' = flags
  <2>1. CASE SleepThread(t, from)
    BY <1>0, <2>1, FrameworkFacts, ZenonT(30)
       DEF SleepThread, LockFree, MakeRescheduleRequest, Awake, Thread, Obj
  <2>2. CASE HelperSleep /\ t = curr
    BY <1>0, <2>2, FrameworkFacts, Zenon
       DEF HelperSleep, MakeRescheduleRequest, Awake, Thread, Obj
  <2>3. QED
    BY <2>1, <2>2
<1>2. /\ bq' \in Bq /\ QueueOrder(bq') /\ Range(bq'.queue) = Range(bq.queue) \ {t}
      /\ bq' = [bq EXCEPT !.queue = bq'.queue]
  BY <1>0, SleepFrame
<1>3. /\ bq'.avt = bq.avt /\ bq'.residual = bq.residual /\ bq'.start = bq.start
      /\ bq'.evt = bq.evt /\ bq'.timer = bq.timer
  <2>1. \A q : LET f == [bq EXCEPT !.queue = q]
               IN /\ f.avt = bq.avt /\ f.residual = bq.residual /\ f.start = bq.start
                  /\ f.timer = bq.timer /\ f.evt = bq.evt
    BY <1>0 DEF Bq
  <2>2. QED
    BY <1>2, <2>1, ZenonT(30)
<1>4. Range(bq'.queue) = Awake' /\ Awake' \subseteq Awake
  BY <1>0, <1>1, <1>2
<1>5. QED
  BY <1>1, <1>2, <1>3, <1>4, BvtCallInv

\* init_thread_data keeps the invariant.
LEMMA BvtInitDataInv ==
    ASSUME BvtInv, IInv', UNCHANGED <<now, spent>>, NEW t \in Thread,
           InitThreadData(t), bq' = BvtInitData(bq, t)
    PROVE  BvtInv'
<1>0. /\ IInv /\ bq \in Bq /\ QueueOrder(bq) /\ Range(bq.queue) = Awake
      /\ bq.residual[t] = 0
  BY ZenonT(30) DEF BvtInv, RunqueueIsAwake, Fresh, InitThreadData
<1>1. /\ Awake' = Awake /\ t \notin Awake /\ UNCHANGED <<curr, next, flags>>
      /\ pc # "switch" /\ pc' # "switch"
      /\ \A x \in Thread : status'[x] = "unset" => status[x] = "unset"
  BY <1>0, FrameworkFacts DEF InitThreadData, LockFree, Awake, Thread, Obj
<1>2. /\ bq' \in Bq /\ QueueOrder(bq') /\ Range(bq'.queue) = Range(bq.queue) \ {t}
      /\ bq'.avt = bq.avt /\ bq'.evt = bq.evt /\ bq'.residual = bq.residual
      /\ bq'.start = bq.start /\ bq'.timer = bq.timer
  BY <1>0, InitDataFrame
<1>3. Range(bq'.queue) = Awake'
  BY <1>0, <1>1, <1>2, Zenon
<1>4. QED
  BY <1>1, <1>2, <1>3, BvtCallInv

\* wake_thread keeps the invariant: whatever the wakeup does to the order, a
\* reschedule is requested.
LEMMA BvtWakeInv ==
    ASSUME BvtInv, IInv', UNCHANGED now, BvtWakeThread
    PROVE  BvtInv'
<1>1. PICK t \in Thread, from \in Caller :
        /\ WakeThread(t, from) /\ bq' = BvtWake(bq, t)
        /\ spent' = [spent EXCEPT ![t] = @ + (bq'.avt[t] - bq.avt[t]) * Mcu]
  BY Zenon DEF BvtWakeThread
<1>2. IInv /\ bq \in Bq /\ QueueOrder(bq) /\ Range(bq.queue) = Awake /\ spent \in [Thread -> Int]
  BY DEF BvtInv, RunqueueIsAwake
<1>3. /\ Awake' = Awake \cup {t} /\ t \notin Awake /\ UNCHANGED <<curr, next>>
      /\ pc # "switch" /\ pc' # "switch"
      /\ \A x \in Thread : status'[x] = "unset" => status[x] = "unset"
      /\ NEED_RESCHEDULE \in flags'
  BY <1>1, <1>2, FrameworkFacts, ZenonT(30)
     DEF WakeThread, LockFree, MakeRescheduleRequest, Awake, Thread, Obj
<1>4. /\ bq' \in Bq /\ QueueOrder(bq') /\ Range(bq'.queue) = Range(bq.queue) \cup {t}
      /\ bq'.residual = bq.residual /\ bq'.start = bq.start /\ bq'.timer = bq.timer
      /\ \A x \in Thread \ {t} : bq'.avt[x] = bq.avt[x]
  BY <1>1, <1>2, <1>3, WakeOrder, Zenon
<1>5. Running = curr /\ next = None /\ Running' = Running
  BY <1>3, RunsCurr DEF Running
<1>6. RunqueueIsAwake' /\ Clock' /\ Fresh'
  BY <1>2, <1>3, <1>4, <1>5 DEF RunqueueIsAwake, Clock, Fresh, BvtInv
<1> DEFINE d == (bq'.avt[t] - bq.avt[t]) * Mcu
<1>7. /\ bq.avt[t] \in Int /\ bq'.avt[t] \in Int /\ Mcu \in Int
      /\ d \in Int /\ bq'.avt[t] * Mcu = bq.avt[t] * Mcu + d
  <2>1. bq.avt[t] \in Int /\ bq'.avt[t] \in Int /\ Mcu \in Int
    BY <1>2, <1>4 DEF Bq
  <2>2. QED
    BY <2>1
<1>8. spent' = [spent EXCEPT ![t] = spent[t] + d]
  BY <1>1
<1> HIDE DEF d
<1>9. spent' \in [Thread -> Int]
  BY <1>2, <1>7, <1>8
<1>10. AvtIsLedger'
  <2> DEFINE Due(x) == IF x = Running THEN (now - bq.start[x]) * Ratio(x) ELSE 0
  <2>1. ASSUME NEW x \in Thread
        PROVE  bq'.avt[x] * Mcu + bq'.residual[x] + Due(x) = spent'[x]
    <3>1. bq.avt[x] * Mcu + bq.residual[x] + Due(x) = spent[x]
      BY DEF BvtInv, AvtIsLedger
    <3>2. CASE x # t
      BY <1>2, <1>4, <1>8, <3>1, <3>2
    <3>3. CASE x = t
      <4>1. Due(x) \in Int
        <5>1. now \in Int /\ bq.start[x] \in Int /\ Ratio(x) \in Int
          BY <1>2 DEF BvtInv, Clock, Bq, Ratio
        <5>2. QED
          BY <5>1
      <4>2. bq.residual[x] \in Int /\ bq.avt[x] * Mcu \in Int
        <5>1. bq.residual[x] \in Int
          BY <1>2 DEF Bq
        <5>2. QED
          BY <1>7, <3>3, <5>1
      <4>3. spent'[x] = spent[x] + d
        BY <1>2, <1>8, <3>3
      <4> HIDE DEF Due
      <4>4. bq'.avt[x] * Mcu = bq.avt[x] * Mcu + d /\ bq'.residual[x] = bq.residual[x]
        BY <1>4, <1>7, <3>3
      <4>5. QED
        BY <1>7, <3>1, <4>1, <4>2, <4>3, <4>4
    <3>4. QED
      BY <3>2, <3>3
  <2>2. QED
    BY <1>4, <1>5, <2>1 DEF AvtIsLedger, Ratio
<1>11. Countdown'
  BY <1>3 DEF Countdown
<1>12. QED
  BY <1>4, <1>6, <1>9, <1>10, <1>11 DEF BvtInv

\* sched_tick_handler keeps the invariant: with the timer gone, a reschedule is
\* requested unless nothing can run.
LEMMA BvtTickHandlerInv ==
    ASSUME BvtInv, IInv', UNCHANGED <<now, spent>>, BvtTickHandler
    PROVE  BvtInv'
<1>1. bq \in Bq /\ QueueOrder(bq) /\ Range(bq.queue) = Awake /\ bq' = [bq EXCEPT !.timer = 0]
  BY DEF BvtInv, RunqueueIsAwake, BvtTickHandler
<1>2. /\ bq' \in Bq /\ bq'.queue = bq.queue /\ bq'.evt = bq.evt /\ bq'.avt = bq.avt
      /\ bq'.residual = bq.residual /\ bq'.start = bq.start
  BY <1>1, Zenon DEF Bq
<1>3. QueueOrder(bq')
  BY <1>1, <1>2 DEF QueueOrder
<1>4. /\ UNCHANGED <<status, be_blocking, curr, next, pc>> /\ pc # "switch"
  BY DEF BvtTickHandler, TimerTick, vars, InHypervisor
<1>5. Awake' = Awake
  BY <1>4 DEF Awake
<1>6. CASE NEED_RESCHEDULE \in flags'
  BY <1>1, <1>2, <1>3, <1>4, <1>5, <1>6, BvtCallInv
<1>7. CASE NEED_RESCHEDULE \notin flags'
  <2>1. curr = Idle /\ Awake = {}
    <3>1. curr = Idle /\ bq.queue = <<>>
      BY <1>7 DEF BvtTickHandler, TimerTick, MakeRescheduleRequest
    <3>2. QED
      BY <1>1, <3>1 DEF Range
  <2>2. Running = curr /\ next = None /\ Running' = Running
    BY <1>4, RunsCurr DEF Running
  <2>3. RunqueueIsAwake' /\ Clock' /\ Fresh' /\ spent' \in [Thread -> Int]
    BY <1>1, <1>2, <1>4, <1>5, <2>2 DEF RunqueueIsAwake, Clock, Fresh, BvtInv
  <2>4. AvtIsLedger'
    BY <1>2, <2>2 DEF AvtIsLedger, BvtInv, Ratio
  <2>5. Countdown'
    BY <1>5, <2>1 DEF Countdown
  <2>6. QED
    BY <1>2, <1>3, <2>3, <2>4, <2>5 DEF BvtInv
<1>8. QED
  BY <1>6, <1>7

\* Time passes: the running thread is charged later for what it executes now.
LEMMA BvtTickInv ==
    ASSUME BvtInv, IInv', Tick
    PROVE  BvtInv'
<1>1. /\ now \in Nat \ {0} /\ now' = now + 1 /\ bq' = bq /\ UNCHANGED vars
      /\ bq \in Bq /\ spent \in [Thread -> Int] /\ \A t \in Thread : bq.start[t] <= now
  BY DEF BvtInv, Clock, Tick
<1>2. Running' = Running /\ Awake' = Awake
  BY <1>1 DEF vars, Running, Awake
<1>3. ASSUME NEW t \in Thread
      PROVE  Ratio(t) \in Int /\ bq.start[t] \in Nat /\ bq.start[t] <= now'
  <2>1. Ratio(t) \in Int /\ bq.start[t] \in Nat
    BY <1>1 DEF Ratio, Bq
  <2>2. QED
    BY <1>1, <2>1
<1>4. RunqueueIsAwake' /\ Clock' /\ Fresh' /\ QueueOrder(bq')
  <2>1. RunqueueIsAwake' /\ QueueOrder(bq')
    BY <1>1, <1>2 DEF RunqueueIsAwake, BvtInv
  <2>2. now' \in Nat \ {0}
    BY <1>1
  <2>3. Clock'
    BY <1>1, <1>3, <2>2 DEF Clock
  <2>4. Fresh'
    BY <1>1 DEF Fresh, vars, BvtInv
  <2>5. QED
    BY <2>1, <2>3, <2>4
<1>5. spent' = [t \in Thread |-> IF t = Running THEN spent[t] + Ratio(t) ELSE spent[t]]
  BY DEF Tick
<1>6. spent' \in [Thread -> Int]
  BY <1>1, <1>3, <1>5
<1>7. AvtIsLedger'
  <2>1. ASSUME NEW t \in Thread
        PROVE  bq.avt[t] * Mcu + bq.residual[t]
               + (IF t = Running THEN (now' - bq.start[t]) * Ratio(t) ELSE 0) = spent'[t]
    <3>1. bq.avt[t] * Mcu + bq.residual[t]
          + (IF t = Running THEN (now - bq.start[t]) * Ratio(t) ELSE 0) = spent[t]
      BY DEF BvtInv, AvtIsLedger
    <3>2. CASE t # Running
      BY <1>5, <3>1, <3>2
    <3>3. CASE t = Running
      <4> DEFINE old == bq.avt[t] * Mcu + bq.residual[t]
                 due == (now - bq.start[t]) * Ratio(t)
      <4>1. old \in Int
        <5>1. bq.avt[t] \in Int /\ bq.residual[t] \in Int /\ Mcu \in Int
          BY <1>1 DEF Bq
        <5>2. bq.avt[t] * Mcu \in Int
          BY <5>1
        <5>3. QED
          BY <5>1, <5>2
      <4>2. due \in Int /\ (now' - bq.start[t]) * Ratio(t) = due + Ratio(t)
        <5>1. now \in Int /\ bq.start[t] \in Int /\ Ratio(t) \in Int
          BY <1>1, <1>3
        <5> DEFINE then == now'
                   from == bq.start[t]
        <5>2. then \in Int /\ then = now + 1 /\ from \in Int
          BY <1>1, <5>1
        <5> HIDE DEF then, from
        <5>3. (now - from) * Ratio(t) \in Int /\ (then - from) * Ratio(t) = (now - from) * Ratio(t) + Ratio(t)
          BY <5>1, <5>2, OneMore
        <5>4. QED
          BY <5>3 DEF then, from
      <4>3. old + due = spent[t] /\ spent'[t] = spent[t] + Ratio(t)
        BY <1>5, <3>1, <3>3
      <4> HIDE DEF old, due
      <4>4. old + (due + Ratio(t)) = spent'[t]
        BY <1>3, <4>1, <4>2, <4>3
      <4>5. QED
        BY <3>3, <4>2, <4>4 DEF old
    <3>4. QED
      BY <3>2, <3>3
  <2>2. QED
    BY <1>1, <1>2, <2>1 DEF AvtIsLedger, Ratio
<1>8. Countdown'
  BY <1>1, <1>2 DEF Countdown, BvtInv, Ratio, vars
<1>9. QED
  BY <1>1, <1>4, <1>6, <1>7, <1>8 DEF BvtInv

\* The steps of the pCPU that call no hook of the policy keep the invariant.
LEMMA BvtStepsInv ==
    ASSUME BvtInv, IInv', Steps \/ UNCHANGED vars, UNCHANGED <<now, bq, spent>>
    PROVE  BvtInv'
<1>0. IInv
  BY DEF BvtInv
<1>1. CASE ScheduleSwitch
  <2>1. Awake' = Awake /\ curr' = next /\ next \in Obj
    BY <1>0, <1>1, SwitchKeepsAwake
  <2>2. pc = "switch" /\ next' = None /\ next # None
    BY <1>1, <2>1 DEF ScheduleSwitch
  <2>3. Running' = Running
    BY <2>1, <2>2 DEF Running
  <2>4. \A t \in Thread : status'[t] = "unset" => status[t] = "unset"
    BY <1>1 DEF ScheduleSwitch, SwitchStatus, Thread, Obj
  <2>5. QED
    BY <2>1, <2>2, <2>3, <2>4, BvtQuiet
<1>2. CASE RunIdleThread
  <2>1. pc # "switch" /\ Running = curr /\ next = None /\ curr = None
    BY <1>0, <1>2, RunsCurr DEF RunIdleThread, IInv, LocationOwner
  <2>2. curr' = Idle /\ next' = None /\ Running' = Idle /\ pc' # "switch" /\ flags' = flags
    BY <1>2, <2>1 DEF RunIdleThread, Running
  <2>3. \A t \in Thread : status'[t] = status[t]
    BY <1>0, <1>2, FrameworkFacts DEF RunIdleThread, Thread, Obj
  <2>4. Awake' = Awake /\ Idle \notin Awake
    BY <1>2, <2>3 DEF RunIdleThread, Awake
  <2>5. None \notin Thread /\ Idle \notin Thread
    BY DEF Obj
  <2>6. /\ RunqueueIsAwake' /\ Clock' /\ Fresh' /\ bq' \in Bq /\ QueueOrder(bq')
        /\ spent' \in [Thread -> Int]
    BY <2>2, <2>3, <2>4 DEF RunqueueIsAwake, Clock, Fresh, BvtInv
  <2>7. AvtIsLedger'
    BY <2>1, <2>2, <2>5 DEF AvtIsLedger, BvtInv
  <2>8. Countdown'
    BY <2>2, <2>4 DEF Countdown
  <2>9. QED
    BY <2>6, <2>7, <2>8 DEF BvtInv
<1>3. CASE ClearIfCurrentOnly
  <2>1. /\ pc # "switch" /\ pc' # "switch" /\ UNCHANGED <<status, be_blocking, curr, next>>
        /\ flags' = flags \/ Awake \cap thread_list = {curr}
    BY <1>3 DEF ClearIfCurrentOnly
  <2>2. Running = curr /\ next = None /\ Running' = Running /\ Awake' = Awake
    BY <2>1, RunsCurr DEF Running, Awake
  <2>3. Awake \subseteq thread_list
    BY <1>0, FrameworkFacts
  <2>4. QED
    BY <2>1, <2>2, <2>3, BvtQuiet
<1>4. ASSUME UNCHANGED <<status, be_blocking, curr, next>>, flags \subseteq flags',
             pc' = pc \/ (pc # "switch" /\ pc' # "switch")
      PROVE  BvtInv'
  <2>1. Awake' = Awake /\ Running' = Running
    BY <1>4 DEF Awake, Running
  <2>2. pc' # "switch" => next' = None
    BY <1>4, Zenon DEF BvtInv, Fresh
  <2>3. QED
    BY <1>4, <2>1, <2>2, BvtQuiet, ZenonT(30)
<1>5. CASE UNCHANGED vars
  BY <1>4, <1>5, Zenon DEF vars
<1>6. CASE Steps /\ ~ScheduleSwitch /\ ~RunIdleThread /\ ~ClearIfCurrentOnly
  <2>1. UNCHANGED <<status, be_blocking, curr, next>> /\ flags \subseteq flags'
    BY <1>6, ZenonT(30)
       DEF Steps, IdleTest, IdleWfi, IdleWakeup, Move, TakeIrq, FirstEntry, GuestIrq,
                GuestTrap, GuestYield, GuestResume, HelperYield, MakeRescheduleRequest
  <2>2. pc' = pc \/ (pc # "switch" /\ pc' # "switch")
    BY <1>6, Zenon DEF Steps, IdleTest, IdleWfi, IdleWakeup, Move, TakeIrq, FirstEntry, GuestIrq,
                GuestTrap, GuestYield, GuestResume, HelperYield
  <2>3. QED
    BY <1>4, <2>1, <2>2, Zenon
<1>7. QED
  BY <1>1, <1>2, <1>3, <1>5, <1>6

\* Every step keeps the inductive invariant.
LEMMA BvtNextInv == BvtInv /\ [Operation \/ Tick]_bvtvars => BvtInv'
<1> SUFFICES ASSUME BvtInv, [Operation \/ Tick]_bvtvars PROVE BvtInv'
  OBVIOUS
<1>1. IInv'
  BY BvtStepIsScheduleStep, NextIInv DEF BvtInv
<1>2. CASE Tick
  BY <1>1, <1>2, BvtTickInv
<1>3. CASE UNCHANGED bvtvars
  <2>1. UNCHANGED vars /\ UNCHANGED <<now, bq, spent>>
    BY <1>3 DEF bvtvars
  <2>2. QED
    BY <1>1, <2>1, BvtStepsInv
<1>4. CASE Operation
  <2>1. UNCHANGED now
    BY <1>4 DEF Operation
  <2>2. CASE BvtWakeThread
    BY <1>1, <2>1, <2>2, BvtWakeInv
  <2>3. CASE BvtPick /\ UNCHANGED spent
    BY <1>1, <2>1, <2>3, BvtPickInv
  <2>4. CASE BvtTickHandler /\ UNCHANGED spent
    BY <1>1, <2>1, <2>4, BvtTickHandlerInv
  <2>5. CASE Steps /\ UNCHANGED bq /\ UNCHANGED spent
    BY <1>1, <2>1, <2>5, BvtStepsInv
  <2>6. CASE HelperSleep /\ bq' = BvtSleep(bq, curr) /\ UNCHANGED spent
    <3>1. curr \in Thread
      BY <2>6, Zenon DEF HelperSleep, BvtInv, IInv, LocationOwner, Thread
    <3>2. "local" \in Caller
      BY DEF Caller
    <3>3. QED
      BY <1>1, <2>1, <2>6, <3>1, <3>2, BvtSleepInv
  <2>7. CASE BvtCalls /\ UNCHANGED spent
    <3>1. ASSUME NEW t \in Thread, InitThreadData(t), bq' = BvtInitData(bq, t)
          PROVE  BvtInv'
      BY <1>1, <2>1, <2>7, <3>1, BvtInitDataInv
    <3>2. ASSUME NEW v \in Vcpu, NEW from \in Caller, SleepThread(v, from),
                 bq' = BvtSleep(bq, v)
          PROVE  BvtInv'
      <4>1. v \in Thread
        BY DEF Thread
      <4>2. QED
        BY <1>1, <2>1, <2>7, <3>2, <4>1, BvtSleepInv
    <3>3. ASSUME NEW v \in Injected, NEW from \in Caller, VcpuMakeRequest(v, from),
                 UNCHANGED bq
          PROVE  BvtInv'
      <4>1. /\ UNCHANGED <<status, be_blocking, curr, next, pc>> /\ flags \subseteq flags'
        BY <3>3 DEF VcpuMakeRequest, MakeRescheduleRequest
      <4>2. Awake' = Awake /\ Running' = Running
        BY <4>1 DEF Awake, Running
      <4>3. pc' # "switch" => next' = None
        BY <4>1 DEF BvtInv, Fresh
      <4>4. QED
        BY <1>1, <2>1, <2>7, <3>3, <4>1, <4>2, <4>3, BvtQuiet
    <3>4. QED
      BY <2>7, <3>1, <3>2, <3>3 DEF BvtCalls
  <2>8. QED
    BY <1>4, <2>2, <2>3, <2>4, <2>5, <2>6, <2>7 DEF Operation
<1>5. QED
  BY <1>2, <1>3, <1>4

-----------------------------------------------------------------------------
\* The theorems.

\* The inductive invariant holds in every reachable state.
THEOREM BvtInvariance == BvtSpec => []BvtInv
BY BvtInitInv, BvtNextInv, PTL DEF BvtSpec

\* runqueue_add and runqueue_remove are called so that the runqueue holds exactly
\* the awake threads, through every race of sleep_thread, wake_thread and
\* schedule().
THEOREM RunqueueHoldsAwake == BvtSpec => []RunqueueIsAwake
BY BvtInvariance, PTL DEF BvtInv

\* No charge, wakeup or warp leaves the runqueue out of EVT order.
THEOREM RunqueueSorted == BvtSpec => []SortedByEvt
<1>1. BvtInv => SortedByEvt
  BY DEF BvtInv, QueueOrder, Sorted, SortedByEvt
<1>2. QED
  BY <1>1, BvtInvariance, PTL

\* update_vt, the wakeup and the warps together keep AVT an exact account of what
\* a thread executed.
THEOREM Ledger == BvtSpec => []AvtIsLedger
BY BvtInvariance, PTL DEF BvtInv

\* Until tick_timer is due or a reschedule is requested, no thread outruns a
\* waiting one by more than the context-switch allowance.
THEOREM Overrun == BvtSpec => []BoundedOverrun
<1>1. BvtInv => BoundedOverrun
  <2> SUFFICES ASSUME BvtInv, curr \in Awake, pc # "switch", NEED_RESCHEDULE \notin flags,
                      bq.timer = 0 \/ now <= bq.timer, NEW t \in Awake \ {curr}
               PROVE  LiveEvt(curr) <= bq.evt[t] + CSA * Ratio(curr)
    BY DEF BoundedOverrun
  <2> DEFINE x == bq.timer - bq.start[curr]
             y == now - bq.start[curr]
             R == Ratio(curr)
             D == bq.evt[t] - bq.evt[curr] + CSA * R + 1
             r == bq.residual[curr]
  <2>1. curr \in Thread /\ t \in Thread /\ bq \in Bq /\ now \in Nat /\ bq.start[curr] <= now
    BY DEF Awake, BvtInv, Clock
  <2>2. /\ bq.timer \in Nat /\ bq.start[curr] \in Nat /\ r \in Nat
        /\ bq.evt[t] \in Int /\ bq.evt[curr] \in Int
    BY <2>1 DEF Bq
  <2>3. R \in Nat \ {0} /\ Mcu \in Nat \ {0} /\ CSA \in Nat
    BY DEF Ratio
  <2>4. bq.timer # 0 /\ x * R + r < D * Mcu
    BY RunsCurr DEF BvtInv, Countdown
  <2>5. now <= bq.timer
    BY <2>4
  <2>6. CSA * R \in Int
    BY <2>3
  <2>7. x \in Int /\ y \in Int /\ D \in Int /\ y <= x /\ 0 <= y
    <3> HIDE DEF R
    <3>1. QED
      BY <2>1, <2>2, <2>5, <2>6
  <2>8. Uncharged(bq, curr) = y * R + r \/ Uncharged(bq, curr) = 0
    BY DEF Uncharged
  <2> DEFINE q == (y * R + r) \div Mcu
             u == Uncharged(bq, curr) \div Mcu
  <2>9. LiveEvt(curr) = bq.evt[curr] + u
    BY DEF LiveEvt
  <2> HIDE DEF x, y, R, r, D
  <2>10. q < D /\ 0 < D
    BY <2>2, <2>3, <2>4, <2>7, ShortOfUnits
  <2>11. q \in Int
    <3>1. y * R \in Int
      BY <2>3, <2>7
    <3>2. y * R + r \in Int
      BY <2>2, <3>1
    <3>3. QED
      BY <2>3, <3>2, WholeUnits, Zenon
  <2>12. u = q \/ u = 0
    <3>1. 0 \div Mcu = 0
      BY <2>3
    <3>2. QED
      BY <2>8, <3>1
  <2> HIDE DEF q, u
  <2>13. u \in Int /\ u < D
    BY <2>10, <2>11, <2>12
  <2>14. bq.evt[curr] + u <= bq.evt[t] + CSA * R
    BY <2>2, <2>6, <2>13 DEF D
  <2>15. QED
    BY <2>9, <2>14 DEF R
<1>2. QED
  BY <1>1, BvtInvariance, PTL

\* pick_next keeps the contract that schedule() relies on: this pCPU implements the
\* framework, and with it everything that is proved of the framework.
THEOREM BvtImplementsSchedule == BvtSpec => ImplementsSchedule
<1>1. BvtInit => Init
  BY DEF BvtInit
<1>2. BvtInv /\ [Operation \/ Tick]_bvtvars => [Next]_vars
  BY BvtStepIsScheduleStep
<1>3. QED
  BY <1>1, <1>2, BvtInvariance, PTL DEF BvtSpec, ImplementsSchedule, Spec

=============================================================================
