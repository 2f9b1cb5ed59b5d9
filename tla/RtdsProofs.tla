----------------------------- MODULE RtdsProofs -----------------------------
(***************************************************************************)
(* Proofs about RTDS on a shared pCPU, for every number of threads, every  *)
(* period and every budget.                                                *)
(***************************************************************************)
EXTENDS RtdsCpu, ScheduleProofs, ListProofs

\* The runqueue record.
Rq == [ready : Seq(Thread), depleted : Seq(Thread), remaining : [Thread -> Nat],
       deadline : [Thread -> Nat], last_start : [Thread -> Nat], timer : Nat]

Members(r) == Range(r.ready) \cup Range(r.depleted)

\* The boundaries of periods up to the next one.
Grid == {k * Period : k \in 0 .. now \div Period + 1}

\* No thread is on a queue twice or on both, and no deadline lies beyond the
\* current period.
WellQueued(r) ==
    /\ r \in Rq
    /\ Distinct(r.ready) /\ Distinct(r.depleted)
    /\ Range(r.ready) \cap Range(r.depleted) = {}
    /\ \A t \in Thread : r.deadline[t] \in Grid

\* A server with budget is not on the depleted queue, one without not on ready.
InPlace(r, t) ==
    /\ t \in Range(r.ready) => r.remaining[t] > 0
    /\ t \in Range(r.depleted) => r.remaining[t] = 0 /\ r.deadline[t] # 0

\* All servers but those of X are where their budget puts them.
Sound(r, X) == WellQueued(r) /\ \A t \in Thread \ X : InPlace(r, t)

\* The server of t is in the current period.
Current(r, t) == r.deadline[t] = NextPeriodBoundary

\* From r to s periods are rolled and servers moved between the queues; who
\* leaves the depleted queue is in the current period.
Rolled(r, s, X) ==
    /\ Sound(s, X) /\ Members(s) = Members(r)
    /\ \A t \in Thread :
         /\ Current(r, t) => Current(s, t)
         /\ t \in Range(r.depleted) \ Range(s.depleted) => Current(s, t)

\* From r to s the server of t enters the current period, and is the only one
\* that changes.
OnlyServer(r, s, t) ==
    /\ WellQueued(s) /\ Current(s, t)
    /\ \A u \in Thread \ {t} :
         /\ u \in Range(s.ready) <=> u \in Range(r.ready)
         /\ u \in Range(s.depleted) <=> u \in Range(r.depleted)
         /\ s.remaining[u] = r.remaining[u] /\ s.deadline[u] = r.deadline[u]

\* The thread that executes; the one schedule() has chosen, from the choice on.
Runs == IF next # None THEN next ELSE curr

\* Who is awake and does not run is queued, and who is queued is awake.
QueuedAwake == Awake \ {Runs} \subseteq Members(rq) /\ Members(rq) \subseteq Awake

\* The pick stays right, and the timer armed, until the switch.
Picked ==
    (pc = "switch" /\ next \in Thread) =>
        /\ rq.timer # 0
        /\ \A t \in Awake : /\ rq.deadline[next] <= rq.deadline[t]
                            /\ rq.remaining[t] > 0 => rq.remaining[next] > 0

\* The inductive invariant.
RtdsInv ==
    /\ IInv
    /\ now \in Nat \ {0}
    /\ pc # "switch" => next = None
    /\ Sound(rq, {})
    /\ QueuedAwake
    /\ Picked
    /\ PreemptionArmed

-----------------------------------------------------------------------------
\* The grid of periods.

\* A number has one quotient.
LEMMA SameQuotient ==
    ASSUME NEW a \in Int, NEW b \in Int, NEW P \in Nat \ {0},
           NEW x \in 0 .. P - 1, NEW y \in 0 .. P - 1, a * P + x <= b * P + y
    PROVE  a <= b
<1> SUFFICES ASSUME b + 1 <= a PROVE FALSE
  OBVIOUS
<1>1. (b + 1) * P <= a * P
  OBVIOUS
<1>2. (b + 1) * P = b * P + P /\ a * P \in Int /\ b * P \in Int
  OBVIOUS
<1>3. QED
  BY <1>1, <1>2

\* rtds_advance_period and rtds_next_period_boundary agree: a deadline of the
\* grid that is due rolls to the next boundary, and one that is not is there.
LEMMA GridStep ==
    ASSUME NEW n \in Nat, NEW P \in Nat \ {0}, NEW k \in 0 .. n \div P + 1
    PROVE  /\ k * P \in Nat /\ (n \div P + 1) * P \in Nat /\ n < (n \div P + 1) * P
           /\ n \div P \in Nat
           /\ n < k * P => k * P = (n \div P + 1) * P
           /\ ~(n < k * P) => k * P + ((n - k * P) \div P + 1) * P = (n \div P + 1) * P
<1> DEFINE q == n \div P
           m == n % P
<1>1. q \in Nat /\ m \in 0 .. P - 1 /\ n = q * P + m
  <2>1. n \in Int /\ n >= 0
    OBVIOUS
  <2>2. q \in Int /\ m \in 0 .. P - 1 /\ n = q * P + m /\ (n >= 0 => q >= 0)
    BY <2>1, WholeUnits, Zenon
  <2>3. QED
    BY <2>1, <2>2
<1>2. k \in 0 .. q + 1
  OBVIOUS
<1> HIDE DEF q, m
<1>3. (q + 1) * P = q * P + P /\ q * P \in Nat /\ k * P \in Nat /\ k \in Nat
  BY <1>1, <1>2
<1>4. n < (q + 1) * P /\ (q + 1) * P \in Nat
  BY <1>1, <1>3
<1>5. ASSUME n < k * P PROVE k = q + 1
  <2>1. k <= q => k * P <= q * P
    BY <1>1, <1>3
  <2>2. QED
    BY <1>1, <1>2, <1>3, <1>5, <2>1
<1>6. ASSUME ~(n < k * P)
      PROVE  k * P + ((n - k * P) \div P + 1) * P = (q + 1) * P
  <2> DEFINE v == n - k * P
             e == v \div P
             f == v % P
  <2>1. v \in Int
    BY <1>3
  <2>2. e \in Int /\ f \in 0 .. P - 1 /\ v = e * P + f
    <3> HIDE DEF v
    <3>1. QED
      BY <2>1, WholeUnits
  <2> HIDE DEF e, f
  <2>3. (k + e) * P = k * P + e * P /\ e * P \in Int
    BY <1>3, <2>2
  <2>4. n = (k + e) * P + f /\ k + e \in Int
    BY <1>3, <2>2, <2>3
  <2>5. k + e <= q
    BY <1>1, <2>2, <2>4, SameQuotient
  <2>6. q <= k + e
    BY <1>1, <2>2, <2>4, SameQuotient
  <2>7. q = k + e
    BY <1>1, <2>4, <2>5, <2>6
  <2>8. k * P + (e + 1) * P = (k + e + 1) * P
    BY <1>3, <2>2
  <2>9. QED
    BY <2>7, <2>8 DEF e
<1>7. QED
  BY <1>1, <1>3, <1>4, <1>5, <1>6 DEF q

\* The grid only grows.
LEMMA GridGrows ==
    ASSUME NEW n \in Nat, NEW P \in Nat \ {0}, NEW k \in Nat, k = n + 1
    PROVE  n \div P <= k \div P /\ n \div P \in Int /\ k \div P \in Int
<1> DEFINE a == n \div P
           x == n % P
           b == k \div P
           y == k % P
<1>1. a \in Int /\ x \in 0 .. P - 1 /\ n = a * P + x
  BY WholeUnits
<1>2. b \in Int /\ y \in 0 .. P - 1 /\ k = b * P + y
  BY WholeUnits
<1> HIDE DEF a, b, x, y
<1>3. a * P + x <= b * P + y
  BY <1>1, <1>2
<1>4. a <= b
  BY <1>1, <1>2, <1>3, SameQuotient
<1>5. QED
  BY <1>1, <1>2, <1>4 DEF a, b

USE ThreadAssumption, ServerAssumption

\* The next period boundary is the last of the grid.
LEMMA BoundaryOnGrid ==
    ASSUME now \in Nat \ {0}
    PROVE  /\ NextPeriodBoundary \in Grid /\ NextPeriodBoundary \in Nat
           /\ now \div Period \in Nat
<1>1. now \in Nat /\ Period \in Nat \ {0} /\ now \div Period \in Int
  OBVIOUS
<1>2. now \div Period \in Nat
  <2>1. now \in Int /\ now >= 0
    BY <1>1
  <2>2. now \div Period >= 0
    BY <1>1, <2>1, WholeUnits
  <2>3. QED
    BY <1>1, <2>2
<1>3. now \div Period + 1 \in 0 .. now \div Period + 1
  BY <1>2
<1>4. NextPeriodBoundary \in Nat
  BY <1>1, <1>2, <1>3, GridStep DEF NextPeriodBoundary
<1>5. QED
  BY <1>2, <1>3, <1>4 DEF Grid, NextPeriodBoundary

\* rtds_advance_period puts a server into the current period.
LEMMA AdvanceServer ==
    ASSUME now \in Nat \ {0}, NEW r, WellQueued(r), NEW t \in Thread
    PROVE  LET s == AdvancePeriod(r, t)
           IN  /\ OnlyServer(r, s, t) /\ s.ready = r.ready /\ s.depleted = r.depleted
               /\ s.last_start = r.last_start
               /\ now < s.deadline[t] /\ s.deadline[t] # 0
               /\ now < r.deadline[t] => s = r
               /\ ~(now < r.deadline[t]) => s.remaining[t] = Budget
<1> DEFINE top == NextPeriodBoundary
           s == AdvancePeriod(r, t)
<1>1. /\ r \in Rq /\ Distinct(r.ready) /\ Distinct(r.depleted)
      /\ Range(r.ready) \cap Range(r.depleted) = {}
      /\ \A u \in Thread : r.deadline[u] \in Grid
  BY DEF WellQueued
<1>2. PICK k \in 0 .. now \div Period + 1 : r.deadline[t] = k * Period
  BY <1>1, Zenon DEF Grid
<1> DEFINE d == r.deadline[t]
<1>3. /\ d \in Nat /\ top \in Nat /\ now < top
      /\ now < d => d = top
      /\ ~(now < d) => d + ((now - d) \div Period + 1) * Period = top
  <2>1. now \in Nat /\ Period \in Nat \ {0}
    OBVIOUS
  <2> DEFINE e == k * Period
  <2>2. /\ e \in Nat /\ top \in Nat /\ now < top
        /\ now < e => e = top
        /\ ~(now < e) => e + ((now - e) \div Period + 1) * Period = top
    BY <2>1, GridStep, Zenon DEF NextPeriodBoundary
  <2>3. d = e
    BY <1>2
  <2> HIDE DEF e, d, top
  <2>4. QED
    BY <2>2, <2>3
<1>4. top \in Grid
  BY BoundaryOnGrid
<1> HIDE DEF top
<1>5. CASE now < d
  <2>1. s = r /\ d = top
    BY <1>3, <1>5 DEF AdvancePeriod
  <2>2. QED
    BY <1>1, <1>3, <1>5, <2>1 DEF OnlyServer, WellQueued, Current, top
<1>6. CASE ~(now < d)
  <2>1. s = [r EXCEPT !.deadline[t] = top, !.remaining[t] = Budget]
    BY <1>3, <1>6, Zenon DEF AdvancePeriod
  <2>2. /\ s \in Rq /\ s.ready = r.ready /\ s.depleted = r.depleted
        /\ s.last_start = r.last_start
        /\ s.deadline = [r.deadline EXCEPT ![t] = top]
        /\ s.remaining = [r.remaining EXCEPT ![t] = Budget]
    <3>1. /\ s.ready = r.ready /\ s.depleted = r.depleted /\ s.last_start = r.last_start
          /\ s.deadline = [r.deadline EXCEPT ![t] = top]
          /\ s.remaining = [r.remaining EXCEPT ![t] = Budget]
      BY <1>1, <2>1 DEF Rq
    <3> DEFINE dl == [r.deadline EXCEPT ![t] = top]
               rem == [r.remaining EXCEPT ![t] = Budget]
    <3>2. dl \in [Thread -> Nat] /\ rem \in [Thread -> Nat]
      BY <1>1, <1>3 DEF Rq
    <3>3. s = [r EXCEPT !.deadline = dl, !.remaining = rem]
      BY <2>1
    <3> HIDE DEF dl, rem, s
    <3>4. s \in Rq
      BY <1>1, <3>2, <3>3, Zenon DEF Rq
    <3>5. QED
      BY <3>1, <3>4
  <2>3. r.deadline \in [Thread -> Nat] /\ r.remaining \in [Thread -> Nat]
    BY <1>1 DEF Rq
  <2> HIDE DEF s
  <2>4. /\ s.deadline[t] = top /\ s.remaining[t] = Budget
        /\ \A u \in Thread \ {t} : s.deadline[u] = r.deadline[u] /\ s.remaining[u] = r.remaining[u]
    BY <2>2, <2>3
  <2>5. WellQueued(s)
    BY <1>1, <1>4, <2>2, <2>4 DEF WellQueued
  <2>6. now < s.deadline[t] /\ s.deadline[t] # 0
    BY <1>3, <2>4
  <2>7. QED
    BY <1>6, <2>2, <2>4, <2>5, <2>6 DEF OnlyServer, Current, top, s
<1>7. QED
  BY <1>5, <1>6

-----------------------------------------------------------------------------
\* The two queues.

\* list_add_tail of a node that is in no list.
LEMMA AppendList ==
    ASSUME NEW S, NEW l \in Seq(S), Distinct(l), NEW t \in S, t \notin Range(l)
    PROVE  /\ Append(l, t) \in Seq(S) /\ Distinct(Append(l, t))
           /\ Range(Append(l, t)) = Range(l) \cup {t}
<1> DEFINE a == Append(l, t)
<1>1. /\ a \in Seq(S) /\ Len(l) \in Nat /\ DOMAIN l = 1 .. Len(l)
      /\ DOMAIN a = 1 .. Len(l) + 1 /\ a[Len(l) + 1] = t
      /\ \A i \in 1 .. Len(l) : a[i] = l[i]
  OBVIOUS
<1> HIDE DEF a
<1>2. \A i \in DOMAIN l : l[i] # t
  BY DEF Range
<1>3. Distinct(a)
  BY <1>1, <1>2 DEF Distinct
<1>4. Range(a) = Range(l) \cup {t}
  <2>1. \A i \in DOMAIN a : a[i] \in Range(l) \cup {t}
    BY <1>1 DEF Range
  <2>2. \A i \in DOMAIN l : i \in DOMAIN a /\ a[i] = l[i]
    BY <1>1
  <2>3. Len(l) + 1 \in DOMAIN a
    BY <1>1
  <2>4. QED
    BY <1>1, <2>1, <2>2, <2>3 DEF Range
<1>5. QED
  BY <1>1, <1>3, <1>4 DEF a

\* rtds_queue_remove, rtds_ready_insert and rtds_depleted_insert move t, and
\* change no account.
LEMMA QueueMoves ==
    ASSUME NEW r, WellQueued(r), NEW t \in Thread
    PROVE  /\ \A s \in {QueueRemove(r, t), ReadyInsert(r, t), DepletedInsert(r, t)} :
                /\ WellQueued(s)
                /\ s.remaining = r.remaining /\ s.deadline = r.deadline
                /\ s.last_start = r.last_start
           /\ /\ Range(QueueRemove(r, t).ready) = Range(r.ready) \ {t}
              /\ Range(QueueRemove(r, t).depleted) = Range(r.depleted) \ {t}
           /\ /\ Range(ReadyInsert(r, t).ready) = Range(r.ready) \cup {t}
              /\ Range(ReadyInsert(r, t).depleted) = Range(r.depleted) \ {t}
           /\ /\ Range(DepletedInsert(r, t).ready) = Range(r.ready) \ {t}
              /\ Range(DepletedInsert(r, t).depleted) = Range(r.depleted) \cup {t}
<1> DEFINE q == Unlink(r.ready, t)
           p == Unlink(r.depleted, t)
<1>1. /\ r \in Rq /\ Distinct(r.ready) /\ Distinct(r.depleted)
      /\ Range(r.ready) \cap Range(r.depleted) = {}
      /\ r.ready \in Seq(Thread) /\ r.depleted \in Seq(Thread)
  BY DEF WellQueued, Rq
<1>2. q \in Seq(Thread) /\ Distinct(q) /\ Range(q) = Range(r.ready) \ {t}
  BY <1>1, UnlinkList
<1>3. p \in Seq(Thread) /\ Distinct(p) /\ Range(p) = Range(r.depleted) \ {t}
  BY <1>1, UnlinkList
<1>4. QueueRemove(r, t) = [r EXCEPT !.ready = q, !.depleted = p]
  BY DEF QueueRemove
<1> DEFINE later == {i \in DOMAIN q : r.deadline[t] < r.deadline[q[i]]}
           m == InsertBefore(q, later, t)
<1>5. ReadyInsert(r, t) = [r EXCEPT !.ready = m, !.depleted = p]
  BY DEF ReadyInsert
<1>6. later \in SUBSET DOMAIN q
  OBVIOUS
<1> HIDE DEF q, p, later
<1>7. m \in Seq(Thread) /\ Distinct(m) /\ Range(m) = Range(q) \cup {t}
  BY <1>2, <1>6, InsertList
<1> HIDE DEF m
<1> DEFINE R == QueueRemove(r, t)
           I == ReadyInsert(r, t)
           D == DepletedInsert(r, t)
<1>8. /\ WellQueued(R) /\ Range(R.ready) = Range(r.ready) \ {t}
      /\ Range(R.depleted) = Range(r.depleted) \ {t}
      /\ R.remaining = r.remaining /\ R.deadline = r.deadline /\ R.last_start = r.last_start
  <2>1. Range(q) \cap Range(p) = {}
    BY <1>1, <1>2, <1>3
  <2> HIDE DEF R
  <2>2. R = [r EXCEPT !.ready = q, !.depleted = p]
    BY <1>4 DEF R
  <2>3. /\ WellQueued(R) /\ R.ready = q /\ R.depleted = p
        /\ R.remaining = r.remaining /\ R.deadline = r.deadline
        /\ R.last_start = r.last_start
    <3>1. /\ R \in Rq /\ R.ready = q /\ R.depleted = p
          /\ R.remaining = r.remaining /\ R.deadline = r.deadline
          /\ R.last_start = r.last_start
      BY <1>1, <1>2, <1>3, <2>2, Zenon DEF Rq
    <3>2. QED
      BY <1>2, <1>3, <2>1, <3>1 DEF WellQueued
  <2>4. QED
    BY <1>2, <1>3, <2>1, <2>3
<1>9. /\ WellQueued(I) /\ Range(I.ready) = Range(r.ready) \cup {t}
      /\ Range(I.depleted) = Range(r.depleted) \ {t}
      /\ I.remaining = r.remaining /\ I.deadline = r.deadline /\ I.last_start = r.last_start
  <2>1. Range(m) \cap Range(p) = {} /\ Range(m) = Range(r.ready) \cup {t}
    BY <1>1, <1>2, <1>3, <1>7
  <2> HIDE DEF I
  <2>2. I = [r EXCEPT !.ready = m, !.depleted = p]
    BY <1>5 DEF I
  <2>3. /\ WellQueued(I) /\ I.ready = m /\ I.depleted = p
        /\ I.remaining = r.remaining /\ I.deadline = r.deadline
        /\ I.last_start = r.last_start
    <3>1. /\ I \in Rq /\ I.ready = m /\ I.depleted = p
          /\ I.remaining = r.remaining /\ I.deadline = r.deadline
          /\ I.last_start = r.last_start
      BY <1>1, <1>3, <1>7, <2>2, Zenon DEF Rq
    <3>2. QED
      BY <1>3, <1>7, <2>1, <3>1 DEF WellQueued
  <2>4. QED
    BY <1>2, <1>3, <2>1, <2>3
<1>10. /\ WellQueued(D) /\ Range(D.ready) = Range(r.ready) \ {t}
       /\ Range(D.depleted) = Range(r.depleted) \cup {t}
       /\ D.remaining = r.remaining /\ D.deadline = r.deadline /\ D.last_start = r.last_start
  <2>1. CASE t \in Range(r.depleted)
    BY <1>1, <2>1 DEF DepletedInsert
  <2>2. CASE t \notin Range(r.depleted)
    <3> DEFINE a == Append(r.depleted, t)
    <3>1. a \in Seq(Thread) /\ Distinct(a) /\ Range(a) = Range(r.depleted) \cup {t}
      BY <1>1, <2>2, AppendList
    <3>2. D = [r EXCEPT !.ready = q, !.depleted = a]
      BY <2>2 DEF DepletedInsert, q
    <3>3. Range(q) \cap Range(a) = {}
      BY <1>1, <1>2, <3>1
    <3> HIDE DEF a, D
    <3>4. /\ WellQueued(D) /\ D.ready = q /\ D.depleted = a
          /\ D.remaining = r.remaining /\ D.deadline = r.deadline
          /\ D.last_start = r.last_start
      <4>1. /\ D \in Rq /\ D.ready = q /\ D.depleted = a
            /\ D.remaining = r.remaining /\ D.deadline = r.deadline
            /\ D.last_start = r.last_start
        BY <1>1, <1>2, <3>1, <3>2, Zenon DEF Rq
      <4>2. QED
        BY <1>2, <3>1, <3>3, <4>1 DEF WellQueued
    <3>5. QED
      BY <1>2, <3>1, <3>4
  <2>3. QED
    BY <2>1, <2>2
<1>11. QED
  BY <1>8, <1>9, <1>10

\* Threads are queued.
LEMMA MembersThreads ==
    ASSUME NEW r, WellQueued(r)
    PROVE  Members(r) \subseteq Thread
<1>1. r.ready \in Seq(Thread) /\ r.depleted \in Seq(Thread)
  BY DEF WellQueued, Rq
<1>2. Range(r.ready) \subseteq Thread /\ Range(r.depleted) \subseteq Thread
  BY <1>1 DEF Range
<1>3. QED
  BY <1>2 DEF Members

\* Moving only t: the queues say which other servers are in place.
LEMMA OnlyRolled ==
    ASSUME NEW r, NEW s, NEW t \in Thread, NEW X, Sound(r, X), OnlyServer(r, s, t),
           InPlace(s, t) \/ t \in X, t \in Members(s) <=> t \in Members(r)
    PROVE  Rolled(r, s, X)
<1>1. \A u \in Thread \ {t} : InPlace(r, u) => InPlace(s, u)
  BY DEF OnlyServer, InPlace
<1>2. Sound(s, X)
  BY <1>1 DEF Sound, OnlyServer
<1>3. Members(s) = Members(r)
  <2>1. Members(s) \subseteq Thread /\ Members(r) \subseteq Thread
    BY <1>2, MembersThreads DEF Sound
  <2>2. \A u \in Thread : u \in Members(s) <=> u \in Members(r)
    BY DEF OnlyServer, Members
  <2>3. QED
    BY <2>1, <2>2
<1>4. QED
  BY <1>2, <1>3 DEF Rolled, OnlyServer, Current

\* rtds_queue_remove, also of a server that its queue does not match.
LEMMA Removed ==
    ASSUME NEW r, NEW t \in Thread, Sound(r, {t}) \/ Sound(r, {})
    PROVE  LET s == QueueRemove(r, t)
           IN  /\ Sound(s, {}) /\ Members(s) = Members(r) \ {t}
               /\ s.deadline = r.deadline /\ s.remaining = r.remaining /\ s.timer = r.timer
<1> DEFINE s == QueueRemove(r, t)
<1>1. WellQueued(r) /\ \A u \in Thread \ {t} : InPlace(r, u)
  BY DEF Sound
<1>2. /\ WellQueued(s) /\ s.remaining = r.remaining /\ s.deadline = r.deadline
      /\ Range(s.ready) = Range(r.ready) \ {t}
      /\ Range(s.depleted) = Range(r.depleted) \ {t}
  BY <1>1, QueueMoves, Zenon
<1>3. s.timer = r.timer
  BY <1>1 DEF QueueRemove, WellQueued, Rq
<1> HIDE DEF s
<1>4. \A u \in Thread : InPlace(s, u)
  BY <1>1, <1>2 DEF InPlace
<1>5. QED
  BY <1>2, <1>3, <1>4 DEF Sound, Members, s

\* The same queues and budgets.
Unmoved(r, s) ==
    /\ s \in Rq /\ s.ready = r.ready /\ s.depleted = r.depleted
    /\ s.remaining = r.remaining /\ s.deadline = r.deadline

\* The timer and the start of a charge play no part in the queues.
LEMMA UnmovedSound ==
    ASSUME NEW r, NEW s, NEW X, Sound(r, X), Unmoved(r, s)
    PROVE  Sound(s, X) /\ Members(s) = Members(r)
BY DEF Sound, WellQueued, InPlace, Unmoved, Members

\* A step of a pass after the steps before it.
LEMMA RolledOn ==
    ASSUME NEW r, NEW s, NEW u, NEW X, Rolled(r, s, X), Rolled(s, u, X)
    PROVE  Rolled(r, u, X)
BY DEF Rolled

\* rtds_is_active holds of the awake threads.
LEMMA ActiveIsAwake ==
    ASSUME IInv, NEW t \in Thread
    PROVE  Active(t) <=> t \in Awake
BY FrameworkFacts DEF Active, Awake, IInv, OneOwner, Obj

\* rtds_refresh_thread: the server enters the current period, and its budget
\* decides where it waits.
LEMMA RefreshServer ==
    ASSUME IInv, now \in Nat \ {0}, NEW r, WellQueued(r), NEW t \in Thread
    PROVE  LET s == RefreshThread(r, t)
           IN  /\ OnlyServer(r, s, t)
               /\ t \in Awake => InPlace(s, t) /\ t \in Members(s)
               /\ t \notin Awake => s.ready = r.ready /\ s.depleted = r.depleted
<1> DEFINE a == AdvancePeriod(r, t)
           s == RefreshThread(r, t)
<1>1. /\ OnlyServer(r, a, t) /\ a.ready = r.ready /\ a.depleted = r.depleted
      /\ a.deadline[t] # 0
  BY AdvanceServer
<1>2. s = IF t \notin Awake THEN a
          ELSE IF a.remaining[t] > 0 THEN ReadyInsert(a, t) ELSE DepletedInsert(a, t)
  BY ActiveIsAwake DEF RefreshThread, Awake
<1> HIDE DEF a, s
<1>3. CASE t \notin Awake
  BY <1>1, <1>2, <1>3 DEF s
<1>4. WellQueued(a)
  BY <1>1 DEF OnlyServer
<1>5. CASE t \in Awake /\ a.remaining[t] > 0
  <2>1. /\ WellQueued(s) /\ s.remaining = a.remaining /\ s.deadline = a.deadline
        /\ Range(s.ready) = Range(a.ready) \cup {t}
        /\ Range(s.depleted) = Range(a.depleted) \ {t}
    BY <1>2, <1>4, <1>5, QueueMoves, Zenon
  <2>2. OnlyServer(r, s, t)
    BY <1>1, <2>1 DEF OnlyServer, Current
  <2>3. QED
    BY <1>5, <2>1, <2>2 DEF InPlace, Members, s
<1>6. CASE t \in Awake /\ ~(a.remaining[t] > 0)
  <2>1. /\ WellQueued(s) /\ s.remaining = a.remaining /\ s.deadline = a.deadline
        /\ Range(s.ready) = Range(a.ready) \ {t}
        /\ Range(s.depleted) = Range(a.depleted) \cup {t}
    BY <1>2, <1>4, <1>6, QueueMoves, Zenon
  <2>2. OnlyServer(r, s, t)
    BY <1>1, <2>1 DEF OnlyServer, Current
  <2>3. a.remaining[t] = 0
    BY <1>4, <1>6, SMTT(30) DEF WellQueued, Rq
  <2>4. QED
    BY <1>1, <1>6, <2>1, <2>2, <2>3 DEF InPlace, Members, s
<1>7. QED
  BY <1>3, <1>5, <1>6 DEF s

\* A ready server whose period is over is taken off and refreshed.
LEMMA RollServer ==
    ASSUME IInv, now \in Nat \ {0}, NEW r, WellQueued(r), NEW t \in Awake,
           InPlace(r, t), t \in Members(r)
    PROVE  LET s == RollReady(r, t)
           IN  OnlyServer(r, s, t) /\ InPlace(s, t) /\ t \in Members(s)
<1> DEFINE a == AdvancePeriod(r, t)
           b == QueueRemove(a, t)
           s == RefreshThread(b, t)
<1>1. t \in Thread
  BY DEF Awake
<1>2. OnlyServer(r, a, t) /\ (now < r.deadline[t] => a = r)
  BY <1>1, AdvanceServer
<1>3. RollReady(r, t) = IF now < r.deadline[t] THEN r ELSE s
  BY DEF RollReady
<1> HIDE DEF a
<1>4. CASE now < r.deadline[t]
  BY <1>2, <1>3, <1>4
<1>5. CASE ~(now < r.deadline[t])
  <2>1. WellQueued(a)
    BY <1>2 DEF OnlyServer
  <2>2. /\ WellQueued(b) /\ b.remaining = a.remaining /\ b.deadline = a.deadline
        /\ Range(b.ready) = Range(a.ready) \ {t}
        /\ Range(b.depleted) = Range(a.depleted) \ {t}
    BY <1>1, <2>1, QueueMoves, Zenon
  <2> HIDE DEF b
  <2>3. OnlyServer(b, s, t) /\ InPlace(s, t) /\ t \in Members(s)
    BY <1>1, <2>2, RefreshServer
  <2> HIDE DEF s
  <2>4. OnlyServer(r, s, t)
    BY <1>2, <2>2, <2>3 DEF OnlyServer
  <2>5. QED
    BY <1>3, <1>5, <2>3, <2>4
<1>6. QED
  BY <1>4, <1>5

\* sched_rtds_prioritize: the running server is only refilled, and may be on the
\* wrong queue until schedule() refreshes it.
LEMMA PrioritizeServer ==
    ASSUME now \in Nat \ {0}, NEW r, WellQueued(r), NEW t \in Thread,
           t # curr => InPlace(r, t) /\ t \in Members(r)
    PROVE  LET s == Prioritize(r, t)
           IN  /\ OnlyServer(r, s, t) /\ (t # curr => InPlace(s, t))
               /\ t \in Members(s) <=> t \in Members(r)
<1> DEFINE a == AdvancePeriod(r, t)
           s == Prioritize(r, t)
<1>1. /\ OnlyServer(r, a, t) /\ a.ready = r.ready /\ a.depleted = r.depleted
      /\ now < r.deadline[t] => a = r
      /\ ~(now < r.deadline[t]) => a.remaining[t] = Budget
  BY AdvanceServer
<1>2. s = IF t # curr /\ a.remaining[t] > 0 THEN ReadyInsert(a, t) ELSE a
  BY DEF Prioritize
<1> HIDE DEF a, s
<1>3. WellQueued(a)
  BY <1>1 DEF OnlyServer
<1>4. CASE t # curr /\ a.remaining[t] > 0
  <2>1. /\ WellQueued(s) /\ s.remaining = a.remaining /\ s.deadline = a.deadline
        /\ Range(s.ready) = Range(a.ready) \cup {t}
        /\ Range(s.depleted) = Range(a.depleted) \ {t}
    BY <1>2, <1>3, <1>4, QueueMoves, Zenon
  <2>2. OnlyServer(r, s, t)
    BY <1>1, <2>1 DEF OnlyServer, Current
  <2>3. QED
    BY <1>4, <2>1, <2>2 DEF InPlace, Members, s
<1>5. CASE ~(t # curr /\ a.remaining[t] > 0)
  <2>1. t # curr => a = r
    BY <1>1, <1>5
  <2>2. QED
    BY <1>1, <1>2, <1>5, <2>1 DEF Members, s
<1>6. QED
  BY <1>4, <1>5 DEF s

\* A pass over the list l, by steps that each roll one server.
LEMMA PassRolls ==
    ASSUME NEW r, NEW X, Sound(r, X), NEW l \in Seq(Thread), NEW f, f[0] = r,
           \A k \in 1 .. Len(l) :
             Rolled(r, f[k - 1], X) =>
               Rolled(f[k - 1], f[k], X) /\ Current(f[k], l[k])
    PROVE  /\ Rolled(r, f[Len(l)], X)
           /\ \A t \in Range(l) : Current(f[Len(l)], t)
<1> DEFINE Good(k) == Rolled(r, f[k], X) /\ \A i \in 1 .. k : Current(f[k], l[i])
           G == {k \in 0 .. Len(l) : Good(k)}
<1>1. Len(l) \in Nat /\ DOMAIN l = 1 .. Len(l) /\ \A i \in 1 .. Len(l) : l[i] \in Thread
  OBVIOUS
<1>2. 0 \in G
  <2>1. Rolled(r, r, X)
    BY DEF Rolled
  <2>2. QED
    BY <1>1, <2>1
<1>3. ASSUME NEW k \in 1 .. Len(l), k - 1 \in G PROVE k \in G
  <2>1. Rolled(r, f[k - 1], X) /\ \A i \in 1 .. k - 1 : Current(f[k - 1], l[i])
    BY <1>3
  <2>2. Rolled(f[k - 1], f[k], X) /\ Current(f[k], l[k])
    BY <2>1
  <2>3. Rolled(r, f[k], X)
    BY <2>1, <2>2, RolledOn, Zenon
  <2>4. ASSUME NEW i \in 1 .. k PROVE Current(f[k], l[i])
    <3>1. CASE i = k
      BY <2>2, <3>1
    <3>2. CASE i # k
      <4>1. i \in 1 .. k - 1 /\ l[i] \in Thread
        BY <1>1, <3>2
      <4>2. QED
        BY <2>1, <2>2, <4>1, Zenon DEF Rolled
    <3>3. QED
      BY <3>1, <3>2
  <2> HIDE DEF Good
  <2>5. Good(k) => k \in G
    BY <1>1
  <2>6. QED
    BY <2>3, <2>4, <2>5 DEF Good
<1> HIDE DEF G
<1>4. Len(l) \in G
  BY <1>1, <1>2, <1>3, CountUp, Zenon
<1>5. QED
  BY <1>1, <1>4 DEF G, Range

\* One step of the loop over the ready queue, the loop over the depleted queue
\* and the loop over priority requests.
Step(loop, r, t) ==
    CASE loop = "ready" -> RollReady(r, t)
      [] loop = "depleted" -> RefreshThread(r, t)
      [] loop = "requests" -> Prioritize(r, t)

\* p holds the runqueue after each of the first n steps over l.
IsPass(p, loop, r, l, n) ==
    p = [k \in 0 .. n |-> IF k = 0 THEN r ELSE Step(loop, p[k - 1], l[k])]

\* The recursion of a loop is well defined.
LEMMA LoopExists ==
    ASSUME NEW loop, NEW r, NEW l \in Seq(Thread)
    PROVE  \E p : IsPass(p, loop, r, l, Len(l))
<1> DEFINE Has(n) == \E p : IsPass(p, loop, r, l, n)
           G == {n \in 0 .. Len(l) : Has(n)}
<1>1. Len(l) \in Nat
  OBVIOUS
<1>2. 0 \in G
  <2>1. IsPass([k \in 0 .. 0 |-> r], loop, r, l, 0)
    BY DEF IsPass
  <2>2. Has(0)
    BY <2>1, Zenon
  <2> HIDE DEF Has
  <2>3. QED
    BY <1>1, <2>2
<1>3. ASSUME NEW n \in 1 .. Len(l), n - 1 \in G PROVE n \in G
  <2>1. PICK s : IsPass(s, loop, r, l, n - 1)
    BY <1>3
  <2> DEFINE q == [k \in 0 .. n |-> IF k < n THEN s[k] ELSE Step(loop, s[n - 1], l[n])]
  <2>2. \A k \in 0 .. n : k # 0 => q[k - 1] = s[k - 1]
    BY <1>1
  <2>3. \A k \in 0 .. n - 1 : s[k] = IF k = 0 THEN r ELSE Step(loop, s[k - 1], l[k])
    BY <2>1 DEF IsPass
  <2>4. ASSUME NEW k \in 0 .. n
        PROVE  q[k] = IF k = 0 THEN r ELSE Step(loop, q[k - 1], l[k])
    <3>1. CASE k = n
      BY <1>1, <2>2, <3>1
    <3>2. CASE k # n
      <4>1. k \in 0 .. n - 1 /\ q[k] = s[k]
        BY <1>1, <3>2
      <4>2. QED
        BY <2>2, <2>3, <4>1
    <3>3. QED
      BY <3>1, <3>2
  <2>5. IsPass(q, loop, r, l, n)
    BY <2>4 DEF IsPass
  <2> HIDE DEF q
  <2>6. Has(n)
    BY <2>5, Zenon
  <2> HIDE DEF Has
  <2>7. QED
    BY <1>1, <2>6
<1> HIDE DEF G
<1>4. Len(l) \in G
  BY <1>1, <1>2, <1>3, CountUp, Zenon
<1>5. QED
  BY <1>4 DEF G

\* The loop of rtds_refresh_queues over the ready queue rolls every server on it.
LEMMA ReadyPass ==
    ASSUME IInv, now \in Nat \ {0}, NEW r, Sound(r, {}), Members(r) \subseteq Awake
    PROVE  /\ Rolled(r, RefreshReady(r), {})
           /\ \A t \in Range(r.ready) : Current(RefreshReady(r), t)
<1> DEFINE l == r.ready
           IsIt(p) == p = [k \in 0 .. Len(l) |-> IF k = 0 THEN r ELSE RollReady(p[k - 1], l[k])]
           f == CHOOSE p : IsIt(p)
<1>1. l \in Seq(Thread) /\ Len(l) \in Nat
  BY DEF Sound, WellQueued, Rq
<1>2. PICK p : IsPass(p, "ready", r, l, Len(l))
  BY <1>1, LoopExists, Zenon
<1>3. IsIt(p)
  BY <1>2, SMTT(30) DEF IsPass, Step
<1>4. IsIt(f)
  BY <1>3, Zenon
<1>5. RefreshReady(r) = f[Len(l)]
  BY DEF RefreshReady
<1> HIDE DEF f
<1>6. f[0] = r /\ \A k \in 1 .. Len(l) : f[k] = RollReady(f[k - 1], l[k])
  BY <1>1, <1>4, SMTT(30)
<1>7. ASSUME NEW k \in 1 .. Len(l), Rolled(r, f[k - 1], {})
      PROVE  Rolled(f[k - 1], f[k], {}) /\ Current(f[k], l[k])
  <2> DEFINE s == f[k - 1]
             t == l[k]
  <2>1. Sound(s, {}) /\ Members(s) = Members(r)
    BY <1>7 DEF Rolled
  <2>2. t \in Members(r)
    BY <1>1 DEF Members, Range
  <2>3. t \in Awake /\ t \in Thread
    BY <2>2 DEF Awake
  <2>4. f[k] = RollReady(s, t)
    BY <1>6
  <2> HIDE DEF s, t
  <2>5. OnlyServer(s, f[k], t) /\ InPlace(f[k], t) /\ t \in Members(f[k])
    BY <2>1, <2>2, <2>3, <2>4, RollServer DEF Sound
  <2>6. Rolled(s, f[k], {}) /\ Current(f[k], t)
    BY <2>1, <2>2, <2>3, <2>5, OnlyRolled DEF OnlyServer
  <2>7. QED
    BY <2>6 DEF s, t
<1>8. Rolled(r, f[Len(l)], {}) /\ \A t \in Range(l) : Current(f[Len(l)], t)
  BY <1>1, <1>6, <1>7, PassRolls
<1>9. QED
  BY <1>5, <1>8

\* The loop over the depleted queue refills every server on it.
LEMMA DepletedPass ==
    ASSUME IInv, now \in Nat \ {0}, NEW r, Sound(r, {}), Members(r) \subseteq Awake
    PROVE  /\ Rolled(r, RefreshDepleted(r), {})
           /\ \A t \in Range(r.depleted) : Current(RefreshDepleted(r), t)
<1> DEFINE l == r.depleted
           IsIt(p) == p = [k \in 0 .. Len(l) |->
                             IF k = 0 THEN r ELSE RefreshThread(p[k - 1], l[k])]
           f == CHOOSE p : IsIt(p)
<1>1. l \in Seq(Thread) /\ Len(l) \in Nat
  BY DEF Sound, WellQueued, Rq
<1>2. PICK p : IsPass(p, "depleted", r, l, Len(l))
  BY <1>1, LoopExists
<1>3. IsIt(p)
  BY <1>2, SMTT(30) DEF IsPass, Step
<1>4. IsIt(f)
  BY <1>3, Zenon
<1>5. RefreshDepleted(r) = f[Len(l)]
  BY DEF RefreshDepleted
<1> HIDE DEF f
<1>6. f[0] = r /\ \A k \in 1 .. Len(l) : f[k] = RefreshThread(f[k - 1], l[k])
  <2>1. \A k \in 0 .. Len(l) : f[k] = IF k = 0 THEN r ELSE RefreshThread(f[k - 1], l[k])
    BY <1>4, Zenon
  <2>2. QED
    BY <1>1, <2>1
<1>7. ASSUME NEW k \in 1 .. Len(l), Rolled(r, f[k - 1], {})
      PROVE  Rolled(f[k - 1], f[k], {}) /\ Current(f[k], l[k])
  <2> DEFINE s == f[k - 1]
             t == l[k]
  <2>1. Sound(s, {}) /\ Members(s) = Members(r)
    BY <1>7 DEF Rolled
  <2>2. t \in Members(r)
    BY <1>1 DEF Members, Range
  <2>3. t \in Awake /\ t \in Thread
    BY <2>2 DEF Awake
  <2>4. f[k] = RefreshThread(s, t)
    BY <1>6
  <2> HIDE DEF s, t
  <2>5. OnlyServer(s, f[k], t) /\ InPlace(f[k], t) /\ t \in Members(f[k])
    BY <2>1, <2>3, <2>4, RefreshServer DEF Sound
  <2>6. Rolled(s, f[k], {}) /\ Current(f[k], t)
    BY <2>1, <2>2, <2>3, <2>5, OnlyRolled DEF OnlyServer
  <2>7. QED
    BY <2>6 DEF s, t
<1>8. Rolled(r, f[Len(l)], {}) /\ \A t \in Range(l) : Current(f[Len(l)], t)
  BY <1>1, <1>6, <1>7, PassRolls
<1>9. QED
  BY <1>5, <1>8

\* Priority requests move servers between the queues and lose none; only the
\* running one may have a budget that its queue does not match.
LEMMA RequestPass ==
    ASSUME now \in Nat \ {0}, NEW r, Sound(r, {curr}), Awake \ {curr} \subseteq Members(r),
           NEW order \in Seq(Thread), Range(order) \subseteq Awake
    PROVE  Rolled(r, PrioritizeAll(r, order), {curr})
<1> DEFINE l == order
           IsIt(p) == p = [k \in 0 .. Len(l) |-> IF k = 0 THEN r ELSE Prioritize(p[k - 1], l[k])]
           f == CHOOSE p : IsIt(p)
<1>1. Len(l) \in Nat
  OBVIOUS
<1>2. PICK p : IsPass(p, "requests", r, l, Len(l))
  BY LoopExists, Zenon
<1>3. IsIt(p)
  BY <1>2, SMTT(30) DEF IsPass, Step
<1>4. IsIt(f)
  BY <1>3, Zenon
<1>5. PrioritizeAll(r, order) = f[Len(l)]
  BY DEF PrioritizeAll
<1> HIDE DEF f
<1>6. f[0] = r /\ \A k \in 1 .. Len(l) : f[k] = Prioritize(f[k - 1], l[k])
  BY <1>1, <1>4
<1>7. ASSUME NEW k \in 1 .. Len(l), Rolled(r, f[k - 1], {curr})
      PROVE  Rolled(f[k - 1], f[k], {curr}) /\ Current(f[k], l[k])
  <2> DEFINE s == f[k - 1]
             t == l[k]
  <2>1. Sound(s, {curr}) /\ Members(s) = Members(r)
    BY <1>7 DEF Rolled
  <2>2. t \in Awake /\ t \in Thread
    BY <1>1 DEF Range, Awake
  <2>3. t # curr => t \in Members(s) /\ InPlace(s, t)
    BY <2>1, <2>2 DEF Sound
  <2>4. f[k] = Prioritize(s, t)
    BY <1>6
  <2> HIDE DEF s, t
  <2>5. /\ OnlyServer(s, f[k], t) /\ (t # curr => InPlace(f[k], t))
        /\ t \in Members(f[k]) <=> t \in Members(s)
    BY <2>1, <2>2, <2>3, <2>4, PrioritizeServer DEF Sound
  <2>6. Rolled(s, f[k], {curr}) /\ Current(f[k], t)
    BY <2>1, <2>2, <2>5, OnlyRolled DEF OnlyServer
  <2>7. QED
    BY <2>6 DEF s, t
<1>8. Rolled(r, f[Len(l)], {curr})
  BY <1>1, <1>6, <1>7, PassRolls, Zenon
<1>9. QED
  BY <1>5, <1>8

-----------------------------------------------------------------------------
\* The hooks of the policy.

\* rtds_account_runtime charges the running server and moves nobody.
LEMMA Charged ==
    ASSUME now \in Nat, NEW r, NEW t \in Thread, Sound(r, {t})
    PROVE  LET s == AccountRuntime(r, t)
           IN  Sound(s, {t}) /\ s.ready = r.ready /\ s.depleted = r.depleted
               /\ s.timer = r.timer
<1> DEFINE s == AccountRuntime(r, t)
           n == Max({0, r.remaining[t] - (now - r.last_start[t])})
<1>1. /\ r \in Rq /\ r.remaining \in [Thread -> Nat] /\ r.last_start \in [Thread -> Nat]
  BY DEF Sound, WellQueued, Rq
<1>2. n \in Nat
  <2> DEFINE x == r.remaining[t] - (now - r.last_start[t])
  <2>1. x \in Int
    BY <1>1
  <2> HIDE DEF x
  <2>2. Max({0, x}) = IF 0 >= x THEN 0 ELSE x
    BY <2>1, MaxOfTwo
  <2>3. QED
    BY <2>1, <2>2 DEF x
<1> HIDE DEF n
<1>3. CASE s = r
  BY <1>3
<1>4. CASE s # r
  <2>1. s = [r EXCEPT !.last_start[t] = now, !.remaining[t] = n]
    BY <1>4 DEF AccountRuntime, n
  <2>2. /\ s \in Rq /\ s.ready = r.ready /\ s.depleted = r.depleted
        /\ s.deadline = r.deadline /\ s.timer = r.timer
        /\ s.remaining = [r.remaining EXCEPT ![t] = n]
    <3>1. /\ s.ready = r.ready /\ s.depleted = r.depleted /\ s.timer = r.timer
          /\ s.deadline = r.deadline /\ s.remaining = [r.remaining EXCEPT ![t] = n]
      BY <1>1, <2>1 DEF Rq
    <3> DEFINE start == [r.last_start EXCEPT ![t] = now]
               rem == [r.remaining EXCEPT ![t] = n]
    <3>2. start \in [Thread -> Nat] /\ rem \in [Thread -> Nat]
      BY <1>1, <1>2
    <3>3. s = [r EXCEPT !.last_start = start, !.remaining = rem]
      BY <2>1
    <3> HIDE DEF start, rem, s
    <3>4. s \in Rq
      BY <1>1, <3>2, <3>3, Zenon DEF Rq
    <3>5. QED
      BY <3>1, <3>4
  <2> HIDE DEF s
  <2>3. \A u \in Thread \ {t} : s.remaining[u] = r.remaining[u]
    BY <1>1, <2>2
  <2>4. WellQueued(s)
    BY <2>2 DEF Sound, WellQueued
  <2>5. \A u \in Thread \ {t} : InPlace(s, u)
    BY <2>2, <2>3 DEF Sound, InPlace
  <2>6. QED
    BY <2>2, <2>4, <2>5 DEF Sound, s
<1>5. QED
  BY <1>3, <1>4

\* rtds_timer_handler and sched_rtds_pick_next: afterwards every awake thread is
\* queued where its budget puts it, in the current period.
LEMMA ChargedAndRefreshed ==
    ASSUME IInv, now \in Nat \ {0}, NEW r, Sound(r, {curr}),
           Awake \ {curr} \subseteq Members(r), Members(r) \subseteq Awake
    PROVE  LET s == ChargeAndRefresh(r)
           IN  Sound(s, {}) /\ Members(s) = Awake /\ \A t \in Awake : Current(s, t)
<1> DEFINE a == AccountRuntime(r, curr)
           c == IF curr \in Thread THEN RefreshThread(a, curr) ELSE r
<1>1. Sound(c, {}) /\ Members(c) = Awake
  <2>1. CASE curr \notin Thread
    <3>1. Sound(r, {}) /\ curr \notin Awake
      BY <2>1 DEF Sound, Awake
    <3>2. QED
      BY <2>1, <3>1
  <2>2. CASE curr \in Thread
    <3>1. Sound(a, {curr}) /\ a.ready = r.ready /\ a.depleted = r.depleted
      BY <2>2, Charged
    <3> HIDE DEF a
    <3> DEFINE d == RefreshThread(a, curr)
    <3>2. WellQueued(a) /\ Members(a) = Members(r)
      BY <3>1 DEF Sound, Members
    <3>3. /\ OnlyServer(a, d, curr)
          /\ curr \in Awake => InPlace(d, curr) /\ curr \in Members(d)
          /\ curr \notin Awake => d.ready = a.ready /\ d.depleted = a.depleted
      BY <2>2, <3>2, RefreshServer
    <3> HIDE DEF d
    <3>4. \A u \in Thread \ {curr} : InPlace(d, u)
      BY <3>1, <3>3 DEF Sound, OnlyServer, InPlace
    <3>5. InPlace(d, curr)
      BY <3>2, <3>3 DEF InPlace, Members
    <3>6. Sound(d, {})
      BY <3>3, <3>4, <3>5 DEF Sound, OnlyServer
    <3>7. \A u \in Thread \ {curr} : u \in Members(d) <=> u \in Members(r)
      BY <3>2, <3>3 DEF OnlyServer, Members
    <3>8. curr \in Members(d) <=> curr \in Awake
      BY <3>2, <3>3 DEF Members
    <3>9. Members(d) \subseteq Thread /\ Awake \subseteq Thread
      BY <3>6 DEF Sound, WellQueued, Rq, Members, Range, Awake
    <3>10. Members(d) = Awake
      BY <3>7, <3>8, <3>9
    <3>11. c = d
      BY <2>2 DEF d
    <3>12. QED
      BY <3>6, <3>10, <3>11
  <2>3. QED
    BY <2>1, <2>2
<1> DEFINE s == RefreshReady(c)
           u == RefreshDepleted(s)
<1>2. ChargeAndRefresh(r) = u
  BY DEF ChargeAndRefresh, RefreshQueues
<1> HIDE DEF c
<1>3. Rolled(c, s, {}) /\ \A t \in Range(c.ready) : Current(s, t)
  BY <1>1, ReadyPass
<1> HIDE DEF s
<1>4. Sound(s, {}) /\ Members(s) = Awake
  BY <1>1, <1>3 DEF Rolled
<1>5. Rolled(s, u, {}) /\ \A t \in Range(s.depleted) : Current(u, t)
  BY <1>4, DepletedPass
<1> HIDE DEF u
<1>6. ASSUME NEW t \in Awake PROVE Current(u, t)
  <2>1. t \in Thread
    BY DEF Awake
  <2>2. CASE t \in Range(s.depleted)
    BY <1>5, <2>2
  <2>3. CASE t \notin Range(s.depleted)
    <3>1. t \in Range(c.ready) \/ t \in Range(c.depleted)
      BY <1>1 DEF Members
    <3>2. Current(s, t)
      BY <1>3, <2>1, <2>3, <3>1 DEF Rolled
    <3>3. QED
      BY <1>5, <2>1, <3>2 DEF Rolled
  <2>4. QED
    BY <2>2, <2>3
<1>7. Sound(u, {}) /\ Members(u) = Awake
  BY <1>4, <1>5 DEF Rolled
<1>8. QED
  BY <1>2, <1>6, <1>7

\* sched_rtds_pick_next chooses an awake thread if there is one, and none without
\* budget while another has some.
LEMMA ChoiceContract ==
    ASSUME NEW s, Sound(s, {}), Members(s) = Awake, \A u \in Awake : Current(s, u)
    PROVE  LET t == Choice(s)
           IN  /\ t \in Obj /\ PickContract(t) /\ t \in Awake \cup {Idle}
               /\ t \in Thread => \A u \in Awake :
                    /\ s.deadline[t] <= s.deadline[u]
                    /\ s.remaining[u] > 0 => s.remaining[t] > 0
<1>1. s.ready \in Seq(Thread) /\ s.depleted \in Seq(Thread) /\ s.deadline \in [Thread -> Nat]
  BY DEF Sound, WellQueued, Rq
<1>2. Awake \subseteq Thread /\ Thread \subseteq Obj /\ Idle \in Obj /\ Idle \notin Thread
  BY DEF Awake, Obj
<1>3. \A t, u \in Awake : s.deadline[t] <= s.deadline[u]
  <2>1. \A t, u \in Awake : s.deadline[t] = s.deadline[u] /\ s.deadline[t] \in Nat
    BY <1>1, <1>2 DEF Current
  <2>2. QED
    BY <2>1
<1>4. CASE s.ready # <<>>
  <2>1. Choice(s) = Head(s.ready) /\ Head(s.ready) = s.ready[1] /\ 1 \in DOMAIN s.ready
    BY <1>1, <1>4 DEF Choice
  <2>2. Choice(s) \in Range(s.ready)
    BY <2>1 DEF Range
  <2>3. Choice(s) \in Awake
    BY <2>2 DEF Members
  <2>4. s.remaining[Choice(s)] > 0
    BY <1>2, <2>2, <2>3 DEF Sound, InPlace
  <2>5. QED
    BY <1>2, <1>3, <2>3, <2>4 DEF PickContract
<1>5. CASE s.ready = <<>>
  <2>1. Range(s.ready) = {}
    BY <1>5 DEF Range
  <2>2. CASE s.depleted = <<>>
    <3>1. Choice(s) = Idle
      BY <1>5, <2>2 DEF Choice
    <3>2. Awake = {}
      BY <2>1, <2>2 DEF Members, Range
    <3>3. QED
      BY <1>2, <3>1, <3>2 DEF PickContract
  <2>3. CASE s.depleted # <<>>
    <3> DEFINE q == s.depleted
               First(i) == \A j \in DOMAIN q :
                             \/ s.deadline[q[i]] < s.deadline[q[j]]
                             \/ s.deadline[q[i]] = s.deadline[q[j]] /\ i <= j
               c == CHOOSE i \in DOMAIN q : First(i)
    <3>1. Choice(s) = q[c]
      BY <1>5, <2>3 DEF Choice, DepletedSlack
    <3>2. DOMAIN q = 1 .. Len(q) /\ Len(q) \in Nat /\ 1 \in DOMAIN q
      BY <1>1, <2>3
    <3>3. \A i \in DOMAIN q : q[i] \in Awake
      BY DEF Members, Range
    <3>4. First(1)
      <4>1. \A j \in DOMAIN q : s.deadline[q[1]] = s.deadline[q[j]]
        BY <3>2, <3>3 DEF Current
      <4>2. \A j \in DOMAIN q : 1 <= j
        BY <3>2
      <4>3. QED
        BY <4>1, <4>2
    <3>5. c \in DOMAIN q
      <4> HIDE DEF First
      <4>1. QED
        BY <3>2, <3>4
    <3> HIDE DEF c
    <3>6. Choice(s) \in Awake
      BY <3>1, <3>3, <3>5
    <3>7. \A u \in Awake : ~(s.remaining[u] > 0)
      <4>1. \A u \in Awake : u \in Thread /\ u \in Range(s.depleted)
        BY <1>2, <2>1 DEF Members
      <4>2. \A u \in Awake : s.remaining[u] = 0
        BY <4>1 DEF Sound, InPlace
      <4>3. QED
        BY <4>2
    <3>8. QED
      BY <1>2, <1>3, <3>6, <3>7 DEF PickContract
  <2>4. QED
    BY <2>2, <2>3
<1>6. QED
  BY <1>4, <1>5

\* rtds_program_local_timer: the timer is armed for a thread that runs, never in
\* the past of the clock's origin, and nothing else changes.
LEMMA TimerProgrammed ==
    ASSUME now \in Nat \ {0}, NEW r, Sound(r, {}), NEW running
    PROVE  LET s == ProgramTimer(r, running)
           IN  Unmoved(r, s) /\ (running \in Thread => s.timer # 0)
<1> DEFINE left == r.remaining[running]
           stop == (IF r.last_start[running] # 0 THEN r.last_start[running] ELSE now) + left
           own == IF running \notin Thread THEN {}
                  ELSE IF left > 0
                  THEN {Max({now, Min({stop, r.deadline[running]})})}
                  ELSE {Max({now, r.deadline[running]})}
           due == own \cup Replenishments(r)
           n == IF due = {} THEN 0 ELSE Min(due)
<1>1. ProgramTimer(r, running) = [r EXCEPT !.timer = n]
  BY DEF ProgramTimer
<1>2. /\ r \in Rq /\ r.remaining \in [Thread -> Nat] /\ r.deadline \in [Thread -> Nat]
      /\ r.last_start \in [Thread -> Nat] /\ r.depleted \in Seq(Thread)
  BY DEF Sound, WellQueued, Rq
<1>3. own \subseteq Nat \ {0} /\ (running \in Thread => own # {})
  <2>1. CASE running \notin Thread
    BY <2>1
  <2>2. CASE running \in Thread
    <3>1. stop \in Nat /\ r.deadline[running] \in Nat
      BY <1>2, <2>2
    <3> HIDE DEF stop
    <3>2. \A x \in Nat : Max({now, x}) \in Nat \ {0}
      <4>1. ASSUME NEW x \in Nat PROVE Max({now, x}) \in Nat \ {0}
        <5>1. Max({now, x}) = IF now >= x THEN now ELSE x
          BY MaxOfTwo
        <5>2. QED
          BY <5>1
      <4>2. QED
        BY <4>1
    <3> DEFINE x == r.deadline[running]
    <3> HIDE DEF x
    <3>3. Min({stop, x}) \in Nat
      <4>1. x \in Nat
        BY <3>1 DEF x
      <4>2. Min({stop, x}) = IF stop <= x THEN stop ELSE x
        BY <3>1, <4>1, MinOfTwo
      <4>3. QED
        BY <3>1, <4>1, <4>2
    <3>4. QED
      BY <2>2, <3>1, <3>2, <3>3 DEF x
  <2>3. QED
    BY <2>1, <2>2, Zenon
<1>4. Replenishments(r) \subseteq Nat \ {0}
  <2>1. \A t \in Range(r.depleted) : t \in Thread
    BY <1>2 DEF Range
  <2>2. \A t \in Range(r.depleted) : r.deadline[t] \in Nat \ {0}
    BY <1>2, <2>1 DEF Sound, InPlace
  <2>3. QED
    BY <2>2 DEF Replenishments
<1> HIDE DEF own
<1>5. due \subseteq Nat \ {0} /\ (running \in Thread => due # {})
  BY <1>3, <1>4, Zenon
<1> HIDE DEF due
<1>6. due # {} => Min(due) \in due
  <2>1. due # {} => \E x \in due : \A y \in due : x <= y
    BY <1>5, Smallest
  <2>2. QED
    BY <2>1 DEF Min
<1>7. n \in Nat /\ (running \in Thread => n # 0)
  BY <1>5, <1>6, Zenon
<1> HIDE DEF n
<1>8. QED
  BY <1>1, <1>2, <1>7, ZenonT(30) DEF Unmoved, Rq

\* sched_rtds_pick_next after the choice: t is dequeued and the timer armed.
LEMMA Started ==
    ASSUME now \in Nat \ {0}, NEW r, Sound(r, {}), NEW t \in Thread \cup {Idle}
    PROVE  LET s == Start(r, t)
           IN  /\ Sound(s, {}) /\ Members(s) = Members(r) \ {t}
               /\ s.deadline = r.deadline /\ s.remaining = r.remaining
               /\ t \in Thread => s.timer # 0
<1> DEFINE a == IF t = Idle THEN r ELSE [QueueRemove(r, t) EXCEPT !.last_start[t] = now]
           s == ProgramTimer(a, t)
<1>1. Start(r, t) = s
  BY DEF Start
<1>2. /\ Sound(a, {}) /\ Members(a) = Members(r) \ {t}
      /\ a.deadline = r.deadline /\ a.remaining = r.remaining
  <2>1. CASE t = Idle
    <3>1. Idle \notin Members(r)
      BY DEF Sound, WellQueued, Rq, Members, Range
    <3>2. QED
      BY <2>1, <3>1
  <2>2. CASE t # Idle
    <3> DEFINE q == QueueRemove(r, t)
    <3>1. /\ Sound(q, {}) /\ Members(q) = Members(r) \ {t}
          /\ q.deadline = r.deadline /\ q.remaining = r.remaining
      BY <2>2, Removed, Zenon
    <3> HIDE DEF q
    <3> DEFINE b == [q EXCEPT !.last_start[t] = now]
    <3>2. Unmoved(q, b)
      BY <3>1, Zenon DEF Unmoved, Sound, WellQueued, Rq
    <3>3. a = b
      BY <2>2 DEF q
    <3> HIDE DEF b, a
    <3>4. Sound(b, {}) /\ Members(b) = Members(q)
      BY <3>1, <3>2, UnmovedSound
    <3>5. b.deadline = q.deadline /\ b.remaining = q.remaining
      BY <3>2 DEF Unmoved
    <3>6. QED
      BY <3>1, <3>3, <3>4, <3>5
  <2>3. QED
    BY <2>1, <2>2
<1> HIDE DEF a
<1>3. Unmoved(a, s) /\ (t \in Thread => s.timer # 0)
  BY <1>2, TimerProgrammed
<1> HIDE DEF s
<1>4. QED
  BY <1>1, <1>2, <1>3, UnmovedSound DEF Unmoved

\* rtds_program_timer leaves the timer to its pCPU.
LEMMA TimerFrom ==
    ASSUME now \in Nat \ {0}, NEW r, Sound(r, {}), NEW running, NEW from
    PROVE  LET s == ProgramTimerFrom(r, running, from)
           IN  /\ Sound(s, {}) /\ Members(s) = Members(r)
               /\ s.timer = r.timer \/ (running \in Thread => s.timer # 0)
<1> DEFINE s == ProgramTimer(r, running)
<1>1. ProgramTimerFrom(r, running, from) \in {r, s}
  BY DEF ProgramTimerFrom
<1>2. Unmoved(r, s) /\ (running \in Thread => s.timer # 0)
  BY TimerProgrammed
<1> HIDE DEF s
<1>3. Sound(s, {}) /\ Members(s) = Members(r)
  BY <1>2, UnmovedSound
<1>4. QED
  BY <1>1, <1>2, <1>3

\* sched_rtds_sleep takes t off its queue.
LEMMA Slept ==
    ASSUME now \in Nat \ {0}, NEW r, Sound(r, {}), NEW t \in Thread, NEW from
    PROVE  LET s == RtdsSleep(r, t, from)
           IN  /\ Sound(s, {}) /\ Members(s) = Members(r) \ {t}
               /\ s.timer = r.timer \/ (curr \in Thread \ {t} => s.timer # 0)
<1> DEFINE a == IF t = curr THEN AccountRuntime(r, t) ELSE r
           q == QueueRemove(a, t)
           c == [q EXCEPT !.last_start[t] = 0]
           running == IF t = curr THEN None ELSE curr
           s == ProgramTimerFrom(c, running, from)
<1>1. RtdsSleep(r, t, from) = s
  BY DEF RtdsSleep
<1>2. Sound(a, {t}) /\ a.ready = r.ready /\ a.depleted = r.depleted /\ a.timer = r.timer
  <2>1. Sound(r, {t})
    BY DEF Sound
  <2>2. QED
    BY <2>1, Charged
<1> HIDE DEF a
<1>3. Sound(q, {}) /\ Members(q) = Members(a) \ {t} /\ q.timer = a.timer
  BY <1>2, Removed
<1> HIDE DEF q
<1>4. Unmoved(q, c) /\ c.timer = q.timer
  BY <1>3, Zenon DEF Unmoved, Sound, WellQueued, Rq
<1> HIDE DEF c
<1>5. Sound(c, {}) /\ Members(c) = Members(q)
  BY <1>3, <1>4, UnmovedSound
<1>6. curr \in Thread \ {t} => running \in Thread
  OBVIOUS
<1> HIDE DEF running
<1>7. /\ Sound(s, {}) /\ Members(s) = Members(c)
      /\ s.timer = c.timer \/ (running \in Thread => s.timer # 0)
  BY <1>5, TimerFrom
<1> HIDE DEF s
<1>8. QED
  BY <1>1, <1>2, <1>3, <1>4, <1>5, <1>6, <1>7 DEF Members

\* sched_rtds_wake queues t where its budget puts it.
LEMMA Woken ==
    ASSUME now \in Nat \ {0}, NEW r, Sound(r, {}), NEW t \in Thread, NEW from
    PROVE  LET s == RtdsWake(r, t, from)
           IN  Sound(s, {}) /\ Members(s) = Members(r) \cup {t}
<1> DEFINE a == AdvancePeriod(r, t)
           b == [a EXCEPT !.last_start[t] = 0]
           c == IF b.remaining[t] > 0 THEN ReadyInsert(b, t) ELSE DepletedInsert(b, t)
           s == ProgramTimerFrom(c, curr, from)
<1>1. RtdsWake(r, t, from) = s
  BY DEF RtdsWake
<1>2. /\ OnlyServer(r, a, t) /\ a.ready = r.ready /\ a.depleted = r.depleted
      /\ a.deadline[t] # 0
  BY AdvanceServer DEF Sound
<1> HIDE DEF a
<1>3. Sound(a, {t}) /\ Members(a) = Members(r)
  BY <1>2 DEF Sound, OnlyServer, InPlace, Members
<1>4. Unmoved(a, b)
  BY <1>3, ZenonT(30) DEF Unmoved, Sound, WellQueued, Rq
<1> HIDE DEF b
<1>5. Sound(b, {t}) /\ Members(b) = Members(r) /\ b.deadline[t] # 0
  BY <1>2, <1>3, <1>4, UnmovedSound DEF Unmoved
<1>6. Sound(c, {}) /\ Members(c) = Members(b) \cup {t}
  <2>1. WellQueued(b) /\ b.remaining[t] \in Nat
    BY <1>5, SMTT(30) DEF Sound, WellQueued, Rq
  <2>2. CASE b.remaining[t] > 0
    <3>1. /\ WellQueued(c) /\ c.remaining = b.remaining /\ c.deadline = b.deadline
          /\ Range(c.ready) = Range(b.ready) \cup {t}
          /\ Range(c.depleted) = Range(b.depleted) \ {t}
      BY <2>1, <2>2, QueueMoves, ZenonT(30)
    <3> HIDE DEF c
    <3>2. InPlace(c, t) /\ \A u \in Thread \ {t} : InPlace(c, u)
      BY <1>5, <2>2, <3>1 DEF InPlace, Sound
    <3>3. QED
      BY <3>1, <3>2 DEF Sound, Members
  <2>3. CASE ~(b.remaining[t] > 0)
    <3>1. /\ WellQueued(c) /\ c.remaining = b.remaining /\ c.deadline = b.deadline
          /\ Range(c.ready) = Range(b.ready) \ {t}
          /\ Range(c.depleted) = Range(b.depleted) \cup {t}
      BY <2>1, <2>3, QueueMoves, Zenon
    <3> HIDE DEF c
    <3>2. b.remaining[t] = 0
      BY <2>1, <2>3
    <3>3. InPlace(c, t) /\ \A u \in Thread \ {t} : InPlace(c, u)
      BY <1>5, <3>1, <3>2 DEF InPlace, Sound
    <3>4. QED
      BY <3>1, <3>3 DEF Sound, Members
  <2>4. QED
    BY <2>2, <2>3
<1> HIDE DEF c
<1>7. Sound(s, {}) /\ Members(s) = Members(c)
  BY <1>6, TimerFrom
<1> HIDE DEF s
<1>8. QED
  BY <1>1, <1>5, <1>6, <1>7

\* sched_rtds_init_data gives a thread that is on no queue its first budget.
LEMMA Prepared ==
    ASSUME now \in Nat \ {0}, NEW r, Sound(r, {}), NEW t \in Thread, t \notin Members(r)
    PROVE  LET s == RtdsInitData(r, t)
           IN  Sound(s, {}) /\ Members(s) = Members(r) /\ s.timer = r.timer
<1> DEFINE s == RtdsInitData(r, t)
<1>1. NextPeriodBoundary \in Grid /\ NextPeriodBoundary \in Nat
  BY BoundaryOnGrid
<1>2. r \in Rq /\ r.deadline \in [Thread -> Nat] /\ r.remaining \in [Thread -> Nat]
  BY DEF Sound, WellQueued, Rq
<1>3. /\ s \in Rq /\ s.ready = r.ready /\ s.depleted = r.depleted /\ s.timer = r.timer
      /\ s.deadline = [r.deadline EXCEPT ![t] = NextPeriodBoundary]
      /\ s.remaining = [r.remaining EXCEPT ![t] = Budget]
  BY <1>1, <1>2, Zenon DEF RtdsInitData, Rq
<1> HIDE DEF s
<1>4. \A u \in Thread \ {t} : s.deadline[u] = r.deadline[u] /\ s.remaining[u] = r.remaining[u]
  BY <1>2, <1>3
<1>5. s.deadline[t] = NextPeriodBoundary
  BY <1>2, <1>3
<1>6. WellQueued(s)
  BY <1>1, <1>3, <1>4, <1>5 DEF Sound, WellQueued
<1>7. \A u \in Thread : InPlace(s, u)
  BY <1>3, <1>4 DEF Sound, InPlace, Members
<1>8. QED
  BY <1>3, <1>6, <1>7 DEF Sound, Members, s

-----------------------------------------------------------------------------
\* The inductive invariant.

\* It holds when the pCPU comes up.
LEMMA RtdsInitInv == RtdsInit => RtdsInv
<1> SUFFICES ASSUME RtdsInit PROVE RtdsInv
  OBVIOUS
<1>1. IInv
  BY InitIInv DEF RtdsInit
<1>2. Awake = {} /\ curr = None /\ next = None /\ pc = "boot"
  BY DEF RtdsInit, Init, Awake, Thread, Obj
<1>3. now \in Nat \ {0}
  BY ClockAssumption DEF RtdsInit
<1>4. rq \in Rq /\ rq.ready = <<>> /\ rq.depleted = <<>> /\ rq.deadline = [t \in Thread |-> 0]
  <2>1. <<>> \in Seq(Thread)
    OBVIOUS
  <2>2. QED
    BY <2>1 DEF RtdsInit, EmptyRq, Rq
<1>5. Range(rq.ready) = {} /\ Range(rq.depleted) = {}
  BY <1>4 DEF Range
<1>6. 0 \in Grid
  <2>1. now \in Nat /\ Period \in Nat \ {0} /\ 0 * Period = 0
    BY <1>3
  <2>2. now \div Period \in Nat
    BY <1>3, BoundaryOnGrid
  <2>3. 0 \in 0 .. now \div Period + 1
    BY <2>2
  <2>4. QED
    BY <2>1, <2>3 DEF Grid
<1>7. Sound(rq, {})
  <2>1. \A t \in Thread : rq.deadline[t] \in Grid
    BY <1>4, <1>6
  <2>2. Distinct(rq.ready) /\ Distinct(rq.depleted)
    BY <1>4 DEF Distinct
  <2>3. QED
    BY <1>4, <1>5, <2>1, <2>2 DEF Sound, WellQueued, InPlace
<1>8. QED
  BY <1>1, <1>2, <1>3, <1>5, <1>7
     DEF RtdsInv, QueuedAwake, Members, Picked, PreemptionArmed

\* Outside schedule() the thread that runs is curr_obj.
LEMMA RunsCurr ==
    ASSUME RtdsInv, pc # "switch"
    PROVE  Runs = curr /\ next = None
BY DEF RtdsInv, Runs

\* The runqueue that pick_next chooses from.
LEMMA PickFacts ==
    ASSUME RtdsInv, pc # "switch",
           NEW order \in Orders(priority_pending \cap thread_list \cap Awake)
    PROVE  LET s == ChargeAndRefresh(PrioritizeAll(rq, order))
           IN  Sound(s, {}) /\ Members(s) = Awake /\ \A t \in Awake : Current(s, t)
<1> DEFINE r == PrioritizeAll(rq, order)
<1>1. /\ IInv /\ now \in Nat \ {0} /\ Sound(rq, {}) /\ Runs = curr
      /\ Awake \ {curr} \subseteq Members(rq) /\ Members(rq) \subseteq Awake
  BY RunsCurr DEF RtdsInv, QueuedAwake
<1>2. order \in Seq(Thread) /\ Range(order) \subseteq Awake
  <2>1. (priority_pending \cap thread_list \cap Awake) \in SUBSET Thread
    BY DEF Awake
  <2>2. order \in Seq(Thread)
    BY <2>1, OrderIsSeq
  <2>3. Range(order) = priority_pending \cap thread_list \cap Awake
    BY DEF Orders
  <2>4. QED
    BY <2>2, <2>3
<1>3. Sound(rq, {curr})
  BY <1>1 DEF Sound
<1>4. Rolled(rq, r, {curr})
  BY <1>1, <1>2, <1>3, RequestPass, Zenon
<1> HIDE DEF r
<1>5. Sound(r, {curr}) /\ Members(r) = Members(rq)
  BY <1>4 DEF Rolled
<1>6. QED
  BY <1>1, <1>5, ChargedAndRefreshed DEF r

\* Every step of this pCPU is a step of the framework, or none: pick_next keeps
\* the contract that schedule() relies on.
LEMMA RtdsStepIsScheduleStep ==
    ASSUME RtdsInv, [Operation \/ Tick]_rvars
    PROVE  [Next]_vars
<1>1. CASE RtdsPick
  <2>1. PICK order \in Orders(priority_pending \cap thread_list \cap Awake) :
          SchedulePick(Choice(ChargeAndRefresh(PrioritizeAll(rq, order))))
    BY <1>1 DEF RtdsPick
  <2> DEFINE s == ChargeAndRefresh(PrioritizeAll(rq, order))
  <2>2. pc # "switch"
    BY <2>1 DEF SchedulePick, MayCallSchedule
  <2>3. Sound(s, {}) /\ Members(s) = Awake /\ \A t \in Awake : Current(s, t)
    BY <2>2, PickFacts
  <2> HIDE DEF s
  <2>4. Choice(s) \in Obj /\ PickContract(Choice(s))
    BY <2>3, ChoiceContract
  <2>5. QED
    BY <2>1, <2>4 DEF Next, s
<1>2. CASE RtdsCalls
  BY <1>2 DEF RtdsCalls, Next, Calls
<1>3. CASE Steps
  BY <1>3 DEF Next
<1>4. CASE HelperSleep
  BY <1>4 DEF Next
<1>5. CASE RtdsTimerHandler
  BY <1>5 DEF RtdsTimerHandler, Next
<1>6. CASE Tick \/ UNCHANGED rvars
  BY <1>6 DEF Tick, rvars
<1>7. QED
  BY <1>1, <1>2, <1>3, <1>4, <1>5, <1>6 DEF Operation

\* schedule()'s pick keeps the invariant.
LEMMA RtdsPickInv ==
    ASSUME RtdsInv, IInv', RtdsPick, UNCHANGED now
    PROVE  RtdsInv'
<1>1. PICK order \in Orders(priority_pending \cap thread_list \cap Awake) :
        LET s == ChargeAndRefresh(PrioritizeAll(rq, order))
        IN  SchedulePick(Choice(s)) /\ rq' = Start(s, Choice(s))
  BY DEF RtdsPick
<1> DEFINE s == ChargeAndRefresh(PrioritizeAll(rq, order))
           t == Choice(s)
<1>2. pc # "switch"
  BY <1>1 DEF SchedulePick, MayCallSchedule
<1>3. Sound(s, {}) /\ Members(s) = Awake /\ \A u \in Awake : Current(s, u)
  BY <1>2, PickFacts, Zenon
<1>4. SchedulePick(t) /\ rq' = Start(s, t)
  BY <1>1
<1> HIDE DEF s
<1>5. /\ t \in Awake \cup {Idle} /\ t \in Obj
      /\ t \in Thread => \A u \in Awake :
           s.deadline[t] <= s.deadline[u] /\ (s.remaining[u] > 0 => s.remaining[t] > 0)
  BY <1>3, ChoiceContract
<1> HIDE DEF t
<1>6. now \in Nat \ {0} /\ t \in Thread \cup {Idle} /\ t # None
  BY <1>5 DEF RtdsInv, Awake
<1>7. /\ Sound(rq', {}) /\ Members(rq') = Awake \ {t}
      /\ rq'.deadline = s.deadline /\ rq'.remaining = s.remaining
      /\ t \in Thread => rq'.timer # 0
  BY <1>3, <1>4, <1>6, Started
<1>8. Awake' = Awake /\ Runs' = t /\ pc' = "switch" /\ next' = t
  BY <1>4, <1>6 DEF SchedulePick, Awake, Runs
<1>9. Sound(rq, {})' /\ (now \in Nat \ {0})'
  BY <1>6, <1>7 DEF Sound, WellQueued, Grid
<1>10. QueuedAwake'
  BY <1>7, <1>8 DEF QueuedAwake, Members
<1>11. Picked' /\ PreemptionArmed'
  BY <1>5, <1>7, <1>8 DEF Picked, PreemptionArmed
<1>12. QED
  BY <1>8, <1>9, <1>10, <1>11 DEF RtdsInv

\* A step outside schedule() that queues who is awake, and requests a reschedule
\* or keeps the timer armed, keeps the invariant.
LEMMA RtdsCallInv ==
    ASSUME RtdsInv, IInv', UNCHANGED <<now, curr, next>>, pc # "switch", pc' # "switch",
           Sound(rq', {}), Awake' \ {curr} \subseteq Members(rq'), Members(rq') \subseteq Awake',
           \/ NEED_RESCHEDULE \in flags'
           \/ /\ flags' = flags /\ Awake' \subseteq Awake
              /\ rq'.timer = rq.timer \/ (curr \in Awake' => rq'.timer # 0)
           \/ Awake' \subseteq {curr}
    PROVE  RtdsInv'
<1>1. Runs = curr /\ next = None /\ Runs' = curr
  BY RunsCurr DEF Runs
<1>2. Sound(rq, {})' /\ (now \in Nat \ {0})'
  BY DEF Sound, WellQueued, Grid, RtdsInv
<1>3. QueuedAwake' /\ Picked'
  BY <1>1 DEF QueuedAwake, Members, Picked
<1>4. PreemptionArmed'
  BY DEF PreemptionArmed, RtdsInv
<1>5. QED
  BY <1>1, <1>2, <1>3, <1>4 DEF RtdsInv

\* sleep_thread keeps the invariant.
LEMMA RtdsSleepInv ==
    ASSUME RtdsInv, IInv', UNCHANGED now, NEW t \in Thread, NEW from \in Caller,
           rq' = RtdsSleep(rq, t, from), SleepThread(t, from) \/ (HelperSleep /\ t = curr)
    PROVE  RtdsInv'
<1>0. IInv /\ now \in Nat \ {0} /\ Sound(rq, {})
  BY DEF RtdsInv
<1>1. /\ Awake' = Awake \ {t} /\ UNCHANGED <<curr, next>> /\ pc # "switch" /\ pc' # "switch"
      /\ NEED_RESCHEDULE \in flags' \/ flags' = flags
  <2>1. CASE SleepThread(t, from)
    BY <1>0, <2>1, FrameworkFacts
       DEF SleepThread, LockFree, MakeRescheduleRequest, Awake, Thread, Obj
  <2>2. CASE HelperSleep /\ t = curr
    BY <1>0, <2>2, FrameworkFacts
       DEF HelperSleep, MakeRescheduleRequest, Awake, Thread, Obj
  <2>3. QED
    BY <2>1, <2>2
<1>2. /\ Sound(rq', {}) /\ Members(rq') = Members(rq) \ {t}
      /\ rq'.timer = rq.timer \/ (curr \in Thread \ {t} => rq'.timer # 0)
  BY <1>0, Slept
<1>3. Awake \ {curr} \subseteq Members(rq) /\ Members(rq) \subseteq Awake
  BY <1>1, RunsCurr DEF RtdsInv, QueuedAwake
<1>4. Awake' \ {curr} \subseteq Members(rq') /\ Members(rq') \subseteq Awake' /\ Awake' \subseteq Awake
  BY <1>1, <1>2, <1>3
<1>5. curr \in Awake' => curr \in Thread \ {t}
  BY <1>1 DEF Awake
<1>6. QED
  BY <1>1, <1>2, <1>4, <1>5, RtdsCallInv

\* init_thread_data keeps the invariant.
LEMMA RtdsInitDataInv ==
    ASSUME RtdsInv, IInv', UNCHANGED now, NEW t \in Thread,
           InitThreadData(t), rq' = RtdsInitData(rq, t)
    PROVE  RtdsInv'
<1>0. IInv /\ now \in Nat \ {0} /\ Sound(rq, {})
  BY DEF RtdsInv
<1>1. /\ Awake' = Awake /\ t \notin Awake /\ UNCHANGED <<curr, next, flags>>
      /\ pc # "switch" /\ pc' # "switch"
  BY <1>0, FrameworkFacts DEF InitThreadData, LockFree, Awake, Thread, Obj
<1>2. Awake \ {curr} \subseteq Members(rq) /\ Members(rq) \subseteq Awake
  BY <1>1, RunsCurr DEF RtdsInv, QueuedAwake
<1>3. Sound(rq', {}) /\ Members(rq') = Members(rq) /\ rq'.timer = rq.timer
  BY <1>0, <1>1, <1>2, Prepared
<1>4. QED
  BY <1>1, <1>2, <1>3, RtdsCallInv

\* wake_thread keeps the invariant: a reschedule is requested, now or before.
LEMMA RtdsWakeInv ==
    ASSUME RtdsInv, IInv', UNCHANGED now, NEW t \in Thread, NEW from \in Caller,
           WakeThread(t, from), rq' = RtdsWake(rq, t, from)
    PROVE  RtdsInv'
<1>0. IInv /\ now \in Nat \ {0} /\ Sound(rq, {})
  BY DEF RtdsInv
<1>1. /\ Awake' = Awake \cup {t} /\ UNCHANGED <<curr, next>>
      /\ pc # "switch" /\ pc' # "switch" /\ NEED_RESCHEDULE \in flags'
  BY <1>0, FrameworkFacts
     DEF WakeThread, LockFree, MakeRescheduleRequest, Awake, Thread, Obj
<1>2. Awake \ {curr} \subseteq Members(rq) /\ Members(rq) \subseteq Awake
  BY <1>1, RunsCurr DEF RtdsInv, QueuedAwake
<1>3. Sound(rq', {}) /\ Members(rq') = Members(rq) \cup {t}
  BY <1>0, Woken
<1>4. Awake' \ {curr} \subseteq Members(rq') /\ Members(rq') \subseteq Awake'
  BY <1>1, <1>2, <1>3
<1>5. QED
  BY <1>1, <1>3, <1>4, RtdsCallInv

\* rtds_timer_handler keeps the invariant: the timer is spent, but a reschedule
\* is requested.
LEMMA RtdsTimerInv ==
    ASSUME RtdsInv, IInv', UNCHANGED now, RtdsTimerHandler
    PROVE  RtdsInv'
<1> DEFINE s == ChargeAndRefresh(rq)
<1>0. /\ UNCHANGED <<status, be_blocking, curr, next, pc>> /\ pc # "switch"
      /\ NEED_RESCHEDULE \in flags' /\ rq' = [s EXCEPT !.timer = 0]
  BY DEF RtdsTimerHandler, TimerTick, InHypervisor, MakeRescheduleRequest
<1>1. /\ IInv /\ now \in Nat \ {0} /\ Sound(rq, {curr})
      /\ Awake \ {curr} \subseteq Members(rq) /\ Members(rq) \subseteq Awake
  BY <1>0, RunsCurr DEF RtdsInv, QueuedAwake, Sound
<1>2. Sound(s, {}) /\ Members(s) = Awake
  BY <1>1, ChargedAndRefreshed
<1> HIDE DEF s
<1>3. Unmoved(s, rq')
  BY <1>0, <1>2, ZenonT(30) DEF Unmoved, Sound, WellQueued, Rq
<1>4. Sound(rq', {}) /\ Members(rq') = Awake
  BY <1>2, <1>3, UnmovedSound
<1>5. Awake' = Awake
  BY <1>0 DEF Awake
<1>6. QED
  BY <1>0, <1>4, <1>5, RtdsCallInv

\* A step that leaves the runqueue alone, keeps who runs and who is awake, and
\* requests no less, keeps the invariant.
LEMMA RtdsQuiet ==
    ASSUME RtdsInv, IInv', UNCHANGED <<now, rq>>, Awake' = Awake, Runs' = Runs,
           pc' # "switch" => next' = None,
           \/ UNCHANGED <<curr, next>> /\ flags \subseteq flags' /\ (pc' = "switch" <=> pc = "switch")
           \/ pc = "switch" /\ pc' # "switch" /\ curr' = next
           \/ pc' # "switch" /\ Awake \subseteq {curr'}
    PROVE  RtdsInv'
<1>1. Sound(rq, {})' /\ (now \in Nat \ {0})'
  BY DEF Sound, WellQueued, Grid, RtdsInv, InPlace
<1>2. QueuedAwake'
  BY DEF QueuedAwake, Members, RtdsInv
<1>3. Picked'
  BY DEF Picked, RtdsInv
<1>4. PreemptionArmed'
  BY DEF PreemptionArmed, Picked, RtdsInv, Awake
<1>5. QED
  BY <1>1, <1>2, <1>3, <1>4 DEF RtdsInv

\* Time passes.
LEMMA RtdsTickInv ==
    ASSUME RtdsInv, IInv', Tick
    PROVE  RtdsInv'
<1>1. now \in Nat \ {0} /\ now' = now + 1 /\ rq' = rq /\ UNCHANGED vars
  BY DEF RtdsInv, Tick
<1>2. now' \in Nat \ {0}
  BY <1>1
<1>3. Grid \subseteq Grid'
  <2> DEFINE then == now'
  <2>1. then \in Nat /\ then = now + 1 /\ now \in Nat /\ Period \in Nat \ {0}
    BY <1>1
  <2> HIDE DEF then
  <2>2. /\ now \div Period <= then \div Period
        /\ now \div Period \in Int /\ then \div Period \in Int
    BY <2>1, GridGrows
  <2>3. 0 .. now \div Period + 1 \subseteq 0 .. then \div Period + 1
    BY <2>2
  <2>4. QED
    BY <2>3 DEF Grid, then
<1>4. Sound(rq, {})'
  BY <1>1, <1>3 DEF RtdsInv, Sound, WellQueued, InPlace
<1>5. QueuedAwake' /\ Picked' /\ PreemptionArmed'
  BY <1>1, Zenon DEF RtdsInv, QueuedAwake, Members, Picked, PreemptionArmed, vars, Runs, Awake
<1>6. QED
  BY <1>1, <1>2, <1>4, <1>5 DEF RtdsInv, vars

\* The steps of the pCPU that call no hook of the policy keep the invariant.
LEMMA RtdsStepsInv ==
    ASSUME RtdsInv, IInv', Steps \/ UNCHANGED vars, UNCHANGED <<now, rq>>
    PROVE  RtdsInv'
<1>0. IInv
  BY DEF RtdsInv
<1>1. CASE ScheduleSwitch
  <2>1. Awake' = Awake /\ curr' = next /\ next \in Obj
    BY <1>0, <1>1, SwitchKeepsAwake
  <2>2. pc = "switch" /\ pc' # "switch" /\ next' = None /\ next # None
    BY <1>1, <2>1 DEF ScheduleSwitch, ResumePoint
  <2>3. Runs' = Runs
    BY <2>1, <2>2 DEF Runs
  <2>4. QED
    BY <2>1, <2>2, <2>3, RtdsQuiet
<1>2. CASE RunIdleThread
  <2>1. /\ pc # "switch" /\ pc' # "switch" /\ Runs = curr /\ next = None /\ next' = None
        /\ curr = None /\ curr' = Idle
    BY <1>0, <1>2, RunsCurr DEF RunIdleThread, IInv, LocationOwner
  <2>2. \A t \in Thread : status'[t] = status[t]
    BY <1>0, <1>2, FrameworkFacts DEF RunIdleThread, Thread, Obj
  <2>3. Awake' = Awake /\ None \notin Awake /\ Idle \notin Awake /\ Runs' = Idle
    BY <1>2, <2>1, <2>2 DEF RunIdleThread, Awake, Runs, Obj
  <2>4. Sound(rq, {})' /\ (now \in Nat \ {0})'
    BY DEF Sound, WellQueued, Grid, RtdsInv, InPlace
  <2>5. QueuedAwake' /\ Picked' /\ PreemptionArmed'
    BY <2>1, <2>3 DEF QueuedAwake, Members, RtdsInv, Picked, PreemptionArmed
  <2>6. QED
    BY <2>1, <2>4, <2>5 DEF RtdsInv
<1>3. CASE ClearIfCurrentOnly
  <2>1. /\ pc # "switch" /\ pc' # "switch" /\ UNCHANGED <<status, be_blocking, curr, next>>
        /\ flags' = flags \/ Awake \cap thread_list = {curr}
    BY <1>3 DEF ClearIfCurrentOnly
  <2>2. Runs = curr /\ next = None /\ Runs' = Runs /\ Awake' = Awake
    BY <2>1, RunsCurr DEF Runs, Awake
  <2>3. Awake \subseteq thread_list
    BY <1>0, FrameworkFacts
  <2>4. QED
    BY <2>1, <2>2, <2>3, RtdsQuiet
<1>4. ASSUME UNCHANGED <<status, be_blocking, curr, next>>, flags \subseteq flags',
             pc' = pc \/ (pc # "switch" /\ pc' # "switch")
      PROVE  RtdsInv'
  <2>1. Awake' = Awake /\ Runs' = Runs
    BY <1>4 DEF Awake, Runs
  <2>2. pc' # "switch" => next' = None
    BY <1>4 DEF RtdsInv
  <2>3. QED
    BY <1>4, <2>1, <2>2, RtdsQuiet
<1>5. CASE UNCHANGED vars
  BY <1>4, <1>5 DEF vars
<1>6. CASE Steps /\ ~ScheduleSwitch /\ ~RunIdleThread /\ ~ClearIfCurrentOnly
  <2>1. UNCHANGED <<status, be_blocking, curr, next>> /\ flags \subseteq flags'
    BY <1>6, ZenonT(30)
       DEF Steps, IdleTest, IdleWfi, IdleWakeup, Move, TakeIrq, FirstEntry, GuestIrq,
                GuestTrap, GuestYield, GuestResume, HelperYield, MakeRescheduleRequest
  <2>2. pc' = pc \/ (pc # "switch" /\ pc' # "switch")
    BY <1>6, Zenon DEF Steps, IdleTest, IdleWfi, IdleWakeup, Move, TakeIrq, FirstEntry, GuestIrq,
                GuestTrap, GuestYield, GuestResume, HelperYield
  <2>3. QED
    BY <1>4, <2>1, <2>2
<1>7. QED
  BY <1>1, <1>2, <1>3, <1>5, <1>6

\* Every step keeps the inductive invariant.
LEMMA RtdsNextInv == RtdsInv /\ [Operation \/ Tick]_rvars => RtdsInv'
<1> SUFFICES ASSUME RtdsInv, [Operation \/ Tick]_rvars PROVE RtdsInv'
  OBVIOUS
<1>1. IInv'
  BY RtdsStepIsScheduleStep, NextIInv DEF RtdsInv
<1>2. CASE Tick
  BY <1>1, <1>2, RtdsTickInv
<1>3. CASE UNCHANGED rvars
  <2>1. UNCHANGED vars /\ UNCHANGED <<now, rq>>
    BY <1>3 DEF rvars
  <2>2. QED
    BY <1>1, <2>1, RtdsStepsInv
<1>4. CASE Operation
  <2>1. UNCHANGED now
    BY <1>4 DEF Operation
  <2>2. CASE RtdsPick
    BY <1>1, <2>1, <2>2, RtdsPickInv
  <2>3. CASE RtdsTimerHandler
    BY <1>1, <2>1, <2>3, RtdsTimerInv
  <2>4. CASE Steps /\ UNCHANGED rq
    BY <1>1, <2>1, <2>4, RtdsStepsInv
  <2>5. CASE HelperSleep /\ rq' = RtdsSleep(rq, curr, "local")
    <3>1. curr \in Thread
      BY <2>5 DEF HelperSleep, RtdsInv, IInv, LocationOwner, Thread
    <3>2. "local" \in Caller
      BY DEF Caller
    <3>3. QED
      BY <1>1, <2>1, <2>5, <3>1, <3>2, RtdsSleepInv
  <2>6. CASE RtdsCalls
    <3>1. ASSUME NEW t \in Thread, InitThreadData(t), rq' = RtdsInitData(rq, t)
          PROVE  RtdsInv'
      BY <1>1, <2>1, <3>1, RtdsInitDataInv
    <3>2. ASSUME NEW v \in Vcpu, NEW from \in Caller, SleepThread(v, from),
                 rq' = RtdsSleep(rq, v, from)
          PROVE  RtdsInv'
      <4>1. v \in Thread
        BY DEF Thread
      <4>2. QED
        BY <1>1, <2>1, <3>2, <4>1, RtdsSleepInv
    <3>3. ASSUME NEW t \in Thread, NEW from \in Caller, WakeThread(t, from),
                 rq' = RtdsWake(rq, t, from)
          PROVE  RtdsInv'
      BY <1>1, <2>1, <3>3, RtdsWakeInv
    <3>4. ASSUME NEW v \in Injected, NEW from \in Caller, VcpuMakeRequest(v, from),
                 UNCHANGED rq
          PROVE  RtdsInv'
      <4>1. UNCHANGED <<status, be_blocking, curr, next, pc>> /\ flags \subseteq flags'
        BY <3>4 DEF VcpuMakeRequest, MakeRescheduleRequest
      <4>2. Awake' = Awake /\ Runs' = Runs
        BY <4>1 DEF Awake, Runs
      <4>3. pc' # "switch" => next' = None
        BY <4>1 DEF RtdsInv
      <4>4. QED
        BY <1>1, <2>1, <3>4, <4>1, <4>2, <4>3, RtdsQuiet
    <3>5. QED
      BY <2>6, <3>1, <3>2, <3>3, <3>4 DEF RtdsCalls
  <2>7. QED
    BY <1>4, <2>2, <2>3, <2>4, <2>5, <2>6 DEF Operation
<1>5. QED
  BY <1>2, <1>3, <1>4

-----------------------------------------------------------------------------
\* The theorems.

\* The inductive invariant holds in every reachable state.
THEOREM RtdsInvariance == RtdsSpec => []RtdsInv
BY RtdsInitInv, RtdsNextInv, PTL DEF RtdsSpec

\* rtds_queue_remove and the two insertions are called so that no thread is lost
\* or queued twice, through every race of sleep_thread, wake_thread, the timer
\* handler and schedule().
THEOREM NoServerLost == RtdsSpec => []QueuesMatchStatus
<1>1. RtdsInv => QueuesMatchStatus
  BY DEF RtdsInv, Sound, WellQueued, QueuedAwake, Members, QueuesMatchStatus, Queued, Runs,
         Distinct, IsInjective
<1>2. QED
  BY <1>1, RtdsInvariance, PTL

\* "ready queue contains runnable servers with budget": no charge, replenishment
\* or priority request leaves a server on the wrong queue.
THEOREM BudgetDecidesQueue == RtdsSpec => []QueuesMatchBudget
<1>1. RtdsInv => QueuesMatchBudget
  <2> SUFFICES ASSUME RtdsInv PROVE QueuesMatchBudget
    OBVIOUS
  <2>1. /\ \A t \in Thread : InPlace(rq, t)
        /\ rq.ready \in Seq(Thread) /\ rq.depleted \in Seq(Thread)
    BY DEF RtdsInv, Sound, WellQueued, Rq
  <2>2. \A i \in DOMAIN rq.ready : rq.ready[i] \in Thread /\ rq.ready[i] \in Range(rq.ready)
    BY <2>1 DEF Range
  <2>3. \A i \in DOMAIN rq.depleted :
          rq.depleted[i] \in Thread /\ rq.depleted[i] \in Range(rq.depleted)
    BY <2>1 DEF Range
  <2>4. QED
    BY <2>1, <2>2, <2>3, Zenon DEF InPlace, QueuesMatchBudget
<1>2. QED
  BY <1>1, RtdsInvariance, PTL

\* Whoever runs while another thread is awake is stopped: by tick_timer, or by a
\* reschedule that is requested.
THEOREM PreemptionIsArmed == RtdsSpec => []PreemptionArmed
BY RtdsInvariance, PTL DEF RtdsInv

\* sched_rtds_pick_next picks the earliest deadline among the servers with budget,
\* and gives slack to a depleted one only when no awake server has budget.
THEOREM PicksAreEdf == RtdsSpec => EdfPick
<1>1. RtdsInv' => ((pc' = "switch" /\ next' \in Thread) =>
         \A t \in Awake' : /\ rq'.deadline[next'] <= rq'.deadline[t]
                           /\ rq'.remaining[t] > 0 => rq'.remaining[next'] > 0)
  BY DEF RtdsInv, Picked
<1>2. RtdsInv /\ RtdsInv' /\ [Operation \/ Tick]_rvars =>
        [(pc' = "switch" /\ next' \in Thread) =>
           \A t \in Awake :
             \/ rq'.remaining[t] = 0 /\ rq'.remaining[next'] > 0
             \/ /\ rq'.remaining[t] > 0 => rq'.remaining[next'] > 0
                /\ rq'.deadline[next'] <= rq'.deadline[t]]_rvars
  <2> SUFFICES ASSUME RtdsInv, RtdsInv', [Operation \/ Tick]_rvars,
                      pc' = "switch", next' \in Thread
               PROVE  Awake' = Awake
    BY <1>1
  <2>1. CASE pc # "switch"
    <3>1. [Next]_vars
      BY RtdsStepIsScheduleStep
    <3>2. \E t \in Obj : SchedulePick(t)
      BY <2>1, <3>1, Zenon DEF Next, Calls, Steps, vars, InitThreadData, SleepThread, WakeThread,
           VcpuMakeRequest, HelperSleep, TimerTick, RunIdleThread, ScheduleSwitch, ResumePoint,
           IdleTest, IdleWfi, IdleWakeup, Move, TakeIrq, FirstEntry, GuestIrq, GuestTrap,
           GuestYield, ClearIfCurrentOnly, GuestResume, HelperYield
    <3>3. QED
      BY <3>2 DEF SchedulePick, Awake
  <2>2. CASE pc = "switch"
    <3>1. [Next]_vars
      BY RtdsStepIsScheduleStep
    <3>2. UNCHANGED <<status, be_blocking>>
      BY <2>2, <3>1, Zenon DEF Next, Calls, Steps, vars, InitThreadData, SleepThread, WakeThread,
           VcpuMakeRequest, HelperSleep, TimerTick, RunIdleThread, ScheduleSwitch, ResumePoint,
           IdleTest, IdleWfi, IdleWakeup, Move, TakeIrq, FirstEntry, GuestIrq, GuestTrap,
           GuestYield, ClearIfCurrentOnly, GuestResume, HelperYield, LockFree, SchedulePick
    <3>3. QED
      BY <3>2 DEF Awake
  <2>3. QED
    BY <2>1, <2>2
<1>3. QED
  BY <1>2, RtdsInvariance, PTL DEF RtdsSpec, EdfPick

\* pick_next keeps the contract that schedule() relies on: this pCPU implements the
\* framework, and with it everything that is proved of the framework.
THEOREM RtdsImplementsSchedule == RtdsSpec => ImplementsSchedule
<1>1. RtdsInit => Init
  BY DEF RtdsInit
<1>2. RtdsInv /\ [Operation \/ Tick]_rvars => [Next]_vars
  BY RtdsStepIsScheduleStep
<1>3. QED
  BY <1>1, <1>2, RtdsInvariance, PTL DEF RtdsSpec, ImplementsSchedule, Spec

=============================================================================
