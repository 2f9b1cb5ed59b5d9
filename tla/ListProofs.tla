---------------------------- MODULE ListProofs ------------------------------
(***************************************************************************)
(* What the list operations of include/lib/list.h do to the order and the  *)
(* members of a list, for lists of any length over any set.                *)
(***************************************************************************)
EXTENDS Lists, WellFoundedInduction, TLAPS

\* No node is in the list twice.
Distinct(l) == \A i, j \in DOMAIN l : l[i] = l[j] => i = j

Sorted(l, key) == \A i, j \in DOMAIN l : i < j => key[l[i]] <= key[l[j]]

-----------------------------------------------------------------------------
\* Sequences and numbers.

\* What concatenation gives.
LEMMA ConcatElement ==
    ASSUME NEW S, NEW a \in Seq(S), NEW b \in Seq(S)
    PROVE  /\ a \o b \in Seq(S) /\ Len(a \o b) = Len(a) + Len(b)
           /\ \A j \in 1 .. Len(a) + Len(b) :
                (a \o b)[j] = IF j <= Len(a) THEN a[j] ELSE b[j - Len(a)]
OBVIOUS

\* What RemovePlace leaves.
LEMMA RemoveElement ==
    ASSUME NEW S, NEW l \in Seq(S), NEW i \in DOMAIN l
    PROVE  /\ RemovePlace(l, i) \in Seq(S)
           /\ Len(RemovePlace(l, i)) = Len(l) - 1
           /\ \A j \in 1 .. Len(l) - 1 :
                RemovePlace(l, i)[j] = IF j < i THEN l[j] ELSE l[j + 1]
<1> DEFINE a == SubSeq(l, 1, i - 1)
           b == SubSeq(l, i + 1, Len(l))
<1>1. Len(l) \in Nat /\ i \in 1 .. Len(l)
  OBVIOUS
<1>2. /\ a \in Seq(S) /\ Len(a) = i - 1
      /\ \A j \in 1 .. i - 1 : a[j] = l[j]
  BY <1>1
<1>3. /\ b \in Seq(S) /\ Len(b) = Len(l) - i
      /\ \A j \in 1 .. Len(l) - i : b[j] = l[i + j]
  BY <1>1
<1> HIDE DEF a, b
<1>4. /\ a \o b \in Seq(S) /\ Len(a \o b) = Len(l) - 1
      /\ \A j \in 1 .. Len(l) - 1 :
           (a \o b)[j] = IF j <= i - 1 THEN a[j] ELSE b[j - (i - 1)]
  BY <1>1, <1>2, <1>3, SMTT(30)
<1>5. ASSUME NEW j \in 1 .. Len(l) - 1
      PROVE  (a \o b)[j] = IF j < i THEN l[j] ELSE l[j + 1]
  <2>1. CASE j < i
    BY <1>1, <1>2, <1>4, <2>1
  <2>2. CASE j >= i
    <3>1. j - (i - 1) \in 1 .. Len(l) - i /\ i + (j - (i - 1)) = j + 1 /\ ~(j <= i - 1) /\ ~(j < i)
      BY <1>1, <2>2
    <3>2. b[j - (i - 1)] = l[j + 1]
      BY <1>3, <3>1
    <3>3. QED
      BY <1>4, <3>1, <3>2, SMTT(30)
  <2>3. j < i \/ j >= i
    BY <1>1
  <2>4. QED
    BY <2>1, <2>2, <2>3, Zenon
<1>6. RemovePlace(l, i) = a \o b
  BY DEF RemovePlace, a, b
<1>7. QED
  BY <1>4, <1>5, <1>6

\* What AddAtPlace adds.
LEMMA InsertElement ==
    ASSUME NEW S, NEW l \in Seq(S), NEW i \in 1 .. Len(l) + 1, NEW t \in S
    PROVE  /\ AddAtPlace(l, i, t) \in Seq(S)
           /\ Len(AddAtPlace(l, i, t)) = Len(l) + 1
           /\ \A j \in 1 .. Len(l) + 1 :
                AddAtPlace(l, i, t)[j] = IF j < i THEN l[j] ELSE IF j = i THEN t ELSE l[j - 1]
<1> DEFINE a == SubSeq(l, 1, i - 1)
           b == SubSeq(l, i, Len(l))
<1>1. Len(l) \in Nat
  OBVIOUS
<1>2. /\ a \in Seq(S) /\ Len(a) = i - 1
      /\ \A j \in 1 .. i - 1 : a[j] = l[j]
  BY <1>1
<1>3. /\ b \in Seq(S) /\ Len(b) = Len(l) + 1 - i
      /\ \A j \in 1 .. Len(l) + 1 - i : b[j] = l[i + j - 1]
  BY <1>1
<1> HIDE DEF a, b
<1>4. /\ a \o <<t>> \in Seq(S) /\ Len(a \o <<t>>) = i
      /\ \A j \in 1 .. i - 1 : (a \o <<t>>)[j] = l[j]
      /\ (a \o <<t>>)[i] = t
  <2>1. a \o <<t>> = Append(a, t)
    BY <1>2
  <2>2. /\ Append(a, t) \in Seq(S) /\ Len(Append(a, t)) = Len(a) + 1
        /\ \A j \in 1 .. Len(a) : Append(a, t)[j] = a[j]
        /\ Append(a, t)[Len(a) + 1] = t
    BY <1>2, SMT
  <2>3. Len(a) + 1 = i
    BY <1>1, <1>2
  <2>4. QED
    BY <1>2, <2>1, <2>2, <2>3, Zenon
<1>5. /\ (a \o <<t>>) \o b \in Seq(S) /\ Len((a \o <<t>>) \o b) = Len(l) + 1
      /\ \A j \in 1 .. Len(l) + 1 :
           ((a \o <<t>>) \o b)[j] = IF j <= i THEN (a \o <<t>>)[j] ELSE b[j - i]
  <2> DEFINE c == a \o <<t>>
  <2>1. c \in Seq(S) /\ Len(c) = i
    BY <1>4
  <2> HIDE DEF c
  <2>2. /\ c \o b \in Seq(S) /\ Len(c \o b) = Len(l) + 1
        /\ \A j \in 1 .. Len(l) + 1 : (c \o b)[j] = IF j <= i THEN c[j] ELSE b[j - i]
    <3>1. /\ c \o b \in Seq(S) /\ Len(c \o b) = Len(c) + Len(b)
          /\ \A j \in 1 .. Len(c) + Len(b) :
               (c \o b)[j] = IF j <= Len(c) THEN c[j] ELSE b[j - Len(c)]
      BY <1>3, <2>1, ConcatElement, Zenon
    <3>2. Len(c) + Len(b) = Len(l) + 1
      BY <1>1, <1>3, <2>1
    <3>3. QED
      BY <2>1, <3>1, <3>2, Zenon
  <2>3. QED
    BY <2>2, Zenon DEF c
<1>6. ASSUME NEW j \in 1 .. Len(l) + 1
      PROVE  ((a \o <<t>>) \o b)[j] = IF j < i THEN l[j] ELSE IF j = i THEN t ELSE l[j - 1]
  <2>1. CASE j < i
    <3>1. j \in 1 .. i - 1 /\ j <= i
      BY <1>1, <2>1
    <3>2. QED
      BY <1>4, <1>5, <2>1, <3>1, Zenon
  <2>2. CASE j = i
    BY <1>1, <1>4, <1>5, <2>2
  <2>3. CASE j > i
    <3>1. j - i \in 1 .. Len(l) + 1 - i /\ i + (j - i) - 1 = j - 1 /\ ~(j <= i) /\ ~(j < i)
      BY <1>1, <2>3
    <3>2. b[j - i] = l[j - 1]
      BY <1>3, <3>1
    <3>3. QED
      BY <1>5, <2>3, <3>1, <3>2
  <2>4. j < i \/ j = i \/ j > i
    BY <1>1
  <2>5. QED
    BY <2>1, <2>2, <2>3, <2>4, Zenon
<1>7. AddAtPlace(l, i, t) = (a \o <<t>>) \o b
  BY DEF AddAtPlace, a, b
<1>8. QED
  BY <1>5, <1>6, <1>7, Zenon

\* A set of numbers that is not empty has a smallest one.
LEMMA Smallest ==
    ASSUME NEW S \in SUBSET Nat, S # {}
    PROVE  \E x \in S : \A y \in S : x <= y
<1> DEFINE R == {ss \in Nat \X Nat : ss[1] < ss[2]}
<1>1. IsWellFoundedOn(R, Nat)
  BY NatLessThanWellFounded, Zenon DEF OpToRel
<1>2. PICK x \in S : \A y \in S : ~(<<y, x>> \in R)
  BY <1>1, WFMin, Zenon
<1>3. ASSUME NEW y \in S PROVE x <= y
  <2>1. x \in Nat /\ y \in Nat
    OBVIOUS
  <2>2. y < x => <<y, x>> \in R
    BY <2>1
  <2>3. ~(y < x)
    BY <1>2, <2>2, Zenon
  <2>4. QED
    BY <2>1, <2>3
<1>4. QED
  BY <1>3

\* Induction up to N, with a set in the place of a predicate.
LEMMA CountUp ==
    ASSUME NEW N \in Nat, NEW G, 0 \in G, \A k \in 1 .. N : k - 1 \in G => k \in G
    PROVE  N \in G
<1> DEFINE Bad == {k \in 0 .. N : k \notin G}
<1> SUFFICES ASSUME Bad # {} PROVE FALSE
  OBVIOUS
<1>1. PICK k \in Bad : \A j \in Bad : k <= j
  <2>1. Bad \in SUBSET Nat
    OBVIOUS
  <2>2. QED
    BY <2>1, Smallest, Zenon
<1>2. k \in 1 .. N /\ k - 1 \in 0 .. N /\ ~(k <= k - 1)
  OBVIOUS
<1>3. k - 1 \in G
  BY <1>1, <1>2
<1>4. QED
  BY <1>2, <1>3

\* Division into whole units and a remainder.
LEMMA WholeUnits ==
    ASSUME NEW v \in Int, NEW m \in Nat \ {0}
    PROVE  /\ v \div m \in Int /\ v % m \in 0 .. m - 1
           /\ v = (v \div m) * m + (v % m)
           /\ v >= 0 => v \div m >= 0
<1>1. v \div m \in Int
  OBVIOUS
<1>2. v % m \in 0 .. m - 1
  OBVIOUS
<1>3. v = (v \div m) * m + (v % m)
  OBVIOUS
<1>4. v >= 0 => v \div m >= 0
  OBVIOUS
<1>5. QED
  BY <1>1, <1>2, <1>3, <1>4

\* The larger and the smaller of two numbers.
LEMMA MaxOfTwo ==
    ASSUME NEW x \in Int, NEW y \in Int
    PROVE  Max({x, y}) = IF x >= y THEN x ELSE y
<1>1. CASE x >= y
  <2>1. \A z \in {x, y} : (\A v \in {x, y} : z >= v) <=> z = x
    BY <1>1
  <2>2. QED
    BY <1>1, <2>1 DEF Max
<1>2. CASE ~(x >= y)
  <2>1. \A z \in {x, y} : (\A v \in {x, y} : z >= v) <=> z = y
    BY <1>2
  <2>2. QED
    BY <1>2, <2>1 DEF Max
<1>3. QED
  BY <1>1, <1>2

LEMMA MinOfTwo ==
    ASSUME NEW x \in Int, NEW y \in Int
    PROVE  Min({x, y}) = IF x <= y THEN x ELSE y
<1>1. CASE x <= y
  <2>1. \A z \in {x, y} : (\A v \in {x, y} : z =< v) <=> z = x
    BY <1>1
  <2>2. QED
    BY <1>1, <2>1 DEF Min
<1>2. CASE ~(x <= y)
  <2>1. \A z \in {x, y} : (\A v \in {x, y} : z =< v) <=> z = y
    BY <1>2
  <2>2. QED
    BY <1>2, <2>1 DEF Min
<1>3. QED
  BY <1>1, <1>2

-----------------------------------------------------------------------------
\* Removal.

\* f maps the places of u to those of l, without place i.
Embeds(u, l, i, f) ==
    /\ \A j \in DOMAIN u : f[j] \in DOMAIN l /\ f[j] # i /\ u[j] = l[f[j]]
    /\ \A j, k \in DOMAIN u : j < k => f[j] < f[k]
    /\ \A j, k \in DOMAIN u : f[j] = f[k] => j = k
    /\ \A j \in DOMAIN l : j # i => \E k \in DOMAIN u : f[k] = j

\* The places of a list from which its node i was removed.
LEMMA RemovePlaces ==
    ASSUME NEW S, NEW l \in Seq(S), NEW i \in DOMAIN l
    PROVE  \E f : Embeds(RemovePlace(l, i), l, i, f)
<1> DEFINE u == RemovePlace(l, i)
           f == [j \in 1 .. Len(l) - 1 |-> IF j < i THEN j ELSE j + 1]
<1>1. /\ Len(l) \in Nat /\ DOMAIN l = 1 .. Len(l) /\ i \in 1 .. Len(l)
      /\ DOMAIN u = 1 .. Len(l) - 1
      /\ \A j \in 1 .. Len(l) - 1 : u[j] = IF j < i THEN l[j] ELSE l[j + 1]
  BY RemoveElement, SMTT(30)
<1> HIDE DEF u
<1>2. \A j \in DOMAIN u : f[j] \in DOMAIN l /\ f[j] # i /\ u[j] = l[f[j]]
  BY <1>1, SMTT(30)
<1>3. \A j, k \in DOMAIN u : (j < k => f[j] < f[k]) /\ (f[j] = f[k] => j = k)
  BY <1>1, SMTT(30)
<1>4. ASSUME NEW j \in DOMAIN l, j # i PROVE \E k \in DOMAIN u : f[k] = j
  <2>1. CASE j < i
    <3>1. j \in DOMAIN u /\ f[j] = j
      BY <1>1, <2>1
    <3>2. QED
      BY <3>1, Zenon
  <2>2. CASE i < j
    <3>1. j - 1 \in DOMAIN u /\ f[j - 1] = j
      BY <1>1, <2>2
    <3>2. QED
      BY <3>1, Zenon
  <2>3. QED
    BY <1>1, <1>4, <2>1, <2>2
<1> HIDE DEF f
<1>5. Embeds(u, l, i, f)
  BY <1>2, <1>3, <1>4, Zenon DEF Embeds
<1>6. QED
  BY <1>5, Zenon DEF u

\* list_del_init: the list loses t and keeps the order of the others.
LEMMA UnlinkList ==
    ASSUME NEW S, NEW l \in Seq(S), Distinct(l), NEW t
    PROVE  /\ Unlink(l, t) \in Seq(S) /\ Distinct(Unlink(l, t))
           /\ Range(Unlink(l, t)) = Range(l) \ {t}
<1>1. CASE t \notin Range(l)
  BY <1>1 DEF Unlink
<1>2. CASE t \in Range(l)
  <2> DEFINE i == CHOOSE k \in DOMAIN l : l[k] = t
             u == RemovePlace(l, i)
  <2>1. i \in DOMAIN l /\ l[i] = t /\ Unlink(l, t) = u
    BY <1>2 DEF Range, Unlink
  <2> HIDE DEF i
  <2>2. u \in Seq(S)
    BY <2>1, RemoveElement, SMTT(30)
  <2>3. PICK f : Embeds(u, l, i, f)
    BY <2>1, RemovePlaces, Zenon
  <2> HIDE DEF u
  <2>4. Distinct(u)
    BY <2>3 DEF Distinct, Embeds
  <2>5. \A j \in DOMAIN u : u[j] # t
    BY <2>1, <2>3 DEF Distinct, Embeds
  <2>6. \A j \in DOMAIN u : u[j] \in Range(l)
    BY <2>3 DEF Range, Embeds
  <2>7. \A j \in DOMAIN l : l[j] # t => \E k \in DOMAIN u : u[k] = l[j]
    BY <2>1, <2>3 DEF Embeds
  <2>8. Range(u) = Range(l) \ {t}
    BY <2>5, <2>6, <2>7 DEF Range
  <2>9. QED
    BY <2>1, <2>2, <2>4, <2>8
<1>3. QED
  BY <1>1, <1>2

\* A sorted list stays sorted, and its first node does not get earlier.
LEMMA UnlinkSorted ==
    ASSUME NEW S, NEW l \in Seq(S), NEW t, NEW key \in [S -> Int], Sorted(l, key)
    PROVE  /\ Sorted(Unlink(l, t), key)
           /\ Unlink(l, t) # <<>> =>
                l # <<>> /\ key[Head(l)] <= key[Head(Unlink(l, t))]
<1>1. CASE t \notin Range(l)
  <2>1. Unlink(l, t) = l
    BY <1>1 DEF Unlink
  <2>2. l # <<>> => key[Head(l)] \in Int
    OBVIOUS
  <2>3. l # <<>> => key[Head(l)] <= key[Head(l)]
    BY <2>2
  <2>4. QED
    BY <2>1, <2>3
<1>2. CASE t \in Range(l)
  <2> DEFINE i == CHOOSE k \in DOMAIN l : l[k] = t
             u == RemovePlace(l, i)
  <2>1. i \in DOMAIN l /\ Unlink(l, t) = u
    BY <1>2 DEF Range, Unlink
  <2> HIDE DEF i
  <2>2. u \in Seq(S) /\ Len(u) = Len(l) - 1 /\ DOMAIN l = 1 .. Len(l) /\ Len(l) \in Nat
    BY <2>1, RemoveElement, SMTT(30)
  <2>3. PICK f : Embeds(u, l, i, f)
    BY <2>1, RemovePlaces, Zenon
  <2> HIDE DEF u
  <2>4. ASSUME NEW j \in DOMAIN u, NEW k \in DOMAIN u, j < k PROVE key[u[j]] <= key[u[k]]
    <3>1. f[j] < f[k]
      BY <2>3, <2>4, Zenon DEF Embeds
    <3>2. key[l[f[j]]] <= key[l[f[k]]]
      BY <2>3, <3>1, Zenon DEF Sorted, Embeds
    <3>3. QED
      BY <2>3, <3>2, Zenon DEF Embeds
  <2>5. ASSUME u # <<>> PROVE l # <<>> /\ key[Head(l)] <= key[Head(u)]
    <3>1. 1 \in DOMAIN u /\ Head(u) = u[1] /\ l # <<>> /\ Head(l) = l[1] /\ 1 \in DOMAIN l
      BY <2>2, <2>5
    <3>2. u[1] = l[f[1]] /\ f[1] \in DOMAIN l
      BY <2>3, <3>1, Zenon DEF Embeds
    <3>3. CASE f[1] = 1
      <4>1. key[l[1]] \in Int
        BY <3>1
      <4>2. QED
        BY <3>1, <3>2, <3>3, <4>1
    <3>4. CASE 1 < f[1]
      BY <3>1, <3>2, <3>4, Zenon DEF Sorted
    <3>5. f[1] = 1 \/ 1 < f[1]
      BY <2>2, <3>2
    <3>6. QED
      BY <3>1, <3>3, <3>4, <3>5
  <2>6. QED
    BY <2>1, <2>2, <2>4, <2>5, Zenon DEF Sorted
<1>3. QED
  BY <1>1, <1>2

-----------------------------------------------------------------------------
\* Insertion.

\* The place where InsertBefore puts a node: the first place of stop.
LEMMA InsertPlace ==
    ASSUME NEW S, NEW l \in Seq(S), NEW stop \in SUBSET DOMAIN l, NEW t
    PROVE  \E at \in 1 .. Len(l) + 1 :
             /\ InsertBefore(l, stop, t) = AddAtPlace(l, at, t)
             /\ at \in stop \cup {Len(l) + 1}
             /\ \A j \in stop : at <= j
<1> DEFINE at == CHOOSE k \in stop \cup {Len(l) + 1} : \A j \in stop : k <= j
<1>1. Len(l) \in Nat /\ DOMAIN l = 1 .. Len(l) /\ stop \in SUBSET Nat
  OBVIOUS
<1>2. \E k \in stop \cup {Len(l) + 1} : \A j \in stop : k <= j
  <2>1. CASE stop = {}
    BY <2>1
  <2>2. CASE stop # {}
    BY <1>1, <2>2, Smallest, Zenon
  <2>3. QED
    BY <2>1, <2>2
<1>3. at \in stop \cup {Len(l) + 1} /\ \A j \in stop : at <= j
  BY <1>2, Zenon
<1>4. InsertBefore(l, stop, t) = AddAtPlace(l, at, t)
  BY Zenon DEF InsertBefore
<1> HIDE DEF at
<1>5. at \in 1 .. Len(l) + 1
  BY <1>1, <1>3
<1>6. QED
  BY <1>3, <1>4, <1>5, Zenon

\* m is the list l of members of S with t inserted at place i.
Inserted(m, S, l, i, t) ==
    /\ m \in Seq(S) /\ DOMAIN m = 1 .. Len(l) + 1 /\ m[i] = t
    /\ \A j \in DOMAIN m :
         m[j] = IF j < i THEN l[j] ELSE IF j = i THEN t ELSE l[j - 1]
    /\ \E f : Embeds(l, m, i, f)

\* The places of a list into which a node was inserted.
LEMMA InsertPlaces ==
    ASSUME NEW S, NEW l \in Seq(S), NEW i \in 1 .. Len(l) + 1, NEW t \in S,
           NEW m, m = AddAtPlace(l, i, t)
    PROVE  Inserted(m, S, l, i, t)
<1> DEFINE f == [j \in 1 .. Len(l) |-> IF j < i THEN j ELSE j + 1]
<1>1. /\ Len(l) \in Nat /\ DOMAIN l = 1 .. Len(l)
      /\ m \in Seq(S) /\ DOMAIN m = 1 .. Len(l) + 1
      /\ \A j \in 1 .. Len(l) + 1 :
           m[j] = IF j < i THEN l[j] ELSE IF j = i THEN t ELSE l[j - 1]
  BY InsertElement, SMTT(30)
<1>2. \A j \in DOMAIN l : f[j] \in DOMAIN m /\ f[j] # i
  BY <1>1, SMTT(30)
<1>3. ASSUME NEW j \in DOMAIN l PROVE l[j] = m[f[j]]
  <2>1. CASE j < i
    BY <1>1, <2>1, SMTT(30)
  <2>2. CASE ~(j < i)
    <3>1. j + 1 \in 1 .. Len(l) + 1 /\ ~(j + 1 < i) /\ j + 1 # i /\ (j + 1) - 1 = j
      BY <1>1, <2>2
    <3>2. m[j + 1] = l[j]
      BY <1>1, <3>1, Zenon
    <3>3. f[j] = j + 1
      BY <1>1, <2>2
    <3>4. QED
      BY <3>2, <3>3
  <2>3. QED
    BY <2>1, <2>2
<1>4. \A j, k \in DOMAIN l : (j < k => f[j] < f[k]) /\ (f[j] = f[k] => j = k)
  BY <1>1, SMTT(30)
<1>5. ASSUME NEW j \in DOMAIN m, j # i PROVE \E k \in DOMAIN l : f[k] = j
  <2>1. CASE j < i
    <3>1. j \in DOMAIN l /\ f[j] = j
      BY <1>1, <2>1
    <3>2. QED
      BY <3>1, Zenon
  <2>2. CASE i < j
    <3>1. j - 1 \in DOMAIN l /\ f[j - 1] = j
      BY <1>1, <2>2
    <3>2. QED
      BY <3>1, Zenon
  <2>3. QED
    BY <1>1, <1>5, <2>1, <2>2, SMTT(30)
<1>6. m[i] = t
  BY <1>1
<1> HIDE DEF f
<1>7. Embeds(l, m, i, f)
  BY <1>2, <1>3, <1>4, <1>5, Zenon DEF Embeds
<1>8. QED
  BY <1>1, <1>6, <1>7, Zenon DEF Inserted

\* The loop adds t, once if it was not in the list, and t or the old first node
\* is the first.
LEMMA InsertList ==
    ASSUME NEW S, NEW l \in Seq(S), Distinct(l), NEW t \in S, t \notin Range(l),
           NEW stop \in SUBSET DOMAIN l, NEW m, m = InsertBefore(l, stop, t)
    PROVE  /\ m \in Seq(S) /\ Distinct(m) /\ Range(m) = Range(l) \cup {t}
           /\ m # <<>> /\ (Head(m) = t \/ (l # <<>> /\ Head(m) = Head(l)))
<1>1. PICK i \in 1 .. Len(l) + 1 :
        /\ m = AddAtPlace(l, i, t)
        /\ i \in stop \cup {Len(l) + 1} /\ \A j \in stop : i <= j
  BY InsertPlace, Zenon
<1>2. /\ m \in Seq(S) /\ DOMAIN m = 1 .. Len(l) + 1 /\ m[i] = t
      /\ \A j \in DOMAIN m :
           m[j] = IF j < i THEN l[j] ELSE IF j = i THEN t ELSE l[j - 1]
      /\ \E f : Embeds(l, m, i, f)
  <2>1. Inserted(m, S, l, i, t)
    BY <1>1, InsertPlaces, Zenon
  <2>2. QED
    BY <2>1, Zenon DEF Inserted
<1>3. Len(m) = Len(l) + 1 /\ (1 < i => m[1] = l[1])
  BY <1>2
<1>4. PICK f : Embeds(l, m, i, f)
  BY <1>2, Zenon
<1>5. \A j \in DOMAIN l : l[j] # t
  BY DEF Range
<1>6. \A j \in DOMAIN m : j = i \/ \E k \in DOMAIN l : f[k] = j
  BY <1>4, Zenon DEF Embeds
<1>7. Distinct(m)
  <2>1. ASSUME NEW j \in DOMAIN m, NEW k \in DOMAIN m, m[j] = m[k] PROVE j = k
    <3>1. CASE j = i \/ k = i
      <4>1. \A x \in DOMAIN m : x # i => m[x] # t
        <5>1. ASSUME NEW x \in DOMAIN m, x # i PROVE m[x] # t
          <6>1. PICK a \in DOMAIN l : f[a] = x
            BY <1>6, <5>1, Zenon
          <6>2. l[a] = m[x]
            BY <1>4, <6>1 DEF Embeds
          <6>3. QED
            BY <1>5, <6>2
        <5>2. QED
          BY <5>1
      <4>2. QED
        BY <1>2, <2>1, <3>1, <4>1, Zenon
    <3>2. CASE j # i /\ k # i
      <4>1. PICK a \in DOMAIN l, b \in DOMAIN l : f[a] = j /\ f[b] = k
        BY <1>6, <3>2, Zenon
      <4>2. l[a] = m[j] /\ l[b] = m[k]
        BY <1>4, <4>1 DEF Embeds
      <4>3. QED
        BY <2>1, <4>1, <4>2, Zenon DEF Distinct
    <3>3. QED
      BY <3>1, <3>2, Zenon
  <2>2. QED
    BY <2>1, Zenon DEF Distinct
<1>8. Range(m) = Range(l) \cup {t}
  <2>1. \A j \in DOMAIN m : m[j] \in Range(l) \cup {t}
    BY <1>2, <1>4, <1>6 DEF Range, Embeds
  <2>2. \A j \in DOMAIN l : \E k \in DOMAIN m : m[k] = l[j]
    BY <1>4, Zenon DEF Embeds
  <2>3. i \in DOMAIN m
    BY <1>2
  <2>4. QED
    BY <1>2, <2>1, <2>2, <2>3, SMTT(30) DEF Range
<1>9. m # <<>> /\ (Head(m) = t \/ (l # <<>> /\ Head(m) = Head(l)))
  <2>1. Len(l) \in Nat /\ m # <<>> /\ Head(m) = m[1]
    BY <1>2, <1>3
  <2>2. CASE i = 1
    BY <1>2, <2>1, <2>2
  <2>3. CASE 1 < i
    <3>1. l # <<>> /\ Head(l) = l[1]
      BY <2>1, <2>3
    <3>2. QED
      BY <1>3, <2>1, <2>3, <3>1
  <2>4. QED
    BY <2>1, <2>2, <2>3
<1>10. QED
  BY <1>2, <1>7, <1>8, <1>9, Zenon

\* If the loop stops at no node that must stay before t, and passes none that must
\* come after it, a sorted list stays sorted.
LEMMA InsertSorted ==
    ASSUME NEW S, NEW l \in Seq(S), NEW t \in S, NEW stop \in SUBSET DOMAIN l,
           NEW key \in [S -> Int], Sorted(l, key),
           \A i \in stop : key[t] <= key[l[i]],
           \A i \in DOMAIN l \ stop : key[l[i]] <= key[t],
           NEW m, m = InsertBefore(l, stop, t)
    PROVE  Sorted(m, key)
<1>1. PICK i \in 1 .. Len(l) + 1 :
        /\ m = AddAtPlace(l, i, t)
        /\ i \in stop \cup {Len(l) + 1} /\ \A j \in stop : i <= j
  BY InsertPlace, ZenonT(30)
<1>2. /\ m \in Seq(S) /\ DOMAIN m = 1 .. Len(l) + 1 /\ m[i] = t
      /\ \A j \in DOMAIN m :
           m[j] = IF j < i THEN l[j] ELSE IF j = i THEN t ELSE l[j - 1]
      /\ \E f : Embeds(l, m, i, f)
  <2>1. Inserted(m, S, l, i, t)
    BY <1>1, InsertPlaces, Zenon
  <2>2. QED
    BY <2>1, Zenon DEF Inserted
<1>3. PICK f : Embeds(l, m, i, f)
  BY <1>2, Zenon
<1>4. \A j \in DOMAIN m : j = i \/ \E k \in DOMAIN l : f[k] = j
  BY <1>3, Zenon DEF Embeds
<1>5. Len(l) \in Nat /\ DOMAIN l = 1 .. Len(l) /\ \A j \in DOMAIN l : key[l[j]] \in Int
  OBVIOUS
<1>6. ASSUME NEW j \in DOMAIN m, j < i PROVE key[m[j]] <= key[t]
  <2>1. j \in DOMAIN l /\ ~(i <= j)
    BY <1>1, <1>2, <1>5, <1>6
  <2>2. j \notin stop /\ m[j] = l[j]
    BY <1>1, <1>2, <1>6, <2>1, Zenon
  <2>3. QED
    BY <2>1, <2>2
<1>7. ASSUME NEW j \in DOMAIN m, i < j PROVE key[t] <= key[m[j]]
  <2>1. j - 1 \in DOMAIN l /\ i \in DOMAIN l /\ (i = j - 1 \/ i < j - 1) /\ i # Len(l) + 1
    BY <1>1, <1>2, <1>5, <1>7, SMTT(30)
  <2>2. ~(j < i) /\ j # i
    BY <1>1, <1>2, <1>7
  <2>3. m[j] = l[j - 1]
    BY <1>2, <2>2, Zenon
  <2>4. key[t] <= key[l[i]]
    BY <1>1, <2>1
  <2>5. key[l[i]] <= key[l[j - 1]]
    BY <1>5, <2>1 DEF Sorted
  <2>6. key[t] \in Int /\ key[l[i]] \in Int /\ key[l[j - 1]] \in Int
    BY <1>5, <2>1
  <2>7. QED
    BY <2>3, <2>4, <2>5, <2>6, SMTT(30)
<1>8. ASSUME NEW j \in DOMAIN m, NEW k \in DOMAIN m, j < k PROVE key[m[j]] <= key[m[k]]
  <2>1. CASE j = i
    BY <1>2, <1>7, <1>8, <2>1, SMTT(30)
  <2>2. CASE k = i
    BY <1>2, <1>6, <1>8, <2>2, SMTT(30)
  <2>3. CASE j # i /\ k # i
    <3>1. PICK a \in DOMAIN l, b \in DOMAIN l : f[a] = j /\ f[b] = k
      BY <1>4, <2>3, Zenon
    <3>2. l[a] = m[j] /\ l[b] = m[k]
      BY <1>3, <3>1, SMTT(30) DEF Embeds
    <3>3. a < b
      <4>1. a \in Int /\ b \in Int /\ j \in Int /\ k \in Int
        BY <1>2, <1>5, <3>1
      <4>2. ~(b < a) /\ a # b
        <5>1. b < a => k < j
          BY <1>3, <3>1 DEF Embeds
        <5>2. QED
          BY <1>8, <3>1, <4>1, <5>1, SMTT(30)
      <4>3. QED
        BY <4>1, <4>2
    <3>4. QED
      BY <3>2, <3>3 DEF Sorted
  <2>4. QED
    BY <2>1, <2>2, <2>3
<1>9. QED
  BY <1>8, Zenon DEF Sorted

-----------------------------------------------------------------------------

\* The order depends on the keys of listed nodes only.
LEMMA SortedFrame ==
    ASSUME NEW S, NEW l \in Seq(S), NEW key, NEW new, Sorted(l, key),
           \A t \in Range(l) : new[t] = key[t]
    PROVE  Sorted(l, new)
<1>1. \A i \in DOMAIN l : l[i] \in Range(l)
  BY DEF Range
<1>2. QED
  BY <1>1, Zenon DEF Sorted

-----------------------------------------------------------------------------
\* An order in which a loop meets the members of a set is a sequence.
LEMMA OrderIsSeq ==
    ASSUME NEW S, NEW T \in SUBSET S, NEW order \in Orders(T)
    PROVE  order \in Seq(S)
<1>1. PICK n \in 0 .. Cardinality(T) : order \in [1 .. n -> T]
  BY DEF Orders
<1>2. n \in Nat /\ order \in [1 .. n -> S]
  BY <1>1
<1>3. QED
  BY <1>2

=============================================================================
