---------------------------- MODULE TimersProofs ----------------------------
(***************************************************************************)
(* What timer.c promises, for any timers, any deadlines and any hardware   *)
(* timer that the assumptions of module Timers allow: the list is sorted,  *)
(* its head's deadline is covered, and callbacks come in the order of      *)
(* their deadlines, never too early and never too late.                    *)
(***************************************************************************)
EXTENDS Timers, SequenceTheorems, WellFoundedInduction, TLAPS

-----------------------------------------------------------------------------
(* Least elements: where a deadline goes is the least of a set of places.  *)

\* A set of natural numbers that is not empty has a least one.
LEMMA LeastNat ==
  ASSUME NEW S \in SUBSET Nat, S # {}
  PROVE  \E m \in S : \A n \in S : m <= n
<1> DEFINE R == OpToRel(<, Nat)
<1>1. IsWellFoundedOn(R, Nat)
  BY NatLessThanWellFounded
<1>2. \A i, j \in Nat : i < j => <<i, j>> \in R
  BY DEF OpToRel
<1> HIDE DEF R
<1>3. PICK m \in S : \A n \in S : ~(<<n, m>> \in R)
  BY <1>1, WFMin
<1>4. ASSUME NEW n \in S PROVE m <= n
  <2>1. n \in Nat /\ m \in Nat
    OBVIOUS
  <2>2. ~(n < m)
    BY <1>2, <1>3, <2>1
  <2>3. QED
    BY <2>1, <2>2
<1>5. QED
  BY <1>4

\* Min of FiniteSetsExt finds it.
LEMMA MinOfNats ==
  ASSUME NEW S \in SUBSET Nat, S # {}
  PROVE  Min(S) \in S /\ \A n \in S : Min(S) <= n
BY LeastNat DEF Min

\* So it does in a set of integers with a lower bound.
LEMMA MinOfInts ==
  ASSUME NEW S \in SUBSET Int, S # {}, NEW low \in Int, \A n \in S : low <= n
  PROVE  Min(S) \in S /\ \A n \in S : Min(S) <= n
<1> DEFINE T == {n - low : n \in S}
<1>1. T \in SUBSET Nat /\ T # {}
  <2>1. \A n \in S : n \in Int /\ low <= n
    OBVIOUS
  <2>2. \A n \in S : n - low \in Nat
    BY <2>1
  <2> QED
    BY <2>2
<1>2. PICK m \in T : \A n \in T : m <= n
  BY <1>1, LeastNat
<1>3. PICK k \in S : m = k - low
  BY <1>2
<1>4. \A n \in S : k <= n
  <2> TAKE n \in S
  <2>1. m <= n - low
    BY <1>2
  <2> QED
    BY <1>3, <2>1
<1>5. QED
  BY <1>4 DEF Min

-----------------------------------------------------------------------------
(* The list: a timer taken out, and one put in.                            *)

\* What _timer_cancel() leaves of a list: all the others, in their order.
LEMMA RemoveFirstIs ==
  ASSUME NEW s \in Seq(Timer), NEW t, \E i \in 1..Len(s) : s[i] = t
  PROVE  \E k \in 1..Len(s) :
           /\ s[k] = t
           /\ RemoveFirst(s, t) \in Seq(Timer)
           /\ Len(RemoveFirst(s, t)) = Len(s) - 1
           /\ \A i \in 1..(Len(s) - 1) :
                RemoveFirst(s, t)[i] = IF i < k THEN s[i] ELSE s[i + 1]
<1> DEFINE I == {i \in 1..Len(s) : s[i] = t}
           k == Min(I)
<1>1. I \in SUBSET Nat /\ I # {}
  OBVIOUS
<1>2. k \in I
  BY <1>1, MinOfNats
<1>3. RemoveFirst(s, t) = RemoveAt(s, k)
  BY <1>1 DEF RemoveFirst, SelectInSeq
<1> HIDE DEF k
<1>4. k \in 1..Len(s) /\ s[k] = t
  BY <1>2
<1>5. RemoveFirst(s, t) = SubSeq(s, 1, k - 1) \o SubSeq(s, k + 1, Len(s))
  BY <1>3 DEF RemoveAt
<1> HIDE DEF I
<1> DEFINE a == SubSeq(s, 1, k - 1)
           b == SubSeq(s, k + 1, Len(s))
<1>6. /\ a \in Seq(Timer) /\ Len(a) = k - 1
      /\ \A i \in 1..(k - 1) : a[i] = s[i]
  BY <1>4, SubSeqProperties
<1>7. /\ b \in Seq(Timer) /\ Len(b) = Len(s) - k
      /\ \A i \in 1..(Len(s) - k) : b[i] = s[k + i]
  BY <1>4, SubSeqProperties
<1>8. RemoveFirst(s, t) = a \o b
  BY <1>5
<1> HIDE DEF a, b
<1>9. /\ RemoveFirst(s, t) \in Seq(Timer)
      /\ Len(RemoveFirst(s, t)) = Len(s) - 1
  <2>1. a \o b \in Seq(Timer) /\ Len(a \o b) = Len(a) + Len(b)
    BY <1>6, <1>7, ConcatProperties
  <2>2. Len(a) + Len(b) = Len(s) - 1
    BY <1>4, <1>6, <1>7
  <2> QED
    BY <1>8, <2>1, <2>2
<1>10. ASSUME NEW i \in 1..(Len(s) - 1)
       PROVE  RemoveFirst(s, t)[i] = IF i < k THEN s[i] ELSE s[i + 1]
  <2>1. (a \o b)[i] = IF i <= Len(a) THEN a[i] ELSE b[i - Len(a)]
    BY <1>4, <1>6, <1>7, ConcatProperties
  <2>2. CASE i < k
    BY <1>4, <1>6, <1>8, <2>1, <2>2
  <2>3. CASE ~(i < k)
    <3>1. (a \o b)[i] = b[i - (k - 1)]
      BY <1>4, <1>6, <2>1, <2>3
    <3>2. i - (k - 1) \in 1..(Len(s) - k) /\ k + (i - (k - 1)) = i + 1
      BY <1>4, <2>3
    <3>3. b[i - (k - 1)] = s[i + 1]
      BY <1>7, <3>2
    <3> QED
      BY <1>8, <2>3, <3>1, <3>3
  <2> QED
    BY <2>2, <2>3
<1> QED
  BY <1>4, <1>9, <1>10

\* A list that does not hold the timer stays as it is.
LEMMA RemoveFirstNot ==
  ASSUME NEW s \in Seq(Timer), NEW t, ~ \E i \in 1..Len(s) : s[i] = t
  PROVE  RemoveFirst(s, t) = s
BY DEF RemoveFirst

\* What timer_set() makes of a list when it links a timer at a place.
LEMMA InsertAtIs ==
  ASSUME NEW s \in Seq(Timer), NEW t \in Timer, NEW p \in 1..(Len(s) + 1)
  PROVE  /\ InsertAt(s, p, t) \in Seq(Timer)
         /\ Len(InsertAt(s, p, t)) = Len(s) + 1
         /\ \A i \in 1..(Len(s) + 1) :
              InsertAt(s, p, t)[i] =
                IF i < p THEN s[i] ELSE IF i = p THEN t ELSE s[i - 1]
<1> DEFINE a == SubSeq(s, 1, p - 1)
           b == SubSeq(s, p, Len(s))
           c == a \o <<t>>
<1>1. InsertAt(s, p, t) = c \o b
  BY DEF InsertAt
<1>2. /\ a \in Seq(Timer) /\ Len(a) = p - 1
      /\ \A i \in 1..(p - 1) : a[i] = s[i]
  BY SubSeqProperties
<1>3. /\ b \in Seq(Timer) /\ Len(b) = Len(s) - p + 1
      /\ \A i \in 1..(Len(s) - p + 1) : b[i] = s[p + i - 1]
  BY SubSeqProperties
<1>4. <<t>> \in Seq(Timer) /\ Len(<<t>>) = 1 /\ <<t>>[1] = t
  OBVIOUS
<1> HIDE DEF a, b
<1>5. /\ c \in Seq(Timer) /\ Len(c) = p
      /\ \A i \in 1..p : c[i] = IF i <= p - 1 THEN a[i] ELSE <<t>>[i - (p - 1)]
  BY <1>2, <1>4, ConcatProperties
<1> HIDE DEF c
<1>6. /\ InsertAt(s, p, t) \in Seq(Timer)
      /\ Len(InsertAt(s, p, t)) = Len(s) + 1
  <2>1. c \o b \in Seq(Timer) /\ Len(c \o b) = Len(c) + Len(b)
    BY <1>3, <1>5, ConcatProperties
  <2>2. Len(c) + Len(b) = Len(s) + 1
    BY <1>3, <1>5
  <2> QED
    BY <1>1, <2>1, <2>2
<1>7. ASSUME NEW i \in 1..(Len(s) + 1)
      PROVE  InsertAt(s, p, t)[i] =
               IF i < p THEN s[i] ELSE IF i = p THEN t ELSE s[i - 1]
  <2>1. (c \o b)[i] = IF i <= p THEN c[i] ELSE b[i - p]
    BY <1>3, <1>5, ConcatProperties
  <2>2. CASE i < p
    <3>1. i \in 1..(p - 1) /\ i \in 1..p /\ i <= p - 1
      BY <2>2
    <3> QED
      BY <1>1, <1>2, <1>5, <2>1, <2>2, <3>1
  <2>3. CASE i = p
    <3>1. i \in 1..p /\ ~(i <= p - 1) /\ i - (p - 1) = 1
      BY <2>3
    <3> QED
      BY <1>1, <1>4, <1>5, <2>1, <2>3, <3>1
  <2>4. CASE i > p
    <3>1. i - p \in 1..(Len(s) - p + 1) /\ p + (i - p) - 1 = i - 1
      BY <2>4
    <3>2. b[i - p] = s[i - 1]
      BY <1>3, <3>1
    <3> QED
      BY <1>1, <2>1, <2>4, <3>2
  <2> QED
    BY <2>2, <2>3, <2>4
<1> QED
  BY <1>6, <1>7

\* The place of a deadline: all before it are nearer, the one at it is not.
LEMMA PlaceIs ==
  ASSUME NEW s \in Seq(Timer), NEW delta
  PROVE  /\ Place(s, delta) \in 1..(Len(s) + 1)
         /\ \A i \in 1..Len(s) : i < Place(s, delta) => ~(delta <= left[s[i]])
         /\ Place(s, delta) <= Len(s) => delta <= left[s[Place(s, delta)]]
<1> DEFINE I == {i \in 1..Len(s) : delta <= left[s[i]]}
           J == I \cup {Len(s) + 1}
<1>1. J \in SUBSET Nat /\ J # {}
  OBVIOUS
<1>2. Min(J) \in J /\ \A n \in J : Min(J) <= n
  BY <1>1, MinOfNats
<1>3. Place(s, delta) = Min(J)
  BY DEF Place
<1> DEFINE p == Place(s, delta)
<1>4. p \in J /\ \A n \in J : p <= n
  BY <1>2, <1>3
<1> HIDE DEF p
<1>5. p \in 1..(Len(s) + 1) /\ (p <= Len(s) => delta <= left[s[p]])
  BY <1>4
<1>6. ASSUME NEW i \in 1..Len(s), i < p PROVE ~(delta <= left[s[i]])
  <2>1. i \notin J
    BY <1>4, <1>5, <1>6
  <2> QED
    BY <2>1
<1> QED
  BY <1>5, <1>6 DEF p

-----------------------------------------------------------------------------
(* Lists sorted by deadline.                                               *)

\* A timer is in the list once, and the deadlines only grow along it.
Chain(s, l) ==
  \A i, j \in 1..Len(s) : i < j => s[i] # s[j] /\ l[s[i]] <= l[s[j]]

\* Taking a timer out leaves a sorted list of the others, and no nearer head.
LEMMA RemoveKeeps ==
  ASSUME NEW s \in Seq(Timer), NEW t, NEW l \in [Timer -> Int], Chain(s, l)
  PROVE  /\ RemoveFirst(s, t) \in Seq(Timer)
         /\ Chain(RemoveFirst(s, t), l)
         /\ ToSet(RemoveFirst(s, t)) = ToSet(s) \ {t}
         /\ RemoveFirst(s, t) # <<>> =>
              s # <<>> /\ l[s[1]] <= l[RemoveFirst(s, t)[1]]
<1>1. CASE ~ \E i \in 1..Len(s) : s[i] = t
  BY <1>1, RemoveFirstNot DEF ToSet
<1>2. CASE \E i \in 1..Len(s) : s[i] = t
  <2> DEFINE r == RemoveFirst(s, t)
  <2>1. PICK k \in 1..Len(s) :
          /\ s[k] = t
          /\ r \in Seq(Timer)
          /\ Len(r) = Len(s) - 1
          /\ \A i \in 1..(Len(s) - 1) : r[i] = IF i < k THEN s[i] ELSE s[i + 1]
    BY <1>2, RemoveFirstIs
  <2> HIDE DEF r
  <2>2. \A i \in 1..Len(s) : s[i] \in Timer
    BY ElementOfSeq
  <2>3. Len(s) \in Nat
    BY LenProperties
  <2>4. ASSUME NEW i \in 1..Len(r), NEW j \in 1..Len(r), i < j
        PROVE  r[i] # r[j] /\ l[r[i]] <= l[r[j]]
    <3> DEFINE u == IF i < k THEN i ELSE i + 1
               v == IF j < k THEN j ELSE j + 1
    <3>1. i \in 1..(Len(s) - 1) /\ j \in 1..(Len(s) - 1) /\ k \in Int
      BY <2>1, <2>3
    <3>2. u \in 1..Len(s) /\ v \in 1..Len(s) /\ u < v
      BY <2>3, <2>4, <3>1
    <3>3. r[i] = s[u] /\ r[j] = s[v]
      BY <2>1, <3>1
    <3> HIDE DEF u, v
    <3> QED
      BY <3>2, <3>3 DEF Chain
  <2>5. ASSUME NEW e \in ToSet(r) PROVE e \in ToSet(s) \ {t}
    <3>1. PICK i \in 1..Len(r) : e = r[i]
      BY <2>1 DEF ToSet
    <3> DEFINE u == IF i < k THEN i ELSE i + 1
    <3>2. i \in 1..(Len(s) - 1) /\ k \in Int
      BY <2>1, <2>3
    <3>3. u \in 1..Len(s) /\ u # k
      BY <2>3, <3>2
    <3>4. e = s[u]
      BY <2>1, <3>1, <3>2
    <3> HIDE DEF u
    <3>5. u < k \/ k < u
      BY <3>2, <3>3
    <3>6. s[u] # s[k]
      BY <3>3, <3>5 DEF Chain
    <3>7. e \in ToSet(s)
      BY <3>3, <3>4 DEF ToSet
    <3> QED
      BY <2>1, <3>4, <3>6, <3>7
  <2>6. ASSUME NEW e \in ToSet(s) \ {t} PROVE e \in ToSet(r)
    <3>1. PICK u \in 1..Len(s) : e = s[u]
      BY DEF ToSet
    <3>2. u # k
      BY <2>1, <3>1
    <3>3. CASE u < k
      <4>1. u \in 1..Len(r) /\ r[u] = e
        BY <2>1, <2>3, <3>1, <3>3
      <4> QED
        BY <2>1, <4>1 DEF ToSet
    <3>4. CASE u > k
      <4>1. u - 1 \in 1..Len(r) /\ r[u - 1] = e
        BY <2>1, <2>3, <3>1, <3>4
      <4> QED
        BY <2>1, <4>1 DEF ToSet
    <3> QED
      BY <2>1, <2>3, <3>2, <3>3, <3>4
  <2>7. ASSUME r # <<>> PROVE s # <<>> /\ l[s[1]] <= l[r[1]]
    <3>1. Len(r) >= 1
      BY <2>1, <2>7, EmptySeq
    <3>2. s # <<>> /\ 1 \in 1..Len(s) /\ 2 \in 1..Len(s)
      BY <2>1, <2>3, <3>1
    <3>3. r[1] = s[1] \/ r[1] = s[2]
      BY <2>1, <2>3, <3>1
    <3>4. l[s[1]] <= l[s[2]] /\ l[s[1]] \in Int
      BY <2>2, <3>2 DEF Chain
    <3> QED
      BY <3>2, <3>3, <3>4
  <2>8. Chain(r, l)
    BY <2>4 DEF Chain
  <2> QED
    BY <2>1, <2>5, <2>6, <2>7, <2>8 DEF r
<1> QED
  BY <1>1, <1>2

\* The deadline of a timer that is not in the list does not matter.
LEMMA ChainForgets ==
  ASSUME NEW s \in Seq(Timer), NEW t, NEW l \in [Timer -> Int], NEW d \in Int,
         t \notin ToSet(s), Chain(s, l)
  PROVE  Chain(s, [l EXCEPT ![t] = d])
<1>1. ASSUME NEW i \in 1..Len(s) PROVE [l EXCEPT ![t] = d][s[i]] = l[s[i]]
  <2>1. s[i] \in Timer /\ s[i] # t
    BY ElementOfSeq DEF ToSet
  <2> QED
    BY <2>1
<1> QED
  BY <1>1 DEF Chain

\* A timer linked at its place leaves the list sorted.
LEMMA LinkKeeps ==
  ASSUME NEW s \in Seq(Timer), NEW t \in Timer, NEW delta \in Int,
         left \in [Timer -> Int], t \notin ToSet(s), Chain(s, left)
  PROVE  LET q == InsertAt(s, Place(s, delta), t)
             l == [left EXCEPT ![t] = delta]
         IN  /\ q \in Seq(Timer) /\ q # <<>>
             /\ Chain(q, l)
             /\ ToSet(q) = ToSet(s) \cup {t}
             /\ Place(s, delta) = 1 => q[1] = t
             /\ Place(s, delta) # 1 =>
                  s # <<>> /\ q[1] = s[1] /\ l[q[1]] = left[s[1]]
<1> DEFINE p == Place(s, delta)
           q == InsertAt(s, p, t)
           l == [left EXCEPT ![t] = delta]
<1>1. /\ p \in 1..(Len(s) + 1)
      /\ \A i \in 1..Len(s) : i < p => ~(delta <= left[s[i]])
      /\ p <= Len(s) => delta <= left[s[p]]
  BY PlaceIs
<1> HIDE DEF p
<1>2. /\ q \in Seq(Timer) /\ Len(q) = Len(s) + 1
      /\ \A i \in 1..(Len(s) + 1) :
           q[i] = IF i < p THEN s[i] ELSE IF i = p THEN t ELSE s[i - 1]
  BY <1>1, InsertAtIs
<1> HIDE DEF q
<1>3. /\ Len(s) \in Nat
      /\ \A i \in 1..Len(s) : s[i] \in Timer /\ s[i] # t /\ left[s[i]] \in Int
  BY ElementOfSeq, LenProperties DEF ToSet
<1>4. l[t] = delta /\ \A i \in 1..Len(s) : l[s[i]] = left[s[i]]
  BY <1>3
<1> HIDE DEF l
<1>5. \A i \in 1..Len(s) : i >= p => delta <= left[s[i]]
  <2> TAKE i \in 1..Len(s)
  <2>1. CASE i = p
    BY <1>1, <2>1
  <2>2. CASE i > p
    <3>1. p \in 1..Len(s) /\ left[s[p]] <= left[s[i]]
      BY <1>1, <1>3, <2>2 DEF Chain
    <3> QED
      BY <1>1, <1>3, <3>1
  <2> QED
    BY <1>1, <1>3, <2>1, <2>2
<1>6. ASSUME NEW i \in 1..Len(q), NEW j \in 1..Len(q), i < j
      PROVE  q[i] # q[j] /\ l[q[i]] <= l[q[j]]
  <2>1. CASE i # p /\ j # p
    <3> DEFINE u == IF i < p THEN i ELSE i - 1
               v == IF j < p THEN j ELSE j - 1
    <3>1. /\ i \in 1..(Len(s) + 1) /\ j \in 1..(Len(s) + 1)
          /\ Len(s) \in Nat /\ p \in Int
      BY <1>1, <1>2, <1>3
    <3>2. u \in 1..Len(s) /\ v \in 1..Len(s) /\ u < v
      BY <1>1, <1>6, <2>1, <3>1
    <3>3. q[i] = s[u]
      BY <1>2, <2>1, <3>1
    <3>4. q[j] = s[v]
      BY <1>2, <2>1, <3>1
    <3> HIDE DEF u, v
    <3> QED
      BY <1>4, <3>2, <3>3, <3>4 DEF Chain
  <2>2. CASE i = p
    <3>1. j - 1 \in 1..Len(s) /\ j - 1 >= p
      BY <1>1, <1>2, <1>3, <1>6, <2>2
    <3>2. q[i] = t /\ q[j] = s[j - 1]
      BY <1>1, <1>2, <1>3, <1>6, <2>2
    <3> QED
      BY <1>3, <1>4, <1>5, <3>1, <3>2
  <2>3. CASE j = p
    <3>1. i \in 1..Len(s) /\ i < p
      BY <1>1, <1>2, <1>3, <1>6, <2>3
    <3>2. q[i] = s[i] /\ q[j] = t
      BY <1>1, <1>2, <1>3, <1>6, <2>3
    <3>3. left[s[i]] < delta
      BY <1>1, <1>3, <3>1
    <3> QED
      BY <1>3, <1>4, <3>1, <3>2, <3>3
  <2> QED
    BY <2>1, <2>2, <2>3
<1>7. ToSet(q) = ToSet(s) \cup {t}
  <2>1. ToSet(q) = {q[i] : i \in 1..(Len(s) + 1)}
    <3>1. DOMAIN q = 1..Len(q)
      BY <1>2, LenProperties
    <3>2. DOMAIN q = 1..(Len(s) + 1)
      BY <1>2, <3>1
    <3> QED
      BY <3>2 DEF ToSet
  <2>2. ToSet(s) = {s[i] : i \in 1..Len(s)}
    BY DEF ToSet
  <2>3. ASSUME NEW i \in 1..(Len(s) + 1) PROVE q[i] \in ToSet(s) \cup {t}
    <3>1. CASE i < p
      <4>1. i \in 1..Len(s) /\ q[i] = s[i]
        BY <1>1, <1>2, <1>3, <3>1
      <4> QED
        BY <2>2, <4>1
    <3>2. CASE i = p
      BY <1>1, <1>2, <3>2
    <3>3. CASE i > p
      <4>1. i - 1 \in 1..Len(s) /\ q[i] = s[i - 1]
        BY <1>1, <1>2, <1>3, <3>3
      <4> QED
        BY <2>2, <4>1
    <3> QED
      BY <1>1, <3>1, <3>2, <3>3
  <2>4. t \in ToSet(q)
    BY <1>1, <1>2, <2>1
  <2>5. ASSUME NEW i \in 1..Len(s) PROVE s[i] \in ToSet(q)
    <3>1. CASE i < p
      <4>1. i \in 1..(Len(s) + 1) /\ q[i] = s[i]
        BY <1>1, <1>2, <1>3, <3>1
      <4> QED
        BY <2>1, <4>1
    <3>2. CASE i >= p
      <4>1. /\ i + 1 \in 1..(Len(s) + 1) /\ (i + 1) - 1 = i
            /\ ~(i + 1 < p) /\ i + 1 # p
        BY <1>1, <1>3, <3>2
      <4>2. q[i + 1] = s[(i + 1) - 1]
        BY <1>2, <4>1
      <4> QED
        BY <2>1, <4>1, <4>2
    <3> QED
      BY <1>1, <3>1, <3>2
  <2> QED
    BY <2>1, <2>2, <2>3, <2>4, <2>5
<1>8. q # <<>> /\ (p = 1 => q[1] = t)
  BY <1>1, <1>2, <1>3
<1>9. p # 1 => s # <<>> /\ q[1] = s[1] /\ l[q[1]] = left[s[1]]
  <2> SUFFICES ASSUME p # 1
               PROVE  s # <<>> /\ q[1] = s[1] /\ l[q[1]] = left[s[1]]
    OBVIOUS
  <2>1. 1 \in 1..Len(s) /\ 1 < p
    BY <1>1, <1>3
  <2>2. q[1] = s[1]
    BY <1>2, <1>3, <2>1
  <2> QED
    BY <1>4, <2>1, <2>2
<1>10. Chain(q, l)
  BY <1>6 DEF Chain
<1> QED
  BY <1>2, <1>7, <1>8, <1>9, <1>10 DEF p, q, l

-----------------------------------------------------------------------------
(* The hardware timer.                                                     *)

\* The counter overflows before the deadline, lag included, or it is set to
\* the shortest count there is.
LEMMA OverflowIs ==
  ASSUME NEW delta \in Int
  PROVE  /\ Overflow(delta) \in Nat /\ Overflow(delta) >= 2
         /\ delta <= Slack => Overflow(delta) = 2
         /\ delta > Slack => Overflow(delta) + Lag <= delta
<1> USE HardwareAssumption
<1>1. CASE delta <= Slack
  <2>1. delta < FineLimit
    BY <1>1
  <2>2. Arr(delta) = 1
    BY <1>1, <2>1 DEF Arr
  <2> QED
    BY <1>1, <2>1, <2>2 DEF Overflow
<1>2. CASE delta > Slack /\ delta < FineLimit
  <2>1. Arr(delta) = delta - Slack
    BY <1>2 DEF Arr
  <2> QED
    BY <1>2, <2>1 DEF Overflow
<1>3. CASE delta >= FineLimit
  <2> DEFINE q == delta \div Unit
             f == FineLimit \div Unit
             c == q - Margin
             m == Min({FineLimit - 1, c})
  <2>1. q \in Int /\ q * Unit <= delta
    BY <1>3
  <2>2. f \in Int /\ f <= q /\ Margin < f
    BY <1>3
  <2> HIDE DEF q, f
  <2>3. c \in Int /\ c >= 1 /\ FineLimit - 1 >= 1
    BY <2>1, <2>2
  <2>4. Arr(delta) = m
    BY <1>3 DEF Arr, q
  <2>5. m \in {FineLimit - 1, c} /\ m <= c
    <3>1. {FineLimit - 1, c} \in SUBSET Nat
      BY <2>3
    <3> HIDE DEF c
    <3> QED
      BY <3>1, MinOfNats
  <2> HIDE DEF m
  <2>6. m \in Nat /\ m >= 1 /\ m <= q - Margin
    BY <2>1, <2>3, <2>5
  <2>7. Overflow(delta) = (m + 1) * Unit
    BY <1>3, <2>4 DEF Overflow
  <2>8. (m + 1) * Unit <= (q - (Margin - 1)) * Unit
    BY <2>1, <2>6
  <2>9. (q - (Margin - 1)) * Unit = q * Unit - (Margin - 1) * Unit
    BY <2>1
  <2>10. (m + 1) * Unit >= 2
    BY <2>6
  <2> QED
    BY <1>3, <2>1, <2>6, <2>7, <2>8, <2>9, <2>10
<1> QED
  BY <1>1, <1>2, <1>3

-----------------------------------------------------------------------------
(* The inductive invariant.                                                *)

\* The deadline furthest in the past a timer is set to, and how far in the
\* past the head's may be when its interrupt becomes pending.
Least == Min(Delays \cup {0})
Worst == Least - 2 - Lag

Types ==
  /\ list \in Seq(Timer) /\ left \in [Timer -> (-Half)..(Half - 1)]
  /\ hw \in Nat /\ pend \in BOOLEAN /\ pc \in {"main", "irq"}
  /\ since \in 0..MaxLatency

\* The counter overflows in time for the head, or shortly after.
Counting ==
  pc = "main" /\ ~pend /\ list # <<>> =>
    /\ hw > 0 /\ (hw <= left[list[1]] \/ hw <= 2 + Lag)
    /\ hw <= left[list[1]] - Worst

\* Once its interrupt is pending the head grows later by that wait only.
Overdue == Waiting /\ list # <<>> => left[list[1]] >= Worst - since

TInv == Types /\ Chain(list, left) /\ Counting /\ Overdue

\* The least of the deadlines is one of them, and no deadline ever wraps.
LEMMA LeastIs ==
  /\ Least \in Int /\ Least <= 0 /\ Least >= -Half
  /\ \A d \in Delays : Least <= d
  /\ MaxLate = MaxLatency - Worst /\ MaxLate <= Half
  /\ Worst \in Int /\ Worst < 0
<1> DEFINE S == Delays \cup {0}
<1>1. Half \in Nat /\ Lag \in Nat /\ MaxLatency \in Nat
  BY HardwareAssumption
<1>2. S \in SUBSET Int /\ S # {} /\ \A d \in S : -Half <= d
  BY <1>1, DelayAssumption
<1> HIDE DEF S
<1>3. Min(S) \in S /\ \A d \in S : Min(S) <= d
  <2> DEFINE low == -Half
  <2>1. low \in Int /\ \A d \in S : low <= d
    BY <1>1, <1>2
  <2> HIDE DEF low
  <2> QED
    BY <1>2, <2>1, MinOfInts
<1>4. MaxLatency + 2 + Lag - Min(S) <= Half
  BY <1>3, LatenessAssumption DEF S
<1>5. Least = Min(S) /\ MaxLate = MaxLatency + 2 + Lag - Min(S)
  BY DEF Least, MaxLate, S
<1>6. Least \in Int /\ Least >= -Half
  BY <1>2, <1>3, <1>5
<1>7. Least <= 0 /\ \A d \in Delays : Least <= d
  BY <1>3, <1>5 DEF S
<1> QED
  BY <1>1, <1>4, <1>5, <1>6, <1>7 DEF Worst

\* What reprogram_timer() promises for a deadline.
LEMMA Programmed ==
  ASSUME NEW delta \in Int, delta >= Least, pend \in BOOLEAN, reprogram_timer(delta)
  PROVE  /\ hw' \in Nat /\ pend' \in BOOLEAN
         /\ hw' > 0 /\ (hw' <= delta \/ hw' <= 2 + Lag)
         /\ hw' <= delta - Worst
<1>1. PICK lag \in 0..Lag : hw' = Overflow(delta) + lag
  BY DEF reprogram_timer
<1>2. Lag \in Nat /\ Slack \in Nat
  BY HardwareAssumption
<1>3. /\ Overflow(delta) \in Nat /\ Overflow(delta) >= 2
      /\ delta <= Slack => Overflow(delta) = 2
      /\ delta > Slack => Overflow(delta) + Lag <= delta
  BY OverflowIs
<1>4. Least \in Int /\ Least <= 0
  BY LeastIs
<1>5. pend' \in BOOLEAN
  BY DEF reprogram_timer
<1> QED
  BY <1>1, <1>2, <1>3, <1>4, <1>5 DEF Worst

\* Without its head a sorted list is what _timer_cancel() leaves of it.
LEMMA TailIsRemoved ==
  ASSUME NEW s \in Seq(Timer), s # <<>>, NEW l \in [Timer -> Int], Chain(s, l)
  PROVE  RemoveFirst(s, Head(s)) = Tail(s) /\ Head(s) = s[1] /\ 1 \in 1..Len(s)
<1> DEFINE r == RemoveFirst(s, Head(s))
<1>1. Len(s) \in Nat /\ Len(s) >= 1 /\ Head(s) = s[1]
  BY LenProperties, EmptySeq
<1>2. PICK k \in 1..Len(s) :
        /\ s[k] = Head(s) /\ r \in Seq(Timer) /\ Len(r) = Len(s) - 1
        /\ \A i \in 1..(Len(s) - 1) : r[i] = IF i < k THEN s[i] ELSE s[i + 1]
  <2>1. \E i \in 1..Len(s) : s[i] = Head(s)
    BY <1>1
  <2> QED
    BY <2>1, RemoveFirstIs
<1> HIDE DEF r
<1>3. k = 1
  BY <1>1, <1>2 DEF Chain
<1>4. \A i \in 1..(Len(s) - 1) : r[i] = s[i + 1]
  BY <1>2, <1>3
<1>5. /\ Tail(s) \in Seq(Timer) /\ Len(Tail(s)) = Len(s) - 1
      /\ \A i \in 1..(Len(s) - 1) : Tail(s)[i] = s[i + 1]
  BY <1>1, HeadTailProperties
<1>6. r = Tail(s)
  BY <1>2, <1>4, <1>5, SeqEqual
<1> QED
  BY <1>1, <1>6 DEF r

\* A timer linked into what is left of the list when it is taken out.
LEMMA LinkHolds ==
  ASSUME TInv, NEW t \in Timer, NEW delta \in (-Half)..(Half - 1), delta >= Least,
         Link(RemoveFirst(list, t), t, delta), UNCHANGED <<pc, since>>
  PROVE  TInv' /\ Active' = Active \cup {t} /\ left' = [left EXCEPT ![t] = delta]
<1> DEFINE s == RemoveFirst(list, t)
           q == InsertAt(s, Place(s, delta), t)
<1>1. Half \in Nat /\ Worst \in Int /\ delta \in Int /\ Lag \in Nat
  BY LeastIs, HardwareAssumption
<1>2. left \in [Timer -> Int] /\ list \in Seq(Timer) /\ Chain(list, left)
  BY <1>1 DEF TInv, Types
<1>3. /\ s \in Seq(Timer) /\ Chain(s, left)
      /\ ToSet(s) = ToSet(list) \ {t}
      /\ s # <<>> => list # <<>> /\ left[list[1]] <= left[s[1]]
  BY <1>2, RemoveKeeps
<1> HIDE DEF s
<1>4. list' = q /\ left' = [left EXCEPT ![t] = delta]
  BY DEF Link, s
<1>5. /\ q \in Seq(Timer) /\ q # <<>>
      /\ Chain(q, left')
      /\ ToSet(q) = ToSet(s) \cup {t}
      /\ Place(s, delta) = 1 => q[1] = t
      /\ Place(s, delta) # 1 => s # <<>> /\ q[1] = s[1] /\ left'[q[1]] = left[s[1]]
  <2> DEFINE l == [left EXCEPT ![t] = delta]
  <2>1. /\ q \in Seq(Timer) /\ q # <<>>
        /\ Chain(q, l)
        /\ ToSet(q) = ToSet(s) \cup {t}
        /\ Place(s, delta) = 1 => q[1] = t
        /\ Place(s, delta) # 1 => s # <<>> /\ q[1] = s[1] /\ l[q[1]] = left[s[1]]
    <3>1. t \notin ToSet(s)
      BY <1>3
    <3> QED
      BY <1>1, <1>2, <1>3, <3>1, LinkKeeps
  <2> HIDE DEF q
  <2>2. left' = l
    BY <1>4
  <2> QED
    BY <2>1, <2>2
<1> HIDE DEF q
<1>6. left' \in [Timer -> (-Half)..(Half - 1)] /\ left'[t] = delta
  BY <1>4 DEF TInv, Types
<1>7. hw' \in Nat /\ pend' \in BOOLEAN /\ Counting' /\ Overdue'
  <2>1. since \in Nat /\ pend \in BOOLEAN /\ hw \in Nat
    BY DEF TInv, Types
  <2>2. CASE Place(s, delta) = 1
    <3>1. reprogram_timer(delta)
      BY <2>2 DEF Link, s
    <3>2. /\ hw' \in Nat /\ pend' \in BOOLEAN
          /\ hw' > 0 /\ (hw' <= delta \/ hw' <= 2 + Lag)
          /\ hw' <= delta - Worst
      BY <1>1, <2>1, <3>1, Programmed
    <3>3. left'[list'[1]] = delta
      BY <1>4, <1>5, <1>6, <2>2
    <3>4. Counting'
      BY <3>2, <3>3 DEF Counting, Worst, Least
    <3>5. delta >= Worst - since
      BY <1>1, <2>1, LeastIs DEF Worst
    <3>6. Overdue'
      BY <3>3, <3>5 DEF Overdue, Worst, Least
    <3> QED
      BY <3>2, <3>4, <3>6
  <2>3. CASE Place(s, delta) # 1
    <3>1. UNCHANGED <<hw, pend>>
      BY <2>3 DEF Link, s
    <3>2. list # <<>> /\ left[list[1]] <= left'[list'[1]]
      BY <1>3, <1>4, <1>5, <2>3
    <3>3. left[list[1]] \in Int /\ left'[list'[1]] \in Int
      <4>1. 1 \in 1..Len(list) /\ 1 \in 1..Len(q)
        BY <1>2, <1>5, <3>2, EmptySeq
      <4>2. list[1] \in Timer /\ q[1] \in Timer
        BY <1>2, <1>5, <4>1, ElementOfSeq
      <4> QED
        BY <1>1, <1>2, <1>4, <1>6, <4>2
    <3>4. Counting'
      BY <1>1, <2>1, <3>1, <3>2, <3>3 DEF TInv, Counting, Worst, Least
    <3>5. Overdue'
      BY <1>1, <2>1, <3>1, <3>2, <3>3 DEF TInv, Overdue, Waiting, Worst, Least
    <3> QED
      BY <2>1, <3>1, <3>4, <3>5
  <2> QED
    BY <2>2, <2>3
<1>8. Types'
  BY <1>4, <1>5, <1>6, <1>7 DEF TInv, Types
<1>9. Active' = Active \cup {t}
  BY <1>3, <1>4, <1>5 DEF Active
<1> QED
  BY <1>4, <1>5, <1>7, <1>8, <1>9 DEF TInv

\* A timer taken out: the hardware timer goes on as it is.
LEMMA UnlinkHolds ==
  ASSUME TInv, NEW t \in Timer, Unlink(t), UNCHANGED <<hw, pend, pc, since>>
  PROVE  TInv' /\ Active' = Active \ {t} /\ left' = [left EXCEPT ![t] = 0]
<1> DEFINE s == RemoveFirst(list, t)
           zero == 0
<1>1. Half \in Nat /\ Half > 0 /\ Worst \in Int /\ Lag \in Nat
  BY LeastIs, HardwareAssumption
<1>2. left \in [Timer -> Int] /\ list \in Seq(Timer) /\ Chain(list, left)
  BY <1>1 DEF TInv, Types
<1>3. /\ s \in Seq(Timer) /\ Chain(s, left)
      /\ ToSet(s) = ToSet(list) \ {t}
      /\ s # <<>> => list # <<>> /\ left[list[1]] <= left[s[1]]
  BY <1>2, RemoveKeeps
<1>4. list' = s /\ left' = [left EXCEPT ![t] = zero]
  BY DEF Unlink
<1> HIDE DEF s
<1>5. zero \in (-Half)..(Half - 1) /\ zero \in Int
  BY <1>1
<1>6. left' \in [Timer -> (-Half)..(Half - 1)]
  BY <1>4, <1>5 DEF TInv, Types
<1>7. Chain(list', left')
  BY <1>2, <1>3, <1>4, <1>5, ChainForgets
<1>8. list' # <<>> => list # <<>> /\ left[list[1]] <= left'[list'[1]]
  <2> SUFFICES ASSUME s # <<>> PROVE left'[s[1]] = left[s[1]]
    BY <1>3, <1>4
  <2>1. 1 \in 1..Len(s)
    BY <1>3, EmptySeq
  <2>2. s[1] \in Timer /\ s[1] \in ToSet(s)
    BY <1>3, <2>1, ElementOfSeq, LenProperties DEF ToSet
  <2> HIDE DEF zero
  <2> QED
    BY <1>2, <1>3, <1>4, <2>2
<1>9. Counting' /\ Overdue'
  <2> SUFFICES ASSUME list' # <<>> PROVE Counting' /\ Overdue'
    BY DEF Counting, Overdue
  <2>1. since \in Nat /\ pend \in BOOLEAN /\ hw \in Nat
    BY DEF TInv, Types
  <2>2. left[list[1]] \in Int /\ left'[list'[1]] \in Int
    <3>1. 1 \in 1..Len(list) /\ 1 \in 1..Len(s)
      BY <1>2, <1>3, <1>4, <1>8, EmptySeq
    <3>2. list[1] \in Timer /\ s[1] \in Timer
      BY <1>2, <1>3, <3>1, ElementOfSeq
    <3> QED
      BY <1>1, <1>2, <1>4, <1>6, <3>2
  <2>3. Counting'
    BY <1>1, <1>8, <2>1, <2>2 DEF TInv, Counting, Worst, Least
  <2>4. Overdue'
    BY <1>1, <1>8, <2>1, <2>2 DEF TInv, Overdue, Waiting, Worst, Least
  <2> QED
    BY <2>3, <2>4
<1>10. Types'
  BY <1>3, <1>4, <1>6 DEF TInv, Types
<1>11. Active' = Active \ {t}
  BY <1>3, <1>4 DEF Active
<1> QED
  BY <1>4, <1>7, <1>9, <1>10, <1>11 DEF TInv

\* A tick: all deadlines come nearer together, and none of them wraps.
LEMMA TickHolds ==
  ASSUME TInv, Tick
  PROVE  /\ TInv'
         /\ \A t \in Active : left[t] > -MaxLate
         /\ left' = [t \in Timer |-> IF t \in Active THEN left[t] - 1 ELSE 0]
<1>1. Half \in Nat /\ Half > 0 /\ Worst \in Int /\ Worst < 0 /\ Lag \in Nat
      /\ MaxLatency \in Nat /\ MaxLate = MaxLatency - Worst /\ MaxLate <= Half
  BY LeastIs, HardwareAssumption
<1>2. /\ left \in [Timer -> (-Half)..(Half - 1)] /\ list \in Seq(Timer)
      /\ Chain(list, left) /\ since \in 0..MaxLatency /\ pend \in BOOLEAN
      /\ hw \in Nat /\ Len(list) \in Nat
  BY LenProperties DEF TInv, Types
<1>3. list # <<>> => /\ 1 \in 1..Len(list) /\ list[1] \in Timer
                     /\ list[1] \in Active /\ left[list[1]] \in Int
                     /\ left[list[1]] > -MaxLate
  <2> SUFFICES ASSUME list # <<>>
               PROVE  /\ 1 \in 1..Len(list) /\ list[1] \in Timer
                      /\ list[1] \in Active /\ left[list[1]] \in Int
                      /\ left[list[1]] > -MaxLate
    OBVIOUS
  <2>1. 1 \in 1..Len(list)
    BY <1>2, EmptySeq
  <2>2. list[1] \in Timer /\ list[1] \in Active
    BY <1>2, <2>1, ElementOfSeq, LenProperties DEF Active, ToSet
  <2>3. left[list[1]] \in Int
    BY <1>1, <1>2, <2>2
  <2>4. CASE Waiting
    <3>1. since < MaxLatency /\ left[list[1]] >= Worst - since
      BY <2>4 DEF Tick, TInv, Overdue
    <3> QED
      BY <1>1, <1>2, <2>1, <2>2, <2>3, <3>1
  <2>5. CASE ~Waiting
    <3>1. hw > 0 /\ hw <= left[list[1]] - Worst
      BY <2>5 DEF TInv, Types, Counting, Waiting
    <3> QED
      BY <1>1, <1>2, <2>1, <2>2, <2>3, <3>1
  <2> QED
    BY <2>4, <2>5
<1>4. \A t \in Active : t \in Timer /\ left[t] \in Int /\ left[t] > -MaxLate
  <2> TAKE t \in Active
  <2>1. PICK i \in 1..Len(list) : t = list[i]
    BY <1>2, LenProperties DEF Active, ToSet
  <2>2. list # <<>> /\ t \in Timer
    BY <1>2, <2>1, ElementOfSeq
  <2>3. left[t] \in Int
    BY <1>1, <1>2, <2>2
  <2>4. left[list[1]] <= left[t]
    BY <1>2, <1>3, <2>1, <2>2, <2>3 DEF Chain
  <2> QED
    BY <1>1, <1>3, <2>2, <2>3, <2>4
<1>5. left' = [t \in Timer |-> IF t \in Active THEN left[t] - 1 ELSE 0]
  <2>1. \A t \in Active : Countdown(left[t]) = left[t] - 1
    BY <1>1, <1>4 DEF Countdown
  <2> QED
    BY <2>1 DEF Tick
<1>6. left' \in [Timer -> (-Half)..(Half - 1)]
  <2>1. ASSUME NEW t \in Timer
        PROVE  (IF t \in Active THEN left[t] - 1 ELSE 0) \in (-Half)..(Half - 1)
    BY <1>1, <1>2, <1>4
  <2> QED
    BY <1>5, <2>1
<1>7. list' = list /\ pc' = pc
  BY DEF Tick
<1>8. Chain(list', left')
  <2>1. ASSUME NEW i \in 1..Len(list) PROVE left'[list[i]] = left[list[i]] - 1
    <3>1. list[i] \in Active
      BY <1>2, LenProperties DEF Active, ToSet
    <3> QED
      BY <1>4, <1>5, <3>1
  <2>2. \A i \in 1..Len(list) : left[list[i]] \in Int
    BY <1>2, <1>4, LenProperties DEF Active, ToSet
  <2> QED
    BY <1>2, <1>7, <2>1, <2>2 DEF Chain
<1>9. hw' = IF hw = 0 THEN 0 ELSE hw - 1
  BY DEF Tick
<1>10. /\ pend' = (pend \/ hw = 1) /\ hw' \in Nat /\ pend' \in BOOLEAN
       /\ since' = IF Waiting THEN since + 1 ELSE 0
       /\ Waiting => since < MaxLatency
       /\ since' \in 0..MaxLatency
  BY <1>1, <1>2, <1>9 DEF Tick
<1>11. list # <<>> => left'[list[1]] = left[list[1]] - 1
  BY <1>3, <1>5
<1>12. Counting'
  <2> SUFFICES ASSUME pc = "main", ~pend', list # <<>>
               PROVE  /\ hw' > 0 /\ (hw' <= left'[list[1]] \/ hw' <= 2 + Lag)
                      /\ hw' <= left'[list[1]] - Worst
    BY <1>7 DEF Counting, Worst, Least
  <2>1. ~pend /\ hw # 1
    BY <1>10
  <2>2. /\ hw > 0 /\ (hw <= left[list[1]] \/ hw <= 2 + Lag)
        /\ hw <= left[list[1]] - Worst
    BY <2>1 DEF TInv, Counting
  <2> QED
    BY <1>1, <1>2, <1>3, <1>9, <1>11, <2>1, <2>2
<1>13. Overdue'
  <2> SUFFICES ASSUME Waiting', list # <<>>
               PROVE  left'[list[1]] >= Worst - since'
    BY <1>7 DEF Overdue, Worst, Least
  <2>1. CASE Waiting
    <3>1. left[list[1]] >= Worst - since /\ since' = since + 1
      BY <1>10, <2>1 DEF TInv, Overdue
    <3> QED
      BY <1>1, <1>2, <1>3, <1>11, <3>1
  <2>2. CASE ~Waiting
    <3>1. pc = "main" /\ ~pend /\ hw = 1 /\ since' = 0
      BY <1>7, <1>10, <2>2 DEF Waiting, TInv, Types
    <3>2. hw <= left[list[1]] - Worst
      BY <3>1 DEF TInv, Counting
    <3> QED
      BY <1>1, <1>3, <1>11, <3>1, <3>2
  <2> QED
    BY <2>1, <2>2
<1>14. Types'
  BY <1>2, <1>6, <1>7, <1>10 DEF TInv, Types
<1> QED
  BY <1>4, <1>5, <1>8, <1>12, <1>13, <1>14 DEF TInv

-----------------------------------------------------------------------------
(* Every step, and what it is for the deadlines of module Deadlines.       *)

\* Nothing is set at first.
LEMMA InitTInv == Init => TInv /\ D!Init
<1> SUFFICES ASSUME Init PROVE TInv /\ D!Init
  OBVIOUS
<1>1. /\ Half \in Nat /\ Half > 0 /\ MaxLatency \in Nat
      /\ list = <<>> /\ left = [t \in Timer |-> 0]
  BY HardwareAssumption DEF Init
<1>2. Len(list) = 0 /\ list \in Seq(Timer) /\ Active = {}
  BY <1>1, EmptySeq DEF Active, ToSet
<1>3. Types
  <2>1. 0 \in (-Half)..(Half - 1) /\ 0 \in 0..MaxLatency
    BY <1>1
  <2>2. left \in [Timer -> (-Half)..(Half - 1)]
    BY <1>1, <2>1
  <2> QED
    BY <1>2, <2>1, <2>2 DEF Init, Types
<1>4. Chain(list, left)
  BY <1>2 DEF Chain
<1>5. Counting /\ Overdue
  BY <1>1 DEF Counting, Overdue
<1>6. called = {}
  BY DEF Init
<1> QED
  BY <1>1, <1>2, <1>3, <1>4, <1>5, <1>6 DEF TInv, D!Init

\* timer_set() from main level sets a deadline.
LEMMA SetHolds ==
  ASSUME TInv, NEW t \in Timer, Set(t)
  PROVE  TInv' /\ D!Next
<1>1. /\ Half \in Nat /\ Slack \in Nat /\ Least <= 0
      /\ \A d \in Delays : d \in (-Half)..(Half - 1) /\ d >= Least
      /\ \A u \in Periodic : Period[u] \in (Slack + 1)..(Half - 1)
  BY LeastIs, HardwareAssumption, DelayAssumption
<1> DEFINE ds == Delays \cup {Period[u] : u \in Periodic}
<1>2. PICK d \in ds : /\ d \in (-Half)..(Half - 1) /\ d >= Least
                      /\ timer_set(t, d) /\ UNCHANGED <<pc, since>>
  <2>1. CASE t \in OneShot /\ \E d \in Delays : timer_set(t, d)
    BY <1>1, <2>1 DEF Set
  <2>2. CASE t \in Periodic \ Active /\ timer_set(t, Period[t])
    <3>1. Period[t] \in ds
      BY <2>2
    <3>2. Period[t] \in (-Half)..(Half - 1) /\ Period[t] >= Least
      BY <1>1, <2>2, LeastIs
    <3> QED
      BY <2>2, <3>1, <3>2 DEF Set
  <2> QED
    BY <2>1, <2>2 DEF Set
<1>3. TInv' /\ Active' = Active \cup {t} /\ left' = [left EXCEPT ![t] = d]
  BY <1>2, LinkHolds DEF timer_set
<1>4. D!Set(t, d)
  BY <1>3 DEF Set, D!Set, D!Arm
<1> QED
  BY <1>3, <1>4 DEF D!Next

\* timer_cancel() cancels it.
LEMMA CancelHolds ==
  ASSUME TInv, NEW t \in Timer, timer_cancel(t)
  PROVE  TInv' /\ D!Next
<1>1. TInv' /\ Active' = Active \ {t} /\ left' = [left EXCEPT ![t] = 0]
  BY UnlinkHolds DEF timer_cancel
<1>2. D!Cancel(t)
  BY <1>1 DEF timer_cancel, D!Cancel, D!Disarm
<1> QED
  BY <1>1, <1>2 DEF D!Next

\* A turn of the loop of IRQ_timer() fires the earliest deadline, once due.
LEMMA CallBackHolds ==
  ASSUME TInv, CallBack
  PROVE  TInv' /\ D!Next
<1> DEFINE t == Head(list)
           ds == Delays \cup {Period[u] : u \in Periodic}
<1>1. /\ Half \in Nat /\ Slack \in Nat /\ Least \in Int /\ Least <= 0
      /\ \A u \in Periodic : Period[u] \in (Slack + 1)..(Half - 1)
  BY LeastIs, HardwareAssumption, DelayAssumption
<1>2. /\ list \in Seq(Timer) /\ list # <<>> /\ left[t] <= Slack
      /\ left \in [Timer -> Int] /\ Chain(list, left)
  BY <1>1 DEF CallBack, Due, TInv, Types
<1>3. Tail(list) = RemoveFirst(list, t) /\ t = list[1] /\ 1 \in 1..Len(list)
  BY <1>2, TailIsRemoved
<1>4. t \in Timer /\ t \in Active
  BY <1>2, <1>3, ElementOfSeq, LenProperties DEF Active, ToSet
<1>5. \A u \in Active : left[t] <= left[u]
  <2> TAKE u \in Active
  <2>1. PICK i \in 1..Len(list) : u = list[i]
    BY <1>2, LenProperties DEF Active, ToSet
  <2>2. CASE i = 1
    BY <1>2, <1>3, <1>4, <2>1, <2>2
  <2>3. CASE i > 1
    BY <1>2, <1>3, <2>1, <2>3 DEF Chain
  <2> QED
    BY <1>2, <2>2, <2>3, LenProperties
<1>6. CASE t \in Periodic
  <2>1. Link(RemoveFirst(list, t), t, Period[t]) /\ UNCHANGED <<pc, since>>
    BY <1>3, <1>6 DEF CallBack
  <2>2. /\ Period[t] \in (-Half)..(Half - 1) /\ Period[t] >= Least
        /\ Period[t] \in ds
    BY <1>1, <1>6
  <2>3. TInv' /\ Active' = Active \cup {t} /\ left' = [left EXCEPT ![t] = Period[t]]
    BY <1>4, <2>1, <2>2, LinkHolds
  <2>4. D!Arm(t, Period[t])
    BY <2>3 DEF D!Arm
  <2>5. D!Fire(t)
    BY <1>2, <1>4, <1>5, <2>2, <2>4 DEF CallBack, D!Fire
  <2> QED
    BY <1>4, <2>3, <2>5 DEF D!Next
<1>7. CASE t \notin Periodic
  <2>1. Unlink(t) /\ UNCHANGED <<hw, pend, pc, since>>
    BY <1>7 DEF CallBack
  <2>2. TInv' /\ Active' = Active \ {t} /\ left' = [left EXCEPT ![t] = 0]
    BY <1>4, <2>1, UnlinkHolds
  <2>3. D!Disarm(t)
    BY <2>2 DEF D!Disarm
  <2>4. D!Fire(t)
    BY <1>2, <1>4, <1>5, <2>3 DEF CallBack, D!Fire
  <2> QED
    BY <1>4, <2>2, <2>4 DEF D!Next
<1> QED
  BY <1>6, <1>7

\* The interrupt is taken: its wait goes on.
LEMMA EnterHolds ==
  ASSUME TInv, Enter
  PROVE  TInv' /\ UNCHANGED <<Active, left, called>>
<1>1. UNCHANGED <<list, left, hw, since, called>> /\ pc = "main" /\ pend /\ pc' = "irq" /\ ~pend'
  BY DEF Enter
<1>2. Types'
  BY <1>1 DEF Enter, TInv, Types
<1>3. Chain(list', left') /\ Counting' /\ UNCHANGED <<Active, left, called>>
  BY <1>1 DEF TInv, Chain, Counting, Active
<1>4. Overdue'
  BY <1>1 DEF TInv, Overdue, Waiting, Worst, Least
<1> QED
  BY <1>2, <1>3, <1>4 DEF TInv

\* The interrupt returns with the counter set for the head, if there is one.
LEMMA LeaveHolds ==
  ASSUME TInv, Leave
  PROVE  TInv' /\ UNCHANGED <<Active, left, called>>
<1>1. UNCHANGED <<list, left, called>> /\ pc' = "main" /\ ~Due
      /\ since' = IF pend' THEN since ELSE 0
  BY DEF Leave
<1>2. /\ list \in Seq(Timer) /\ since \in 0..MaxLatency /\ pend \in BOOLEAN
      /\ left \in [Timer -> Int] /\ hw \in Nat /\ Half \in Nat /\ MaxLatency \in Nat
      /\ Slack \in Nat /\ Least \in Int /\ Least <= 0 /\ Worst \in Int /\ Worst < 0
  BY LeastIs, HardwareAssumption DEF TInv, Types
<1>3. since' \in 0..MaxLatency
  BY <1>1, <1>2
<1>4. CASE list = <<>>
  <2>1. UNCHANGED <<hw, pend>>
    BY <1>4 DEF Leave
  <2>2. Types'
    BY <1>1, <1>3, <2>1 DEF TInv, Types
  <2>3. Counting' /\ Overdue'
    BY <1>1, <1>4 DEF Counting, Overdue
  <2> QED
    BY <1>1, <2>2, <2>3 DEF TInv, Active, Chain
<1>5. CASE list # <<>>
  <2>1. Head(list) = list[1] /\ list[1] \in Timer
    BY <1>2, <1>5, EmptySeq, ElementOfSeq
  <2>2. left[list[1]] \in Int /\ left[list[1]] > Slack
    BY <1>1, <1>2, <1>5, <2>1 DEF Due
  <2>3. reprogram_timer(left[list[1]])
    BY <1>5, <2>1 DEF Leave
  <2> DEFINE d == left[list[1]]
  <2>4. d \in Int /\ d >= Least /\ d > 0 /\ reprogram_timer(d)
    BY <1>2, <2>2, <2>3
  <2> HIDE DEF d
  <2>5. /\ hw' \in Nat /\ pend' \in BOOLEAN
        /\ hw' > 0 /\ (hw' <= d \/ hw' <= 2 + Lag)
        /\ hw' <= d - Worst
    BY <1>2, <2>4, Programmed
  <2>6. left'[list'[1]] = d
    BY <1>1 DEF d
  <2>7. Types'
    BY <1>1, <1>3, <2>5 DEF TInv, Types
  <2>8. Counting'
    BY <2>5, <2>6 DEF Counting, Worst, Least
  <2>9. d >= Worst - since'
    <3>1. since' \in Int /\ since' >= 0
      BY <1>2, <1>3
    <3>2. Worst \in Int /\ Worst < 0 /\ d \in Int /\ d > 0
      BY <2>4, LeastIs
    <3>3. \A a, b, c \in Int : a > 0 /\ b < 0 /\ c >= 0 => a >= b - c
      OBVIOUS
    <3> QED
      BY <3>1, <3>2, <3>3
  <2>10. Overdue'
    BY <2>6, <2>9 DEF Overdue, Worst, Least
  <2> QED
    BY <1>1, <2>7, <2>8, <2>10 DEF TInv, Active, Chain
<1> QED
  BY <1>4, <1>5

\* Every step keeps the invariant, and is a step of Deadlines or none.
LEMMA StepTInv == TInv /\ [Next]_vars => TInv' /\ [D!Next]_(D!vars)
<1> SUFFICES ASSUME TInv, [Next]_vars PROVE TInv' /\ [D!Next]_(D!vars)
  OBVIOUS
<1>1. CASE \E t \in Timer : Set(t)
  BY <1>1, SetHolds
<1>2. CASE \E t \in Timer : timer_cancel(t)
  BY <1>2, CancelHolds
<1>3. CASE Enter
  BY <1>3, EnterHolds DEF D!vars
<1>4. CASE CallBack
  BY <1>4, CallBackHolds
<1>5. CASE Leave
  BY <1>5, LeaveHolds DEF D!vars
<1>6. CASE Tick
  <2>1. /\ TInv'
        /\ \A t \in Active : left[t] > -MaxLate
        /\ left' = [t \in Timer |-> IF t \in Active THEN left[t] - 1 ELSE 0]
    BY <1>6, TickHolds
  <2>2. Active' = Active
    BY <1>6 DEF Tick, Active
  <2>3. D!Pass
    BY <1>6, <2>1, <2>2 DEF Tick, D!Pass
  <2> QED
    BY <2>1, <2>3 DEF D!Next
<1>7. CASE UNCHANGED vars
  BY <1>7 DEF vars, TInv, Types, Chain, Counting, Overdue, Waiting, Worst, Least,
              D!vars, Active
<1> QED
  BY <1>1, <1>2, <1>3, <1>4, <1>5, <1>6, <1>7 DEF Next, IRQ_timer

-----------------------------------------------------------------------------
(* The theorems.                                                           *)

\* The invariant holds in every reachable state.
LEMMA TimersInvariant == Spec => []TInv
BY InitTInv, StepTInv, PTL DEF Spec

\* The list that timer_set() walks holds a timer once and is sorted by
\* deadline, whatever is inserted, cancelled, fired and set again between.
THEOREM ListSorted == Spec => []Sorted
<1>1. TInv => Sorted
  <2> SUFFICES ASSUME TInv PROVE Sorted
    OBVIOUS
  <2>1. list \in Seq(Timer) /\ Len(list) \in Nat /\ DOMAIN list = 1..Len(list)
    BY LenProperties DEF TInv, Types
  <2>2. IsInjective(list)
    <3> SUFFICES ASSUME NEW i \in 1..Len(list), NEW j \in 1..Len(list), i # j
                 PROVE  list[i] # list[j]
      BY <2>1 DEF IsInjective
    <3>1. i < j \/ j < i
      BY <2>1
    <3> QED
      BY <3>1 DEF TInv, Chain
  <2>3. \A i \in 1..(Len(list) - 1) : left[list[i]] <= left[list[i + 1]]
    <3> TAKE i \in 1..(Len(list) - 1)
    <3>1. i \in 1..Len(list) /\ i + 1 \in 1..Len(list) /\ i < i + 1
      BY <2>1
    <3> QED
      BY <3>1 DEF TInv, Chain
  <2> QED
    BY <2>2, <2>3 DEF Sorted
<1> QED
  BY <1>1, TimersInvariant, PTL

\* Outside IRQ_timer() the deadline of the list's head is never forgotten:
\* its interrupt is pending or the counter overflows in time for it.
THEOREM HeadIsCovered == Spec => []HeadCovered
<1>1. TInv => HeadCovered
  <2> SUFFICES ASSUME TInv, pc = "main", list # <<>>, ~pend
               PROVE  hw > 0 /\ hw <= Max({left[Head(list)], 2 + Lag})
    BY DEF HeadCovered
  <2> DEFINE h == left[Head(list)]
  <2>1. /\ list \in Seq(Timer) /\ left \in [Timer -> Int] /\ hw \in Nat /\ Lag \in Nat
    BY HardwareAssumption, LeastIs DEF TInv, Types
  <2>2. Head(list) = list[1] /\ list[1] \in Timer
    BY <2>1, EmptySeq, ElementOfSeq
  <2>3. h \in Int /\ hw > 0 /\ (hw <= h \/ hw <= 2 + Lag)
    BY <2>1, <2>2 DEF TInv, Counting
  <2> HIDE DEF h
  <2>4. Max({h, 2 + Lag}) >= h /\ Max({h, 2 + Lag}) >= 2 + Lag
        /\ Max({h, 2 + Lag}) \in Int
    <3>1. \E m \in {h, 2 + Lag} : \A n \in {h, 2 + Lag} : m >= n
      BY <2>1, <2>3
    <3>2. Max({h, 2 + Lag}) \in {h, 2 + Lag}
          /\ \A n \in {h, 2 + Lag} : Max({h, 2 + Lag}) >= n
      BY <3>1 DEF Max
    <3> QED
      BY <2>1, <2>3, <3>2
  <2>5. hw > 0 /\ hw <= Max({h, 2 + Lag})
    BY <2>1, <2>3, <2>4
  <2> QED
    BY <2>5 DEF h
<1> QED
  BY <1>1, TimersInvariant, PTL

\* timer.c implements deadlines: a callback, which Deadlines tells from a set
\* and a cancel, only comes to the timer with the nearest deadline, at most
\* Slack ticks before it, and no deadline is left behind by more than MaxLate.
THEOREM DeadlinesKept == Spec => D!Safety
<1>1. Init => TInv /\ D!Init
  BY InitTInv
<1>2. TInv /\ [Next]_vars => TInv' /\ [D!Next]_(D!vars)
  BY StepTInv
<1> QED
  BY <1>1, <1>2, PTL DEF Spec, D!Safety
=============================================================================
