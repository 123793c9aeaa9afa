--------------------------- MODULE IndexPulseProofs ---------------------------
(***************************************************************************)
(* What IndexPulse promises for any disk, any latencies and any periods    *)
(* that keep to its assumptions: the age of the last index pulse is true   *)
(* or long, it never overflows, and only the right hole counts.            *)
(***************************************************************************)
EXTENDS IndexPulse, WellFoundedInduction, TLAPS

-----------------------------------------------------------------------------
(* The holes of the disk.                                                  *)

Follows(h) == (h + Spacing(h)) % Rev

\* A set of numbers has a least one.
LEMMA Least ==
  ASSUME NEW T, T \subseteq Nat, T # {}
  PROVE  \E x \in T : \A y \in T : x <= y
<1>1. PICK x \in T : \A y \in T : ~(<<y, x>> \in OpToRel(<, Nat))
  BY NatLessThanWellFounded, WFMin
<1>2. ASSUME NEW y \in T PROVE x <= y
  <2>1. x \in Nat /\ y \in Nat
    OBVIOUS
  <2>2. ~(y < x)
    BY <1>1, <2>1 DEF OpToRel
  <2>3. QED
    BY <2>1, <2>2
<1>3. QED
  BY <1>2

\* The constants are numbers.
LEMMA Sizes ==
  /\ Rev \in Nat /\ Rev > 0 /\ Latency \in Nat /\ Mask \in Nat /\ Thresh \in Nat
  /\ IndexPeriod \in Nat /\ IndexLate \in Nat /\ MaxRun \in Nat /\ Wrap \in Nat /\ StartUp \in Nat
  /\ Mask < IndexPeriod /\ Thresh < IndexPeriod /\ StartUp < Wrap
  /\ 2 * IndexPeriod + IndexLate + MaxRun < Wrap
  /\ Holes \subseteq 0..(Rev - 1) /\ IndexHole \in Holes
BY DiskAssumption DEF Holes

\* Going round from a place of the disk.
LEMMA Around ==
  ASSUME NEW h \in 0..(Rev - 1), NEW m \in 0..Rev
  PROVE  /\ (h + m) % Rev = IF h + m < Rev THEN h + m ELSE h + m - Rev
         /\ (h + m) % Rev \in 0..(Rev - 1)
<1>1. Rev \in Nat /\ Rev > 0
  BY Sizes
<1>2. CASE h + m < Rev
  BY <1>1, <1>2
<1>3. CASE h + m >= Rev
  <2>1. h + m - Rev \in 0..(Rev - 1) /\ h + m = 1 * Rev + (h + m - Rev)
    BY <1>1, <1>3
  <2>2. QED
    BY <1>1, <1>3, <2>1
<1>4. QED
  BY <1>1, <1>2, <1>3

\* One more tick of the disk.
LEMMA Onwards ==
  ASSUME NEW h \in 0..(Rev - 1), NEW m \in 0..(Rev - 1)
  PROVE  (((h + m) % Rev) + 1) % Rev = (h + (m + 1)) % Rev
<1>1. Rev \in Nat /\ Rev > 0
  BY Sizes
<1>2. /\ (h + m) % Rev = IF h + m < Rev THEN h + m ELSE h + m - Rev
      /\ (h + m) % Rev \in 0..(Rev - 1)
  BY <1>1, Around
<1>3. (h + (m + 1)) % Rev = IF h + (m + 1) < Rev THEN h + (m + 1) ELSE h + (m + 1) - Rev
  BY <1>1, Around
<1>4. ASSUME NEW p \in 0..(Rev - 1)
      PROVE  (p + 1) % Rev = IF p + 1 < Rev THEN p + 1 ELSE p + 1 - Rev
  BY <1>1, Around
<1>5. QED
  BY <1>1, <1>2, <1>3, <1>4

\* What Spacing() is: the first hole met after another one.
LEMMA SpacingIs ==
  ASSUME NEW h \in Holes
  PROVE  /\ Spacing(h) \in 1..Rev
         /\ Follows(h) \in Holes
         /\ \A e \in 1..(Spacing(h) - 1) : (h + e) % Rev \notin Holes
<1> DEFINE T == {d \in 1..Rev : (h + d) % Rev \in Holes}
<1>1. Rev \in Nat /\ Rev > 0 /\ h \in 0..(Rev - 1)
  BY Sizes
<1>2. (h + Rev) % Rev = h
  BY <1>1, Around
<1>3. T \subseteq Nat /\ Rev \in T
  BY <1>1, <1>2
<1>4. PICK x \in T : \A y \in T : x <= y
  <2> HIDE DEF T
  <2>1. QED
    BY <1>3, Least
<1>5. \E d \in 1..Rev : /\ (h + d) % Rev \in Holes
                        /\ \A e \in 1..(d - 1) : (h + e) % Rev \notin Holes
  <2>1. ASSUME NEW e \in 1..(x - 1) PROVE (h + e) % Rev \notin Holes
    <3>1. e \in 1..Rev /\ ~(x <= e)
      BY <1>1
    <3>2. e \notin T
      <4> HIDE DEF T
      <4>1. QED
        BY <1>4, <3>1
    <3>3. QED
      BY <3>1, <3>2
  <2>2. QED
    BY <1>4, <2>1
<1>6. QED
  BY <1>5 DEF Spacing, Follows

\* The hole after the first sector is not the index hole.
First == Follows(IndexHole)

\* On a disk with two sectors or more it is not followed by the index hole.
LEMMA FirstIs ==
  /\ First \in Holes
  /\ First # IndexHole /\ Follows(First) # IndexHole
<1> DEFINE i == IndexHole
           d == Spacing(i)
           f == (i + d) % Rev
           e == Spacing(f)
<1>1. /\ Rev \in Nat /\ Rev > 0 /\ i \in 0..(Rev - 1) /\ i \in Holes
      /\ Holes \subseteq 0..(Rev - 1)
  BY Sizes
<1>2. /\ d \in 1..Rev /\ f \in Holes
      /\ \A k \in 1..(d - 1) : (i + k) % Rev \notin Holes
  BY <1>1, SpacingIs DEF Follows
<1>3. /\ e \in 1..Rev /\ (f + e) % Rev \in Holes
      /\ \A k \in 1..(e - 1) : (f + k) % Rev \notin Holes
  BY <1>2, SpacingIs DEF Follows
<1>4. First = f /\ Follows(First) = (f + e) % Rev
  BY DEF First, Follows
<1> HIDE DEF i, d, e
<1>5. f = IF i + d < Rev THEN i + d ELSE i + d - Rev
  BY <1>1, <1>2, Around
<1>6. PICK s \in Sectors, t \in Sectors : s # t
  BY DiskAssumption
<1>7. s \in Holes \ {i} /\ t \in Holes \ {i}
  BY <1>6, DiskAssumption DEF Holes, i
\* A hole that is not the index hole is met in going round from it.
<1>8. ASSUME NEW u \in Holes \ {i}
      PROVE  \E k \in 1..(Rev - 1) : (i + k) % Rev = u /\ k >= d
  <2> DEFINE k == IF u > i THEN u - i ELSE u - i + Rev
  <2>1. k \in 1..(Rev - 1) /\ u \in 0..(Rev - 1)
    BY <1>1
  <2>2. (i + k) % Rev = IF i + k < Rev THEN i + k ELSE i + k - Rev
    BY <1>1, <2>1, Around
  <2>3. (i + k) % Rev = u
    BY <1>1, <2>1, <2>2
  <2>4. k >= d
    <3>1. k \notin 1..(d - 1)
      <4> HIDE DEF k
      <4>1. QED
        BY <1>2, <2>3
    <3>2. QED
      BY <1>2, <2>1, <3>1
  <2>5. QED
    BY <2>1, <2>3, <2>4
<1>9. d < Rev
  BY <1>1, <1>2, <1>7, <1>8
<1>10. f # i
  BY <1>1, <1>2, <1>5, <1>9
<1>11. PICK u \in Holes \ {i} : u # f
  BY <1>6, <1>7
<1>12. PICK k \in 1..(Rev - 1) : (i + k) % Rev = u /\ k >= d
  BY <1>8
<1>13. k > d
  BY <1>2, <1>11, <1>12
<1>14. (f + (k - d)) % Rev = u
  <2> HIDE DEF f
  <2>1. k - d \in 1..(Rev - 1) /\ f \in 0..(Rev - 1)
    BY <1>1, <1>2, <1>12, <1>13
  <2>2. (f + (k - d)) % Rev = IF f + (k - d) < Rev THEN f + (k - d) ELSE f + (k - d) - Rev
    BY <1>1, <2>1, Around
  <2>3. u = IF i + k < Rev THEN i + k ELSE i + k - Rev
    BY <1>1, <1>12, Around
  <2>4. QED
    BY <1>1, <1>2, <1>5, <1>12, <2>1, <2>2, <2>3
<1>15. e <= k - d
  <2>1. k - d \notin 1..(e - 1)
    <3> HIDE DEF f
    <3>1. QED
      BY <1>3, <1>14
  <2>2. QED
    BY <1>1, <1>2, <1>3, <1>12, <1>13, <2>1
<1>16. (f + e) % Rev # i
  <2> HIDE DEF f
  <2>1. (f + e) % Rev = IF f + e < Rev THEN f + e ELSE f + e - Rev
    BY <1>1, <1>2, <1>3, Around
  <2>2. QED
    BY <1>1, <1>2, <1>3, <1>5, <1>9, <1>12, <1>15, <2>1
<1>17. QED
  BY <1>2, <1>4, <1>10, <1>16 DEF i

-----------------------------------------------------------------------------
(* The invariant.                                                          *)

Types ==
  /\ phase \in 0..(Rev - 1) /\ edge \in (-1)..(Rev - 1) /\ wait \in 0..Latency
  /\ age \in Int /\ real \in (-1)..Wrap /\ wake \in Int /\ then \in 0..MaxRun
  /\ level \in {"main", "timer", "set"} /\ thresh \in {0, Thresh} /\ trigger \in {0, 1}

\* The deadline of index.timer bounds the age that it keeps young.
Young ==
  /\ age + wake <= 2 * IndexPeriod /\ wake <= IndexPeriod
  /\ wake >= -IndexLate - then /\ (level # "timer" => then = 0)
  /\ age >= IF real = -1 THEN -StartUp ELSE 0

\* A pending interrupt comes from a hole just passed, or from a bounce that
\* will be masked.
Pulse == edge \in Holes /\ \E m \in 0..wait : phase = (edge + m) % Rev
Bouncing == real # -1 /\ real + Latency < Mask + wait
Edges == IF edge = -1 THEN wait = 0 ELSE Pulse \/ Bouncing

\* h is the hole that triggered last: the disk is not at the next one yet, or
\* the next one's interrupt is pending.
Before(h) ==
  /\ edge = -1 \/ Bouncing
  /\ \E m \in 0..(Spacing(h) - 1) : phase = (h + m) % Rev /\ m <= real + Latency
Reached(h) ==
  /\ edge = Follows(h)
  /\ \E m \in 0..wait : phase = (edge + m) % Rev /\ Spacing(h) + m <= real + Latency
Primed == thresh # 0 /\ trigger = 1

\* While a gap is not yet long, the hole before it is known; a primed trigger
\* has seen the index hole, or the hole after it.
Placed ==
  real \in 0..Thresh =>
    \E h \in Holes : /\ Before(h) \/ Reached(h)
                     /\ Primed => h \in {IndexHole, First}

\* Detection begins unprimed, and never with a gap that is taken for short.
Fresh == /\ thresh # 0 /\ real = -1 => age > Thresh
         /\ level # "set" /\ thresh = 0 => trigger = 0

IInv == Types /\ Young /\ AgeTrue /\ Edges /\ Placed /\ Fresh /\ HardIndexTrue

\* At the start the disk is at rest, and nothing has triggered.
LEMMA InitInv == IndexInit => IInv
<1> SUFFICES ASSUME IndexInit PROVE IInv
  OBVIOUS
<1>1. Types
  BY Sizes DEF IndexInit, Types
<1>2. Young /\ AgeTrue /\ Edges /\ Placed /\ Fresh /\ HardIndexTrue
  BY Sizes DEF IndexInit, Young, AgeTrue, Edges, Placed, Fresh, HardIndexTrue
<1>3. QED
  BY <1>1, <1>2 DEF IInv

\* While it is short the age is the true one.
LEMMA TrueAge ==
  ASSUME Types, AgeTrue, real # -1, real < IndexPeriod
  PROVE  age = real
BY Sizes DEF Types, AgeTrue

\* A hole is far from the next one.
LEMMA FarApart ==
  ASSUME NEW h \in Holes
  PROVE  /\ Spacing(h) \in Nat /\ Spacing(h) > Mask + Latency /\ Spacing(h) <= Rev
         /\ Spacing(h) - Latency <= Thresh => IndexHole \in {h, Follows(h)}
<1>1. /\ Spacing(h) > Mask + Latency
      /\ IndexHole \notin {h, Follows(h)} => Spacing(h) - Latency > Thresh
  BY DiskAssumption DEF Follows
<1>2. Spacing(h) \in Nat /\ Spacing(h) <= Rev
  BY SpacingIs, Sizes
<1>3. QED
  BY <1>1, <1>2, Sizes

-----------------------------------------------------------------------------
(* The interrupt.                                                          *)

\* An interrupt that is not masked is a hole's.
LEMMA PulseHandled ==
  ASSUME IInv, edge # -1, ~(age < Mask)
  PROVE  Pulse
<1>1. Types /\ AgeTrue /\ Edges
  BY DEF IInv
<1>2. ASSUME Bouncing PROVE FALSE
  <2>1. real # -1 /\ real < Mask
    BY <1>1, <1>2, Sizes DEF Bouncing, Types
  <2>2. real < IndexPeriod
    BY <1>1, <2>1, Sizes DEF Types
  <2>3. QED
    BY <1>1, <2>1, <2>2, TrueAge
<1>3. QED
  BY <1>1, <1>2 DEF Edges

\* A short gap that ends at a hole has the index hole at one of its ends.
LEMMA ShortGap ==
  ASSUME IInv, edge # -1, ~(age < Mask), age <= Thresh, real # -1
  PROVE  /\ real \in 0..Thresh
         /\ \E h \in Holes : /\ edge = Follows(h) /\ IndexHole \in {h, edge}
                             /\ Primed => h \in {IndexHole, First}
<1>1. Types /\ AgeTrue /\ Placed
  BY DEF IInv
<1>2. real \in 0..Thresh /\ age = real
  BY <1>1, Sizes DEF Types, AgeTrue
<1>3. PICK h \in Holes : /\ Before(h) \/ Reached(h)
                         /\ Primed => h \in {IndexHole, First}
  BY <1>1, <1>2 DEF Placed
<1>4. ~Before(h)
  <2>1. ASSUME Bouncing PROVE FALSE
    BY <1>1, <1>2, <2>1, Sizes DEF Bouncing, Types
  <2>2. QED
    BY <2>1 DEF Before
<1>5. edge = Follows(h) /\ Spacing(h) - Latency <= Thresh
  <2>1. PICK m \in 0..wait : Spacing(h) + m <= real + Latency
    BY <1>3, <1>4 DEF Reached
  <2>2. QED
    BY <1>1, <1>2, <1>3, <1>4, <2>1, FarApart, Sizes DEF Reached, Types
<1>6. QED
  BY <1>2, <1>3, <1>5, FarApart

\* After a hole has triggered, it is the hole known.
LEMMA PlacedByTrigger ==
  ASSUME IInv, Pulse, edge # -1, edge' = -1, real' = 0, phase' = phase,
         Primed' => edge \in {IndexHole, First}
  PROVE  Placed'
<1>1. PICK h \in Holes : h = edge
  BY DEF Pulse
<1>2. PICK m \in 0..wait : phase = (h + m) % Rev
  BY <1>1 DEF Pulse
<1>3. wait \in 0..Latency
  BY DEF IInv, Types
<1>4. m \in 0..(Spacing(h) - 1) /\ m <= 0 + Latency
  BY <1>3, FarApart, Sizes
<1>5. Before(h)'
  BY <1>2, <1>4 DEF Before
<1>6. Primed' => h \in {IndexHole, First}
  BY <1>1
<1>7. QED
  BY <1>5, <1>6 DEF Placed

\* The index interrupt: masked, the first after a long gap, or one of two.
LEMMA IrqInv ==
  ASSUME IInv, IRQ_INDEX_changed
  PROVE  IInv'
<1>1. /\ edge # -1 /\ edge' = -1 /\ wait' = 0
      /\ UNCHANGED <<phase, spin, wake, level, then, thresh>>
  BY DEF IRQ_INDEX_changed
<1>2. Types /\ Young /\ AgeTrue /\ Edges /\ Placed /\ Fresh /\ HardIndexTrue
  BY DEF IInv
<1>3. CASE age < Mask
  <2>1. UNCHANGED <<age, real, trigger, counted>>
    BY <1>3 DEF IRQ_INDEX_changed
  <2>2. Types' /\ Young' /\ AgeTrue' /\ Edges' /\ Fresh' /\ HardIndexTrue'
    BY <1>1, <1>2, <2>1, Sizes
       DEF Types, Young, AgeTrue, Edges, Fresh, HardIndexTrue
  <2>3. Placed'
    <3> SUFFICES ASSUME real \in 0..Thresh
                 PROVE  \E h \in Holes : Before(h)' /\ (Primed => h \in {IndexHole, First})
      BY <1>1, <2>1 DEF Placed, Primed
    <3>1. PICK h \in Holes : /\ Before(h) \/ Reached(h)
                             /\ Primed => h \in {IndexHole, First}
      BY <1>2 DEF Placed
    <3>2. age = real
      BY <1>2, TrueAge, Sizes DEF Types
    <3>3. ~Reached(h)
      <4>1. ASSUME NEW m \in 0..wait, Spacing(h) + m <= real + Latency PROVE FALSE
        BY <1>2, <1>3, <3>2, <4>1, FarApart, Sizes DEF Types
      <4>2. QED
        BY <4>1 DEF Reached
    <3>4. Before(h)'
      BY <1>1, <2>1, <3>1, <3>3 DEF Before
    <3>5. QED
      BY <3>1, <3>4
  <2>4. QED
    BY <2>2, <2>3 DEF IInv
<1>4. CASE ~(age < Mask)
  <2>1. Trigger /\ age' = 0 /\ real' = 0
    BY <1>4 DEF IRQ_INDEX_changed, Trigger
  <2>2. Pulse
    BY <1>1, <1>4, PulseHandled
  <2>3. /\ trigger' \in {0, 1}
        /\ level # "set" /\ thresh = 0 => trigger' = 0
        /\ Primed' => edge \in {IndexHole, First}
        /\ counted' # -1 => counted' = First
    <3>0. counted # -1 => counted = First
      BY <1>2 DEF HardIndexTrue, First, Follows
    <3>1. CASE thresh = 0
      BY <1>1, <1>2, <2>1, <3>0, <3>1 DEF Trigger, Types, Fresh, Primed
    <3>2. CASE thresh # 0 /\ age > thresh
      BY <1>1, <2>1, <3>0, <3>2 DEF Trigger, Primed
    <3>3. CASE thresh # 0 /\ ~(age > thresh)
      <4>1. thresh = Thresh /\ age <= Thresh /\ real # -1
        BY <1>2, <3>3, Sizes DEF Types, Fresh
      <4>2. PICK h \in Holes : /\ edge = Follows(h) /\ IndexHole \in {h, edge}
                               /\ Primed => h \in {IndexHole, First}
        BY <1>1, <1>4, <4>1, ShortGap
      <4>3. edge \in {IndexHole, First}
        BY <4>2 DEF First
      <4>4. /\ trigger' = 1 - trigger
            /\ counted' = IF trigger' = 1 THEN counted ELSE edge
        BY <2>1, <3>3 DEF Trigger
      <4>5. trigger = 1 => edge = First
        BY <3>3, <4>2, FirstIs DEF Primed, First
      <4>6. QED
        BY <1>2, <3>0, <3>3, <4>3, <4>4, <4>5 DEF Types
    <3>4. QED
      BY <3>1, <3>2, <3>3
  <2>4. Types'
    BY <1>1, <1>2, <2>1, <2>3, Sizes DEF Types
  <2>5. Young' /\ AgeTrue' /\ Edges' /\ Fresh'
    BY <1>1, <1>2, <2>1, <2>3, Sizes DEF Types, Young, AgeTrue, Edges, Fresh
  <2>6. Placed'
    BY <1>1, <2>1, <2>2, <2>3, PlacedByTrigger
  <2>7. HardIndexTrue'
    BY <2>3 DEF HardIndexTrue, First, Follows
  <2>8. QED
    BY <2>4, <2>5, <2>6, <2>7 DEF IInv
<1>5. QED
  BY <1>3, <1>4

-----------------------------------------------------------------------------
(* The other steps.                                                        *)

\* Where the disk is stays known while nothing moves.
LEMMA PlacedStays ==
  ASSUME Placed, UNCHANGED <<phase, edge, wait, real>>, Primed' => Primed
  PROVE  Placed'
<1> SUFFICES ASSUME real \in 0..Thresh
             PROVE  \E h \in Holes : /\ Before(h)' \/ Reached(h)'
                                     /\ Primed' => h \in {IndexHole, First}
  BY DEF Placed
<1>1. PICK h \in Holes : /\ Before(h) \/ Reached(h)
                         /\ Primed => h \in {IndexHole, First}
  BY DEF Placed
<1>2. Before(h)' \/ Reached(h)'
  BY <1>1 DEF Before, Reached, Bouncing
<1>3. QED
  BY <1>1, <1>2

\* Main level and the timer callback.
LEMMA QuietInv ==
  ASSUME IInv,
         \/ index_timer \/ Refresh \/ Unprime \/ Motor
         \/ \E ticks \in {0, Thresh} : index_set_hard_sector_detection(ticks)
         \/ UNCHANGED indexVars
  PROVE  IInv'
<1>1. Types /\ Young /\ AgeTrue /\ Edges /\ Placed /\ Fresh /\ HardIndexTrue
  BY DEF IInv
<1>2. UNCHANGED <<phase, edge, wait, real>>
  BY DEF index_timer, Refresh, Unprime, Motor, index_set_hard_sector_detection, indexVars
<1>3. Edges'
  BY <1>1, <1>2 DEF Edges, Pulse, Bouncing
<1>4. Primed' => Primed
  BY <1>1 DEF index_timer, Refresh, Unprime, Motor, index_set_hard_sector_detection,
              indexVars, Primed, Fresh, Types
<1>5. Placed'
  BY <1>1, <1>2, <1>4, PlacedStays
<1>6. CASE Refresh
  <2>1. Types' /\ Young' /\ AgeTrue' /\ Fresh' /\ HardIndexTrue'
    BY <1>1, <1>6, DiskAssumption, Sizes
       DEF Refresh, Types, Young, AgeTrue, Fresh, HardIndexTrue
  <2>2. QED
    BY <1>3, <1>5, <2>1 DEF IInv
<1>7. CASE \E ticks \in {0, Thresh} : index_set_hard_sector_detection(ticks)
  <2>1. Types' /\ Young' /\ AgeTrue' /\ Fresh' /\ HardIndexTrue'
    BY <1>1, <1>7, Sizes
       DEF index_set_hard_sector_detection, Types, Young, AgeTrue, Fresh, HardIndexTrue
  <2>2. QED
    BY <1>3, <1>5, <2>1 DEF IInv
<1>8. CASE index_timer \/ Unprime \/ Motor \/ UNCHANGED indexVars
  <2>1. Types' /\ Young' /\ AgeTrue' /\ Fresh' /\ HardIndexTrue'
    BY <1>1, <1>8, Sizes
       DEF index_timer, Unprime, Motor, indexVars, Types, Young, AgeTrue, Fresh, HardIndexTrue
  <2>2. QED
    BY <1>3, <1>5, <2>1 DEF IInv
<1>9. QED
  BY <1>6, <1>7, <1>8

\* The signal bounces.
LEMMA BounceInv ==
  ASSUME IInv, Bounce
  PROVE  IInv'
<1>1. /\ edge = -1 /\ real # -1 /\ real + Latency < Mask /\ edge' = phase
      /\ UNCHANGED <<phase, spin, wait, age, real, wake, level, then, thresh, trigger, counted>>
  BY DEF Bounce
<1>2. Types /\ Young /\ AgeTrue /\ Edges /\ Placed /\ Fresh /\ HardIndexTrue
  BY DEF IInv
<1>3. Types' /\ Young' /\ AgeTrue' /\ Fresh' /\ HardIndexTrue'
  BY <1>1, <1>2, Sizes DEF Types, Young, AgeTrue, Fresh, HardIndexTrue
<1>4. Bouncing'
  BY <1>1, <1>2, Sizes DEF Bouncing, Edges, Types
<1>5. Edges'
  BY <1>1, <1>2, <1>4, Sizes DEF Edges, Types
<1>6. Placed'
  <2> SUFFICES ASSUME real \in 0..Thresh
               PROVE  \E h \in Holes : Before(h)' /\ (Primed => h \in {IndexHole, First})
    BY <1>1 DEF Placed, Primed
  <2>1. PICK h \in Holes : /\ Before(h) \/ Reached(h)
                           /\ Primed => h \in {IndexHole, First}
    BY <1>2 DEF Placed
  <2>2. ~Reached(h)
    BY <1>1, SpacingIs, Sizes DEF Reached
  <2>3. Before(h)'
    BY <1>1, <1>4, <2>1, <2>2 DEF Before
  <2>4. QED
    BY <2>1, <2>3
<1>7. QED
  BY <1>3, <1>5, <1>6 DEF IInv

-----------------------------------------------------------------------------
(* Time.                                                                   *)

\* The counter never wraps from trigger_time to now: the age is small enough.
LEMMA AgeBounded ==
  ASSUME IInv
  PROVE  TriggerAgeBounded /\ age < Wrap
<1>1. age <= 2 * IndexPeriod + IndexLate + MaxRun
  BY Sizes DEF IInv, Types, Young
<1>2. age >= IF real = -1 THEN -StartUp ELSE 0
  BY DEF IInv, Young
<1>3. QED
  BY <1>1, <1>2, Sizes DEF IInv, Types, TriggerAgeBounded

\* What a tick does to the numbers.
LEMMA TickTimes ==
  ASSUME IInv, Turn
  PROVE  /\ Types' /\ Young' /\ AgeTrue' /\ Fresh' /\ HardIndexTrue'
         /\ edge # -1 => wait < Latency
         /\ wait' = IF edge = -1 THEN 0 ELSE wait + 1
         /\ real' = IF real \in {-1, Wrap} THEN real ELSE real + 1
         /\ UNCHANGED <<thresh, trigger>>
<1>1. Types /\ Young /\ AgeTrue /\ Fresh /\ HardIndexTrue
  BY DEF IInv
<1>2. /\ edge # -1 => wait < Latency
      /\ level = "main" => wake > -IndexLate
      /\ level = "timer" => then < MaxRun
      /\ level # "set"
      /\ wait' = IF edge = -1 THEN 0 ELSE wait + 1
      /\ real' = IF real \in {-1, Wrap} THEN real ELSE real + 1
      /\ wake' = wake - 1
      /\ then' = IF level = "timer" THEN then + 1 ELSE 0
      /\ UNCHANGED <<level, thresh, trigger, counted>>
  BY DEF Turn
<1>3. age' = age + 1
  <2>1. age # Wrap - 1
    BY <1>1, <1>2, Sizes DEF Types, Young
  <2>2. QED
    BY <2>1 DEF Turn, Older
<1>4. /\ phase' \in 0..(Rev - 1) /\ edge' \in (-1)..(Rev - 1)
  <2>1. (phase + 1) % Rev \in 0..(Rev - 1)
    BY <1>1, Sizes DEF Types
  <2>2. QED
    BY <1>1, <2>1 DEF Turn, Types
<1>5. Types'
  BY <1>1, <1>2, <1>3, <1>4, Sizes DEF Types
<1>6. Young'
  BY <1>1, <1>2, <1>3, Sizes DEF Types, Young
<1>7. AgeTrue'
  BY <1>1, <1>2, <1>3, AgeBounded, Sizes DEF Types, Young, AgeTrue
<1>8. Fresh' /\ HardIndexTrue'
  BY <1>1, <1>2, <1>3, Sizes DEF Types, Fresh, HardIndexTrue
<1>9. QED
  BY <1>2, <1>5, <1>6, <1>7, <1>8

\* A hole is passed on the disk that turns only when the one before it has been
\* handled; its interrupt is then pending.
LEMMA Turns ==
  ASSUME IInv, Turn, NEW h \in Holes, NEW m \in 0..(Spacing(h) - 1), phase = (h + m) % Rev
  PROVE  \/ phase' = phase /\ edge' = edge
         \/ /\ m + 1 < Spacing(h) /\ edge' = edge /\ phase' = (h + (m + 1)) % Rev
         \/ /\ m + 1 = Spacing(h) /\ edge' = phase' /\ edge' = Follows(h)
<1>1. /\ Spacing(h) \in 1..Rev /\ Follows(h) \in Holes
      /\ \A e \in 1..(Spacing(h) - 1) : (h + e) % Rev \notin Holes
      /\ Rev \in Nat /\ h \in 0..(Rev - 1)
  BY SpacingIs, Sizes
<1>2. (phase + 1) % Rev = (h + (m + 1)) % Rev
  BY <1>1, Onwards
<1>3. CASE ~spin
  BY <1>3 DEF Turn
<1>4. CASE spin
  <2>1. /\ phase' = (h + (m + 1)) % Rev
        /\ edge' = IF (h + (m + 1)) % Rev \in Holes THEN (h + (m + 1)) % Rev ELSE edge
    BY <1>2, <1>4 DEF Turn
  <2>2. CASE m + 1 < Spacing(h)
    <3>1. m + 1 \in 1..(Spacing(h) - 1)
      BY <1>1, <2>2
    <3>2. QED
      BY <1>1, <2>1, <2>2, <3>1
  <2>3. CASE m + 1 = Spacing(h)
    BY <1>1, <2>1, <2>3 DEF Follows
  <2>4. QED
    BY <1>1, <2>2, <2>3
<1>5. QED
  BY <1>3, <1>4

\* The disk turns on under a pending interrupt, or reaches the next hole.
LEMMA TickEdges ==
  ASSUME IInv, Turn
  PROVE  Edges'
<1>1. /\ Types /\ Edges /\ Types'
      /\ edge # -1 => wait < Latency
      /\ wait' = IF edge = -1 THEN 0 ELSE wait + 1
      /\ real' = IF real \in {-1, Wrap} THEN real ELSE real + 1
  BY TickTimes DEF IInv
<1>2. \/ UNCHANGED <<phase, edge>>
      \/ phase' = (phase + 1) % Rev /\ edge' = phase' /\ phase' \in Holes
      \/ phase' = (phase + 1) % Rev /\ edge' = edge /\ phase' \notin Holes
  BY DEF Turn
<1>3. CASE edge' = phase' /\ phase' \in Holes
  <2>1. phase' \in 0..(Rev - 1) /\ wait' \in 0..Latency
    BY <1>1 DEF Types
  <2>2. ASSUME NEW p \in 0..(Rev - 1) PROVE (p + 0) % Rev = p
    BY Around, Sizes
  <2>3. phase' = (edge' + 0) % Rev
    BY <1>3, <2>1, <2>2, Zenon
  <2>4. 0 \in 0..wait'
    BY <2>1, Sizes
  <2>5. Pulse'
    BY <1>3, <2>3, <2>4 DEF Pulse
  <2>6. QED
    BY <1>3, <2>1, <2>5, Sizes DEF Edges
<1>4. CASE edge' = edge /\ edge = -1
  BY <1>1, <1>4 DEF Edges
<1>5. CASE edge' = edge /\ edge # -1 /\ Bouncing
  BY <1>1, <1>5, Sizes DEF Edges, Bouncing, Types
<1>6. CASE edge' = edge /\ edge # -1 /\ Pulse
  <2>1. PICK h \in Holes, m \in 0..wait : edge = h /\ phase = (h + m) % Rev
    BY <1>6 DEF Pulse
  <2>2. m \in 0..(Spacing(h) - 1) /\ m + 1 < Spacing(h) /\ m \in 0..wait' /\ m + 1 \in 0..wait'
    BY <1>1, <1>6, <2>1, FarApart, Sizes DEF Types
  <2>3. phase' = (h + m) % Rev \/ phase' = (h + (m + 1)) % Rev
    BY <2>1, <2>2, Turns
  <2>4. Pulse'
    BY <1>6, <2>1, <2>2, <2>3 DEF Pulse
  <2>5. QED
    BY <1>6, <2>4 DEF Edges
<1>7. QED
  BY <1>1, <1>2, <1>3, <1>4, <1>5, <1>6 DEF Edges

\* Where the disk is stays known as it turns.
LEMMA TickPlaced ==
  ASSUME IInv, Turn
  PROVE  Placed'
<1>1. /\ Types /\ Edges /\ Placed
      /\ edge # -1 => wait < Latency
      /\ wait' = IF edge = -1 THEN 0 ELSE wait + 1
      /\ real' = IF real \in {-1, Wrap} THEN real ELSE real + 1
      /\ UNCHANGED <<thresh, trigger>>
  BY TickTimes DEF IInv
<1> SUFFICES ASSUME real' \in 0..Thresh
             PROVE  \E h \in Holes : /\ Before(h)' \/ Reached(h)'
                                     /\ Primed' => h \in {IndexHole, First}
  BY DEF Placed
<1>2. real \in 0..Thresh /\ real' = real + 1
  BY <1>1, Sizes DEF Types
<1>3. PICK h \in Holes : /\ Before(h) \/ Reached(h)
                         /\ Primed => h \in {IndexHole, First}
  BY <1>1, <1>2 DEF Placed
<1>4. Bouncing => Bouncing' \/ edge = -1
  BY <1>1, <1>2, Sizes DEF Bouncing, Types
<1>5. CASE Before(h)
  <2>1. PICK m \in 0..(Spacing(h) - 1) : phase = (h + m) % Rev /\ m <= real + Latency
    BY <1>5 DEF Before
  <2>2. CASE phase' = phase /\ edge' = edge
    <3>1. m <= real' + Latency
      BY <1>1, <1>2, <2>1, FarApart, Sizes DEF Types
    <3>2. Before(h)'
      BY <1>4, <1>5, <2>1, <2>2, <3>1 DEF Before
    <3>3. QED
      BY <1>1, <1>3, <3>2 DEF Primed
  <2>3. CASE /\ m + 1 < Spacing(h) /\ edge' = edge
             /\ phase' = (h + (m + 1)) % Rev
    <3>1. m + 1 <= real' + Latency /\ m + 1 \in 0..(Spacing(h) - 1)
      BY <1>1, <1>2, <2>1, <2>3, FarApart, Sizes DEF Types
    <3>2. Before(h)'
      BY <1>4, <1>5, <2>3, <3>1 DEF Before
    <3>3. QED
      BY <1>1, <1>3, <3>2 DEF Primed
  <2>4. CASE /\ m + 1 = Spacing(h) /\ edge' = phase' /\ edge' = Follows(h)
    <3>1. Spacing(h) + 0 <= real' + Latency
      BY <1>1, <1>2, <2>1, <2>4, FarApart, Sizes DEF Types
    <3>2. 0 \in 0..wait' /\ phase' = (edge' + 0) % Rev
      <4>1. Follows(h) \in 0..(Rev - 1)
        BY SpacingIs, Sizes
      <4>2. phase' = (edge' + 0) % Rev
        BY <2>4, <4>1, Around, Sizes
      <4>3. QED
        BY <1>1, <4>2, Sizes DEF Types
    <3>3. Reached(h)'
      BY <2>4, <3>1, <3>2 DEF Reached
    <3>4. QED
      BY <1>1, <1>3, <3>3 DEF Primed
  <2>5. QED
    BY <2>1, <2>2, <2>3, <2>4, Turns
<1>6. CASE Reached(h)
  <2>1. PICK m \in 0..wait : /\ phase = (edge + m) % Rev
                             /\ Spacing(h) + m <= real + Latency
    BY <1>6 DEF Reached
  <2>2. PICK g \in Holes : g = edge /\ g = Follows(h)
    BY <1>6, SpacingIs DEF Reached
  <2>3. edge # -1
    BY <2>2, Sizes
  <2>4. /\ m \in 0..(Spacing(g) - 1) /\ m + 1 < Spacing(g)
        /\ m \in 0..wait' /\ m + 1 \in 0..wait'
        /\ Spacing(h) + m <= real' + Latency /\ Spacing(h) + (m + 1) <= real' + Latency
    BY <1>1, <1>2, <2>1, <2>3, FarApart, Sizes DEF Types
  <2>5. edge' = g /\ (phase' = (g + m) % Rev \/ phase' = (g + (m + 1)) % Rev)
    BY <2>1, <2>2, <2>4, Turns
  <2>6. Reached(h)'
    BY <2>2, <2>4, <2>5 DEF Reached
  <2>7. QED
    BY <1>1, <1>3, <2>6 DEF Primed
<1>7. QED
  BY <1>3, <1>5, <1>6

-----------------------------------------------------------------------------
(* The theorems.                                                           *)

\* The invariant is inductive.
LEMMA NextInv == IInv /\ [IndexNext]_indexVars => IInv'
<1> SUFFICES ASSUME IInv, [IndexNext]_indexVars PROVE IInv'
  OBVIOUS
<1>1. CASE Turn
  BY <1>1, TickTimes, TickEdges, TickPlaced DEF IInv
<1>2. QED
  BY <1>1, IrqInv, BounceInv, QuietInv DEF IndexNext

\* The invariant holds on every disk.
LEMMA Invariance == IndexSpec => []IInv
<1>1. QED
  BY InitInv, NextInv, PTL DEF IndexSpec

\* "At all times" the 32-bit difference of the index time to now is far from its
\* overflow, however long the disk stands still and wherever the interrupt falls.
THEOREM AgeNeverOverflows == IndexSpec => []TriggerAgeBounded
<1>1. IInv => TriggerAgeBounded
  BY AgeBounded
<1>2. QED
  BY Invariance, <1>1, PTL

\* The age that the mask and the hard-sector filter compare is the true one, or
\* both are longer than any of their limits.
THEOREM AgesTrue == IndexSpec => []AgeTrue
<1>1. IInv => AgeTrue
  BY DEF IInv
<1>2. QED
  BY Invariance, <1>1, PTL

\* On every hard-sectored disk with two sectors or more, only the first sector
\* hole after the index hole counts as the index.
THEOREM IndexFound == IndexSpec => []HardIndexTrue
<1>1. IInv => HardIndexTrue
  BY DEF IInv
<1>2. QED
  BY Invariance, <1>1, PTL
=============================================================================
