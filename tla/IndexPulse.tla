----------------------------- MODULE IndexPulse -----------------------------
(***************************************************************************)
(* The index interrupt of floppy.c: the mask against bouncing edges, the   *)
(* filter for hard-sectored disks, and the timer that keeps                *)
(* index.trigger_time from growing too old for a 32-bit difference.        *)
(*                                                                         *)
(* Times are kept as their distance from now: age is                       *)
(* time_diff(index.trigger_time, now).  IRQ_INDEX_changed() preempts both  *)
(* the main loop and the timer callback, so those two take a step before   *)
(* and a step after any place where the interrupt may come.                *)
(***************************************************************************)
EXTENDS Integers

CONSTANTS
  Rev,          \* ticks in a revolution
  Sectors,      \* phases of the sector holes of a hard-sectored disk
  IndexHole,    \* phase of its index hole
  Latency,      \* ticks from a hole to its interrupt, at most
  Mask,         \* index_mask
  Thresh,       \* hole-to-hole threshold, 3/4 of a sector
  IndexPeriod,  \* INDEX_TIMER_PERIOD
  IndexLate,    \* ticks index_timer() is late, at most
  MaxRun,       \* ticks from its time_now() to its interrupt-free part, at most
  Wrap,         \* 2^31
  StartUp       \* 2^24

Holes == Sectors \cup {IndexHole}

\* Ticks from a hole to the next one
Spacing(h) == CHOOSE d \in 1..Rev : /\ (h + d) % Rev \in Holes
                                    /\ \A e \in 1..(d - 1) : (h + e) % Rev \notin Holes

ASSUME DiskAssumption ==
  /\ Rev \in Nat \ {0} /\ Sectors \subseteq 0..(Rev - 1)
  /\ \E s, t \in Sectors : s # t  \* with one, the two gaps look alike
  /\ IndexHole \in (0..(Rev - 1)) \ Sectors
  /\ {Latency, Mask, Thresh, IndexPeriod, IndexLate, MaxRun, Wrap, StartUp} \subseteq Nat
  \* Half sectors stay below the threshold and whole ones above it, late or not.
  /\ \A h \in Holes : /\ Spacing(h) > Mask + Latency
                      /\ IF IndexHole \in {h, (h + Spacing(h)) % Rev}
                         THEN Spacing(h) + Latency <= Thresh
                         ELSE Spacing(h) - Latency > Thresh
  \* The callback takes much less time than it is set for.
  /\ Mask < IndexPeriod /\ Thresh < IndexPeriod /\ MaxRun <= IndexPeriod
  /\ 2 * IndexPeriod + IndexLate + MaxRun < Wrap /\ StartUp < Wrap

VARIABLES
  phase,    \* of the disk under the index sensor
  spin,     \* the disk turns
  edge,     \* phase of the hole whose interrupt is pending, -1: none
  wait,     \* ticks it has been pending
  age,      \* time_diff(index.trigger_time, now)
  real,     \* ghost: ticks since the index last triggered, up to Wrap; -1: never
  wake,     \* ticks to the deadline of index.timer
  level,    \* "main", "timer" (now is read) or "set" (thresh is written)
  then,     \* "timer": ticks since that read
  thresh,   \* index.hard_sector_thresh
  trigger,  \* index.hard_sector_trigger
  counted   \* ghost: phase of the last hole that counted, while thresh # 0

indexVars == <<phase, spin, edge, wait, age, real, wake, level, then, thresh, trigger, counted>>

\* time_now() starts within StartUp ticks of its wrap to trigger_time, 0.
IndexInit ==
  /\ phase \in 0..(Rev - 1) /\ spin = FALSE /\ edge = -1 /\ wait = 0
  /\ age \in (-StartUp)..0 /\ real = -1
  /\ wake = IndexPeriod /\ level = "main" /\ then = 0
  /\ thresh = 0 /\ trigger = 0 /\ counted = -1

-----------------------------------------------------------------------------
\* Mutant: a long pulse does not unprime the trigger.
TriggerStaysPrimed ==
  /\ age' = 0 /\ real' = 0
  /\ IF thresh = 0 \/ age > thresh THEN UNCHANGED <<trigger, counted>>
     ELSE /\ trigger' = 1 - trigger
          /\ counted' = IF trigger' = 1 THEN counted ELSE edge

Trigger ==
  /\ age' = 0 /\ real' = 0
  /\ IF thresh = 0 THEN UNCHANGED <<trigger, counted>>
     ELSE IF age > thresh THEN trigger' = 0 /\ UNCHANGED counted
     ELSE /\ trigger' = 1 - trigger
          /\ counted' = IF trigger' = 1 THEN counted ELSE edge

IRQ_INDEX_changed ==
  /\ edge # -1
  /\ edge' = -1 /\ wait' = 0
  /\ IF age < Mask THEN UNCHANGED <<age, real, trigger, counted>> ELSE Trigger
  /\ UNCHANGED <<phase, spin, wake, level, then, thresh>>

\* The signal bounces after an edge that was handled, for less than the mask.
Bounce ==
  /\ edge = -1 /\ real # -1 /\ real + Latency < Mask
  /\ edge' = phase
  /\ UNCHANGED <<phase, spin, wait, age, real, wake, level, then, thresh, trigger, counted>>

\* The callback of index.timer reads the time ...
index_timer ==
  /\ level = "main" /\ wake <= 0
  /\ level' = "timer" /\ then' = 0
  /\ UNCHANGED <<phase, spin, edge, wait, age, real, wake, thresh, trigger, counted>>

\* Mutant: the age is compared with twice the period.
RefreshLate ==
  /\ level = "timer"
  /\ age' = IF age - then > 2 * IndexPeriod THEN IndexPeriod + then ELSE age
  /\ wake' = IndexPeriod - then
  /\ level' = "main" /\ then' = 0
  /\ UNCHANGED <<phase, spin, edge, wait, real, thresh, trigger, counted>>

\* Mutant: the comparison is left out.
RefreshAlways ==
  /\ level = "timer"
  /\ age' = IndexPeriod + then
  /\ wake' = IndexPeriod - then
  /\ level' = "main" /\ then' = 0
  /\ UNCHANGED <<phase, spin, edge, wait, real, thresh, trigger, counted>>

\* ... and with interrupts off makes a trigger time that was old by then younger.
Refresh ==
  /\ level = "timer"
  /\ age' = IF age - then > IndexPeriod THEN IndexPeriod + then ELSE age
  /\ wake' = IndexPeriod - then
  /\ level' = "main" /\ then' = 0
  /\ UNCHANGED <<phase, spin, edge, wait, real, thresh, trigger, counted>>

\* The first write comes after the start-up of the clock.
index_set_hard_sector_detection(ticks) ==
  /\ level = "main" /\ (real # -1 \/ age > Thresh)
  /\ thresh' = ticks /\ level' = "set" /\ counted' = -1
  /\ UNCHANGED <<phase, spin, edge, wait, age, real, wake, then, trigger>>

Unprime ==
  /\ level = "set"
  /\ trigger' = 0 /\ level' = "main"
  /\ UNCHANGED <<phase, spin, edge, wait, age, real, wake, then, thresh, counted>>

\* The motor; a disk at rest opens arbitrarily long gaps between two holes.
Motor ==
  /\ spin' = ~spin
  /\ UNCHANGED <<phase, edge, wait, age, real, wake, level, then, thresh, trigger, counted>>

Older(x) == IF x = Wrap - 1 THEN -Wrap ELSE x + 1

Turn ==
  /\ edge # -1 => wait < Latency
  /\ level = "main" => wake > -IndexLate
  /\ level = "timer" => then < MaxRun
  /\ level # "set"
  /\ IF spin THEN LET p == (phase + 1) % Rev
                  IN phase' = p /\ edge' = IF p \in Holes THEN p ELSE edge
             ELSE UNCHANGED <<phase, edge>>
  /\ wait' = IF edge = -1 THEN 0 ELSE wait + 1
  /\ age' = Older(age) /\ real' = IF real \in {-1, Wrap} THEN real ELSE real + 1
  /\ wake' = wake - 1
  /\ then' = IF level = "timer" THEN then + 1 ELSE 0
  /\ UNCHANGED <<spin, level, thresh, trigger, counted>>

IndexNext ==
  \/ IRQ_INDEX_changed \/ Bounce \/ index_timer \/ Refresh
  \/ \E ticks \in {0, Thresh} : index_set_hard_sector_detection(ticks)
  \/ Unprime \/ Motor \/ Turn

IndexSpec == IndexInit /\ [][IndexNext]_indexVars

-----------------------------------------------------------------------------
(* Properties.                                                             *)

\* "at all times, time_diff(index.trigger_time, now) < 2*INDEX_TIMER_PERIOD +
\* delta, where delta is small": the difference never overflows, however long
\* the disk stands still, also when the interrupt sets a new trigger time
\* between the callback's time_now() and its comparison.
TriggerAgeBounded ==
  age \in (IF real = -1 THEN -StartUp ELSE 0)..(2 * IndexPeriod + IndexLate + MaxRun)

\* Once the index has triggered, the age that the mask and the filter test is
\* the true one, or both are longer than any mask or threshold: a pulse after
\* any pause is handled as such, and no pulse is masked but a bounce.
AgeTrue == real # -1 => age = real \/ (age >= IndexPeriod /\ real >= age)

\* On a hard-sectored disk the hole that counts is the first sector hole after
\* the index hole, wherever in the turn detection was set up, whatever the
\* interrupt latencies, and across stops of the disk.
HardIndexTrue == counted # -1 => (IndexHole + Spacing(IndexHole)) % Rev = counted
=============================================================================
