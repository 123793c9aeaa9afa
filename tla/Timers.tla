------------------------------- MODULE Timers -------------------------------
(***************************************************************************)
(* timer.c: the list of active timers, kept sorted by deadline, and the    *)
(* one-pulse hardware timer that interrupts for its head.                  *)
(*                                                                         *)
(* The code only ever looks at a deadline through time_diff(now, deadline) *)
(* so the model keeps that difference, which counts down and wraps like    *)
(* the int32_t it is.  timer_set() and timer_cancel() mask the timer       *)
(* interrupt: from main level each is one step.  IRQ_timer() takes a step  *)
(* per turn of its loop, and time passes between any two steps.            *)
(***************************************************************************)
EXTENDS Integers, SequencesExt

CONSTANTS
  OneShot,     \* timers the main level sets and cancels (op_delay.timer)
  Periodic,    \* timers whose callback sets them again (time stamp, index)
  Period,      \* [Periodic -> ticks]
  Delays,      \* differences to the deadlines main level asks for
  Slack,       \* SLACK_TICKS
  FineLimit,   \* 0x10000, or Half with a 32-bit hardware timer
  Unit,        \* ticks in the 100us of the coarse prescaler
  Margin,      \* coarse units by which a coarse interrupt is early
  Half,        \* 2^31: time_diff is in -Half .. Half-1
  Lag,         \* ticks between time_now() and the start of the counter
  MaxLatency   \* ticks the interrupt waits and its handler runs, at most

Timer == OneShot \cup Periodic

ASSUME TimerAssumption == OneShot \cap Periodic = {}
ASSUME DelayAssumption ==
  /\ Delays \subseteq (-Half)..(Half - 1)
  /\ Period \in [Periodic -> (Slack + 1)..(Half - 1)]
ASSUME HardwareAssumption ==
  /\ {Slack, FineLimit, Unit, Margin, Half, Lag, MaxLatency} \subseteq Nat
  /\ 0 < Unit /\ Slack < FineLimit /\ FineLimit <= Half
  /\ Lag < Slack                        \* what SLACK_TICKS is for
  /\ Margin < FineLimit \div Unit       \* else arr would be 0 or wrap
  /\ Lag <= (Margin - 1) * Unit
\* No timer is so late that its deadline looks like one far ahead.
ASSUME LatenessAssumption ==
  \A d \in Delays \cup {0} : MaxLatency + 2 + Lag - d <= Half

VARIABLES
  list,   \* the active timers from head on
  left,   \* time_diff(now, t->deadline) of the active timers
  hw,     \* ticks until the counter overflows, 0: it is stopped
  pend,   \* the timer interrupt is pending
  pc,     \* "main", or "irq" inside IRQ_timer
  since,  \* ticks since the interrupt became pending, while it is not done
  called  \* history: the timer whose callback was the last thing to happen
          \* to a deadline, {} when that was a set, a cancel or a tick

vars == <<list, left, hw, pend, pc, since, called>>

Init ==
  /\ list = <<>> /\ left = [t \in Timer |-> 0]
  /\ hw = 0 /\ pend = FALSE /\ pc = "main" /\ since = 0
  /\ called = {}

Active == ToSet(list)

-----------------------------------------------------------------------------
(* Ticks from the start of the counter to its overflow: (arr+1) * (psc+1). *)

Arr(delta) ==
  IF delta < FineLimit
  THEN IF delta <= Slack THEN 1 ELSE delta - Slack
  ELSE Min({FineLimit - 1, delta \div Unit - Margin})

Overflow(delta) == (Arr(delta) + 1) * (IF delta < FineLimit THEN 1 ELSE Unit)

\* The interrupt may stay pending in the NVIC when its flag is cleared.
reprogram_timer(delta) ==
  /\ \E lag \in 0..Lag : hw' = Overflow(delta) + lag
  /\ pend' \in {FALSE, pend}

\* Mutant: the comparison the wrong way round.
PlaceReversed(rest, delta) ==
  Min({i \in 1..Len(rest) : delta >= left[rest[i]]} \cup {Len(rest) + 1})

\* Where a deadline delta ticks away goes: before the first that is not nearer.
Place(rest, delta) ==
  Min({i \in 1..Len(rest) : delta <= left[rest[i]]} \cup {Len(rest) + 1})

\* Mutant: the hardware timer is only started, never moved to a new head.
LinkKeepsCount(rest, t, delta) ==
  /\ list' = InsertAt(rest, Place(rest, delta), t)
  /\ left' = [left EXCEPT ![t] = delta]
  /\ IF rest = <<>> THEN reprogram_timer(delta) ELSE UNCHANGED <<hw, pend>>

\* timer_set() on the list rest, which t is not in
Link(rest, t, delta) ==
  /\ list' = InsertAt(rest, Place(rest, delta), t)
  /\ left' = [left EXCEPT ![t] = delta]
  /\ IF Place(rest, delta) = 1 THEN reprogram_timer(delta)
                               ELSE UNCHANGED <<hw, pend>>

Unlink(t) ==
  /\ list' = RemoveFirst(list, t)
  /\ left' = [left EXCEPT ![t] = 0]

timer_set(t, delta) == Link(RemoveFirst(list, t), t, delta)

-----------------------------------------------------------------------------
(* Main level.                                                             *)

Set(t) ==
  /\ pc = "main"
  /\ \/ t \in OneShot /\ \E d \in Delays : timer_set(t, d)
     \/ t \in Periodic \ Active /\ timer_set(t, Period[t])
  /\ called' = {}
  /\ UNCHANGED <<pc, since>>

\* The hardware timer goes on, for the deadline of a timer now gone.
timer_cancel(t) ==
  /\ pc = "main" /\ t \in OneShot \cap Active
  /\ Unlink(t)
  /\ called' = {}
  /\ UNCHANGED <<hw, pend, pc, since>>

-----------------------------------------------------------------------------
(* IRQ_timer.                                                              *)

Enter ==
  /\ pc = "main" /\ pend
  /\ pc' = "irq" /\ pend' = FALSE
  /\ UNCHANGED <<list, left, hw, since, called>>

\* Mutant: the wait to the head's deadline is taken for done when short.
DueShort == list # <<>> /\ left[Head(list)] < FineLimit

Due == list # <<>> /\ left[Head(list)] <= Slack

CallBack ==
  /\ pc = "irq" /\ Due
  /\ LET t == Head(list)
     IN IF t \in Periodic THEN Link(Tail(list), t, Period[t])
                          ELSE Unlink(t) /\ UNCHANGED <<hw, pend>>
  /\ called' = {Head(list)}
  /\ UNCHANGED <<pc, since>>

Leave ==
  /\ pc = "irq" /\ ~Due
  /\ IF list = <<>> THEN UNCHANGED <<hw, pend>>
                    ELSE reprogram_timer(left[Head(list)])
  /\ pc' = "main" /\ since' = IF pend' THEN since ELSE 0
  /\ UNCHANGED <<list, left, called>>

-----------------------------------------------------------------------------
Waiting == pend \/ pc = "irq"

Countdown(x) == IF x = -Half THEN Half - 1 ELSE x - 1

Tick ==
  /\ Waiting => since < MaxLatency
  /\ left' = [t \in Timer |-> IF t \in Active THEN Countdown(left[t]) ELSE 0]
  /\ hw' = IF hw = 0 THEN 0 ELSE hw - 1
  /\ pend' = (pend \/ hw = 1)
  /\ since' = IF Waiting THEN since + 1 ELSE 0
  /\ called' = {}
  /\ UNCHANGED <<list, pc>>

IRQ_timer == Enter \/ CallBack \/ Leave

Next == (\E t \in Timer : Set(t) \/ timer_cancel(t)) \/ IRQ_timer \/ Tick

Spec == Init /\ [][Next]_vars

\* The counter runs by itself and an unmasked interrupt is taken and returns.
Fairness == WF_vars(Tick) /\ WF_vars(IRQ_timer)

-----------------------------------------------------------------------------
(* Properties.                                                             *)

\* The list holds a timer once and is sorted by deadline at all times, whatever
\* is inserted, cancelled, fired and re-armed between: the walk in timer_set()
\* relies on it.
Sorted ==
  /\ IsInjective(list)
  /\ \A i \in 1..Len(list) - 1 : left[list[i]] <= left[list[i + 1]]

\* Outside the handler the head's deadline is covered: an interrupt is pending,
\* or the counter overflows before it, or at the latest in the two ticks (and
\* the lag) of the shortest count.  timer_cancel() does not reprogram, a coarse
\* count is cut to 16 bits, and timer_set() may withdraw a pending interrupt.
HeadCovered ==
  pc = "main" /\ list # <<>> =>
    pend \/ (hw > 0 /\ hw <= Max({left[Head(list)], 2 + Lag}))

\* How late a callback may be: its interrupt's latency, the shortest count,
\* and what its deadline had already missed when it was set.  That a timer_set()
\* withdraws the interrupt of another timer adds nothing: the new deadline
\* becomes the head only if it is no later than the other one.
MaxLate == MaxLatency + 2 + Lag - Min(Delays \cup {0})

\* timer.c implements deadlines: the handler calls back only the timer with the
\* nearest deadline, never more than Slack early nor MaxLate late, nobody but
\* the main level sets or cancels a timer otherwise, and time goes on.
D == INSTANCE Deadlines WITH armed <- Active,
       Delays <- Delays \cup {Period[t] : t \in Periodic}
MeetsDeadlines == D!Spec
=============================================================================
