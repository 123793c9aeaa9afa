------------------------------- MODULE SysTime -------------------------------
(***************************************************************************)
(* time.c: a 32-bit system time from a 24-bit SysTick down-counter.  The   *)
(* code works on the inverted time, which counts down with the counter; a  *)
(* value of it is a pair, so that the masking with 0xff << 24 is taking hi *)
(* of one value with lo of another.                                        *)
(*                                                                         *)
(* time_now() loads time_stamp and then the counter: ticks and the timer   *)
(* callback that refreshes the stamp may come between the two loads.  The  *)
(* callback itself calls time_now() and stores what it got.                *)
(***************************************************************************)
EXTENDS Integers

CONSTANTS
  Low,           \* 2^24: values of the counter
  High,          \* 2^8
  UpdatePeriod,  \* TIME_UPDATE_PERIOD
  Early,         \* ticks a timer callback may be early
  UpdateLate,    \* ticks a timer callback may be late
  MaxRead        \* ticks between the two loads, or from a load to the store

ASSUME SizeAssumption == Low \in Nat /\ High \in Nat /\ Low > 1 /\ High > 1
ASSUME TimingAssumption ==
  /\ {UpdatePeriod, Early, UpdateLate, MaxRead} \subseteq Nat
  /\ Early < UpdatePeriod
  /\ MaxRead <= UpdatePeriod           \* the callback ends before it is due again
  \* The stamp is at most this old when a counter read under it is extended.
  /\ UpdatePeriod + UpdateLate + 3 * MaxRead < Low

Value == [hi : 0..(High - 1), lo : 0..(Low - 1)]

\* Callers of time_now(): anyone, and the callback.
Caller == {"any", "update"}

VARIABLES
  inv,         \* the inverted time that has really passed; lo is the counter
  time_stamp,
  refresh,     \* ticks to the deadline of time_stamp_timer
  where,       \* per caller: "idle", "loaded" (the stamp), "done"
  s, t,        \* per caller: its local variables of time_now(), Dead when dead
  ran,         \* per caller: ticks since its last load
  seen         \* ghost, per caller: inv when it read the counter

timeVars == <<inv, time_stamp, refresh, where, s, t, ran, seen>>

stk_now == inv.lo

Dead == [hi |-> 0, lo |-> 0]

TimeInit ==
  /\ inv \in {v \in Value : v.hi = 0}
  /\ time_stamp = [hi |-> 0, lo |-> stk_now]
  /\ refresh = UpdatePeriod
  /\ where = [c \in Caller |-> "idle"] /\ ran = [c \in Caller |-> 0]
  /\ s = [c \in Caller |-> Dead] /\ t = s /\ seen = s

-----------------------------------------------------------------------------
Before(hi) == IF hi = 0 THEN High - 1 ELSE hi - 1

Exceeds(v, w) == v.hi > w.hi \/ (v.hi = w.hi /\ v.lo > w.lo)

\* Mutant: a counter that equals the stamp's counts as wrapped.
ExtendEqual(stamp, lo) ==
  LET v == [hi |-> stamp.hi, lo |-> lo]
  IN IF Exceeds(v, stamp) \/ v = stamp THEN [v EXCEPT !.hi = Before(@)] ELSE v

\* The counter's value extended by the stamp: t of time_now(), before the ~.
Extend(stamp, lo) ==
  LET v == [hi |-> stamp.hi, lo |-> lo]
  IN IF Exceeds(v, stamp) THEN [v EXCEPT !.hi = Before(@)] ELSE v

MayCall(c) == c = "update" => refresh <= Early

LoadStamp(c) ==
  /\ where[c] = "idle" /\ MayCall(c)
  /\ s' = [s EXCEPT ![c] = time_stamp]
  /\ where' = [where EXCEPT ![c] = "loaded"] /\ ran' = [ran EXCEPT ![c] = 0]
  /\ UNCHANGED <<inv, time_stamp, refresh, t, seen>>

LoadCounter(c) ==
  /\ where[c] = "loaded"
  /\ t' = [t EXCEPT ![c] = Extend(s[c], stk_now)]
  /\ seen' = [seen EXCEPT ![c] = inv] /\ s' = [s EXCEPT ![c] = Dead]
  /\ where' = [where EXCEPT ![c] = "done"] /\ ran' = [ran EXCEPT ![c] = 0]
  /\ UNCHANGED <<inv, time_stamp, refresh>>

Finish(c) ==
  /\ where[c] = "done"
  /\ where' = [where EXCEPT ![c] = "idle"] /\ ran' = [ran EXCEPT ![c] = 0]
  /\ t' = [t EXCEPT ![c] = Dead] /\ seen' = [seen EXCEPT ![c] = Dead]
  /\ UNCHANGED <<inv, s>>

Return == Finish("any") /\ UNCHANGED <<time_stamp, refresh>>

\* Mutant: refreshed once per turn of the counter, not twice.
UpdateOnce ==
  /\ Finish("update")
  /\ time_stamp' = t["update"]
  /\ refresh' = 2 * UpdatePeriod - ran["update"]

\* The callback stores the time and sets its timer UpdatePeriod after it.
time_stamp_update ==
  /\ Finish("update")
  /\ time_stamp' = t["update"]
  /\ refresh' = UpdatePeriod - ran["update"]

SysTick ==
  /\ \A c \in Caller : where[c] # "idle" => ran[c] < MaxRead
  /\ where["update"] = "idle" => refresh > -UpdateLate
  /\ inv' = IF inv.lo > 0 THEN [inv EXCEPT !.lo = @ - 1]
            ELSE [hi |-> Before(inv.hi), lo |-> Low - 1]
  /\ refresh' = refresh - 1
  /\ ran' = [c \in Caller |-> IF where[c] = "idle" THEN 0 ELSE ran[c] + 1]
  /\ UNCHANGED <<time_stamp, where, s, t, seen>>

TimeNext == \/ \E c \in Caller : LoadStamp(c) \/ LoadCounter(c)
            \/ Return \/ time_stamp_update \/ SysTick

TimeSpec == TimeInit /\ [][TimeNext]_timeVars

-----------------------------------------------------------------------------
(* Properties.                                                             *)

TypeOK ==
  /\ {inv, time_stamp} \subseteq Value
  /\ refresh \in -(UpdateLate + 2 * MaxRead)..UpdatePeriod
  /\ where \in [Caller -> {"idle", "loaded", "done"}]
  /\ {s, t, seen} \subseteq [Caller -> Value]
  /\ ran \in [Caller -> 0..MaxRead]

\* time_now() returns the time at its counter read, whatever ticks, overflows
\* of the counter, wraps of the 32 bits and refreshes of the stamp came before
\* it or between its two loads.
TrueTime == \A c \in Caller : where[c] = "done" => t[c] = seen[c]

\* What that rests on: a stamp in use, stored or loaded, is less than one full
\* turn of the counter old.
Follows(w, v) == \/ v.hi = w.hi /\ v.lo >= w.lo
                 \/ w.hi = Before(v.hi) /\ v.lo < w.lo
StampFresh == /\ Follows(inv, time_stamp)
              /\ \A c \in Caller : where[c] = "loaded" => Follows(inv, s[c])
=============================================================================
