------------------------------ MODULE Deadlines ------------------------------
(* What timer.h promises: "Deadline-based timer callbacks".  A timer that   *)
(* is set is called back at its deadline, at most Slack ticks early and at  *)
(* most MaxLate ticks late, and timers are called in the order of their     *)
(* deadlines.  There is no list and no hardware here.                       *)
EXTENDS Integers

CONSTANTS
  Timer,    \* the timers
  Delays,   \* how far away a deadline may be when it is set
  Slack,    \* ticks a callback may be early
  MaxLate   \* ticks a callback may be late

VARIABLES
  armed,    \* the timers that are set
  left,     \* ticks to each armed timer's deadline, negative when it is past
  called    \* {t} after a callback of t, {} after any other step

vars == <<armed, left, called>>

Init == armed = {} /\ left = [t \in Timer |-> 0] /\ called = {}

Arm(t, d) == armed' = armed \cup {t} /\ left' = [left EXCEPT ![t] = d]

Disarm(t) == armed' = armed \ {t} /\ left' = [left EXCEPT ![t] = 0]

\* What the users of the timers ask for: neither step is a callback.
Set(t, d) == Arm(t, d) /\ called' = {}

Cancel(t) == t \in armed /\ Disarm(t) /\ called' = {}

\* The callback of t may set its timer again.
Fire(t) ==
  /\ t \in armed
  /\ left[t] <= Slack
  /\ \A u \in armed : left[t] <= left[u]
  /\ Disarm(t) \/ \E d \in Delays : Arm(t, d)
  /\ called' = {t}

\* Time waits for a callback that is MaxLate ticks overdue.
Pass ==
  /\ \A t \in armed : left[t] > -MaxLate
  /\ left' = [t \in Timer |-> IF t \in armed THEN left[t] - 1 ELSE 0]
  /\ called' = {}
  /\ UNCHANGED armed

Next == \/ \E t \in Timer, d \in Delays : Set(t, d)
        \/ \E t \in Timer : Cancel(t) \/ Fire(t)
        \/ Pass

Safety == Init /\ [][Next]_vars

\* Time goes on: with the guard of Pass, no callback is withheld for ever.
Spec == Safety /\ WF_vars(Pass)
=============================================================================
