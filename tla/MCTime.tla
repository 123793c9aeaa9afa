------------------------------- MODULE MCTime -------------------------------
(***************************************************************************)
(* The parts that keep time, for TLC: the deadline timers, the two clients *)
(* that keep a difference of times from overflowing with a timer each, and *)
(* the capture times of a read.  Each module lets time pass at its own     *)
(* grain, so that one part runs and the others rest as they start.         *)
(***************************************************************************)
EXTENDS Timers, SysTime, IndexPulse, ReadStream

VARIABLE part

timers == vars
everything == <<part, timers, timeVars, indexVars, readVars>>

MCInit ==
  /\ Init /\ TimeInit /\ IndexInit /\ ReadInit
  /\ part \in {"timer.c", "time.c", "index", "read"}
  /\ part # "time.c" => stk_now = 0
  /\ part # "index" => phase = 0 /\ age = 0

MCNext ==
  \/ part = "timer.c" /\ Next /\ UNCHANGED <<part, timeVars, indexVars, readVars>>
  \/ part = "time.c" /\ TimeNext /\ UNCHANGED <<part, timers, indexVars, readVars>>
  \/ part = "index" /\ IndexNext /\ UNCHANGED <<part, timers, timeVars, readVars>>
  \/ part = "read" /\ ReadNext /\ UNCHANGED <<part, timers, timeVars, indexVars>>

MCSpec == MCInit /\ [][MCNext]_everything /\ Fairness

-----------------------------------------------------------------------------

\* Deadlines: far enough for coarse counts, one of them cut by the limit of the
\* counter.
MCDelays == {-1, 1, 4, 17}
MCPeriod == [u \in Periodic |-> IF u = "stamp" THEN 5 ELSE 7]

\* A hard-sectored disk
ThreeSectors == {0, 8, 16}
=============================================================================
