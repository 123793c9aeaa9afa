---------------------------- MODULE SysTimeProofs ----------------------------
(* Proofs about module SysTime, for every counter width, every refresh      *)
(* period and all latencies that SizeAssumption and TimingAssumption allow. *)
EXTENDS SysTime, TLAPS

\* Ticks from v to w, when w follows v.
Age(w, v) == IF v.hi = w.hi THEN v.lo - w.lo ELSE v.lo + Low - w.lo

Step(w) == IF w.lo > 0 THEN [w EXCEPT !.lo = @ - 1]
           ELSE [hi |-> Before(w.hi), lo |-> Low - 1]

\* The high part before another is a different one of the same range.
LEMMA BeforeType ==
  ASSUME NEW h \in 0..(High - 1)
  PROVE  Before(h) \in 0..(High - 1) /\ Before(h) # h
BY SizeAssumption DEF Before

\* One tick later a value that is not yet a full turn old is one tick older.
LEMMA StepAges ==
  ASSUME NEW v \in Value, NEW w \in Value, Follows(w, v), Age(w, v) < Low - 1
  PROVE  /\ Step(w) \in Value
         /\ Follows(Step(w), v)
         /\ Age(Step(w), v) = Age(w, v) + 1
<1>1. Before(w.hi) \in 0..(High - 1) /\ Before(w.hi) # w.hi
  BY BeforeType DEF Value
<1>2. Before(v.hi) # v.hi
  BY BeforeType DEF Value
<1>3. CASE w.lo > 0
  <2>1. Step(w) = [hi |-> w.hi, lo |-> w.lo - 1]
    BY <1>3 DEF Step, Value
  <2> QED BY <1>2, <1>3, <2>1, SizeAssumption DEF Value, Follows, Age
<1>4. CASE ~(w.lo > 0)
  <2>1. Step(w) = [hi |-> Before(w.hi), lo |-> Low - 1]
    BY <1>4 DEF Step
  <2> QED BY <1>1, <1>2, <1>4, <2>1, SizeAssumption DEF Value, Follows, Age
<1> QED BY <1>3, <1>4

\* Extending the counter under a stamp that is less than a turn old gives the
\* time.
LEMMA ExtendExact ==
  ASSUME NEW v \in Value, NEW w \in Value, Follows(w, v)
  PROVE  Extend(v, w.lo) = w
<1> DEFINE x == [hi |-> v.hi, lo |-> w.lo]
<1>1. w = [hi |-> w.hi, lo |-> w.lo] /\ v.lo \in Int /\ w.lo \in Int /\ v.hi \in Int
  BY SizeAssumption DEF Value
<1>2. x.hi = v.hi /\ x.lo = w.lo /\ [x EXCEPT !.hi = Before(@)] = [hi |-> Before(v.hi), lo |-> w.lo]
  OBVIOUS
<1>3. Exceeds(x, v) <=> w.lo > v.lo
  BY <1>1, <1>2 DEF Exceeds
<1>4. Extend(v, w.lo) = IF w.lo > v.lo THEN [hi |-> Before(v.hi), lo |-> w.lo] ELSE x
  BY <1>2, <1>3 DEF Extend
<1>5. CASE w.lo > v.lo
  BY <1>1, <1>4, <1>5 DEF Follows
<1>6. CASE ~(w.lo > v.lo)
  BY <1>1, <1>4, <1>6 DEF Follows
<1> QED BY <1>5, <1>6

(***************************************************************************)
(* The inductive invariant.  A stamp is as old as its timer says; the      *)
(* timer is late by MaxLate and by what the callback has run; a stamp that *)
(* a caller has loaded has aged by what that caller has run.               *)
(***************************************************************************)
MaxAge == UpdatePeriod + UpdateLate + 2 * MaxRead

Aged == Follows(inv, time_stamp) /\ Age(inv, time_stamp) = UpdatePeriod - refresh

DueBound ==
  /\ where["update"] = "idle" => refresh >= -UpdateLate
  /\ where["update"] = "loaded" => refresh >= -UpdateLate - ran["update"]
  /\ where["update"] = "done" => refresh >= -UpdateLate - MaxRead - ran["update"]

LoadedAge == \A c \in Caller : where[c] = "loaded" =>
               Follows(inv, s[c]) /\ Age(inv, s[c]) <= MaxAge + ran[c]

ReadAge == where["update"] = "done" =>
             /\ Follows(inv, t["update"])
             /\ Age(inv, t["update"]) = ran["update"]

IInv == TypeOK /\ Aged /\ DueBound /\ LoadedAge /\ TrueTime /\ ReadAge

USE SizeAssumption, TimingAssumption

\* The invariant holds at the start.
LEMMA InitIInv == TimeInit => IInv
<1> SUFFICES ASSUME TimeInit PROVE IInv
  OBVIOUS
<1>1. inv \in Value /\ inv.hi = 0
  BY DEF TimeInit
<1>2. Dead \in Value
  BY DEF Dead, Value
<1>3. time_stamp = inv /\ inv.hi \in Int /\ inv.lo \in Int
  BY <1>1 DEF TimeInit, stk_now, Value
<1>4. Follows(inv, time_stamp) /\ Age(inv, time_stamp) = 0
  BY <1>3 DEF Follows, Age
<1>5. TypeOK
  BY <1>1, <1>2, <1>3 DEF TimeInit, TypeOK
<1> QED BY <1>4, <1>5 DEF TimeInit, IInv, Aged, DueBound, LoadedAge, TrueTime, ReadAge, Caller

\* time_now() loading the stamp keeps the invariant.
LEMMA LoadStampIInv ==
  ASSUME IInv, NEW c \in Caller, LoadStamp(c)
  PROVE  IInv'
<1> USE DEF IInv, LoadStamp
<1>1. TypeOK'
  BY DEF TypeOK
<1>2. Aged'
  BY DEF Aged
<1>3. refresh \in Int /\ ran \in [Caller -> 0..MaxRead] /\ where \in [Caller -> {"idle", "loaded", "done"}]
  BY DEF TypeOK
<1>4. refresh >= -(UpdateLate + 2 * MaxRead)
  BY <1>3 DEF TypeOK
<1>5. DueBound'
  BY <1>3 DEF DueBound, Caller
<1>6. Age(inv, time_stamp) <= MaxAge
  BY <1>3, <1>4 DEF Aged, MaxAge
<1>7. LoadedAge'
  <2> SUFFICES ASSUME NEW b \in Caller, where'[b] = "loaded"
               PROVE  Follows(inv, s'[b]) /\ Age(inv, s'[b]) <= MaxAge + ran'[b]
    BY DEF LoadedAge
  <2>1. CASE b = c
    <3>1. s'[b] = time_stamp /\ ran'[b] = 0
      BY <1>3, <2>1 DEF TypeOK
    <3> QED BY <1>3, <1>6, <3>1 DEF Aged, MaxAge
  <2>2. CASE b # c
    BY <1>3, <2>2 DEF LoadedAge, TypeOK
  <2> QED BY <2>1, <2>2
<1>8. TrueTime' /\ ReadAge'
  BY <1>3 DEF TrueTime, ReadAge, Caller
<1> QED BY <1>1, <1>2, <1>5, <1>7, <1>8

\* Its load of the counter keeps it.
LEMMA LoadCounterIInv ==
  ASSUME IInv, NEW c \in Caller, LoadCounter(c)
  PROVE  IInv'
<1> USE DEF IInv, LoadCounter
<1>1. /\ refresh \in Int /\ inv \in Value /\ Dead \in Value
      /\ ran \in [Caller -> 0..MaxRead] /\ where \in [Caller -> {"idle", "loaded", "done"}]
      /\ s \in [Caller -> Value] /\ t \in [Caller -> Value] /\ seen \in [Caller -> Value]
  BY DEF TypeOK, Dead, Value
<1>2. Extend(s[c], stk_now) = inv
  BY <1>1, ExtendExact DEF LoadedAge, stk_now
<1>3. /\ t' = [t EXCEPT ![c] = inv] /\ seen' = [seen EXCEPT ![c] = inv]
      /\ ran' = [ran EXCEPT ![c] = 0] /\ where' = [where EXCEPT ![c] = "done"]
  BY <1>2
<1>4. TypeOK'
  BY <1>1, <1>3 DEF TypeOK
<1>5. Aged'
  BY DEF Aged
<1>6. DueBound'
  <2>1. ran["update"] \in 0..MaxRead
    BY <1>1 DEF Caller
  <2>2. CASE c = "update"
    <3>1. where["update"] = "loaded" /\ where'["update"] = "done" /\ ran'["update"] = 0
      BY <1>1, <1>3, <2>2
    <3> QED BY <1>1, <2>1, <3>1 DEF DueBound
  <2>3. CASE c # "update"
    BY <1>1, <1>3, <2>3 DEF DueBound, Caller
  <2> QED BY <2>2, <2>3
<1>7. LoadedAge'
  <2> SUFFICES ASSUME NEW b \in Caller, where'[b] = "loaded"
               PROVE  Follows(inv, s'[b]) /\ Age(inv, s'[b]) <= MaxAge + ran'[b]
    BY DEF LoadedAge
  <2>1. b # c /\ s'[b] = s[b] /\ ran'[b] = ran[b] /\ where[b] = "loaded"
    BY <1>1, <1>3
  <2> QED BY <2>1 DEF LoadedAge
<1>8. TrueTime'
  BY <1>1, <1>3 DEF TrueTime
<1>9. ReadAge'
  <2>1. CASE c = "update"
    <3>1. t'["update"] = inv /\ ran'["update"] = 0
      BY <1>1, <1>3, <2>1
    <3>2. inv.lo \in Int
      BY <1>1 DEF Value
    <3> QED BY <3>1, <3>2 DEF ReadAge, Follows, Age
  <2>2. CASE c # "update"
    BY <1>1, <1>3, <2>2 DEF ReadAge, Caller
  <2> QED BY <2>1, <2>2
<1> QED BY <1>4, <1>5, <1>6, <1>7, <1>8, <1>9

\* Its return keeps it.
LEMMA ReturnIInv ==
  ASSUME IInv, Return
  PROVE  IInv'
<1> USE DEF IInv, Return, Finish
<1>1. TypeOK'
  BY DEF TypeOK, Dead, Value, Caller
<1>2. /\ ran \in [Caller -> 0..MaxRead] /\ where \in [Caller -> {"idle", "loaded", "done"}]
      /\ t \in [Caller -> Value] /\ seen \in [Caller -> Value]
  BY DEF TypeOK
<1>3. Aged' /\ DueBound' /\ ReadAge'
  BY <1>2 DEF Aged, DueBound, ReadAge, Caller
<1>4. LoadedAge' /\ TrueTime'
  BY <1>2 DEF LoadedAge, TrueTime, Caller
<1> QED BY <1>1, <1>3, <1>4

\* The refresh of the stamp keeps it.
LEMMA UpdateIInv ==
  ASSUME IInv, time_stamp_update
  PROVE  IInv'
<1> USE DEF IInv, time_stamp_update, Finish
<1>1. /\ ran \in [Caller -> 0..MaxRead] /\ where \in [Caller -> {"idle", "loaded", "done"}]
      /\ t \in [Caller -> Value] /\ seen \in [Caller -> Value] /\ Dead \in Value
  BY DEF TypeOK, Dead, Value
<1>2. ran["update"] \in 0..MaxRead /\ refresh' = UpdatePeriod - ran["update"]
  BY <1>1 DEF Caller
<1>3. TypeOK'
  <2>1. refresh' \in -(UpdateLate + 2 * MaxRead)..UpdatePeriod
    BY <1>2
  <2>2. time_stamp' \in Value /\ inv' \in Value /\ s' = s
    BY <1>1 DEF TypeOK, Caller
  <2>3. /\ t' \in [Caller -> Value] /\ seen' \in [Caller -> Value]
        /\ where' \in [Caller -> {"idle", "loaded", "done"}] /\ ran' \in [Caller -> 0..MaxRead]
    BY <1>1 DEF Caller
  <2> QED BY <2>1, <2>2, <2>3 DEF TypeOK
<1>4. Aged'
  BY <1>2 DEF Aged, ReadAge
<1>5. DueBound' /\ ReadAge'
  <2>1. where'["update"] = "idle"
    BY <1>1 DEF Caller
  <2> QED BY <1>2, <2>1 DEF DueBound, ReadAge
<1>6. LoadedAge' /\ TrueTime'
  BY <1>1 DEF LoadedAge, TrueTime, Caller
<1> QED BY <1>3, <1>4, <1>5, <1>6

\* A tick of the counter keeps it.
LEMMA TickIInv ==
  ASSUME IInv, SysTick
  PROVE  IInv'
<1>1. /\ inv \in Value /\ time_stamp \in Value
      /\ refresh \in -(UpdateLate + 2 * MaxRead)..UpdatePeriod
      /\ ran \in [Caller -> 0..MaxRead] /\ where \in [Caller -> {"idle", "loaded", "done"}]
      /\ s \in [Caller -> Value] /\ t \in [Caller -> Value] /\ seen \in [Caller -> Value]
  BY DEF IInv, TypeOK
<1>2. inv' = Step(inv) /\ refresh' = refresh - 1 /\ UNCHANGED <<time_stamp, where, s, t, seen>>
  BY DEF SysTick, Step
<1>3. \A c \in Caller : ran'[c] = IF where[c] = "idle" THEN 0 ELSE ran[c] + 1
  BY DEF SysTick
<1>4. \A c \in Caller : where[c] # "idle" => ran[c] < MaxRead
  BY DEF SysTick
<1>5. refresh > -(UpdateLate + 2 * MaxRead)
  <2>1. ran["update"] \in 0..MaxRead /\ "update" \in Caller
    BY <1>1 DEF Caller
  <2>2. where["update"] \in {"idle", "loaded", "done"}
    BY <1>1, <2>1
  <2>3. CASE where["update"] = "idle"
    <3>1. refresh > -UpdateLate
      BY <2>3 DEF SysTick
    <3> QED BY <1>1, <3>1
  <2>4. CASE where["update"] # "idle"
    <3>1. refresh >= -UpdateLate - MaxRead - ran["update"]
      BY <1>1, <2>1, <2>2, <2>4 DEF IInv, DueBound
    <3> QED BY <1>1, <1>4, <2>1, <2>4, <3>1
  <2> QED BY <2>3, <2>4
<1>6. Follows(Step(inv), time_stamp) /\ Age(Step(inv), time_stamp) = Age(inv, time_stamp) + 1
  <2>1. Follows(inv, time_stamp) /\ Age(inv, time_stamp) = UpdatePeriod - refresh
    BY DEF IInv, Aged
  <2>2. UpdatePeriod - refresh < Low - 1
    BY <1>1, <1>5
  <2> QED BY <1>1, <2>1, <2>2, StepAges
<1>7. TypeOK'
  <2>1. Age(inv, time_stamp) < Low - 1
    BY <1>1, <1>5 DEF IInv, Aged
  <2>2. Step(inv) \in Value
    BY <1>1, <2>1, StepAges DEF IInv, Aged
  <2>3. refresh' \in -(UpdateLate + 2 * MaxRead)..UpdatePeriod
    BY <1>1, <1>2, <1>5
  <2>4. ran' \in [Caller -> 0..MaxRead]
    <3>1. ran' = [c \in Caller |-> IF where[c] = "idle" THEN 0 ELSE ran[c] + 1]
      BY DEF SysTick
    <3> QED BY <1>1, <1>4, <3>1
  <2> QED BY <1>1, <1>2, <2>2, <2>3, <2>4 DEF TypeOK
<1>8. Aged'
  <2>1. Age(inv, time_stamp) = UpdatePeriod - refresh
    BY DEF IInv, Aged
  <2> QED BY <1>1, <1>2, <1>6, <2>1 DEF Aged
<1>9. DueBound'
  <2>1. ran["update"] \in 0..MaxRead /\ "update" \in Caller
    BY <1>1 DEF Caller
  <2>2. DueBound /\ ran'["update"] = IF where["update"] = "idle" THEN 0 ELSE ran["update"] + 1
    BY <1>3, <2>1 DEF IInv
  <2>3. where["update"] = "idle" => refresh > -UpdateLate
    BY DEF SysTick
  <2> QED BY <1>1, <1>2, <2>1, <2>2, <2>3 DEF DueBound
<1>10. LoadedAge'
  <2> SUFFICES ASSUME NEW c \in Caller, where[c] = "loaded"
               PROVE  /\ Follows(Step(inv), s[c])
                      /\ Age(Step(inv), s[c]) <= MaxAge + ran'[c]
    BY <1>2 DEF LoadedAge
  <2>1. Follows(inv, s[c]) /\ Age(inv, s[c]) <= MaxAge + ran[c] /\ s[c] \in Value
    BY <1>1 DEF IInv, LoadedAge
  <2>2. ran[c] < MaxRead /\ ran[c] \in 0..MaxRead /\ ran'[c] = ran[c] + 1
    BY <1>1, <1>3, <1>4
  <2>3. Age(inv, s[c]) \in Int
    BY <1>1, <2>1 DEF Age, Value
  <2>4. Age(inv, s[c]) < Low - 1
    BY <2>1, <2>2, <2>3 DEF MaxAge
  <2>5. Follows(Step(inv), s[c]) /\ Age(Step(inv), s[c]) = Age(inv, s[c]) + 1
    BY <1>1, <2>1, <2>4, StepAges
  <2> QED BY <2>1, <2>2, <2>3, <2>5 DEF MaxAge
<1>11. TrueTime'
  BY <1>2 DEF IInv, TrueTime
<1>12. ReadAge'
  <2> SUFFICES ASSUME where["update"] = "done"
               PROVE  /\ Follows(Step(inv), t["update"])
                      /\ Age(Step(inv), t["update"]) = ran'["update"]
    BY <1>2 DEF ReadAge
  <2>1. "update" \in Caller /\ t["update"] \in Value
    BY <1>1 DEF Caller
  <2>2. ran["update"] < MaxRead /\ ran["update"] \in 0..MaxRead /\ ran'["update"] = ran["update"] + 1
    BY <1>1, <1>3, <1>4, <2>1
  <2>3. Follows(inv, t["update"]) /\ Age(inv, t["update"]) = ran["update"]
    BY DEF IInv, ReadAge
  <2>4. ran["update"] < Low - 1
    BY <2>2
  <2> QED BY <1>1, <2>1, <2>2, <2>3, <2>4, StepAges
<1> QED BY <1>7, <1>8, <1>9, <1>10, <1>11, <1>12 DEF IInv

\* The invariant holds in every reachable state.
THEOREM Invariance == TimeSpec => []IInv
<1>1. IInv /\ [TimeNext]_timeVars => IInv'
  <2> SUFFICES ASSUME IInv, [TimeNext]_timeVars PROVE IInv'
    OBVIOUS
  <2>1. CASE \E c \in Caller : LoadStamp(c) \/ LoadCounter(c)
    BY <2>1, LoadStampIInv, LoadCounterIInv
  <2>2. CASE Return
    BY <2>2, ReturnIInv
  <2>3. CASE time_stamp_update
    BY <2>3, UpdateIInv
  <2>4. CASE SysTick
    BY <2>4, TickIInv
  <2>5. CASE UNCHANGED timeVars
    BY <2>5 DEF timeVars, IInv, TypeOK, Aged, DueBound, LoadedAge, TrueTime, ReadAge
  <2> QED BY <2>1, <2>2, <2>3, <2>4, <2>5 DEF TimeNext
<1> QED BY <1>1, InitIInv, PTL DEF TimeSpec

\* Every variable of time.c's model keeps its type, and time_stamp_timer is
\* never later than its interrupt and its callback make it.
THEOREM SysTimeTypes == TimeSpec => []TypeOK
BY Invariance, PTL DEF IInv

\* time_now() returns the time at its read of the counter, in every caller,
\* whatever happens between its two loads.
THEOREM TimeIsTrue == TimeSpec => []TrueTime
BY Invariance, PTL DEF IInv

\* No stamp in use is a full turn of the counter old.
THEOREM StampsFresh == TimeSpec => []StampFresh
<1>1. IInv => StampFresh
  BY DEF IInv, Aged, LoadedAge, StampFresh
<1> QED BY <1>1, Invariance, PTL
=============================================================================
