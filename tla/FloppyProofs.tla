----------------------------- MODULE FloppyProofs -----------------------------
(***************************************************************************)
(* The safety of Drives and of Floppy, for every value of their constants. *)
(*                                                                         *)
(* The first part is about the operators of Drives: what they preserve for *)
(* every board, every attached drive and every delay setting.  Safe(s) is  *)
(* what holds of the device record between any two calls as far as delays  *)
(* go, Known(s) what holds of its lines, pins and heads.  The record is    *)
(* wide, so a proof names the record an operation returns, lists the       *)
(* fields that matter, hides the definition, and reasons from the list.    *)
(*                                                                         *)
(* The second part has the inductive invariant of Floppy, shown for each   *)
(* action, from which the type invariant, the covering of delays, the      *)
(* minimum times, the discipline of the write gate and the agreement of    *)
(* the lines, pins and heads with the firmware's records follow.           *)
(***************************************************************************)
EXTENDS Floppy, TLAPS


\* Every running delay is covered by op_delay, and nothing was done before its
\* time but no-click steps.
Safe(s) == s \in Dev /\ DelayCovers(s) /\ s.early \subseteq {"noclick"}
\* r agrees with s on everything Safe looks at.
SameTiming(r, s) ==
  /\ r.mask = s.mask /\ r.od = s.od /\ r.settle = s.settle /\ r.pre = s.pre
  /\ r.post = s.post /\ r.early = s.early /\ r.wgate = s.wgate

\* Safe depends only on the fields that SameTiming lists.
LEMMA SameSafe ==
  ASSUME NEW s, NEW r \in Dev, Safe(s), SameTiming(r, s)
  PROVE  Safe(r)
BY DEF Safe, SameTiming, DelayCovers

\* write_mapped_pin() touches a bus line and the return code, nothing else.
LEMMA WritePinDev ==
  ASSUME NEW s \in Dev, NEW pin, NEW on \in BOOLEAN
  PROVE  LET r == write_mapped_pin(s, pin, on)
         IN r \in Dev /\ SameTiming(r, s) /\ r.unit = s.unit /\ r.unit_nr = s.unit_nr
            /\ r.bus_type = s.bus_type
<1>1. CASE pin \in UserPins
  <2> DEFINE l == [s.line EXCEPT ![pin] = IF on THEN "on" ELSE "off"]
  <2>1. l \in [Pins -> Levels] BY <1>1 DEF Dev, Pins, Levels
  <2> HIDE DEF l
  <2>2. [s EXCEPT !.line = l, !.rc = "OKAY"] \in Dev BY <2>1 DEF Dev, Acks
  <2>3. write_mapped_pin(s, pin, on) = [s EXCEPT !.line = l, !.rc = "OKAY"]
    BY <1>1 DEF write_mapped_pin, l
  <2>4. QED BY <2>2, <2>3 DEF SameTiming, Dev
<1>2. CASE pin \notin UserPins
  BY <1>2 DEF write_mapped_pin, Return, SameTiming, Dev, Acks
<1>3. QED BY <1>1, <1>2

\* Only a unit number of the bus has a select pin.
LEMMA SelectPinUnit ==
  ASSUME NEW bus, NEW nr \in Nat, SelectPin(bus, nr) \in UserPins
  PROVE  nr \in 0..3 /\ bus # BUS_NONE
BY UserPinsAssumption DEF SelectPin, BUS_NONE, BUS_IBMPC, BUS_SHUGART

\* drive_deselect() clears unit_nr and leaves all delays alone.
LEMMA DeselectDev ==
  ASSUME NEW s \in Dev
  PROVE  LET r == drive_deselect(s)
         IN r \in Dev /\ SameTiming(r, s) /\ r.unit = s.unit /\ r.bus_type = s.bus_type
            /\ r.unit_nr = NoUnit
<1> DEFINE w == write_mapped_pin(s, SelectPin(s.bus_type, s.unit_nr), FALSE)
<1>1. w \in Dev /\ SameTiming(w, s) /\ w.unit = s.unit /\ w.unit_nr = s.unit_nr
            /\ w.bus_type = s.bus_type
  BY WritePinDev
<1>2. drive_deselect(s) = IF s.unit_nr = NoUnit THEN s ELSE [w EXCEPT !.unit_nr = NoUnit]
  BY DEF drive_deselect
<1> HIDE DEF w
<1>3. [w EXCEPT !.unit_nr = NoUnit] \in Dev BY <1>1 DEF Dev, NoUnit
<1>4. QED BY <1>1, <1>2, <1>3 DEF SameTiming, Dev

\* drive_select() never leaves unit_nr outside unit[], whatever the host names.
LEMMA SelectDev ==
  ASSUME NEW s \in Dev, NEW nr \in Nat
  PROVE  LET r == drive_select(s, nr)
         IN r \in Dev /\ SameTiming(r, s) /\ r.unit = s.unit /\ r.bus_type = s.bus_type
<1> DEFINE d == drive_deselect(s)
           w == write_mapped_pin(d, SelectPin(d.bus_type, nr), TRUE)
<1>1. d \in Dev /\ SameTiming(d, s) /\ d.unit = s.unit /\ d.bus_type = s.bus_type
  BY DeselectDev
<1>2. w \in Dev /\ SameTiming(w, d) /\ w.unit = d.unit /\ w.bus_type = d.bus_type
  BY <1>1, WritePinDev
<1>3. w.rc = "OKAY" => nr \in 0..3
  BY <1>1, SelectPinUnit DEF write_mapped_pin, Return, Dev
<1>4. drive_select(s, nr) =
        IF nr = s.unit_nr THEN Return(s, "OKAY")
        ELSE IF d.bus_type = BUS_NONE THEN Return(d, "NO_BUS")
        ELSE IF w.rc # "OKAY" THEN Return(d, "BAD_UNIT")
        ELSE [w EXCEPT !.unit_nr = nr]
  BY DEF drive_select
<1> HIDE DEF d, w
<1>5. CASE nr = s.unit_nr
  BY <1>4, <1>5 DEF Return, SameTiming, Dev, Acks
<1>6. CASE nr # s.unit_nr /\ (d.bus_type = BUS_NONE \/ w.rc # "OKAY")
  BY <1>1, <1>4, <1>6 DEF Return, SameTiming, Dev, Acks
<1>7. CASE nr # s.unit_nr /\ d.bus_type # BUS_NONE /\ w.rc = "OKAY"
  BY <1>1, <1>2, <1>3, <1>4, <1>7 DEF SameTiming, Dev
<1>8. QED BY <1>5, <1>6, <1>7

\* A countdown stays a natural number, never grows, and reaches zero.
LEMMA LessNat ==
  ASSUME NEW a \in Nat, NEW n \in Nat
  PROVE  /\ Less(a, n) \in Nat
         /\ Less(a, n) <= a
         /\ a <= n => Less(a, n) = 0
BY DEF Less

\* Countdowns keep their order.
LEMMA LessMono ==
  ASSUME NEW a \in Nat, NEW b \in Nat, NEW n \in Nat, a <= b
  PROVE  Less(a, n) <= Less(b, n)
BY DEF Less

\* What the passing of n ticks does to each field.
LEMMA ElapseDev ==
  ASSUME NEW s \in Dev, NEW n \in Nat
  PROVE  LET e == Elapse(s, n)
         IN /\ e \in Dev /\ e.wgate = s.wgate /\ e.early = s.early /\ e.mask = s.mask
            /\ e.settle = Less(s.settle, n) /\ e.pre = Less(s.pre, n)
            /\ e.post = Less(s.post, n) /\ e.od = Less(s.od, n)
            /\ e.unit_nr = s.unit_nr /\ e.unit = s.unit /\ e.head = s.head
            /\ e.delay = s.delay
<1>1. /\ Less(s.od, n) \in Nat /\ Less(s.wd, n) \in Nat /\ Less(s.settle, n) \in Nat
      /\ Less(s.pre, n) \in Nat /\ Less(s.post, n) \in Nat
  BY LessNat DEF Dev
<1>2. QED BY <1>1 DEF Elapse, Dev

\* Time passing keeps every running delay covered by the op_delay deadline.
LEMMA ElapseSafe ==
  ASSUME NEW s, Safe(s), NEW n \in Nat
  PROVE  LET e == Elapse(s, n) IN Safe(e) /\ e.wgate = s.wgate /\ e.post <= s.post
<1>0. s \in Dev /\ s.od \in Nat /\ s.settle \in Nat /\ s.pre \in Nat /\ s.post \in Nat
  BY DEF Safe, Dev
<1>1. /\ s.settle <= s.od => Less(s.settle, n) <= Less(s.od, n)
      /\ s.pre <= s.od => Less(s.pre, n) <= Less(s.od, n)
      /\ s.post <= s.od => Less(s.post, n) <= Less(s.od, n)
  BY <1>0, LessMono
<1>2. /\ Less(s.settle, n) <= s.settle /\ Less(s.pre, n) <= s.pre
      /\ Less(s.post, n) <= s.post
      /\ Less(s.settle, n) \in Nat /\ Less(s.pre, n) \in Nat /\ Less(s.post, n) \in Nat
  BY <1>0, LessNat
<1> DEFINE e == Elapse(s, n)
<1>3. /\ e \in Dev /\ e.wgate = s.wgate /\ e.early = s.early /\ e.mask = s.mask
      /\ e.settle = Less(s.settle, n) /\ e.pre = Less(s.pre, n)
      /\ e.post = Less(s.post, n) /\ e.od = Less(s.od, n)
  BY <1>0, ElapseDev
<1>4. DelayCovers(s) BY DEF Safe
<1> HIDE DEF e
<1>5. DelayCovers(e)
  BY <1>0, <1>1, <1>2, <1>3, <1>4 DEF DelayCovers
<1>6. QED BY <1>2, <1>3, <1>5 DEF Safe, e

\* drive_motor() writes only existing units.
LEMMA MotorDev ==
  ASSUME NEW s \in Dev, NEW nr \in Nat, NEW on \in BOOLEAN
  PROVE  LET r == drive_motor(s, nr, on) IN r \in Dev /\ SameTiming(r, s)
<1> DEFINE n == MotorUnit(s.bus_type, nr)
           w == write_mapped_pin(s, MotorPin(s.bus_type, nr), on)
           v == [w.unit EXCEPT ![n].motor = on]
<1>1. w \in Dev /\ SameTiming(w, s)
  BY WritePinDev
<1>2. nr < NrUnits(s.bus_type) => n \in Units
  BY DEF NrUnits, MotorUnit, Units, Dev, BUS_IBMPC, BUS_SHUGART
<1>3. n \in Units => v \in [Units -> UnitRec]
  BY <1>1 DEF Dev, UnitRec
<1>4. NrUnits(s.bus_type) \in Nat
  BY DEF NrUnits
<1>5. drive_motor(s, nr, on) =
        IF s.bus_type = BUS_NONE THEN Return(s, "NO_BUS")
        ELSE IF nr >= NrUnits(s.bus_type) THEN Return(s, "BAD_UNIT")
        ELSE IF s.unit[n].motor = on THEN Return(s, "OKAY")
        ELSE IF w.rc # "OKAY" THEN Return(s, "BAD_UNIT")
        ELSE [w EXCEPT !.unit = v]
  BY DEF drive_motor
<1> HIDE DEF n, w, v
<1>6. \A c \in Acks : Return(s, c) \in Dev /\ SameTiming(Return(s, c), s)
  BY DEF Return, SameTiming, Dev
<1>7. v \in [Units -> UnitRec] =>
        [w EXCEPT !.unit = v] \in Dev /\ SameTiming([w EXCEPT !.unit = v], s)
  BY <1>1 DEF SameTiming, Dev
<1>8. QED BY <1>2, <1>3, <1>4, <1>5, <1>6, <1>7 DEF Acks

\* set_user_pin() touches one line at most.
LEMMA UserPinDev ==
  ASSUME NEW s \in Dev, NEW pin, NEW level \in HostLevels
  PROVE  LET r == set_user_pin(s, pin, level) IN r \in Dev /\ SameTiming(r, s)
<1> DEFINE l == [s.line EXCEPT ![pin] = level]
<1>1. pin \in UserPins => l \in [Pins -> Levels]
  BY DEF Dev, Pins, Levels
<1>2. set_user_pin(s, pin, level) = IF pin \in UserPins
        THEN [s EXCEPT !.line = l, !.rc = "OKAY"] ELSE Return(s, "BAD_PIN")
  BY DEF set_user_pin
<1> HIDE DEF l
<1>3. CASE pin \in UserPins
  <2>1. [s EXCEPT !.line = l, !.rc = "OKAY"] \in Dev
    BY <1>1, <1>3 DEF Dev, Acks
  <2>2. QED BY <1>2, <1>3, <2>1 DEF SameTiming, Dev
<1>4. CASE pin \notin UserPins
  BY <1>2, <1>4 DEF Return, SameTiming, Dev, Acks
<1>5. QED BY <1>3, <1>4

\* reset_user_pins() touches the lines only.
LEMMA ResetPinsDev ==
  ASSUME NEW s \in Dev
  PROVE  LET r == reset_user_pins(s) IN r \in Dev /\ SameTiming(r, s)
<1> DEFINE l == [p \in Pins |-> IF p \in UserPins THEN "off" ELSE s.line[p]]
<1>1. l \in [Pins -> Levels]
  BY DEF Dev, Levels
<1>2. reset_user_pins(s) = [s EXCEPT !.line = l]
  BY DEF reset_user_pins
<1> HIDE DEF l
<1>3. QED BY <1>1, <1>2 DEF SameTiming, Dev

\* Every delay still running is covered by the pending op_delay or will be by
\* the one about to be set.
CoversSoon(t, ops, d) ==
  /\ t.settle > 0 => \/ {"read", "write", "seek"} \subseteq t.mask /\ t.settle <= t.od
                     \/ {"read", "write", "seek"} \subseteq ops /\ t.settle <= d
  /\ t.post > 0 => \/ {"write", "seek", "head"} \subseteq t.mask /\ t.post <= t.od
                   \/ {"write", "seek", "head"} \subseteq ops /\ t.post <= d
  /\ t.pre > 0 => \/ "write" \in t.mask /\ t.pre <= t.od
                  \/ "write" \in ops /\ t.pre <= d

\* A delay that is no longer than the time waited is over afterwards; one that
\* was covered by a deadline still is.
LEMMA ElapsePast ==
  ASSUME NEW a \in Nat, NEW o \in Nat, NEW d \in Nat
  PROVE  /\ a <= d => ~(Less(a, d) > 0)
         /\ a <= o => Less(a, d) <= Less(o, d)
         /\ Less(a, d) > 0 => a > 0
BY DEF Less

\* The heart of the matter: op_delay_async() leaves every running delay covered
\* if it was covered before or is covered by the new request, both when it sets
\* the deadline and when it waits synchronously.
LEMMA AsyncSafe ==
  ASSUME NEW t \in Dev, NEW ops \in SUBSET DelayOps, NEW d \in Nat,
         t.early \subseteq {"noclick"}, CoversSoon(t, ops, d)
  PROVE  LET r == op_delay_async(t, ops, d)
         IN Safe(r) /\ r.wgate = t.wgate /\ r.post <= t.post /\ r.settle <= t.settle
            /\ r.unit_nr = t.unit_nr /\ r.unit = t.unit /\ r.delay = t.delay
<1>n. t.od \in Nat /\ t.settle \in Nat /\ t.pre \in Nat /\ t.post \in Nat
  BY DEF Dev
<1>1. CASE d > SyncMax
  <2>1. op_delay_async(t, ops, d) = Elapse(t, d)
    BY <1>1 DEF op_delay_async
  <2> DEFINE e == Elapse(t, d)
  <2>2. /\ e \in Dev /\ e.settle = Less(t.settle, d) /\ e.pre = Less(t.pre, d)
        /\ e.post = Less(t.post, d) /\ e.od = Less(t.od, d) /\ e.mask = t.mask
        /\ e.early = t.early /\ e.wgate = t.wgate
        /\ e.unit_nr = t.unit_nr /\ e.unit = t.unit /\ e.delay = t.delay
    BY ElapseDev
  <2> HIDE DEF e
  <2>3. e.settle > 0 => {"read", "write", "seek"} \subseteq e.mask /\ e.settle <= e.od
    BY <1>n, <2>2, ElapsePast DEF CoversSoon
  <2>4. e.post > 0 => {"write", "seek", "head"} \subseteq e.mask /\ e.post <= e.od
    BY <1>n, <2>2, ElapsePast DEF CoversSoon
  <2>5. e.pre > 0 => "write" \in e.mask /\ e.pre <= e.od
    BY <1>n, <2>2, ElapsePast DEF CoversSoon
  <2>a. Less(t.post, d) <= t.post /\ Less(t.settle, d) <= t.settle
    BY <1>n, LessNat
  <2>6. e.post <= t.post /\ e.settle <= t.settle
    BY <2>2, <2>a
  <2>7. QED BY <2>1, <2>2, <2>3, <2>4, <2>5, <2>6 DEF Safe, DelayCovers, e
<1>2. CASE ~(d > SyncMax)
  <2> DEFINE o == IF t.mask # {} THEN Larger(t.od, d) ELSE d
             k == t.mask \cup ops
             e == [t EXCEPT !.od = o, !.mask = k]
  <2>1. op_delay_async(t, ops, d) = e
    BY <1>2 DEF op_delay_async
  <2>2. o \in Nat /\ d <= o /\ (t.mask # {} => t.od <= o)
    BY <1>n DEF Larger
  <2>3. k \in SUBSET DelayOps /\ t.mask \subseteq k /\ ops \subseteq k
    BY DEF Dev
  <2> HIDE DEF o, k
  <2>4. /\ e \in Dev /\ e.settle = t.settle /\ e.pre = t.pre /\ e.post = t.post
        /\ e.od = o /\ e.mask = k /\ e.early = t.early /\ e.wgate = t.wgate
        /\ e.unit_nr = t.unit_nr /\ e.unit = t.unit /\ e.delay = t.delay
    BY <2>2, <2>3 DEF Dev
  <2> HIDE DEF e
  <2>5. DelayCovers(e)
    BY <1>n, <2>2, <2>3, <2>4 DEF DelayCovers, CoversSoon
  <2>6. QED BY <1>n, <2>1, <2>4, <2>5 DEF Safe
<1>3. QED BY <1>1, <1>2

\* The delay requested at the end of a seek covers the settle time.
LEMMA AsyncSettle ==
  ASSUME NEW s, Safe(s), NEW d \in Nat
  PROVE  LET r == op_delay_async([s EXCEPT !.settle = d], {"read", "write", "seek"}, d)
         IN Safe(r) /\ r.wgate = s.wgate /\ r.post <= s.post /\ r.settle <= d
            /\ r.unit_nr = s.unit_nr /\ r.unit = s.unit /\ r.delay = s.delay
<1> DEFINE t == [s EXCEPT !.settle = d]
<1>1. /\ t \in Dev /\ t.settle = d /\ t.pre = s.pre /\ t.post = s.post
      /\ t.od = s.od /\ t.mask = s.mask /\ t.early = s.early /\ t.wgate = s.wgate
      /\ t.unit_nr = s.unit_nr /\ t.unit = s.unit /\ t.delay = s.delay
  BY DEF Safe, Dev
<1> HIDE DEF t
<1>2. CoversSoon(t, {"read", "write", "seek"}, d)
  BY <1>1 DEF Safe, DelayCovers, CoversSoon
<1>3. t.early \subseteq {"noclick"} BY <1>1 DEF Safe
<1>4. LET r == op_delay_async(t, {"read", "write", "seek"}, d)
      IN Safe(r) /\ r.wgate = t.wgate /\ r.post <= t.post /\ r.settle <= t.settle
         /\ r.unit_nr = t.unit_nr /\ r.unit = t.unit /\ r.delay = t.delay
  BY <1>1, <1>2, <1>3, AsyncSafe DEF DelayOps
<1>5. QED BY <1>1, <1>4 DEF t

\* floppy_flux_end() shuts the gate and covers the post-write time.
LEMMA FluxEndSafe ==
  ASSUME NEW s, Safe(s)
  PROVE  LET r == floppy_flux_end(s) IN Safe(r) /\ ~r.wgate
<1>1. CASE ~s.wgate
  BY <1>1 DEF floppy_flux_end
<1>2. CASE s.wgate
  <2> DEFINE l == [s.line EXCEPT ![WGATE] = "off"]
             d == s.delay.post_write
             t == [s EXCEPT !.wgate = FALSE, !.line = l, !.post = d]
  <2>1. l \in [Pins -> Levels] /\ d \in Nat
    BY DEF Safe, Dev, Delays, Levels
  <2>2. floppy_flux_end(s) = op_delay_async(t, {"write", "seek", "head"}, d)
    BY <1>2 DEF floppy_flux_end
  <2> HIDE DEF l, d
  <2>3. /\ t \in Dev /\ t.settle = s.settle /\ t.pre = s.pre /\ t.post = d
        /\ t.od = s.od /\ t.mask = s.mask /\ t.early = s.early /\ t.wgate = FALSE
    BY <2>1 DEF Safe, Dev
  <2> HIDE DEF t
  <2>4. CoversSoon(t, {"write", "seek", "head"}, d)
    BY <2>1, <2>3 DEF Safe, DelayCovers, CoversSoon
  <2>5. t.early \subseteq {"noclick"} BY <2>3 DEF Safe
  <2>6. QED BY <2>1, <2>2, <2>3, <2>4, <2>5, AsyncSafe DEF DelayOps
<1>3. QED BY <1>1, <1>2

\* op_delay_wait() returns with its operation no longer pending.
LEMMA WaitSafe ==
  ASSUME NEW s, Safe(s), NEW op \in DelayOps
  PROVE  LET r == op_delay_wait(s, op)
         IN /\ Safe(r) /\ r.wgate = s.wgate /\ op \notin r.mask
            /\ r.head = s.head /\ r.unit_nr = s.unit_nr /\ r.unit = s.unit
<1>0. s \in Dev /\ DelayCovers(s) /\ s.early \subseteq {"noclick"} BY DEF Safe
<1>n. s.od \in Nat /\ s.settle \in Nat /\ s.pre \in Nat /\ s.post \in Nat
  BY <1>0 DEF Dev
<1>1. CASE op \notin s.mask
  BY <1>1 DEF op_delay_wait
<1>2. CASE op \in s.mask
  <2> DEFINE e == Elapse(s, s.od)
  <2>1. e \in Dev /\ Safe(e) /\ e.wgate = s.wgate /\ e.settle = Less(s.settle, s.od)
        /\ e.pre = Less(s.pre, s.od) /\ e.post = Less(s.post, s.od) /\ e.early = s.early
    BY <1>0, ElapseDev, ElapseSafe DEF Dev
  <2>2. e.head = s.head /\ e.unit_nr = s.unit_nr /\ e.unit = s.unit
    BY <1>0, <1>n, ElapseDev
  <2>b. s.settle <= s.od /\ s.pre <= s.od /\ s.post <= s.od
    BY <1>0, <1>n DEF DelayCovers
  <2>a. /\ Less(s.settle, s.od) = 0
        /\ Less(s.pre, s.od) = 0
        /\ Less(s.post, s.od) = 0
    BY <1>n, <2>b, LessNat
  <2>3. e.settle = 0 /\ e.pre = 0 /\ e.post = 0
    BY <2>1, <2>a
  <2>4. op_delay_wait(s, op) = [e EXCEPT !.mask = {}]
    BY <1>2 DEF op_delay_wait
  <2> HIDE DEF e
  <2>5. [e EXCEPT !.mask = {}] \in Dev /\ DelayCovers([e EXCEPT !.mask = {}])
    BY <2>1, <2>3 DEF Dev, DelayCovers
  <2>6. QED BY <1>0, <2>1, <2>2, <2>4, <2>5 DEF Safe, Dev
<1>3. QED BY <1>1, <1>2

\* In addition the write gate is closed and the settle and post-write delays are
\* over, so that the head may be stepped.
Still(s) == Safe(s) /\ ~s.wgate /\ s.post = 0 /\ s.settle = 0

\* As after a seek: no more than one settle time may still be running.
Settling(s) ==
  Safe(s) /\ ~s.wgate /\ s.post = 0 /\ s.settle <= s.delay.seek_settle

\* An operation that is not pending may go ahead: none of the delays that hold
\* it back is still running.
LEMMA WaitCovers ==
  ASSUME NEW s, Safe(s)
  PROVE  /\ "seek" \notin s.mask => s.post = 0 /\ s.settle = 0
         /\ "head" \notin s.mask => s.post = 0
         /\ "read" \notin s.mask => s.settle = 0
         /\ "write" \notin s.mask => s.post = 0 /\ s.settle = 0 /\ s.pre = 0
<1>1. s.od \in Nat /\ s.settle \in Nat /\ s.pre \in Nat /\ s.post \in Nat
  BY DEF Safe, Dev
<1>2. QED BY <1>1 DEF Safe, DelayCovers

\* Steps take a head from one integer cylinder to another.
LEMMA MovedInt ==
  ASSUME NEW u, NEW p \in Int, NEW n \in Int, NEW sensor
  PROVE  MovedIn(u, p, n) \in Int /\ MovedOut(u, p, n, sensor) \in Int
BY LastCylAssumption DEF MovedIn, MovedOut, Larger, Smaller

\* What one run of steps does, whatever it does to the heads.
LEMMA StepsStill ==
  ASSUME NEW s, Still(s), NEW r \in Dev,
         r.settle = s.settle, r.pre = s.pre, r.post = s.post, r.od = s.od,
         r.mask = s.mask, r.wgate = s.wgate, r.early = s.early \cup StepEarly(s)
  PROVE  Still(r)
<1>1. StepEarly(s) = {}
  BY DEF StepEarly, Still
<1>2. DelayCovers(r)
  BY DEF Still, Safe, DelayCovers
<1>3. QED BY <1>1, <1>2 DEF Still, Safe

\* What listening does: the drive is found out to be astray, or nothing.
LEMMA ListenedIs ==
  ASSUME NEW s \in Dev
  PROVE  Listened(s) = [s EXCEPT !.stray = s.stray \/ Astray(s),
                                 !.found = IF Astray(s) THEN {} ELSE s.found]
<1>1. CASE Astray(s)
  BY <1>1 DEF Listened
<1>2. CASE ~Astray(s)
  <2> DEFINE b == s.stray \/ Astray(s)
             k == IF Astray(s) THEN {} ELSE s.found
  <2>1. b = s.stray /\ k = s.found BY <1>2 DEF Dev
  <2> HIDE DEF b, k
  <2>2. [s EXCEPT !.stray = b, !.found = k] = s BY <2>1 DEF Dev
  <2>3. QED BY <1>2, <2>2 DEF Listened, b, k
<1>3. QED BY <1>1, <1>2

\* Where steps take the heads.
InTo(s, n) == [u \in Units |-> IF u \in Responding(s)
                               THEN MovedIn(u, s.pos[u], n) ELSE s.pos[u]]
OutTo(s, n, sensor) ==
  [u \in Units |-> IF u \in Responding(s)
                   THEN MovedOut(u, s.pos[u], n, sensor) ELSE s.pos[u]]

\* The record after steps that take the heads to q, with e the operations done
\* too early.
Shifted(s, q, e) ==
  [s EXCEPT !.pos = q, !.early = e, !.stray = s.stray \/ Astray(s),
            !.found = IF Astray(s) THEN {} ELSE s.found]

\* Assigning heads and early operations after listening gives this form,
LEMMA ShiftIs ==
  ASSUME NEW s \in Dev, NEW q, NEW e
  PROVE  [Listened(s) EXCEPT !.pos = q, !.early = e] = Shifted(s, q, e)
<1> DEFINE b == s.stray \/ Astray(s)
           k == IF Astray(s) THEN {} ELSE s.found
<1>1. Listened(s) = [s EXCEPT !.stray = b, !.found = k]
  BY ListenedIs
<1> HIDE DEF b, k
<1>2. [Listened(s) EXCEPT !.pos = q, !.early = e]
        = [s EXCEPT !.pos = q, !.early = e, !.stray = b, !.found = k]
  BY <1>1
<1>3. QED BY <1>2 DEF Shifted, b, k

\* and every kind of step is of it.
LEMMA StepIs ==
  ASSUME NEW s \in Dev, NEW n \in Int, NEW sensor \in BOOLEAN
  PROVE  /\ step_in(s, n) = Shifted(s, InTo(s, n), s.early \cup StepEarly(s))
         /\ step_out(s, n, sensor)
              = Shifted(s, OutTo(s, n, sensor), s.early \cup StepEarly(s))
<1> DEFINE l == Listened(s)
           e == s.early \cup StepEarly(s)
           q == InTo(s, n)
           x == OutTo(s, n, sensor)
<1>1. l.pos = s.pos /\ l.early = s.early
  BY ListenedIs DEF Dev
<1>2. step_in(s, n) = [l EXCEPT !.pos = q, !.early = e]
  BY <1>1 DEF step_in, InTo
<1>3. step_out(s, n, sensor) = [l EXCEPT !.pos = x, !.early = e]
  BY <1>1 DEF step_out, OutTo
<1>4. [l EXCEPT !.pos = q, !.early = e] = Shifted(s, q, e)
  BY ShiftIs
<1>5. [l EXCEPT !.pos = x, !.early = e] = Shifted(s, x, e)
  BY ShiftIs
<1> HIDE DEF l, e, q, x
<1>6. QED BY <1>2, <1>3, <1>4, <1>5 DEF e, q, x

\* The no-click step differs in what it does too early.
LEMMA NoclickIs ==
  ASSUME NEW s \in Dev
  PROVE  NoclickStep(s)
           = Shifted(s, OutTo(s, 1, TRUE),
                     s.early \cup IF s.post > 0 \/ s.wgate THEN {"step"}
                                  ELSE IF s.settle > 0 THEN {"noclick"} ELSE {})
<1> DEFINE e == s.early \cup IF s.post > 0 \/ s.wgate THEN {"step"}
                             ELSE IF s.settle > 0 THEN {"noclick"} ELSE {}
           x == OutTo(s, 1, TRUE)
           k == s.early \cup StepEarly(s)
<1>1. NoclickStep(s) = [step_out(s, 1, TRUE) EXCEPT !.early = e]
  BY DEF NoclickStep
<1>a. 1 \in Int /\ TRUE \in BOOLEAN OBVIOUS
<1>2. step_out(s, 1, TRUE) = Shifted(s, x, k)
  BY <1>a, StepIs
<1> HIDE DEF e, x, k
<1>3. [Shifted(s, x, k) EXCEPT !.early = e] = Shifted(s, x, e)
  BY DEF Shifted
<1>4. QED BY <1>1, <1>2, <1>3 DEF e, x

\* The heads stay at integer cylinders.
LEMMA ToInt ==
  ASSUME NEW s \in Dev, NEW n \in Int, NEW sensor \in BOOLEAN
  PROVE  InTo(s, n) \in [Units -> Int] /\ OutTo(s, n, sensor) \in [Units -> Int]
<1>1. s.pos \in [Units -> Int] BY DEF Dev
<1>2. QED BY <1>1, MovedInt DEF InTo, OutTo

\* What such a record keeps.
LEMMA ShiftedDev ==
  ASSUME NEW s \in Dev, NEW q \in [Units -> Int], NEW e \in SUBSET EarlyOps
  PROVE  LET r == Shifted(s, q, e)
         IN /\ r \in Dev /\ r.settle = s.settle /\ r.pre = s.pre /\ r.post = s.post
            /\ r.od = s.od /\ r.mask = s.mask /\ r.wgate = s.wgate /\ r.early = e
            /\ r.unit_nr = s.unit_nr /\ r.unit = s.unit /\ r.delay = s.delay
            /\ r.bus_type = s.bus_type /\ r.line = s.line /\ r.rc = s.rc
            /\ r.pos = q /\ r.stray = (s.stray \/ Astray(s))
            /\ r.found = IF Astray(s) THEN {} ELSE s.found
<1> DEFINE b == s.stray \/ Astray(s)
           k == IF Astray(s) THEN {} ELSE s.found
<1>1. b \in BOOLEAN /\ k \in SUBSET Units
  BY DEF Dev, Astray, HostSelects
<1>2. Shifted(s, q, e) = [s EXCEPT !.pos = q, !.early = e, !.stray = b, !.found = k]
  BY DEF Shifted
<1> HIDE DEF b, k
<1>3. LET r == [s EXCEPT !.pos = q, !.early = e, !.stray = b, !.found = k]
      IN /\ r \in Dev /\ r.settle = s.settle /\ r.pre = s.pre /\ r.post = s.post
         /\ r.od = s.od /\ r.mask = s.mask /\ r.wgate = s.wgate /\ r.early = e
         /\ r.unit_nr = s.unit_nr /\ r.unit = s.unit /\ r.delay = s.delay
         /\ r.bus_type = s.bus_type /\ r.line = s.line /\ r.rc = s.rc
         /\ r.pos = q /\ r.stray = b /\ r.found = k
  BY <1>1 DEF Dev
<1>4. QED BY <1>2, <1>3 DEF b, k

\* Steps keep the device still.
LEMMA StepStill ==
  ASSUME NEW s, Still(s), NEW n \in Int, NEW sensor \in BOOLEAN
  PROVE  /\ LET r == step_in(s, n)
            IN Still(r) /\ r.unit_nr = s.unit_nr /\ r.unit = s.unit
         /\ LET r == step_out(s, n, sensor)
            IN Still(r) /\ r.unit_nr = s.unit_nr /\ r.unit = s.unit
<1> DEFINE e == s.early \cup StepEarly(s)
<1>1. s \in Dev BY DEF Still, Safe
<1>2. e \in SUBSET EarlyOps
  BY <1>1 DEF Dev, StepEarly, EarlyOps
<1>3. ASSUME NEW q \in [Units -> Int]
      PROVE  LET r == Shifted(s, q, e)
             IN Still(r) /\ r.unit_nr = s.unit_nr /\ r.unit = s.unit
  <2> DEFINE r == Shifted(s, q, e)
  <2>1. /\ r \in Dev /\ r.settle = s.settle /\ r.pre = s.pre /\ r.post = s.post
        /\ r.od = s.od /\ r.mask = s.mask /\ r.wgate = s.wgate /\ r.early = e
        /\ r.unit_nr = s.unit_nr /\ r.unit = s.unit
    BY <1>1, <1>2, ShiftedDev
  <2> HIDE DEF r
  <2>2. Still(r) BY <2>1, StepsStill
  <2>3. QED BY <2>1, <2>2 DEF r
<1>4. /\ step_in(s, n) = Shifted(s, InTo(s, n), e)
      /\ step_out(s, n, sensor) = Shifted(s, OutTo(s, n, sensor), e)
      /\ InTo(s, n) \in [Units -> Int] /\ OutTo(s, n, sensor) \in [Units -> Int]
  BY <1>1, StepIs, ToInt
<1> HIDE DEF e
<1>5. QED BY <1>3, <1>4

\* Steps leave the delay settings alone.
LEMMA StepDelay ==
  ASSUME NEW s \in Dev, NEW n \in Int, NEW sensor \in BOOLEAN
  PROVE  step_in(s, n).delay = s.delay /\ step_out(s, n, sensor).delay = s.delay
<1> DEFINE e == s.early \cup StepEarly(s)
<1>1. e \in SUBSET EarlyOps BY DEF Dev, StepEarly, EarlyOps
<1>2. /\ step_in(s, n) = Shifted(s, InTo(s, n), e)
      /\ step_out(s, n, sensor) = Shifted(s, OutTo(s, n, sensor), e)
      /\ InTo(s, n) \in [Units -> Int] /\ OutTo(s, n, sensor) \in [Units -> Int]
  BY StepIs, ToInt
<1> HIDE DEF e
<1>3. QED BY <1>1, <1>2, ShiftedDev

\* A no-click step may fall in the settle time, and comes too early then.
LEMMA NoclickStepSettling ==
  ASSUME NEW s, Settling(s)
  PROVE  LET r == NoclickStep(s) IN Settling(r)
<1> DEFINE x == IF s.post > 0 \/ s.wgate THEN {"step"}
                ELSE IF s.settle > 0 THEN {"noclick"} ELSE {}
           e == s.early \cup x
           q == OutTo(s, 1, TRUE)
           r == Shifted(s, q, e)
<1>1. s \in Dev /\ s.early \subseteq {"noclick"} BY DEF Settling, Safe
<1>2. x \subseteq {"noclick"} BY DEF Settling
<1>a. 1 \in Int /\ TRUE \in BOOLEAN OBVIOUS
<1>3. q \in [Units -> Int] /\ NoclickStep(s) = r
  BY <1>1, <1>a, NoclickIs, ToInt
<1> HIDE DEF x, q
<1>4. e \in SUBSET EarlyOps /\ e \subseteq {"noclick"}
  BY <1>1, <1>2 DEF EarlyOps
<1> HIDE DEF e
<1>5. /\ r \in Dev /\ r.settle = s.settle /\ r.pre = s.pre /\ r.post = s.post
      /\ r.od = s.od /\ r.mask = s.mask /\ r.wgate = s.wgate /\ r.early = e
      /\ r.delay = s.delay
  BY <1>1, <1>3, <1>4, ShiftedDev
<1> HIDE DEF r
<1>6. Safe(r)
  BY <1>4, <1>5 DEF Settling, Safe, DelayCovers
<1>7. QED BY <1>3, <1>5, <1>6 DEF Settling

\* A settle time later the device is still.
LEMMA SettledStill ==
  ASSUME NEW s, Settling(s)
  PROVE  Still(Elapse(s, s.delay.seek_settle))
<1> DEFINE d == s.delay.seek_settle
           e == Elapse(s, d)
<1>1. s \in Dev /\ d \in Nat /\ s.settle \in Nat /\ s.post \in Nat /\ s.settle <= d
      /\ s.post = 0 /\ ~s.wgate /\ Safe(s)
  BY DEF Settling, Safe, Dev, Delays
<1> HIDE DEF d
<1>2. e.settle = Less(s.settle, d) /\ e.post = Less(s.post, d)
  BY <1>1, ElapseDev
<1>3. Safe(e) /\ e.wgate = s.wgate BY <1>1, ElapseSafe
<1>4. e.settle = 0 /\ e.post = 0 BY <1>1, <1>2, LessNat
<1>5. QED BY <1>1, <1>3, <1>4 DEF Still, d

\* Still depends only on the fields that SameTiming lists.
LEMMA SameStill ==
  ASSUME NEW s, Still(s), NEW r \in Dev, SameTiming(r, s)
  PROVE  Still(r)
BY SameSafe DEF Still, SameTiming

\* The assignments to a unit's fields keep its type.
LEMMA CylEdit ==
  ASSUME NEW o \in UnitRec, NEW k \in Int PROVE [o EXCEPT !.cyl = k] \in UnitRec
BY DEF UnitRec

\* So does setting initialised,
LEMMA InitialisedEdit ==
  ASSUME NEW o \in UnitRec, NEW b \in BOOLEAN
  PROVE  [o EXCEPT !.initialised = b] \in UnitRec
BY DEF UnitRec

\* and so does setting is_flippy.
LEMMA FlippyEdit ==
  ASSUME NEW o \in UnitRec, NEW b \in BOOLEAN
  PROVE  [o EXCEPT !.is_flippy = b] \in UnitRec
BY DEF UnitRec

\* The two assignments at the end of the search for track 0.
LEMMA ZeroEdit ==
  ASSUME NEW o \in UnitRec, NEW b \in BOOLEAN
  PROVE  [o EXCEPT !.cyl = 0, !.is_flippy = b] \in UnitRec
<1> DEFINE p == [o EXCEPT !.cyl = 0]
<1>1. p \in UnitRec BY CylEdit
<1>2. [o EXCEPT !.cyl = 0, !.is_flippy = b] = [p EXCEPT !.is_flippy = b]
  OBVIOUS
<1> HIDE DEF p
<1>3. QED BY <1>1, <1>2, FlippyEdit

\* The two assignments when a flippy drive has been found at cylinder 1.
LEMMA OneEdit ==
  ASSUME NEW o \in UnitRec
  PROVE  [o EXCEPT !.cyl = 1, !.initialised = TRUE] \in UnitRec
<1> DEFINE p == [o EXCEPT !.cyl = 1]
<1>1. p \in UnitRec BY CylEdit
<1>2. [o EXCEPT !.cyl = 1, !.initialised = TRUE] = [p EXCEPT !.initialised = TRUE]
  OBVIOUS
<1> HIDE DEF p
<1>3. QED BY <1>1, <1>2, InitialisedEdit

\* New delay parameters do not affect delays already running.
LEMMA SetDelaySafe ==
  ASSUME NEW s, Safe(s), NEW d \in Delays
  PROVE  LET r == [s EXCEPT !.delay = d] IN Safe(r) /\ r.wgate = s.wgate
<1>1. LET r == [s EXCEPT !.delay = d] IN r \in Dev /\ SameTiming(r, s)
  BY DEF Safe, Dev, SameTiming
<1>2. QED BY <1>1, SameSafe DEF SameTiming

\* Setting the return code changes nothing else.
LEMMA ReturnStill ==
  ASSUME NEW s, NEW c \in Acks
  PROVE  /\ Safe(s) => /\ Safe(Return(s, c)) /\ Return(s, c).wgate = s.wgate
                       /\ Return(s, c).rc = c
                       /\ Return(s, c).post = s.post
                       /\ Return(s, c).settle = s.settle /\ Return(s, c).pre = s.pre
                       /\ Return(s, c).unit_nr = s.unit_nr /\ Return(s, c).unit = s.unit
         /\ Still(s) => Still(Return(s, c))
<1>1. ASSUME Safe(s)
      PROVE  /\ Return(s, c) \in Dev /\ SameTiming(Return(s, c), s)
             /\ Return(s, c).rc = c
             /\ Return(s, c).unit_nr = s.unit_nr /\ Return(s, c).unit = s.unit
  BY <1>1 DEF Return, Safe, Dev, SameTiming
<1>2. QED BY <1>1, SameSafe DEF Still, SameTiming

\* Time passing keeps the device still.
LEMMA ElapseStill ==
  ASSUME NEW s, Still(s), NEW n \in Nat
  PROVE  LET r == Elapse(s, n)
         IN Still(r) /\ r.unit_nr = s.unit_nr /\ r.unit = s.unit /\ r.rc = s.rc
<1>1. s \in Dev /\ s.post = 0 /\ s.settle = 0 BY DEF Still, Safe
<1>2. Elapse(s, n).unit_nr = s.unit_nr /\ Elapse(s, n).unit = s.unit
  BY <1>1, ElapseDev
<1>3. Elapse(s, n).post = Less(0, n) /\ Elapse(s, n).settle = Less(0, n)
  BY <1>1, ElapseDev
<1>4. Elapse(s, n).rc = s.rc BY <1>1 DEF Elapse, Dev
<1>5. QED BY <1>1, <1>2, <1>3, <1>4, ElapseSafe DEF Still, Less

\* A synchronous settle delay ends before anything else can happen.
LEMMA SettleSyncStill ==
  ASSUME NEW s, Still(s)
  PROVE  LET r == SettleSync(s)
         IN Still(r) /\ r.unit_nr = s.unit_nr /\ r.unit = s.unit /\ r.rc = s.rc
<1> DEFINE d == s.delay.seek_settle
           t == [s EXCEPT !.settle = d]
           e == Elapse(t, d)
<1>1. d \in Nat /\ s \in Dev BY DEF Still, Safe, Dev, Delays
<1> HIDE DEF d
<1>2. /\ t \in Dev /\ t.settle = d /\ t.pre = s.pre /\ t.post = 0
      /\ t.od = s.od /\ t.mask = s.mask /\ t.early = s.early /\ t.wgate = s.wgate
      /\ t.unit_nr = s.unit_nr /\ t.unit = s.unit /\ t.rc = s.rc
  BY <1>1 DEF Still, Dev
<1> HIDE DEF t
<1>3. /\ e \in Dev /\ e.settle = Less(d, d) /\ e.pre = Less(s.pre, d)
      /\ e.post = Less(0, d) /\ e.od = Less(s.od, d) /\ e.mask = s.mask
      /\ e.early = s.early /\ e.wgate = s.wgate
      /\ e.unit_nr = s.unit_nr /\ e.unit = s.unit
  BY <1>1, <1>2, ElapseDev
<1>4. e.rc = s.rc BY <1>2 DEF Elapse, Dev
<1> HIDE DEF e
<1>5. e.post = 0 /\ e.settle = 0 BY <1>1, <1>3 DEF Less
<1>6. s.pre \in Nat /\ s.od \in Nat BY <1>1 DEF Dev
<1>7. e.pre > 0 => "write" \in e.mask /\ e.pre <= e.od
  BY <1>1, <1>3, <1>6, ElapsePast DEF Still, Safe, DelayCovers
<1>8. QED BY <1>3, <1>4, <1>5, <1>7 DEF Still, Safe, DelayCovers, SettleSync, d, t, e

\* A set of step counts that is not empty has a least member.
LEMMA LeastCount ==
  ASSUME NEW T \in SUBSET (1..MaxInSteps), T # {}
  PROVE  \E n \in T : \A m \in T : n <= m
<1>1. \A m \in T : m \in {1, 2, 3, 4, 5, 6, 7, 8, 9, 10}
  BY DEF MaxInSteps
<1>2. CASE 1 \in T BY <1>1, <1>2
<1>3. CASE 1 \notin T /\ 2 \in T BY <1>1, <1>3
<1>4. CASE 1 \notin T /\ 2 \notin T /\ 3 \in T BY <1>1, <1>4
<1>5. CASE T \cap {1, 2, 3} = {} /\ 4 \in T BY <1>1, <1>5
<1>6. CASE T \cap {1, 2, 3, 4} = {} /\ 5 \in T BY <1>1, <1>6
<1>7. CASE T \cap {1, 2, 3, 4, 5} = {} /\ 6 \in T BY <1>1, <1>7
<1>8. CASE T \cap {1, 2, 3, 4, 5, 6} = {} /\ 7 \in T BY <1>1, <1>8
<1>9. CASE T \cap {1, 2, 3, 4, 5, 6, 7} = {} /\ 8 \in T BY <1>1, <1>9
<1>10. CASE T \cap {1, 2, 3, 4, 5, 6, 7, 8} = {} /\ 9 \in T BY <1>1, <1>10
<1>11. CASE T \cap {1, 2, 3, 4, 5, 6, 7, 8, 9} = {} /\ 10 \in T BY <1>1, <1>11
<1>12. QED
  BY <1>1, <1>2, <1>3, <1>4, <1>5, <1>6, <1>7, <1>8, <1>9, <1>10, <1>11

\* The count at which StepToOne stops.
FirstIn(w) == CHOOSE n \in InSteps(w) : \A m \in InSteps(w) : n <= m

\* It is the first at which track 0 is no longer reported.
LEMMA FirstInIs ==
  ASSUME NEW w, InSteps(w) # {}
  PROVE  /\ FirstIn(w) \in InSteps(w) /\ FirstIn(w) \in 1..MaxInSteps
         /\ \A m \in InSteps(w) : FirstIn(w) <= m
<1>1. InSteps(w) \in SUBSET (1..MaxInSteps) BY DEF InSteps
<1>2. \E n \in InSteps(w) : \A m \in InSteps(w) : n <= m BY <1>1, LeastCount
<1>3. QED BY <1>1, <1>2 DEF FirstIn

\* Stepping a flippy drive in from below cylinder 0 keeps the device still.
LEMMA ToOneStill ==
  ASSUME NEW s, Still(s), NEW u \in Units
  PROVE  LET r == StepToOne(s, u) IN Still(r) /\ r.unit_nr = s.unit_nr
<1> DEFINE w == Elapse(s, s.delay.seek_settle)
           in == FirstIn(w)
           c == step_in(w, in)
           f == step_in(w, MaxInSteps)
           y == [c EXCEPT !.unit[u] = [@ EXCEPT !.cyl = 1, !.initialised = TRUE],
                          !.rc = "OKAY"]
<1>1. StepToOne(s, u) = IF InSteps(w) = {} THEN Return(f, "NO_TRK0") ELSE y
  BY DEF StepToOne, FirstIn
<1>2. MaxInSteps \in Int /\ s.delay.seek_settle \in Nat
  BY DEF Still, Safe, Dev, Delays, MaxInSteps
<1>3. Still(w) /\ w.unit_nr = s.unit_nr
  BY <1>2, ElapseStill
<1>a. InSteps(w) # {} => in \in Int
  BY FirstInIs
<1> HIDE DEF w, in
<1>4. /\ InSteps(w) # {} => Still(c) /\ c.unit_nr = s.unit_nr /\ c \in Dev
      /\ Still(f) /\ f.unit_nr = s.unit_nr
  BY <1>2, <1>3, <1>a, StepStill DEF Still, Safe
<1> HIDE DEF c, f
<1>5. ASSUME InSteps(w) # {} PROVE Still(y) /\ y.unit_nr = s.unit_nr
  <2> DEFINE o == c.unit[u]
             v == [o EXCEPT !.cyl = 1, !.initialised = TRUE]
             vv == [c.unit EXCEPT ![u] = v]
  <2>1. c.unit \in [Units -> UnitRec] /\ o \in UnitRec /\ c \in Dev
    BY <1>4, <1>5 DEF Dev
  <2>2. y = [c EXCEPT !.unit = vv, !.rc = "OKAY"]
    BY <2>1 DEF Dev, UnitRec
  <2> HIDE DEF o
  <2>3. v \in UnitRec BY <2>1, OneEdit
  <2> HIDE DEF v
  <2>4. vv \in [Units -> UnitRec] BY <2>1, <2>3
  <2> HIDE DEF vv, y
  <2>5. y \in Dev /\ SameTiming(y, c) /\ y.unit_nr = s.unit_nr
    BY <1>4, <1>5, <2>2, <2>4 DEF Dev, SameTiming, Acks
  <2>6. QED BY <1>4, <1>5, <2>5, SameStill
<1> HIDE DEF y
<1>6. Still(Return(f, "NO_TRK0")) /\ Return(f, "NO_TRK0").unit_nr = s.unit_nr
  BY <1>4, ReturnStill DEF Still, Acks
<1>7. QED BY <1>1, <1>5, <1>6

\* Recording that track 0 was found keeps the device still.
LEMMA AtTrack0Still ==
  ASSUME NEW s, Still(s), NEW u \in Units
  PROVE  LET r == AtTrack0(s, u) IN Still(r) /\ r.unit_nr = s.unit_nr
<1> DEFINE o == s.unit[u]
           v == [o EXCEPT !.cyl = 0, !.is_flippy = TRUE]
           vv == [s.unit EXCEPT ![u] = v]
           a == [s EXCEPT !.unit = vv]
           x == [cyl |-> 0, is_flippy |-> FALSE, initialised |-> TRUE, motor |-> o.motor]
           xx == [s.unit EXCEPT ![u] = x]
           b == [s EXCEPT !.unit = xx, !.rc = "OKAY"]
<1>1. s \in Dev /\ s.unit \in [Units -> UnitRec] /\ o \in UnitRec
  BY DEF Still, Safe, Dev
<1>2. AtTrack0(s, u) = IF flippy_detect(s) THEN StepToOne(a, u) ELSE b
  BY <1>1 DEF AtTrack0, Dev
<1>3. x \in UnitRec BY <1>1 DEF UnitRec
<1> HIDE DEF o, x
<1>4. v \in UnitRec BY <1>1, ZeroEdit
<1> HIDE DEF v
<1>5. vv \in [Units -> UnitRec] /\ xx \in [Units -> UnitRec] BY <1>1, <1>3, <1>4
<1> HIDE DEF vv, xx
<1>6. a \in Dev /\ SameTiming(a, s) /\ a.unit_nr = s.unit_nr
  BY <1>1, <1>5 DEF Dev, SameTiming
<1>7. b \in Dev /\ SameTiming(b, s) /\ b.unit_nr = s.unit_nr
  BY <1>1, <1>5 DEF Dev, SameTiming, Acks
<1> HIDE DEF a, b
<1>8. Still(a) /\ Still(b) BY <1>6, <1>7, SameStill
<1>9. QED BY <1>2, <1>6, <1>7, <1>8, ToOneStill

\* Listening changes neither timing nor type.
LEMMA ListenedDev ==
  ASSUME NEW s \in Dev
  PROVE  LET r == Listened(s)
         IN /\ r \in Dev /\ SameTiming(r, s) /\ r.unit_nr = s.unit_nr /\ r.rc = s.rc
            /\ r.unit = s.unit /\ r.bus_type = s.bus_type /\ r.line = s.line
            /\ r.pos = s.pos /\ r.delay = s.delay
            /\ r.stray = (s.stray \/ Astray(s))
            /\ r.found = IF Astray(s) THEN {} ELSE s.found
<1> DEFINE b == s.stray \/ Astray(s)
           k == IF Astray(s) THEN {} ELSE s.found
           r == [s EXCEPT !.stray = b, !.found = k]
<1>1. b \in BOOLEAN /\ k \in SUBSET Units
  BY DEF Dev, Astray, HostSelects
<1>2. Listened(s) = r BY ListenedIs
<1> HIDE DEF b, k
<1>3. /\ r \in Dev /\ SameTiming(r, s) /\ r.unit_nr = s.unit_nr /\ r.rc = s.rc
      /\ r.unit = s.unit /\ r.bus_type = s.bus_type /\ r.line = s.line
      /\ r.pos = s.pos /\ r.delay = s.delay /\ r.stray = b /\ r.found = k
  BY <1>1 DEF Dev, SameTiming
<1>4. QED BY <1>2, <1>3 DEF b, k

\* Counting a drive as found changes neither timing nor type.
LEMMA FoundDev ==
  ASSUME NEW s \in Dev, s.unit_nr \in Units
  PROVE  LET r == Found(s)
         IN /\ r \in Dev /\ SameTiming(r, s) /\ r.unit_nr = s.unit_nr /\ r.rc = s.rc
            /\ r.unit = s.unit /\ r.bus_type = s.bus_type /\ r.line = s.line
            /\ r.pos = s.pos /\ r.stray = s.stray
            /\ r.found = IF s.rc = "OKAY" /\ ~s.stray THEN s.found \cup {s.unit_nr}
                                                      ELSE s.found
<1> DEFINE k == IF s.rc = "OKAY" /\ ~s.stray THEN s.found \cup {s.unit_nr} ELSE s.found
           r == [s EXCEPT !.found = k]
<1>1. k \in SUBSET Units BY DEF Dev
<1>2. Found(s) = r BY DEF Found
<1> HIDE DEF k
<1>3. /\ r \in Dev /\ SameTiming(r, s) /\ r.unit_nr = s.unit_nr /\ r.rc = s.rc
      /\ r.unit = s.unit /\ r.bus_type = s.bus_type /\ r.line = s.line
      /\ r.pos = s.pos /\ r.stray = s.stray /\ r.found = k
  BY <1>1 DEF Dev, SameTiming
<1>4. QED BY <1>2, <1>3 DEF k

\* The number of steps to track 0 is a number.
LEMMA OutStepsNat ==
  ASSUME NEW s \in Dev
  PROVE  OutSteps(s) \in Nat
<1>1. ASSUME NEW u \in Units PROVE ToTrack0(s, u) \in Nat
  <2>1. s.pos[u] \in 1..255 => s.pos[u] \in Nat OBVIOUS
  <2>2. \/ ToTrack0(s, u) = 256 \/ ToTrack0(s, u) = 0
        \/ ToTrack0(s, u) = s.pos[u] /\ s.pos[u] \in 1..255
    BY DEF ToTrack0
  <2>3. QED BY <2>1, <2>2
<1>2. 0 \in Units /\ 1 \in Units /\ 2 \in Units /\ 3 \in Units BY DEF Units
<1>3. QED BY <1>1, <1>2 DEF OutSteps, Smaller

\* Synchronising to track 0 keeps the device still on every one of its exits.
LEMMA InitialiseStill ==
  ASSUME NEW s, Still(s), s.unit_nr \in Units
  PROVE  LET r == floppy_seek_initialise(s)
         IN Still(r) /\ r.unit_nr = s.unit_nr
<1> DEFINE l == Listened(s)
           out == OutSteps(l)
           f == step_out(l, out, TRUE)
           a == IF out = 0 THEN l ELSE f
           z == IF out = 256 THEN Return(f, "NO_TRK0") ELSE AtTrack0(a, l.unit_nr)
           y == SettleSync(z)
<1>0. floppy_seek_initialise(s) = Found(y)
  BY DEF floppy_seek_initialise
<1>1. l \in Dev /\ Still(l) /\ l.unit_nr = s.unit_nr
  BY ListenedDev, SameStill DEF Still, Safe
<1> HIDE DEF l
<1>2. out \in Int
  BY <1>1, OutStepsNat
<1> HIDE DEF out
<1>3. Still(f) /\ f.unit_nr = s.unit_nr /\ f \in Dev
  BY <1>1, <1>2, StepStill DEF Still, Safe
<1> HIDE DEF f
<1>4. Still(a) /\ a.unit_nr = s.unit_nr
  BY <1>1, <1>3
<1> HIDE DEF a
<1>5. Still(z) /\ z.unit_nr = s.unit_nr
  BY <1>1, <1>3, <1>4, AtTrack0Still, ReturnStill DEF Still, Acks
<1> HIDE DEF z
<1>6. Still(y) /\ y.unit_nr = s.unit_nr
  BY <1>5, SettleSyncStill
<1> HIDE DEF y
<1>7. y \in Dev /\ y.unit_nr \in Units BY <1>6 DEF Still, Safe
<1>8. Found(y) \in Dev /\ SameTiming(Found(y), y) /\ Found(y).unit_nr = y.unit_nr
  BY <1>7, FoundDev
<1>9. QED BY <1>0, <1>6, <1>8, SameStill

\* A device that is still may be taken for one that settles.
LEMMA StillSettling ==
  ASSUME NEW s, Still(s)
  PROVE  Settling(s)
<1>1. s.delay.seek_settle \in Nat BY DEF Still, Safe, Dev, Delays
<1>2. QED BY <1>1 DEF Still, Settling

\* A seek from a synchronised drive ends with the head settling.
LEMMA SeekFromStill ==
  ASSUME NEW i, Still(i), i.unit_nr \in Units, NEW cyl \in Int
  PROVE  LET r == SeekFrom(i, cyl) IN Settling(r) /\ r.unit_nr = i.unit_nr
<1> DEFINE u == i.unit_nr
           g == Return(i, "BAD_CYLINDER")
           h == SeekSteps(i, u, cyl)
           f == SeekFrom(i, cyl)
<1>1. f = i \/ f = g \/ f = h
  BY DEF SeekFrom
<1>2. u \in Units /\ i.unit_nr = u OBVIOUS
<1>3. Settling(i) /\ Settling(g) /\ g.unit_nr = i.unit_nr
  BY ReturnStill, StillSettling DEF Acks, Still
<1> HIDE DEF u, f, g
<1>4. Settling(h) /\ h.unit_nr = u
  <2> DEFINE from == i.unit[u].cyl
             m == IF from < cyl THEN step_in(i, cyl - from)
                  ELSE step_out(i, from - cyl, cyl >= 0)
             d == i.delay.seek_settle
             q == op_delay_async([m EXCEPT !.settle = d], {"read", "write", "seek"}, d)
             v == [q.unit EXCEPT ![u].cyl = cyl]
             x == SeekSteps(i, u, cyl)
  <2>1. from \in Int /\ d \in Nat /\ (cyl >= 0) \in BOOLEAN /\ i \in Dev
    BY <1>2 DEF Still, Safe, Dev, UnitRec, Delays
  <2>2. x = [q EXCEPT !.unit[u].cyl = cyl, !.rc = "OKAY"]
    BY DEF SeekSteps
  <2>b. cyl - from \in Int /\ from - cyl \in Int BY <2>1
  <2>3. Still(m) /\ m.unit_nr = u /\ m.unit = i.unit
    BY <1>2, <2>1, <2>b, StepStill
  <2>a. m.delay = i.delay
    BY <2>1, <2>b, StepDelay
  <2> HIDE DEF from, d, x
  <2> HIDE DEF m
  <2>4. /\ Safe(q) /\ q.wgate = m.wgate /\ q.post <= m.post /\ q.unit_nr = u
        /\ q.settle <= d /\ q.delay = m.delay
    BY <2>1, <2>3, AsyncSettle DEF Still
  <2> HIDE DEF q
  <2>5. Settling(q)
    BY <2>3, <2>4, <2>a DEF Still, Settling, Safe, Dev, d
  <2>6. v \in [Units -> UnitRec]
    BY <1>2, <2>4 DEF Safe, Dev, UnitRec
  <2>7. x = [q EXCEPT !.unit = v, !.rc = "OKAY"]
    BY <2>2, <2>4 DEF Safe, Dev
  <2> HIDE DEF v
  <2>8. x \in Dev /\ SameTiming(x, q) /\ x.unit_nr = u /\ x.delay = q.delay
    BY <2>4, <2>6, <2>7 DEF Safe, Dev, SameTiming, Acks
  <2>9. QED BY <2>5, <2>8, SameSafe DEF x, Settling, SameTiming
<1>5. QED BY <1>1, <1>3, <1>4 DEF u, f

\* A seek ends with the head settling if it succeeds; a drive is selected then.
LEMMA SeekSafe ==
  ASSUME NEW s, Safe(s), ~s.wgate, NEW cyl \in Int
  PROVE  LET r == floppy_seek(s, cyl)
         IN /\ Safe(r) /\ ~r.wgate
            /\ r.rc = "OKAY" => Settling(r) /\ r.unit_nr \in Units
<1> DEFINE u == s.unit_nr
           w == op_delay_wait(s, "seek")
           i == Synchronised(w)
           f == SeekFrom(i, cyl)
           g == Return(s, "NO_UNIT")
<1>1. floppy_seek(s, cyl) = IF u = NoUnit THEN g ELSE f
  BY DEF floppy_seek
<1>2. Safe(g) /\ g.wgate = s.wgate /\ g.rc = "NO_UNIT"
  BY ReturnStill DEF Acks
<1>3. ASSUME u # NoUnit PROVE Settling(f) /\ f.unit_nr \in Units
  <2>1. u \in Units BY <1>3 DEF Safe, Dev, NoUnit, Units
  <2>2. Safe(w) /\ w.wgate = s.wgate /\ "seek" \notin w.mask /\ w.unit_nr = u
    BY WaitSafe DEF DelayOps
  <2>3. Still(w)
    BY <2>2, WaitCovers DEF Still
  <2> HIDE DEF w, u
  <2>4. Still(i) /\ i.unit_nr = u
    BY <2>1, <2>2, <2>3, InitialiseStill, ReturnStill DEF Still, Acks, Synchronised
  <2> HIDE DEF i
  <2>5. QED BY <2>1, <2>4, SeekFromStill
<1> HIDE DEF f, g, u
<1>4. QED BY <1>1, <1>2, <1>3 DEF Settling

\* A no-click step never steps under an open gate or before post_write is over.
LEMMA NoclickSafe ==
  ASSUME NEW s, Safe(s), ~s.wgate
  PROVE  LET r == floppy_noclick_step(s) IN Safe(r) /\ ~r.wgate
<1> DEFINE z == floppy_seek(s, 0)
           o == NoclickStep(z)
           d == o.delay.seek_settle
           w == Elapse(o, d)
           back == step_in(w, 1)
           e == Elapse(back, d)
           g == Return(e, "BAD_CYLINDER")
           r == floppy_noclick_step(s)
<1>1. Safe(z) /\ ~z.wgate /\ (z.rc = "OKAY" => Settling(z))
  BY SeekSafe
<1>2. r = IF z.rc # "OKAY" THEN z
          ELSE IF get_trk0(o, TRUE) THEN o ELSE g
  BY DEF floppy_noclick_step, NoclickFrom, NoclickBack
<1> HIDE DEF z, r
<1>3. ASSUME z.rc = "OKAY" PROVE Settling(o) /\ Still(g)
  <2>1. Settling(z) BY <1>1, <1>3
  <2>2. Settling(o) BY <2>1, NoclickStepSettling
  <2>3. d \in Nat BY <2>2 DEF Settling, Safe, Dev, Delays
  <2> HIDE DEF o
  <2>4. Still(w) BY <2>2, SettledStill
  <2> HIDE DEF w, d
  <2>a. 1 \in Int /\ TRUE \in BOOLEAN OBVIOUS
  <2>5. Still(back) BY <2>4, <2>a, StepStill
  <2> HIDE DEF back
  <2>6. Still(e) BY <2>3, <2>5, ElapseStill
  <2> HIDE DEF e
  <2>7. QED BY <2>2, <2>6, ReturnStill DEF Acks
<1> HIDE DEF o, g
<1>4. QED BY <1>1, <1>2, <1>3 DEF Still, Settling, r

\* A head change waits for post_write and covers pre_write.
LEMMA HeadSafe ==
  ASSUME NEW s, Safe(s), ~s.wgate, NEW h \in BOOLEAN
  PROVE  LET r == head_select(s, h) IN Safe(r) /\ ~r.wgate
<1> DEFINE w == op_delay_wait(s, "head")
           d == s.delay.pre_write
           x == w.early \cup (IF w.post > 0 \/ w.wgate THEN {"head"} ELSE {})
           t == [w EXCEPT !.head = h, !.pre = d, !.early = x]
<1>1. Safe(w) /\ w.wgate = s.wgate /\ "head" \notin w.mask
  BY WaitSafe DEF DelayOps
<1>2. head_select(s, h) = IF s.head = h THEN s ELSE op_delay_async(t, {"write"}, d)
  BY DEF head_select
<1>3. d \in Nat BY DEF Safe, Dev, Delays
<1>4. w.post = 0 BY <1>1, WaitCovers
<1>5. x = w.early BY <1>1, <1>4
<1> HIDE DEF w, d, x
<1>6. /\ t \in Dev /\ t.settle = w.settle /\ t.pre = d /\ t.post = w.post
      /\ t.od = w.od /\ t.mask = w.mask /\ t.early = w.early /\ t.wgate = w.wgate
  BY <1>1, <1>3, <1>5 DEF Safe, Dev
<1> HIDE DEF t
<1>7. CoversSoon(t, {"write"}, d)
  BY <1>1, <1>3, <1>6 DEF Safe, DelayCovers, CoversSoon
<1>8. t.early \subseteq {"noclick"} BY <1>1, <1>6 DEF Safe
<1>9. QED BY <1>1, <1>2, <1>3, <1>6, <1>7, <1>8, AsyncSafe DEF DelayOps

\* The write gate may open once no documented delay is running any more.
LEMMA GateSafe ==
  ASSUME NEW s, Safe(s), s.settle = 0, s.pre = 0, s.post = 0
  PROVE  Safe(WriteGateOn(s)) /\ WriteGateOn(s).wgate
<1> DEFINE l == [s.line EXCEPT ![WGATE] = "on"]
           r == [s EXCEPT !.wgate = TRUE, !.line = l, !.early = s.early]
<1>1. l \in [Pins -> Levels]
  BY DEF Safe, Dev, Levels
<1>2. s.early \cup (IF s.settle > 0 \/ s.pre > 0 \/ s.post > 0 THEN {"write"} ELSE {})
        = s.early
  OBVIOUS
<1>3. WriteGateOn(s) = r
  BY <1>2 DEF WriteGateOn
<1> HIDE DEF l
<1>4. /\ r \in Dev /\ r.wgate = TRUE /\ r.early = s.early /\ r.settle = s.settle
      /\ r.pre = s.pre /\ r.post = s.post /\ r.mask = s.mask /\ r.od = s.od
  BY <1>1 DEF Safe, Dev
<1> HIDE DEF r
<1>5. QED BY <1>3, <1>4 DEF Safe, DelayCovers

\* Bringing one unit back to cylinder 0 and stopping its motor is safe.
LEMMA QuiesceUnitSafe ==
  ASSUME NEW s, Safe(s), ~s.wgate, NEW i \in Units
  PROVE  LET r == quiesce_unit(s, i) IN Safe(r) /\ ~r.wgate
<1> DEFINE v == drive_select(s, i)
           f == floppy_seek(v, 0)
           z == IF s.unit[i].initialised /\ s.unit[i].cyl < 0 THEN f ELSE s
<1>1. s \in Dev /\ i \in Nat BY DEF Safe, Units
<1>2. v \in Dev /\ SameTiming(v, s) BY <1>1, SelectDev
<1> HIDE DEF v
<1>3. Safe(v) /\ ~v.wgate BY <1>2, SameSafe DEF SameTiming
<1>4. Safe(f) /\ ~f.wgate BY <1>3, SeekSafe
<1>5. quiesce_unit(s, i) = IF z.unit[i].motor THEN drive_motor(z, i, FALSE) ELSE z
  BY DEF quiesce_unit, QuiesceMotor, v
<1> HIDE DEF f
<1>6. Safe(z) /\ ~z.wgate /\ z \in Dev BY <1>4 DEF Safe
<1> HIDE DEF z
<1> DEFINE m == drive_motor(z, i, FALSE)
<1>7. m \in Dev /\ SameTiming(m, z)
  BY <1>1, <1>6, MotorDev
<1> HIDE DEF m
<1>8. Safe(m) /\ ~m.wgate
  BY <1>6, <1>7, SameSafe DEF SameTiming
<1>9. QED BY <1>5, <1>6, <1>8 DEF m

\* quiesce_drives() shuts the gate and is safe from any safe device.
LEMMA QuiesceSafe ==
  ASSUME NEW s, Safe(s)
  PROVE  LET r == quiesce_drives(s) IN Safe(r) /\ ~r.wgate
<1> DEFINE q0 == quiesce_unit(floppy_flux_end(s), 0)
           q1 == quiesce_unit(q0, 1)
           q2 == quiesce_unit(q1, 2)
           q3 == quiesce_unit(q2, 3)
           d == drive_deselect(q3)
           r == [d EXCEPT !.armed = FALSE]
<1>1. quiesce_drives(s) = r BY DEF quiesce_drives
<1>2. Safe(floppy_flux_end(s)) /\ ~floppy_flux_end(s).wgate BY FluxEndSafe
<1>3. Safe(q0) /\ ~q0.wgate BY <1>2, QuiesceUnitSafe DEF Units
<1> HIDE DEF q0
<1>4. Safe(q1) /\ ~q1.wgate BY <1>3, QuiesceUnitSafe DEF Units
<1> HIDE DEF q1
<1>5. Safe(q2) /\ ~q2.wgate BY <1>4, QuiesceUnitSafe DEF Units
<1> HIDE DEF q2
<1>6. Safe(q3) /\ ~q3.wgate BY <1>5, QuiesceUnitSafe DEF Units
<1> HIDE DEF q3
<1>7. d \in Dev /\ SameTiming(d, q3) BY <1>6, DeselectDev DEF Safe
<1> HIDE DEF d
<1>8. Safe(d) /\ ~d.wgate BY <1>6, <1>7, SameSafe DEF SameTiming
<1>9. r \in Dev /\ SameTiming(r, d) BY <1>7 DEF Dev, SameTiming
<1> HIDE DEF r
<1>10. Safe(r) /\ ~r.wgate BY <1>8, <1>9, SameSafe DEF SameTiming
<1>11. QED BY <1>1, <1>10

\* _set_bus_type() is safe from any safe device.
LEMMA BusSafe ==
  ASSUME NEW s, Safe(s), NEW type \in 0..2
  PROVE  LET r == SetBusType(s, type) IN Safe(r) /\ ~r.wgate
<1> DEFINE q == quiesce_drives(s)
           v == [u \in Units |-> BlankUnit]
           r == [q EXCEPT !.bus_type = type, !.unit_nr = NoUnit, !.unit = v,
                          !.stray = FALSE]
<1>1. SetBusType(s, type) = r BY DEF SetBusType
<1>2. Safe(q) /\ ~q.wgate BY QuiesceSafe
<1> HIDE DEF q
<1>3. BlankUnit \in UnitRec BY DEF BlankUnit, UnitRec
<1>4. v \in [Units -> UnitRec] BY <1>3
<1> HIDE DEF v
<1>a. q \in Dev /\ NoUnit \in -1..3 BY <1>2 DEF Safe, NoUnit
<1>b. r \in Dev BY <1>4, <1>a DEF Dev
<1>5. r \in Dev /\ SameTiming(r, q) BY <1>b, <1>a DEF Dev, SameTiming
<1> HIDE DEF r
<1>6. QED BY <1>1, <1>2, <1>5, SameSafe DEF SameTiming

\* set_bus_type() is safe, for the bus types it refuses as well.
LEMMA SetBusSafe ==
  ASSUME NEW s, Safe(s), ~s.wgate, NEW type \in Nat
  PROVE  LET r == set_bus_type(s, type) IN Safe(r) /\ ~r.wgate
<1>1. Safe(Return(s, "OKAY")) /\ ~Return(s, "OKAY").wgate
      /\ Safe(Return(s, "BAD_COMMAND")) /\ ~Return(s, "BAD_COMMAND").wgate
  BY ReturnStill DEF Acks
<1> DEFINE b == SetBusType(s, type)
<1>2. set_bus_type(s, type) = IF type = s.bus_type THEN Return(s, "OKAY")
        ELSE IF type > BUS_SHUGART THEN Return(s, "BAD_COMMAND") ELSE Return(b, "OKAY")
  BY DEF set_bus_type
<1>3. ~(type > BUS_SHUGART) => type \in 0..2 BY DEF BUS_SHUGART
<1>4. type \in 0..2 => Safe(b) /\ ~b.wgate BY BusSafe
<1> HIDE DEF b
<1>5. type \in 0..2 => Safe(Return(b, "OKAY")) /\ ~Return(b, "OKAY").wgate
  BY <1>4, ReturnStill DEF Acks
<1>6. QED BY <1>1, <1>2, <1>3, <1>5

\* Kicking or arming the watchdog changes nothing that Safe depends on.
LEMMA ArmSafe ==
  ASSUME NEW s, Safe(s)
  PROVE  /\ LET r == watchdog_kick(s) IN Safe(r) /\ r.wgate = s.wgate
         /\ LET r == watchdog_arm(s)
            IN Safe(r) /\ r.wgate = s.wgate /\ r.settle = s.settle
               /\ r.pre = s.pre /\ r.post = s.post
<1>1. s.delay.watchdog \in Nat /\ s \in Dev BY DEF Safe, Dev, Delays
<1>2. watchdog_kick(s) \in Dev /\ SameTiming(watchdog_kick(s), s)
  BY <1>1 DEF watchdog_kick, Dev, SameTiming
<1>3. watchdog_arm(s) \in Dev /\ SameTiming(watchdog_arm(s), s)
  BY <1>1 DEF watchdog_arm, watchdog_kick, Dev, SameTiming
<1>4. QED BY <1>2, <1>3, SameSafe DEF SameTiming

\* A device that has just started is safe, wherever the heads are; so it is
\* after a restart that remembers which operations came early.
LEMMA PowerOnSafe ==
  ASSUME NEW delay \in Delays, NEW p \in [Units -> Int], NEW e \in SUBSET {"noclick"}
  PROVE  LET r == [PowerOn(delay, p) EXCEPT !.early = e]
         IN Safe(PowerOn(delay, p)) /\ Safe(r) /\ ~r.wgate
            /\ ~PowerOn(delay, p).wgate
<1> DEFINE v == [u \in Units |-> BlankUnit]
           l == [q \in Pins |-> "off"]
           o == PowerOn(delay, p)
           r == [o EXCEPT !.early = e]
<1>1. BlankUnit \in UnitRec BY DEF BlankUnit, UnitRec
<1>2. v \in [Units -> UnitRec] /\ l \in [Pins -> Levels] BY <1>1 DEF Levels
<1>3. o = [bus_type |-> BUS_NONE, unit_nr |-> NoUnit, unit |-> v,
   delay |-> delay, wgate |-> FALSE, head |-> FALSE, line |-> l,
   mask |-> {}, od |-> 0, armed |-> FALSE, wd |-> 0, rc |-> "OKAY",
   pos |-> p, settle |-> 0, pre |-> 0, post |-> 0,
   early |-> {}, stray |-> FALSE, found |-> {}]
  BY DEF PowerOn
<1> HIDE DEF v, l, o
<1>4. /\ o \in Dev /\ o.settle = 0 /\ o.pre = 0 /\ o.post = 0
      /\ o.early = {} /\ o.wgate = FALSE
  BY <1>2, <1>3 DEF Dev, BUS_NONE, NoUnit, Acks
<1>5. Safe(o) BY <1>4 DEF Safe, DelayCovers
<1>6. /\ r \in Dev /\ r.settle = 0 /\ r.pre = 0 /\ r.post = 0 /\ r.early = e /\ r.wgate = FALSE
  BY <1>4 DEF Dev, EarlyOps
<1> HIDE DEF r
<1>7. Safe(r) BY <1>6 DEF Safe, DelayCovers
<1>8. QED BY <1>4, <1>5, <1>6, <1>7 DEF o, r

-----------------------------------------------------------------------------
(* The bus lines and the heads.                                            *)

\* The bus lines are what unit_nr, unit[].motor and the write gate say; the
\* selected unit has a select pin, and only units with a motor line of their own
\* have their motor on.
LinesTrue(s) ==
  /\ \A p \in Pins : s.line[p] \notin HostLevels => ((s.line[p] = "on") <=> Driven(s, p))
  /\ s.unit_nr # NoUnit => SelectPin(s.bus_type, s.unit_nr) \in UserPins
  /\ \A u \in Units : s.unit[u].motor =>
        /\ MotorUnit(s.bus_type, u) = u /\ u < NrUnits(s.bus_type)
        /\ MotorPin(s.bus_type, u) \in UserPins

\* Heads stay between the drives' stops; while no step went astray, only a flippy
\* drive is taken for one, and only a drive that is there is synchronised; it can
\* be selected in any case.  Nothing counts as found once a step went astray.
Plausible(s, u) ==
  /\ s.pos[u] <= LastCyl
  /\ Kind[u] = "normal" => s.pos[u] >= 0
  /\ s.unit[u].is_flippy /\ ~s.stray => Kind[u] = "flippy"
  /\ s.unit[u].initialised =>
        SelectPin(s.bus_type, u) \in UserPins /\ (~s.stray => Kind[u] # "absent")
  /\ u \in s.found => ~s.stray /\ Kind[u] # "absent"

\* The cached cylinder of unit u is where its head is; a head that was found
\* once and is not cached any more is not below track 0.
Tracked(s, u) ==
  /\ s.unit[u].initialised /\ ~s.stray => s.pos[u] = s.unit[u].cyl
  /\ u \in s.found /\ ~s.unit[u].initialised => s.pos[u] >= 0

\* What holds throughout a movement of the selected unit's head, and
KnownBut(s) ==
  /\ s \in Dev /\ LinesTrue(s)
  /\ \A u \in Units : Plausible(s, u) /\ (u # s.unit_nr => Tracked(s, u))

\* what holds of the device record between any two calls.
Known(s) == KnownBut(s) /\ \A u \in Units : Tracked(s, u)

\* r agrees with s on everything that Known looks at but the device's timing.
SameBus(r, s) ==
  /\ r.bus_type = s.bus_type /\ r.unit_nr = s.unit_nr /\ r.unit = s.unit
  /\ r.line = s.line /\ r.wgate = s.wgate /\ r.pos = s.pos /\ r.stray = s.stray
  /\ r.found = s.found

\* Known depends only on the fields that SameBus lists, and so do its parts.
LEMMA SameKnown ==
  ASSUME NEW s, NEW r \in Dev, SameBus(r, s)
  PROVE  /\ LinesTrue(s) => LinesTrue(r)
         /\ \A u \in Units : /\ Plausible(s, u) => Plausible(r, u)
                             /\ Tracked(s, u) => Tracked(r, u)
         /\ KnownBut(s) => KnownBut(r)
         /\ Known(s) => Known(r)
<1>1. LinesTrue(s) => LinesTrue(r)
  BY DEF SameBus, LinesTrue, Driven
<1>2. \A u \in Units : /\ Plausible(s, u) => Plausible(r, u)
                       /\ Tracked(s, u) => Tracked(r, u)
  BY DEF SameBus, Plausible, Tracked
<1>3. r.unit_nr = s.unit_nr
  BY DEF SameBus
<1>4. QED
  BY <1>1, <1>2, <1>3 DEF KnownBut, Known

\* The lines depend on the motors of unit[] and on no other field of it.
LEMMA SameLines ==
  ASSUME NEW s, LinesTrue(s), NEW r,
         r.line = s.line, r.bus_type = s.bus_type, r.unit_nr = s.unit_nr,
         r.wgate = s.wgate, \A u \in Units : r.unit[u].motor = s.unit[u].motor
  PROVE  LinesTrue(r)
BY DEF LinesTrue, Driven

\* What a step does, a delay or a return code does not.
LEMMA TimingBus ==
  ASSUME NEW s \in Dev
  PROVE  /\ \A n \in Nat : Elapse(s, n) \in Dev /\ SameBus(Elapse(s, n), s)
                           /\ Elapse(s, n).rc = s.rc
         /\ \A c \in Acks : /\ Return(s, c) \in Dev /\ SameBus(Return(s, c), s)
                            /\ Return(s, c).rc = c
         /\ \A d \in Delays : /\ [s EXCEPT !.delay = d] \in Dev
                              /\ SameBus([s EXCEPT !.delay = d], s)
         /\ \A d \in Nat : /\ [s EXCEPT !.settle = d] \in Dev
                           /\ SameBus([s EXCEPT !.settle = d], s)
                           /\ [s EXCEPT !.settle = d].rc = s.rc
         /\ \A m \in SUBSET DelayOps : /\ [s EXCEPT !.mask = m] \in Dev
                                       /\ SameBus([s EXCEPT !.mask = m], s)
                                       /\ [s EXCEPT !.mask = m].rc = s.rc
         /\ \A b \in BOOLEAN : /\ [s EXCEPT !.armed = b] \in Dev
                               /\ SameBus([s EXCEPT !.armed = b], s)
<1>1. ASSUME NEW n \in Nat
      PROVE  Elapse(s, n) \in Dev /\ SameBus(Elapse(s, n), s)
             /\ Elapse(s, n).rc = s.rc
  BY ElapseDev DEF Elapse, Dev, SameBus
<1>2. ASSUME NEW c \in Acks
      PROVE  Return(s, c) \in Dev /\ SameBus(Return(s, c), s) /\ Return(s, c).rc = c
  BY DEF Return, Dev, SameBus
<1>3. ASSUME NEW d \in Delays
      PROVE  [s EXCEPT !.delay = d] \in Dev /\ SameBus([s EXCEPT !.delay = d], s)
  BY DEF Dev, SameBus
<1>4. ASSUME NEW d \in Nat
      PROVE  [s EXCEPT !.settle = d] \in Dev /\ SameBus([s EXCEPT !.settle = d], s)
             /\ [s EXCEPT !.settle = d].rc = s.rc
  BY DEF Dev, SameBus
<1>5. ASSUME NEW m \in SUBSET DelayOps
      PROVE  [s EXCEPT !.mask = m] \in Dev /\ SameBus([s EXCEPT !.mask = m], s)
             /\ [s EXCEPT !.mask = m].rc = s.rc
  BY DEF Dev, SameBus
<1>6. ASSUME NEW b \in BOOLEAN
      PROVE  [s EXCEPT !.armed = b] \in Dev /\ SameBus([s EXCEPT !.armed = b], s)
  BY DEF Dev, SameBus
<1>7. QED
  BY <1>1, <1>2, <1>3, <1>4, <1>5, <1>6

\* SameBus can be chained.
LEMMA BusTrans ==
  ASSUME NEW r, NEW s, NEW t, SameBus(r, s), SameBus(s, t)
  PROVE  SameBus(r, t)
BY DEF SameBus

\* The waiting operators touch the timing only.
LEMMA WaitBus ==
  ASSUME NEW s \in Dev
  PROVE  /\ \A op : op_delay_wait(s, op) \in Dev /\ SameBus(op_delay_wait(s, op), s)
         /\ \A ops \in SUBSET DelayOps, d \in Nat :
               LET r == op_delay_async(s, ops, d)
               IN r \in Dev /\ SameBus(r, s) /\ r.rc = s.rc
         /\ LET r == SettleSync(s) IN r \in Dev /\ SameBus(r, s) /\ r.rc = s.rc
<1>0. SameBus(s, s) BY DEF SameBus
<1>1. ASSUME NEW op
      PROVE  op_delay_wait(s, op) \in Dev /\ SameBus(op_delay_wait(s, op), s)
  <2> DEFINE e == Elapse(s, s.od)
  <2>1. e \in Dev /\ SameBus(e, s)
    BY TimingBus DEF Dev
  <2> HIDE DEF e
  <2>2. [e EXCEPT !.mask = {}] \in Dev /\ SameBus([e EXCEPT !.mask = {}], e)
    BY <2>1, TimingBus
  <2>3. QED
    BY <1>0, <2>1, <2>2, BusTrans DEF op_delay_wait, e
<1>2. ASSUME NEW ops \in SUBSET DelayOps, NEW d \in Nat
      PROVE  LET r == op_delay_async(s, ops, d)
             IN r \in Dev /\ SameBus(r, s) /\ r.rc = s.rc
  <2>1. CASE d > SyncMax
    BY <2>1, TimingBus DEF op_delay_async
  <2>2. CASE ~(d > SyncMax)
    <3> DEFINE o == IF s.mask # {} THEN Larger(s.od, d) ELSE d
               m == s.mask \cup ops
               r == [s EXCEPT !.od = o, !.mask = m]
    <3>1. op_delay_async(s, ops, d) = r
      BY <2>2 DEF op_delay_async
    <3>2. o \in Nat /\ m \in SUBSET DelayOps
      BY DEF Dev, Larger
    <3> HIDE DEF o, m
    <3>3. r \in Dev /\ SameBus(r, s) /\ r.rc = s.rc
      BY <3>2 DEF Dev, SameBus
    <3>4. QED
      BY <3>1, <3>3
  <2>3. QED
    BY <2>1, <2>2
<1>3. LET r == SettleSync(s) IN r \in Dev /\ SameBus(r, s) /\ r.rc = s.rc
  <2> DEFINE d == s.delay.seek_settle
             t == [s EXCEPT !.settle = d]
             r == Elapse(t, d)
  <2>1. d \in Nat
    BY DEF Dev, Delays
  <2> HIDE DEF d
  <2>2. t \in Dev /\ SameBus(t, s) /\ t.rc = s.rc
    BY <2>1, TimingBus
  <2> HIDE DEF t
  <2>3. r \in Dev /\ SameBus(r, t) /\ r.rc = t.rc
    BY <2>1, <2>2, TimingBus
  <2> HIDE DEF r
  <2>4. SettleSync(s) = r
    BY DEF SettleSync, r, t, d
  <2>5. QED
    BY <2>2, <2>3, <2>4, BusTrans
<1>4. QED
  BY <1>1, <1>2, <1>3

-----------------------------------------------------------------------------
(* Select and motor lines.                                                 *)

\* No two units share a select pin, no select pin is a motor pin, and neither is
\* the write gate.
LEMMA PinsApart ==
  ASSUME NEW bus \in 0..2, NEW m \in Units, NEW n \in Units
  PROVE  /\ SelectPin(bus, m) \in UserPins /\ SelectPin(bus, m) = SelectPin(bus, n) => m = n
         /\ SelectPin(bus, m) \in UserPins => SelectPin(bus, m) # MotorPin(bus, n)
         /\ SelectPin(bus, m) # WGATE /\ MotorPin(bus, m) # WGATE
         /\ MotorUnit(bus, m) = m /\ m < NrUnits(bus) /\ MotorUnit(bus, n) = n
              /\ n < NrUnits(bus) /\ MotorPin(bus, m) = MotorPin(bus, n) => m = n
<1>1. m \in {0, 1, 2, 3} /\ n \in {0, 1, 2, 3} /\ bus \in {0, 1, 2} /\ -1 \notin UserPins
  BY UserPinsAssumption DEF Units
<1>2. QED
  BY <1>1 DEF SelectPin, MotorPin, MotorUnit, NrUnits, WGATE, BUS_NONE, BUS_IBMPC,
              BUS_SHUGART

\* r agrees with s on everything Plausible and Tracked look at.
SameHeads(r, s) ==
  /\ r.bus_type = s.bus_type /\ r.pos = s.pos /\ r.stray = s.stray
  /\ r.found = s.found
  /\ \A u \in Units : /\ r.unit[u].cyl = s.unit[u].cyl
                      /\ r.unit[u].initialised = s.unit[u].initialised
                      /\ r.unit[u].is_flippy = s.unit[u].is_flippy

\* An operation on the lines that leaves the heads alone keeps them known.
LEMMA HeadsKnown ==
  ASSUME NEW s, Known(s), NEW r \in Dev, LinesTrue(r), SameHeads(r, s)
  PROVE  Known(r)
<1>1. \A u \in Units : Plausible(r, u) /\ Tracked(r, u)
  BY DEF Known, KnownBut, Plausible, Tracked, SameHeads
<1>2. QED
  BY <1>1 DEF Known, KnownBut

\* r is s with the line of a pin written, if the pin exists.
PinWritten(r, s, pin, on) ==
  /\ r \in Dev /\ r.bus_type = s.bus_type /\ r.unit_nr = s.unit_nr
  /\ r.unit = s.unit /\ r.wgate = s.wgate /\ r.pos = s.pos /\ r.stray = s.stray
  /\ r.found = s.found
  /\ r.rc = "OKAY" <=> pin \in UserPins
  /\ pin \in UserPins => r.line = [s.line EXCEPT ![pin] = IF on THEN "on" ELSE "off"]

\* That is what write_mapped_pin() does.
LEMMA WritePinBus ==
  ASSUME NEW s \in Dev, NEW pin, NEW on \in BOOLEAN
  PROVE  PinWritten(write_mapped_pin(s, pin, on), s, pin, on)
<1> DEFINE l == [s.line EXCEPT ![pin] = IF on THEN "on" ELSE "off"]
           r == write_mapped_pin(s, pin, on)
<1>1. r \in Dev
  BY WritePinDev
<1>2. CASE pin \in UserPins
  <2>1. r = [s EXCEPT !.line = l, !.rc = "OKAY"]
    BY <1>2 DEF write_mapped_pin
  <2> HIDE DEF l
  <2>2. /\ r.bus_type = s.bus_type /\ r.unit_nr = s.unit_nr
        /\ r.unit = s.unit /\ r.wgate = s.wgate /\ r.pos = s.pos
        /\ r.stray = s.stray /\ r.found = s.found /\ r.rc = "OKAY" /\ r.line = l
    BY <2>1 DEF Dev
  <2>3. QED
    BY <1>1, <1>2, <2>2 DEF l, PinWritten
<1>3. CASE pin \notin UserPins
  <2>1. r = [s EXCEPT !.rc = "BAD_PIN"]
    BY <1>3 DEF write_mapped_pin, Return
  <2>2. /\ r.bus_type = s.bus_type /\ r.unit_nr = s.unit_nr
        /\ r.unit = s.unit /\ r.wgate = s.wgate /\ r.pos = s.pos
        /\ r.stray = s.stray /\ r.found = s.found /\ r.rc = "BAD_PIN"
        /\ r.line = s.line
    BY <2>1 DEF Dev
  <2>3. QED
    BY <1>1, <1>3, <2>2 DEF PinWritten
<1>4. QED
  BY <1>2, <1>3

\* One line is written, and what the firmware believes changes for its pin only.
LEMMA LineWritten ==
  ASSUME NEW s \in Dev, NEW r \in Dev, NEW pin \in UserPins \cup {WGATE},
         NEW on \in BOOLEAN,
         \A p \in Pins : s.line[p] \notin HostLevels => ((s.line[p] = "on") <=> Driven(s, p)),
         r.line = [s.line EXCEPT ![pin] = IF on THEN "on" ELSE "off"],
         Driven(r, pin) <=> on,
         \A p \in Pins \ {pin} : Driven(r, p) <=> Driven(s, p)
  PROVE  \A p \in Pins : r.line[p] \notin HostLevels => ((r.line[p] = "on") <=> Driven(r, p))
<1> TAKE p \in Pins
<1>1. CASE p = pin
  <2>1. r.line[p] = IF on THEN "on" ELSE "off"
    BY <1>1 DEF Dev, Pins
  <2>2. QED
    BY <1>1, <2>1
<1>2. CASE p # pin
  <2>1. r.line[p] = s.line[p]
    BY <1>2 DEF Dev, Pins
  <2>2. QED
    BY <1>2, <2>1
<1>3. QED
  BY <1>1, <1>2

\* drive_deselect() turns off the one select line that was on.
LEMMA DeselectKnown ==
  ASSUME NEW s, Known(s)
  PROVE  LET r == drive_deselect(s)
         IN /\ Known(r) /\ r.unit_nr = NoUnit /\ r.unit = s.unit
            /\ r.bus_type = s.bus_type /\ r.wgate = s.wgate /\ r.pos = s.pos
            /\ r.stray = s.stray /\ r.found = s.found
<1> DEFINE pin == SelectPin(s.bus_type, s.unit_nr)
           w == write_mapped_pin(s, pin, FALSE)
           r == [w EXCEPT !.unit_nr = NoUnit]
<1>0. s \in Dev /\ LinesTrue(s)
  BY DEF Known, KnownBut
<1>1. CASE s.unit_nr = NoUnit
  BY <1>1 DEF drive_deselect
<1>2. CASE s.unit_nr # NoUnit
  <2>1. s.unit_nr \in Units /\ pin \in UserPins /\ s.bus_type \in 0..2
    BY <1>0, <1>2 DEF LinesTrue, Dev, Units, NoUnit
  <2>2. drive_deselect(s) = r
    BY <1>2 DEF drive_deselect
  <2> HIDE DEF pin
  <2>a. PinWritten(w, s, pin, FALSE)
    BY <1>0, WritePinBus
  <2> HIDE DEF w
  <2>3. /\ w \in Dev /\ w.bus_type = s.bus_type
        /\ w.unit = s.unit /\ w.wgate = s.wgate /\ w.pos = s.pos /\ w.stray = s.stray
        /\ w.found = s.found
        /\ w.line = [s.line EXCEPT ![pin] = "off"]
    BY <2>1, <2>a DEF PinWritten
  <2> HIDE DEF w
  <2>4. /\ r \in Dev /\ r.bus_type = s.bus_type /\ r.unit_nr = NoUnit
        /\ r.unit = s.unit /\ r.wgate = s.wgate /\ r.pos = s.pos /\ r.stray = s.stray
        /\ r.found = s.found
        /\ r.line = [s.line EXCEPT ![pin] = "off"]
    BY <2>3 DEF Dev, NoUnit
  <2> HIDE DEF r
  <2>5. pin # WGATE /\ \A u \in Units : pin # MotorPin(s.bus_type, u)
    BY <2>1, PinsApart DEF pin
  <2>6. ~Driven(r, pin)
    BY <2>4, <2>5 DEF Driven
  <2>7. \A p \in Pins \ {pin} : Driven(r, p) <=> Driven(s, p)
    BY <1>2, <2>4 DEF Driven, pin
  <2>8. \A p \in Pins : s.line[p] \notin HostLevels => ((s.line[p] = "on") <=> Driven(s, p))
    BY <1>0 DEF LinesTrue
  <2>9. \A p \in Pins : r.line[p] \notin HostLevels => ((r.line[p] = "on") <=> Driven(r, p))
    BY <1>0, <2>1, <2>4, <2>6, <2>7, <2>8, LineWritten
  <2>10. LinesTrue(r)
    BY <1>0, <2>4, <2>9 DEF LinesTrue
  <2>11. Known(r)
    BY <2>4, <2>10, HeadsKnown DEF SameHeads
  <2>12. QED
    BY <2>2, <2>4, <2>11
<1>3. QED
  BY <1>1, <1>2

\* drive_select() leaves one select line on, or none if the unit does not exist;
\* it succeeds for every unit that can be selected.
LEMMA SelectKnown ==
  ASSUME NEW s, Known(s), NEW nr \in Nat
  PROVE  LET r == drive_select(s, nr)
         IN /\ Known(r) /\ r.unit = s.unit /\ r.bus_type = s.bus_type
            /\ r.wgate = s.wgate /\ r.pos = s.pos /\ r.stray = s.stray
            /\ r.found = s.found
            /\ SelectPin(s.bus_type, nr) \in UserPins => r.unit_nr = nr
<1> DEFINE d == drive_deselect(s)
           pin == SelectPin(d.bus_type, nr)
           w == write_mapped_pin(d, pin, TRUE)
           r == [w EXCEPT !.unit_nr = nr]
<1>0. s \in Dev
  BY DEF Known, KnownBut
<1>1. /\ Known(d) /\ d.unit_nr = NoUnit /\ d.unit = s.unit
      /\ d.bus_type = s.bus_type /\ d.wgate = s.wgate /\ d.pos = s.pos
      /\ d.stray = s.stray /\ d.found = s.found /\ d \in Dev
  BY DeselectKnown DEF Known, KnownBut
<1>2. drive_select(s, nr) =
        IF nr = s.unit_nr THEN Return(s, "OKAY")
        ELSE IF d.bus_type = BUS_NONE THEN Return(d, "NO_BUS")
        ELSE IF w.rc # "OKAY" THEN Return(d, "BAD_UNIT")
        ELSE r
  BY DEF drive_select
<1> HIDE DEF d
<1>3. \A c \in Acks : /\ Known(Return(s, c)) /\ SameBus(Return(s, c), s)
                      /\ Known(Return(d, c)) /\ SameBus(Return(d, c), d)
  BY <1>0, <1>1, TimingBus, SameKnown
<1>4. SelectPin(s.bus_type, nr) \in UserPins => d.bus_type # BUS_NONE
  BY <1>1, SelectPinUnit
<1> HIDE DEF pin
<1>5. PinWritten(w, d, pin, TRUE)
  BY <1>1, WritePinBus
<1> HIDE DEF w
<1>6. CASE pin \in UserPins /\ nr # s.unit_nr
  <2>1. nr \in Units /\ nr \in -1..3
    BY <1>1, <1>6, SelectPinUnit DEF Units, pin
  <2>2. /\ r \in Dev /\ r.bus_type = d.bus_type /\ r.unit_nr = nr
        /\ r.unit = d.unit /\ r.wgate = d.wgate /\ r.pos = d.pos /\ r.stray = d.stray
        /\ r.found = d.found
        /\ r.line = [d.line EXCEPT ![pin] = "on"]
    BY <1>5, <1>6, <2>1 DEF Dev, PinWritten
  <2> HIDE DEF r
  <2>3. nr # NoUnit
    BY DEF NoUnit
  <2>4. Driven(r, pin)
    BY <2>2, <2>3 DEF Driven, pin
  <2>5. \A p \in Pins \ {pin} : Driven(r, p) <=> Driven(d, p)
    BY <1>1, <2>2 DEF Driven, pin
  <2>6. LinesTrue(d)
    BY <1>1 DEF Known, KnownBut
  <2>7. \A p \in Pins : d.line[p] \notin HostLevels => ((d.line[p] = "on") <=> Driven(d, p))
    BY <2>6 DEF LinesTrue
  <2>8. \A p \in Pins : r.line[p] \notin HostLevels => ((r.line[p] = "on") <=> Driven(r, p))
    BY <1>1, <1>6, <2>2, <2>4, <2>5, <2>7, LineWritten
  <2>9. LinesTrue(r)
    BY <1>6, <2>2, <2>6, <2>8 DEF LinesTrue, pin
  <2>10. Known(r)
    BY <1>1, <2>2, <2>9, HeadsKnown DEF SameHeads
  <2>11. drive_select(s, nr) = r
    BY <1>1, <1>2, <1>4, <1>5, <1>6 DEF pin, PinWritten
  <2>12. QED
    BY <1>1, <2>2, <2>10, <2>11
<1>7. CASE ~(pin \in UserPins /\ nr # s.unit_nr)
  <2>1. \/ nr = s.unit_nr /\ drive_select(s, nr) = Return(s, "OKAY")
        \/ pin \notin UserPins /\ \E c \in Acks : drive_select(s, nr) = Return(d, c)
    BY <1>2, <1>5, <1>7 DEF Acks, pin, PinWritten
  <2>2. CASE nr = s.unit_nr /\ drive_select(s, nr) = Return(s, "OKAY")
    BY <1>3, <2>2 DEF SameBus, Acks
  <2>3. ASSUME pin \notin UserPins, NEW c \in Acks, drive_select(s, nr) = Return(d, c)
        PROVE  LET x == drive_select(s, nr)
               IN /\ Known(x) /\ x.unit = s.unit /\ x.bus_type = s.bus_type
                  /\ x.wgate = s.wgate /\ x.pos = s.pos /\ x.stray = s.stray
                  /\ x.found = s.found
                  /\ SelectPin(s.bus_type, nr) \notin UserPins
    BY <1>1, <1>3, <2>3 DEF SameBus, pin
  <2>4. QED
    BY <2>1, <2>2, <2>3
<1>8. QED
  BY <1>6, <1>7

\* drive_motor() keeps unit[].motor and the motor lines together; turning off the
\* motor of a unit that has it on always succeeds.
LEMMA MotorKnown ==
  ASSUME NEW s, Known(s), NEW nr \in Nat, NEW on \in BOOLEAN
  PROVE  LET r == drive_motor(s, nr, on)
         IN /\ Known(r) /\ r.unit_nr = s.unit_nr /\ r.bus_type = s.bus_type
            /\ r.wgate = s.wgate
            /\ SameHeads(r, s)
            /\ \A u \in Units : ~on /\ ~s.unit[u].motor => ~r.unit[u].motor
            /\ nr \in Units /\ s.unit[nr].motor /\ ~on => ~r.unit[nr].motor
<1> DEFINE n == MotorUnit(s.bus_type, nr)
           pin == MotorPin(s.bus_type, nr)
           w == write_mapped_pin(s, pin, on)
           v == [w.unit EXCEPT ![n].motor = on]
           r == [w EXCEPT !.unit = v]
<1>0. s \in Dev /\ LinesTrue(s) /\ s.bus_type \in 0..2
  BY DEF Known, KnownBut, Dev
<1>1. drive_motor(s, nr, on) =
        IF s.bus_type = BUS_NONE THEN Return(s, "NO_BUS")
        ELSE IF nr >= NrUnits(s.bus_type) THEN Return(s, "BAD_UNIT")
        ELSE IF s.unit[n].motor = on THEN Return(s, "OKAY")
        ELSE IF w.rc # "OKAY" THEN Return(s, "BAD_UNIT")
        ELSE r
  BY DEF drive_motor
<1> HIDE DEF pin
<1>2. PinWritten(w, s, pin, on)
  BY <1>0, WritePinBus
<1> HIDE DEF w
<1>3. \A c \in Acks : /\ Known(Return(s, c)) /\ SameBus(Return(s, c), s)
  BY <1>0, TimingBus, SameKnown
<1>4. \A c \in Acks : SameHeads(Return(s, c), s)
  BY <1>3 DEF SameBus, SameHeads
<1>5. nr \in Units /\ s.unit[nr].motor =>
        n = nr /\ nr < NrUnits(s.bus_type) /\ pin \in UserPins
        /\ s.bus_type # BUS_NONE
  BY <1>0 DEF LinesTrue, NrUnits, BUS_NONE, BUS_IBMPC, BUS_SHUGART, Units, pin
<1>6. CASE /\ s.bus_type # BUS_NONE /\ ~(nr >= NrUnits(s.bus_type))
           /\ s.unit[n].motor # on /\ pin \in UserPins
  <2>1. /\ nr \in Units /\ n \in Units /\ MotorPin(s.bus_type, n) = pin
        /\ MotorUnit(s.bus_type, n) = n /\ n < NrUnits(s.bus_type)
    BY <1>0, <1>6 DEF NrUnits, MotorUnit, MotorPin, Units, BUS_IBMPC, BUS_SHUGART, pin
  <2>2. s.unit \in [Units -> UnitRec]
    BY <1>0 DEF Dev
  <2>3. /\ v \in [Units -> UnitRec] /\ v[n].motor = on
        /\ \A u \in Units : /\ u # n => v[u] = s.unit[u]
                            /\ v[u].cyl = s.unit[u].cyl
                            /\ v[u].initialised = s.unit[u].initialised
                            /\ v[u].is_flippy = s.unit[u].is_flippy
    BY <1>2, <2>1, <2>2 DEF UnitRec, PinWritten
  <2> HIDE DEF v, n
  <2>4. /\ r \in Dev /\ r.bus_type = s.bus_type /\ r.unit_nr = s.unit_nr
        /\ r.unit = v /\ r.wgate = s.wgate /\ r.pos = s.pos /\ r.stray = s.stray
        /\ r.found = s.found
        /\ r.line = [s.line EXCEPT ![pin] = IF on THEN "on" ELSE "off"]
    BY <1>2, <1>6, <2>3 DEF Dev, PinWritten
  <2> HIDE DEF r
  <2>5. SameHeads(r, s)
    BY <2>3, <2>4 DEF SameHeads
  <2>6. pin # WGATE
    BY <1>0, <2>1, PinsApart
  <2>7. s.unit_nr # NoUnit => pin # SelectPin(s.bus_type, s.unit_nr)
    <3>1. SUFFICES ASSUME s.unit_nr # NoUnit
                   PROVE  pin # SelectPin(s.bus_type, s.unit_nr)
      OBVIOUS
    <3>2. s.unit_nr \in Units /\ SelectPin(s.bus_type, s.unit_nr) \in UserPins
      BY <1>0, <3>1 DEF LinesTrue, Dev, Units, NoUnit
    <3>3. QED
      BY <1>0, <2>1, <3>2, PinsApart
  <2>8. \A u \in Units : s.unit[u].motor /\ MotorPin(s.bus_type, u) = pin => u = n
    <3> TAKE u \in Units
    <3>1. s.unit[u].motor => MotorUnit(s.bus_type, u) = u /\ u < NrUnits(s.bus_type)
      BY <1>0 DEF LinesTrue
    <3>2. QED
      BY <1>0, <2>1, <3>1, PinsApart
  <2>9. Driven(r, pin) <=> on
    BY <2>1, <2>3, <2>4, <2>6, <2>7, <2>8 DEF Driven
  <2>10. ASSUME NEW p \in Pins \ {pin} PROVE Driven(r, p) <=> Driven(s, p)
    BY <2>1, <2>3, <2>4 DEF Driven
  <2>11. \A p \in Pins : s.line[p] \notin HostLevels => ((s.line[p] = "on") <=> Driven(s, p))
    BY <1>0 DEF LinesTrue
  <2>12. \A p \in Pins : r.line[p] \notin HostLevels => ((r.line[p] = "on") <=> Driven(r, p))
    BY <1>0, <1>6, <2>4, <2>9, <2>10, <2>11, LineWritten
  <2>13. LinesTrue(r)
    BY <1>0, <1>6, <2>1, <2>3, <2>4, <2>12 DEF LinesTrue
  <2>14. Known(r)
    BY <2>4, <2>5, <2>13, HeadsKnown
  <2>15. drive_motor(s, nr, on) = r
    BY <1>1, <1>2, <1>6 DEF n, PinWritten
  <2>16. nr \in Units /\ s.unit[nr].motor => nr = n
    BY <1>5 DEF n
  <2>17. QED
    BY <2>3, <2>4, <2>5, <2>14, <2>15, <2>16
<1>7. CASE ~(/\ s.bus_type # BUS_NONE /\ ~(nr >= NrUnits(s.bus_type))
             /\ s.unit[n].motor # on /\ pin \in UserPins)
  <2>1. PICK c \in Acks : drive_motor(s, nr, on) = Return(s, c)
    BY <1>1, <1>2, <1>7 DEF Acks, PinWritten
  <2>2. nr \in Units /\ s.unit[nr].motor => on
    BY <1>5, <1>7 DEF NrUnits, Units
  <2>3. QED
    BY <1>3, <1>4, <2>1, <2>2 DEF SameBus
<1>8. QED
  BY <1>6, <1>7

\* A line the host sets is the host's business.
LEMMA UserPinKnown ==
  ASSUME NEW s, Known(s), NEW pin, NEW level \in HostLevels
  PROVE  Known(set_user_pin(s, pin, level))
<1> DEFINE l == [s.line EXCEPT ![pin] = level]
           r == [s EXCEPT !.line = l, !.rc = "OKAY"]
<1>0. s \in Dev /\ LinesTrue(s)
  BY DEF Known, KnownBut
<1>1. CASE pin \in UserPins
  <2>1. set_user_pin(s, pin, level) = r
    BY <1>1 DEF set_user_pin
  <2>2. /\ l \in [Pins -> Levels]
        /\ \A p \in Pins : l[p] \notin HostLevels => l[p] = s.line[p]
    BY <1>0, <1>1 DEF Dev, Pins, Levels
  <2> HIDE DEF l
  <2>3. /\ r \in Dev /\ r.line = l /\ r.bus_type = s.bus_type /\ r.unit_nr = s.unit_nr
        /\ r.unit = s.unit /\ r.wgate = s.wgate /\ r.pos = s.pos /\ r.stray = s.stray
        /\ r.found = s.found
    BY <1>0, <2>2 DEF Dev, Acks
  <2> HIDE DEF r
  <2>4. \A p : Driven(r, p) <=> Driven(s, p)
    BY <2>3 DEF Driven
  <2>5. LinesTrue(r)
    BY <1>0, <2>2, <2>3, <2>4 DEF LinesTrue
  <2>6. QED
    BY <2>1, <2>3, <2>5, HeadsKnown DEF SameHeads
<1>2. CASE pin \notin UserPins
  BY <1>0, <1>2, TimingBus, SameKnown DEF set_user_pin, Acks
<1>3. QED
  BY <1>1, <1>2

\* reset_user_pins() turns all the lines off, as they ought to be once no drive is
\* selected and no motor runs.
LEMMA ResetPinsKnown ==
  ASSUME NEW s, Known(s), Quiesced(s)
  PROVE  Known(reset_user_pins(s))
<1> DEFINE l == [p \in Pins |-> IF p \in UserPins THEN "off" ELSE s.line[p]]
           r == [s EXCEPT !.line = l]
<1>0. s \in Dev /\ LinesTrue(s)
  BY DEF Known, KnownBut
<1>1. reset_user_pins(s) = r
  BY DEF reset_user_pins
<1>2. /\ l \in [Pins -> Levels]
      /\ \A p \in Pins : l[p] \notin HostLevels => l[p] = "off" \/ l[p] = s.line[p]
  BY <1>0 DEF Dev, Levels
<1> HIDE DEF l
<1>3. /\ r \in Dev /\ r.line = l /\ r.bus_type = s.bus_type /\ r.unit_nr = s.unit_nr
      /\ r.unit = s.unit /\ r.wgate = s.wgate /\ r.pos = s.pos /\ r.stray = s.stray
      /\ r.found = s.found
  BY <1>0, <1>2 DEF Dev
<1> HIDE DEF r
<1>4. \A p : ~Driven(r, p) /\ ~Driven(s, p)
  BY <1>3 DEF Driven, Quiesced
<1>5. LinesTrue(r)
  BY <1>0, <1>2, <1>3, <1>4 DEF LinesTrue
<1>6. QED
  BY <1>1, <1>3, <1>5, HeadsKnown DEF SameHeads

-----------------------------------------------------------------------------
(* The heads.                                                              *)

\* As long as the host has not touched a select line, no drive but the selected
\* one listens,
LEMMA OnlySelected ==
  ASSUME NEW s \in Dev, LinesTrue(s), ~HostSelects(s), NEW u \in Units,
         u \in Responding(s)
  PROVE  u = s.unit_nr
<1> DEFINE pin == SelectPin(s.bus_type, u)
<1>1. s.bus_type \in 0..2 /\ (s.unit_nr # NoUnit => s.unit_nr \in Units)
  BY DEF Dev, Units, NoUnit
<1>2. pin \in UserPins /\ s.line[pin] = "on" /\ pin \in Pins
  BY DEF Responding, Pins, HostSelects, HostLevels
<1>3. Driven(s, pin)
  BY <1>2 DEF LinesTrue, HostLevels
<1>4. pin # WGATE /\ \A v \in Units : pin # MotorPin(s.bus_type, v)
  BY <1>1, <1>2, PinsApart
<1>5. s.unit_nr # NoUnit /\ pin = SelectPin(s.bus_type, s.unit_nr)
  BY <1>3, <1>4 DEF Driven
<1>6. QED
  BY <1>1, <1>2, <1>5, PinsApart

\* and that one does.
LEMMA SelectedResponds ==
  ASSUME NEW s \in Dev, LinesTrue(s), ~HostSelects(s), NEW u \in Units, u = s.unit_nr
  PROVE  u \in Responding(s)
<1> DEFINE pin == SelectPin(s.bus_type, u)
<1>1. u # NoUnit
  BY DEF Units, NoUnit
<1>2. pin \in UserPins /\ pin \in Pins
  BY <1>1 DEF LinesTrue, Pins
<1>3. Driven(s, pin)
  BY <1>1 DEF Driven
<1>4. s.line[pin] \notin HostLevels
  BY <1>2 DEF HostSelects
<1>5. QED
  BY <1>2, <1>3, <1>4 DEF LinesTrue, Responding

\* In other words: unless it is astray, the selected drive is the one that listens.
LEMMA Listens ==
  ASSUME NEW s \in Dev, LinesTrue(s), ~Astray(s), NEW u \in Units, u = s.unit_nr
  PROVE  Responding(s) = {u}
<1>1. CASE HostSelects(s)
  BY <1>1 DEF Astray
<1>2. CASE ~HostSelects(s)
  BY <1>2, OnlySelected, SelectedResponds DEF Responding
<1>3. QED
  BY <1>1, <1>2

\* Which drives listen depends on the bus alone.
LEMMA SameListeners ==
  ASSUME NEW s, NEW r, r.line = s.line, r.bus_type = s.bus_type,
         r.unit_nr = s.unit_nr
  PROVE  Responding(r) = Responding(s) /\ (Astray(r) <=> Astray(s))
BY DEF Responding, Astray, HostSelects

\* r is s after steps that would take the head of unit u to q[u].
Moved(r, s, q) ==
  /\ r \in Dev /\ r.bus_type = s.bus_type /\ r.unit_nr = s.unit_nr /\ r.unit = s.unit
  /\ r.line = s.line /\ r.wgate = s.wgate /\ r.rc = s.rc /\ r.delay = s.delay
  /\ r.stray = (s.stray \/ Astray(s))
  /\ r.found = IF Astray(s) THEN {} ELSE s.found
  /\ r.pos = [u \in Units |-> IF u \in Responding(s) THEN q[u] ELSE s.pos[u]]

\* Steps move the selected head only, unless they are counted as stray.
LEMMA MovedKnown ==
  ASSUME NEW s, KnownBut(s), NEW r, NEW q \in [Units -> Int], Moved(r, s, q),
         NEW v \in Units, v = s.unit_nr,
         \A u \in Units : /\ Kind[u] = "normal" /\ s.pos[u] >= 0 => q[u] >= 0
                          /\ s.pos[u] <= LastCyl => q[u] <= LastCyl
  PROVE  /\ KnownBut(r)
         /\ ~r.stray => r.pos[v] = q[v] /\ ~s.stray /\ Responding(r) = {v}
<1>0. s \in Dev /\ LinesTrue(s) /\ r \in Dev
  BY DEF KnownBut, Moved
<1>1. LinesTrue(r)
  BY <1>0, SameLines DEF Moved
<1>2. \A u \in Units : /\ r.pos[u] \in {q[u], s.pos[u]}
                       /\ u \in Responding(s) => r.pos[u] = q[u]
                       /\ u \notin Responding(s) => r.pos[u] = s.pos[u]
  BY DEF Moved
<1>3. /\ ~r.stray => ~s.stray /\ ~Astray(s) /\ r.found = s.found
      /\ r.stray => r.found = {} \/ (s.stray /\ r.found = s.found)
  BY <1>0 DEF Moved, Dev
<1>a. ~r.stray => Responding(s) = {v} /\ Responding(r) = {v}
  BY <1>0, <1>3, Listens, SameListeners DEF Moved
<1>4. ASSUME NEW u \in Units
      PROVE  Plausible(r, u) /\ (u # r.unit_nr => Tracked(r, u))
  <2>1. Plausible(s, u) /\ (u # s.unit_nr => Tracked(s, u))
    BY DEF KnownBut
  <2>b. u \in r.found => u \in s.found /\ ~r.stray
    BY <1>3, <2>1 DEF Plausible
  <2>c. r.pos[u] <= LastCyl /\ (Kind[u] = "normal" => r.pos[u] >= 0)
    BY <1>2, <2>1 DEF Plausible
  <2>2. Plausible(r, u)
    BY <1>3, <2>1, <2>b, <2>c DEF Plausible, Moved
  <2>3. ASSUME u # r.unit_nr, ~r.stray PROVE r.pos[u] = s.pos[u]
    BY <1>2, <1>a, <2>3 DEF Moved
  <2>4. u # r.unit_nr => Tracked(r, u)
    BY <1>3, <2>1, <2>3, <2>b DEF Tracked, Moved
  <2>5. QED
    BY <2>2, <2>4
<1>5. ~r.stray => r.pos[v] = q[v] /\ ~s.stray /\ Responding(r) = {v}
  BY <1>2, <1>3, <1>a
<1>6. QED
  BY <1>0, <1>1, <1>4, <1>5 DEF KnownBut

\* A record whose heads were shifted has been moved.
LEMMA ShiftedMoves ==
  ASSUME NEW s \in Dev, NEW a \in [Units -> Int], NEW e \in SUBSET EarlyOps,
         NEW q, q = [u \in Units |-> IF u \in Responding(s) THEN a[u] ELSE s.pos[u]]
  PROVE  Moved(Shifted(s, q, e), s, a)
<1> DEFINE r == Shifted(s, q, e)
<1>1. q \in [Units -> Int] BY DEF Dev
<1>2. /\ r \in Dev /\ r.wgate = s.wgate /\ r.unit_nr = s.unit_nr /\ r.unit = s.unit
      /\ r.delay = s.delay /\ r.bus_type = s.bus_type /\ r.line = s.line
      /\ r.rc = s.rc /\ r.pos = q /\ r.stray = (s.stray \/ Astray(s))
      /\ r.found = IF Astray(s) THEN {} ELSE s.found
  BY <1>1, ShiftedDev
<1> HIDE DEF r
<1>3. QED BY <1>2 DEF Moved, r

\* Every kind of step moves the heads so.
LEMMA StepMoves ==
  ASSUME NEW s \in Dev, NEW n \in Int, NEW sensor \in BOOLEAN
  PROVE  /\ Moved(step_in(s, n), s, [u \in Units |-> MovedIn(u, s.pos[u], n)])
         /\ Moved(step_out(s, n, sensor), s,
                  [u \in Units |-> MovedOut(u, s.pos[u], n, sensor)])
         /\ Moved(NoclickStep(s), s, [u \in Units |-> MovedOut(u, s.pos[u], 1, TRUE)])
<1> DEFINE a == [u \in Units |-> MovedIn(u, s.pos[u], n)]
           b == [u \in Units |-> MovedOut(u, s.pos[u], n, sensor)]
           c == [u \in Units |-> MovedOut(u, s.pos[u], 1, TRUE)]
           e == s.early \cup StepEarly(s)
           x == s.early \cup IF s.post > 0 \/ s.wgate THEN {"step"}
                             ELSE IF s.settle > 0 THEN {"noclick"} ELSE {}
<1>1. s.pos \in [Units -> Int] BY DEF Dev
<1>a. 1 \in Int /\ TRUE \in BOOLEAN OBVIOUS
<1>b. ASSUME NEW u \in Units
      PROVE  /\ MovedIn(u, s.pos[u], n) \in Int /\ MovedOut(u, s.pos[u], n, sensor) \in Int
             /\ MovedOut(u, s.pos[u], 1, TRUE) \in Int
  <2>1. s.pos[u] \in Int BY <1>1
  <2>2. QED BY <1>a, <2>1, MovedInt
<1>2. a \in [Units -> Int] /\ b \in [Units -> Int] /\ c \in [Units -> Int]
  BY <1>b
<1>3. e \in SUBSET EarlyOps /\ x \in SUBSET EarlyOps
  BY DEF Dev, StepEarly, EarlyOps
<1>4. /\ step_in(s, n) = Shifted(s, InTo(s, n), e)
      /\ step_out(s, n, sensor) = Shifted(s, OutTo(s, n, sensor), e)
      /\ NoclickStep(s) = Shifted(s, OutTo(s, 1, TRUE), x)
  BY StepIs, NoclickIs
<1>5. /\ InTo(s, n) = [u \in Units |-> IF u \in Responding(s) THEN a[u] ELSE s.pos[u]]
      /\ OutTo(s, n, sensor)
           = [u \in Units |-> IF u \in Responding(s) THEN b[u] ELSE s.pos[u]]
      /\ OutTo(s, 1, TRUE)
           = [u \in Units |-> IF u \in Responding(s) THEN c[u] ELSE s.pos[u]]
  BY DEF InTo, OutTo
<1> HIDE DEF a, b, c, e, x
<1>6. /\ Moved(step_in(s, n), s, a) /\ Moved(step_out(s, n, sensor), s, b)
      /\ Moved(NoclickStep(s), s, c)
  <2>1. Moved(Shifted(s, InTo(s, n), e), s, a)
    BY <1>2, <1>3, <1>5, ShiftedMoves
  <2>2. Moved(Shifted(s, OutTo(s, n, sensor), e), s, b)
    BY <1>2, <1>3, <1>5, ShiftedMoves
  <2>3. Moved(Shifted(s, OutTo(s, 1, TRUE), x), s, c)
    BY <1>2, <1>3, <1>5, ShiftedMoves
  <2>4. QED BY <1>4, <2>1, <2>2, <2>3
<1>7. QED BY <1>6 DEF a, b, c

\* What an operation on the selected unit's head leaves as it was: everything but
\* that unit's entry of unit[], and of that the motor.
SeekFrame(r, s) ==
  /\ r.unit_nr = s.unit_nr /\ r.bus_type = s.bus_type /\ r.wgate = s.wgate
  /\ \A v \in Units : /\ r.unit[v].motor = s.unit[v].motor
                      /\ v # s.unit_nr => r.unit[v] = s.unit[v]

\* Frames can be chained; timing is not part of them.
LEMMA FrameTrans ==
  ASSUME NEW r, NEW s, NEW t
  PROVE  /\ SeekFrame(r, s) /\ SeekFrame(s, t) => SeekFrame(r, t)
         /\ SameBus(r, s) => SeekFrame(r, s)
BY DEF SeekFrame, SameBus

\* r is s after steps that took the selected head from where it was to p.
Stepped(r, s, p) ==
  /\ KnownBut(r) /\ SeekFrame(r, s) /\ r.unit = s.unit
  /\ r.rc = s.rc /\ r.delay = s.delay /\ r.found \subseteq s.found
  /\ r.stray = (s.stray \/ Astray(s))
  /\ ~r.stray => /\ ~s.stray /\ r.found = s.found
                 /\ \A u \in Units : u = s.unit_nr => r.pos[u] = p /\ Responding(r) = {u}

\* A movement within the drives' stops is of that kind.
LEMMA MovedStepped ==
  ASSUME NEW s, KnownBut(s), NEW r, NEW a \in [Units -> Int], Moved(r, s, a),
         NEW u \in Units, u = s.unit_nr,
         \A v \in Units : /\ Kind[v] = "normal" /\ s.pos[v] >= 0 => a[v] >= 0
                          /\ s.pos[v] <= LastCyl => a[v] <= LastCyl
  PROVE  Stepped(r, s, a[u])
<1>1. /\ KnownBut(r)
      /\ ~r.stray => r.pos[u] = a[u] /\ ~s.stray /\ Responding(r) = {u}
  BY MovedKnown
<1>2. SeekFrame(r, s)
  BY DEF Moved, SeekFrame
<1>3. r.found \subseteq s.found /\ (~r.stray => r.found = s.found)
  BY DEF Moved, KnownBut, Dev
<1>4. QED
  BY <1>1, <1>2, <1>3 DEF Stepped, Moved

\* Stepping in moves the selected head, and leaves the others known.
LEMMA StepInKnown ==
  ASSUME NEW s, KnownBut(s), NEW n \in Nat, NEW u \in Units, u = s.unit_nr
  PROVE  Stepped(step_in(s, n), s, MovedIn(u, s.pos[u], n))
<1> DEFINE a == [v \in Units |-> MovedIn(v, s.pos[v], n)]
           r == step_in(s, n)
<1>1. s \in Dev /\ s.pos \in [Units -> Int]
  BY DEF KnownBut, Dev
<1>2. a \in [Units -> Int]
  BY <1>1, MovedInt
<1>3. \A v \in Units : /\ Kind[v] = "normal" /\ s.pos[v] >= 0 => a[v] >= 0
                       /\ s.pos[v] <= LastCyl => a[v] <= LastCyl
  BY <1>1, LastCylAssumption DEF MovedIn, Smaller
<1>a. n \in Int /\ TRUE \in BOOLEAN OBVIOUS
<1>4. Moved(r, s, a)
  BY <1>1, <1>a, StepMoves
<1>5. a[u] = MovedIn(u, s.pos[u], n)
  OBVIOUS
<1> HIDE DEF a, r
<1>6. Stepped(r, s, a[u])
  BY <1>2, <1>3, <1>4, MovedStepped
<1>7. QED
  BY <1>5, <1>6 DEF r

\* Stepping out keeps the heads within their stops.
LEMMA OutWithin ==
  ASSUME NEW v \in Units, NEW p \in Int, NEW n \in Nat, NEW sensor \in BOOLEAN
  PROVE  LET q == MovedOut(v, p, n, sensor)
         IN /\ Kind[v] = "normal" /\ p >= 0 => q >= 0
            /\ p <= LastCyl => q <= LastCyl
BY LastCylAssumption DEF MovedOut, Larger

\* So does stepping out,
LEMMA StepOutKnown ==
  ASSUME NEW s, KnownBut(s), NEW n \in Nat, NEW u \in Units, u = s.unit_nr,
         NEW sensor \in BOOLEAN
  PROVE  Stepped(step_out(s, n, sensor), s, MovedOut(u, s.pos[u], n, sensor))
<1> DEFINE a == [v \in Units |-> MovedOut(v, s.pos[v], n, sensor)]
           r == step_out(s, n, sensor)
<1>1. s \in Dev /\ s.pos \in [Units -> Int]
  BY DEF KnownBut, Dev
<1>2. a \in [Units -> Int]
  BY <1>1, MovedInt
<1>3. \A v \in Units : /\ Kind[v] = "normal" /\ s.pos[v] >= 0 => a[v] >= 0
                       /\ s.pos[v] <= LastCyl => a[v] <= LastCyl
  BY <1>1, OutWithin
<1>a. n \in Int OBVIOUS
<1>4. Moved(r, s, a)
  BY <1>1, <1>a, StepMoves
<1>5. a[u] = MovedOut(u, s.pos[u], n, sensor)
  OBVIOUS
<1> HIDE DEF a, r
<1>6. Stepped(r, s, a[u])
  BY <1>2, <1>3, <1>4, MovedStepped
<1>7. QED
  BY <1>5, <1>6 DEF r

\* and the step of the no-click command.
LEMMA NoclickStepKnown ==
  ASSUME NEW s, KnownBut(s), NEW u \in Units, u = s.unit_nr
  PROVE  Stepped(NoclickStep(s), s, MovedOut(u, s.pos[u], 1, TRUE))
<1> DEFINE a == [v \in Units |-> MovedOut(v, s.pos[v], 1, TRUE)]
           r == NoclickStep(s)
<1>1. s \in Dev /\ s.pos \in [Units -> Int]
  BY DEF KnownBut, Dev
<1>a. 1 \in Int /\ 1 \in Nat /\ TRUE \in BOOLEAN OBVIOUS
<1>2. a \in [Units -> Int]
  BY <1>1, <1>a, MovedInt
<1>3. \A v \in Units : /\ Kind[v] = "normal" /\ s.pos[v] >= 0 => a[v] >= 0
                       /\ s.pos[v] <= LastCyl => a[v] <= LastCyl
  BY <1>1, <1>a, OutWithin
<1>4. Moved(r, s, a)
  BY <1>1, <1>a, StepMoves
<1>5. a[u] = MovedOut(u, s.pos[u], 1, TRUE)
  OBVIOUS
<1> HIDE DEF a, r
<1>6. Stepped(r, s, a[u])
  BY <1>2, <1>3, <1>4, MovedStepped
<1>7. QED
  BY <1>5, <1>6 DEF r

-----------------------------------------------------------------------------
(* Synchronising and seeking.                                              *)

\* Unit u's entry of unit[] becomes o, and the return code c.
SetEntry(s, u, o, c) == [s EXCEPT !.unit = [s.unit EXCEPT ![u] = o], !.rc = c]

\* The entry of the selected unit is rewritten, its motor excepted; the head is
\* where the new entry says.
LEMMA EntryWritten ==
  ASSUME NEW s, KnownBut(s), NEW u \in Units, u = s.unit_nr,
         NEW o \in UnitRec, o.motor = s.unit[u].motor,
         ~s.stray => /\ o.is_flippy => Kind[u] = "flippy"
                     /\ o.initialised => Kind[u] # "absent" /\ s.pos[u] = o.cyl,
         ~o.initialised => Tracked(s, u) /\ ~s.unit[u].initialised,
         NEW c \in Acks
  PROVE  LET r == SetEntry(s, u, o, c)
         IN /\ Known(r) /\ SeekFrame(r, s) /\ r.unit[u] = o /\ r.rc = c
            /\ r.pos = s.pos /\ r.delay = s.delay /\ r.stray = s.stray
            /\ r.found = s.found /\ r.line = s.line
<1> DEFINE v == [s.unit EXCEPT ![u] = o]
           r == SetEntry(s, u, o, c)
<1>0. s \in Dev /\ LinesTrue(s) /\ s.unit \in [Units -> UnitRec]
  BY DEF KnownBut, Dev
<1>1. v \in [Units -> UnitRec] /\ v[u] = o /\ \A w \in Units \ {u} : v[w] = s.unit[w]
  BY <1>0
<1>2. r = [s EXCEPT !.unit = v, !.rc = c]
  BY DEF SetEntry
<1> HIDE DEF v, r
<1>3. /\ r \in Dev /\ r.line = s.line /\ r.bus_type = s.bus_type
      /\ r.unit_nr = s.unit_nr /\ r.unit = v /\ r.wgate = s.wgate
      /\ r.pos = s.pos /\ r.stray = s.stray /\ r.found = s.found /\ r.rc = c
      /\ r.delay = s.delay
  BY <1>0, <1>1, <1>2 DEF Dev
<1>4. \A w \in Units : r.unit[w].motor = s.unit[w].motor
  BY <1>1, <1>3
<1>5. LinesTrue(r)
  BY <1>0, <1>3, <1>4, SameLines
<1>6. u # NoUnit
  BY DEF NoUnit, Units
<1>7. SelectPin(s.bus_type, u) \in UserPins
  BY <1>0, <1>6 DEF LinesTrue
<1>8. Plausible(r, u) /\ Tracked(r, u)
  BY <1>1, <1>3, <1>7 DEF KnownBut, Plausible, Tracked
<1>9. \A w \in Units \ {u} : Plausible(r, w) /\ Tracked(r, w)
  BY <1>1, <1>3 DEF KnownBut, Plausible, Tracked
<1>10. SeekFrame(r, s)
  BY <1>1, <1>3, <1>4 DEF SeekFrame
<1>11. QED
  BY <1>1, <1>3, <1>5, <1>8, <1>9, <1>10 DEF Known, KnownBut, r

\* A device between two calls may begin a movement; one that ends it with the
\* selected unit tracked, or not synchronised, is known again.
LEMMA KnownParts ==
  ASSUME NEW s
  PROVE  /\ Known(s) => KnownBut(s)
         /\ KnownBut(s) /\ (s.unit_nr \in Units => Tracked(s, s.unit_nr)) => Known(s)
<1>1. KnownBut(s) /\ (s.unit_nr \in Units => Tracked(s, s.unit_nr))
        => \A u \in Units : Tracked(s, u)
  BY DEF KnownBut
<1>2. QED
  BY <1>1 DEF Known

\* What track 0 says to a drive that alone listens.
LEMMA Track0Alone ==
  ASSUME NEW s, NEW u, Responding(s) = {u}, NEW sensor
  PROVE  get_trk0(s, sensor) <=> Reports(u, s.pos[u], sensor)
BY DEF get_trk0

\* Stepping in a flippy drive from below track 0 finds cylinder 1, or leaves the
\* unit unsynchronised, which cannot happen if its head was found before.
LEMMA ToOneKnown ==
  ASSUME NEW s, Known(s), NEW u \in Units, u = s.unit_nr, ~s.unit[u].initialised,
         ~s.stray => Kind[u] = "flippy" /\ s.pos[u] <= 0
  PROVE  LET r == StepToOne(s, u)
         IN Known(r) /\ SeekFrame(r, s) /\ (r.rc = "OKAY" => r.unit[u].initialised)
<1> DEFINE d == s.delay.seek_settle
           w == Elapse(s, d)
           in == FirstIn(w)
           c == step_in(w, in)
           f == step_in(w, MaxInSteps)
           g == Return(f, "NO_TRK0")
           y == [c EXCEPT !.unit[u] = [@ EXCEPT !.cyl = 1, !.initialised = TRUE],
                          !.rc = "OKAY"]
<1>1. StepToOne(s, u) = IF InSteps(w) = {} THEN g ELSE y
  BY DEF StepToOne, FirstIn
<1>2. s \in Dev /\ MaxInSteps \in Nat /\ d \in Nat /\ s.pos[u] \in Int
  BY DEF Known, KnownBut, Dev, Delays, MaxInSteps
<1> HIDE DEF d
<1>4. w \in Dev /\ SameBus(w, s)
  BY <1>2, TimingBus
<1> HIDE DEF w
<1>5. /\ Known(w) /\ KnownBut(w) /\ w.unit = s.unit /\ w.unit_nr = u /\ w.pos = s.pos
      /\ w.stray = s.stray /\ w.found = s.found
  BY <1>4, SameKnown DEF SameBus, Known
<1>a. \A n \in Nat : Stepped(step_in(w, n), w, MovedIn(u, w.pos[u], n))
  BY <1>5, StepInKnown
<1>b. ASSUME ~w.stray, ~Astray(w), NEW n \in 1..MaxInSteps
      PROVE  n \in InSteps(w) <=> w.pos[u] + n > 0
  <2> DEFINE x == step_in(w, n)
  <2>1. Stepped(x, w, MovedIn(u, w.pos[u], n))
    BY <1>a, <1>b
  <2> HIDE DEF x
  <2>2. x.pos[u] = MovedIn(u, w.pos[u], n) /\ Responding(x) = {u}
    BY <1>5, <1>b, <2>1 DEF Stepped
  <2>3. get_trk0(x, TRUE) <=> Reports(u, MovedIn(u, w.pos[u], n), TRUE)
    BY <2>2, Track0Alone
  <2>4. Reports(u, MovedIn(u, w.pos[u], n), TRUE) <=> ~(w.pos[u] + n > 0)
    BY <1>2, <1>5, <1>b, LastCylAssumption DEF Reports, MovedIn, Smaller
  <2>5. QED
    BY <2>3, <2>4 DEF InSteps, x
<1>6. CASE InSteps(w) = {}
  <2>1. Stepped(f, w, MovedIn(u, w.pos[u], MaxInSteps))
    BY <1>2, <1>a
  <2> HIDE DEF f
  <2>a. ~f.unit[u].initialised /\ f.unit_nr = u /\ KnownBut(f)
    BY <1>5, <2>1 DEF Stepped, SeekFrame
  <2>b. u \notin f.found
    <3>1. SUFFICES ASSUME u \in f.found PROVE FALSE
      OBVIOUS
    <3>2. ~f.stray
      BY <2>a, <3>1 DEF KnownBut, Plausible
    <3>3. ~w.stray /\ ~Astray(w) /\ u \in w.found
      BY <2>1, <3>1, <3>2 DEF Stepped
    <3>4. w.pos[u] >= 0
      BY <1>5, <3>3 DEF Known, Tracked
    <3>5. 1 \in 1..MaxInSteps /\ w.pos[u] + 1 > 0
      BY <1>2, <1>5, <3>4 DEF MaxInSteps
    <3>6. QED
      BY <1>6, <1>b, <3>3, <3>5
  <2>2. Known(f)
    BY <2>a, <2>b, KnownParts DEF Tracked
  <2>3. g \in Dev /\ SameBus(g, f) /\ g.rc = "NO_TRK0"
    BY <2>1, TimingBus DEF Stepped, KnownBut, Acks
  <2> HIDE DEF g
  <2>4. Known(g)
    BY <2>2, <2>3, SameKnown
  <2>5. SeekFrame(g, s)
    BY <1>4, <2>1, <2>3, FrameTrans DEF Stepped
  <2>6. QED
    BY <1>1, <1>6, <2>3, <2>4, <2>5
<1>7. CASE InSteps(w) # {}
  <2>0. /\ in \in InSteps(w) /\ in \in 1..MaxInSteps /\ in \in Nat
        /\ \A m \in InSteps(w) : in <= m
    BY <1>7, FirstInIs
  <2>1. Stepped(c, w, MovedIn(u, w.pos[u], in))
    BY <1>a, <2>0
  <2> HIDE DEF c, in
  <2>2. ~c.stray => Kind[u] = "flippy" /\ c.pos[u] = 1
    <3>1. SUFFICES ASSUME ~c.stray PROVE Kind[u] = "flippy" /\ c.pos[u] = 1
      OBVIOUS
    <3>2. ~w.stray /\ ~Astray(w) /\ c.pos[u] = MovedIn(u, w.pos[u], in)
      BY <1>5, <2>1, <3>1 DEF Stepped
    <3>3. Kind[u] = "flippy" /\ w.pos[u] <= 0 /\ w.pos[u] \in Int
      BY <1>2, <1>5, <3>2
    <3> DEFINE n == 1 - w.pos[u]
    <3>4. w.pos[u] + in > 0
      BY <1>b, <2>0, <3>2
    <3>5. n <= in /\ n >= 1 /\ n \in Int /\ w.pos[u] + n = 1
      BY <2>0, <3>3, <3>4
    <3> HIDE DEF n
    <3>a. n \in 1..MaxInSteps
      BY <2>0, <3>5 DEF MaxInSteps
    <3>b. n \in InSteps(w) <=> w.pos[u] + n > 0
      BY <1>b, <3>2, <3>a
    <3>6. n \in InSteps(w)
      BY <3>5, <3>b
    <3>7. in = n
      BY <2>0, <3>5, <3>6
    <3>8. QED
      BY <3>2, <3>3, <3>5, <3>7, LastCylAssumption DEF MovedIn, Smaller
  <2> DEFINE o == c.unit[u]
             v == [o EXCEPT !.cyl = 1, !.initialised = TRUE]
  <2>3. c \in Dev /\ c.unit \in [Units -> UnitRec] /\ o \in UnitRec
    BY <2>1 DEF Stepped, KnownBut, Dev
  <2>a. u = c.unit_nr /\ KnownBut(c) /\ c.unit[u].is_flippy \in BOOLEAN
    BY <1>5, <2>1, <2>3 DEF Stepped, SeekFrame, UnitRec
  <2>4. y = SetEntry(c, u, v, "OKAY")
    BY <2>3 DEF Dev, UnitRec, SetEntry
  <2>5. /\ v \in UnitRec /\ v.cyl = 1 /\ v.initialised = TRUE
        /\ v.motor = c.unit[u].motor /\ v.is_flippy = c.unit[u].is_flippy
    BY <2>3, OneEdit DEF UnitRec
  <2> HIDE DEF o, v, y
  <2>6. "OKAY" \in Acks
    BY DEF Acks
  <2>b. ~c.stray => /\ v.is_flippy => Kind[u] = "flippy"
                    /\ v.initialised => Kind[u] # "absent" /\ c.pos[u] = v.cyl
    BY <2>2, <2>5
  <2>7. Known(y) /\ SeekFrame(y, c) /\ y.unit[u] = v
    BY <2>4, <2>5, <2>6, <2>a, <2>b, EntryWritten
  <2>8. SeekFrame(c, s)
    BY <1>4, <2>1, FrameTrans DEF Stepped
  <2>9. QED
    BY <1>1, <1>7, <2>5, <2>7, <2>8, FrameTrans
<1>8. QED
  BY <1>6, <1>7

\* With the head at track 0, or below it on a flippy drive, AtTrack0 either caches
\* the cylinder the head is at or leaves the unit unsynchronised.
LEMMA AtTrack0Known ==
  ASSUME NEW s, Known(s), NEW u \in Units, u = s.unit_nr, ~s.unit[u].initialised,
         ~s.stray => /\ Responding(s) = {u} /\ Kind[u] # "absent"
                     /\ IF Kind[u] = "flippy" THEN s.pos[u] <= 0 ELSE s.pos[u] = 0
  PROVE  LET r == AtTrack0(s, u)
         IN Known(r) /\ SeekFrame(r, s) /\ (r.rc = "OKAY" => r.unit[u].initialised)
<1> DEFINE o == s.unit[u]
           v == [o EXCEPT !.cyl = 0, !.is_flippy = TRUE]
           a == SetEntry(s, u, v, s.rc)
           x == [cyl |-> 0, is_flippy |-> FALSE, initialised |-> TRUE, motor |-> o.motor]
           b == SetEntry(s, u, x, "OKAY")
<1>1. s \in Dev /\ s.unit \in [Units -> UnitRec] /\ o \in UnitRec /\ s.rc \in Acks
      /\ "OKAY" \in Acks /\ KnownBut(s) /\ Tracked(s, u) /\ s.pos[u] \in Int
  BY DEF Known, KnownBut, Dev, Acks
<1>2. AtTrack0(s, u) = IF flippy_detect(s) THEN StepToOne(a, u) ELSE b
  BY <1>1 DEF AtTrack0, Dev, SetEntry
<1>a. ~s.stray => (flippy_detect(s) <=> Kind[u] = "flippy")
  <2>1. SUFFICES ASSUME ~s.stray PROVE flippy_detect(s) <=> Kind[u] = "flippy"
    OBVIOUS
  <2>2. flippy_detect(s) <=> ~Reports(u, s.pos[u], FALSE)
    BY <2>1, Track0Alone DEF flippy_detect
  <2>3. QED
    BY <2>1, <2>2, <1>1 DEF Reports
<1>3. x \in UnitRec /\ v \in UnitRec
  BY <1>1, ZeroEdit DEF UnitRec
<1>4. v.motor = o.motor /\ v.initialised = o.initialised
  BY <1>1 DEF UnitRec
<1> HIDE DEF v, x, a, b
<1>5. CASE flippy_detect(s)
  <2>0. ~s.stray => /\ v.is_flippy => Kind[u] = "flippy"
                    /\ v.initialised => Kind[u] # "absent" /\ s.pos[u] = v.cyl
    BY <1>4, <1>5, <1>a
  <2>a. ~v.initialised => Tracked(s, u) /\ ~s.unit[u].initialised
    BY <1>1
  <2>1. Known(a) /\ SeekFrame(a, s) /\ a.unit[u] = v /\ a.pos = s.pos
        /\ a.stray = s.stray
    BY <1>1, <1>3, <1>4, <2>0, <2>a, EntryWritten DEF a
  <2>2. u = a.unit_nr /\ ~a.unit[u].initialised
    BY <1>4, <2>1 DEF SeekFrame
  <2>b. ~a.stray => Kind[u] = "flippy" /\ a.pos[u] <= 0
    BY <1>5, <1>a, <2>1
  <2>3. LET r == StepToOne(a, u)
        IN Known(r) /\ SeekFrame(r, a) /\ (r.rc = "OKAY" => r.unit[u].initialised)
    BY <2>1, <2>2, <2>b, ToOneKnown
  <2>4. QED
    BY <1>2, <1>5, <2>1, <2>3, FrameTrans
<1>6. CASE ~flippy_detect(s)
  <2>1. x.motor = o.motor /\ ~x.is_flippy /\ x.cyl = 0 /\ x.initialised
    BY DEF x
  <2>a. ~s.stray => Kind[u] # "absent" /\ s.pos[u] = 0
    BY <1>6, <1>a
  <2>2. Known(b) /\ SeekFrame(b, s) /\ b.unit[u] = x
    BY <1>1, <1>3, <2>1, <2>a, EntryWritten DEF b
  <2>3. QED
    BY <1>2, <1>6, <2>1, <2>2
<1>7. QED
  BY <1>5, <1>6

\* Finding out that the selected drive is astray keeps what is known.
LEMMA ListenedKnown ==
  ASSUME NEW s, Known(s), NEW u \in Units, u = s.unit_nr
  PROVE  LET r == Listened(s)
         IN /\ Known(r) /\ SeekFrame(r, s) /\ r.unit = s.unit /\ r.rc = s.rc
            /\ ~r.stray => ~s.stray /\ ~Astray(r) /\ Responding(r) = {u}
<1> DEFINE r == Listened(s)
<1>0. s \in Dev /\ LinesTrue(s)
  BY DEF Known, KnownBut
<1>1. /\ r \in Dev /\ SameTiming(r, s) /\ r.unit_nr = s.unit_nr /\ r.rc = s.rc
      /\ r.unit = s.unit /\ r.bus_type = s.bus_type /\ r.line = s.line
      /\ r.pos = s.pos
      /\ r.stray = (s.stray \/ Astray(s))
      /\ r.found = IF Astray(s) THEN {} ELSE s.found
  BY <1>0, ListenedDev
<1> HIDE DEF r
<1>2. r.wgate = s.wgate
  BY <1>1 DEF SameTiming
<1>3. LinesTrue(r)
  BY <1>0, <1>1, <1>2, SameLines
<1>4. ASSUME NEW v \in Units PROVE Plausible(r, v) /\ Tracked(r, v)
  <2>1. Plausible(s, v) /\ Tracked(s, v)
    BY DEF Known, KnownBut
  <2>2. QED
    BY <1>1, <2>1 DEF Plausible, Tracked
<1>5. ~r.stray => ~s.stray /\ ~Astray(s)
  BY <1>0, <1>1 DEF Dev
<1>6. ~r.stray => ~Astray(r) /\ Responding(r) = {u}
  BY <1>0, <1>1, <1>5, Listens, SameListeners
<1>7. SeekFrame(r, s)
  BY <1>1, <1>2 DEF SeekFrame
<1>8. QED
  BY <1>1, <1>3, <1>4, <1>5, <1>6, <1>7 DEF Known, KnownBut, r

\* A drive that alone listens decides alone how many steps it takes to track 0.
LEMMA OutStepsAlone ==
  ASSUME NEW s \in Dev, NEW u \in Units, Responding(s) = {u}, s.pos[u] <= LastCyl
  PROVE  LET out == OutSteps(s)
         IN /\ out = 0 <=> Reports(u, s.pos[u], TRUE)
            /\ out # 0 /\ out # 256 => Kind[u] # "absent" /\ s.pos[u] = out
            /\ s.pos[u] >= 0 /\ Kind[u] # "absent" => out # 256
<1>1. \A v \in Units : v # u => ToTrack0(s, v) = 256
  BY DEF ToTrack0
<1>a. s.pos[u] \in Int
  BY DEF Dev
<1>b. ToTrack0(s, u) = IF Kind[u] = "absent" THEN 256
                       ELSE IF Reports(u, s.pos[u], TRUE) THEN 0
                       ELSE IF s.pos[u] \in 1..255 THEN s.pos[u] ELSE 256
  BY DEF ToTrack0
<1> DEFINE p == s.pos[u]
           T == ToTrack0(s, u)
<1>e. /\ Kind[u] = "absent" => T = 256
      /\ Kind[u] # "absent" /\ Reports(u, p, TRUE) => T = 0
      /\ Kind[u] # "absent" /\ ~Reports(u, p, TRUE) /\ p \in 1..255 => T = p
      /\ Kind[u] # "absent" /\ ~Reports(u, p, TRUE) /\ p \notin 1..255 => T = 256
  BY <1>b
<1> HIDE DEF p, T
<1>f. p \in Int BY <1>a DEF p
<1>g. T \in 0..256
  <2>1. CASE T = 256 \/ T = 0 BY <2>1
  <2>2. CASE T = p /\ p \in 1..255 BY <2>2
  <2>3. QED BY <1>e, <2>1, <2>2
<1>2. ToTrack0(s, u) \in 0..256 /\ s.pos[u] \in Int
  BY <1>a, <1>g DEF T
<1>3. u \in {0, 1, 2, 3} /\ Units = {0, 1, 2, 3}
  BY DEF Units
<1>4. OutSteps(s) = ToTrack0(s, u)
  BY <1>1, <1>2, <1>3 DEF OutSteps, Smaller
<1>c. Kind[u] = "absent" => ~Reports(u, s.pos[u], TRUE)
  BY DEF Reports
<1>d. Kind[u] # "absent" /\ s.pos[u] = 0 => Reports(u, s.pos[u], TRUE)
  BY DEF Reports
<1>5. /\ ToTrack0(s, u) = 0 <=> Reports(u, s.pos[u], TRUE)
      /\ ToTrack0(s, u) # 0 /\ ToTrack0(s, u) # 256
           => Kind[u] # "absent" /\ s.pos[u] = ToTrack0(s, u)
  <2>1. Kind[u] = "absent" => ~Reports(u, p, TRUE) BY <1>c DEF p
  <2>2. /\ T = 0 <=> Reports(u, p, TRUE)
        /\ T # 0 /\ T # 256 => Kind[u] # "absent" /\ p = T
    <3>a. T = 256 => T # 0 OBVIOUS
    <3>b. T = p /\ p \in 1..255 => T # 0 OBVIOUS
    <3>1. CASE T = 256 /\ ~Reports(u, p, TRUE) BY <3>1, <3>a
    <3>2. CASE T = 0 /\ Reports(u, p, TRUE) BY <3>2
    <3>3. CASE T = p /\ p \in 1..255 /\ ~Reports(u, p, TRUE) /\ Kind[u] # "absent"
      BY <3>3, <3>b
    <3>4. QED BY <1>e, <2>1, <3>1, <3>2, <3>3
  <2>3. QED BY <2>2 DEF T, p
<1>6. s.pos[u] >= 0 /\ Kind[u] # "absent" => ToTrack0(s, u) # 256
  <2>1. p = 0 /\ Kind[u] # "absent" => Reports(u, p, TRUE) BY <1>d DEF p
  <2>2. p <= LastCyl BY DEF p
  <2>3. p >= 0 /\ p # 0 => p \in 1..255 BY <1>f, <2>2, LastCylAssumption
  <2>4. p >= 0 /\ Kind[u] # "absent" => T # 256
    <3>a. T = 0 => T # 256 OBVIOUS
    <3>b. T = p /\ p \in 1..255 => T # 256 OBVIOUS
    <3>1. CASE p = 0 BY <1>e, <2>1, <3>1, <3>a
    <3>2. CASE p \in 1..255 BY <1>e, <3>2, <3>a, <3>b
    <3>3. QED BY <2>3, <3>1, <3>2
  <2>5. QED BY <2>4 DEF p, T
<1>7. QED
  BY <1>4, <1>5, <1>6

\* Synchronising caches a cylinder only if the head is there.
LEMMA InitialiseKnown ==
  ASSUME NEW s, Known(s), NEW u \in Units, u = s.unit_nr, ~s.unit[u].initialised
  PROVE  LET r == floppy_seek_initialise(s)
         IN Known(r) /\ SeekFrame(r, s) /\ (r.rc = "OKAY" => r.unit[u].initialised)
<1> DEFINE l == Listened(s)
           out == OutSteps(l)
           f == step_out(l, out, TRUE)
           a == IF out = 0 THEN l ELSE f
           z == IF out = 256 THEN Return(f, "NO_TRK0") ELSE AtTrack0(a, l.unit_nr)
           y == SettleSync(z)
           r == Found(y)
<1>1. floppy_seek_initialise(s) = r
  BY DEF floppy_seek_initialise
<1>a. /\ Known(l) /\ SeekFrame(l, s) /\ l.unit = s.unit
      /\ ~l.stray => ~s.stray /\ ~Astray(l) /\ Responding(l) = {u}
  BY ListenedKnown
<1> HIDE DEF l
<1>2. /\ KnownBut(l) /\ l \in Dev /\ l.pos[u] \in Int /\ Plausible(l, u)
      /\ l.unit_nr = u /\ Tracked(l, u) /\ ~l.unit[u].initialised
  BY <1>a DEF Known, KnownBut, Dev, SeekFrame
<1>3. /\ out \in Nat
      /\ ~l.stray =>
           /\ out = 0 <=> Reports(u, l.pos[u], TRUE)
           /\ out # 0 /\ out # 256 => Kind[u] # "absent" /\ l.pos[u] = out
           /\ l.pos[u] >= 0 /\ Kind[u] # "absent" => out # 256
  BY <1>2, <1>a, OutStepsNat, OutStepsAlone DEF Plausible
<1> HIDE DEF out
<1>4. Stepped(f, l, MovedOut(u, l.pos[u], out, TRUE))
  BY <1>2, <1>3, StepOutKnown
<1> HIDE DEF f
<1>5. KnownBut(f) /\ f.unit_nr = u /\ f.unit = l.unit /\ SeekFrame(f, l) /\ f \in Dev
  BY <1>2, <1>4 DEF Stepped, SeekFrame, KnownBut
<1>6. Known(z) /\ SeekFrame(z, l) /\ (z.rc = "OKAY" => z.unit[u].initialised)
  <2>1. CASE out = 256
    <3>a. u \notin f.found
      BY <1>2, <1>3, <1>4, <1>5, <2>1 DEF Stepped, Plausible, Tracked
    <3>1. Known(f)
      BY <1>2, <1>5, <3>a, KnownParts DEF Tracked
    <3>2. /\ Return(f, "NO_TRK0") \in Dev /\ SameBus(Return(f, "NO_TRK0"), f)
          /\ Return(f, "NO_TRK0").rc = "NO_TRK0"
      BY <1>5, TimingBus DEF Acks
    <3>3. Known(Return(f, "NO_TRK0"))
      BY <3>1, <3>2, SameKnown
    <3>4. QED
      BY <1>5, <2>1, <3>2, <3>3, FrameTrans
  <2>2. CASE out # 256
    <3>a. out # 0 /\ ~f.stray => f.pos[u] = 0 /\ Responding(f) = {u} /\ Kind[u] # "absent"
      <4>1. SUFFICES ASSUME out # 0, ~f.stray
                     PROVE  f.pos[u] = 0 /\ Responding(f) = {u} /\ Kind[u] # "absent"
        OBVIOUS
      <4>2. ~l.stray /\ f.pos[u] = MovedOut(u, l.pos[u], out, TRUE) /\ Responding(f) = {u}
        BY <1>2, <1>4, <4>1 DEF Stepped
      <4>3. Kind[u] # "absent" /\ l.pos[u] = out
        BY <1>3, <2>2, <4>1, <4>2
      <4>4. MovedOut(u, out, out, TRUE) = 0
        BY <1>3, <4>1, <4>3 DEF MovedOut, Larger
      <4>5. QED
        BY <4>2, <4>3, <4>4
    <3>b. out = 0 /\ ~l.stray => Reports(u, l.pos[u], TRUE)
      BY <1>3
    <3>1. KnownBut(a) /\ a.unit_nr = u /\ a.unit = l.unit /\ SeekFrame(a, l)
      BY <1>2, <1>5 DEF SeekFrame
    <3>c. u \in f.found => ~f.stray
      BY <1>5 DEF KnownBut, Plausible
    <3>d. Tracked(a, u)
      BY <1>2, <1>5, <3>a, <3>c DEF Tracked
    <3>2. Known(a)
      BY <3>1, <3>d, KnownParts
    <3>3. ~a.stray => /\ Responding(a) = {u} /\ Kind[u] # "absent"
                      /\ IF Kind[u] = "flippy" THEN a.pos[u] <= 0 ELSE a.pos[u] = 0
      <4>1. CASE out = 0
        BY <1>2, <1>a, <3>b, <4>1, KindAssumption DEF Reports, Plausible, DriveKinds
      <4>2. CASE out # 0
        BY <3>a, <4>2
      <4>3. QED
        BY <4>1, <4>2
    <3> HIDE DEF a
    <3>4. LET x == AtTrack0(a, u)
          IN Known(x) /\ SeekFrame(x, a) /\ (x.rc = "OKAY" => x.unit[u].initialised)
      BY <1>2, <3>1, <3>2, <3>3, AtTrack0Known
    <3>5. QED
      BY <1>2, <2>2, <3>1, <3>4, FrameTrans
  <2>3. QED
    BY <2>1, <2>2
<1> HIDE DEF z
<1>7. y \in Dev /\ SameBus(y, z) /\ y.rc = z.rc
  BY <1>6, WaitBus DEF Known, KnownBut
<1> HIDE DEF y
<1>8. Known(y) /\ SeekFrame(y, l) /\ y.unit = z.unit /\ y.unit_nr = u
  BY <1>2, <1>6, <1>7, SameKnown, FrameTrans DEF SameBus, SeekFrame
<1>9. Known(r) /\ SeekFrame(r, y) /\ r.unit = y.unit /\ r.rc = y.rc
  <2>1. /\ r \in Dev /\ SameTiming(r, y) /\ r.unit_nr = y.unit_nr /\ r.rc = y.rc
        /\ r.unit = y.unit /\ r.bus_type = y.bus_type /\ r.line = y.line
        /\ r.pos = y.pos /\ r.stray = y.stray
        /\ r.found = IF y.rc = "OKAY" /\ ~y.stray THEN y.found \cup {u} ELSE y.found
    BY <1>7, <1>8, FoundDev
  <2> HIDE DEF r
  <2>2. y.rc = "OKAY" => y.unit[u].initialised
    BY <1>6, <1>7, <1>8
  <2>3. r.wgate = y.wgate
    BY <2>1 DEF SameTiming
  <2>4. LinesTrue(r)
    BY <1>8, <2>1, <2>3, SameLines DEF Known, KnownBut
  <2>5. ASSUME NEW v \in Units PROVE Plausible(r, v) /\ Tracked(r, v)
    <3>1. Plausible(y, v) /\ Tracked(y, v)
      BY <1>8 DEF Known, KnownBut
    <3>2. QED
      BY <2>1, <2>2, <3>1 DEF Plausible, Tracked
  <2>6. QED
    BY <2>1, <2>3, <2>4, <2>5 DEF Known, KnownBut, SeekFrame
<1> HIDE DEF r
<1>10. Known(r) /\ SeekFrame(r, s)
  BY <1>8, <1>9, <1>a, FrameTrans
<1>11. QED
  BY <1>1, <1>6, <1>7, <1>8, <1>9, <1>10

\* The pulses of a seek take the head to the cylinder that is cached next.
LEMMA SeekStepsKnown ==
  ASSUME NEW s, Known(s), NEW u \in Units, u = s.unit_nr, s.unit[u].initialised,
         NEW cyl \in Int, cyl <= LastCyl, s.unit[u].cyl # cyl,
         cyl >= 0 \/ s.unit[u].is_flippy
  PROVE  LET r == SeekSteps(s, u, cyl)
         IN /\ Known(r) /\ SeekFrame(r, s) /\ r.rc = "OKAY"
            /\ r.unit[u].initialised /\ r.unit[u].cyl = cyl
<1> DEFINE from == s.unit[u].cyl
           m == IF from < cyl THEN step_in(s, cyl - from)
                              ELSE step_out(s, from - cyl, cyl >= 0)
           d == s.delay.seek_settle
           e == m.delay.seek_settle
           t == [m EXCEPT !.settle = d]
           q == op_delay_async(t, {"read", "write", "seek"}, d)
           o == q.unit[u]
           v == [o EXCEPT !.cyl = cyl]
           r == SeekSteps(s, u, cyl)
<1>1. /\ s \in Dev /\ KnownBut(s) /\ Plausible(s, u) /\ Tracked(s, u)
      /\ from \in Int /\ d \in Nat /\ s.pos[u] \in Int
  BY DEF Known, KnownBut, Dev, UnitRec, Delays
<1>2. r = [q EXCEPT !.unit[u].cyl = cyl, !.rc = "OKAY"]
  BY DEF SeekSteps
<1> HIDE DEF d
<1>3. KnownBut(m) /\ SeekFrame(m, s) /\ m.unit = s.unit
      /\ (~m.stray => m.pos[u] = cyl)
  <2>1. CASE from < cyl
    <3>1. cyl - from \in Nat /\ from + (cyl - from) = cyl
      BY <1>1, <2>1
    <3>2. Stepped(step_in(s, cyl - from), s, MovedIn(u, s.pos[u], cyl - from))
      BY <1>1, <3>1, StepInKnown
    <3>a. ~s.stray => Kind[u] # "absent"
      BY <1>1 DEF Plausible
    <3>3. ~s.stray /\ s.pos[u] = from => MovedIn(u, s.pos[u], cyl - from) = cyl
      BY <1>1, <3>1, <3>a, LastCylAssumption DEF MovedIn, Smaller
    <3>4. QED
      BY <1>1, <2>1, <3>2, <3>3 DEF Stepped, Tracked
  <2>2. CASE ~(from < cyl)
    <3>1. from - cyl \in Nat /\ from - (from - cyl) = cyl /\ (cyl >= 0) \in BOOLEAN
      BY <1>1, <2>2
    <3>2. Stepped(step_out(s, from - cyl, cyl >= 0), s,
                  MovedOut(u, s.pos[u], from - cyl, cyl >= 0))
      BY <1>1, <3>1, StepOutKnown
    <3>a. ~s.stray => Kind[u] # "absent" /\ (cyl < 0 => Kind[u] = "flippy")
      BY <1>1 DEF Plausible
    <3> DEFINE p == s.pos[u]
               to == MovedOut(u, p, from - cyl, cyl >= 0)
    <3>b. ~s.stray => to = IF Kind[u] = "nostop" \/ (Kind[u] = "flippy" /\ cyl < 0)
                          THEN p - (from - cyl)
                          ELSE IF p <= 0 THEN p ELSE Larger(p - (from - cyl), 0)
      BY <1>1, <3>a DEF MovedOut
    <3>c. ~s.stray /\ cyl < 0 => to = p - (from - cyl)
      BY <3>a, <3>b
    <3> HIDE DEF p, to
    <3>d. ~s.stray /\ p = from => to = cyl
      BY <1>1, <2>2, <3>1, <3>b, <3>c DEF Larger
    <3>3. ~s.stray /\ s.pos[u] = from => MovedOut(u, s.pos[u], from - cyl, cyl >= 0) = cyl
      BY <3>d DEF p, to
    <3>4. QED
      BY <1>1, <2>2, <3>2, <3>3 DEF Stepped, Tracked
  <2>3. QED
    BY <2>1, <2>2
<1> HIDE DEF m
<1>4. t \in Dev /\ SameBus(t, m)
  BY <1>1, <1>3, TimingBus DEF KnownBut
<1> HIDE DEF t
<1>5. q \in Dev /\ SameBus(q, t)
  BY <1>1, <1>4, WaitBus DEF DelayOps
<1> HIDE DEF q
<1>6. /\ SameBus(q, m) /\ KnownBut(q) /\ SeekFrame(q, s) /\ q.unit = s.unit
      /\ q.unit_nr = u /\ (~q.stray => q.pos[u] = cyl)
  <2>1. SameBus(q, m)
    BY <1>4, <1>5, BusTrans
  <2>2. KnownBut(q)
    BY <1>3, <1>5, <2>1, SameKnown
  <2>3. SeekFrame(q, s)
    BY <1>3, <2>1, FrameTrans
  <2>4. q.unit = s.unit /\ q.unit_nr = u /\ (~q.stray => q.pos[u] = cyl)
    BY <1>3, <2>1 DEF SameBus, SeekFrame
  <2>5. QED
    BY <2>1, <2>2, <2>3, <2>4
<1>7. o \in UnitRec /\ o = s.unit[u]
  BY <1>5, <1>6 DEF Dev
<1>8. r = SetEntry(q, u, v, "OKAY")
  BY <1>2, <1>5, <1>7 DEF SetEntry, Dev
<1>9. /\ v \in UnitRec /\ v.cyl = cyl /\ v.motor = o.motor
      /\ v.is_flippy = o.is_flippy /\ v.initialised = o.initialised
  BY <1>7, CylEdit DEF UnitRec
<1> HIDE DEF v, r
<1>10. /\ ~q.stray => /\ v.is_flippy => Kind[u] = "flippy"
                      /\ v.initialised => Kind[u] # "absent" /\ q.pos[u] = v.cyl
       /\ v.initialised
  BY <1>6, <1>7, <1>9 DEF KnownBut, Plausible
<1>11. Known(r) /\ SeekFrame(r, q) /\ r.unit[u] = v /\ r.rc = "OKAY"
  BY <1>6, <1>8, <1>9, <1>10, EntryWritten DEF Acks
<1>12. Known(r) /\ SeekFrame(r, s) /\ r.rc = "OKAY" /\ r.unit[u].initialised
       /\ r.unit[u].cyl = cyl
  BY <1>6, <1>7, <1>9, <1>11, FrameTrans
<1>13. QED
  BY <1>12 DEF r

\* What a successful seek of the selected unit leaves behind.
Arrived(r, cyl) ==
  r.unit_nr \in Units /\ r.unit[r.unit_nr].initialised
    /\ r.unit[r.unit_nr].cyl = cyl

\* From a synchronised drive, or from one whose synchronisation failed,
LEMMA SeekFromKnown ==
  ASSUME NEW s, Known(s), NEW u \in Units, u = s.unit_nr,
         s.rc = "OKAY" => s.unit[u].initialised, NEW cyl \in Int, cyl <= LastCyl
  PROVE  LET r == SeekFrom(s, cyl)
         IN /\ Known(r) /\ SeekFrame(r, s) /\ (r.rc = "OKAY" => Arrived(r, cyl))
            /\ s.rc = "OKAY" /\ cyl = 0 => r.rc = "OKAY"
<1> DEFINE g == Return(s, "BAD_CYLINDER")
           h == SeekSteps(s, u, cyl)
           low == IF s.unit[u].is_flippy THEN -8 ELSE 0
           r == SeekFrom(s, cyl)
<1>1. r = IF s.rc # "OKAY" THEN s
          ELSE IF cyl < low THEN g
          ELSE IF s.unit[u].cyl = cyl THEN s
          ELSE h
  BY DEF SeekFrom
<1>2. s \in Dev /\ SeekFrame(s, s)
  BY DEF Known, KnownBut, SeekFrame
<1>3. g \in Dev /\ SameBus(g, s) /\ g.rc = "BAD_CYLINDER"
  BY <1>2, TimingBus DEF Acks
<1>4. Known(g) /\ SeekFrame(g, s)
  BY <1>3, SameKnown, FrameTrans
<1>5. ASSUME s.rc = "OKAY", ~(cyl < low), s.unit[u].cyl # cyl
      PROVE  Known(h) /\ SeekFrame(h, s) /\ h.rc = "OKAY" /\ Arrived(h, cyl)
  <2>1. cyl >= 0 \/ s.unit[u].is_flippy
    BY <1>5
  <2> HIDE DEF h
  <2>2. /\ Known(h) /\ SeekFrame(h, s) /\ h.rc = "OKAY"
        /\ h.unit[u].initialised /\ h.unit[u].cyl = cyl
    BY <1>5, <2>1, SeekStepsKnown DEF h
  <2>3. QED
    BY <2>2 DEF Arrived, SeekFrame
<1> HIDE DEF g, h, r
<1>6. CASE s.rc # "OKAY"
  BY <1>1, <1>2, <1>6 DEF r
<1>7. CASE s.rc = "OKAY" /\ cyl < low
  BY <1>1, <1>3, <1>4, <1>7 DEF r
<1>8. CASE s.rc = "OKAY" /\ ~(cyl < low) /\ s.unit[u].cyl = cyl
  BY <1>1, <1>2, <1>8 DEF r, Arrived
<1>9. CASE s.rc = "OKAY" /\ ~(cyl < low) /\ s.unit[u].cyl # cyl
  BY <1>1, <1>5, <1>9 DEF r
<1>10. QED
  BY <1>6, <1>7, <1>8, <1>9

\* floppy_seek() keeps all cached cylinders true; when it succeeds the selected
\* drive is synchronised and at the cylinder asked for. A seek of a synchronised
\* drive to cylinder 0 always succeeds.
LEMMA SeekKnown ==
  ASSUME NEW s, Known(s), NEW cyl \in Int, cyl <= LastCyl
  PROVE  LET r == floppy_seek(s, cyl)
         IN /\ Known(r) /\ SeekFrame(r, s) /\ (r.rc = "OKAY" => Arrived(r, cyl))
            /\ \A u \in Units : u = s.unit_nr /\ s.unit[u].initialised /\ cyl = 0
                  => r.rc = "OKAY"
<1> DEFINE w == op_delay_wait(s, "seek")
           n == floppy_seek_initialise(w)
           y == Return(w, "OKAY")
           i == Synchronised(w)
           f == SeekFrom(i, cyl)
           g == Return(s, "NO_UNIT")
<1>1. s \in Dev
  BY DEF Known, KnownBut
<1>2. CASE s.unit_nr = NoUnit
  <2>1. floppy_seek(s, cyl) = g
    BY <1>2 DEF floppy_seek
  <2>2. g \in Dev /\ SameBus(g, s) /\ g.rc = "NO_UNIT"
    BY <1>1, TimingBus DEF Acks
  <2>3. Known(g) /\ SeekFrame(g, s)
    BY <2>2, SameKnown, FrameTrans
  <2> HIDE DEF g
  <2>4. QED
    BY <1>2, <2>1, <2>2, <2>3 DEF NoUnit, Units
<1>3. CASE s.unit_nr # NoUnit
  <2>1. PICK u \in Units : u = s.unit_nr
    BY <1>1, <1>3 DEF Dev, Units, NoUnit
  <2>2. floppy_seek(s, cyl) = f
    BY <1>3 DEF floppy_seek
  <2>3. w \in Dev /\ SameBus(w, s)
    BY <1>1, WaitBus
  <2> HIDE DEF w
  <2>4. Known(w) /\ SeekFrame(w, s) /\ w.unit = s.unit /\ w.unit_nr = u
    BY <2>1, <2>3, SameKnown, FrameTrans DEF SameBus
  <2>5. i = IF w.unit[u].initialised THEN y ELSE n
    BY <2>4 DEF Synchronised
  <2>6. y \in Dev /\ SameBus(y, w) /\ y.rc = "OKAY"
    BY <2>3, TimingBus DEF Acks
  <2>7. Known(y) /\ SeekFrame(y, w) /\ y.unit = w.unit
    BY <2>4, <2>6, SameKnown, FrameTrans DEF SameBus
  <2>8. ~w.unit[u].initialised =>
          Known(n) /\ SeekFrame(n, w) /\ (n.rc = "OKAY" => n.unit[u].initialised)
    BY <2>4, InitialiseKnown
  <2> HIDE DEF n, y, i
  <2>9. /\ Known(i) /\ SeekFrame(i, s) /\ (i.rc = "OKAY" => i.unit[u].initialised)
        /\ s.unit[u].initialised => i.rc = "OKAY"
    BY <2>4, <2>5, <2>6, <2>7, <2>8, FrameTrans
  <2>10. u = i.unit_nr
    BY <2>1, <2>9 DEF SeekFrame
  <2>11. /\ Known(f) /\ SeekFrame(f, i) /\ (f.rc = "OKAY" => Arrived(f, cyl))
         /\ i.rc = "OKAY" /\ cyl = 0 => f.rc = "OKAY"
    BY <2>9, <2>10, SeekFromKnown
  <2> HIDE DEF f
  <2>12. QED
    BY <2>1, <2>2, <2>9, <2>11, FrameTrans
<1>4. QED
  BY <1>2, <1>3

\* A no-click step keeps the heads known: it succeeds only if the head did not
\* leave cylinder 0, or the drive's own track-0 sensor says so.
LEMMA NoclickKnown ==
  ASSUME NEW s, Known(s)
  PROVE  LET r == floppy_noclick_step(s)
         IN /\ Known(r)
            /\ r.rc = "OKAY" /\ ~r.stray => r.unit_nr \in Units /\ r.pos[r.unit_nr] = 0
<1> DEFINE z == floppy_seek(s, 0)
           o == NoclickStep(z)
           d == o.delay.seek_settle
           w == Elapse(o, d)
           back == step_in(w, 1)
           e == Elapse(back, d)
           g == Return(e, "BAD_CYLINDER")
           r == floppy_noclick_step(s)
<1>1. Known(z) /\ (z.rc = "OKAY" => Arrived(z, 0))
  BY SeekKnown, LastCylAssumption
<1>2. r = IF z.rc # "OKAY" THEN z
          ELSE IF get_trk0(o, TRUE) THEN o ELSE g
  BY DEF floppy_noclick_step, NoclickFrom, NoclickBack
<1> HIDE DEF z, r
<1>3. CASE z.rc # "OKAY"
  BY <1>1, <1>2, <1>3 DEF r
<1>4. CASE z.rc = "OKAY"
  <2>1. PICK u \in Units : u = z.unit_nr
    BY <1>1, <1>4 DEF Arrived
  <2>2. /\ KnownBut(z) /\ z.unit[u].initialised /\ z.unit[u].cyl = 0
        /\ Plausible(z, u) /\ Tracked(z, u) /\ z.pos[u] \in Int
    BY <1>1, <1>4, <2>1 DEF Arrived, Known, KnownBut, Dev
  <2>3. Stepped(o, z, MovedOut(u, z.pos[u], 1, TRUE))
    BY <2>1, <2>2, NoclickStepKnown
  <2> HIDE DEF o
  <2>a. ~o.stray => /\ ~z.stray /\ o.pos[u] = MovedOut(u, z.pos[u], 1, TRUE)
                    /\ Responding(o) = {u}
    BY <2>1, <2>3 DEF Stepped
  <2>b. ~z.stray => z.pos[u] = 0
    BY <2>2 DEF Tracked
  <2>c. /\ o \in Dev /\ KnownBut(o) /\ o.unit_nr = u /\ o.unit = z.unit /\ o.rc = "OKAY"
    BY <1>4, <2>1, <2>3 DEF Stepped, KnownBut, SeekFrame
  <2>4. /\ o \in Dev /\ KnownBut(o) /\ o.unit_nr = u /\ o.unit = z.unit /\ o.rc = "OKAY"
        /\ ~o.stray => o.pos[u] = MovedOut(u, 0, 1, TRUE)
    BY <2>a, <2>b, <2>c
  <2>5. ~o.stray => Kind[u] # "absent" /\ Kind[u] \in DriveKinds
    BY <2>2, <2>a, KindAssumption DEF Plausible
  <2>d. ~o.stray => (get_trk0(o, TRUE) <=> Reports(u, o.pos[u], TRUE))
    BY <2>a, Track0Alone
  <2> DEFINE q == MovedOut(u, 0, 1, TRUE)
  <2>e. Kind[u] # "absent" => \/ q = 0 /\ Reports(u, q, TRUE)
                              \/ q = -1 /\ ~Reports(u, q, TRUE)
    <3>1. CASE Kind[u] = "nostop"
      <4>1. q = -1 BY <3>1 DEF MovedOut
      <4>2. ~Reports(u, -1, TRUE) BY <3>1 DEF Reports
      <4>3. QED BY <4>1, <4>2
    <3>2. CASE Kind[u] # "nostop" /\ Kind[u] # "absent"
      <4>1. q = 0 BY <3>2 DEF MovedOut
      <4>2. Reports(u, 0, TRUE) BY <3>2 DEF Reports
      <4>3. QED BY <4>1, <4>2
    <3>3. QED BY <3>1, <3>2
  <2>f. ~o.stray => o.pos[u] = q
    BY <2>4
  <2> HIDE DEF q
  <2>6. CASE get_trk0(o, TRUE)
    <3>1. ~o.stray => o.pos[u] = 0
      BY <2>5, <2>6, <2>d, <2>e, <2>f
    <3>2. Known(o)
      BY <2>2, <2>4, <3>1, KnownParts DEF Tracked
    <3>3. QED
      BY <1>2, <1>4, <2>4, <2>6, <3>1, <3>2 DEF r
  <2>7. CASE ~get_trk0(o, TRUE)
    <3>1. ~o.stray => o.pos[u] = -1 /\ Kind[u] # "absent"
      BY <2>5, <2>7, <2>d, <2>e, <2>f
    <3>2. d \in Nat
      BY <2>4 DEF Dev, Delays
    <3> HIDE DEF d
    <3>3. w \in Dev /\ SameBus(w, o)
      BY <2>4, <3>2, TimingBus
    <3> HIDE DEF w
    <3>4. KnownBut(w) /\ w.unit_nr = u /\ w.unit = z.unit
          /\ (~w.stray => w.pos[u] = -1 /\ Kind[u] # "absent")
      BY <2>4, <3>1, <3>3, SameKnown DEF SameBus
    <3>5. Stepped(back, w, MovedIn(u, w.pos[u], 1))
      BY <3>4, StepInKnown
    <3> HIDE DEF back
    <3>6. /\ back \in Dev /\ KnownBut(back) /\ back.unit_nr = u /\ back.unit = z.unit
          /\ ~back.stray => back.pos[u] = MovedIn(u, -1, 1) /\ Kind[u] # "absent"
      BY <3>4, <3>5 DEF Stepped, KnownBut, SeekFrame
    <3>7. Kind[u] # "absent" => MovedIn(u, -1, 1) = 0
      BY LastCylAssumption DEF MovedIn, Smaller
    <3>8. Known(back)
      BY <2>2, <3>6, <3>7, KnownParts DEF Tracked
    <3>9. e \in Dev /\ SameBus(e, back)
      BY <3>2, <3>6, TimingBus
    <3> HIDE DEF e
    <3>10. Known(e)
      BY <3>8, <3>9, SameKnown
    <3>11. g \in Dev /\ SameBus(g, e) /\ g.rc = "BAD_CYLINDER"
      BY <3>9, TimingBus DEF Acks
    <3>12. Known(g)
      BY <3>10, <3>11, SameKnown
    <3> HIDE DEF g
    <3>13. QED
      BY <1>2, <1>4, <2>4, <2>7, <3>11, <3>12 DEF r
  <2>8. QED
    BY <2>6, <2>7
<1>5. QED
  BY <1>3, <1>4

-----------------------------------------------------------------------------
(* The write gate, and leaving the drives quiet.                           *)

\* The write gate's line follows pins.wgate.
LEMMA GateWritten ==
  ASSUME NEW s, Known(s), NEW on \in BOOLEAN, NEW r \in Dev,
         r.bus_type = s.bus_type, r.unit_nr = s.unit_nr, r.unit = s.unit,
         r.pos = s.pos, r.stray = s.stray, r.found = s.found, r.wgate = on,
         r.line = [s.line EXCEPT ![WGATE] = IF on THEN "on" ELSE "off"]
  PROVE  Known(r)
<1>1. s \in Dev /\ LinesTrue(s) /\ s.bus_type \in 0..2
  BY DEF Known, KnownBut, Dev
<1>2. \A u \in Units : MotorPin(s.bus_type, u) # WGATE
  BY <1>1, PinsApart
<1>3. s.unit_nr # NoUnit => SelectPin(s.bus_type, s.unit_nr) # WGATE
  <2>1. s.unit_nr # NoUnit => s.unit_nr \in Units
    BY <1>1 DEF Dev, Units, NoUnit
  <2>2. QED
    BY <1>1, <2>1, PinsApart
<1>4. Driven(r, WGATE) <=> on
  BY <1>2, <1>3 DEF Driven
<1>5. \A p \in Pins \ {WGATE} : Driven(r, p) <=> Driven(s, p)
  BY DEF Driven
<1>6. \A p \in Pins : s.line[p] \notin HostLevels => ((s.line[p] = "on") <=> Driven(s, p))
  BY <1>1 DEF LinesTrue
<1>7. \A p \in Pins : r.line[p] \notin HostLevels => ((r.line[p] = "on") <=> Driven(r, p))
  BY <1>1, <1>4, <1>5, <1>6, LineWritten
<1>8. LinesTrue(r)
  BY <1>1, <1>7 DEF LinesTrue
<1>9. QED
  BY <1>8, HeadsKnown DEF SameHeads

\* Opening the gate touches the gate's line only.
LEMMA GateOnKnown ==
  ASSUME NEW s, Known(s)
  PROVE  Known(WriteGateOn(s)) /\ WriteGateOn(s).armed = s.armed
<1> DEFINE l == [s.line EXCEPT ![WGATE] = "on"]
           e == s.early \cup (IF s.settle > 0 \/ s.pre > 0 \/ s.post > 0
                              THEN {"write"} ELSE {})
           r == [s EXCEPT !.wgate = TRUE, !.line = l, !.early = e]
<1>1. s \in Dev
  BY DEF Known, KnownBut
<1>2. l \in [Pins -> Levels] /\ e \in SUBSET EarlyOps
      /\ l = [s.line EXCEPT ![WGATE] = IF TRUE THEN "on" ELSE "off"]
  BY <1>1 DEF Dev, EarlyOps, Levels
<1>3. WriteGateOn(s) = r
  BY DEF WriteGateOn
<1> HIDE DEF l, e
<1>4. /\ r \in Dev /\ r.bus_type = s.bus_type /\ r.unit_nr = s.unit_nr
      /\ r.unit = s.unit /\ r.pos = s.pos /\ r.stray = s.stray /\ r.wgate = TRUE
      /\ r.line = l /\ r.armed = s.armed /\ r.found = s.found
  BY <1>1, <1>2 DEF Dev
<1> HIDE DEF r
<1>5. Known(r)
  BY <1>2, <1>4, GateWritten
<1>6. QED
  BY <1>3, <1>4, <1>5

\* floppy_flux_end() closes it, and leaves all other lines and the heads alone.
LEMMA FluxEndKnown ==
  ASSUME NEW s, Known(s)
  PROVE  LET r == floppy_flux_end(s)
         IN /\ Known(r) /\ ~r.wgate /\ r.unit_nr = s.unit_nr /\ r.unit = s.unit
            /\ r.armed = s.armed
<1>1. s \in Dev
  BY DEF Known, KnownBut
<1>2. CASE ~s.wgate
  BY <1>2 DEF floppy_flux_end
<1>3. CASE s.wgate
  <2> DEFINE l == [s.line EXCEPT ![WGATE] = "off"]
             d == s.delay.post_write
             t == [s EXCEPT !.wgate = FALSE, !.line = l, !.post = d]
             r == op_delay_async(t, {"write", "seek", "head"}, d)
  <2>1. /\ l \in [Pins -> Levels] /\ d \in Nat
        /\ l = [s.line EXCEPT ![WGATE] = IF FALSE THEN "on" ELSE "off"]
    BY <1>1 DEF Dev, Delays, Levels
  <2>2. floppy_flux_end(s) = r
    BY <1>3 DEF floppy_flux_end
  <2> HIDE DEF l, d
  <2>3. /\ t \in Dev /\ t.bus_type = s.bus_type /\ t.unit_nr = s.unit_nr
        /\ t.unit = s.unit /\ t.pos = s.pos /\ t.stray = s.stray /\ t.wgate = FALSE
        /\ t.line = l /\ t.armed = s.armed /\ t.found = s.found
    BY <1>1, <2>1 DEF Dev
  <2> HIDE DEF t
  <2>4. Known(t)
    BY <2>1, <2>3, GateWritten
  <2>5. r \in Dev /\ SameBus(r, t)
    BY <2>1, <2>3, WaitBus DEF DelayOps
  <2>6. r.armed = t.armed
    BY <2>3 DEF op_delay_async, Elapse, Dev
  <2> HIDE DEF r
  <2>7. Known(r)
    BY <2>4, <2>5, SameKnown
  <2>8. QED
    BY <2>2, <2>3, <2>5, <2>6, <2>7 DEF SameBus
<1>4. QED
  BY <1>2, <1>3

\* Waiting neither arms nor disarms the watchdog.
LEMMA ArmedKept ==
  ASSUME NEW s \in Dev, NEW op
  PROVE  /\ op_delay_wait(s, op).armed = s.armed
         /\ watchdog_kick(s).armed = s.armed
         /\ \A n \in Nat : Elapse(s, n).armed = s.armed
         /\ watchdog_arm(s).armed = TRUE
<1>1. \A n \in Nat : Elapse(s, n).armed = s.armed
  BY DEF Elapse, Dev
<1>2. op_delay_wait(s, op).armed = s.armed
  <2> DEFINE e == Elapse(s, s.od)
  <2>1. e.armed = s.armed /\ e \in Dev
    BY <1>1, ElapseDev DEF Dev
  <2> HIDE DEF e
  <2>2. [e EXCEPT !.mask = {}].armed = e.armed
    BY <2>1 DEF Dev
  <2>3. QED
    BY <2>1, <2>2 DEF op_delay_wait, e
<1>3. watchdog_kick(s).armed = s.armed
  BY DEF watchdog_kick, Dev
<1>4. watchdog_arm(s).armed = TRUE
  BY DEF watchdog_arm, watchdog_kick, Dev
<1>5. QED
  BY <1>1, <1>2, <1>3, <1>4

\* Kicking or arming the watchdog, or setting the return code, keeps Known.
LEMMA ArmKnown ==
  ASSUME NEW s, Known(s)
  PROVE  /\ Known(watchdog_kick(s))
         /\ LET r == watchdog_arm(s)
            IN Known(r) /\ r.armed = TRUE /\ r.unit = s.unit /\ r.unit_nr = s.unit_nr
         /\ \A c \in Acks : Known(Return(s, c))
<1>1. s \in Dev /\ s.delay.watchdog \in Nat
  BY DEF Known, KnownBut, Dev, Delays
<1>2. watchdog_kick(s) \in Dev /\ SameBus(watchdog_kick(s), s)
  BY <1>1 DEF watchdog_kick, Dev, SameBus
<1>3. watchdog_arm(s) \in Dev /\ SameBus(watchdog_arm(s), s)
  BY <1>1 DEF watchdog_arm, watchdog_kick, Dev, SameBus
<1>4. \A c \in Acks : Return(s, c) \in Dev /\ SameBus(Return(s, c), s)
  BY <1>1, TimingBus
<1>5. watchdog_arm(s).armed = TRUE
  BY <1>1, ArmedKept
<1>6. QED
  BY <1>2, <1>3, <1>4, <1>5, SameKnown DEF SameBus

\* A head change is none of the lines' business that Known speaks of.
LEMMA HeadKnown ==
  ASSUME NEW s, Known(s), NEW h \in BOOLEAN
  PROVE  Known(head_select(s, h))
<1> DEFINE w == op_delay_wait(s, "head")
           d == s.delay.pre_write
           x == w.early \cup (IF w.post > 0 \/ w.wgate THEN {"head"} ELSE {})
           t == [w EXCEPT !.head = h, !.pre = d, !.early = x]
           r == op_delay_async(t, {"write"}, d)
<1>1. s \in Dev /\ d \in Nat
  BY DEF Known, KnownBut, Dev, Delays
<1>2. head_select(s, h) = IF s.head = h THEN s ELSE r
  BY DEF head_select
<1>3. w \in Dev /\ SameBus(w, s)
  BY <1>1, WaitBus
<1>4. x \in SUBSET EarlyOps
  BY <1>3 DEF Dev, EarlyOps
<1> HIDE DEF w, d, x
<1>5. t \in Dev /\ SameBus(t, w)
  BY <1>1, <1>3, <1>4 DEF Dev, SameBus
<1> HIDE DEF t
<1>6. r \in Dev /\ SameBus(r, t)
  BY <1>1, <1>5, WaitBus DEF DelayOps
<1> HIDE DEF r
<1>7. Known(w)
  BY <1>3, SameKnown
<1>8. Known(t)
  BY <1>5, <1>7, SameKnown
<1>9. Known(r)
  BY <1>6, <1>8, SameKnown
<1>10. QED
  BY <1>2, <1>9

\* Unit u is left as quiesce_drives() means to leave it.
UnitQuiet(s, u) == ~s.unit[u].motor /\ ~(s.unit[u].initialised /\ s.unit[u].cyl < 0)

\* One iteration of the loop quiets its unit, whatever it takes, and disquiets no
\* other: selecting a synchronised drive and seeking it to cylinder 0 cannot fail,
\* nor can turning off a motor that is on.
LEMMA QuiesceUnitKnown ==
  ASSUME NEW s, Known(s), NEW i \in Units
  PROVE  LET r == quiesce_unit(s, i)
         IN /\ Known(r) /\ r.wgate = s.wgate /\ UnitQuiet(r, i)
            /\ \A v \in Units : UnitQuiet(s, v) => UnitQuiet(r, v)
<1> DEFINE d == drive_select(s, i)
           f == floppy_seek(d, 0)
           z == IF s.unit[i].initialised /\ s.unit[i].cyl < 0 THEN f ELSE s
           m == drive_motor(z, i, FALSE)
           r == quiesce_unit(s, i)
<1>1. i \in Nat /\ 0 <= LastCyl /\ s.unit[i].cyl \in Int
  BY LastCylAssumption DEF Units, Known, KnownBut, Dev, UnitRec
<1>2. s.unit[i].initialised => SelectPin(s.bus_type, i) \in UserPins
  BY DEF Known, KnownBut, Plausible
<1>3. /\ Known(d) /\ d.unit = s.unit /\ d.bus_type = s.bus_type /\ d.wgate = s.wgate
      /\ SelectPin(s.bus_type, i) \in UserPins => d.unit_nr = i
  BY <1>1, SelectKnown
<1>4. r = IF z.unit[i].motor THEN m ELSE z
  BY DEF quiesce_unit, QuiesceMotor
<1> HIDE DEF d
<1>5. /\ Known(f) /\ SeekFrame(f, d)
      /\ s.unit[i].initialised => Arrived(f, 0)
  BY <1>1, <1>2, <1>3, SeekKnown
<1> HIDE DEF f
<1>6. /\ Known(z) /\ z.wgate = s.wgate
      /\ ~(z.unit[i].initialised /\ z.unit[i].cyl < 0)
      /\ \A v \in Units : UnitQuiet(s, v) => UnitQuiet(z, v)
  <2>1. CASE s.unit[i].initialised /\ s.unit[i].cyl < 0
    <3>1. z = f /\ d.unit_nr = i /\ f.unit_nr = i
      BY <1>2, <1>3, <1>5, <2>1 DEF SeekFrame
    <3>2. f.unit[i].cyl = 0 /\ f.wgate = s.wgate
      BY <1>3, <1>5, <2>1, <3>1 DEF Arrived, SeekFrame
    <3>3. \A v \in Units \ {i} : f.unit[v] = s.unit[v]
      BY <1>3, <1>5, <3>1 DEF SeekFrame
    <3>4. ~UnitQuiet(s, i)
      BY <2>1 DEF UnitQuiet
    <3>5. QED
      BY <1>5, <3>1, <3>2, <3>3, <3>4 DEF UnitQuiet
  <2>2. CASE ~(s.unit[i].initialised /\ s.unit[i].cyl < 0)
    BY <2>2
  <2>3. QED
    BY <2>1, <2>2
<1> HIDE DEF z
<1>7. /\ Known(m) /\ m.wgate = z.wgate /\ SameHeads(m, z)
      /\ \A v \in Units : ~z.unit[v].motor => ~m.unit[v].motor
      /\ z.unit[i].motor => ~m.unit[i].motor
  BY <1>1, <1>6, MotorKnown
<1> HIDE DEF m, r
<1>8. \A v \in Units : UnitQuiet(z, v) => UnitQuiet(m, v)
  BY <1>7 DEF UnitQuiet, SameHeads
<1>9. z.unit[i].motor => UnitQuiet(m, i)
  BY <1>6, <1>7 DEF UnitQuiet, SameHeads
<1>10. ~z.unit[i].motor => UnitQuiet(z, i)
  BY <1>6 DEF UnitQuiet
<1>11. QED
  BY <1>4, <1>6, <1>7, <1>8, <1>9, <1>10 DEF r

\* A quiet unit's head, if it was found, is not below cylinder 0.
LEMMA QuietHead ==
  ASSUME NEW s, Known(s), NEW u \in Units, UnitQuiet(s, u), u \in s.found
  PROVE  s.pos[u] >= 0
<1>1. Plausible(s, u) /\ Tracked(s, u) /\ s.unit[u].cyl \in Int
  BY DEF Known, KnownBut, Dev, UnitRec
<1>2. QED
  BY <1>1 DEF Plausible, Tracked, UnitQuiet

\* quiesce_drives() keeps its promise from every device it may find: the gate
\* shut, no drive selected, no motor on, no line left asserted by the firmware,
\* no head that was found left below cylinder 0.
LEMMA QuiesceKnown ==
  ASSUME NEW s, Known(s)
  PROVE  LET r == quiesce_drives(s) IN Known(r) /\ Quiesced(r)
<1> DEFINE e == floppy_flux_end(s)
           q0 == quiesce_unit(e, 0)
           q1 == quiesce_unit(q0, 1)
           q2 == quiesce_unit(q1, 2)
           q3 == quiesce_unit(q2, 3)
           d == drive_deselect(q3)
           r == [d EXCEPT !.armed = FALSE]
<1>0. 0 \in Units /\ 1 \in Units /\ 2 \in Units /\ 3 \in Units
      /\ \A u \in Units : u = 0 \/ u = 1 \/ u = 2 \/ u = 3
  BY DEF Units
<1>1. quiesce_drives(s) = r BY DEF quiesce_drives
<1>2. Known(e) /\ ~e.wgate
  BY FluxEndKnown
<1> HIDE DEF e
<1>3. Known(q0) /\ ~q0.wgate /\ UnitQuiet(q0, 0)
  BY <1>0, <1>2, QuiesceUnitKnown
<1> HIDE DEF q0
<1>4. Known(q1) /\ ~q1.wgate /\ UnitQuiet(q1, 0) /\ UnitQuiet(q1, 1)
  BY <1>0, <1>3, QuiesceUnitKnown
<1> HIDE DEF q1
<1>5. Known(q2) /\ ~q2.wgate /\ UnitQuiet(q2, 0) /\ UnitQuiet(q2, 1)
      /\ UnitQuiet(q2, 2)
  BY <1>0, <1>4, QuiesceUnitKnown
<1> HIDE DEF q2
<1>6. /\ Known(q3) /\ ~q3.wgate /\ UnitQuiet(q3, 3)
      /\ \A u \in Units : UnitQuiet(q2, u) => UnitQuiet(q3, u)
  BY <1>0, <1>5, QuiesceUnitKnown
<1> HIDE DEF q3
<1>7. Known(d) /\ d.unit_nr = NoUnit /\ d.unit = q3.unit /\ ~d.wgate
  BY <1>6, DeselectKnown
<1> HIDE DEF d
<1>8. r \in Dev /\ SameBus(r, d)
  BY <1>7, TimingBus DEF Known, KnownBut
<1>9. Known(r)
  BY <1>7, <1>8, SameKnown
<1>10. r.unit_nr = NoUnit /\ ~r.wgate /\ r.unit = q3.unit
  BY <1>7, <1>8 DEF SameBus
<1> HIDE DEF r
<1>11. \A u \in Units : UnitQuiet(q3, u)
  BY <1>0, <1>5, <1>6
<1>a. \A u \in Units : UnitQuiet(r, u)
  BY <1>10, <1>11 DEF UnitQuiet
<1>b. \A u \in Units : u \in r.found => r.pos[u] >= 0
  BY <1>9, <1>a, QuietHead
<1>c. \A p \in Pins : r.line[p] # "on"
  <2>1. \A p : ~Driven(r, p)
    BY <1>10, <1>a DEF Driven, UnitQuiet
  <2>2. QED
    BY <1>9, <2>1 DEF Known, KnownBut, LinesTrue, HostLevels
<1>12. Quiesced(r)
  BY <1>10, <1>a, <1>b, <1>c DEF Quiesced, UnitQuiet
<1>13. QED
  BY <1>1, <1>9, <1>12

\* With no drive selected, no motor on and every unit blank, the bus type may
\* change: no line is on.
LEMMA BusKnown ==
  ASSUME NEW s, Known(s), NEW type \in 0..2
  PROVE  LET r == SetBusType(s, type) IN Known(r) /\ Quiesced(r)
<1> DEFINE q == quiesce_drives(s)
           v == [u \in Units |-> BlankUnit]
           r == [q EXCEPT !.bus_type = type, !.unit_nr = NoUnit, !.unit = v,
                          !.stray = FALSE]
<1>1. SetBusType(s, type) = r
  BY DEF SetBusType
<1>2. Known(q) /\ Quiesced(q) /\ q \in Dev /\ LinesTrue(q)
  BY QuiesceKnown DEF Known, KnownBut
<1> HIDE DEF q
<1>3. /\ v \in [Units -> UnitRec]
      /\ \A u \in Units : ~v[u].motor /\ ~v[u].initialised /\ ~v[u].is_flippy
  BY DEF BlankUnit, UnitRec
<1> HIDE DEF v
<1>n. NoUnit \in -1..3
  BY DEF NoUnit
<1>d. r \in Dev
  BY <1>2, <1>3, <1>n DEF Dev
<1>4. /\ r \in Dev /\ r.bus_type = type /\ r.unit_nr = NoUnit /\ r.unit = v
      /\ r.line = q.line /\ r.wgate = q.wgate /\ r.pos = q.pos
      /\ r.stray = FALSE /\ r.found = q.found
  BY <1>2, <1>d DEF Dev
<1> HIDE DEF r
<1>5. Quiesced(r)
  BY <1>2, <1>3, <1>4 DEF Quiesced
<1>6. \A p : ~Driven(r, p) /\ ~Driven(q, p)
  BY <1>2, <1>5 DEF Driven, Quiesced
<1>7. LinesTrue(r)
  BY <1>2, <1>3, <1>4, <1>6 DEF LinesTrue
<1>8. \A u \in Units : Plausible(r, u) /\ Tracked(r, u)
  BY <1>2, <1>3, <1>4 DEF Known, KnownBut, Plausible, Tracked, Quiesced
<1>9. QED
  BY <1>1, <1>4, <1>5, <1>7, <1>8 DEF Known, KnownBut

\* set_bus_type() does so, or refuses and changes nothing.
LEMMA SetBusKnown ==
  ASSUME NEW s, Known(s), NEW type \in Nat
  PROVE  Known(set_bus_type(s, type))
<1> DEFINE b == SetBusType(s, type)
<1>1. set_bus_type(s, type) = IF type = s.bus_type THEN Return(s, "OKAY")
        ELSE IF type > BUS_SHUGART THEN Return(s, "BAD_COMMAND") ELSE Return(b, "OKAY")
  BY DEF set_bus_type
<1>2. ~(type > BUS_SHUGART) => type \in 0..2
  BY DEF BUS_SHUGART
<1>3. type \in 0..2 => Known(b)
  BY BusKnown
<1> HIDE DEF b
<1>4. QED
  BY <1>1, <1>2, <1>3, ArmKnown DEF Acks

\* At power-on the lines are off and no cylinder is cached.
LEMMA PowerOnKnown ==
  ASSUME NEW delay \in Delays, NEW p \in [Units -> Int],
         \A u \in Units : p[u] <= LastCyl /\ (Kind[u] = "normal" => p[u] >= 0),
         NEW e \in SUBSET {"noclick"}
  PROVE  LET r == [PowerOn(delay, p) EXCEPT !.early = e]
         IN Known(r) /\ Quiesced(r)
<1> DEFINE v == [u \in Units |-> BlankUnit]
           l == [q \in Pins |-> "off"]
           o == PowerOn(delay, p)
           r == [o EXCEPT !.early = e]
<1>1. /\ v \in [Units -> UnitRec] /\ l \in [Pins -> Levels]
      /\ \A u \in Units : ~v[u].motor /\ ~v[u].initialised /\ ~v[u].is_flippy
      /\ \A q \in Pins : l[q] = "off"
  BY DEF BlankUnit, UnitRec, Levels
<1>2. o = [bus_type |-> BUS_NONE, unit_nr |-> NoUnit, unit |-> v,
   delay |-> delay, wgate |-> FALSE, head |-> FALSE, line |-> l,
   mask |-> {}, od |-> 0, armed |-> FALSE, wd |-> 0, rc |-> "OKAY",
   pos |-> p, settle |-> 0, pre |-> 0, post |-> 0,
   early |-> {}, stray |-> FALSE, found |-> {}]
  BY DEF PowerOn
<1> HIDE DEF v, l, o
<1>3. /\ o \in Dev /\ o.unit_nr = NoUnit /\ o.unit = v /\ o.line = l
      /\ o.wgate = FALSE /\ o.pos = p /\ o.stray = FALSE /\ o.found = {}
  BY <1>1, <1>2 DEF Dev, BUS_NONE, NoUnit, Acks
<1>4. /\ r \in Dev /\ r.unit_nr = NoUnit /\ r.unit = v /\ r.line = l
      /\ r.wgate = FALSE /\ r.pos = p /\ r.stray = FALSE /\ r.found = {}
  BY <1>3 DEF Dev, EarlyOps
<1> HIDE DEF r
<1>5. Quiesced(r)
  BY <1>1, <1>4 DEF Quiesced
<1>6. \A q : ~Driven(r, q)
  BY <1>5 DEF Driven, Quiesced
<1>7. LinesTrue(r)
  BY <1>1, <1>4, <1>6 DEF LinesTrue
<1>8. \A u \in Units : Plausible(r, u) /\ Tracked(r, u)
  BY <1>1, <1>4 DEF Plausible, Tracked
<1>9. QED
  BY <1>4, <1>5, <1>7, <1>8 DEF Known, KnownBut, r, o

-----------------------------------------------------------------------------


\* While a write waits for its index pulse all documented delays are over.
WriteWaitsIdle ==
  floppy_state = "write_flux_wait_index" =>
     dev.settle = 0 /\ dev.pre = 0 /\ dev.post = 0

\* The inductive invariant.
IInv == TypeOK /\ Safe(dev) /\ GateOnlyInFlux /\ WriteWaitsIdle

\* The invariant holds when the firmware starts.
LEMMA InitInv == Init => IInv
<1> SUFFICES ASSUME Init PROVE IInv OBVIOUS
<1>1. PICK p \in StartPos : dev = PowerOn(FactoryDelays, p) BY DEF Init
<1>2. FactoryDelays \in Delays /\ p \in [Units -> Int]
  BY DelaysAssumption, StartPosAssumption
<1>3. Safe(dev) /\ ~dev.wgate
  BY <1>1, <1>2, PowerOnSafe
<1>4. dev \in Dev BY <1>3 DEF Safe
<1>5. TypeOK
  <2>1. floppy_state \in FloppyStates /\ ubuf \in 0..UBufSz /\ txq \in 0..TxSlots
        /\ fin \in Nat /\ overrun \subseteq FloppyStates
    BY BufferAssumption DEF Init, FloppyStates
  <2>2. pkt \in BOOLEAN /\ hostUp \in BOOLEAN BY DEF Init
  <2>3. QED BY <1>4, <2>1, <2>2 DEF TypeOK
<1>6. QED BY <1>3, <1>5 DEF IInv, GateOnlyInFlux, WriteWaitsIdle, Init

\* usb_write() keeps the endpoint within its slots.
LEMMA UsbWriteType ==
  ASSUME IInv, usb_write
  PROVE  txq' \in 0..TxSlots /\ overrun' \subseteq FloppyStates
BY BufferAssumption DEF IInv, TypeOK, usb_write, ep_tx_ready

\* floppy_end_command() answers and re-arms the watchdog, nothing more.
LEMMA EndInv ==
  ASSUME IInv, NEW s, Safe(s), floppy_end_command(s)
  PROVE  /\ Safe(dev') /\ dev'.wgate = s.wgate
         /\ txq' \in 0..TxSlots /\ overrun' \subseteq FloppyStates /\ ubuf' = 0
<1>1. Safe(Return(s, "OKAY")) /\ Return(s, "OKAY").wgate = s.wgate
  BY ReturnStill DEF Acks
<1>2. Safe(dev') /\ dev'.wgate = s.wgate
  BY <1>1, ArmSafe DEF floppy_end_command
<1>3. QED BY <1>2, UsbWriteType DEF floppy_end_command

\* Commands run only with the write gate shut.
LEMMA CommandShut ==
  ASSUME IInv, CommandReady
  PROVE  Safe(dev) /\ ~dev.wgate /\ floppy_state = "command_wait"
BY DEF IInv, CommandReady, InState, GateOnlyInFlux

\* A command that moves to a flux, stream or test state keeps the invariant.
LEMMA StartsInv ==
  ASSUME IInv, NEW s, NEW st \in FloppyStates, Starts(s, st),
         CommandReady => Safe(s),
         s.wgate => st \in {"write_flux", "erase_flux"},
         st # "write_flux_wait_index", pkt' \in BOOLEAN, fin' \in Nat
  PROVE  IInv'
<1>1. CommandReady /\ floppy_end_command(s) /\ floppy_state' = st /\ hostUp' = hostUp
  BY DEF Starts
<1>2. /\ Safe(dev') /\ dev'.wgate = s.wgate
      /\ txq' \in 0..TxSlots /\ overrun' \subseteq FloppyStates /\ ubuf' = 0
  BY <1>1, EndInv
<1>3. TypeOK'
  BY <1>1, <1>2, BufferAssumption DEF TypeOK, IInv, Safe
<1>4. QED BY <1>1, <1>2, <1>3 DEF IInv, GateOnlyInFlux, WriteWaitsIdle

\* A command that runs to completion keeps the invariant.
LEMMA CompletesInv ==
  ASSUME IInv, NEW s, Completes(s), CommandReady => Safe(s) /\ ~s.wgate
  PROVE  IInv'
<1>1. CommandReady /\ floppy_end_command(s)
      /\ UNCHANGED <<floppy_state, pkt, fin, hostUp>>
  BY DEF Completes
<1>2. /\ Safe(dev') /\ dev'.wgate = s.wgate
      /\ txq' \in 0..TxSlots /\ overrun' \subseteq FloppyStates /\ ubuf' = 0
  BY <1>1, EndInv
<1>3. TypeOK'
  BY <1>1, <1>2, BufferAssumption DEF TypeOK, IInv, Safe
<1>4. floppy_state' = "command_wait" BY <1>1, CommandShut
<1>5. QED BY <1>1, <1>2, <1>3, <1>4 DEF IInv, GateOnlyInFlux, WriteWaitsIdle

\* Every command of process_command() keeps the invariant.
LEMMA CommandInv ==
  ASSUME IInv, Command
  PROVE  IInv'
<1>0. CommandReady => Safe(dev) /\ ~dev.wgate /\ dev \in Dev
  BY CommandShut DEF Safe
<1>p. pkt \in BOOLEAN /\ fin \in Nat BY DEF IInv, TypeOK
<1>1. CASE CmdQuery
  BY <1>0, <1>1, CompletesInv DEF CmdQuery
<1>2. CASE CmdSeek
  <2>1. PICK c \in HostCyls : Completes(floppy_seek(dev, c)) BY <1>2 DEF CmdSeek
  <2>2. c \in Int BY HostAssumption
  <2>3. CommandReady => Safe(floppy_seek(dev, c)) /\ ~floppy_seek(dev, c).wgate
    BY <1>0, <2>2, SeekSafe
  <2>4. QED BY <2>1, <2>3, CompletesInv
<1>3. CASE CmdNoclickStep
  BY <1>0, <1>3, NoclickSafe, CompletesInv DEF CmdNoclickStep
<1>4. CASE CmdHead
  <2>1. PICK h \in BOOLEAN : Completes(head_select(dev, h)) BY <1>4 DEF CmdHead
  <2>2. CommandReady => Safe(head_select(dev, h)) /\ ~head_select(dev, h).wgate
    BY <1>0, HeadSafe
  <2>3. QED BY <2>1, <2>2, CompletesInv
<1>5. CASE CmdSelect
  <2>1. PICK nr \in HostUnits : Completes(drive_select(dev, nr)) BY <1>5 DEF CmdSelect
  <2>2. nr \in Nat BY HostAssumption
  <2> DEFINE r == drive_select(dev, nr)
  <2>3. CommandReady => r \in Dev /\ SameTiming(r, dev) BY <1>0, <2>2, SelectDev
  <2> HIDE DEF r
  <2>4. CommandReady => Safe(r) /\ ~r.wgate
    BY <1>0, <2>3, SameSafe DEF SameTiming
  <2>5. QED BY <2>1, <2>4, CompletesInv DEF r
<1>6. CASE CmdDeselect
  <2> DEFINE r == drive_deselect(dev)
  <2>3. CommandReady => r \in Dev /\ SameTiming(r, dev) BY <1>0, DeselectDev
  <2>1. Completes(r) BY <1>6 DEF CmdDeselect
  <2> HIDE DEF r
  <2>4. CommandReady => Safe(r) /\ ~r.wgate
    BY <1>0, <2>3, SameSafe DEF SameTiming
  <2>5. QED BY <2>1, <2>4, CompletesInv
<1>7. CASE CmdMotor
  <2>1. PICK nr \in HostUnits, on \in BOOLEAN : Completes(drive_motor(dev, nr, on))
    BY <1>7 DEF CmdMotor
  <2>2. nr \in Nat BY HostAssumption
  <2> DEFINE r == drive_motor(dev, nr, on)
  <2>3. CommandReady => r \in Dev /\ SameTiming(r, dev) BY <1>0, <2>2, MotorDev
  <2> HIDE DEF r
  <2>4. CommandReady => Safe(r) /\ ~r.wgate
    BY <1>0, <2>3, SameSafe DEF SameTiming
  <2>5. QED BY <2>1, <2>4, CompletesInv DEF r
<1>8. CASE CmdSetParams
  <2>1. PICK d \in HostDelays : Completes([dev EXCEPT !.delay = d])
    BY <1>8 DEF CmdSetParams
  <2>2. d \in Delays BY DelaysAssumption
  <2>3. ASSUME CommandReady PROVE Safe([dev EXCEPT !.delay = d])
                                  /\ ~[dev EXCEPT !.delay = d].wgate
    BY <1>0, <2>2, <2>3, SetDelaySafe
  <2>4. QED BY <2>1, <2>3, CompletesInv
<1>9. CASE CmdSetBusType
  <2>1. PICK type \in HostBuses : Completes(set_bus_type(dev, type))
    BY <1>9 DEF CmdSetBusType
  <2>2. type \in Nat BY HostAssumption
  <2>3. CommandReady => Safe(set_bus_type(dev, type)) /\ ~set_bus_type(dev, type).wgate
    BY <1>0, <2>2, SetBusSafe
  <2>4. QED BY <2>1, <2>3, CompletesInv
<1>10. CASE CmdSetPin
  <2>1. PICK p \in HostPins, level \in HostLevels :
               Completes(set_user_pin(dev, p, level))
    BY <1>10 DEF CmdSetPin
  <2> DEFINE r == set_user_pin(dev, p, level)
  <2>3. CommandReady => r \in Dev /\ SameTiming(r, dev) BY <1>0, UserPinDev
  <2> HIDE DEF r
  <2>4. CommandReady => Safe(r) /\ ~r.wgate
    BY <1>0, <2>3, SameSafe DEF SameTiming
  <2>5. QED BY <2>1, <2>4, CompletesInv DEF r
<1>11. CASE CmdReset
  <2> DEFINE a == [dev EXCEPT !.delay = FactoryDelays]
             b == SetBusType(a, BUS_NONE)
             r == reset_user_pins(b)
  <2>1. Completes(r) BY <1>11 DEF CmdReset
  <2>2. CommandReady => Safe(a) BY <1>0, DelaysAssumption, SetDelaySafe
  <2> HIDE DEF a
  <2>3. CommandReady => Safe(b) /\ ~b.wgate BY <2>2, BusSafe DEF BUS_NONE
  <2> HIDE DEF b
  <2>4. CommandReady => r \in Dev /\ SameTiming(r, b) BY <2>3, ResetPinsDev DEF Safe
  <2> HIDE DEF r
  <2>5. CommandReady => Safe(r) /\ ~r.wgate BY <2>3, <2>4, SameSafe DEF SameTiming
  <2>6. QED BY <2>1, <2>5, CompletesInv
<1>12. CASE CmdReadFlux
  <2> DEFINE w == op_delay_wait(dev, "read")
             r == [w EXCEPT !.early = w.early \cup (IF w.settle > 0 THEN {"read"} ELSE {})]
  <2>1. Starts(r, "read_flux") /\ pkt' = FALSE /\ fin' = fin BY <1>12 DEF CmdReadFlux
  <2>2. CommandReady => Safe(w) /\ ~w.wgate /\ "read" \notin w.mask
    BY <1>0, WaitSafe DEF DelayOps
  <2> HIDE DEF w
  <2>3. CommandReady => w.settle = 0 /\ w \in Dev BY <2>2, WaitCovers DEF Safe
  <2>4. CommandReady => r = w BY <2>3 DEF Dev
  <2> HIDE DEF r
  <2>5. CommandReady BY <2>1 DEF Starts
  <2>6. QED BY <1>p, <2>1, <2>2, <2>4, <2>5, StartsInv DEF FloppyStates
<1>13. CASE CmdWriteFlux
  <2>1. Starts(dev, "write_flux_wait_data") /\ pkt' = FALSE /\ fin' = fin
    BY <1>13 DEF CmdWriteFlux
  <2>2. CommandReady BY <2>1 DEF Starts
  <2>3. QED BY <1>0, <1>p, <2>1, <2>2, StartsInv DEF FloppyStates
<1>14. CASE CmdWriteFluxProtected
  <2>1. CommandReady => Safe(Return(dev, "WRPROT")) /\ ~Return(dev, "WRPROT").wgate
    BY <1>0, ReturnStill DEF Acks
  <2>2. QED BY <1>14, <2>1, CompletesInv DEF CmdWriteFluxProtected
<1>15. CASE CmdEraseFlux
  <2> DEFINE w == op_delay_wait(dev, "write")
             r == WriteGateOn(w)
  <2>1. PICK t \in EraseTicks : Starts(r, "erase_flux") /\ fin' = t /\ pkt' = pkt
    BY <1>15 DEF CmdEraseFlux
  <2>2. CommandReady => Safe(w) /\ "write" \notin w.mask
    BY <1>0, WaitSafe DEF DelayOps
  <2> HIDE DEF w
  <2>3. CommandReady => w.settle = 0 /\ w.pre = 0 /\ w.post = 0 BY <2>2, WaitCovers
  <2>4. CommandReady => Safe(r) BY <2>2, <2>3, GateSafe
  <2> HIDE DEF r
  <2>5. t \in Nat BY EraseAssumption
  <2>6. QED BY <1>p, <2>1, <2>4, <2>5, StartsInv DEF FloppyStates
<1>16. CASE CmdEraseFluxProtected
  <2> DEFINE w == op_delay_wait(dev, "write")
  <2>1. CommandReady => Safe(w) /\ ~w.wgate BY <1>0, WaitSafe DEF DelayOps
  <2>2. Completes(Return(w, "WRPROT")) BY <1>16 DEF CmdEraseFluxProtected
  <2> HIDE DEF w
  <2>3. CommandReady => Safe(Return(w, "WRPROT")) /\ ~Return(w, "WRPROT").wgate
    BY <2>1, ReturnStill DEF Acks
  <2>4. QED BY <2>2, <2>3, CompletesInv
<1>17. CASE CmdSourceBytes
  <2>1. Starts(dev, "source_bytes") /\ pkt' = FALSE /\ fin' = fin
    BY <1>17 DEF CmdSourceBytes
  <2>2. CommandReady BY <2>1 DEF Starts
  <2>3. QED BY <1>0, <1>p, <2>1, <2>2, StartsInv DEF FloppyStates
<1>18. CASE CmdSinkBytes
  <2>1. Starts(dev, "sink_bytes") /\ pkt' = FALSE /\ fin' = fin
    BY <1>18 DEF CmdSinkBytes
  <2>2. CommandReady BY <2>1 DEF Starts
  <2>3. QED BY <1>0, <1>p, <2>1, <2>2, StartsInv DEF FloppyStates
<1>19. CASE CmdUpdate
  <2>1. Starts(dev, "update_bootloader") /\ pkt' = pkt /\ fin' = fin
    BY <1>19 DEF CmdUpdate
  <2>2. CommandReady BY <2>1 DEF Starts
  <2>3. QED BY <1>0, <1>p, <2>1, <2>2, StartsInv DEF FloppyStates
<1>20. CASE CmdTestMode
  <2>1. Starts(dev, "testmode") /\ pkt' = pkt /\ fin' = fin
    BY <1>20 DEF CmdTestMode
  <2>2. CommandReady BY <2>1 DEF Starts
  <2>3. QED BY <1>0, <1>p, <2>1, <2>2, StartsInv DEF FloppyStates
<1>21. CASE CmdSwitchFwMode
  <2>1. /\ CommandReady /\ floppy_state' = "inactive"
        /\ dev' = [PowerOn(FactoryDelays, dev.pos) EXCEPT !.early = dev.early]
        /\ ubuf' = 0 /\ pkt' = FALSE /\ fin' = 0 /\ txq' = 0
        /\ overrun' = overrun /\ hostUp' = hostUp
    BY <1>21 DEF CmdSwitchFwMode
  <2>2. dev.pos \in [Units -> Int] /\ dev.early \in SUBSET {"noclick"}
    BY <1>0, <2>1 DEF Safe, Dev
  <2> DEFINE q == dev.pos
             e == dev.early
  <2> HIDE DEF q, e
  <2>a. q \in [Units -> Int] /\ e \in SUBSET {"noclick"} BY <2>2 DEF q, e
  <2> DEFINE r == [PowerOn(FactoryDelays, q) EXCEPT !.early = e]
  <2>b. Safe(r) /\ ~r.wgate BY <2>a, DelaysAssumption, PowerOnSafe
  <2>3. Safe(dev') /\ ~dev'.wgate BY <2>1, <2>b DEF q, e
  <2>4. floppy_state' \in FloppyStates /\ ubuf' \in 0..UBufSz /\ txq' \in 0..TxSlots
        /\ fin' \in Nat /\ dev' \in Dev
    BY <2>1, <2>3, BufferAssumption DEF Safe, FloppyStates
  <2>5. pkt' \in BOOLEAN /\ hostUp' \in BOOLEAN /\ overrun' \subseteq FloppyStates
    BY <2>1 DEF IInv, TypeOK
  <2>6. TypeOK' BY <2>4, <2>5 DEF TypeOK
  <2>7. QED BY <2>1, <2>3, <2>6 DEF IInv, GateOnlyInFlux, WriteWaitsIdle
<1>22. QED
  BY <1>1, <1>2, <1>3, <1>4, <1>5, <1>6, <1>7, <1>8, <1>9, <1>10, <1>11, <1>12,
     <1>13, <1>14, <1>15, <1>16, <1>17, <1>18, <1>19, <1>20, <1>21 DEF Command

\* Shipping a packet keeps the buffers within their sizes.
LEMMA ReadShipType ==
  ASSUME IInv, NEW avail \in 0..UBufSz, ReadShip(avail)
  PROVE  /\ ubuf' \in 0..UBufSz /\ pkt' \in BOOLEAN
         /\ txq' \in 0..TxSlots /\ overrun' \subseteq FloppyStates
<1>1. pkt \in BOOLEAN /\ txq \in 0..TxSlots /\ overrun \subseteq FloppyStates
  BY DEF IInv, TypeOK
<1>2. ubuf' \in 0..UBufSz BY BufferAssumption DEF ReadShip
<1>3. pkt' \in BOOLEAN BY DEF ReadShip
<1>4. txq' \in 0..TxSlots /\ overrun' \subseteq FloppyStates
  BY <1>1, UsbWriteType DEF ReadShip
<1>5. QED BY <1>2, <1>3, <1>4

\* A handler that leaves the write gate shut.
LEMMA ShutInv ==
  ASSUME IInv, Safe(dev'), ~dev'.wgate,
         floppy_state' \in FloppyStates \ {"write_flux_wait_index"},
         ubuf' \in 0..UBufSz, pkt' \in BOOLEAN, fin' \in Nat, txq' \in 0..TxSlots,
         overrun' \subseteq FloppyStates, hostUp' \in BOOLEAN
  PROVE  IInv'
<1>1. TypeOK' BY DEF TypeOK, Safe
<1>2. QED BY <1>1 DEF IInv, GateOnlyInFlux, WriteWaitsIdle

\* A handler that answers the host and goes back to command_wait.
LEMMA FinishesInv ==
  ASSUME IInv, NEW s, Safe(s), ~s.wgate, NEW st \in {"command_wait", "zlp"},
         Finishes(s, st), pkt' \in BOOLEAN
  PROVE  IInv'
<1>1. floppy_end_command(s) /\ floppy_state' = st /\ fin' = fin /\ hostUp' = hostUp
  BY DEF Finishes
<1>2. /\ Safe(dev') /\ dev'.wgate = s.wgate
      /\ txq' \in 0..TxSlots /\ overrun' \subseteq FloppyStates /\ ubuf' = 0
  BY <1>1, EndInv
<1>3. ubuf' \in 0..UBufSz BY <1>2, BufferAssumption
<1>4. QED BY <1>1, <1>2, <1>3, ShutInv DEF IInv, TypeOK, FloppyStates

\* The handlers of a read keep the invariant, overflow included.
LEMMA ReadInv ==
  ASSUME IInv, ReadFlux \/ ReadDrainFinal \/ ReadDrain
  PROVE  IInv'
<1>0. Safe(dev) /\ ubuf \in 0..UBufSz /\ fin \in Nat /\ hostUp \in BOOLEAN
      /\ floppy_state \in FloppyStates
  BY DEF IInv, TypeOK
<1>1. CASE ReadFlux
  <2>1. PICK k \in 0..EncodeMax, index \in BOOLEAN,
             end \in {"no", "deadline", "no_index"} :
          LET over == ubuf + k > UBufSz
              d == IF index THEN watchdog_kick(dev) ELSE dev
          IN /\ index => k > 0 /\ end # "no_index"
             /\ ReadShip(IF over \/ end = "no_index" THEN 0 ELSE ubuf + k)
             /\ IF over \/ end # "no"
                THEN /\ dev' = floppy_flux_end(d)
                     /\ floppy_state' = "read_flux_drain"
                ELSE dev' = d /\ UNCHANGED floppy_state
    BY <1>1 DEF ReadFlux
  <2> DEFINE over == ubuf + k > UBufSz
             d == IF index THEN watchdog_kick(dev) ELSE dev
             avail == IF over \/ end = "no_index" THEN 0 ELSE ubuf + k
  <2>2. floppy_state = "read_flux" /\ fin' = fin /\ hostUp' = hostUp
    BY <1>1 DEF ReadFlux, InState
  <2>3. Safe(d) /\ ~d.wgate
    BY <1>0, <2>2, ArmSafe DEF IInv, GateOnlyInFlux
  <2>4. avail \in 0..UBufSz BY <1>0, BufferAssumption DEF EncodeMax
  <2>5. ReadShip(avail) BY <2>1
  <2>6. \/ dev' = floppy_flux_end(d) /\ floppy_state' = "read_flux_drain"
        \/ dev' = d /\ floppy_state' = floppy_state
    BY <2>1
  <2> HIDE DEF avail, d
  <2>7. /\ ubuf' \in 0..UBufSz /\ pkt' \in BOOLEAN
        /\ txq' \in 0..TxSlots /\ overrun' \subseteq FloppyStates
    BY <2>4, <2>5, ReadShipType
  <2>8. Safe(dev') /\ ~dev'.wgate BY <2>3, <2>6, FluxEndSafe
  <2>9. QED BY <1>0, <2>2, <2>6, <2>7, <2>8, ShutInv DEF FloppyStates
<1>2. CASE ReadDrainFinal
  <2>1. PICK st \in {"command_wait", "zlp"} : Finishes(dev, st)
    BY <1>2 DEF ReadDrainFinal
  <2>2. ~dev.wgate /\ pkt' \in BOOLEAN
    BY <1>2 DEF ReadDrainFinal, InState, IInv, GateOnlyInFlux
  <2>3. QED BY <1>0, <2>1, <2>2, FinishesInv
<1>3. CASE ReadDrain
  <2>1. /\ floppy_state = "read_flux_drain" /\ ReadShip(ubuf)
        /\ floppy_state' = floppy_state /\ dev' = dev /\ fin' = fin /\ hostUp' = hostUp
    BY <1>3 DEF ReadDrain, InState
  <2>2. /\ ubuf' \in 0..UBufSz /\ pkt' \in BOOLEAN
        /\ txq' \in 0..TxSlots /\ overrun' \subseteq FloppyStates
    BY <1>0, <2>1, ReadShipType
  <2>3. ~dev.wgate BY <2>1 DEF IInv, GateOnlyInFlux
  <2>4. QED BY <1>0, <2>1, <2>2, <2>3, ShutInv DEF FloppyStates
<1>4. QED BY <1>1, <1>2, <1>3

\* The handlers of a write keep the invariant: the gate opens only after
\* op_delay_wait(write), and every way out shuts it.
LEMMA WriteInv ==
  ASSUME IInv, WriteWaitData \/ WriteWaitIndex \/ WriteFlux \/ WriteDrain
  PROVE  IInv'
<1>0. Safe(dev) /\ TypeOK BY DEF IInv
<1>e. ASSUME WriteEnd, UNCHANGED <<ubuf, pkt, fin, txq, overrun, hostUp>>
      PROVE  IInv'
  <2>1. dev' = floppy_flux_end(dev) /\ floppy_state' = "write_flux_drain"
    BY <1>e DEF WriteEnd
  <2>2. Safe(dev') /\ ~dev'.wgate BY <1>0, <2>1, FluxEndSafe
  <2>3. QED BY <1>0, <1>e, <2>1, <2>2, ShutInv DEF TypeOK, FloppyStates
<1>1. CASE WriteWaitData
  <2>1. CASE WriteEnd BY <1>1, <2>1, <1>e DEF WriteWaitData
  <2>2. CASE ~WriteEnd
    <3> DEFINE w == op_delay_wait(dev, "write")
    <3>1. /\ floppy_state = "write_flux_wait_data"
          /\ dev' = w /\ floppy_state' = "write_flux_wait_index"
          /\ UNCHANGED <<ubuf, pkt, fin, txq, overrun, hostUp>>
      BY <1>1, <2>2 DEF WriteWaitData, InState
    <3>2. ~dev.wgate BY <3>1 DEF IInv, GateOnlyInFlux
    <3>3. Safe(w) /\ ~w.wgate /\ "write" \notin w.mask
      BY <1>0, <3>2, WaitSafe DEF DelayOps
    <3> HIDE DEF w
    <3>4. w.settle = 0 /\ w.pre = 0 /\ w.post = 0 /\ w \in Dev
      BY <3>3, WaitCovers DEF Safe
    <3>5. TypeOK' BY <1>0, <3>1, <3>4 DEF TypeOK, FloppyStates
    <3>6. QED BY <3>1, <3>3, <3>4, <3>5 DEF IInv, GateOnlyInFlux, WriteWaitsIdle
  <2>3. QED BY <2>1, <2>2
<1>2. CASE WriteWaitIndex
  <2>1. CASE WriteEnd BY <1>2, <2>1, <1>e DEF WriteWaitIndex
  <2>2. CASE ~WriteEnd
    <3>1. /\ floppy_state = "write_flux_wait_index"
          /\ dev' = WriteGateOn(dev) /\ floppy_state' = "write_flux"
          /\ UNCHANGED <<ubuf, pkt, fin, txq, overrun, hostUp>>
      BY <1>2, <2>2 DEF WriteWaitIndex, InState
    <3>2. dev.settle = 0 /\ dev.pre = 0 /\ dev.post = 0
      BY <3>1 DEF IInv, WriteWaitsIdle
    <3>3. Safe(dev') BY <1>0, <3>1, <3>2, GateSafe
    <3>4. TypeOK' BY <1>0, <3>1, <3>3 DEF TypeOK, FloppyStates, Safe
    <3>5. QED BY <3>1, <3>3, <3>4 DEF IInv, GateOnlyInFlux, WriteWaitsIdle
  <2>3. QED BY <2>1, <2>2
<1>3. CASE WriteFlux
  BY <1>3, <1>e DEF WriteFlux
<1>4. CASE WriteDrain
  <2>1. ~dev.wgate /\ Finishes(dev, "command_wait") /\ pkt' \in BOOLEAN
    BY <1>0, <1>4 DEF WriteDrain, InState, IInv, GateOnlyInFlux, TypeOK
  <2>2. QED BY <1>0, <2>1, FinishesInv
<1>5. QED BY <1>1, <1>2, <1>3, <1>4

\* The remaining handlers of floppy_process() keep the invariant.
LEMMA OtherInv ==
  ASSUME IInv, \/ Zlp \/ EraseFlux \/ SourceBytes \/ SinkBytes
               \/ UpdateBootloader \/ Testmode
  PROVE  IInv'
<1>0. Safe(dev) /\ TypeOK BY DEF IInv
<1>1. CASE Zlp
  <2>1. ~dev.wgate /\ usb_write /\ floppy_state' = "command_wait"
        /\ UNCHANGED <<dev, ubuf, pkt, fin, hostUp>>
    BY <1>1 DEF Zlp, InState, IInv, GateOnlyInFlux
  <2>2. txq' \in 0..TxSlots /\ overrun' \subseteq FloppyStates
    BY <2>1, UsbWriteType
  <2>3. QED BY <1>0, <2>1, <2>2, ShutInv DEF TypeOK, FloppyStates
<1>2. CASE EraseFlux
  <2> DEFINE r == floppy_flux_end(dev)
  <2>1. Finishes(r, "command_wait") /\ pkt' \in BOOLEAN
    BY <1>0, <1>2 DEF EraseFlux, TypeOK
  <2>2. Safe(r) /\ ~r.wgate BY <1>0, FluxEndSafe
  <2> HIDE DEF r
  <2>3. QED BY <2>1, <2>2, FinishesInv
<1>3. CASE SourceBytes
  <2>0. ~dev.wgate /\ floppy_state = "source_bytes" /\ pkt' \in BOOLEAN
    BY <1>3 DEF SourceBytes, InState, IInv, GateOnlyInFlux
  <2>1. CASE Finishes(dev, "command_wait")
    BY <1>0, <2>0, <2>1, FinishesInv
  <2>2. CASE ~Finishes(dev, "command_wait")
    <3>1. UNCHANGED <<floppy_state, dev, ubuf, fin, hostUp>>
      BY <1>3, <2>2 DEF SourceBytes
    <3>2. (txq' = txq /\ overrun' = overrun) \/ usb_write
      BY <1>3, <2>2 DEF SourceBytes
    <3>3. txq' \in 0..TxSlots /\ overrun' \subseteq FloppyStates
      BY <1>0, <3>2, UsbWriteType DEF TypeOK
    <3>4. QED BY <1>0, <2>0, <3>1, <3>3, ShutInv DEF TypeOK, FloppyStates
  <2>3. QED BY <2>1, <2>2
<1>4. CASE SinkBytes
  <2>1. ~dev.wgate /\ Finishes(dev, "command_wait") /\ pkt' \in BOOLEAN
    BY <1>0, <1>4 DEF SinkBytes, InState, IInv, GateOnlyInFlux, TypeOK
  <2>2. QED BY <1>0, <2>1, FinishesInv
<1>5. CASE UpdateBootloader
  <2>1. ~dev.wgate /\ Finishes(dev, "command_wait") /\ pkt' \in BOOLEAN
    BY <1>0, <1>5 DEF UpdateBootloader, InState, IInv, GateOnlyInFlux, TypeOK
  <2>2. QED BY <1>0, <2>1, FinishesInv
<1>6. CASE Testmode
  <2> DEFINE a == [dev EXCEPT !.armed = FALSE]
             b(l) == [dev EXCEPT !.armed = FALSE, !.line = l, !.stray = TRUE,
                                 !.found = {}]
  <2>1. /\ floppy_state = "testmode"
        /\ dev' = a \/ \E l \in [Pins -> HostLevels] : dev' = b(l)
        /\ UNCHANGED <<floppy_state, ubuf, pkt, fin, hostUp>>
    BY <1>6 DEF Testmode, InState
  <2>2. txq' \in 0..TxSlots /\ overrun' \subseteq FloppyStates
    BY <1>0, <1>6, UsbWriteType DEF Testmode, TypeOK
  <2>4. dev \in Dev /\ ~dev.wgate
    BY <1>0, <1>6 DEF Testmode, InState, IInv, GateOnlyInFlux, TypeOK
  <2>5. a \in Dev /\ SameTiming(a, dev)
    BY <2>4 DEF Dev, SameTiming
  <2>3. ASSUME NEW l \in [Pins -> HostLevels]
        PROVE  b(l) \in Dev /\ SameTiming(b(l), dev)
    <3>1. l \in [Pins -> Levels] BY DEF Levels
    <3>2. QED BY <2>4, <3>1 DEF Dev, SameTiming
  <2> HIDE DEF a, b
  <2>a. dev' \in Dev /\ SameTiming(dev', dev)
    BY <2>1, <2>3, <2>5
  <2>6. Safe(dev') /\ ~dev'.wgate
    BY <1>0, <2>4, <2>a, SameSafe DEF SameTiming
  <2>7. floppy_state' = "testmode" BY <1>6 DEF Testmode, InState
  <2>8. QED BY <1>0, <2>1, <2>2, <2>6, <2>7, ShutInv DEF TypeOK, FloppyStates
<1>7. QED BY <1>1, <1>2, <1>3, <1>4, <1>5, <1>6

\* The watchdog and the USB callbacks keep the invariant from any state.
LEMMA CallbackInv ==
  ASSUME IInv, Watchdog \/ UsbReset \/ UsbConfigure
  PROVE  IInv'
<1>0. Safe(dev) /\ TypeOK /\ 0 \in 0..UBufSz /\ 0 \in 0..TxSlots
  BY BufferAssumption DEF IInv
<1>1. Safe(floppy_configure(dev)) /\ ~floppy_configure(dev).wgate
  BY <1>0, ArmSafe, FluxEndSafe DEF floppy_configure
<1>2. CASE Watchdog
  <2> DEFINE c == floppy_configure(dev)
             q == quiesce_drives(c)
             r == Return(q, "OKAY")
  <2>1. dev' = r /\ floppy_state' = "command_wait" /\ ubuf' = 0
        /\ UNCHANGED <<pkt, fin, txq, overrun, hostUp>>
    BY <1>2 DEF Watchdog
  <2> HIDE DEF c
  <2>2. Safe(q) /\ ~q.wgate BY <1>1, QuiesceSafe DEF c
  <2> HIDE DEF q
  <2>3. Safe(r) /\ ~r.wgate BY <2>2, ReturnStill DEF Acks
  <2> HIDE DEF r
  <2>4. QED BY <1>0, <2>1, <2>3, ShutInv DEF TypeOK, FloppyStates
<1>3. CASE UsbReset
  <2> DEFINE q == quiesce_drives(dev)
             r == Return(q, "OKAY")
  <2>1. dev' = r /\ floppy_state' = "inactive" /\ txq' = 0
        /\ UNCHANGED <<ubuf, pkt, fin, overrun, hostUp>>
    BY <1>3 DEF UsbReset
  <2>2. Safe(q) /\ ~q.wgate BY <1>0, QuiesceSafe
  <2> HIDE DEF q
  <2>3. Safe(r) /\ ~r.wgate BY <2>2, ReturnStill DEF Acks
  <2> HIDE DEF r
  <2>4. QED BY <1>0, <2>1, <2>3, ShutInv DEF TypeOK, FloppyStates
<1>4. CASE UsbConfigure
  <2>1. dev' = floppy_configure(dev) /\ floppy_state' = "command_wait" /\ ubuf' = 0
        /\ txq' \in {0, txq} /\ UNCHANGED <<pkt, fin, overrun, hostUp>>
    BY <1>4 DEF UsbConfigure
  <2>2. QED BY <1>0, <1>1, <2>1, ShutInv DEF TypeOK, FloppyStates
<1>5. QED BY <1>2, <1>3, <1>4

\* Interrupts, time and the host keep the invariant.
LEMMA EnvironmentInv ==
  ASSUME IInv, \/ op_delay_timer \/ Tick \/ HostTakesPacket \/ HostFallsSilent
               \/ UNCHANGED vars
  PROVE  IInv'
<1>0. Safe(dev) /\ TypeOK /\ dev \in Dev /\ DelayCovers(dev) BY DEF IInv, Safe
<1>n. dev.od \in Nat /\ dev.settle \in Nat /\ dev.pre \in Nat /\ dev.post \in Nat
  BY <1>0 DEF Dev
<1>1. CASE op_delay_timer
  <2> DEFINE r == [dev EXCEPT !.mask = {}]
  <2>1. dev.od = 0 /\ dev' = r
        /\ UNCHANGED <<floppy_state, ubuf, pkt, fin, txq, overrun, hostUp>>
    BY <1>1 DEF op_delay_timer
  <2>2. dev.settle = 0 /\ dev.pre = 0 /\ dev.post = 0
    BY <1>0, <1>n, <2>1 DEF DelayCovers
  <2>3. /\ r \in Dev /\ r.settle = 0 /\ r.pre = 0 /\ r.post = 0
        /\ r.early = dev.early /\ r.wgate = dev.wgate
    BY <1>0, <2>2 DEF Dev
  <2> HIDE DEF r
  <2>4. Safe(dev') BY <1>0, <2>1, <2>3 DEF Safe, DelayCovers
  <2>5. TypeOK' BY <1>0, <2>1, <2>3 DEF TypeOK
  <2>6. QED BY <2>1, <2>3, <2>4, <2>5 DEF IInv, GateOnlyInFlux, WriteWaitsIdle
<1>2. CASE Tick
  <2> DEFINE r == Elapse(dev, 1)
  <2>1. dev' = r /\ fin' = Less(fin, 1)
        /\ UNCHANGED <<floppy_state, ubuf, pkt, txq, overrun, hostUp>>
    BY <1>2 DEF Tick
  <2>2. /\ r \in Dev /\ r.wgate = dev.wgate /\ r.settle = Less(dev.settle, 1)
        /\ r.pre = Less(dev.pre, 1) /\ r.post = Less(dev.post, 1)
    BY <1>0, ElapseDev
  <2>3. Safe(r) BY <1>0, ElapseSafe
  <2> HIDE DEF r
  <2>4. fin' \in Nat BY <1>0, <2>1, LessNat DEF TypeOK
  <2>5. TypeOK' BY <1>0, <2>1, <2>2, <2>4 DEF TypeOK
  <2>6. Less(0, 1) = 0 BY DEF Less
  <2>7. QED
    BY <2>1, <2>2, <2>3, <2>5, <2>6 DEF IInv, GateOnlyInFlux, WriteWaitsIdle
<1>3. CASE HostTakesPacket
  <2>1. txq' \in 0..TxSlots
        /\ UNCHANGED <<floppy_state, dev, ubuf, pkt, fin, overrun, hostUp>>
    BY <1>0, <1>3, BufferAssumption DEF HostTakesPacket, TypeOK
  <2>2. TypeOK' BY <1>0, <2>1 DEF TypeOK
  <2>3. QED BY <1>0, <2>1, <2>2 DEF IInv, GateOnlyInFlux, WriteWaitsIdle
<1>4. CASE HostFallsSilent
  <2>1. hostUp' = FALSE /\ UNCHANGED <<floppy_state, dev, ubuf, pkt, fin, txq, overrun>>
    BY <1>4 DEF HostFallsSilent
  <2>2. TypeOK' BY <1>0, <2>1 DEF TypeOK
  <2>3. QED BY <1>0, <2>1, <2>2 DEF IInv, GateOnlyInFlux, WriteWaitsIdle
<1>5. CASE UNCHANGED vars
  <2>1. TypeOK' BY <1>0, <1>5 DEF TypeOK, vars
  <2>2. QED BY <1>0, <1>5, <2>1 DEF IInv, GateOnlyInFlux, WriteWaitsIdle, vars
<1>6. QED BY <1>1, <1>2, <1>3, <1>4, <1>5

\* The invariant is inductive.
LEMMA NextInv == IInv /\ [Next]_vars => IInv'
<1> SUFFICES ASSUME IInv, [Next]_vars PROVE IInv' OBVIOUS
<1>1. CASE Command BY <1>1, CommandInv
<1>2. CASE ReadFlux \/ ReadDrainFinal \/ ReadDrain BY <1>2, ReadInv
<1>3. CASE WriteWaitData \/ WriteWaitIndex \/ WriteFlux \/ WriteDrain
  BY <1>3, WriteInv
<1>4. CASE \/ Zlp \/ EraseFlux \/ SourceBytes \/ SinkBytes
           \/ UpdateBootloader \/ Testmode
  BY <1>4, OtherInv
<1>5. CASE Watchdog \/ UsbReset \/ UsbConfigure BY <1>5, CallbackInv
<1>6. CASE \/ op_delay_timer \/ Tick \/ HostTakesPacket \/ HostFallsSilent
           \/ UNCHANGED vars
  BY <1>6, EnvironmentInv
<1>7. QED BY <1>1, <1>2, <1>3, <1>4, <1>5, <1>6 DEF Next

\* The inductive invariant holds in every reachable state.
THEOREM Invariance == Spec => []IInv
BY InitInv, NextInv, PTL DEF Spec

\* In every reachable state all variables have their types: u_buf never
\* overflows, unit_nr indexes unit[], no deadline goes below zero.
THEOREM TypeCorrect == Spec => []TypeOK
<1>1. IInv => TypeOK BY DEF IInv
<1>2. QED BY <1>1, Invariance, PTL

\* In every reachable state the single op_delay deadline covers all the
\* documented delays still running, for all delay settings the host installs.
THEOREM DelaysCovered == Spec => []OpDelayCovers
<1>1. IInv => OpDelayCovers BY DEF IInv, Safe, OpDelayCovers
<1>2. QED BY <1>1, Invariance, PTL

\* No head change, read, write or seek ever reaches the drive before its minimum
\* times are over, and neither does a no-click step but for one thing: it does not
\* wait for the settle time of the seek to cylinder 0 that comes before it.
THEOREM MinimumTimes == Spec => []NothingEarly
<1>1. IInv => NothingEarly BY DEF IInv, Safe, NothingEarly
<1>2. QED BY <1>1, Invariance, PTL

\* The write gate is open only while write_flux or erase_flux runs: every abort,
\* timeout, reset and error path shuts it.
THEOREM GateClosed == Spec => []GateOnlyInFlux
<1>1. IInv => GateOnlyInFlux BY DEF IInv
<1>2. QED BY <1>1, Invariance, PTL

-----------------------------------------------------------------------------
(* Space in EP_TX.                                                         *)

\* Whoever has tested ep_tx_ready writes to an endpoint with space.
LEMMA ReadyWrites ==
  ASSUME TxGuarded, ep_tx_ready, usb_write
  PROVE  TxGuarded'
BY DEF TxGuarded, usb_write

\* So does the end of a command, and whatever ends in it.
LEMMA ReadyEnds ==
  ASSUME TxGuarded, ep_tx_ready, NEW s, floppy_end_command(s)
  PROVE  TxGuarded'
BY ReadyWrites DEF floppy_end_command

\* Commands are taken only while EP_TX has space.
LEMMA CommandGuarded ==
  ASSUME TxGuarded, Command
  PROVE  TxGuarded'
<1>1. ASSUME NEW s, Completes(s) PROVE TxGuarded'
  BY <1>1, ReadyEnds DEF Completes, CommandReady
<1>2. ASSUME NEW s, NEW st, Starts(s, st) PROVE TxGuarded'
  BY <1>2, ReadyEnds DEF Starts, CommandReady
<1>3. CASE \/ CmdQuery \/ CmdSeek \/ CmdNoclickStep \/ CmdHead \/ CmdSelect
           \/ CmdDeselect \/ CmdMotor \/ CmdSetParams \/ CmdSetBusType
           \/ CmdSetPin \/ CmdReset \/ CmdWriteFluxProtected
           \/ CmdEraseFluxProtected
  BY <1>1, <1>3, Zenon
     DEF CmdQuery, CmdSeek, CmdNoclickStep, CmdHead, CmdSelect, CmdDeselect,
         CmdMotor, CmdSetParams, CmdSetBusType, CmdSetPin, CmdReset,
         CmdWriteFluxProtected, CmdEraseFluxProtected
<1>4. CASE \/ CmdReadFlux \/ CmdWriteFlux \/ CmdEraseFlux \/ CmdSourceBytes
           \/ CmdSinkBytes \/ CmdUpdate \/ CmdTestMode
  BY <1>2, <1>4, Zenon
     DEF CmdReadFlux, CmdWriteFlux, CmdEraseFlux, CmdSourceBytes, CmdSinkBytes,
         CmdUpdate, CmdTestMode
<1>5. CASE CmdSwitchFwMode
  BY <1>5 DEF CmdSwitchFwMode, TxGuarded
<1>6. QED
  BY <1>3, <1>4, <1>5 DEF Command

\* A read ships its packets only when EP_TX has space for them.
LEMMA ReadShipGuarded ==
  ASSUME TxGuarded, NEW avail, ReadShip(avail)
  PROVE  TxGuarded'
<1>1. CASE ep_tx_ready /\ usb_write
  BY <1>1, ReadyWrites
<1>2. CASE UNCHANGED <<txq, overrun>>
  BY <1>2 DEF TxGuarded
<1>3. QED
  BY <1>1, <1>2 DEF ReadShip

\* Of the handlers, only those of an erase and of test mode do not ask.
LEMMA HandlerGuarded ==
  ASSUME TxGuarded,
         \/ Zlp \/ ReadFlux \/ ReadDrainFinal \/ ReadDrain
         \/ WriteWaitData \/ WriteWaitIndex \/ WriteFlux \/ WriteDrain
         \/ EraseFlux \/ SourceBytes \/ SinkBytes \/ UpdateBootloader \/ Testmode
  PROVE  TxGuarded'
<1>1. ASSUME NEW s, NEW st, Finishes(s, st), ep_tx_ready PROVE TxGuarded'
  BY <1>1, ReadyEnds DEF Finishes
<1>2. CASE Zlp
  BY <1>2, ReadyWrites DEF Zlp
<1>3. CASE ReadFlux
  BY <1>3, ReadShipGuarded DEF ReadFlux
<1>4. CASE ReadDrain
  BY <1>4, ReadShipGuarded DEF ReadDrain
<1>5. CASE ReadDrainFinal \/ WriteDrain \/ SinkBytes \/ UpdateBootloader
  BY <1>1, <1>5, Zenon DEF ReadDrainFinal, WriteDrain, SinkBytes, UpdateBootloader
<1>6. CASE SourceBytes
  <2>1. CASE UNCHANGED overrun
    BY <2>1 DEF TxGuarded
  <2>2. CASE ep_tx_ready /\ usb_write
    BY <2>2, ReadyWrites
  <2>3. CASE ep_tx_ready /\ Finishes(dev, "command_wait")
    BY <2>3, <1>1
  <2>4. QED
    BY <1>6, <2>1, <2>2, <2>3, Zenon DEF SourceBytes
<1>7. CASE WriteWaitData \/ WriteWaitIndex \/ WriteFlux
  BY <1>7 DEF WriteWaitData, WriteWaitIndex, WriteFlux, TxGuarded
<1>8. CASE EraseFlux \/ Testmode
  <2>1. /\ floppy_state \in {"erase_flux", "testmode"}
        /\ usb_write \/ UNCHANGED overrun
    BY <1>8 DEF EraseFlux, Testmode, InState, Finishes, floppy_end_command
  <2>2. QED
    BY <2>1 DEF TxGuarded, usb_write
<1>9. QED
  BY <1>2, <1>3, <1>4, <1>5, <1>6, <1>7, <1>8

\* No handler but those of an erase and of test mode, and no command, ever
\* calls usb_write() on an IN endpoint without space.
THEOREM WritesGuarded == Spec => []TxGuarded
<1>1. Init => TxGuarded
  BY DEF Init, TxGuarded
<1>2. TxGuarded /\ [Next]_vars => TxGuarded'
  <2> SUFFICES ASSUME TxGuarded, [Next]_vars PROVE TxGuarded'
    OBVIOUS
  <2>1. CASE \/ Watchdog \/ UsbReset \/ UsbConfigure \/ op_delay_timer \/ Tick
             \/ HostTakesPacket \/ HostFallsSilent \/ UNCHANGED vars
    BY <2>1 DEF Watchdog, UsbReset, UsbConfigure, op_delay_timer, Tick,
                HostTakesPacket, HostFallsSilent, vars, TxGuarded
  <2>2. QED
    BY <2>1, CommandGuarded, HandlerGuarded DEF Next
<1>3. QED
  BY <1>1, <1>2, PTL DEF Spec

-----------------------------------------------------------------------------
(* The bus lines, the heads, and a disarmed watchdog.                      *)

\* Unless test mode disarmed it, the watchdog is disarmed only between
\* operations, with the drives quiet.
QuietStates ==
  ~dev.armed /\ floppy_state # "testmode" =>
     Quiesced(dev) /\ floppy_state \in {"inactive", "command_wait"}

\* The second inductive invariant, relative to the first.
DevInv == Known(dev) /\ QuietStates

\* floppy_end_command() arms the watchdog.
LEMMA EndKnown ==
  ASSUME NEW s, Known(s), floppy_end_command(s)
  PROVE  DevInv'
<1> DEFINE t == Return(s, "OKAY")
           r == watchdog_arm(t)
<1>1. dev' = r
  BY DEF floppy_end_command
<1>2. Known(t)
  BY ArmKnown DEF Acks
<1> HIDE DEF t
<1>3. Known(r) /\ r.armed = TRUE
  BY <1>2, ArmKnown
<1> HIDE DEF r
<1>4. QED
  BY <1>1, <1>3 DEF DevInv, QuietStates

\* A handler of a running operation finds the watchdog armed and leaves it so.
LEMMA BusyKnown ==
  ASSUME DevInv, Known(dev'), dev'.armed = dev.armed,
         floppy_state \notin {"inactive", "command_wait", "testmode"}
  PROVE  DevInv'
BY DEF DevInv, QuietStates

\* Every command keeps the lines and the heads known.
LEMMA CommandKnown ==
  ASSUME IInv, DevInv, Command
  PROVE  DevInv'
<1>0. Known(dev) /\ dev \in Dev
  BY DEF DevInv, Known, KnownBut
<1>1. ASSUME NEW s, Known(s), Completes(s) PROVE DevInv'
  BY <1>1, EndKnown DEF Completes
<1>2. ASSUME NEW s, Known(s), NEW st, Starts(s, st) PROVE DevInv'
  BY <1>2, EndKnown DEF Starts
<1>3. CASE CmdQuery \/ CmdWriteFluxProtected
  <2>1. Known(Return(dev, "WRPROT"))
    BY <1>0, ArmKnown DEF Acks
  <2>2. QED
    BY <1>0, <1>1, <1>3, <2>1 DEF CmdQuery, CmdWriteFluxProtected
<1>4. CASE CmdSeek
  <2>1. PICK c \in HostCyls : Completes(floppy_seek(dev, c))
    BY <1>4 DEF CmdSeek
  <2>2. c \in Int /\ c <= LastCyl
    BY HostAssumption
  <2>3. Known(floppy_seek(dev, c))
    BY <1>0, <2>2, SeekKnown
  <2>4. QED
    BY <1>1, <2>1, <2>3
<1>5. CASE CmdNoclickStep
  <2>1. Known(floppy_noclick_step(dev))
    BY <1>0, NoclickKnown
  <2>2. QED
    BY <1>1, <1>5, <2>1 DEF CmdNoclickStep
<1>6. CASE CmdHead
  <2>1. PICK h \in BOOLEAN : Completes(head_select(dev, h))
    BY <1>6 DEF CmdHead
  <2>2. Known(head_select(dev, h))
    BY <1>0, HeadKnown
  <2>3. QED
    BY <1>1, <2>1, <2>2
<1>7. CASE CmdSelect
  <2>1. PICK nr \in HostUnits : Completes(drive_select(dev, nr))
    BY <1>7 DEF CmdSelect
  <2>2. nr \in Nat
    BY HostAssumption
  <2>3. Known(drive_select(dev, nr))
    BY <1>0, <2>2, SelectKnown
  <2>4. QED
    BY <1>1, <2>1, <2>3
<1>8. CASE CmdDeselect
  <2>1. Known(drive_deselect(dev))
    BY <1>0, DeselectKnown
  <2>2. QED
    BY <1>1, <1>8, <2>1 DEF CmdDeselect
<1>9. CASE CmdMotor
  <2>1. PICK nr \in HostUnits, on \in BOOLEAN : Completes(drive_motor(dev, nr, on))
    BY <1>9 DEF CmdMotor
  <2>2. nr \in Nat
    BY HostAssumption
  <2>3. Known(drive_motor(dev, nr, on))
    BY <1>0, <2>2, MotorKnown
  <2>4. QED
    BY <1>1, <2>1, <2>3
<1>10. CASE CmdSetParams
  <2>1. PICK d \in HostDelays : Completes([dev EXCEPT !.delay = d])
    BY <1>10 DEF CmdSetParams
  <2>2. d \in Delays
    BY DelaysAssumption
  <2>3. Known([dev EXCEPT !.delay = d])
    BY <1>0, <2>2, TimingBus, SameKnown
  <2>4. QED
    BY <1>1, <2>1, <2>3
<1>11. CASE CmdSetBusType
  <2>1. PICK type \in HostBuses : Completes(set_bus_type(dev, type))
    BY <1>11 DEF CmdSetBusType
  <2>2. type \in Nat
    BY HostAssumption
  <2>3. Known(set_bus_type(dev, type))
    BY <1>0, <2>2, SetBusKnown
  <2>4. QED
    BY <1>1, <2>1, <2>3
<1>12. CASE CmdSetPin
  <2>1. PICK p \in HostPins, level \in HostLevels :
               Completes(set_user_pin(dev, p, level))
    BY <1>12 DEF CmdSetPin
  <2>2. Known(set_user_pin(dev, p, level))
    BY <1>0, UserPinKnown
  <2>3. QED
    BY <1>1, <2>1, <2>2
<1>13. CASE CmdReset
  <2> DEFINE a == [dev EXCEPT !.delay = FactoryDelays]
             b == SetBusType(a, BUS_NONE)
             r == reset_user_pins(b)
  <2>1. Completes(r)
    BY <1>13 DEF CmdReset
  <2>2. Known(a)
    BY <1>0, DelaysAssumption, TimingBus, SameKnown
  <2> HIDE DEF a
  <2>3. Known(b) /\ Quiesced(b)
    BY <2>2, BusKnown DEF BUS_NONE
  <2> HIDE DEF b
  <2>4. Known(r)
    BY <2>3, ResetPinsKnown
  <2> HIDE DEF r
  <2>5. QED
    BY <1>1, <2>1, <2>4
<1>14. CASE CmdReadFlux
  <2> DEFINE w == op_delay_wait(dev, "read")
             x == w.early \cup (IF w.settle > 0 THEN {"read"} ELSE {})
             r == [w EXCEPT !.early = x]
  <2>1. Starts(r, "read_flux")
    BY <1>14 DEF CmdReadFlux
  <2>2. w \in Dev /\ SameBus(w, dev)
    BY <1>0, WaitBus
  <2>3. x \in SUBSET EarlyOps
    BY <2>2 DEF Dev, EarlyOps
  <2> HIDE DEF w, x
  <2>4. r \in Dev /\ SameBus(r, w)
    BY <2>2, <2>3 DEF Dev, SameBus
  <2> HIDE DEF r
  <2>5. Known(w)
    BY <1>0, <2>2, SameKnown
  <2>6. Known(r)
    BY <2>4, <2>5, SameKnown
  <2>7. QED
    BY <1>2, <2>1, <2>6
<1>15. CASE CmdWriteFlux \/ CmdSourceBytes \/ CmdSinkBytes \/ CmdUpdate \/ CmdTestMode
  BY <1>0, <1>2, <1>15, Zenon
     DEF CmdWriteFlux, CmdSourceBytes, CmdSinkBytes, CmdUpdate, CmdTestMode
<1>16. CASE CmdEraseFlux
  <2> DEFINE w == op_delay_wait(dev, "write")
             r == WriteGateOn(w)
  <2>1. Starts(r, "erase_flux")
    BY <1>16 DEF CmdEraseFlux
  <2>2. w \in Dev /\ SameBus(w, dev)
    BY <1>0, WaitBus
  <2> HIDE DEF w
  <2>3. Known(w)
    BY <1>0, <2>2, SameKnown
  <2>4. Known(r)
    BY <2>3, GateOnKnown
  <2> HIDE DEF r
  <2>5. QED
    BY <1>2, <2>1, <2>4
<1>17. CASE CmdEraseFluxProtected
  <2> DEFINE w == op_delay_wait(dev, "write")
             r == Return(w, "WRPROT")
  <2>1. Completes(r)
    BY <1>17 DEF CmdEraseFluxProtected
  <2>2. w \in Dev /\ SameBus(w, dev)
    BY <1>0, WaitBus
  <2> HIDE DEF w
  <2>3. Known(w)
    BY <1>0, <2>2, SameKnown
  <2>4. Known(r)
    BY <2>3, ArmKnown DEF Acks
  <2> HIDE DEF r
  <2>5. QED
    BY <1>1, <2>1, <2>4
<1>18. CASE CmdSwitchFwMode
  <2> DEFINE q == dev.pos
             e == dev.early
             r == [PowerOn(FactoryDelays, q) EXCEPT !.early = e]
  <2>1. dev' = r /\ floppy_state' = "inactive"
    BY <1>18 DEF CmdSwitchFwMode
  <2>2. q \in [Units -> Int] /\ e \in SUBSET {"noclick"}
        /\ \A u \in Units : q[u] <= LastCyl /\ (Kind[u] = "normal" => q[u] >= 0)
    BY <1>0 DEF IInv, Safe, Dev, Known, KnownBut, Plausible
  <2> HIDE DEF q, e
  <2>3. Known(r) /\ Quiesced(r)
    BY <2>2, DelaysAssumption, PowerOnKnown
  <2> HIDE DEF r
  <2>4. QED
    BY <2>1, <2>3 DEF DevInv, QuietStates
<1>19. QED
  BY <1>3, <1>4, <1>5, <1>6, <1>7, <1>8, <1>9, <1>10, <1>11, <1>12, <1>13, <1>14,
     <1>15, <1>16, <1>17, <1>18 DEF Command

\* Every handler does, test mode excepted, which gives up the lines to the host.
LEMMA HandlerKnown ==
  ASSUME DevInv,
         \/ Zlp \/ ReadFlux \/ ReadDrainFinal \/ ReadDrain
         \/ WriteWaitData \/ WriteWaitIndex \/ WriteFlux \/ WriteDrain
         \/ EraseFlux \/ SourceBytes \/ SinkBytes \/ UpdateBootloader \/ Testmode
  PROVE  DevInv'
<1>0. Known(dev) /\ dev \in Dev
  BY DEF DevInv, Known, KnownBut
<1>e. Known(floppy_flux_end(dev)) /\ floppy_flux_end(dev).armed = dev.armed
  BY <1>0, FluxEndKnown
<1>f. ASSUME NEW s, Known(s), NEW st, Finishes(s, st) PROVE DevInv'
  BY <1>f, EndKnown DEF Finishes
<1>1. CASE Zlp \/ ReadDrain
  <2>1. dev' = dev /\ floppy_state \in {"zlp", "read_flux_drain"}
    BY <1>1 DEF Zlp, ReadDrain, InState
  <2>2. QED
    BY <1>0, <2>1, BusyKnown
<1>2. CASE ReadFlux
  <2> DEFINE k == watchdog_kick(dev)
  <2>1. /\ floppy_state = "read_flux"
        /\ \/ dev' = dev \/ dev' = k
           \/ dev' = floppy_flux_end(dev) \/ dev' = floppy_flux_end(k)
    BY <1>2 DEF ReadFlux, InState
  <2>2. Known(k) /\ k.armed = dev.armed
    BY <1>0, ArmKnown, ArmedKept
  <2> HIDE DEF k
  <2>3. Known(floppy_flux_end(k)) /\ floppy_flux_end(k).armed = k.armed
    BY <2>2, FluxEndKnown
  <2>4. Known(dev') /\ dev'.armed = dev.armed
    BY <1>0, <1>e, <2>1, <2>2, <2>3
  <2>5. QED
    BY <2>1, <2>4, BusyKnown
<1>3. CASE ReadDrainFinal
  BY <1>0, <1>3, <1>f, Zenon DEF ReadDrainFinal
<1>4. CASE WriteWaitData
  <2> DEFINE w == op_delay_wait(dev, "write")
  <2>1. floppy_state = "write_flux_wait_data" /\ dev' \in {floppy_flux_end(dev), w}
    BY <1>4 DEF WriteWaitData, WriteEnd, InState
  <2>2. w \in Dev /\ SameBus(w, dev) /\ w.armed = dev.armed
    BY <1>0, WaitBus, ArmedKept
  <2> HIDE DEF w
  <2>3. Known(w)
    BY <1>0, <2>2, SameKnown
  <2>4. Known(dev') /\ dev'.armed = dev.armed
    BY <1>e, <2>1, <2>2, <2>3
  <2>5. QED
    BY <2>1, <2>4, BusyKnown
<1>5. CASE WriteWaitIndex \/ WriteFlux
  <2>1. /\ floppy_state \in {"write_flux_wait_index", "write_flux"}
        /\ dev' \in {floppy_flux_end(dev), WriteGateOn(dev)}
    BY <1>5 DEF WriteWaitIndex, WriteFlux, WriteEnd, InState
  <2>2. Known(WriteGateOn(dev)) /\ WriteGateOn(dev).armed = dev.armed
    BY <1>0, GateOnKnown
  <2>3. Known(dev') /\ dev'.armed = dev.armed
    BY <1>e, <2>1, <2>2
  <2>4. QED
    BY <2>1, <2>3, BusyKnown
<1>6. CASE WriteDrain \/ SinkBytes \/ UpdateBootloader
  BY <1>0, <1>6, <1>f, Zenon DEF WriteDrain, SinkBytes, UpdateBootloader
<1>7. CASE EraseFlux
  BY <1>e, <1>7, <1>f, Zenon DEF EraseFlux
<1>8. CASE SourceBytes
  <2>1. CASE Finishes(dev, "command_wait")
    BY <1>0, <1>f, <2>1
  <2>2. CASE dev' = dev /\ floppy_state = "source_bytes"
    BY <1>0, <2>2, BusyKnown
  <2>3. QED
    BY <1>8, <2>1, <2>2 DEF SourceBytes, InState
<1>9. CASE Testmode
  <2> DEFINE a == [dev EXCEPT !.armed = FALSE]
             c(l) == [dev EXCEPT !.armed = FALSE, !.line = l, !.stray = TRUE,
                                 !.found = {}]
  <2>1. /\ floppy_state' = "testmode"
        /\ dev' = a \/ \E l \in [Pins -> HostLevels] : dev' = c(l)
    BY <1>9 DEF Testmode, InState
  <2>2. a \in Dev /\ SameBus(a, dev)
    BY <1>0, TimingBus
  <2> HIDE DEF a
  <2>4. Known(a)
    BY <1>0, <2>2, SameKnown
  <2>8. ASSUME NEW l \in [Pins -> HostLevels] PROVE Known(c(l))
    <3> DEFINE b == c(l)
    <3>1. l \in [Pins -> Levels] /\ \A p \in Pins : l[p] \in HostLevels
      BY DEF Levels
    <3>2. /\ b \in Dev /\ b.bus_type = dev.bus_type /\ b.unit_nr = dev.unit_nr
          /\ b.unit = dev.unit /\ b.pos = dev.pos /\ b.stray = TRUE /\ b.line = l
          /\ b.found = {}
      BY <1>0, <3>1 DEF Dev
    <3> HIDE DEF b
    <3>3. LinesTrue(b)
      BY <1>0, <3>1, <3>2 DEF LinesTrue, Known, KnownBut
    <3>4. \A u \in Units : Plausible(b, u) /\ Tracked(b, u)
      BY <1>0, <3>2 DEF Known, KnownBut, Plausible, Tracked
    <3>5. Known(b)
      BY <3>2, <3>3, <3>4 DEF Known, KnownBut
    <3>6. QED
      BY <3>5 DEF b
  <2> HIDE DEF c
  <2>9. QED
    BY <2>1, <2>4, <2>8 DEF DevInv, QuietStates
<1>10. QED
  BY <1>1, <1>2, <1>3, <1>4, <1>5, <1>6, <1>7, <1>8, <1>9

\* The watchdog and a bus reset leave the drives quiet; a reconfiguration arms the
\* watchdog.
LEMMA CallbackKnown ==
  ASSUME DevInv, Watchdog \/ UsbReset \/ UsbConfigure
  PROVE  DevInv'
<1>0. Known(dev)
  BY DEF DevInv
<1> DEFINE a == watchdog_arm(dev)
           c == floppy_flux_end(a)
<1>1. floppy_configure(dev) = c
  BY DEF floppy_configure
<1>2. Known(a) /\ a.armed = TRUE
  BY <1>0, ArmKnown
<1> HIDE DEF a
<1>3. Known(c) /\ c.armed = TRUE
  BY <1>2, FluxEndKnown
<1> HIDE DEF c
<1>4. ASSUME NEW s, Known(s), dev' = Return(quiesce_drives(s), "OKAY"),
             floppy_state' \in {"inactive", "command_wait"}
      PROVE  DevInv'
  <2> DEFINE q == quiesce_drives(s)
             r == Return(q, "OKAY")
  <2>1. Known(q) /\ Quiesced(q)
    BY <1>4, QuiesceKnown
  <2> HIDE DEF q
  <2>2. r \in Dev /\ SameBus(r, q)
    BY <2>1, TimingBus DEF Known, KnownBut, Acks
  <2>3. dev' = r
    BY <1>4 DEF q
  <2> HIDE DEF r
  <2>4. Known(r)
    BY <2>1, <2>2, SameKnown
  <2>5. Quiesced(r)
    BY <2>1, <2>2 DEF Quiesced, SameBus
  <2>6. QED
    BY <1>4, <2>3, <2>4, <2>5 DEF DevInv, QuietStates
<1>5. CASE Watchdog
  BY <1>1, <1>3, <1>4, <1>5 DEF Watchdog
<1>6. CASE UsbReset
  BY <1>0, <1>4, <1>6 DEF UsbReset
<1>7. CASE UsbConfigure
  BY <1>1, <1>3, <1>7 DEF UsbConfigure, DevInv, QuietStates
<1>8. QED
  BY <1>5, <1>6, <1>7

\* Interrupts, time and the host change nothing that DevInv speaks of.
LEMMA EnvironmentKnown ==
  ASSUME DevInv, \/ op_delay_timer \/ Tick \/ HostTakesPacket \/ HostFallsSilent
                 \/ UNCHANGED vars
  PROVE  DevInv'
<1>0. Known(dev) /\ dev \in Dev
  BY DEF DevInv, Known, KnownBut
<1>1. ASSUME dev' \in Dev, SameBus(dev', dev), dev'.armed = dev.armed,
             floppy_state' = floppy_state
      PROVE  DevInv'
  <2>1. Known(dev')
    BY <1>0, <1>1, SameKnown
  <2>2. Quiesced(dev) => Quiesced(dev')
    BY <1>1 DEF Quiesced, SameBus
  <2>3. QED
    BY <1>1, <2>1, <2>2 DEF DevInv, QuietStates
<1>2. CASE op_delay_timer
  <2>1. dev' = [dev EXCEPT !.mask = {}] /\ floppy_state' = floppy_state
    BY <1>2 DEF op_delay_timer
  <2>2. dev' \in Dev /\ SameBus(dev', dev) /\ dev'.armed = dev.armed
    BY <1>0, <2>1 DEF Dev, SameBus
  <2>3. QED
    BY <1>1, <2>1, <2>2
<1>3. CASE Tick
  <2> DEFINE e == Elapse(dev, 1)
  <2>1. dev' = e /\ floppy_state' = floppy_state
    BY <1>3 DEF Tick
  <2>2. e \in Dev /\ SameBus(e, dev) /\ e.armed = dev.armed
    BY <1>0, TimingBus, ArmedKept
  <2> HIDE DEF e
  <2>3. QED
    BY <1>1, <2>1, <2>2
<1>4. CASE HostTakesPacket \/ HostFallsSilent \/ UNCHANGED vars
  <2>1. dev' = dev /\ floppy_state' = floppy_state
    BY <1>4 DEF HostTakesPacket, HostFallsSilent, vars
  <2>2. QED
    BY <2>1 DEF DevInv, QuietStates
<1>5. QED
  BY <1>2, <1>3, <1>4

\* The second invariant holds in every reachable state as well.
THEOREM DevInvariance == Spec => []DevInv
<1>1. Init => DevInv
  <2> SUFFICES ASSUME Init PROVE DevInv
    OBVIOUS
  <2>1. PICK p \in StartPos : dev = PowerOn(FactoryDelays, p)
    BY DEF Init
  <2>2. /\ FactoryDelays \in Delays /\ p \in [Units -> Int]
        /\ \A u \in Units : p[u] <= LastCyl /\ (Kind[u] = "normal" => p[u] >= 0)
    BY DelaysAssumption, StartPosAssumption
  <2> DEFINE o == PowerOn(FactoryDelays, p)
             r == [o EXCEPT !.early = {}]
  <2>3. o \in Dev /\ o.early = {}
    <3>1. Safe(o)
      BY <2>2, PowerOnSafe
    <3>2. o.early = {}
      BY DEF PowerOn
    <3>3. QED
      BY <3>1, <3>2 DEF Safe
  <2>4. Known(r) /\ Quiesced(r)
    BY <2>2, PowerOnKnown
  <2> HIDE DEF o
  <2>5. r = o
    BY <2>3 DEF Dev
  <2> HIDE DEF r
  <2>6. Known(dev) /\ Quiesced(dev)
    BY <2>1, <2>4, <2>5 DEF o
  <2>7. QED
    BY <2>6 DEF DevInv, QuietStates, Init
<1>2. IInv /\ DevInv /\ [Next]_vars => DevInv'
  <2> SUFFICES ASSUME IInv, DevInv, [Next]_vars PROVE DevInv'
    OBVIOUS
  <2>1. QED
    BY CommandKnown, HandlerKnown, CallbackKnown, EnvironmentKnown DEF Next
<1>3. QED
  BY <1>1, <1>2, Invariance, PTL DEF Spec

\* In every reachable state every bus line that the host has not set itself is
\* asserted exactly when unit_nr, unit[].motor and the write gate say so, on every
\* board and whatever pins it lacks; the selected unit's pin exists.
THEOREM LinesMatch == Spec => []PinsMatch
<1>1. DevInv => PinsMatch
  BY DEF DevInv, Known, KnownBut, LinesTrue, PinsMatch
<1>2. QED
  BY <1>1, DevInvariance, PTL

\* In every reachable state the cached cylinder of every synchronised drive is
\* where its head is, for every kind of drive and every number of cylinders and
\* whatever select levels the host sets, unless a step or a look at TRK0 fell in a
\* moment when these levels made other drives listen than the selected one.
THEOREM HeadsTracked == Spec => []HeadTracked
<1>1. DevInv => HeadTracked
  BY DEF DevInv, Known, Tracked, HeadTracked
<1>2. QED
  BY <1>1, DevInvariance, PTL

\* A no-click step that succeeds leaves the head at cylinder 0, from every
\* reachable state and for every kind of drive.
THEOREM NoclickSound == Spec => []NoclickAtZero
<1>1. DevInv => NoclickAtZero
  <2> SUFFICES ASSUME DevInv PROVE NoclickAtZero
    OBVIOUS
  <2> DEFINE r == floppy_noclick_step(dev)
  <2>1. r.rc = "OKAY" /\ ~r.stray => r.pos[r.unit_nr] = 0
    BY NoclickKnown DEF DevInv
  <2> HIDE DEF r
  <2>2. QED
    BY <2>1 DEF NoclickAtZero, r
<1>2. QED
  BY <1>1, DevInvariance, PTL

\* In every reachable state outside test mode, a disarmed watchdog means that no
\* line is on but those the host set itself, and no head the firmware has found is
\* below cylinder 0: nobody is left to put that right later.
THEOREM DisarmedQuiet == Spec => []QuietWhenDisarmed
<1>1. DevInv => QuietWhenDisarmed
  BY DEF DevInv, QuietStates, QuietWhenDisarmed
<1>2. QED
  BY <1>1, DevInvariance, PTL
=============================================================================
