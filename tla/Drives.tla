------------------------------- MODULE Drives -------------------------------
(***************************************************************************)
(* The drive-control half of floppy.c: drive select and motor lines,       *)
(* stepping and track-0 synchronisation, the write gate, the op_delay that *)
(* makes operations wait for one another, and quiesce_drives.              *)
(*                                                                         *)
(* The C functions are called from main-loop handlers and run to           *)
(* completion, so each is an operator from the device record s to the      *)
(* device record after the call; s.rc is the value the call returned.      *)
(*                                                                         *)
(* Time is a number of abstract ticks.  A deadline is the number of ticks  *)
(* still to go.  Fields of s below the line are ghosts: what the attached  *)
(* drives really do, and how long the documented delays of gw_delay have   *)
(* still to run.                                                           *)
(*   bus_type, unit_nr, unit   the C variables                             *)
(*   delay                     delay_params (the fields that matter here)  *)
(*   wgate, head               struct pins                                 *)
(*   line[p]                   the level of bus pin p: "on" (asserted) or  *)
(*                             "off", or "host_on" or "host_off": last     *)
(*                             written by the host behind the firmware's   *)
(*                             back                                        *)
(*   mask, od                  op_delay.mask, ticks to its deadline        *)
(*   armed, wd                 watchdog.armed, ticks to watchdog.deadline  *)
(*   rc                        the value returned by the last call         *)
(*   ------------------------                                              *)
(*   pos[u]                    the real cylinder of drive u's head         *)
(*   settle, pre, post         ticks to go of seek_settle, pre_write and   *)
(*                             post_write                                  *)
(*   early                     operations performed before their time      *)
(*   stray                     a step was sent, or track 0 looked for,     *)
(*                             while the host's own levels of the select   *)
(*                             lines kept the selected drive from being    *)
(*                             the only one that listened                  *)
(*   found                     the drives whose heads this run of the      *)
(*                             firmware has found, none of them astray     *)
(***************************************************************************)
EXTENDS Integers

CONSTANTS
  UserPins,   \* board_config->user_pins: the select/motor pins this board has
  Kind,       \* Kind[u]: what is attached as unit u (see DriveKinds)
  LastCyl,    \* the innermost cylinder, where the drives' heads stop
  SyncMax     \* delays longer than this are waited for synchronously (1 s)

Units == 0..3
BUS_NONE == 0
BUS_IBMPC == 1
BUS_SHUGART == 2
NoUnit == -1
WGATE == 24   \* the write gate's pin; not a user pin on any board
Pins == UserPins \cup {WGATE}

DriveKinds == {"absent", "normal", "flippy", "nostop"}

ASSUME UserPinsAssumption == UserPins \subseteq {2, 4, 6, 10, 12, 14, 16}
ASSUME KindAssumption == Kind \in [Units -> DriveKinds]
ASSUME LastCylAssumption == LastCyl \in 1..255
ASSUME SyncMaxAssumption == SyncMax \in Nat

Delays == [seek_settle: Nat, pre_write: Nat, post_write: Nat, watchdog: Nat]
DelayOps == {"read", "write", "seek", "head"}
Acks == {"OKAY", "NO_TRK0", "NO_UNIT", "NO_BUS", "BAD_UNIT", "BAD_PIN",
         "BAD_CYLINDER", "BAD_COMMAND", "WRPROT"}
EarlyOps == {"write", "read", "head", "step", "noclick"}
HostLevels == {"host_on", "host_off"}
Levels == {"on", "off"} \cup HostLevels

UnitRec == [cyl: Int, initialised: BOOLEAN, is_flippy: BOOLEAN, motor: BOOLEAN]

Dev == [bus_type: 0..2, unit_nr: -1..3, unit: [Units -> UnitRec],
        delay: Delays, wgate: BOOLEAN, head: BOOLEAN,
        line: [Pins -> Levels],
        mask: SUBSET DelayOps, od: Nat, armed: BOOLEAN, wd: Nat, rc: Acks,
        pos: [Units -> Int], settle: Nat, pre: Nat, post: Nat,
        early: SUBSET EarlyOps, stray: BOOLEAN, found: SUBSET Units]

Larger(a, b) == IF a > b THEN a ELSE b
Smaller(a, b) == IF a < b THEN a ELSE b

Return(s, code) == [s EXCEPT !.rc = code]

-----------------------------------------------------------------------------
(* Time and the op_delay.                                                  *)

\* n ticks go by
Less(a, n) == IF a > n THEN a - n ELSE 0
Elapse(s, n) ==
  [s EXCEPT !.od = Less(@, n), !.wd = Less(@, n), !.settle = Less(@, n),
            !.pre = Less(@, n), !.post = Less(@, n)]

\* op_delay_async that forgets a later deadline already pending
OpDelayOverwrite(s, ops, d) ==
  IF d > SyncMax THEN Elapse(s, d)
  ELSE [s EXCEPT !.od = d, !.mask = @ \cup ops]

\* Delay the operations ops by d ticks.  One deadline serves every pending
\* operation, so it is the later of the old one and the new one.
op_delay_async(s, ops, d) ==
  IF d > SyncMax
  THEN Elapse(s, d)
  ELSE [s EXCEPT !.od = IF s.mask # {} THEN Larger(@, d) ELSE d,
                 !.mask = @ \cup ops]

\* Spin until op_delay_timer has cleared the mask.
op_delay_wait(s, op) ==
  IF op \in s.mask THEN [Elapse(s, s.od) EXCEPT !.mask = {}] ELSE s

watchdog_kick(s) == [s EXCEPT !.wd = s.delay.watchdog]
watchdog_arm(s) == watchdog_kick([s EXCEPT !.armed = TRUE])

\* The op_delay deadline covers every documented delay still running:
\* seek_settle holds back reads, writes and seeks, post_write holds back
\* writes, seeks and head changes, pre_write holds back writes, each for at
\* least as long as it has to run.
DelayCovers(s) ==
  /\ s.settle > 0 => {"read", "write", "seek"} \subseteq s.mask /\ s.settle <= s.od
  /\ s.post > 0 => {"write", "seek", "head"} \subseteq s.mask /\ s.post <= s.od
  /\ s.pre > 0 => "write" \in s.mask /\ s.pre <= s.od

-----------------------------------------------------------------------------
(* Select and motor lines.                                                 *)

SelectPin(bus, nr) ==
  CASE bus = BUS_IBMPC /\ nr = 0 -> 14
    [] bus = BUS_IBMPC /\ nr = 1 -> 12
    [] bus = BUS_SHUGART /\ nr = 0 -> 10
    [] bus = BUS_SHUGART /\ nr = 1 -> 12
    [] bus = BUS_SHUGART /\ nr = 2 -> 14
    [] bus = BUS_SHUGART /\ nr = 3 -> 6
    [] OTHER -> -1

NrUnits(bus) == CASE bus = BUS_IBMPC -> 2 [] bus = BUS_SHUGART -> 4 [] OTHER -> 0

\* All Shugart units share one motor line, kept in unit 0.
MotorUnit(bus, nr) == IF bus = BUS_SHUGART THEN 0 ELSE nr
MotorPin(bus, nr) == IF bus = BUS_IBMPC /\ nr = 0 THEN 10 ELSE 16

write_mapped_pin(s, pin, on) ==
  IF pin \in UserPins
  THEN [s EXCEPT !.line[pin] = IF on THEN "on" ELSE "off", !.rc = "OKAY"]
  ELSE Return(s, "BAD_PIN")

drive_deselect(s) ==
  IF s.unit_nr = NoUnit THEN s
  ELSE [write_mapped_pin(s, SelectPin(s.bus_type, s.unit_nr), FALSE)
          EXCEPT !.unit_nr = NoUnit]

\* selecting a drive whose pin this board does not have
SelectUnchecked(s, nr) ==
  IF nr \notin Units \/ s.bus_type = BUS_NONE THEN Return(s, "NO_BUS")
  ELSE [write_mapped_pin(drive_deselect(s), SelectPin(s.bus_type, nr), TRUE)
          EXCEPT !.unit_nr = nr, !.rc = "OKAY"]

drive_select(s, nr) ==
  LET d == drive_deselect(s)
      w == write_mapped_pin(d, SelectPin(d.bus_type, nr), TRUE)
  IN IF nr = s.unit_nr THEN Return(s, "OKAY")
     ELSE IF d.bus_type = BUS_NONE THEN Return(d, "NO_BUS")
     ELSE IF w.rc # "OKAY" THEN Return(d, "BAD_UNIT")
     ELSE [w EXCEPT !.unit_nr = nr]

drive_motor(s, nr, on) ==
  LET n == MotorUnit(s.bus_type, nr)
      w == write_mapped_pin(s, MotorPin(s.bus_type, nr), on)
  IN IF s.bus_type = BUS_NONE THEN Return(s, "NO_BUS")
     ELSE IF nr >= NrUnits(s.bus_type) THEN Return(s, "BAD_UNIT")
     ELSE IF s.unit[n].motor = on THEN Return(s, "OKAY")
     ELSE IF w.rc # "OKAY" THEN Return(s, "BAD_UNIT")
     ELSE [w EXCEPT !.unit[n].motor = on]

\* level: one of HostLevels
set_user_pin(s, pin, level) ==
  IF pin \in UserPins
  THEN [s EXCEPT !.line[pin] = level, !.rc = "OKAY"]
  ELSE Return(s, "BAD_PIN")

reset_user_pins(s) ==
  [s EXCEPT !.line = [p \in Pins |-> IF p \in UserPins THEN "off" ELSE @[p]]]

\* the pins the firmware believes it has asserted
Driven(s, p) ==
  \/ p = WGATE /\ s.wgate
  \/ s.unit_nr # NoUnit /\ p = SelectPin(s.bus_type, s.unit_nr)
  \/ \E u \in Units : s.unit[u].motor /\ p = MotorPin(s.bus_type, u)

-----------------------------------------------------------------------------
(* The attached drives (external): which of them listen on the bus, where  *)
(* a step pulse takes their heads, and when one of them pulls the shared   *)
(* TRK0 line.  A normal drive ignores outward steps at track 0; so does a  *)
(* flippy drive while its track-0 sensor is enabled; a "nostop" drive      *)
(* steps regardless.                                                       *)

Responding(s) ==
  {u \in Units : /\ SelectPin(s.bus_type, u) \in UserPins
                 /\ s.line[SelectPin(s.bus_type, u)] \in {"on", "host_on"}}

\* Drive u reports track 0 when its head is at cylinder p; sensor tells whether
\* a flippy drive's sensor is enabled.
Reports(u, p, sensor) == CASE Kind[u] = "absent" -> FALSE
                           [] Kind[u] = "nostop" -> p = 0
                           [] Kind[u] = "flippy" -> sensor /\ p <= 0
                           [] OTHER -> p <= 0

\* TRK0 is low: any drive that listens may pull it.
get_trk0(s, sensor) == \E u \in Responding(s) : Reports(u, s.pos[u], sensor)

flippy_detect(s) == ~get_trk0(s, FALSE)

\* a select line is at the level the host gave it
HostSelects(s) == \E u \in Units : /\ SelectPin(s.bus_type, u) \in UserPins
                                   /\ s.line[SelectPin(s.bus_type, u)] \in HostLevels

\* and so the selected drive is not the only one that listens
Astray(s) == HostSelects(s) /\ Responding(s) # {s.unit_nr}

\* Steps and track 0 concern the selected drive and no other, or the firmware
\* no longer knows where the heads are.
Listened(s) == IF Astray(s) THEN [s EXCEPT !.stray = TRUE, !.found = {}] ELSE s

MovedIn(u, p, n) == IF Kind[u] = "absent" THEN p ELSE Smaller(p + n, LastCyl)

MovedOut(u, p, n, sensor) ==
  CASE Kind[u] = "absent" -> p
    [] Kind[u] = "nostop" \/ (Kind[u] = "flippy" /\ ~sensor) -> p - n
    [] OTHER -> IF p <= 0 THEN p ELSE Larger(p - n, 0)

-----------------------------------------------------------------------------
(* Stepping and seeking.                                                   *)

\* what a step pulse in state s does too early
StepEarly(s) == IF s.settle > 0 \/ s.post > 0 \/ s.wgate THEN {"step"} ELSE {}

\* n > 0 times step_once() in one direction
step_in(s, n) ==
  [Listened(s) EXCEPT
     !.pos = [u \in Units |-> IF u \in Responding(s)
                              THEN MovedIn(u, @[u], n) ELSE @[u]],
     !.early = @ \cup StepEarly(s)]

step_out(s, n, sensor) ==
  [Listened(s) EXCEPT
     !.pos = [u \in Units |-> IF u \in Responding(s)
                              THEN MovedOut(u, @[u], n, sensor) ELSE @[u]],
     !.early = @ \cup StepEarly(s)]

\* delay_ms(seek_settle) at the end of a movement
SettleSync(s) == Elapse([s EXCEPT !.settle = s.delay.seek_settle],
                        s.delay.seek_settle)

\* the bound of the inward search for cylinder 1
MaxInSteps == 10

\* the number of outward steps after which drive u reports track 0; 256 if it
\* never does
ToTrack0(s, u) ==
  IF u \notin Responding(s) \/ Kind[u] = "absent" THEN 256
  ELSE IF Reports(u, s.pos[u], TRUE) THEN 0
  ELSE IF s.pos[u] \in 1..255 THEN s.pos[u] ELSE 256

\* the number of outward steps until track 0 is seen; 256 if it is not
OutSteps(s) == Smaller(Smaller(ToTrack0(s, 0), ToTrack0(s, 1)),
                       Smaller(ToTrack0(s, 2), ToTrack0(s, 3)))

\* the numbers of inward steps, within the bound, after which no drive reports
\* track 0
InSteps(s) == {n \in 1..MaxInSteps : ~get_trk0(step_in(s, n), TRUE)}

\* The flippy drive u is at or below cylinder 0: step inwards until the sensor
\* lets go, at cylinder 1.
StepToOne(s, u) ==
  LET w == Elapse(s, s.delay.seek_settle)
      in == CHOOSE n \in InSteps(w) : \A m \in InSteps(w) : n <= m
  IN IF InSteps(w) = {} THEN Return(step_in(w, MaxInSteps), "NO_TRK0")
     ELSE [step_in(w, in) EXCEPT
             !.unit[u] = [@ EXCEPT !.cyl = 1, !.initialised = TRUE],
             !.rc = "OKAY"]

\* taking the track-0 sensor of a flippy drive at its word
TrustTrack0(s, u) ==
  [s EXCEPT !.unit[u] = [@ EXCEPT !.cyl = 0, !.initialised = TRUE], !.rc = "OKAY"]

\* Track 0 is reported, which a flippy drive also does at negative cylinders.
AtTrack0(s, u) ==
  IF flippy_detect(s)
  THEN StepToOne([s EXCEPT !.unit[u] = [@ EXCEPT !.cyl = 0, !.is_flippy = TRUE]], u)
  ELSE [s EXCEPT !.unit[u] = [cyl |-> 0, is_flippy |-> FALSE, initialised |-> TRUE,
                              motor |-> @.motor],
                 !.rc = "OKAY"]

\* The head is where the firmware thinks, unless it has gone astray.
Found(s) == [s EXCEPT !.found = IF s.rc = "OKAY" /\ ~s.stray
                                THEN @ \cup {s.unit_nr} ELSE @]

\* Synchronise to cylinder 0.
floppy_seek_initialise(s0) ==
  LET s == Listened(s0)
      out == OutSteps(s)
  IN Found(SettleSync(
       IF out = 256 THEN Return(step_out(s, out, TRUE), "NO_TRK0")
       ELSE AtTrack0(IF out = 0 THEN s ELSE step_out(s, out, TRUE), s.unit_nr)))

\* The pulses of a seek that has something to do, and the settle time after it.
SeekSteps(s, u, cyl) ==
  LET from == s.unit[u].cyl
      m == IF from < cyl THEN step_in(s, cyl - from)
                         ELSE step_out(s, from - cyl, cyl >= 0)
  IN [op_delay_async([m EXCEPT !.settle = s.delay.seek_settle],
                     {"read", "write", "seek"}, s.delay.seek_settle)
        EXCEPT !.unit[u].cyl = cyl, !.rc = "OKAY"]

\* The drive is synchronised, unless s.rc says otherwise.
SeekFrom(s, cyl) ==
  LET u == s.unit[s.unit_nr]
  IN IF s.rc # "OKAY" THEN s
     ELSE IF cyl < (IF u.is_flippy THEN -8 ELSE 0) THEN Return(s, "BAD_CYLINDER")
     ELSE IF u.cyl = cyl THEN s
     ELSE SeekSteps(s, s.unit_nr, cyl)

Synchronised(s) ==
  IF s.unit[s.unit_nr].initialised THEN Return(s, "OKAY")
                                   ELSE floppy_seek_initialise(s)

\* a seek that does not wait for the delays that hold steps back
SeekAtOnce(s, cyl) ==
  IF s.unit_nr = NoUnit THEN Return(s, "NO_UNIT") ELSE SeekFrom(Synchronised(s), cyl)

floppy_seek(s, cyl) ==
  IF s.unit_nr = NoUnit THEN Return(s, "NO_UNIT")
  ELSE SeekFrom(Synchronised(op_delay_wait(s, "seek")), cyl)

\* The head moved although it was at cylinder 0: step it back.
NoclickBack(s) ==
  Return(Elapse(step_in(Elapse(s, s.delay.seek_settle), 1), s.delay.seek_settle),
         "BAD_CYLINDER")

\* One step outwards, whatever is left of the settle time of the seek before.
NoclickStep(s) ==
  [step_out(s, 1, TRUE) EXCEPT
     !.early = s.early \cup IF s.post > 0 \/ s.wgate THEN {"step"}
                            ELSE IF s.settle > 0 THEN {"noclick"} ELSE {}]

\* a no-click step that does not look where the head went
NoclickNoCheck(s) == IF s.rc # "OKAY" THEN s ELSE NoclickStep(s)

\* Step outwards from cylinder 0: the drive should ignore it.
NoclickFrom(s) ==
  LET o == NoclickStep(s)
  IN IF s.rc # "OKAY" THEN s
     ELSE IF get_trk0(o, TRUE) THEN o ELSE NoclickBack(o)

floppy_noclick_step(s) == NoclickFrom(floppy_seek(s, 0))

-----------------------------------------------------------------------------
(* Head select and the write gate.                                         *)

\* CMD_HEAD
head_select(s, h) ==
  LET w == op_delay_wait(s, "head")
      early == IF w.post > 0 \/ w.wgate THEN {"head"} ELSE {}
  IN IF s.head = h THEN s
     ELSE op_delay_async([w EXCEPT !.head = h, !.pre = s.delay.pre_write,
                                   !.early = @ \cup early],
                         {"write"}, s.delay.pre_write)

\* write_pin(wgate, TRUE)
WriteGateOn(s) ==
  [s EXCEPT !.wgate = TRUE, !.line[WGATE] = "on",
            !.early = @ \cup IF s.settle > 0 \/ s.pre > 0 \/ s.post > 0
                             THEN {"write"} ELSE {}]

\* Turn off the write gate; timers and DMA are stopped as well.
floppy_flux_end(s) ==
  IF s.wgate
  THEN op_delay_async([s EXCEPT !.wgate = FALSE, !.line[WGATE] = "off",
                                !.post = s.delay.post_write],
                      {"write", "seek", "head"}, s.delay.post_write)
  ELSE s

-----------------------------------------------------------------------------
(* Leaving the drives in a safe state.                                     *)

\* quiescing that leaves the motors alone
QuiesceKeepsMotor(s, i) == s

QuiesceMotor(s, i) == IF s.unit[i].motor THEN drive_motor(s, i, FALSE) ELSE s

\* one iteration of the loop over unit[]
quiesce_unit(s, i) ==
  QuiesceMotor(IF s.unit[i].initialised /\ s.unit[i].cyl < 0
               THEN floppy_seek(drive_select(s, i), 0) ELSE s, i)

quiesce_drives(s) ==
  LET q == quiesce_unit(quiesce_unit(quiesce_unit(quiesce_unit(
             floppy_flux_end(s), 0), 1), 2), 3)
  IN [drive_deselect(q) EXCEPT !.armed = FALSE]

\* The state quiesce_drives() promises: neither in the firmware's records nor
\* on any line it was the last to write is a drive selected, a motor on or the
\* gate open, and no head it knows of is below cylinder 0, in its records or in
\* truth.  Lines the host set itself, and heads this run of the firmware never
\* found, it leaves as they are.
Quiesced(s) ==
  /\ s.unit_nr = NoUnit /\ ~s.wgate
  /\ \A p \in Pins : s.line[p] # "on"
  /\ \A u \in Units : /\ ~s.unit[u].motor
                      /\ ~(s.unit[u].initialised /\ s.unit[u].cyl < 0)
                      /\ u \in s.found => s.pos[u] >= 0

BlankUnit == [cyl |-> 0, initialised |-> FALSE, is_flippy |-> FALSE,
              motor |-> FALSE]

\* _set_bus_type
SetBusType(s, type) ==
  [quiesce_drives(s) EXCEPT !.bus_type = type, !.unit_nr = NoUnit,
                            !.unit = [u \in Units |-> BlankUnit],
                            !.stray = FALSE]

\* set_bus_type
set_bus_type(s, type) ==
  IF type = s.bus_type THEN Return(s, "OKAY")
  ELSE IF type > BUS_SHUGART THEN Return(s, "BAD_COMMAND")
  ELSE Return(SetBusType(s, type), "OKAY")

\* The device as floppy_init() leaves it, the heads wherever they are.
PowerOn(delay, pos) ==
  [bus_type |-> BUS_NONE, unit_nr |-> NoUnit,
   unit |-> [u \in Units |-> BlankUnit],
   delay |-> delay, wgate |-> FALSE, head |-> FALSE,
   line |-> [p \in Pins |-> "off"],
   mask |-> {}, od |-> 0, armed |-> FALSE, wd |-> 0, rc |-> "OKAY",
   pos |-> pos, settle |-> 0, pre |-> 0, post |-> 0,
   early |-> {}, stray |-> FALSE, found |-> {}]

-----------------------------------------------------------------------------
(* What CMD_GET_INFO answers about a drive.                                *)

drive_get_info(s, nr0) ==
  LET nr == IF nr0 < 0 THEN s.unit_nr ELSE nr0
      u == s.unit[s.unit_nr]
  IN IF nr0 < 0 /\ s.unit_nr < 0 THEN [rc |-> "NO_UNIT"]
     ELSE IF s.bus_type = BUS_NONE THEN [rc |-> "NO_BUS"]
     ELSE IF nr >= NrUnits(s.bus_type) THEN [rc |-> "BAD_UNIT"]
     ELSE [rc |-> "OKAY", cyl_valid |-> u.initialised, motor_on |-> u.motor,
           is_flippy |-> u.is_flippy, cyl |-> u.cyl]

\* CMD_GET_INFO with sub-index idx: the unit number is computed from the
\* command code (0), not from idx, so that it is always negative.
CMD_GET_INFO == 0
GETINFO_DRIVE(nr) == 8 + nr
get_info_drive(s, idx) == drive_get_info(s, CMD_GET_INFO - GETINFO_DRIVE(0))
=============================================================================
