------------------------------- MODULE Floppy -------------------------------
(***************************************************************************)
(* floppy.c as the main loop runs it: the floppy_state machine, one action *)
(* per host command and one per handler that floppy_process() calls, the   *)
(* watchdog, the USB class callbacks, and the op_delay timer interrupt.    *)
(*                                                                         *)
(* The host is unconstrained: it may send any command whenever the device  *)
(* looks for one, read its responses when it likes, reset or reconfigure   *)
(* the device at any point, and fall silent for good (hostUp = FALSE).     *)
(* Flux data, index pulses and the write-protect sensor are arbitrary.     *)
(*                                                                         *)
(* A main-loop iteration is one action; where nothing changes it is a      *)
(* stuttering step.  floppy_process() goes on to its switch after the      *)
(* watchdog has fired: here that is the next action.                       *)
(***************************************************************************)
EXTENDS Drives

CONSTANTS
  FactoryDelays,  \* factory_delay_params
  HostDelays,     \* delay settings the host may install
  HostCyls,       \* cylinders the host may seek to, none beyond LastCyl
  HostUnits,      \* unit numbers the host may name
  HostBuses,      \* bus types the host may set
  HostPins,       \* pins the host may set
  HasTestMode,    \* testmode_init() succeeds on this board
  MayFallSilent,  \* the host may stop communicating
  EraseTicks,     \* durations of an erase
  StartPos,       \* where the heads may be at power-on
  UBufSz, Mps,    \* u_buf and packet size, in units of encoded flux
  TxSlots         \* packets the IN endpoint can hold (1: DWC OTG, 2: USBD)

ASSUME DelaysAssumption == FactoryDelays \in Delays /\ HostDelays \subseteq Delays
ASSUME HostAssumption == /\ HostCyls \subseteq {c \in Int : c <= LastCyl}
                         /\ HostUnits \subseteq Nat
                         /\ HostPins \subseteq Nat
                         /\ HostBuses \subseteq Nat
                         /\ {HasTestMode, MayFallSilent} \subseteq BOOLEAN
ASSUME EraseAssumption == EraseTicks \subseteq Nat
\* only drives without a stop at track 0 can have been left below it
ASSUME StartPosAssumption ==
  \A p \in StartPos :
     /\ p \in [Units -> Int]
     /\ \A u \in Units : p[u] <= LastCyl /\ (Kind[u] = "normal" => p[u] >= 0)
ASSUME BufferAssumption == UBufSz \in Nat /\ Mps \in Nat \ {0} /\ TxSlots \in Nat \ {0}

VARIABLES
  floppy_state,  \* the state machine
  dev,           \* the device record of module Drives
  ubuf,          \* read: u_prod - u_cons
  pkt,           \* read, source: usb_packet.ready
  fin,           \* erase: ticks until flux_op.end
  txq,           \* packets written to EP_TX and not yet taken by the host
  overrun,       \* ghost: states in which usb_write was called on a full EP_TX
  hostUp         \* FALSE: the host has fallen silent

vars == <<floppy_state, dev, ubuf, pkt, fin, txq, overrun, hostUp>>

FloppyStates ==
  {"inactive", "command_wait", "zlp", "read_flux", "read_flux_drain",
   "write_flux_wait_data", "write_flux_wait_index", "write_flux",
   "write_flux_drain", "erase_flux", "source_bytes", "sink_bytes",
   "update_bootloader", "testmode"}

Init ==
  /\ floppy_state = "inactive"
  /\ \E p \in StartPos : dev = PowerOn(FactoryDelays, p)
  /\ ubuf = 0 /\ pkt = FALSE /\ fin = 0 /\ txq = 0
  /\ overrun = {} /\ hostUp = TRUE

-----------------------------------------------------------------------------
(* EP_TX and the end of a command.                                         *)

ep_tx_ready == txq < TxSlots

usb_write ==
  /\ txq' = IF ep_tx_ready THEN txq + 1 ELSE txq
  /\ overrun' = IF ep_tx_ready THEN overrun ELSE overrun \cup {floppy_state}

\* The response to a command: s is the device after the handler ran.
floppy_end_command(s) ==
  /\ dev' = watchdog_arm(Return(s, "OKAY"))
  /\ usb_write
  /\ ubuf' = 0

\* floppy_process() found the watchdog not expired
Expired == dev.armed /\ dev.wd = 0
InState(st) == ~Expired /\ floppy_state = st

-----------------------------------------------------------------------------
(* process_command(): a complete command has arrived and EP_TX has space.  *)

CommandReady == hostUp /\ InState("command_wait") /\ ep_tx_ready

\* A command that runs to completion: device s is what it leaves.
Completes(s) ==
  /\ CommandReady
  /\ floppy_end_command(s)
  /\ UNCHANGED <<floppy_state, pkt, fin, hostUp>>

\* A command that is answered at once and moves to state st.
Starts(s, st) ==
  /\ CommandReady
  /\ floppy_end_command(s)
  /\ floppy_state' = st
  /\ UNCHANGED hostUp

\* GET_INFO, GET_PARAMS, GET_PIN, GET_FLUX_STATUS, refused commands, and
\* SWITCH_FW_MODE to the mode already running.
CmdQuery == Completes(dev)

CmdSeek == \E c \in HostCyls : Completes(floppy_seek(dev, c))
CmdNoclickStep == Completes(floppy_noclick_step(dev))
CmdHead == \E h \in BOOLEAN : Completes(head_select(dev, h))
CmdSelect == \E nr \in HostUnits : Completes(drive_select(dev, nr))
CmdDeselect == Completes(drive_deselect(dev))
CmdMotor == \E nr \in HostUnits, on \in BOOLEAN :
              Completes(drive_motor(dev, nr, on))
CmdSetParams == \E d \in HostDelays : Completes([dev EXCEPT !.delay = d])
CmdSetBusType == \E type \in HostBuses : Completes(set_bus_type(dev, type))
CmdSetPin == \E p \in HostPins, level \in HostLevels :
               Completes(set_user_pin(dev, p, level))
CmdReset ==
  Completes(reset_user_pins(SetBusType([dev EXCEPT !.delay = FactoryDelays],
                                       BUS_NONE)))

\* floppy_read_prep
CmdReadFlux ==
  LET w == op_delay_wait(dev, "read")
      r == [w EXCEPT !.early = @ \cup IF w.settle > 0 THEN {"read"} ELSE {}]
  IN Starts(r, "read_flux") /\ pkt' = FALSE /\ UNCHANGED fin

\* floppy_write_prep; a protected disk is refused
CmdWriteFlux ==
  Starts(dev, "write_flux_wait_data") /\ pkt' = FALSE /\ UNCHANGED fin
CmdWriteFluxProtected == Completes(Return(dev, "WRPROT"))

\* floppy_erase_prep: the gate opens at once
CmdEraseFlux ==
  \E t \in EraseTicks :
     /\ Starts(WriteGateOn(op_delay_wait(dev, "write")), "erase_flux")
     /\ fin' = t /\ UNCHANGED pkt
CmdEraseFluxProtected == Completes(Return(op_delay_wait(dev, "write"), "WRPROT"))

CmdSourceBytes == Starts(dev, "source_bytes") /\ pkt' = FALSE /\ UNCHANGED fin
CmdSinkBytes == Starts(dev, "sink_bytes") /\ pkt' = FALSE /\ UNCHANGED fin
CmdUpdate == Starts(dev, "update_bootloader") /\ UNCHANGED <<pkt, fin>>
CmdTestMode ==
  HasTestMode /\ Starts(dev, "testmode") /\ UNCHANGED <<pkt, fin>>

\* CMD_SWITCH_FW_MODE: the MCU resets.  The bus lines float, the firmware
\* starts over some time later; only the heads stay where they are.
CmdSwitchFwMode ==
  /\ CommandReady
  /\ floppy_state' = "inactive"
  /\ dev' = [PowerOn(FactoryDelays, dev.pos) EXCEPT !.early = dev.early]
  /\ ubuf' = 0 /\ pkt' = FALSE /\ fin' = 0 /\ txq' = 0
  /\ UNCHANGED <<overrun, hostUp>>

Command ==
  \/ CmdQuery \/ CmdSeek \/ CmdNoclickStep \/ CmdHead \/ CmdSelect
  \/ CmdDeselect \/ CmdMotor \/ CmdSetParams \/ CmdSetBusType \/ CmdSetPin
  \/ CmdReset \/ CmdReadFlux \/ CmdWriteFlux \/ CmdWriteFluxProtected
  \/ CmdEraseFlux \/ CmdEraseFluxProtected \/ CmdSourceBytes \/ CmdSinkBytes
  \/ CmdUpdate \/ CmdTestMode \/ CmdSwitchFwMode

-----------------------------------------------------------------------------
(* The handlers floppy_process() calls in the other states.                *)

\* A handler that answers the host and returns to state st.
Finishes(s, st) ==
  /\ floppy_end_command(s)
  /\ floppy_state' = st
  /\ UNCHANGED <<fin, hostUp>>

\* ST_zlp: a full-sized final packet is followed by an empty one
Zlp ==
  /\ InState("zlp") /\ ep_tx_ready
  /\ usb_write
  /\ floppy_state' = "command_wait"
  /\ UNCHANGED <<dev, ubuf, pkt, fin, hostUp>>

\* the most that one rdata_encode_flux() call adds to u_buf (bound)
EncodeMax == 2

\* Ship a full packet, if there is one and EP_TX has space.
ReadShip(avail) ==
  LET make == ~pkt /\ avail >= Mps
      send == (pkt \/ make) /\ ep_tx_ready
  IN /\ ubuf' = IF make THEN avail - Mps ELSE avail
     /\ pkt' = ((pkt \/ make) /\ ~send)
     /\ IF send THEN usb_write ELSE UNCHANGED <<txq, overrun>>

\* a read that drops flux instead of ending when u_buf is full
ReadNeverOverflows ==
  /\ InState("read_flux")
  /\ \E index \in BOOLEAN :
       dev' = IF index THEN watchdog_kick(dev) ELSE dev
  /\ UNCHANGED <<floppy_state, ubuf, pkt, fin, txq, overrun, hostUp>>

\* a read that goes on when u_buf is full
ReadPastEnd ==
  /\ InState("read_flux")
  /\ \E k \in 0..EncodeMax : ReadShip(ubuf + k)
  /\ UNCHANGED <<floppy_state, dev, fin, hostUp>>

\* floppy_read in ST_read_flux: an index pulse adds to the stream and defers
\* the watchdog; the read ends by overflow, deadline or missing index.
ReadFlux ==
  /\ InState("read_flux")
  /\ \E k \in 0..EncodeMax, index \in BOOLEAN,
        end \in {"no", "deadline", "no_index"} :
       LET over == ubuf + k > UBufSz
           d == IF index THEN watchdog_kick(dev) ELSE dev
       IN /\ index => k > 0 /\ end # "no_index"
          /\ ReadShip(IF over \/ end = "no_index" THEN 0 ELSE ubuf + k)
          /\ IF over \/ end # "no"
             THEN /\ dev' = floppy_flux_end(d)
                  /\ floppy_state' = "read_flux_drain"
             ELSE dev' = d /\ UNCHANGED floppy_state
  /\ UNCHANGED <<fin, hostUp>>

\* floppy_read in ST_read_flux_drain: the rest of the buffer, then the final
\* packet, which is full-sized if Mps - 1 bytes are left.
ReadDrainFinal ==
  /\ InState("read_flux_drain")
  /\ ubuf < Mps /\ ~pkt /\ ep_tx_ready
  /\ \E st \in {"command_wait", "zlp"} : Finishes(dev, st)
  /\ pkt' = TRUE

ReadDrain ==
  /\ InState("read_flux_drain")
  /\ ~(ubuf < Mps /\ ~pkt /\ ep_tx_ready)
  /\ ReadShip(ubuf)
  /\ UNCHANGED <<floppy_state, dev, fin, hostUp>>

\* A flux operation ends with an error or by itself; the rest of the host's
\* stream is drained.
WriteEnd ==
  /\ dev' = floppy_flux_end(dev)
  /\ floppy_state' = "write_flux_drain"

\* floppy_write_wait_data: bad stream, or enough of it has arrived
WriteWaitData ==
  /\ InState("write_flux_wait_data")
  /\ \/ WriteEnd
     \/ /\ dev' = op_delay_wait(dev, "write")
        /\ floppy_state' = "write_flux_wait_index"
  /\ UNCHANGED <<ubuf, pkt, fin, txq, overrun, hostUp>>

\* floppy_write_wait_index: no index in two seconds, or the write starts
WriteWaitIndex ==
  /\ InState("write_flux_wait_index")
  /\ \/ WriteEnd
     \/ /\ dev' = WriteGateOn(dev)
        /\ floppy_state' = "write_flux"
  /\ UNCHANGED <<ubuf, pkt, fin, txq, overrun, hostUp>>

\* a write that defers the watchdog whenever it is serviced
WriteKicks ==
  /\ InState("write_flux")
  /\ WriteEnd \/ (dev' = watchdog_kick(dev) /\ UNCHANGED floppy_state)
  /\ UNCHANGED <<ubuf, pkt, fin, txq, overrun, hostUp>>

\* floppy_write: bad stream, underflow, index or end of stream.  Nothing here
\* defers the watchdog.
WriteFlux ==
  /\ InState("write_flux")
  /\ WriteEnd
  /\ UNCHANGED <<ubuf, pkt, fin, txq, overrun, hostUp>>

\* floppy_write_drain, the end of the stream seen
WriteDrain ==
  /\ InState("write_flux_drain") /\ ep_tx_ready
  /\ Finishes(dev, "command_wait")
  /\ UNCHANGED pkt

\* floppy_erase: the answer is written whether or not EP_TX has space
EraseFlux ==
  /\ InState("erase_flux") /\ fin = 0
  /\ Finishes(floppy_flux_end(dev), "command_wait")
  /\ UNCHANGED pkt

\* a source that does not wait for EP_TX
SourceUnguarded ==
  /\ InState("source_bytes")
  /\ usb_write
  /\ UNCHANGED <<floppy_state, dev, ubuf, pkt, fin, hostUp>>

\* source_bytes: stage a packet, send it when there is space, stop at the end
SourceBytes ==
  /\ InState("source_bytes")
  /\ \/ ~ep_tx_ready /\ pkt' = TRUE
        /\ UNCHANGED <<floppy_state, dev, ubuf, fin, txq, overrun, hostUp>>
     \/ ep_tx_ready /\ pkt' = FALSE /\ usb_write
        /\ UNCHANGED <<floppy_state, dev, ubuf, fin, hostUp>>
     \/ ep_tx_ready /\ pkt' = FALSE /\ Finishes(dev, "command_wait")

\* sink_bytes and update_continue, everything received
SinkBytes ==
  /\ InState("sink_bytes") /\ ep_tx_ready
  /\ Finishes(dev, "command_wait") /\ UNCHANGED pkt

UpdateBootloader ==
  /\ InState("update_bootloader") /\ ep_tx_ready
  /\ Finishes(dev, "command_wait") /\ UNCHANGED pkt

\* ST_testmode: the watchdog is off; a packet from the host may set any pin,
\* the step line among them
Testmode ==
  /\ InState("testmode")
  /\ \/ /\ dev' = [dev EXCEPT !.armed = FALSE]
        /\ UNCHANGED <<txq, overrun>>
     \/ /\ hostUp
        /\ \E levels \in [Pins -> HostLevels] :
             dev' = [dev EXCEPT !.armed = FALSE, !.line = levels,
                                !.stray = TRUE, !.found = {}]
        /\ usb_write
  /\ UNCHANGED <<floppy_state, ubuf, pkt, fin, hostUp>>

-----------------------------------------------------------------------------
(* The watchdog and the USB class callbacks.                               *)

\* going back to command_wait without ending the flux operation
ConfigureKeepsFlux(s) == watchdog_arm(s)

floppy_configure(s) == floppy_flux_end(watchdog_arm(s))

Watchdog ==
  /\ Expired
  /\ dev' = Return(quiesce_drives(floppy_configure(dev)), "OKAY")
  /\ floppy_state' = "command_wait"
  /\ ubuf' = 0
  /\ UNCHANGED <<pkt, fin, txq, overrun, hostUp>>

\* usb_process() saw a bus reset: floppy_reset
UsbReset ==
  /\ hostUp
  /\ dev' = Return(quiesce_drives(dev), "OKAY")
  /\ floppy_state' = "inactive"
  /\ txq' = 0
  /\ UNCHANGED <<ubuf, pkt, fin, overrun, hostUp>>

\* floppy_configure, by SET_CONFIGURATION (which also sets up the endpoints)
\* or by SET_LINE_CODING with BAUD_CLEAR_COMMS (which does not)
UsbConfigure ==
  /\ hostUp
  /\ dev' = floppy_configure(dev)
  /\ floppy_state' = "command_wait"
  /\ ubuf' = 0
  /\ txq' \in {0, txq}
  /\ UNCHANGED <<pkt, fin, overrun, hostUp>>

-----------------------------------------------------------------------------
(* Interrupts, time and the host.                                          *)

op_delay_timer ==
  /\ dev.mask # {} /\ dev.od = 0
  /\ dev' = [dev EXCEPT !.mask = {}]
  /\ UNCHANGED <<floppy_state, ubuf, pkt, fin, txq, overrun, hostUp>>

Tick ==
  /\ dev' = Elapse(dev, 1)
  /\ fin' = Less(fin, 1)
  /\ UNCHANGED <<floppy_state, ubuf, pkt, txq, overrun, hostUp>>

HostTakesPacket ==
  /\ hostUp /\ txq > 0
  /\ txq' = txq - 1
  /\ UNCHANGED <<floppy_state, dev, ubuf, pkt, fin, overrun, hostUp>>

HostFallsSilent ==
  /\ MayFallSilent /\ hostUp
  /\ hostUp' = FALSE
  /\ UNCHANGED <<floppy_state, dev, ubuf, pkt, fin, txq, overrun>>

Next ==
  \/ Command
  \/ Zlp \/ ReadFlux \/ ReadDrainFinal \/ ReadDrain
  \/ WriteWaitData \/ WriteWaitIndex \/ WriteFlux \/ WriteDrain
  \/ EraseFlux \/ SourceBytes \/ SinkBytes \/ UpdateBootloader \/ Testmode
  \/ Watchdog \/ UsbReset \/ UsbConfigure
  \/ op_delay_timer \/ Tick \/ HostTakesPacket \/ HostFallsSilent

Spec == Init /\ [][Next]_vars

\* Time passes, and main() keeps calling floppy_process(), which serves an
\* expired watchdog before anything else.  Nothing is assumed of the host.
\* The second conjunct is WF_vars(Watchdog): Watchdog is enabled exactly when
\* Expired holds (it always disarms the watchdog).
FairSpec ==
  /\ Spec
  /\ WF_vars(Tick)
  /\ []<>~Expired \/ []<><<Watchdog>>_vars

-----------------------------------------------------------------------------
(* Properties.                                                             *)

\* Every variable keeps its type: no countdown goes below zero, unit_nr stays
\* within unit[], u_buf never overflows unnoticed, the IN endpoint never holds
\* more than its slots.
TypeOK ==
  /\ floppy_state \in FloppyStates
  /\ dev \in Dev
  /\ ubuf \in 0..UBufSz /\ pkt \in BOOLEAN /\ fin \in Nat /\ txq \in 0..TxSlots
  /\ overrun \subseteq FloppyStates /\ hostUp \in BOOLEAN

\* The single op_delay deadline covers every documented delay still running:
\* no later, shorter request loses an earlier, longer one.
OpDelayCovers == DelayCovers(dev)

\* The write gate is never opened, the head never changed, no step pulse sent
\* and no read started before the documented minimum time (settle, pre-write,
\* post-write) has passed, and neither steps nor head changes happen under an
\* open gate: whatever commands, aborts and resets came before.  The one step
\* exempt is that of the no-click command, and it only from the settle time
\* (see SettleKept).
NothingEarly == dev.early \subseteq {"noclick"}

\* The write gate is open only while a write or an erase runs: no error path,
\* timeout, abort or reconfiguration leaves it open.
GateOnlyInFlux ==
  dev.wgate => floppy_state \in {"write_flux", "erase_flux"}

\* With the watchdog disarmed nobody will turn the drives off any more, so they
\* are off: no motor runs, no drive is selected, neither in the firmware's
\* records nor on a line it was the last to write, and no head that this run of
\* the firmware has found is below cylinder 0.  Not covered, and left as they
\* are by the code: lines the host set with CMD_SET_PIN, and heads nobody has
\* looked for since the firmware started (CMD_SWITCH_FW_MODE restarts it without
\* quiescing anything).  Test mode disarms the watchdog on purpose.
QuietWhenDisarmed ==
  ~dev.armed /\ floppy_state # "testmode" => Quiesced(dev)

\* Every bus line that the host has not set behind the firmware's back is
\* asserted exactly when unit_nr, unit[].motor and pins.wgate say so: never two
\* drives selected, no motor left on by a bus change or an abort.  The selected
\* unit's pin exists, so that drive_deselect()'s ASSERT cannot fail.
PinsMatch ==
  /\ \A p \in Pins : dev.line[p] \notin HostLevels =>
                        ((dev.line[p] = "on") <=> Driven(dev, p))
  /\ dev.unit_nr # NoUnit => SelectPin(dev.bus_type, dev.unit_nr) \in UserPins

\* The cached cylinder of every synchronised drive is where its head really is,
\* across selects, bus changes, restarts, aborts and negative cylinders, unless
\* a step was sent or track 0 looked for while levels the host gave to select
\* lines itself kept the selected drive from being the only one that listened.
HeadTracked ==
  ~dev.stray => \A u \in Units :
     dev.unit[u].initialised => dev.pos[u] = dev.unit[u].cyl

\* A no-click step that would report success now would leave the head at
\* cylinder 0, on drives that ignore the outward step and on drives that do not.
NoclickAtZero ==
  LET r == floppy_noclick_step(dev)
  IN floppy_state = "command_wait" /\ dev.unit_nr # NoUnit
       => (r.rc = "OKAY" /\ ~r.stray => r.pos[r.unit_nr] = 0)

\* usb_write() is called on an IN endpoint without space by nobody but the
\* erase and test-mode handlers.
TxGuarded == overrun \subseteq {"erase_flux", "testmode"}

\* The write gate is always closed again, whatever the host does or omits:
\* writes and erases do not defer the watchdog.
GateCloses == dev.wgate ~> ~dev.wgate

\* When the host falls silent the drives end up quiesced, as Quiesced says, from
\* any state but test mode, a read that keeps seeing index pulses included.
SilentHostQuiesces ==
  ~hostUp ~> (Quiesced(dev) \/ floppy_state = "testmode")

-----------------------------------------------------------------------------
(* What comments and documentation say, and the code does not do.          *)

\* cdc_acm_protocol.h: seek_settle is the delay after completing a seek.  It is
\* not: the no-click step follows the seek to cylinder 0 at once.
SettleKept == dev.early = {}

\* RELEASE_NOTES: GetInfo's Drive_n page reports the status of drive n
\* (its motor where every drive has its own motor line).
DriveInfoNamed ==
  \A n \in 0..2 :
    LET i == get_info_drive(dev, GETINFO_DRIVE(n))
    IN i.rc = "OKAY" => /\ i.cyl = dev.unit[n].cyl
                        /\ i.cyl_valid = dev.unit[n].initialised
                        /\ dev.bus_type = BUS_IBMPC =>
                             i.motor_on = dev.unit[n].motor
=============================================================================
