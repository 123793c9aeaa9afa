# Greaseweazle firmware: models and proofs

TLA+ models of the firmware in this repository, their TLC runs, and machine-checked
proofs about them. Every definition that models code is listed, with the lines it was
translated from, in `PROJECT.json` under `map`.

## 1. The system

The firmware turns a microcontroller into a USB adapter for floppy drives. `main()`
alternates `usb_process()` and `floppy_process()` for ever; everything else runs in
interrupts (timers, the index pulse, on some parts USB). Nothing preempts the main loop
but interrupts, and a handler always runs to completion.

| Component | State | Operations | Talks to |
|---|---|---|---|
| Drive control (`floppy.c`) | `bus_type`, `unit_nr`, `unit[]`, `pins`, `op_delay`, bus lines | select, motor, seek, noclick, head, pin, `quiesce_drives` | drives, timers |
| Command and state machine (`floppy.c`) | `floppy_state`, `u_buf`, `usb_packet`, `watchdog` | `process_command`, handlers of `floppy_process`, USB class callbacks | USB core, drive control |
| Flux read (`floppy.c`) | `read`, `dma`, `u_prod`/`u_cons`, `index.rdata_cnt` | `rdata_encode_flux`, `floppy_read` | DMA, index interrupt, EP_TX |
| Flux write (`floppy.c`) | `write`, `dma`, decode state | `_wdata_decode_flux`, `floppy_write*` | DMA, index interrupt, EP_RX |
| Index pulses (`floppy.c`) | `index` | `IRQ_INDEX_changed`, `index_timer` | timers, read, write |
| Timers (`timer.c`) | sorted list of deadlines, one hardware timer | `timer_set`, `timer_cancel`, `IRQ_timer` | op_delay, index, time |
| System time (`time.c`) | `time_stamp`, 24-bit SysTick | `time_now`, `time_stamp_update` | timers |
| USB control transfers (`usb/core.c`, `usb/cdc_acm.c`) | `ep0` | SETUP, data and status stages, class callbacks | drivers, floppy |
| USBD drivers (`usb/hw_usbd.c`, `usb/hw_usbd_at32f4.c`) | endpoint registers, buffer toggles, packet rings | `usb_read`, `usb_write`, configure, interrupt | host, main loop |
| DWC OTG driver (`usb/hw_dwc_otg.c`) | receive ring, endpoint flags | the same | host, main loop |
| Update bootloader (`fw_update.c`) | flash, state, CRC | erase, write, verify, boot decision | USB, flash |
| Bootloader update (`floppy.c`) | `u_buf`, flash | receive, check, erase, write, verify, retry | USB, flash |
| Chip test (`blinky.c`), a firmware of its own | `failed`, the LED, DMA and TIM4 | one test per part, two interrupts, exceptions | - |
| Test mode (`testmode.c`), console, libc subset, vectors, start-up | - | - | - |

What makes it hard: one deadline (`op_delay`) serves several operations; the host may
send anything, at any time, or nothing; aborts come from a watchdog, a USB reset, and a
baud-rate change, each in the middle of any flux operation; packets move between hardware
and software through buffers that both own in turn; power may fail while flash is half
written; heads of "flippy" drives go
below cylinder 0, where the track-0 sensor cannot tell cylinders apart; the cached state
of a drive must follow a head the firmware cannot see; endpoints have room for one or
two packets.

What makes each component correct is the subject of its properties; the hazards they
answer are in `PROJECT.json` under `hazards`, including the two that no property covers
and those that a run shows to bite.

## 2. Modules

| Module | Models |
|---|---|
| `Drives` | drive control: operators from a device record to a device record, one per C function; the attached drives; `op_delay` and the ghosts that measure the documented delays |
| `Floppy` | the state machine: EXTENDS `Drives`; one action per command, handler, callback, interrupt and host move |
| `WriteFlux` | the write path in detail: packets, `u_buf`, `_wdata_decode_flux`, the DMA ring and its consumer, the five write handlers |
| `ReadStream` | `rdata_encode_flux`: the sample stream a read sends, beside the counter, the DMA engine and the index interrupt |
| `IndexPulse` | the index interrupt, its mask and hard-sector filter, and `index_timer` |
| `FluxCodec` | the bytes of the opcodes in both directions |
| `Deadlines` | what timers promise: a set of deadlines, each met at most so early and so late |
| `Timers` | `timer.c`, shown to implement `Deadlines` |
| `SysTime` | `time.c`: 32-bit time from a 24-bit down-counter |
| `UsbPipe` | what `usb.h` promises of one direction of the bulk link |
| `Usbd`, `UsbdAt32`, `DwcOtg` | the three drivers, each shown to implement two `UsbPipe`s |
| `UsbEp0` | control transfers: `core.c` and `cdc_acm.c` over endpoint 0 of `hw_usbd.c` |
| `FwUpdate` | `fw_update.c`, the bootloader update of `floppy.c`, the flash and the decision at power-on |
| `Blinky` | `blinky.c`, the firmware that tells genuine chips from fakes |
| `MCUsb` | the three drivers and endpoint 0 behind the interface of `usb.h`, one at a time, and their properties |
| `MCTime` | `Timers`, `SysTime`, `IndexPulse` and `ReadStream`, one at a time |
| `MCFloppy`, `MCWriteFlux`, `MCEmptyRing`, `MCFwUpdate` | instances for TLC |
| `FloppyProofs`, `WriteFluxProofs`, `ReadStreamProofs` (with `FluxCodec`), `IndexPulseProofs`, `TimersProofs`, `SysTimeProofs`, `UsbProofs`, `FirmwareProofs` (`FwUpdate` and `Blinky`) | lemmas, inductive invariants and theorems |

### Drives

The C functions called from the main loop run to completion, so each is an operator
`f(s, args)` from the device record before the call to the record after it; `s.rc` is the
value the C function returned. Time that passes inside a call (`delay_ms`,
`op_delay_wait`, `op_delay_async` beyond one second) is `Elapse`. A deadline is kept as
the number of ticks still to go, so that the state space is finite. Fields `settle`,
`pre` and `post` are ghosts: how long the documented `seek_settle`, `pre_write` and
`post_write` times still run, whatever `op_delay` says. `early` collects the operations
that were performed before their time; the step of a no-click command within `settle` has
a name of its own there, "noclick". `pos` is the real position of each head, moved by
step pulses only if the drive's select line is asserted. A line is "on" or "off", or
"host_on" or "host_off" if the host wrote it last, with `CMD_SET_PIN` or in test mode. The
bus has one TRK0 line, which every drive that listens may pull (`get_trk0`), so that a
search for track 0 ends at the first of them that reports it. `stray` remembers that a
step or such a search met other drives than the selected one, because of levels the host
had given to select lines; `found` is the set of drives whose heads this run of the
firmware has found, none of them astray. Drives are absent, normal (they ignore outward
steps at track 0), flippy (they ignore them while the track-0 sensor is enabled) or
"nostop"; a head goes no further in than `LastCyl`.

A step loop of `n` pulses is one operator with argument `n`, because every pulse moves
the same drives in the same direction with the same flags. Step pulses do take time in
the code (`delay_us(step)`); leaving it out makes the model stricter, since a running
delay never ends during a step loop.

### Floppy

`floppy_state` keeps the C names without `ST_`. The host is an unconstrained
environment: any command whenever the device looks for one, any delay setting, a USB
reset or `SET_LINE_CODING` at any point, and silence for ever after. A main-loop
iteration is one action; an iteration in which nothing changes is a stuttering step.
`floppy_process()` goes on to its `switch` after the watchdog fired; here that is the
next action. Flux data are abstract: a read adds 0 to `EncodeMax` units to `u_buf` per
iteration, a write ends whenever it likes. `txq` counts the packets in the IN endpoint;
`overrun` records in which state `usb_write()` was called without space.
`CMD_SWITCH_FW_MODE` restarts the firmware with the heads wherever they are.

`QuietWhenDisarmed` and `SilentHostQuiesces` promise what `Quiesced` says: the firmware's
records show nothing on, no line it was the last to write is asserted, and no head in
`found` is below cylinder 0, in its record or in truth. The code promises no more: it
leaves alone a line that the host set itself, and a head that nobody has looked for since
the firmware started, which may stand at -8.

### WriteFlux

A stream is a sequence of opcodes with the number of bytes each takes, so that packets end
inside opcodes. `u_prod` counts bytes, `at` opcodes consumed. The main loop is cut where
the code reads something that changes under it: `_wdata_decode_flux` reads the consumer
index once per call and then fills the ring one turn of a loop at a time, while `Take`
(the DMA request of the timer) removes values from it. `Speed` bounds how many values the DMA
engine takes during one step of the main loop. A slot of the ring holds the number of its
value in the ghost sequence `made`, or 0 for a leftover of an earlier operation. `write`
corresponds to the C struct, but its `ticks` is a number where the code has a `uint32_t`:
that a stream adds up less than 2^32 ticks without a flux is assumed. The end of the
operation is its two statuses and the state, and the answer to the host is in `Floppy`.

`Wanted` is the reference: what a stream means, opcode by opcode, without packets, calls
or rings. `Steady` is what the theorems on the ring ask of a stream: between two opcodes
that end a call of the decoder (`Cuts`: a change to an oscillating region, a flux beyond
the width of the timer) it has values enough to make up for both calls, and by the time
that all that is left of it fits into `u_buf` it has come to a full ring.

### ReadStream

Times are kept as ages (ticks since), which makes the state space finite. The host's
sample cursor is the ghost `cursor`, moved by what `rdata_encode_flux` emits; `prev` is
`dma.prev_sample` as the 16-bit value it is. `Poll`, `Scan` and `LongGap` are the three
points at which the function reads something the DMA engine, the index interrupt or
the counter may move. `u_buf` and packets are in `Floppy`; the limits of a read (ticks,
indexes, linger) are a free choice there.

### IndexPulse

`age` is `time_diff(index.trigger_time, now)` as the signed 32-bit value the code
computes; `real` is the true age. The disk turns or stands still at will; its interrupt
comes up to `Latency` after the hole, and may bounce. `index_timer` is two steps, because
it reads the time before it turns interrupts off.

### Timers, Deadlines, SysTime

`timer_set` and `timer_cancel` mask the interrupt and are one step each; `IRQ_timer` takes
one step per turn of its loop. `left` is `time_diff(now, deadline)`, which wraps at
`Half`. `Deadlines` knows nothing of lists or prescalers: callbacks happen between `Slack`
ticks before their deadline and a bounded time after it. `called` tells a callback from the
setting and the cancelling of a timer, which may happen at any time: a step that calls back
a timer which is not the nearest one, or too early, is none of `Deadlines`.

`SysTime` splits `time_now()` between its two loads, for an arbitrary caller and for the
callback that refreshes the stamp. A 32-bit value is a pair of its high and low part, on
which the masking of the code is exact.

### FluxCodec

Bytes are numbers below 256; `1 | y`, `y & 0xfe` and the shifts are arithmetic that TLAPS
can reason about. `_write_28bit` and `Flux` are the encoder, `_read_28bit`,
`OpcodeLength`, `FluxTicks` and `Argument` the decoder. `WriteFlux` and `ReadStream` work
with opcodes as units; that a unit is what its bytes say is proved here.

### UsbPipe, Usbd, UsbdAt32, DwcOtg

`UsbPipe` is a bounded queue: packets are put in, taken out in order and once, and none
stays for ever; only a reset or a configuration empties it. Each driver is cut wherever it
reads or writes what the hardware (or, in `UsbdAt32`, the interrupt) changes too, and the
refinement mappings `RxQueue` and `TxQueue` say which of its buffers hold packets, and in
which order. A buffer whose packet has been taken holds `None`, so that using it again
would show.

- `Usbd`: registers `DTOG` and `SW_BUF` of both double-buffered endpoints, `CTR`, and
  `ready` of `eps[]`. `usb_read` is `ReadStart`, `ReadCopy`, `ReadRelease`; `usb_write` is
  `WriteStart`, `WriteCopy`, `WriteSubmit`. The empty packet that `configure_ep` leaves
  for the host in EP_TX is in the model (`Zlp`).
- `UsbdAt32`: `main` is the program counter of the main loop, `irq` that of the work that
  `IRQ_USB_HP` and the kick of the main loop share.
- `DwcOtg`: there are no interrupts, and the core only adds to what software has not looked
  at yet, so that a call of `usb_process()` is one step (`Process`): the OUT endpoints, the
  IN endpoints, ENUMDNE, USBRST, one entry of the receive FIFO. SETUP packets, and the
  packets of data and of status that the host sends to endpoint 0, go through the same
  FIFO. The packets of `rx_bufn[]` from `rxc` to `rxp` are a sequence. `AssertsHold` states
  the `ASSERT`s of the driver for the entry it would pop next. `Rough` names what the driver
  does not stand: a bus reset that finds entries in the receive FIFO ("backlog"), one that
  ends before `usb_process()` has met it ("blocked", which has a run), a second
  SET_CONFIGURATION without a reset ("again"). With `Rough = {}` the host does none of them;
  section 6 says what becomes of each.

### UsbEp0

The handlers are operators on a record of `ep0`, the registers of endpoint 0 and the
driver's flags, as in `Drives`. `usbd_process` reads ISTR in one step and handles what it
saw in another, with the host in between. The data of a packet is its request, its place
and its length, in halves of a packet. The ghost `ran` counts how often the request of the
transfer was carried out. `MCUsb` runs either one of the three drivers or endpoint 0:
they share no state but bus resets and configurations, which each takes at any time
(`DwcOtg` a configuration once after a reset, unless `Rough` says "again").

### FwUpdate

Flash is an array of halfwords, each erased, wrong, or two bytes known by their image and
place; images are good or bad, and a CRC holds exactly over a good image (`CrcGood`).
`mode` is what runs: the bootloader, the main firmware, `wild` (something that is not a
whole image), or `dead` (no bootloader). `Boot` is `main()` of `fw_update.c`. Erasing a
page and writing a halfword are one step each, and power may fail before and after. `cut`
remembers that an update of the firmware was stopped while it was written, or between its
bad verdict and the erase of the first page, which leaves bad firmware to start as well;
`blcut` that writing the bootloader was stopped, or given up. Whether a bootloader fits into
the `u_buf` of the board is a free choice, which changes the answer only.

### Blinky

`chip` is the hardware: its reported flash size, which parts are bad, whether its DMA
gives spurious interrupts. `main()` takes one step per access to what the DMA and TIM4
interrupts share; `report(FALSE)` is three steps (the flag, then each pin).

## 3. Runs

| Run | Instance | Shows |
|---|---|---|
| `timing` | one drive without a stop at track 0; delay settings (1,1,2) and (3,2,1), `SyncMax` 2, so that one setting takes the synchronous path | `TypeOK`, `OpDelayCovers`, `NothingEarly`, `NoclickAtZero`, `GateOnlyInFlux`, `TxGuarded` |
| `drives` | a flippy drive, with its head at -8 or 2, and a normal one, cylinders -9 (refused), -8 and 0, every bus type and an invalid one; a board with pins 10, 12 and 14 only, to which the bus types give different meanings, so that a unit and motors are without a pin; a host that sets the select line of unit 1 itself, on and off | `PinsMatch`, `HeadTracked`, `QuietWhenDisarmed` |
| `silent` | a board that can select one unit of two, no drive attached; the host enters test mode, sets pins there, and may fall silent; fairness | `GateCloses`, `SilentHostQuiesces` |
| `write` | three streams of 14 to 20 opcodes: merged, split and oscillating fluxes, and a bad period; ring of 10, `u_buf` of 11 bytes, packets of at most 3, a DMA engine that takes up to 2 values per step | `TimeConserved`, `FluxesFit`, `DecodesTo`, `InOrder`, `Whole`, `StaleBounded`, `WriteEnds` |
| `time`, `Timers` | one timer set and cancelled at will, with deadlines in the past, near, and far, and two periodic ones on a 16-bit-like counter; fairness | `Sorted`, `HeadCovered`; that `Timers` implements `Deadlines` (`MeetsDeadlines`) |
| `time`, `SysTime` | the tightest timing the assumptions allow | `TrueTime`, `StampFresh` |
| `time`, `IndexPulse` | a hard-sectored disk of three sectors and an index hole, late and bouncing interrupts, stops and restarts | `TriggerAgeBounded`, `AgeTrue`, `HardIndexTrue` |
| `time`, `ReadStream` | a 13-tick counter, gap 4, fluxes at least 2 apart, index pulses at any point | `FluxTrue`, `IndexTrue` |
| `usb` | each driver with two packets, rings of 2 and 4, a receive FIFO of 4 entries, `Rough = {}`; endpoint 0 with replies shorter than, equal to and longer than a packet and than what is asked for, data of one and two packets, unknown and oversized requests, two addresses, `Eager = TRUE`; fairness | `RxAsserts`, `TxReadyTrue`, `OutPacketsArrive`, `InPacketsArrive`; `DataTrue`, `OutOnce`, `TransferEnds`, `AddressAsked` |
| `fwupdate` | areas of two pages of two halfwords; images of one and of two pages, corrupt, empty, of a bad size and too long; packets of 1 to 3 bytes; two stops and three faulty halfwords; fairness | `VerdictTrue`, `WildOnlyIfCut`, `BootloaderKept`, `Recovers` |
| `driveinfo`, `noclick`, `emptyring`, `blocked`, `eager` | instances of `Floppy` (two), `WriteFlux` and `MCUsb` (two) | one disagreement each between the code and what the repository says of it (section 6) |

`time` and `usb` are one run each of models that share nothing (`part` and `drv` say which
of them runs, the others rest), because they answer one question each: whether what
measures time measures it right, and whether what is handed to USB arrives.

Bounds. In `Floppy`, delays of 0 to 3 ticks distinguish "not running", "about to end" and
"longer than the other one", and both sides of `SyncMax`; the proofs below show that the
timing properties do not depend on them. Cylinders -8 and -9 are the two sides of the
lower limit; the flippy start position -8 needs nine inward steps of the ten allowed. One
unit of `u_buf` is one packet's share: sizes 1 to 3 with packets of 2 reach empty, exactly
full and overflow. In `WriteFlux`, every opcode length, both sides of `MinPulse` and of
`Width`, several times `Width`, and packets of every size occur; the ring wraps at least
once in every stream. In `time` the longest deadline is cut by the limit of the
counter and several coarse counts are needed to reach it. `silent` has a watchdog of two
ticks, so that deferring it makes a difference, and leaves seeks and lines to `drives`, where
one line of the host's own is enough for a second drive that listens, and for one that does
not when it should. In `usb`, rings of two are
full, empty and in between with two more packets in the hardware, and two kinds of packet
tell a swapped or repeated one. In `fwupdate`, three faults are what it takes to use up
the three attempts at a bootloader; two stops allow an update that was cut to be cut again.

Assumptions on the constants, and where the firmware stands:

- `WriteFlux`: `Ring >= 4 * Speed + 2` (tight: one turn waits for the index, one ends at a
  mode switch, one at the end of the ring, and a fourth); the ring has 512 entries.
  `OpLen <= LowWater`: the longest opcodes have 6 bytes, and a write with less than 16 bytes
  in `u_buf` ends as an underflow, so that one that stops within an opcode is noticed. The
  streams of `write` are steady, which TLC evaluates (`SteadyAssumption`); that of
  `emptyring` is not.
- `ReadStream`: `3 * Gap < Width` and `MaxLoop <= Gap`. The gap is 200us, the 16-bit
  counter wraps after 910us; `MaxLoop`, the time from one reading of the counter to the
  next, is the code's own expectation, not something it enforces.
- `Timers`: `Lag < Slack` is what `SLACK_TICKS` is for; `Margin < FineLimit \div Unit` is
  10 < 65536/900. `FineLimit = Half` stands for parts with a 32-bit timer.
  `LatenessAssumption`: a deadline that was already missed when it was set, and the
  longest wait for the interrupt, stay together below the 2^31 ticks at which
  `time_diff()` changes its sign. Callers set deadlines a few seconds away at most.
- `SysTime`: the callback ends before it is due again, and the stamp, its lateness and
  three reads together stay below 2^24 ticks.
- `Usbd`, `UsbdAt32`, `DwcOtg`: the host sends no bulk packets during
  `SET_CONFIGURATION`, and a bus reset is met between two calls of `floppy_process()`.
  `DwcOtg`, in the run `usb` and in the theorems (`Rough = {}`): the receive FIFO is empty
  when the bus is reset, `usb_process()` meets USBRST before the reset ends (10ms) and
  ENUMDNE is raised, and the device is configured once after each reset. The code enforces
  none of the three; section 6 says what happens without each.
- `UsbEp0`: the host gives up a transfer only while it has data left to send, and resets
  the bus if it must give up another; what the code does beyond this is in section 6. In the
  theorems (`~Eager`) it sends the next SETUP packet only after the firmware has looked at
  the end of the last transfer; `usb` and `eager` are without this. A transfer that an eager
  host begins while the device is about to change its address too early (`eager`) no longer
  finds the device, and is exempt from `TransferEnds`.
- `FwUpdate`: erasing a page is atomic; the host waits for the response to a command
  before it sends the image; a halfword that is programmed badly reads as neither of the
  images' bytes.
- `Blinky`: the two interrupts have one priority and run to completion; a bad word of the
  SRAM is found when the test comes to it.
- `Floppy`: only a drive without a stop at track 0 can have been left below it
  (`StartPosAssumption`).
- `MCUsb` (`UsbAssumption`, `RequestAssumption`): `None` and the empty packet are no data;
  the receive FIFO holds a ring and two packets more; a request that is answered with data
  is one of the two GET requests, or one the firmware does not know and stalls.
- `IndexPulse`: a track has at least two sectors (with one, the gaps on both sides of the
  index hole look alike), and `index_timer`'s callback runs for less than the period it is
  set for. Half sectors stay below the threshold of 3/4 of a sector and whole ones above
  it, interrupt latency included.

Fairness. `Floppy` (`FairSpec`): time passes; and the main loop keeps coming back to the
watchdog test at the head of `floppy_process()`, which precedes every handler: if the
watchdog stays expired, it fires. Nothing is assumed of the host, of the drive or of the
flux stream. The watchdog conjunct is written out (`[]<>~Expired \/ []<><<Watchdog>>_vars`)
because TLC evaluates ENABLED of that action very slowly. `WriteFlux`: the main loop goes on,
the host sends the stream it started, and a running timer asks for values; the no-index
timeout needs no more, since it is an alternative of the waiting handler. `Timers`: time
passes and the interrupt handler goes on. `MCUsb`: the main loop and the interrupt go on,
firmware that is offered packets again and again reads them, and the host polls; a pipe
that is reset again and again promises nothing. `FwUpdate`: the firmware goes on,
the host sends the image it announced and configures the device when it appears, a user
straps the board when it does not come up, and the host replaces firmware that is not
whole. The last two are strong, since power may fail in between; stops are bounded.

## 4. Proofs

Every invariant of the passing runs is a theorem, for every value of the constants (any
board, drives, delays, units and cylinders the host names; any buffer and ring sizes,
streams, images, packets and requests), under the named assumptions of the modules.
Section 3 says what those assumptions ask beyond giving the constants their types. Four
theorems of `WriteFluxProofs` are about steady streams only; `FluxBeforeDma`, which
`emptyring` refutes, is true of those. The theorems about the drivers assume `Rough = {}`,
those about control transfers `~Eager`: `AddressAfterStatus`, which `eager` refutes, is true
of such a host, as `AddressWaits` shows.

| Theorem | Module | States |
|---|---|---|
| `TypeCorrect` | `FloppyProofs` | `Spec => []TypeOK` |
| `DelaysCovered` | `FloppyProofs` | `Spec => []OpDelayCovers` |
| `MinimumTimes` | `FloppyProofs` | `Spec => []NothingEarly` |
| `GateClosed` | `FloppyProofs` | `Spec => []GateOnlyInFlux` |
| `WritesGuarded` | `FloppyProofs` | `Spec => []TxGuarded` |
| `LinesMatch` | `FloppyProofs` | `Spec => []PinsMatch` |
| `HeadsTracked`, `NoclickSound` | `FloppyProofs` | `Spec => []HeadTracked`, `[]NoclickAtZero` |
| `DisarmedQuiet` | `FloppyProofs` | `Spec => []QuietWhenDisarmed` |
| `TicksConserved`, `ValuesFit` | `WriteFluxProofs` | `Spec => []TimeConserved`, `[]FluxesFit` |
| `DecodesRight` | `WriteFluxProofs` | `Spec => []DecodesTo` |
| `BufferHolds` | `WriteFluxProofs` | `Spec => [](BytesKept /\ Level >= 0)`: `u_buf` never overruns |
| `KeepsOrder`, `WritesWhole` | `WriteFluxProofs` | `Spec => []InOrder`, `[]Whole`, if all streams are `Steady` |
| `OverrunBounded` | `WriteFluxProofs` | `Spec => []StaleBounded`, if all streams are `Steady` |
| `ValueBeforeDma` | `WriteFluxProofs` | `Spec => FluxBeforeDma`, if all streams are `Steady` |
| `FluxTimesTrue`, `IndexTimesTrue` | `ReadStreamProofs` | `ReadSpec => []FluxTrue`, `[]IndexTrue` |
| `ArgumentReads` | `ReadStreamProofs` | every 28-bit argument is read back from its four bytes |
| `FluxReads` | `ReadStreamProofs` | every time from 1 to 65535 is read back from the bytes it is written as |
| `StreamReads` | `ReadStreamProofs` | the two together: a captured flux, encoded, is read as its time |
| `AgeNeverOverflows`, `AgesTrue` | `IndexPulseProofs` | `IndexSpec => []TriggerAgeBounded`, `[]AgeTrue` |
| `IndexFound` | `IndexPulseProofs` | `IndexSpec => []HardIndexTrue` |
| `ListSorted`, `HeadIsCovered` | `TimersProofs` | `Spec => []Sorted`, `[]HeadCovered` |
| `DeadlinesKept` | `TimersProofs` | `Spec` implements `Deadlines`, but for its fairness |
| `SysTimeTypes`, `TimeIsTrue`, `StampsFresh` | `SysTimeProofs` | `TimeSpec => []TypeOK`, `[]TrueTime`, `[]StampFresh` |
| `OutPipeSafe`, `InPipeSafe` | `UsbProofs` | every driver implements `UsbPipe` in both directions, but for its fairness, if `Rough = {}` |
| `RxAssertsHold`, `ReadyTrue` | `UsbProofs` | `Spec => []RxAsserts`, `[]TxReadyTrue`, if `Rough = {}` |
| `DataIsTrue`, `CarriedOutOnce` | `UsbProofs` | `Spec => []DataTrue`, `[]OutOnce`, if `~Eager` |
| `AddressWaits` | `UsbProofs` | `Spec => AddressAfterStatus`, if `~Eager` |
| `FirmwareWholeOrCut` | `FirmwareProofs` | `Spec => []WildOnlyIfCut` |
| `BootloaderWholeOrCut` | `FirmwareProofs` | `Spec => []BootloaderKept` |
| `VerdictsTrue` | `FirmwareProofs` | `Spec => []VerdictTrue` |
| `DarkForGood`, `LitVouches`, `GenuineChipPasses` | `FirmwareProofs` | the same of `Blinky`: `[]OutForGood`, `[]LitMeansGood`, `[]GenuinePasses` |

### Delays (`FloppyProofs`, first part)

`NothingEarly` is not inductive: a write that waits for its index pulse opens the gate
much later than the `op_delay_wait(write)` that made it safe. The inductive invariant
`IInv` adds that op_delay covers the running delays (`OpDelayCovers`), and that in
`write_flux_wait_index` all of them are over. (1) An operation missing from
`op_delay.mask` may go ahead, because each running delay forces its operations into the
mask (`WaitCovers`); (2) `op_delay_async` keeps that true (`AsyncSafe`), and so do time
(`ElapseSafe`) and waiting (`WaitSafe`); (3) with the gate shut, every operator on the
device record preserves it (`SeekSafe`, `NoclickSafe`, `HeadSafe`, `QuiesceSafe`, ...).
The actions follow. `TxGuarded` is about single steps, and needs no strengthening:
`WritesGuarded` follows each handler to the `usb_write()` it makes and to the test of
space before it.

### Lines and heads (`FloppyProofs`)

The cached cylinder is true of all drives at once or of none: a step pulse moves every
drive whose select line is asserted, and any of them answers on TRK0, so heads cannot be
followed without knowing the lines. `Known` has three parts: the lines are what
`unit_nr`, the motor flags and the gate say (`LinesTrue`); what the firmware believes of
a drive is possible (`Plausible`: a normal drive's head is not below 0, only a flippy
one is taken for flippy); and the cached cylinder is the head's (`Tracked`). While a
seek moves the selected head, its own cylinder is not, which leaves `KnownBut`; each of
the outcomes of the step loops brings `Tracked` back, or clears `initialised`.
`QuietWhenDisarmed` needs the states in which a disarmed watchdog may be met
(`QuietStates`). `NoclickAtZero` follows a no-click step from any state in which `Known`
holds.

### Flux

`WriteFluxProofs`: conservation is inductive with the types of the decoder's state
(`Core`); that values fit needs that the period of an oscillating region has passed the
test of its opcode for as long as the decoder is in that region (`PeriodFits`), whatever
calls and packets come in between. For `DecodesTo`, `Due` says what the values written
and those that the current flux or region still owes come to; it equals
`Waves[stream][at]`, the meaning of the opcodes consumed (`Meant`). A turn of a loop of the
decoder leaves `Due` alone (`RegionStep`, `SplitStep`: one period less in the quotient),
and reading an opcode makes one step of `Waves`. That `Waves` is well defined for streams
of any length, and grows along them (`WavesAre`, `WavesGrow`), would be inductions over
the length; they are proved by the least length at which they fail (`LeastNat`), which
needs no induction rule.

That the DMA engine is never ahead of the decoder (`InOrder`) needs to know how full the
ring is. `RingInv` says which slots hold the values still to be taken; `Lag` is how many
fewer they were than the ring can hold when the main loop last moved on. A call of the
decoder falls short of filling the ring for three reasons: it ends at the end of the array,
at one of `Cuts`, or for want of bytes. The last ends the write (`Starved`: less than an
opcode is less than `LowWater`). The first costs one turn, since the next call starts at
slot 0; a cut costs one turn, and in a steady stream the next one comes only when the
decoder has caught up (`Near`: how many values ago the last cut was, against the lag that
it left). So `Lag` is at most `1 + 2 * Speed` between turns (`Close`), where a cut may fall
together with the end of the array, and at most `1 + 3 * Speed` within one (`InTurn`);
the DMA engine takes `Speed` more before the decoder reads its index again, and
`Ring >= 4 * Speed + 2` leaves a value for each. `Polling` follows the loop that drains the
ring: it has not looked yet, or what it saw last is what is left and at most what was taken
since, so that an index that has run past the end shows as more than was left. What an
opcode takes in bytes (`End`) is a recursive function over the stream; that it is well
defined and grows is proved by the least length again (`EndIs`, `EndGrows`).
`BufferHolds` needs none of this, nor a steady stream.

`ReadStreamProofs`: differences of 16-bit times are exact for as long as the cursor is
less than a turn of the counter behind. Between two calls it falls behind by the gap and
the length of the loop at most (`CursorNear`); the fluxes in the ring are in order
(`Ordered`), those that came after the poll are younger than the loop (`NewYoung`), and
so an index pulse that the scan inserts is younger than the fluxes before it
(`IndexYoung`). Then the bytes: a number of 28 bits is four digits of seven bits
(`Digits`, by division three times); each byte holds one digit above its lowest bit
(`ArgumentDigits`), and the decoder puts the digits together again. A flux is then one of
three lengths, by the thresholds 250 and 1525. `StreamReads` joins the two parts for the
width of the real timer: no flux has the time 0, which would have no bytes.

### Index pulses and time

`IndexPulseProofs`: the age stays below the overflow because the deadline of
`index_timer` and the age share a bound (`Young`: `age + due <= 2 * Period`). For
hard-sectored disks, `Placed` follows the disk: as long as a gap is not yet long, the hole
before it is known, the next hole has not been reached unless its interrupt is pending,
and a primed trigger has seen the index hole or the one after it. Bounces are told from
holes by the mask (`Edges`), and detection begins with a gap it cannot take for short
(`Fresh`).

`SysTimeProofs`: that a reading is right says nothing of later ones. The invariant adds
that the true inverted time is the stamp less its age (`Aged`), that this age is bounded by
what the callback's deadline has left (`DueBound`), and how old the stamp may be that a
caller has loaded (`LoadedAge`) and that the callback is about to store (`ReadAge`). From
the bound on the age, at most one wrap of the counter lies between a stamp and a reading,
which is what the code's comparison can tell.

`TimersProofs`: the list is sorted pairwise and has no timer twice (`Chain`), for which
the insertion and removal of `timer.c` are characterised by the least index that the code
stops at (`LeastNat`). A deadline is met because the counter overflows when the head is
due or a little later (`Counting`, with the arithmetic of both prescalers in
`OverflowIs`), and once the interrupt is pending the head grows late by the wait only
(`Overdue`). Together they bound how far in the past a deadline can be, and with
`LatenessAssumption` no `time_diff()` ever wraps, without which the order of the list
would mean nothing. Each step then is one of `Deadlines` or a stutter.

### USB

A driver's invariant says where each packet is. `UsbdInv`: which of the two buffers the
toggles leave to the hardware, to software or to nobody (`Held`), and what a pending CTR
announces (`Announced`). `At32Inv` adds the ring: an interrupt or a kick is for a packet
that waits in the hardware (`RxWaits`), and of the packets software has stuffed one at
most is not there (`TxSlots`). `OtgInv` matches the entries of the receive FIFO with
their data (`Matched`, `Paired`), with the transfer that the endpoint is armed for
(`TransferInv`, and `ControlRx` for endpoint 0, whose one transfer a SETUP packet may
end in place of data), and with how far a bus reset has come (`Phases`); `RxAsserts`
follows from them, and `TxReadyTrue` from what it says of EP_TX (`OneSent`). Under it
each step changes the mapped queues in one of the ways of `Moves`: a packet joins at the
end, the first one leaves, nothing moves, or a reset empties them; these are the steps
of `UsbPipe`.

Endpoint 0: a transfer is in one of a few phases (SETUP waiting, receiving, replying,
replied, acknowledged, refused), each of which relates the host's view to `ep0`, to the
registers and to what was carried out (`Phase`, in `ControlInv`). The handlers are
followed first, as functions on a record (`WriteEp0`, `ReadEp0`, `RxEp0`, `TxEp0`), then the
actions of the host. `~Eager` keeps the phases apart: a host that sends the next SETUP packet
before the firmware has looked at the end of the last transfer breaks `AddressAfterStatus`
(section 6); that `DataTrue` and `OutOnce` hold even then is model-checked only
(`usb`), as is `AddressAsked`. Reset and configuration may come in every phase.

### Firmware (`FirmwareProofs`)

That firmware which is not whole is never started follows from what the flash looks like
at any moment the power may fail (`FwKept`): the firmware is whole, or its first word is
erased, or it is being written. For that the erase must begin with the page of the first
word and may not end before (`ErasedFirst`), the first halfword must be the first one
written (`WrittenFirst`), and an update that ends has either checked the image or goes
on to erase it. The bootloader is never touched but for an image that has been found
good in RAM (`Control`). `VerdictTrue` needs the contents: the buffer holds the bytes of
the image from the cursor on (`Buffered`), the flash below it holds the image or a fault
(`Programmed`), the pages below the erase are erased (`ErasedBelow`), and nothing is
programmed between the check and the host's reading of its result (`Answered`); likewise
for the bootloader, from the whole image in RAM (`Replaced`). The sizes of the areas, of
a page and of packets, the images, the cuts and the faults are arbitrary; assumed is
that the first word lies in one page (`FlashAssumption`) and that a good image, whose
last bytes are its CRC, is not empty (`ImagesAssumption`).

`Blinky`: that the LED stays out is not inductive, because `report(FALSE)` sets the
flag before it touches the pins and the TIM4 interrupt may come between any two of its
three steps. The invariant says which pins may still be lit at each of them, that TIM4's
interrupt is enabled only after all tests but the SRAM's, and that a test that was passed
leaves its part good. These theorems quantify over every chip and need no run; `Blinky`
has no constant that a bound would have to be put on but the set of flash sizes.

### Only model-checked

- `InOrder`, `Whole`, `StaleBounded` and `FluxBeforeDma` of streams that are not `Steady`.
  They are false of some: of that in `emptyring` (section 6), of streams shorter than the
  ring (the last entry of section 6), and of streams of nothing but fluxes beyond the width
  of the timer, each of which ends a turn of the main loop after one value while the model
  lets the DMA engine take `Speed` of them. On the disk such values take longer than others;
  a theorem without `Steady` would need values that take the time they stand for.
- Liveness, which is beyond the prover: `WriteEnds`, `TransferEnds`, `Recovers`,
  `GateCloses`, `SilentHostQuiesces`, and what `OutPacketsArrive`, `InPacketsArrive` and
  `MeetsDeadlines` add to the theorems about the same refinements.

## 5. Plan

Done: all modules of section 2, and the theorems of section 4. To do, in this order:

1. The limits of a read (linger after the last index, no-index timeout).
2. Command framing: `u_buf[1]` as a length, and what is left in the OUT endpoint after
   CLEAR_COMMS.
3. The ring under values that take the time they stand for, instead of `Steady`.

## 6. Where the code and the repository's words disagree

Each is a run TLC finds violated; `PROJECT.json` quotes the line.

- `driveinfo`: GET_INFO for drive n computes n from the wrong variable.
- `emptyring`: a short stream whose end is already in `u_buf` starts DMA even when the
  decoder has stopped at an oscillating region or at a flux beyond the timer's width with
  nothing in the ring. The preload takes a stale slot, the consumer index is then one
  ahead of the producer, and the ring counts as full of stale values. It takes a stream
  that is not `Steady` (`ValueBeforeDma`); that of a track of ordinary fluxes is.

- `noclick`: `CMD_NOCLICK_STEP` steps right after its own seek to cylinder 0, within
  `seek_settle`, "delay after completing a seek operation". `NothingEarly` exempts this step
  and no other.
- `eager`: the address of SET_ADDRESS is applied at the first CTR_TX that finds no transfer
  to do (`hw_usbd.c`, and alike `hw_usbd_at32f4.c`); if the SETUP packet is handled before
  the CTR_TX of the transfer before it, that is the wrong one. The comment there says "We
  have just completed the Status stage of a SET_ADDRESS request". `AddressAsked` is what is
  left: no address but one asked for since the last reset.
- `blocked`: `hw_dwc_otg.c` handles ENUMDNE before USBRST when it finds both at once, as it
  does when the main loop was busy for longer than the bus reset lasted. Endpoint 0 is left
  unconfigured, and the next SETUP packet fails an assertion.

Noticed on the way, without a run:

- A second SET_CONFIGURATION without a bus reset makes `hw_dwc_otg.c` say that EP_TX is
  ready over a packet that the host has not taken (line 269): with `Rough = {"again"}`
  `TxReadyTrue` fails, and with it `InPacketsArrive`.
- `hw_dwc_otg.c` never flushes the receive FIFO after its initialisation. An entry that
  stays there over a bus reset fails the assertion at line 362 (`Rough = {"backlog"}`),
  unless the core drops it by itself, of which the source says nothing.
- `floppy_erase()` writes its status without testing `ep_tx_ready()`, which `usb.h:44`
  requires, as does test mode (`TxGuarded` excepts the two).
- A transfer that the host gives up with a packet waiting in endpoint 0 leaves `tx_ready`
  FALSE while the SETUP packet has set the endpoint to NAK: endpoint 0 does not answer
  again until a bus reset. A reply that was being prepared for the old request when the
  SETUP packet arrives is sent to the new one.
- `hw_usbd.c` allocates packet memory anew at each SET_CONFIGURATION and gives it back
  only at a reset.
- SET_LINE_CODING with BAUD_CLEAR_COMMS does nothing when that already is the baud rate.
- An update that is cut leaves partial firmware, which the bootloader starts at the next
  power-on if the first word is there; the strap brings the board back (`Recovers`).
- `CMD_SWITCH_FW_MODE` restarts the firmware without quiescing the drives: a head below
  cylinder 0 stays there until its drive is used again (`QuietWhenDisarmed` is about heads
  that this run of the firmware has found).
- GET_INFO reads the motor flag of the selected Shugart unit, which `drive_motor` keeps in
  unit 0 only.
- `CMD_RESET` does not restore the head-select line.
- `index.trigger_time` starts as 0 while the clock starts up to 2^24 ticks before its
  wrap, so index pulses in the first second or two after start-up are masked.
- The first poll of the write drain loop can miss the end of a stream that is shorter than
  one turn of the main loop; the whole ring of stale values is then written.

## 7. Not modelled

Hardware set-up (`init.c`, `cortex.c`, GPIO and clock code), the board self-tests of test
mode, the console, the libc subset and the vector table hold no state the properties
depend on. A CRC is abstracted to whether an area of flash holds a good image, and the
contents of descriptors to their lengths. The transmit side of endpoint 0 in
`hw_dwc_otg.c` and the endpoint 0 of `hw_usbd_at32f4.c` (the code of `hw_usbd.c` again)
have no model of their own. Header files of registers describe hardware and hold no
behaviour. What is left is in section 5.
