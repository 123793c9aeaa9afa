----------------------------- MODULE WriteFlux -----------------------------
(***************************************************************************)
(* The write path of floppy.c: packets into u_buf, the decoder from u_buf  *)
(* into the DMA ring, and the DMA engine that loads the WDATA timer.       *)
(*                                                                         *)
(* A stream is a sequence of opcodes; u_prod and u_cons count its bytes,   *)
(* so that a packet may end inside an opcode.  The DMA engine runs beside  *)
(* the main loop: _wdata_decode_flux() takes a step per turn of its loops. *)
(* made and taken are ghosts: the values decoded, and how many of them the *)
(* DMA engine took.  A slot of the ring holds the number of its value in   *)
(* made, 0 when what it holds is from an earlier operation.                *)
(***************************************************************************)
EXTENDS Integers, SequencesExt

CONSTANTS
  Streams,    \* the write streams of the host, sequences of opcodes
  OneByte,    \* fluxes shorter than this take one byte (250)
  OpLen,      \* bytes of a space or astable opcode (6)
  MinPulse,   \* MIN_PULSE
  Width,      \* 2^16, one more than the largest timcnt_t
  Ring,       \* entries of dma.buf
  UBufSz,     \* U_BUF_SZ
  Threshold,  \* u_buf_threshold
  LowWater,   \* bytes below which a stream without end is an underflow (16)
  Mps,        \* bytes in a packet, at most
  Speed       \* values the DMA engine takes per turn of the main loop, at most

Opcode == {"flux", "space", "astable", "end"} \X Nat
Op(i) == i[1]
N(i) == i[2]

Bytes(i) == CASE Op(i) = "end" -> 1
              [] Op(i) = "flux" -> IF N(i) < OneByte THEN 1 ELSE 2
              [] OTHER -> OpLen

ASSUME WriteAssumption ==
  /\ {OneByte, OpLen, MinPulse, Width, Ring, UBufSz, Threshold, LowWater, Mps, Speed}
       \subseteq Nat \ {0}
  /\ MinPulse < Width /\ Ring > 1 /\ Threshold <= UBufSz - Mps + 1
  \* A stream that stops within an opcode is noticed.
  /\ 2 <= OpLen /\ OpLen <= LowWater
  \* The ring outlasts a turn for the index, one that ends at a long flux or an
  \* oscillating region, one that ends at the end of the ring, and a fourth.
  /\ Ring >= 4 * Speed + 2
ASSUME StreamAssumption ==
  \A s \in Streams : /\ s \in Seq(Opcode) /\ Len(s) > 0
                     /\ \A i \in 1..Len(s) : Op(s[i]) = "end" <=> i = Len(s)

VARIABLES
  state,       \* floppy_state without its prefix
  status,      \* flux_op.status
  pc,          \* in floppy_process(): "top", "decode", "after" or "poll"
  todo,        \* of the decoder, or of the drain loop
  stream,      \* what the host sends
  sent,        \* ghost: bytes of it the host has sent
  rx,          \* bytes in the OUT endpoint, 0: empty
  usb_packet,  \* bytes in usb_packet, 0: none
  u_prod,
  at,          \* opcodes consumed: u_cons is End[at]
  write,       \* [flux_mode, ticks, astable_period, is_finished, cue, terminate]
               \* (ticks is a number here, a uint32_t in the code)
  dma,         \* [prod, cons, buf]
  timer,       \* "off", "armed" (the first value is loaded) or "running"
  pace,        \* values taken since the main loop last moved on
  index,       \* index.count # 0
  made,        \* ghost: the values decoded while writing
  taken,       \* ghost: how many of them the DMA engine took
  torn,        \* ghost: it took a slot that did not hold its next value
  stale,       \* ghost: slots it took after the last value of the stream
  heard,       \* ghost: ticks of all opcodes consumed
  told         \* ghost: ticks of all values decoded

host == <<stream, sent, rx>>
input == <<usb_packet, u_prod>>
out == <<dma, made, told>>
play == <<timer, pace, taken, torn, stale>>
vars == <<state, status, pc, todo, host, input, at, write, out, play, index, heard>>

End == [s \in Streams |->
         LET e[i \in 0..Len(s)] == IF i = 0 THEN 0 ELSE e[i - 1] + Bytes(s[i]) IN e]
u_cons == End[stream][at]
Level == u_prod - u_cons
EOStream == Level > 0 /\ u_prod = End[stream][Len(stream)]

Idle == [flux_mode |-> "idle", ticks |-> 0, astable_period |-> 0,
         is_finished |-> FALSE, cue |-> FALSE, terminate |-> FALSE]
Empty == [prod |-> 0, cons |-> 0, buf |-> [i \in 0..(Ring - 1) |-> 0]]

Init ==
  /\ state = "command_wait" /\ status = "okay" /\ pc = "top" /\ todo = 0
  /\ stream \in Streams /\ sent = 0 /\ rx = 0 /\ usb_packet = 0 /\ u_prod = 0 /\ at = 0
  /\ write = Idle /\ dma = Empty /\ timer = "off" /\ pace = 0 /\ index = FALSE
  /\ made = <<>> /\ taken = 0 /\ torn = FALSE /\ stale = 0 /\ heard = 0 /\ told = 0

-----------------------------------------------------------------------------
(* The environment.                                                        *)

Send ==
  /\ state # "command_wait" /\ rx = 0
  /\ \E n \in 1..Mps : /\ sent + n <= End[stream][Len(stream)]
                       /\ rx' = n /\ sent' = sent + n
  /\ UNCHANGED <<state, status, pc, todo, stream, input, at, write, out, play, index, heard>>

IRQ_INDEX_changed ==
  /\ state # "command_wait" /\ (write.cue \/ write.terminate)
  /\ index' = TRUE
  /\ UNCHANGED <<state, status, pc, todo, host, input, at, write, out, play, heard>>

\* The DMA engine loads the slot at cons; after the last value it goes on.
TakeSlot ==
  /\ dma' = [dma EXCEPT !.cons = (@ + 1) % Ring]
  /\ IF write.is_finished /\ taken = Len(made)
     THEN stale' = stale + 1 /\ UNCHANGED <<taken, torn>>
     ELSE /\ taken' = taken + 1 /\ UNCHANGED stale
          /\ torn' = (torn \/ dma.buf[dma.cons] # taken + 1)

Take ==
  /\ timer = "running" /\ pace < Speed
  /\ TakeSlot /\ pace' = pace + 1
  /\ UNCHANGED <<state, status, pc, todo, host, input, at, write, timer, index, made, told, heard>>

-----------------------------------------------------------------------------
(* The decoder.                                                            *)

\* Write value v, unless the stream is being drained; m once there is room left.
Emit(v, ticks, m) ==
  /\ write' = [write EXCEPT !.ticks = ticks, !.flux_mode = IF todo = 1 THEN @ ELSE m]
  /\ todo' = todo - 1 /\ pc' = IF todo = 1 THEN "after" ELSE "decode"
  /\ told' = told + v
  /\ IF state = "write_flux_drain" THEN UNCHANGED <<dma, made>>
     ELSE /\ made' = Append(made, v)
          /\ dma' = [dma EXCEPT !.buf[dma.prod] = Len(made) + 1, !.prod = (@ + 1) % Ring]

\* Mutant: the rest of an oscillating region is dropped.
AstableDropsRest ==
  /\ pc = "decode" /\ write.flux_mode = "astable"
  /\ IF write.ticks >= write.astable_period
     THEN Emit(write.astable_period, write.ticks - write.astable_period, "astable")
     ELSE /\ write' = [write EXCEPT !.flux_mode = "idle", !.ticks = 0]
          /\ UNCHANGED <<todo, pc, out>>
  /\ UNCHANGED <<state, status, host, input, at, play, index, heard>>

Astable ==
  /\ pc = "decode" /\ write.flux_mode = "astable"
  /\ IF write.ticks >= write.astable_period
     THEN Emit(write.astable_period, write.ticks - write.astable_period, "astable")
     ELSE /\ write' = [write EXCEPT !.flux_mode = "idle"]
          /\ UNCHANGED <<todo, pc, out>>
  /\ UNCHANGED <<state, status, host, input, at, play, index, heard>>

\* Mutant: what remains after the split is written however short it is.
OneshotNoMerge ==
  /\ pc = "decode" /\ write.flux_mode = "oneshot"
  /\ IF write.ticks >= Width THEN Emit(Width, write.ticks - Width, "oneshot")
     ELSE Emit(write.ticks, 0, "idle")
  /\ UNCHANGED <<state, status, host, input, at, play, index, heard>>

Oneshot ==
  /\ pc = "decode" /\ write.flux_mode = "oneshot"
  /\ IF write.ticks >= Width THEN Emit(Width, write.ticks - Width, "oneshot")
     ELSE IF write.ticks > MinPulse THEN Emit(write.ticks, 0, "idle")
     ELSE /\ write' = [write EXCEPT !.flux_mode = "idle"]
          /\ UNCHANGED <<todo, pc, out>>
  /\ UNCHANGED <<state, status, host, input, at, play, index, heard>>

FluxEnd == timer' = "off" /\ UNCHANGED <<pace, taken, torn, stale>>

\* Mutant: a flux that is too short is dropped with its time.
ShortFluxDropped(n) ==
  LET ticks == write.ticks + n IN
  IF ticks >= Width
  THEN /\ write' = [write EXCEPT !.ticks = ticks, !.flux_mode = "oneshot"]
       /\ pc' = "after" /\ UNCHANGED <<todo, out>>
  ELSE IF ticks < MinPulse THEN UNCHANGED <<write, pc, todo, out>>
  ELSE Emit(ticks, 0, "idle")

DecodeFlux(n) ==
  LET ticks == write.ticks + n IN
  IF ticks >= Width
  THEN /\ write' = [write EXCEPT !.ticks = ticks, !.flux_mode = "oneshot"]
       /\ pc' = "after" /\ UNCHANGED <<todo, out>>
  ELSE IF ticks < MinPulse
  THEN write' = [write EXCEPT !.ticks = ticks] /\ UNCHANGED <<pc, todo, out>>
  ELSE Emit(ticks, 0, "idle")

DecodeSpace(n) ==
  write' = [write EXCEPT !.ticks = @ + n] /\ UNCHANGED <<pc, todo, out>>

BadPeriod(n) == n < MinPulse \/ n >= Width

DecodeAstable(n) ==
  /\ ~BadPeriod(n)
  /\ write' = [write EXCEPT !.astable_period = n, !.flux_mode = "astable"]
  /\ pc' = "after" /\ UNCHANGED <<todo, out>>

\* All bytes of the next opcode are there.
Complete == at < Len(stream) /\ u_prod >= End[stream][at + 1]

Decode ==
  /\ pc = "decode" /\ write.flux_mode = "idle" /\ Complete
  /\ at' = at + 1
  /\ LET i == stream[at + 1] IN
     /\ heard' = heard + (IF Op(i) \in {"flux", "space"} THEN N(i) ELSE 0)
     /\ \/ Op(i) = "flux" /\ DecodeFlux(N(i)) /\ UNCHANGED <<state, status, play>>
        \/ Op(i) = "space" /\ DecodeSpace(N(i)) /\ UNCHANGED <<state, status, play>>
        \/ Op(i) = "astable" /\ DecodeAstable(N(i)) /\ UNCHANGED <<state, status, play>>
        \/ /\ Op(i) = "astable" /\ BadPeriod(N(i))
           /\ status' = "bad_command" /\ state' = "write_flux_drain" /\ FluxEnd
           /\ pc' = "after" /\ UNCHANGED <<write, todo, out>>
        \/ /\ Op(i) = "end"
           /\ write' = [write EXCEPT !.is_finished = TRUE]
           /\ pc' = "after" /\ UNCHANGED <<state, status, play, todo, out>>
  /\ UNCHANGED <<host, input, index>>

DecodeOut ==
  /\ pc = "decode" /\ write.flux_mode = "idle" /\ ~Complete
  /\ pc' = "after"
  /\ UNCHANGED <<state, status, todo, host, input, at, write, out, play, index, heard>>

-----------------------------------------------------------------------------
(* The handlers.                                                           *)

floppy_write_prep(s, cue, terminate) ==
  /\ state = "command_wait"
  /\ state' = "write_flux_wait_data" /\ status' = "okay" /\ pc' = "top" /\ todo' = 0
  /\ stream' = s /\ sent' = 0 /\ rx' = 0 /\ usb_packet' = 0 /\ u_prod' = 0 /\ at' = 0
  /\ write' = [Idle EXCEPT !.cue = cue, !.terminate = terminate]
  /\ dma' = Empty /\ timer' = "off" /\ pace' = 0
  /\ made' = <<>> /\ taken' = 0 /\ torn' = FALSE /\ stale' = 0 /\ heard' = 0 /\ told' = 0
  /\ UNCHANGED index

floppy_process_write_packet ==
  LET n == IF usb_packet = 0 THEN rx ELSE usb_packet
      fits == UBufSz - Level >= n IN
  /\ rx' = IF usb_packet = 0 THEN 0 ELSE rx
  /\ usb_packet' = IF fits THEN 0 ELSE n
  /\ u_prod' = IF fits THEN u_prod + n ELSE u_prod

\* Mutant: the ring is filled up to the consumer.
RoomFull == Min({Ring - dma.prod, ((dma.cons - dma.prod + Ring - 1) % Ring) + 1})

\* The contiguous stretch of the ring that may be filled.
Room == Min({Ring - dma.prod, (dma.cons - dma.prod + Ring - 1) % Ring})

\* A turn of the main loop in a state that decodes, up to the decoder.
Turn ==
  /\ pc = "top"
  /\ \/ state \in {"write_flux_wait_data", "write_flux"} /\ todo' = Room
     \/ state = "write_flux_drain" /\ ~write.is_finished /\ todo' = Ring
  /\ floppy_process_write_packet
  /\ pc' = IF todo' = 0 THEN "after" ELSE "decode"
  /\ pace' = 0
  /\ UNCHANGED <<state, status, stream, sent, at, write, out, timer, taken, torn, stale, index, heard>>

WriteFinished == IF Level = 0 THEN write.is_finished ELSE EOStream

\* Mutant: a threshold that whole packets need not reach.
ReadyFull == WriteFinished \/ (dma.prod = Ring - 1 /\ Level >= UBufSz)

Ready == WriteFinished \/ (dma.prod = Ring - 1 /\ Level >= Threshold)

floppy_write_wait_data ==
  /\ pc = "after" /\ state = "write_flux_wait_data"
  /\ pc' = "top"
  /\ IF Ready THEN /\ state' = "write_flux_wait_index" /\ timer' = "armed" /\ pace' = 0
                   /\ TakeSlot /\ index' = FALSE
              ELSE UNCHANGED <<state, play, dma, index>>
  /\ UNCHANGED <<status, todo, host, input, at, write, made, told, heard>>

\* Without an index pulse the wait ends after two seconds.
floppy_write_wait_index ==
  /\ pc = "top" /\ state = "write_flux_wait_index"
  /\ pace' = 0
  /\ IF write.cue /\ ~index
     THEN /\ state' = "write_flux_drain" /\ status' = "no_index" /\ timer' = "off"
          /\ UNCHANGED index
     ELSE /\ state' = "write_flux" /\ timer' = "running" /\ index' = FALSE
          /\ UNCHANGED status
  /\ UNCHANGED <<pc, todo, host, input, at, write, out, taken, torn, stale, heard>>

Underflow == Level = 0 \/ (Level < LowWater /\ ~EOStream)

Drain == state' = "write_flux_drain" /\ pc' = "top" /\ FluxEnd

\* Mutant: the write ends when the end of the stream is decoded.
WriteNoDrain ==
  /\ pc = "after" /\ state = "write_flux"
  /\ IF write.is_finished \/ (write.terminate /\ index) THEN Drain /\ UNCHANGED status
     ELSE IF Underflow THEN Drain /\ status' = "underflow"
     ELSE pc' = "top" /\ UNCHANGED <<state, status, play>>
  /\ UNCHANGED <<todo, host, input, at, write, out, index, heard>>

floppy_write ==
  /\ pc = "after" /\ state = "write_flux"
  /\ \/ write.terminate /\ index /\ Drain /\ UNCHANGED <<status, todo>>
     \/ /\ ~(write.terminate /\ index) /\ ~write.is_finished
        /\ IF Underflow THEN Drain /\ status' = "underflow"
           ELSE pc' = "top" /\ UNCHANGED <<state, status, play>>
        /\ UNCHANGED todo
     \/ /\ ~(write.terminate /\ index) /\ write.is_finished
        /\ pc' = "poll" /\ todo' = Ring /\ UNCHANGED <<state, status, play>>
  /\ UNCHANGED <<host, input, at, write, out, index, heard>>

\* Mutant: the loop ends only when the ring is seen empty.
PollForEmpty ==
  /\ pc = "poll"
  /\ LET left == (dma.prod - dma.cons + Ring) % Ring IN
     IF (write.terminate /\ index) \/ left = 0
     THEN Drain /\ UNCHANGED todo
     ELSE todo' = left /\ pace' = 0 /\ UNCHANGED <<pc, state, timer, taken, torn, stale>>
  /\ UNCHANGED <<status, host, input, at, write, out, index, heard>>

\* A turn of the loop that waits for the DMA ring to drain.
Poll ==
  /\ pc = "poll"
  /\ LET left == (dma.prod - dma.cons + Ring) % Ring IN
     IF (write.terminate /\ index) \/ left = 0 \/ left > todo
     THEN Drain /\ UNCHANGED todo
     ELSE todo' = left /\ pace' = 0 /\ UNCHANGED <<pc, state, timer, taken, torn, stale>>
  /\ UNCHANGED <<status, host, input, at, write, out, index, heard>>

\* The decoder has run in the drain state, or just put the write there.
DrainNext ==
  /\ pc = "after" /\ state = "write_flux_drain"
  /\ pc' = "top"
  /\ UNCHANGED <<state, status, todo, host, input, at, write, out, play, index, heard>>

floppy_write_drain ==
  /\ pc = "top" /\ state = "write_flux_drain" /\ write.is_finished
  /\ state' = "command_wait"
  /\ UNCHANGED <<status, pc, todo, host, input, at, write, out, play, index, heard>>

MainLoop ==
  \/ Turn \/ Astable \/ Oneshot \/ Decode \/ DecodeOut
  \/ floppy_write_wait_data \/ floppy_write_wait_index
  \/ floppy_write \/ Poll \/ DrainNext \/ floppy_write_drain

Next ==
  \/ \E s \in Streams, cue, terminate \in BOOLEAN : floppy_write_prep(s, cue, terminate)
  \/ MainLoop \/ Send \/ IRQ_INDEX_changed \/ Take

Spec == Init /\ [][Next]_vars

\* The main loop runs, the host sends what it started, the disk is written.
FairSpec == Spec /\ WF_vars(MainLoop) /\ WF_vars(Send) /\ WF_vars(Take)
-----------------------------------------------------------------------------
(* What a stream means, opcode by opcode.                                   *)

Copies(v, n) == [i \in 1..n |-> v]

\* What a region of period p, and a flux beyond the timer's width, come to.
Region(vals, t, p) == [vals |-> vals \o Copies(p, t \div p), ticks |-> t % p]

Split(vals, t) ==
  LET full == vals \o Copies(Width, t \div Width)
      rest == t % Width
  IN IF rest > MinPulse THEN [vals |-> Append(full, rest), ticks |-> 0]
                        ELSE [vals |-> full, ticks |-> rest]

Wave(a, i) ==
  LET t == a.ticks + N(i)
  IN CASE Op(i) = "end" \/ (Op(i) = "astable" /\ BadPeriod(N(i))) -> a
       [] Op(i) = "space" -> [a EXCEPT !.ticks = t]
       [] Op(i) = "astable" /\ ~BadPeriod(N(i)) -> Region(a.vals, a.ticks, N(i))
       [] Op(i) = "flux" /\ t < MinPulse -> [a EXCEPT !.ticks = t]
       [] Op(i) = "flux" /\ t \in MinPulse..(Width - 1) ->
            [vals |-> Append(a.vals, t), ticks |-> 0]
       [] Op(i) = "flux" /\ t >= Width -> Split(a.vals, t)

\* Waves[s][i]: the values of the first i opcodes, and the ticks left over.
Waves == [s \in Streams |->
           LET w[i \in 0..Len(s)] == IF i = 0 THEN [vals |-> <<>>, ticks |-> 0]
                                               ELSE Wave(w[i - 1], s[i])
           IN w]
Wanted == [s \in Streams |-> Waves[s][Len(s)].vals]

\* The opcodes at which a call of the decoder ends, however much room is left.
Cuts(s) == {i \in 1..Len(s) :
              \/ Op(s[i]) = "astable" /\ ~BadPeriod(N(s[i]))
              \/ Op(s[i]) = "flux" /\ Waves[s][i - 1].ticks + N(s[i]) >= Width}

\* Streams that keep ahead of the DMA engine: between two such opcodes there are
\* enough values to make up for the calls cut short, and by the time that all the
\* rest is in u_buf the ring could be filled.
Steady(s) ==
  /\ \A i, j \in Cuts(s) :
       i < j => Len(Waves[s][j - 1].vals) - Len(Waves[s][i - 1].vals) >= 2 * Speed
  /\ \A i \in Cuts(s) \cup {Len(s)} :
       End[s][Len(s)] - End[s][i] <= UBufSz => Len(Waves[s][i - 1].vals) >= Ring - 1 - Speed

-----------------------------------------------------------------------------
(* Properties.                                                              *)

Before == {"write_flux_wait_data", "write_flux_wait_index"}

\* No time is lost or invented, whatever is merged, split or carried from one
\* call of the decoder to the next: ticks read = ticks written + ticks carried.
TimeConserved == heard = told + write.ticks

\* No two pulses come closer than MIN_PULSE, and no value overflows the timer,
\* whatever is left over from earlier fluxes and regions.
FluxesFit == \A i \in 1..Len(made) : made[i] \in MinPulse..Width

\* The values written do not depend on how packets and calls of the decoder cut
\* the stream, and are all there when its end has been read.
DecodesTo ==
  /\ IsPrefix(made, Wanted[stream])
  /\ state \in Before \cup {"write_flux"} /\ write.is_finished => made = Wanted[stream]

\* The DMA engine takes every value once, in order, and never a slot that the
\* decoder has yet to fill or has filled too early; and no packet overwrites
\* bytes of u_buf that the decoder has yet to read.
InOrder == ~torn /\ Level <= UBufSz

\* A write that ends well has written its whole stream.
Whole ==
  state = "write_flux_drain" /\ status = "okay" /\ ~write.terminate =>
    made = Wanted[stream] /\ taken = Len(made)

\* The drain loop notices that the DMA engine has run past the end of the stream.
StaleBounded == stale <= Speed

\* Every write that starts ends: no threshold is out of reach of whole packets.
WriteEnds == state = "write_flux_wait_data" ~> state = "command_wait"

\* "Enable DMA only after flux values are generated."
FluxBeforeDma ==
  [][timer = "off" /\ timer' = "armed" /\ Wanted[stream] # <<>> => made # <<>>]_vars
=============================================================================
