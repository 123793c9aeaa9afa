----------------------------- MODULE ReadStream -----------------------------
(***************************************************************************)
(* The sample stream of a read: rdata_encode_flux() turns capture times in *)
(* the DMA ring, and the capture time of an index pulse, into differences  *)
(* that the host adds up to its sample cursor.  The timer is 16 bits wide, *)
(* and it, the DMA engine and the index interrupt run on meanwhile.        *)
(*                                                                         *)
(* Times are kept as their distance from now.  rdata_encode_flux() takes a *)
(* step with interrupts off (Poll), one per flux (Scan) and one that reads *)
(* the counter (LongGap).                                                  *)
(***************************************************************************)
EXTENDS Integers, SequencesExt

CONSTANTS
  Width,    \* 2^16, the period of the timer
  Gap,      \* ticks of a long gap sample, 200us
  MinFlux,  \* ticks between two fluxes, at least
  MaxLoop,  \* ticks from one reading of the counter to the next, at most
  Ring      \* entries of dma.buf

ASSUME StreamAssumption ==
  /\ {Width, Gap, MinFlux, MaxLoop, Ring} \subseteq Nat \ {0}
  /\ 3 * Gap < Width
  /\ MaxLoop <= Gap
  \* At most this many fluxes arrive between two calls.
  /\ (2 * MaxLoop) \div MinFlux + 1 < Ring

VARIABLES
  ring,     \* captured and not yet read: ages of the fluxes, oldest first
  prev,     \* age of dma.prev_sample, modulo Width
  cursor,   \* ghost: age of the host's sample cursor
  idx,      \* age of index.rdata_cnt
  news,     \* read.nr_index # index.count
  encoder,  \* "loop", or in rdata_encode_flux(): "scan"
  todo,     \* entries from cons to prod
  unread    \* ticks since the counter was last read

readVars == <<ring, prev, cursor, idx, news, encoder, todo, unread>>

ReadInit == /\ ring = <<>> /\ prev = 0 /\ cursor = 0
            /\ idx = 0 /\ news = FALSE
            /\ encoder = "loop" /\ todo = 0 /\ unread = 0

\* timcnt_t arithmetic: ticks from prev to a capture of this age.
Ticks(age) == (prev - age) % Width

-----------------------------------------------------------------------------
(* The DMA engine, the index interrupt and time.                           *)

LastFlux == IF ring = <<>> THEN cursor ELSE Last(ring)

Capture ==
  /\ LastFlux >= MinFlux
  /\ ring' = Append(ring, 0)
  /\ UNCHANGED <<prev, cursor, idx, news, encoder, todo, unread>>

IRQ_INDEX_rdata ==
  /\ idx' = 0 /\ news' = TRUE
  /\ UNCHANGED <<ring, prev, cursor, encoder, todo, unread>>

Count ==
  /\ unread < MaxLoop
  /\ unread' = unread + 1
  /\ ring' = [i \in DOMAIN ring |-> ring[i] + 1]
  /\ prev' = (prev + 1) % Width /\ cursor' = cursor + 1
  /\ idx' = IF news THEN idx + 1 ELSE 0
  /\ UNCHANGED <<news, encoder, todo>>

-----------------------------------------------------------------------------
(* rdata_encode_flux().                                                    *)

\* The opcode for an index pulse leaves the cursor where it is.
Poll ==
  /\ encoder = "loop"
  /\ encoder' = "scan" /\ todo' = Len(ring)
  /\ news' = FALSE /\ idx' = 0
  /\ UNCHANGED <<ring, prev, cursor, unread>>

Scan ==
  /\ encoder = "scan" /\ todo > 0
  /\ ring' = Tail(ring) /\ todo' = todo - 1
  /\ prev' = Head(ring) % Width
  /\ cursor' = cursor - Ticks(Head(ring))
  /\ UNCHANGED <<idx, news, encoder, unread>>

\* Mutant: the gap is taken as soon as it fits.
LongGapAtOnce ==
  /\ encoder = "scan" /\ todo = 0
  /\ IF prev > Gap THEN prev' = prev - Gap /\ cursor' = cursor - Gap
                   ELSE UNCHANGED <<prev, cursor>>
  /\ encoder' = "loop" /\ unread' = 0
  /\ UNCHANGED <<ring, idx, news, todo>>

LongGap ==
  /\ encoder = "scan" /\ todo = 0
  /\ IF prev > 2 * Gap THEN prev' = prev - Gap /\ cursor' = cursor - Gap
                       ELSE UNCHANGED <<prev, cursor>>
  /\ encoder' = "loop" /\ unread' = 0
  /\ UNCHANGED <<ring, idx, news, todo>>

ReadNext == Capture \/ IRQ_INDEX_rdata \/ Count \/ Poll \/ Scan \/ LongGap

ReadSpec == ReadInit /\ [][ReadNext]_readVars

-----------------------------------------------------------------------------
(* Properties.                                                             *)

\* Every flux reaches the host with its true time: the difference that is sent
\* moves the cursor exactly there, however long the disk was without flux, and
\* "we cannot race the next flux timestamp".
FluxTrue == todo > 0 => cursor - Ticks(Head(ring)) = Head(ring)

\* So does every index pulse, relative to the cursor: it is never older than
\* the last flux or gap that was sent, and never a turn of the counter younger.
IndexTrue == encoder = "loop" /\ news => cursor - Ticks(idx) = idx
=============================================================================
