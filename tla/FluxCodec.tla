------------------------------ MODULE FluxCodec ------------------------------
(***************************************************************************)
(* The opcodes of a flux stream as bytes: what rdata_encode_flux() of      *)
(* floppy.c puts in u_buf for a time, and what _wdata_decode_flux() makes  *)
(* of the bytes at u_cons.  A byte is a number below 256; 1 | y and        *)
(* y & 0xfe set and clear its lowest bit.                                  *)
(***************************************************************************)
EXTENDS Integers, Sequences

Byte == 0..255
Low(y) == y % 256
SetBit0(y) == 2 * (y \div 2) + 1
ClearBit0(y) == 2 * (y \div 2)

FLUXOP_INDEX == 1
FLUXOP_SPACE == 2
FLUXOP_ASTABLE == 3

_write_28bit(x) ==
  <<Low(SetBit0(2 * x)), Low(SetBit0(x \div 64)),
    Low(SetBit0(x \div (64 * 128))), Low(SetBit0(x \div (64 * 128 * 128)))>>

\* The four parts have no bit in common: their or is their sum.
_read_28bit(a, b, c, d) ==
  a \div 2 + ClearBit0(b) * 64 + ClearBit0(c) * (64 * 128)
  + ClearBit0(d) * (64 * 128 * 128)

-----------------------------------------------------------------------------
(* rdata_encode_flux().                                                    *)

LongOpcode(op, ticks) ==
  LET x == _write_28bit(ticks) IN <<255, op, x[1], x[2], x[3], x[4]>>

Index(ticks) == LongOpcode(FLUXOP_INDEX, ticks)
Space(ticks) == LongOpcode(FLUXOP_SPACE, ticks)

High(ticks) == (ticks - 250) \div 255
OneByte(ticks) == <<ticks>>
TwoBytes(ticks) == <<250 + High(ticks), 1 + ((ticks - 250) % 255)>>
SevenBytes(ticks) == Space(ticks - 249) \o <<249>>

\* The bytes of a flux a 16-bit time after the last one.
Flux(ticks) ==
  IF ticks = 0 THEN <<>>
  ELSE IF ticks < 250 THEN OneByte(ticks)
  ELSE IF High(ticks) < 5 THEN TwoBytes(ticks)
  ELSE SevenBytes(ticks)

-----------------------------------------------------------------------------
(* _wdata_decode_flux(): the opcode at the head of the bytes b.            *)

OpcodeLength(b) == CASE b[1] < 250 -> 1 [] b[1] \in 250..254 -> 2 [] OTHER -> 6

\* Fewer bytes than the opcode needs are left for the next call.
Waits(b) == Len(b) < OpcodeLength(b)

FluxTicks(b) == IF b[1] < 250 THEN b[1] ELSE 250 + (b[1] - 250) * 255 + (b[2] - 1)
Argument(b) == _read_28bit(b[3], b[4], b[5], b[6])

IsEnd(b) == b[1] = 0
IsFlux(b) == b[1] \in 1..254
IsSpace(b) == b[1] = 255 /\ b[2] = FLUXOP_SPACE
=============================================================================
