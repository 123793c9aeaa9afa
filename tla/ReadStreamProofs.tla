-------------------------- MODULE ReadStreamProofs --------------------------
(***************************************************************************)
(* The read path, from the capture times in the DMA ring to the bytes the  *)
(* host receives: for every width of the timer, every gap and every length *)
(* of the loop that StreamAssumption allows, each flux and each index      *)
(* pulse reaches the host with its true time (ReadStream), and the bytes   *)
(* that stand for a time are read as that time (FluxCodec).                *)
(***************************************************************************)
EXTENDS ReadStream, FluxCodec, TLAPS

-----------------------------------------------------------------------------
(* The inductive invariant.                                                *)

\* From the cursor on, each flux is younger than the one before.
Ordered == /\ \A i \in 1..Len(ring) : ring[i] < cursor
           /\ \A i, j \in 1..Len(ring) : i < j => ring[j] < ring[i]

\* The host's cursor is never so far behind that the counter could wrap.
CursorNear == prev = cursor /\ cursor <= 2 * Gap + unread

\* What came after the poll is younger than the loop.
NewYoung == encoder = "scan" => \A i \in 1..Len(ring) : i > todo => ring[i] <= unread

\* An index pulse is no older than the cursor will be when it is polled.
IndexYoung ==
  news => /\ idx <= cursor
          /\ encoder = "scan" => /\ idx <= unread
                            /\ \A i \in 1..Len(ring) : i <= todo => idx <= ring[i]

Types ==
  /\ ring \in Seq(Nat) /\ cursor \in Nat /\ idx \in Nat
  /\ encoder \in {"loop", "scan"} /\ todo \in 0..Len(ring) /\ unread \in 0..MaxLoop
  /\ encoder = "loop" => todo = 0

IInv == Types /\ Ordered /\ CursorNear /\ NewYoung /\ IndexYoung

\* A difference of times less than a turn of the counter apart is exact.
LEMMA ModSmall ==
  ASSUME NEW x \in Nat, x < Width
  PROVE  x % Width = x
BY StreamAssumption

\* The counter's difference to a capture less than a turn back is its time.
LEMMA TicksExact ==
  ASSUME NEW age \in Nat, prev \in Nat, age <= prev, prev < Width
  PROVE  Ticks(age) = prev - age
BY StreamAssumption DEF Ticks

\* The sizes, one by one.
LEMMA Sizes == /\ Width \in Nat /\ Gap \in Nat /\ MaxLoop \in Nat /\ MinFlux > 0
               /\ 3 * Gap < Width /\ MaxLoop <= Gap
BY StreamAssumption

\* The invariant holds at the start.
LEMMA InitIInv == ReadInit => IInv
<1> SUFFICES ASSUME ReadInit PROVE IInv
  OBVIOUS
<1>1. ring \in Seq(Nat) /\ Len(ring) = 0
  BY DEF ReadInit
<1>2. Types
  BY <1>1, Sizes DEF ReadInit, Types
<1>3. Ordered /\ CursorNear /\ NewYoung /\ IndexYoung
  BY <1>1, Sizes DEF ReadInit, Ordered, CursorNear, NewYoung, IndexYoung
<1>4. QED
  BY <1>2, <1>3 DEF IInv

\* The three gaps that the cursor may be behind are less than a turn.
LEMMA NearEnough ==
  ASSUME IInv
  PROVE  cursor < Width
BY StreamAssumption DEF IInv, Types, CursorNear

\* A new flux is the youngest, and the ones before it are not.
LEMMA CaptureIInv ==
  ASSUME IInv, Capture
  PROVE  IInv'
<1> USE DEF IInv, Capture
<1>1. /\ ring' \in Seq(Nat) /\ Len(ring') = Len(ring) + 1
      /\ \A i \in 1..Len(ring) : ring'[i] = ring[i]
      /\ ring'[Len(ring) + 1] = 0
  BY DEF Types
<1>2. Len(ring) \in Nat /\ \A i \in 1..Len(ring) : ring[i] \in Nat
  BY DEF Types
<1>3. Types'
  BY <1>1, <1>2 DEF Types
<1>4. Ordered'
  <2>1. CASE ring = <<>>
    <3>1. cursor > 0
      BY <2>1, StreamAssumption DEF LastFlux, Types
    <3>2. QED
      BY <1>1, <2>1, <3>1 DEF Ordered, Types
  <2>2. CASE ring # <<>>
    <3>1. Len(ring) > 0 /\ ring[Len(ring)] > 0
      <4>1. Len(ring) > 0
        BY <1>2, <2>2 DEF Types
      <4>2. LastFlux = ring[Len(ring)]
        BY <2>2 DEF LastFlux, Last
      <4>3. MinFlux \in Nat /\ MinFlux > 0
        BY StreamAssumption
      <4>4. QED
        BY <1>2, <4>1, <4>2, <4>3
    <3>2. \A i \in 1..Len(ring) : ring[i] > 0
      BY <1>2, <3>1 DEF Ordered
    <3>3. cursor > 0
      BY <1>2, <3>1 DEF Ordered, Types
    <3>4. QED
      BY <1>1, <1>2, <3>2, <3>3 DEF Ordered, Types
  <2>3. QED
    BY <2>1, <2>2
<1>5. CursorNear' /\ NewYoung'
  BY <1>1, <1>2 DEF CursorNear, NewYoung, Types
<1>6. IndexYoung'
  BY <1>1, <1>2 DEF IndexYoung, Types
<1>7. QED
  BY <1>3, <1>4, <1>5, <1>6

\* An index pulse is younger than all that was captured.
LEMMA IndexIInv ==
  ASSUME IInv, IRQ_INDEX_rdata
  PROVE  IInv'
<1>1. \A i \in 1..Len(ring) : ring[i] \in Nat
  BY DEF IInv, Types
<1>2. QED
  BY <1>1 DEF IInv, IRQ_INDEX_rdata, Types, Ordered, CursorNear, NewYoung, IndexYoung

\* Time makes everything older alike, and the cursor does not reach a turn.
LEMMA TickIInv ==
  ASSUME IInv, Count
  PROVE  IInv'
<1> USE DEF IInv, Count
<1>1. /\ DOMAIN ring = 1..Len(ring) /\ Len(ring) \in Nat
      /\ \A i \in 1..Len(ring) : ring[i] \in Nat
  BY DEF Types
<1>2. /\ ring' \in Seq(Nat) /\ Len(ring') = Len(ring)
      /\ \A i \in 1..Len(ring) : ring'[i] = ring[i] + 1
  BY <1>1
<1>3. prev + 1 < Width /\ prev \in Nat
  BY StreamAssumption DEF CursorNear, Types
<1>4. prev' = prev + 1
  BY <1>3, ModSmall
<1>5. Types'
  BY <1>2, StreamAssumption DEF Types
<1>6. Ordered'
  BY <1>1, <1>2 DEF Ordered, Types
<1>7. CursorNear'
  BY <1>4, StreamAssumption DEF CursorNear, Types
<1>8. NewYoung'
  BY <1>1, <1>2 DEF NewYoung, Types
<1>9. IndexYoung'
  BY <1>1, <1>2 DEF IndexYoung, Types
<1>10. QED
  BY <1>5, <1>6, <1>7, <1>8, <1>9

\* What is in the ring now is to be read in this loop.
LEMMA PollIInv ==
  ASSUME IInv, Poll
  PROVE  IInv'
<1> USE DEF IInv, Poll
<1>1. Len(ring) \in Nat
  BY DEF Types
<1>2. Types'
  BY <1>1 DEF Types
<1>3. Ordered' /\ CursorNear' /\ NewYoung' /\ IndexYoung'
  BY <1>1 DEF Ordered, CursorNear, NewYoung, IndexYoung
<1>4. QED
  BY <1>2, <1>3

\* The cursor moves on to the flux.
LEMMA ScanIInv ==
  ASSUME IInv, Scan
  PROVE  IInv'
<1> USE DEF IInv, Scan
<1>1. /\ Len(ring) \in Nat /\ Len(ring) > 0 /\ ring # <<>>
      /\ \A i \in 1..Len(ring) : ring[i] \in Nat
  BY DEF Types
<1>2. /\ ring' \in Seq(Nat) /\ Len(ring') = Len(ring) - 1 /\ Head(ring) = ring[1]
      /\ \A i \in 1..Len(ring') : ring'[i] = ring[i + 1]
  BY <1>1 DEF Types
<1>3. ring[1] < cursor /\ cursor < Width /\ ring[1] \in Nat
  BY <1>1, NearEnough DEF Ordered
<1>4. Ticks(ring[1]) = cursor - ring[1]
  BY <1>3, TicksExact DEF CursorNear, Types
<1>5. cursor' = ring[1] /\ prev' = ring[1]
  <2>1. ring[1] % Width = ring[1]
    BY <1>1, <1>3, ModSmall, Sizes DEF Types
  <2>2. QED
    BY <1>2, <1>3, <1>4, <2>1 DEF Types
<1>6. Types'
  BY <1>1, <1>2, <1>5 DEF Types
<1>7. Ordered'
  BY <1>1, <1>2, <1>5 DEF Ordered, Types
<1>8. CursorNear'
  BY <1>3, <1>5, Sizes DEF CursorNear, Types
<1>9. NewYoung'
  BY <1>1, <1>2 DEF NewYoung, Types
<1>10. IndexYoung'
  BY <1>1, <1>2, <1>5 DEF IndexYoung, Types
<1>11. QED
  BY <1>6, <1>7, <1>8, <1>9, <1>10

\* A gap is taken only beyond two gaps: what arrived meanwhile is younger than
\* what remains.
LEMMA LongGapIInv ==
  ASSUME IInv, LongGap
  PROVE  IInv'
<1> USE DEF IInv, LongGap
<1>1. /\ Len(ring) \in Nat /\ cursor \in Nat /\ prev = cursor
      /\ unread \in Nat /\ unread <= Gap /\ Gap \in Nat
  BY Sizes DEF Types, CursorNear
<1>2. \A i \in 1..Len(ring) : ring[i] \in Nat /\ ring[i] <= Gap
  BY <1>1 DEF Types, NewYoung
<1>3. /\ cursor' = prev' /\ cursor' \in Nat /\ cursor' <= 2 * Gap
      /\ cursor' = cursor \/ cursor' > Gap
  BY <1>1 DEF CursorNear
<1>4. Types'
  BY <1>3, StreamAssumption DEF Types
<1>5. Ordered' /\ NewYoung'
  BY <1>1, <1>2, <1>3 DEF Ordered, NewYoung
<1>6. CursorNear'
  BY <1>1, <1>3 DEF CursorNear
<1>7. IndexYoung'
  BY <1>1, <1>2, <1>3 DEF IndexYoung, Types
<1>8. QED
  BY <1>4, <1>5, <1>6, <1>7

\* Every step keeps the invariant.
LEMMA NextIInv == IInv /\ [ReadNext]_readVars => IInv'
<1> SUFFICES ASSUME IInv, [ReadNext]_readVars PROVE IInv'
  OBVIOUS
<1>1. CASE UNCHANGED readVars
  BY <1>1 DEF readVars, IInv, Types, Ordered, CursorNear, NewYoung, IndexYoung
<1>2. QED
  BY <1>1, CaptureIInv, IndexIInv, TickIInv, PollIInv, ScanIInv, LongGapIInv DEF ReadNext

\* The invariant holds for ever.
LEMMA Invariance == ReadSpec => []IInv
BY InitIInv, NextIInv, PTL DEF ReadSpec

\* The difference that rdata_encode_flux() sends for a flux moves the host's
\* cursor to the time of that flux, however long the disk was without flux.
THEOREM FluxTimesTrue == ReadSpec => []FluxTrue
<1>1. IInv => FluxTrue
  <2> SUFFICES ASSUME IInv, todo > 0
               PROVE  cursor - Ticks(Head(ring)) = Head(ring)
    BY DEF FluxTrue
  <2>1. /\ ring # <<>> /\ Head(ring) = ring[1] /\ ring[1] \in Nat
        /\ ring[1] <= prev /\ prev = cursor /\ prev \in Nat
    BY DEF IInv, Types, Ordered, CursorNear
  <2>2. QED
    BY <2>1, NearEnough, TicksExact
<1>2. QED
  BY <1>1, Invariance, PTL

\* An index pulse is placed at its true time from the cursor.
THEOREM IndexTimesTrue == ReadSpec => []IndexTrue
<1>1. IInv => IndexTrue
  <2> SUFFICES ASSUME IInv, encoder = "loop", news
               PROVE  cursor - Ticks(idx) = idx
    BY DEF IndexTrue
  <2>1. idx \in Nat /\ idx <= prev /\ prev = cursor /\ prev \in Nat
    BY DEF IInv, Types, IndexYoung, CursorNear
  <2>2. QED
    BY <2>1, NearEnough, TicksExact
<1>2. QED
  BY <1>1, Invariance, PTL
-----------------------------------------------------------------------------
(* The codec: arguments of 28 bits.                                        *)

Digit == 0..127
Ticks28 == {x \in Nat : x < 268435456}
Number(p, q, r, s) == p + 128 * q + 16384 * r + 2097152 * s

\* The lowest digit splits off.
LEMMA Division ==
  ASSUME NEW n \in Nat
  PROVE  \E m \in Nat, d \in Digit : n = 128 * m + d
<1> DEFINE m == n \div 128
           d == n % 128
<1>1. m \in Nat
  BY SMT
<1>2. d \in Digit
  BY SMT DEF Digit
<1>3. n = 128 * m + d
  BY SMT
<1> HIDE DEF m, d
<1>4. QED
  BY <1>1, <1>2, <1>3

\* A number of 28 bits has four digits of seven bits.
LEMMA Digits ==
  ASSUME NEW x \in Ticks28
  PROVE  \E p, q, r, s \in Digit : x = Number(p, q, r, s)
<1>1. x \in Nat
  BY SMT DEF Ticks28
<1>2. PICK y \in Nat, p \in Digit : x = 128 * y + p
  BY <1>1, Division
<1>3. PICK z \in Nat, q \in Digit : y = 128 * z + q
  BY <1>2, Division
<1>4. PICK s \in Nat, r \in Digit : z = 128 * s + r
  BY <1>3, Division
<1>5. s \in Digit /\ x = Number(p, q, r, s)
  BY <1>2, <1>3, <1>4, SMT DEF Digit, Ticks28, Number
<1>6. QED
  BY <1>2, <1>3, <1>4, <1>5

\* The lowest digit of a number is what is sent of twice the number.
LEMMA LowBits ==
  ASSUME NEW y \in Nat, NEW d \in Digit, NEW m \in Nat, y = d + 128 * m
  PROVE  Low(SetBit0(2 * y)) = 2 * d + 1
BY SMT DEF Low, SetBit0, Digit

\* Any other digit is what is sent of the number shifted to one bit above it.
LEMMA HighBits ==
  ASSUME NEW y \in Nat, NEW d \in Digit, NEW m \in Nat, y \div 2 = d + 128 * m
  PROVE  Low(SetBit0(y)) = 2 * d + 1
BY SMT DEF Low, SetBit0, Digit

\* The four bytes of an argument hold its digits, each with its lowest bit set.
LEMMA ArgumentDigits ==
  ASSUME NEW p \in Digit, NEW q \in Digit, NEW r \in Digit, NEW s \in Digit
  PROVE  _write_28bit(Number(p, q, r, s))
           = <<2 * p + 1, 2 * q + 1, 2 * r + 1, 2 * s + 1>>
<1> DEFINE x == Number(p, q, r, s)
<1>1. x \in Nat
  BY SMT DEF Digit, Number
<1>2. Low(SetBit0(2 * x)) = 2 * p + 1
  <2> DEFINE m == q + 128 * r + 16384 * s
  <2>1. x = p + 128 * m /\ m \in Nat
    BY SMT DEF Digit, Number
  <2> HIDE DEF x, m
  <2>2. QED
    BY <1>1, <2>1, LowBits
<1>3. Low(SetBit0(x \div 64)) = 2 * q + 1
  <2>1. /\ x \div 64 \in Nat /\ (x \div 64) \div 2 = q + 128 * (r + 128 * s)
        /\ r + 128 * s \in Nat
    BY SMT DEF Digit, Number
  <2> HIDE DEF x
  <2>2. QED
    BY <2>1, HighBits
<1>4. Low(SetBit0(x \div (64 * 128))) = 2 * r + 1
  <2>1. x \div (64 * 128) \in Nat /\ (x \div (64 * 128)) \div 2 = r + 128 * s /\ s \in Nat
    BY SMT DEF Digit, Number
  <2> HIDE DEF x
  <2>2. QED
    BY <2>1, HighBits
<1>5. Low(SetBit0(x \div (64 * 128 * 128))) = 2 * s + 1
  <2>1. x \div (64 * 128 * 128) \in Nat /\ (x \div (64 * 128 * 128)) \div 2 = s + 128 * 0
    BY SMT DEF Digit, Number
  <2> HIDE DEF x
  <2>2. QED
    BY <2>1, HighBits
<1>6. QED
  BY <1>2, <1>3, <1>4, <1>5 DEF _write_28bit

\* A digit comes back from its byte.
LEMMA DigitRead == ASSUME NEW d \in Digit PROVE (2 * d + 1) \div 2 = d
BY SMT DEF Digit

\* An argument of 28 bits comes back from its four bytes.
THEOREM ArgumentReads ==
  ASSUME NEW x \in Ticks28
  PROVE  _read_28bit(_write_28bit(x)[1], _write_28bit(x)[2],
                     _write_28bit(x)[3], _write_28bit(x)[4]) = x
<1>1. PICK p, q, r, s \in Digit : x = Number(p, q, r, s)
  BY Digits
<1>2. _write_28bit(x) = <<2 * p + 1, 2 * q + 1, 2 * r + 1, 2 * s + 1>>
  BY <1>1, ArgumentDigits
<1>3. _read_28bit(2 * p + 1, 2 * q + 1, 2 * r + 1, 2 * s + 1) = x
  BY <1>1, DigitRead, SMT DEF _read_28bit, ClearBit0, Digit, Number
<1>4. QED
  BY <1>2, <1>3, SMT

-----------------------------------------------------------------------------
(* A flux.                                                                  *)

\* The decoder takes exactly the bytes head, one opcode, and tail, another.
Short(b, t) == IsFlux(b) /\ Len(b) = OpcodeLength(b) /\ FluxTicks(b) = t
Long(b, t) ==
  \E head, tail \in Seq(Byte) :
    /\ b = head \o tail
    /\ IsSpace(head) /\ Len(head) = OpcodeLength(head)
    /\ IsFlux(tail) /\ Len(tail) = OpcodeLength(tail)
    /\ Argument(head) + FluxTicks(tail) = t

\* Times below 250 take one byte.
LEMMA OneByteReads ==
  ASSUME NEW t \in Nat, 0 < t, t < 250
  PROVE  Short(Flux(t), t)
<1>1. t \in 1..249 /\ t # 0 /\ t < 250
  BY SMT
<1>2. Flux(t) = OneByte(t)
  BY <1>1, Zenon DEF Flux
<1>3. Short(OneByte(t), t)
  BY <1>1, SMT DEF OneByte, Short, IsFlux, OpcodeLength, FluxTicks
<1>4. QED
  BY <1>2, <1>3

\* Times below 1525 take two.
LEMMA TwoBytesRead ==
  ASSUME NEW t \in Nat, 250 <= t, t < 1525
  PROVE  Short(Flux(t), t)
<1> DEFINE low == (t - 250) % 255
<1>1. High(t) \in Int /\ 0 <= High(t) /\ High(t) < 5
  BY SMT DEF High
<1>2. low \in 0..254
  BY SMT
<1>3. t = 250 + High(t) * 255 + low
  BY SMT DEF High
<1>4. ~(t < 250) /\ t # 0
  BY SMT
<1>5. Flux(t) = TwoBytes(t)
  BY <1>1, <1>4, SMT DEF Flux
<1>6. TwoBytes(t) = <<250 + High(t), 1 + low>>
  BY DEF TwoBytes
<1> HIDE DEF low
<1>7. Short(<<250 + High(t), 1 + low>>, t)
  <2>1. PICK h \in 0..4 : h = High(t)
    BY <1>1, SMT
  <2>2. Short(<<250 + h, 1 + low>>, t)
    BY <1>2, <1>3, <2>1, SMT DEF Short, IsFlux, OpcodeLength, FluxTicks
  <2>3. QED
    BY <2>1, <2>2
<1>8. QED
  BY <1>5, <1>6, <1>7

\* A space opcode of any 28-bit time reads back as that time.
LEMMA SpaceReads ==
  ASSUME NEW x \in Ticks28
  PROVE  /\ Space(x) \in Seq(Byte) /\ Len(Space(x)) = OpcodeLength(Space(x))
         /\ IsSpace(Space(x)) /\ Argument(Space(x)) = x
<1>1. PICK p, q, r, s \in Digit : x = Number(p, q, r, s)
  BY Digits
<1>2. _write_28bit(x) = <<2 * p + 1, 2 * q + 1, 2 * r + 1, 2 * s + 1>>
  BY <1>1, ArgumentDigits
<1>3. Space(x) = <<255, 2, 2 * p + 1, 2 * q + 1, 2 * r + 1, 2 * s + 1>>
  BY <1>2, SMT DEF Space, LongOpcode, FLUXOP_SPACE
<1>4. Space(x) \in Seq(Byte)
  BY <1>3, SMT DEF Digit, Byte
<1>5. Argument(Space(x)) = x
  <2>1. Argument(Space(x)) = _read_28bit(2 * p + 1, 2 * q + 1, 2 * r + 1, 2 * s + 1)
    BY <1>3, SMT DEF Argument
  <2>2. _read_28bit(2 * p + 1, 2 * q + 1, 2 * r + 1, 2 * s + 1) = x
    BY <1>1, DigitRead, SMT DEF _read_28bit, ClearBit0, Digit, Number
  <2>3. QED
    BY <2>1, <2>2
<1>6. QED
  BY <1>3, <1>4, <1>5, SMT DEF IsSpace, OpcodeLength, FLUXOP_SPACE

\* A space and a flux make the time they stand for together.
LEMMA TwoOpcodes ==
  ASSUME NEW head \in Seq(Byte), NEW tail \in Seq(Byte), NEW t,
         IsSpace(head), Len(head) = OpcodeLength(head),
         IsFlux(tail), Len(tail) = OpcodeLength(tail),
         Argument(head) + FluxTicks(tail) = t
  PROVE  Long(head \o tail, t)
BY Zenon DEF Long

\* Longer times take a space for all but 249 ticks, then the rest.
LEMMA SevenBytesRead ==
  ASSUME NEW t \in Nat, 1525 <= t, t < 65536
  PROVE  Long(Flux(t), t)
<1> DEFINE x == t - 249
           last == OneByte(249)
<1>1. x \in Ticks28
  BY SMT DEF Ticks28
<1>2. High(t) >= 5
  BY SMT DEF High
<1>3. ~(t < 250) /\ t # 0 /\ ~(High(t) < 5)
  BY <1>2, SMT DEF High
<1>4. Flux(t) = SevenBytes(t)
  BY <1>3, SMT DEF Flux
<1>5. SevenBytes(t) = Space(x) \o last
  BY DEF SevenBytes, OneByte
<1>6. /\ last \in Seq(Byte) /\ IsFlux(last) /\ Len(last) = OpcodeLength(last)
      /\ FluxTicks(last) = 249
  BY SMT DEF OneByte, Byte, IsFlux, OpcodeLength, FluxTicks
<1>7. x + 249 = t
  BY SMT
<1> HIDE DEF x, last
<1>8. Argument(Space(x)) + FluxTicks(last) = t
  BY <1>1, <1>6, <1>7, SpaceReads
<1>9. /\ Space(x) \in Seq(Byte) /\ Len(Space(x)) = OpcodeLength(Space(x))
      /\ IsSpace(Space(x)) /\ Argument(Space(x)) = x
  <2>1. \A y \in Ticks28 :
           /\ Space(y) \in Seq(Byte) /\ Len(Space(y)) = OpcodeLength(Space(y))
           /\ IsSpace(Space(y)) /\ Argument(Space(y)) = y
    BY SpaceReads
  <2>2. QED
    BY <1>1, <2>1
<1>10. Flux(t) = Space(x) \o last
  BY <1>4, <1>5
<1>11. QED
  <2>1. PICK head \in Seq(Byte), tail \in Seq(Byte) : head = Space(x) /\ tail = last
    BY <1>6, <1>9
  <2>2. Long(head \o tail, t)
    BY <1>6, <1>8, <1>9, <2>1, TwoOpcodes
  <2>3. QED
    BY <1>10, <2>1, <2>2

\* Whatever the time between two fluxes, the bytes that stand for it are read as
\* that time and no more: as one opcode, or as a space and the rest.
THEOREM FluxReads ==
  ASSUME NEW t \in Nat, 0 < t, t < 65536
  PROVE  Short(Flux(t), t) \/ Long(Flux(t), t)
<1>1. CASE t < 250
  BY <1>1, OneByteReads
<1>2. CASE 250 <= t /\ t < 1525
  BY <1>2, TwoBytesRead
<1>3. CASE 1525 <= t
  BY <1>3, SevenBytesRead
<1>4. QED
  BY <1>1, <1>2, <1>3, SMT

-----------------------------------------------------------------------------
(* Capture to bytes.                                                       *)

\* The time that is sent for the next flux is never zero, for which there are
\* no bytes, and with the 16-bit timer of the hardware the host reads it back.
THEOREM StreamReads ==
  ASSUME Width = 65536
  PROVE  ReadSpec => [](todo > 0 => LET t == Ticks(Head(ring))
                                IN t > 0 /\ (Short(Flux(t), t) \/ Long(Flux(t), t)))
<1>1. IInv => (todo > 0 => LET t == Ticks(Head(ring))
                           IN t > 0 /\ (Short(Flux(t), t) \/ Long(Flux(t), t)))
  <2> SUFFICES ASSUME IInv, todo > 0
               PROVE  LET t == Ticks(Head(ring))
                      IN t > 0 /\ (Short(Flux(t), t) \/ Long(Flux(t), t))
    OBVIOUS
  <2> DEFINE t == Ticks(Head(ring))
  <2>1. /\ ring # <<>> /\ Head(ring) = ring[1] /\ ring[1] \in Nat
        /\ ring[1] < prev /\ prev = cursor /\ prev \in Nat
    BY DEF IInv, Types, Ordered, CursorNear
  <2>2. t = prev - ring[1] /\ prev < 65536
    BY <2>1, NearEnough, TicksExact
  <2>3. t \in Nat /\ 0 < t /\ t < 65536
    BY <2>1, <2>2
  <2>4. Short(Flux(t), t) \/ Long(Flux(t), t)
    BY <2>3, FluxReads
  <2>5. QED
    BY <2>3, <2>4
<1>2. QED
  BY <1>1, Invariance, PTL
=============================================================================
