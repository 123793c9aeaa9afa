-------------------------- MODULE WriteFluxProofs --------------------------
(* For all streams, sizes and timings: the decoder conserves time, every    *)
(* value it writes fits between MIN_PULSE and the width of the timer, and   *)
(* the values are those the stream means, however it is cut.  For streams    *)
(* that are steady, the DMA engine takes them all, once and in order.        *)
EXTENDS WriteFlux, SequenceTheorems, WellFoundedInduction, TLAPS

Sizes == MinPulse \in Nat \ {0} /\ Width \in Nat /\ MinPulse < Width

\* The assumptions on the sizes, under one name.
LEMMA SizesFact == Sizes
  BY WriteAssumption DEF Sizes

Mode == {"idle", "oneshot", "astable"}
WriteType == [flux_mode : Mode, ticks : Nat, astable_period : Nat,
              is_finished : BOOLEAN, cue : BOOLEAN, terminate : BOOLEAN]

\* The period of a region that may still write values was tested.
PeriodFits == write.flux_mode = "astable" => write.astable_period \in MinPulse..(Width - 1)

Core ==
  /\ write \in WriteType /\ heard \in Nat /\ told \in Nat /\ made \in Seq(Nat)
  /\ TimeConserved /\ FluxesFit /\ PeriodFits

IInv == Core /\ stream \in Streams /\ at \in 0..Len(stream)

\* The next opcode of a stream carries a number of ticks.
LEMMA OpcodeTicks ==
  ASSUME IInv, at < Len(stream)
  PROVE N(stream[at + 1]) \in Nat
<1>1. stream \in Seq(Opcode)
  BY StreamAssumption DEF IInv
<1>2. at + 1 \in 1..Len(stream)
  <2>1. Len(stream) \in Nat
    BY <1>1
  <2> QED
    BY <2>1 DEF IInv
<1>3. stream[at + 1] \in Opcode
  BY <1>1, <1>2
<1> QED
  BY <1>3 DEF Opcode, N

\* One value goes out, and its ticks with it.
LEMMA EmitSafe ==
  ASSUME Core, NEW v \in MinPulse..Width, NEW t \in Nat, NEW m \in Mode, NEW h \in Nat,
         m = "astable" => write.astable_period \in MinPulse..(Width - 1),
         v + t = write.ticks + h, heard' = heard + h,
         Emit(v, t, m)
  PROVE Core'
<1>0. MinPulse \in Nat /\ Width \in Nat /\ v \in Nat
  BY SizesFact DEF Sizes
<1>1. /\ write \in WriteType /\ write.flux_mode \in Mode
      /\ write.ticks \in Nat /\ write.astable_period \in Nat
      /\ write.is_finished \in BOOLEAN /\ write.cue \in BOOLEAN /\ write.terminate \in BOOLEAN
  BY DEF Core, WriteType
<1>2. PICK md \in {m, write.flux_mode} :
        write' = [write EXCEPT !.ticks = t, !.flux_mode = md]
  BY DEF Emit
<1>3. write' \in WriteType /\ write'.ticks = t /\ write'.flux_mode = md
      /\ write'.astable_period = write.astable_period
  BY <1>1, <1>2 DEF WriteType
<1>4. told' = told + v /\ told' \in Nat
  BY <1>0 DEF Core, Emit
<1>5. heard' \in Nat /\ TimeConserved'
  <2>1. heard \in Nat /\ told \in Nat /\ heard = told + write.ticks
    BY DEF Core, TimeConserved
  <2>2. told' + write'.ticks = told + v + t
    BY <1>0, <1>3, <1>4, <2>1
  <2>3. heard' = told + write.ticks + h /\ heard' \in Nat
    BY <2>1
  <2>4. told + v + t = told + write.ticks + h
    BY <1>0, <1>1, <2>1
  <2> QED
    BY <2>2, <2>3, <2>4 DEF TimeConserved
<1>6. PeriodFits'
  BY <1>2, <1>3 DEF Core, PeriodFits
<1>7. CASE made' = made
  BY <1>3, <1>4, <1>5, <1>6, <1>7 DEF Core, FluxesFit
<1>8. CASE made' = Append(made, v)
  <2>1. made' \in Seq(Nat) /\ Len(made') = Len(made) + 1 /\ Len(made) \in Nat
    BY <1>0, <1>8 DEF Core
  <2>2. ASSUME NEW i \in 1..Len(made') PROVE made'[i] \in MinPulse..Width
    <3>1. CASE i = Len(made) + 1
      BY <1>8, <2>1, <3>1 DEF Core
    <3>2. CASE i \in 1..Len(made)
      BY <1>8, <2>1, <3>2 DEF Core, FluxesFit
    <3> QED
      BY <2>1, <3>1, <3>2
  <2> QED
    BY <1>3, <1>4, <1>5, <1>6, <2>1, <2>2 DEF Core, FluxesFit
<1> QED
  BY <1>7, <1>8 DEF Emit

\* Nothing that the time account reads has changed.
LEMMA SameSafe ==
  ASSUME Core, UNCHANGED <<write, heard, told, made>>
  PROVE Core'
BY DEF Core, TimeConserved, FluxesFit, PeriodFits

\* A step of the decoder that writes nothing.
LEMMA KeepSafe ==
  ASSUME Core, NEW h \in Nat,
         write' \in WriteType, write'.ticks = write.ticks + h, heard' = heard + h,
         write'.flux_mode = "astable" => write'.astable_period \in MinPulse..(Width - 1),
         UNCHANGED <<told, made>>
  PROVE Core'
<1>1. /\ heard \in Nat /\ told \in Nat /\ made \in Seq(Nat) /\ write.ticks \in Nat
      /\ heard = told + write.ticks /\ FluxesFit
  BY DEF Core, TimeConserved, WriteType
<1>2. heard' \in Nat /\ told' \in Nat /\ made' \in Seq(Nat)
  BY <1>1
<1>3. TimeConserved'
  BY <1>1 DEF TimeConserved
<1>4. FluxesFit' /\ PeriodFits'
  BY <1>1 DEF FluxesFit, PeriodFits
<1> QED
  BY <1>2, <1>3, <1>4 DEF Core

\* The invariant holds at the start.
LEMMA InitIInv == Init => IInv
<1> SUFFICES ASSUME Init PROVE IInv
  OBVIOUS
<1>1. write \in WriteType /\ write.ticks = 0 /\ write.flux_mode = "idle"
  BY DEF Init, Idle, WriteType, Mode
<1>2. made = <<>> /\ heard = 0 /\ told = 0
  BY DEF Init
<1>3. made \in Seq(Nat) /\ Len(made) = 0
  BY <1>2
<1>4. Core
  BY <1>1, <1>2, <1>3 DEF Core, TimeConserved, FluxesFit, PeriodFits
<1>5. stream \in Streams /\ at = 0
  BY DEF Init
<1>6. Len(stream) \in Nat
  BY <1>5, StreamAssumption
<1> QED
  BY <1>4, <1>5, <1>6 DEF IInv

\* Setting up a write establishes the invariant again.
LEMMA PrepSafe ==
  ASSUME IInv, NEW s \in Streams, NEW cue \in BOOLEAN, NEW terminate \in BOOLEAN,
         floppy_write_prep(s, cue, terminate)
  PROVE IInv'
<1>1. write' \in WriteType /\ write'.ticks = 0 /\ write'.flux_mode = "idle"
  BY DEF floppy_write_prep, Idle, WriteType, Mode
<1>2. made' = <<>> /\ heard' = 0 /\ told' = 0 /\ stream' = s /\ at' = 0
  BY DEF floppy_write_prep
<1>3. made' \in Seq(Nat) /\ Len(made') = 0
  BY <1>2
<1>4. Core'
  BY <1>1, <1>2, <1>3 DEF Core, TimeConserved, FluxesFit, PeriodFits
<1>5. Len(s) \in Nat
  BY StreamAssumption
<1> QED
  BY <1>2, <1>4, <1>5 DEF IInv

\* Generating an oscillating region keeps the invariant.
LEMMA AstableSafe == ASSUME IInv, Astable PROVE IInv'
<1>1. Core /\ write.flux_mode = "astable" /\ UNCHANGED <<stream, at, heard>>
  BY DEF IInv, Astable, host
<1>2. /\ write \in WriteType /\ write.ticks \in Nat /\ heard \in Nat
      /\ write.astable_period \in MinPulse..(Width - 1)
      /\ write.astable_period \in Nat /\ write.is_finished \in BOOLEAN
  BY <1>1 DEF Core, PeriodFits, WriteType
<1>3. CASE write.ticks >= write.astable_period
  <2> DEFINE t == write.ticks - write.astable_period
  <2>1. Emit(write.astable_period, t, "astable")
    BY <1>1, <1>3 DEF Astable
  <2>2. /\ t \in Nat /\ write.astable_period + t = write.ticks + 0 /\ heard' = heard + 0
        /\ write.astable_period \in MinPulse..Width
    BY <1>1, <1>2, <1>3, SizesFact DEF Sizes
  <2>3. "astable" \in Mode
    BY DEF Mode
  <2> HIDE DEF t
  <2>4. Core'
    BY <1>1, <1>2, <2>1, <2>2, <2>3, EmitSafe
  <2> QED
    BY <1>1, <2>4 DEF IInv
<1>4. CASE ~(write.ticks >= write.astable_period)
  <2>1. write' = [write EXCEPT !.flux_mode = "idle"] /\ UNCHANGED <<told, made>>
    BY <1>4 DEF Astable, out
  <2>2. write' \in WriteType /\ write'.ticks = write.ticks + 0 /\ write'.flux_mode = "idle"
    BY <1>2, <2>1 DEF WriteType, Mode
  <2>3. heard' = heard + 0
    BY <1>1, <1>2
  <2>4. Core'
    BY <1>1, <2>1, <2>2, <2>3, KeepSafe
  <2> QED
    BY <1>1, <2>4 DEF IInv
<1> QED
  BY <1>3, <1>4

\* Generating the values of a long flux keeps it.
LEMMA OneshotSafe == ASSUME IInv, Oneshot PROVE IInv'
<1>1. Core /\ write.flux_mode = "oneshot" /\ UNCHANGED <<stream, at, heard>>
  BY DEF IInv, Oneshot, host
<1>2. /\ write \in WriteType /\ write.ticks \in Nat /\ heard \in Nat
      /\ "oneshot" \in Mode /\ "idle" \in Mode
  BY <1>1 DEF Core, WriteType, Mode
<1>3. MinPulse \in Nat \ {0} /\ Width \in Nat /\ MinPulse < Width
  BY SizesFact DEF Sizes
<1>4. heard' = heard + 0
  BY <1>1, <1>2
<1>5. CASE write.ticks >= Width
  <2> DEFINE t == write.ticks - Width
  <2>1. Emit(Width, t, "oneshot")
    BY <1>1, <1>5 DEF Oneshot
  <2>2. t \in Nat /\ Width + t = write.ticks + 0 /\ Width \in MinPulse..Width
    BY <1>2, <1>3, <1>5
  <2> HIDE DEF t
  <2>3. Core'
    BY <1>1, <1>2, <1>4, <2>1, <2>2, EmitSafe
  <2> QED
    BY <1>1, <2>3 DEF IInv
<1>6. CASE ~(write.ticks >= Width) /\ write.ticks > MinPulse
  <2>1. Emit(write.ticks, 0, "idle")
    BY <1>1, <1>6 DEF Oneshot
  <2>2. write.ticks + 0 = write.ticks + 0 /\ write.ticks \in MinPulse..Width
    BY <1>2, <1>3, <1>6
  <2>3. Core'
    BY <1>1, <1>2, <1>4, <2>1, <2>2, EmitSafe
  <2> QED
    BY <1>1, <2>3 DEF IInv
<1>7. CASE ~(write.ticks >= Width) /\ ~(write.ticks > MinPulse)
  <2>1. write' = [write EXCEPT !.flux_mode = "idle"] /\ UNCHANGED <<told, made>>
    BY <1>7 DEF Oneshot, out
  <2>2. write' \in WriteType /\ write'.ticks = write.ticks + 0 /\ write'.flux_mode = "idle"
    BY <1>2, <2>1 DEF WriteType, Mode
  <2>3. Core'
    BY <1>1, <1>4, <2>1, <2>2, KeepSafe
  <2> QED
    BY <1>1, <2>3 DEF IInv
<1> QED
  BY <1>5, <1>6, <1>7

\* Taking the next flux from the stream keeps it.
LEMMA DecodeFluxSafe ==
  ASSUME Core, NEW n \in Nat, DecodeFlux(n), heard' = heard + n, write.flux_mode = "idle"
  PROVE Core'
<1> DEFINE t == write.ticks + n
<1>1. write \in WriteType /\ write.ticks \in Nat /\ heard \in Nat /\ t \in Nat
  BY DEF Core, WriteType
<1>2. MinPulse \in Nat \ {0} /\ Width \in Nat /\ MinPulse < Width /\ "idle" \in Mode
  BY SizesFact DEF Sizes, Mode
<1>3. CASE t >= Width
  <2>1. /\ write' = [write EXCEPT !.ticks = t, !.flux_mode = "oneshot"]
        /\ UNCHANGED <<told, made>>
    BY <1>3 DEF DecodeFlux, out
  <2>2. write' \in WriteType /\ write'.ticks = write.ticks + n /\ write'.flux_mode = "oneshot"
    BY <1>1, <2>1 DEF WriteType, Mode
  <2> QED
    BY <2>1, <2>2, KeepSafe
<1>4. CASE ~(t >= Width) /\ t < MinPulse
  <2>1. write' = [write EXCEPT !.ticks = t] /\ UNCHANGED <<told, made>>
    BY <1>4 DEF DecodeFlux, out
  <2>2. write' \in WriteType /\ write'.ticks = write.ticks + n /\ write'.flux_mode = "idle"
    BY <1>1, <2>1 DEF WriteType, Mode
  <2> QED
    BY <2>1, <2>2, KeepSafe
<1>5. CASE ~(t >= Width) /\ ~(t < MinPulse)
  <2>1. Emit(t, 0, "idle")
    BY <1>5 DEF DecodeFlux
  <2>2. t + 0 = write.ticks + n /\ t \in MinPulse..Width
    BY <1>1, <1>2, <1>5
  <2> HIDE DEF t
  <2> QED
    BY <1>2, <2>1, <2>2, EmitSafe
<1> QED
  BY <1>3, <1>4, <1>5

\* Every step of the decoder keeps it.
LEMMA DecodeSafe == ASSUME IInv, Decode PROVE IInv'
<1> DEFINE i == stream[at + 1]
<1>1. /\ Core /\ write.flux_mode = "idle" /\ Complete
      /\ at' = at + 1 /\ stream' = stream
  BY DEF IInv, Decode, host
<1>2. at < Len(stream) /\ N(i) \in Nat
  BY <1>1, OpcodeTicks DEF Complete
<1>3. stream' \in Streams /\ at' \in 0..Len(stream')
  <2>1. stream \in Streams /\ at \in 0..Len(stream) /\ Len(stream) \in Nat
    BY StreamAssumption DEF IInv
  <2> QED
    BY <1>1, <1>2, <2>1
<1>4. /\ write \in WriteType /\ write.ticks \in Nat /\ heard \in Nat
      /\ write.astable_period \in Nat /\ write.flux_mode \in Mode
      /\ write.is_finished \in BOOLEAN /\ write.cue \in BOOLEAN /\ write.terminate \in BOOLEAN
  BY <1>1 DEF Core, WriteType
<1>5. CASE Op(i) = "flux"
  <2>1. DecodeFlux(N(i)) /\ heard' = heard + N(i)
    BY <1>5 DEF Decode
  <2>2. Core'
    BY <1>1, <1>2, <2>1, DecodeFluxSafe
  <2> QED
    BY <1>3, <2>2 DEF IInv
<1>6. CASE Op(i) = "space"
  <2>1. /\ heard' = heard + N(i) /\ UNCHANGED <<told, made>>
        /\ write' = [write EXCEPT !.ticks = @ + N(i)]
    BY <1>6 DEF Decode, DecodeSpace, out
  <2>2. write' \in WriteType /\ write'.ticks = write.ticks + N(i) /\ write'.flux_mode = "idle"
    BY <1>1, <1>2, <1>4, <2>1 DEF WriteType
  <2>3. Core'
    BY <1>1, <1>2, <2>1, <2>2, KeepSafe
  <2> QED
    BY <1>3, <2>3 DEF IInv
<1>7. CASE Op(i) = "astable" /\ ~BadPeriod(N(i))
  <2>1. /\ heard' = heard + 0 /\ UNCHANGED <<told, made>>
        /\ write' = [write EXCEPT !.astable_period = N(i), !.flux_mode = "astable"]
    BY <1>4, <1>7 DEF Decode, DecodeAstable, out
  <2>2. N(i) \in MinPulse..(Width - 1)
    BY <1>2, <1>7, SizesFact DEF BadPeriod, Sizes
  <2> DEFINE m == "astable" p == N(i)
  <2>a. /\ m \in Mode /\ p \in Nat
        /\ write' = [write EXCEPT !.astable_period = p, !.flux_mode = m]
    BY <1>2, <2>1 DEF Mode
  <2> HIDE DEF m, p
  <2>b. /\ write' \in WriteType /\ write'.ticks = write.ticks
        /\ write'.astable_period = p
    BY <1>4, <2>a DEF WriteType
  <2>3. /\ write' \in WriteType /\ write'.ticks = write.ticks + 0
        /\ write'.astable_period = N(i)
    BY <1>4, <2>b DEF p
  <2>4. Core'
    BY <1>1, <2>1, <2>2, <2>3, KeepSafe
  <2> QED
    BY <1>3, <2>4 DEF IInv
<1>8. CASE Op(i) = "astable" /\ BadPeriod(N(i))
  <2>1. heard' = heard + 0 /\ UNCHANGED <<told, made, write>>
    BY <1>4, <1>8 DEF Decode, DecodeAstable, out
  <2>2. heard' = heard
    BY <1>4, <2>1
  <2>3. Core'
    BY <1>1, <2>1, <2>2, SameSafe
  <2> QED
    BY <1>3, <2>3 DEF IInv
<1>9. CASE Op(i) = "end"
  <2>1. /\ heard' = heard + 0 /\ UNCHANGED <<told, made>>
        /\ write' = [write EXCEPT !.is_finished = TRUE]
    BY <1>4, <1>9 DEF Decode, out
  <2> DEFINE f == TRUE
  <2>a. f \in BOOLEAN /\ write' = [write EXCEPT !.is_finished = f]
    BY <2>1
  <2> HIDE DEF f
  <2>b. /\ write' \in WriteType /\ write'.ticks = write.ticks
        /\ write'.flux_mode = write.flux_mode
    BY <1>4, <2>a DEF WriteType
  <2>2. write' \in WriteType /\ write'.ticks = write.ticks + 0 /\ write'.flux_mode = "idle"
    BY <1>1, <1>4, <2>b
  <2>3. Core'
    BY <1>1, <2>1, <2>2, KeepSafe
  <2> QED
    BY <1>3, <2>3 DEF IInv
<1> QED
  BY <1>5, <1>6, <1>7, <1>8, <1>9 DEF Decode

\* Everything else leaves the decoder alone.
LEMMA OthersSafe ==
  ASSUME IInv,
         \/ Send \/ IRQ_INDEX_changed \/ Take \/ Turn \/ DecodeOut
         \/ floppy_write_wait_data \/ floppy_write_wait_index \/ floppy_write
         \/ Poll \/ DrainNext \/ floppy_write_drain \/ UNCHANGED vars
  PROVE IInv'
<1>1. UNCHANGED <<write, heard, told, made, stream, at>>
  BY DEF Send, IRQ_INDEX_changed, Take, Turn, DecodeOut, floppy_write_wait_data,
         floppy_write_wait_index, floppy_write, Poll, DrainNext, floppy_write_drain,
         vars, host, out
<1>2. Core'
  BY <1>1, SameSafe DEF IInv
<1> QED
  BY <1>1, <1>2 DEF IInv

\* The invariant holds in every reachable state.
THEOREM Invariance == Spec => []IInv
<1>1. Init => IInv
  BY InitIInv
<1>2. IInv /\ [Next]_vars => IInv'
  BY PrepSafe, AstableSafe, OneshotSafe, DecodeSafe, OthersSafe DEF Next, MainLoop
<1> QED
  BY <1>1, <1>2, PTL DEF Spec

(* Every tick that is read is written or carried on: merging short fluxes,  *)
(* splitting long ones and leaving a region lose none.                      *)
THEOREM TicksConserved == Spec => []TimeConserved
<1>1. IInv => TimeConserved
  BY DEF IInv, Core
<1> QED
  BY <1>1, Invariance, PTL

(* No stream, however cut, makes a value below MIN_PULSE or beyond the      *)
(* timer.                                                                   *)
THEOREM ValuesFit == Spec => []FluxesFit
<1>1. IInv => FluxesFit
  BY DEF IInv, Core
<1> QED
  BY <1>1, Invariance, PTL

-----------------------------------------------------------------------------
(* Least elements, for the proofs that would be inductions.                *)

\* A set of natural numbers that is not empty has a least one.
LEMMA LeastNat ==
  ASSUME NEW S \in SUBSET Nat, S # {}
  PROVE  \E m \in S : \A n \in S : m <= n
<1> DEFINE R == OpToRel(<, Nat)
<1>1. IsWellFoundedOn(R, Nat)
  BY NatLessThanWellFounded
<1>2. \A i, j \in Nat : i < j => <<i, j>> \in R
  BY DEF OpToRel
<1> HIDE DEF R
<1>3. PICK m \in S : \A n \in S : ~(<<n, m>> \in R)
  BY <1>1, WFMin
<1>4. ASSUME NEW n \in S PROVE m <= n
  <2>1. n \in Nat /\ m \in Nat
    OBVIOUS
  <2>2. ~(n < m)
    BY <1>2, <1>3, <2>1
  <2>3. QED
    BY <2>1, <2>2
<1>5. QED
  BY <1>4

-----------------------------------------------------------------------------
(* Values and what is left over: the arithmetic of splitting.              *)

Acc == [vals : Seq(Nat), ticks : Nat]
Nothing == [vals |-> <<>>, ticks |-> 0]

\* The first values of t are those of s.
Begins(s, t) == Len(s) <= Len(t) /\ \A k \in 1..Len(s) : t[k] = s[k]

\* Division with a remainder, one period further.
LEMMA OnePeriod ==
  ASSUME NEW p \in Nat \ {0}, NEW t \in Nat
  PROVE  /\ t \div p \in Nat /\ t % p \in Nat
         /\ t < p => t \div p = 0 /\ t % p = t
         /\ t >= p => /\ t \div p >= 1
                      /\ (t - p) \div p = t \div p - 1
                      /\ (t - p) % p = t % p
<1>1. \A n \in Nat : n \div p \in Int /\ n % p \in 0..(p - 1) /\ n = p * (n \div p) + (n % p)
  OBVIOUS
<1>2. \A a, b \in Int, r, u \in 0..(p - 1) : p * a + r = p * b + u => a = b /\ r = u
  <2> TAKE a, b \in Int, r, u \in 0..(p - 1)
  <2> HAVE p * a + r = p * b + u
  <2>1. CASE a = b
    <3>1. p * a = p * b
      BY <2>1
    <3> QED
      BY <2>1, <3>1
  <2>2. CASE a < b
    <3>1. p * (b - a) >= p
      BY <2>2
    <3>2. p * b - p * a = p * (b - a)
      OBVIOUS
    <3> QED
      BY <3>1, <3>2
  <2>3. CASE a > b
    <3>1. p * (a - b) >= p
      BY <2>3
    <3>2. p * a - p * b = p * (a - b)
      OBVIOUS
    <3> QED
      BY <3>1, <3>2
  <2> QED
    BY <2>1, <2>2, <2>3
<1> DEFINE q == t \div p
           r == t % p
<1>3. q \in Int /\ r \in 0..(p - 1) /\ t = p * q + r
  BY <1>1
<1> HIDE DEF q, r
<1>4. q >= 0
  <2> SUFFICES ASSUME q < 0 PROVE FALSE
    BY <1>3
  <2>1. p * q <= -p
    <3>1. p * (-q) >= p
      BY <1>3
    <3> QED
      BY <1>3, <3>1
  <2> QED
    BY <1>3, <2>1
<1>5. t < p => q = 0 /\ r = t
  <2> SUFFICES ASSUME t < p PROVE q = 0 /\ r = t
    OBVIOUS
  <2>1. t \in 0..(p - 1) /\ p * 0 + t = p * q + r
    BY <1>3
  <2> QED
    BY <1>2, <1>3, <2>1
<1>6. ASSUME t >= p
      PROVE  q >= 1 /\ (t - p) \div p = q - 1 /\ (t - p) % p = r
  <2>1. q # 0
    BY <1>3, <1>6
  <2> DEFINE n == t - p
             d == n \div p
             m == n % p
  <2>2. n \in Nat
    BY <1>6
  <2>3. d \in Int /\ m \in 0..(p - 1) /\ n = p * d + m
    BY <1>1, <2>2
  <2>4. n = p * (q - 1) + r
    BY <1>3
  <2> HIDE DEF d, m
  <2>5. p * d + m = p * (q - 1) + r
    BY <2>3, <2>4
  <2>6. d = q - 1 /\ m = r
    BY <1>2, <1>3, <2>3, <2>5
  <2> QED
    BY <1>3, <1>4, <2>1, <2>6 DEF d, m
<1> QED
  BY <1>3, <1>4, <1>5, <1>6 DEF q, r

\* Copies of a value are a sequence of them.
LEMMA CopiesAre ==
  ASSUME NEW v \in Nat, NEW n \in Nat
  PROVE  /\ Copies(v, n) \in Seq(Nat) /\ Len(Copies(v, n)) = n
         /\ \A k \in 1..n : Copies(v, n)[k] = v
BY DEF Copies

\* The first of the copies may as well have been written before.
LEMMA CopiesStep ==
  ASSUME NEW s \in Seq(Nat), NEW v \in Nat, NEW n \in Nat
  PROVE  /\ s \o Copies(v, 0) = s
         /\ n > 0 => s \o Copies(v, n) = Append(s, v) \o Copies(v, n - 1)
<1>1. s \o Copies(v, 0) = s
  <2>1. Copies(v, 0) \in Seq(Nat) /\ Len(Copies(v, 0)) = 0
    BY CopiesAre
  <2>2. Copies(v, 0) = <<>>
    BY <2>1, EmptySeq
  <2> QED
    BY <2>2, ConcatEmptySeq
<1>2. ASSUME n > 0
      PROVE  s \o Copies(v, n) = Append(s, v) \o Copies(v, n - 1)
  <2> DEFINE c == Copies(v, n)
             d == Copies(v, n - 1)
             b == Append(s, v)
  <2>1. n - 1 \in Nat
    BY <1>2
  <2>2. c \in Seq(Nat) /\ Len(c) = n /\ \A k \in 1..n : c[k] = v
    BY CopiesAre
  <2>3. d \in Seq(Nat) /\ Len(d) = n - 1 /\ \A k \in 1..(n - 1) : d[k] = v
    BY <2>1, CopiesAre
  <2>4. /\ b \in Seq(Nat) /\ Len(b) = Len(s) + 1 /\ Len(s) \in Nat
        /\ \A k \in 1..(Len(s) + 1) : b[k] = IF k = Len(s) + 1 THEN v ELSE s[k]
    BY AppendProperties, LenProperties
  <2> HIDE DEF c, d, b
  <2>5. /\ s \o c \in Seq(Nat) /\ Len(s \o c) = Len(s) + n
        /\ \A k \in 1..(Len(s) + n) :
             (s \o c)[k] = IF k <= Len(s) THEN s[k] ELSE c[k - Len(s)]
    BY <2>2, ConcatProperties
  <2>6. /\ b \o d \in Seq(Nat) /\ Len(b \o d) = Len(s) + n
        /\ \A k \in 1..(Len(s) + n) :
             (b \o d)[k] = IF k <= Len(s) + 1 THEN b[k] ELSE d[k - (Len(s) + 1)]
    <3>1. Len(b) + Len(d) = Len(s) + n
      BY <2>3, <2>4
    <3>2. /\ b \o d \in Seq(Nat) /\ Len(b \o d) = Len(b) + Len(d)
          /\ \A k \in 1..(Len(b) + Len(d)) :
               (b \o d)[k] = IF k <= Len(b) THEN b[k] ELSE d[k - Len(b)]
      BY <2>3, <2>4, ConcatProperties
    <3> QED
      BY <2>4, <3>1, <3>2
  <2>7. ASSUME NEW k \in 1..(Len(s) + n) PROVE (s \o c)[k] = (b \o d)[k]
    <3>1. CASE k <= Len(s)
      <4>1. (s \o c)[k] = s[k]
        BY <2>5, <3>1
      <4>2. (b \o d)[k] = b[k] /\ k \in 1..(Len(s) + 1) /\ k # Len(s) + 1
        BY <2>4, <2>6, <3>1
      <4> QED
        BY <2>4, <4>1, <4>2
    <3>2. CASE k = Len(s) + 1
      <4>1. (s \o c)[k] = c[1]
        BY <2>4, <2>5, <3>2
      <4>2. (b \o d)[k] = v
        BY <2>4, <2>6, <3>2
      <4> QED
        BY <1>2, <2>2, <4>1, <4>2
    <3>3. CASE k > Len(s) + 1
      <4>1. k - Len(s) \in 1..n /\ k - (Len(s) + 1) \in 1..(n - 1)
        BY <2>4, <3>3
      <4>2. (s \o c)[k] = v
        BY <2>2, <2>4, <2>5, <3>3, <4>1
      <4>3. (b \o d)[k] = v
        BY <2>3, <2>4, <2>6, <3>3, <4>1
      <4> QED
        BY <4>2, <4>3
    <3>4. k <= Len(s) \/ k = Len(s) + 1 \/ k > Len(s) + 1
      <4>1. Len(s) \in Int /\ k \in Int
        BY <2>4
      <4> QED
        BY <4>1
    <3> QED
      BY <3>1, <3>2, <3>3, <3>4
  <2>8. s \o c = b \o d
    BY <2>5, <2>6, <2>7, SeqEqual
  <2> QED
    BY <2>8 DEF b, c, d
<1> QED
  BY <1>1, <1>2

\* An oscillating region, one period further.
LEMMA RegionStep ==
  ASSUME NEW s \in Seq(Nat), NEW t \in Nat, NEW p \in Nat \ {0}
  PROVE  /\ Region(s, t, p) \in Acc
         /\ Begins(s, Region(s, t, p).vals)
         /\ t < p => Region(s, t, p) = [vals |-> s, ticks |-> t]
         /\ t >= p => Region(s, t, p) = Region(Append(s, p), t - p, p)
<1> DEFINE q == t \div p
           c == s \o Copies(p, q)
<1>1. /\ q \in Nat /\ t % p \in Nat
      /\ t < p => q = 0 /\ t % p = t
      /\ t >= p => q >= 1 /\ (t - p) \div p = q - 1 /\ (t - p) % p = t % p
  BY OnePeriod
<1>2. Region(s, t, p) = [vals |-> c, ticks |-> t % p]
  BY DEF Region
<1> HIDE DEF q
<1>3. /\ Copies(p, q) \in Seq(Nat) /\ Len(Copies(p, q)) = q /\ Len(s) \in Nat
  BY <1>1, CopiesAre, LenProperties
<1>4. c \in Seq(Nat) /\ Begins(s, c)
  BY <1>1, <1>3, ConcatProperties DEF Begins
<1>5. t < p => c = s
  BY <1>1, CopiesStep
<1>6. ASSUME t >= p PROVE Region(s, t, p) = Region(Append(s, p), t - p, p)
  <2>1. c = Append(s, p) \o Copies(p, q - 1)
    <3>1. q > 0 /\ q \in Nat /\ p \in Nat
      BY <1>1, <1>6
    <3> QED
      BY <3>1, CopiesStep
  <2>2. Region(Append(s, p), t - p, p)
        = [vals |-> Append(s, p) \o Copies(p, q - 1), ticks |-> t % p]
    BY <1>1, <1>6 DEF Region
  <2> QED
    BY <1>2, <2>1, <2>2
<1> HIDE DEF c
<1> QED
  BY <1>1, <1>2, <1>4, <1>5, <1>6 DEF Acc

\* A flux beyond the width of the timer, one value of that width further.
LEMMA SplitStep ==
  ASSUME NEW s \in Seq(Nat), NEW t \in Nat
  PROVE  /\ Split(s, t) \in Acc
         /\ Begins(s, Split(s, t).vals)
         /\ t < Width /\ t > MinPulse => Split(s, t) = [vals |-> Append(s, t), ticks |-> 0]
         /\ t < Width /\ ~(t > MinPulse) => Split(s, t) = [vals |-> s, ticks |-> t]
         /\ t >= Width => Split(s, t) = Split(Append(s, Width), t - Width)
<1> DEFINE q == t \div Width
           r == t % Width
           c == s \o Copies(Width, q)
<1>1. Width \in Nat \ {0} /\ MinPulse \in Nat
  BY SizesFact DEF Sizes
<1>2. /\ q \in Nat /\ r \in Nat
      /\ t < Width => q = 0 /\ r = t
      /\ t >= Width => q >= 1 /\ (t - Width) \div Width = q - 1 /\ (t - Width) % Width = r
  BY <1>1, OnePeriod
<1>3. Split(s, t) = IF r > MinPulse THEN [vals |-> Append(c, r), ticks |-> 0]
                                    ELSE [vals |-> c, ticks |-> r]
  BY DEF Split
<1> HIDE DEF q, r
<1>4. /\ Copies(Width, q) \in Seq(Nat) /\ Len(Copies(Width, q)) = q /\ Len(s) \in Nat
  BY <1>1, <1>2, CopiesAre, LenProperties
<1>5. c \in Seq(Nat) /\ Begins(s, c)
  BY <1>2, <1>4, ConcatProperties DEF Begins
<1>6. t < Width => c = s
  BY <1>1, <1>2, CopiesStep
<1>7. ASSUME t >= Width PROVE Split(s, t) = Split(Append(s, Width), t - Width)
  <2> DEFINE d == Append(s, Width) \o Copies(Width, q - 1)
  <2>1. c = d
    <3>1. q > 0 /\ q \in Nat /\ Width \in Nat
      BY <1>1, <1>2, <1>7
    <3> QED
      BY <3>1, CopiesStep
  <2>2. Split(Append(s, Width), t - Width) =
          IF r > MinPulse THEN [vals |-> Append(d, r), ticks |-> 0]
                          ELSE [vals |-> d, ticks |-> r]
    BY <1>2, <1>7 DEF Split
  <2> HIDE DEF c, d
  <2> QED
    BY <1>3, <2>1, <2>2
<1> HIDE DEF c
<1>8. /\ Append(c, r) \in Seq(Nat) /\ Len(Append(c, r)) = Len(c) + 1 /\ Len(c) \in Nat
      /\ \A k \in 1..Len(c) : Append(c, r)[k] = c[k]
  BY <1>2, <1>5, AppendProperties, LenProperties
<1>9. Begins(s, Append(c, r))
  BY <1>4, <1>5, <1>8 DEF Begins
<1>10. Split(s, t) \in Acc /\ Begins(s, Split(s, t).vals)
  BY <1>2, <1>3, <1>5, <1>8, <1>9 DEF Acc
<1>11. /\ t < Width /\ t > MinPulse => Split(s, t) = [vals |-> Append(s, t), ticks |-> 0]
       /\ t < Width /\ ~(t > MinPulse) => Split(s, t) = [vals |-> s, ticks |-> t]
  BY <1>2, <1>3, <1>6
<1> QED
  BY <1>7, <1>10, <1>11

\* An opcode adds values to those before it.
LEMMA WaveGrows ==
  ASSUME NEW a \in Acc, NEW i \in Opcode
  PROVE  Wave(a, i) \in Acc /\ Begins(a.vals, Wave(a, i).vals)
<1> DEFINE t == a.ticks + N(i)
           w == Wave(a, i)
<1>1. /\ a.vals \in Seq(Nat) /\ a.ticks \in Nat /\ N(i) \in Nat /\ t \in Nat
      /\ Op(i) \in {"flux", "space", "astable", "end"}
      /\ a = [vals |-> a.vals, ticks |-> a.ticks]
  BY DEF Acc, Opcode, N, Op
<1>2. Width \in Nat \ {0} /\ MinPulse \in Nat \ {0} /\ MinPulse < Width
  BY SizesFact DEF Sizes
<1>3. Begins(a.vals, a.vals)
  BY <1>1, LenProperties DEF Begins
<1>4. CASE Op(i) = "end" \/ (Op(i) = "astable" /\ BadPeriod(N(i)))
  <2>1. w = a
    BY <1>4 DEF Wave
  <2> QED
    BY <1>3, <2>1
<1>5. CASE Op(i) = "space" \/ (Op(i) = "flux" /\ t < MinPulse)
  <2>1. w = [a EXCEPT !.ticks = t]
    BY <1>1, <1>2, <1>5 DEF Wave
  <2>2. w \in Acc /\ w.vals = a.vals
    BY <1>1, <2>1 DEF Acc
  <2> QED
    BY <1>3, <2>2
<1>6. CASE Op(i) = "astable" /\ ~BadPeriod(N(i))
  <2>1. w = Region(a.vals, a.ticks, N(i))
    BY <1>6 DEF Wave
  <2>2. N(i) \in Nat \ {0}
    BY <1>1, <1>2, <1>6 DEF BadPeriod
  <2> QED
    BY <1>1, <2>1, <2>2, RegionStep
<1>7. CASE Op(i) = "flux" /\ t \in MinPulse..(Width - 1)
  <2>1. w = [vals |-> Append(a.vals, t), ticks |-> 0]
    BY <1>1, <1>2, <1>7 DEF Wave
  <2> HIDE DEF t
  <2>2. /\ Append(a.vals, t) \in Seq(Nat) /\ Len(Append(a.vals, t)) = Len(a.vals) + 1
        /\ Len(a.vals) \in Nat
        /\ \A k \in 1..Len(a.vals) : Append(a.vals, t)[k] = a.vals[k]
    BY <1>1, AppendProperties, LenProperties
  <2> QED
    BY <2>1, <2>2 DEF Acc, Begins
<1>8. CASE Op(i) = "flux" /\ t >= Width
  <2>1. w = Split(a.vals, t)
    BY <1>1, <1>2, <1>8 DEF Wave
  <2> QED
    BY <1>1, <2>1, SplitStep
<1> QED
  BY <1>1, <1>2, <1>4, <1>5, <1>6, <1>7, <1>8

-----------------------------------------------------------------------------
(* What a stream means is well defined, and grows along the stream.        *)

Recurs(s, n, f) ==
  /\ f \in [0..n -> Acc] /\ f[0] = Nothing
  /\ \A i \in 1..n : f[i] = Wave(f[i - 1], s[i])

\* There is such a function for the whole stream.
LEMMA RecursionExists ==
  ASSUME NEW s \in Streams
  PROVE  \E f : Recurs(s, Len(s), f)
<1> DEFINE Bad == {n \in 0..Len(s) : ~ \E f : Recurs(s, n, f)}
<1>1. s \in Seq(Opcode) /\ Len(s) \in Nat /\ \A i \in 1..Len(s) : s[i] \in Opcode
  BY StreamAssumption, ElementOfSeq, LenProperties
<1>2. Bad = {}
  <2> SUFFICES ASSUME Bad # {} PROVE FALSE
    OBVIOUS
  <2>1. Bad \in SUBSET Nat
    BY <1>1
  <2>2. PICK n \in Bad : \A k \in Bad : n <= k
    BY <2>1, LeastNat
  <2>3. n \in 0..Len(s) /\ ~ \E f : Recurs(s, n, f)
    BY <2>2
  <2>4. CASE n = 0
    <3> DEFINE f == [i \in 0..0 |-> Nothing]
    <3>1. Nothing \in Acc
      BY EmptySeq DEF Acc, Nothing
    <3>2. Recurs(s, 0, f)
      BY <3>1 DEF Recurs
    <3> QED
      BY <2>3, <2>4, <3>2
  <2>5. CASE n > 0
    <3>1. n - 1 \in 0..Len(s) /\ n - 1 \notin Bad
      BY <1>1, <2>1, <2>2, <2>3, <2>5
    <3>2. PICK g : Recurs(s, n - 1, g)
      BY <3>1
    <3> HIDE DEF Bad
    <3>3. g \in [0..(n - 1) -> Acc] /\ g[n - 1] \in Acc /\ s[n] \in Opcode
      BY <1>1, <2>3, <2>5, <3>2 DEF Recurs
    <3>4. Wave(g[n - 1], s[n]) \in Acc
      BY <3>3, WaveGrows
    <3> DEFINE last == Wave(g[n - 1], s[n])
               f == [i \in 0..n |-> IF i = n THEN last ELSE g[i]]
    <3>5. last \in Acc
      BY <3>4
    <3>6. f[n] = last /\ \A i \in 0..(n - 1) : f[i] = g[i]
      BY <2>3, <2>5
    <3>7. f \in [0..n -> Acc]
      <4> HIDE DEF last
      <4> QED
        BY <2>3, <2>5, <3>3, <3>5
    <3>8. f[0] = Nothing
      BY <2>3, <2>5, <3>2, <3>6 DEF Recurs
    <3>9. ASSUME NEW i \in 1..n PROVE f[i] = Wave(f[i - 1], s[i])
      <4>1. f[i - 1] = g[i - 1]
        BY <2>3, <2>5, <3>6
      <4> HIDE DEF f
      <4>2. CASE i = n
        BY <3>6, <4>1, <4>2
      <4>3. CASE i # n
        <5>1. i \in 1..(n - 1) /\ i \in 0..(n - 1)
          BY <2>3, <4>3
        <5>2. f[i] = g[i]
          BY <3>6, <5>1
        <5>3. g[i] = Wave(g[i - 1], s[i])
          BY <3>2, <5>1 DEF Recurs
        <5> QED
          BY <4>1, <5>2, <5>3
      <4> QED
        BY <4>2, <4>3
    <3> HIDE DEF f, last
    <3>10. Recurs(s, n, f)
      BY <3>7, <3>8, <3>9 DEF Recurs
    <3> QED
      BY <2>3, <3>10
  <2>6. n = 0 \/ n > 0
    BY <1>1, <2>3
  <2> QED
    BY <2>4, <2>5, <2>6
<1> QED
  BY <1>1, <1>2

\* Waves is that function.
LEMMA WavesAre ==
  ASSUME NEW s \in Streams
  PROVE  Recurs(s, Len(s), Waves[s])
<1> DEFINE Step(f) == [i \in 0..Len(s) |-> IF i = 0 THEN Nothing
                                                    ELSE Wave(f[i - 1], s[i])]
           w == CHOOSE f : f = Step(f)
<1>1. s \in Seq(Opcode) /\ Len(s) \in Nat /\ \A i \in 1..Len(s) : s[i] \in Opcode
  BY StreamAssumption, ElementOfSeq, LenProperties
<1>2. PICK f : Recurs(s, Len(s), f)
  BY RecursionExists
<1>3. f = Step(f)
  <2>1. f \in [0..Len(s) -> Acc]
    BY <1>2 DEF Recurs
  <2>2. ASSUME NEW i \in 0..Len(s)
        PROVE  f[i] = IF i = 0 THEN Nothing ELSE Wave(f[i - 1], s[i])
    BY <1>1, <1>2 DEF Recurs
  <2> HIDE DEF Nothing
  <2> QED
    BY <2>1, <2>2
<1>4. w = Step(w)
  <2> HIDE DEF Step
  <2> QED
    BY <1>3
<1>5. Waves[s] = w
  BY Zenon DEF Waves, Nothing
<1> HIDE DEF w
<1>6. Waves[s] = Step(Waves[s])
  BY <1>4, <1>5
<1> DEFINE v == Waves[s]
<1> HIDE DEF v
<1>7. v = Step(v)
  BY <1>6 DEF v
<1>8. v[0] = Nothing /\ \A i \in 1..Len(s) : v[i] = Wave(v[i - 1], s[i])
  BY <1>1, <1>7
<1> DEFINE Bad == {n \in 0..Len(s) : v[n] \notin Acc}
<1>9. Bad = {}
  <2> SUFFICES ASSUME Bad # {} PROVE FALSE
    OBVIOUS
  <2>1. Bad \in SUBSET Nat
    BY <1>1
  <2>2. PICK n \in Bad : \A k \in Bad : n <= k
    BY <2>1, LeastNat
  <2>3. n \in 0..Len(s) /\ v[n] \notin Acc
    BY <2>2
  <2>4. n # 0
    <3>1. Nothing \in Acc
      BY EmptySeq DEF Acc, Nothing
    <3> QED
      BY <1>8, <2>3, <3>1
  <2>5. n \in 1..Len(s) /\ n - 1 \in 0..Len(s) /\ n - 1 \notin Bad
    BY <1>1, <2>1, <2>2, <2>3, <2>4
  <2>6. v[n - 1] \in Acc
    BY <2>5
  <2> QED
    BY <1>1, <1>8, <2>3, <2>5, <2>6, WaveGrows
<1>10. \A n \in 0..Len(s) : v[n] \in Acc
  BY <1>9
<1>11. v \in [0..Len(s) -> Acc]
  BY <1>7, <1>10
<1> QED
  BY <1>8, <1>11 DEF Recurs, v

\* The first values of the first values are first values.
LEMMA BeginsTransitive ==
  ASSUME NEW s \in Seq(Nat), NEW t \in Seq(Nat), NEW u \in Seq(Nat),
         Begins(s, t), Begins(t, u)
  PROVE  Begins(s, u)
<1>1. Len(s) \in Nat /\ Len(t) \in Nat /\ Len(u) \in Nat
  BY LenProperties
<1> QED
  BY <1>1 DEF Begins

\* The values of the first opcodes are the first values of the stream.
LEMMA WavesGrow ==
  ASSUME NEW s \in Streams, NEW j \in 0..Len(s), NEW i \in 0..j
  PROVE  Begins(Waves[s][i].vals, Waves[s][j].vals)
<1> DEFINE v == Waves[s]
           Bad == {n \in 0..Len(s) : \E k \in 0..n : ~Begins(v[k].vals, v[n].vals)}
<1>1. s \in Seq(Opcode) /\ Len(s) \in Nat /\ \A k \in 1..Len(s) : s[k] \in Opcode
  BY StreamAssumption, ElementOfSeq, LenProperties
<1>2. /\ \A k \in 0..Len(s) : v[k] \in Acc /\ v[k].vals \in Seq(Nat) /\ Len(v[k].vals) \in Nat
      /\ \A k \in 1..Len(s) : v[k] = Wave(v[k - 1], s[k])
  BY WavesAre, LenProperties DEF Recurs, Acc
<1> HIDE DEF v
<1>3. Bad = {}
  <2> SUFFICES ASSUME Bad # {} PROVE FALSE
    OBVIOUS
  <2>1. Bad \in SUBSET Nat
    BY <1>1
  <2>2. PICK n \in Bad : \A k \in Bad : n <= k
    BY <2>1, LeastNat
  <2>3. n \in 0..Len(s)
    BY <2>2
  <2>4. PICK k \in 0..n : ~Begins(v[k].vals, v[n].vals)
    BY <2>2
  <2>5. k # n
    BY <1>2, <2>3, <2>4 DEF Begins
  <2>6. n \in 1..Len(s) /\ n - 1 \in 0..Len(s) /\ n - 1 \notin Bad /\ k \in 0..(n - 1)
    BY <1>1, <2>1, <2>2, <2>3, <2>4, <2>5
  <2>7. Begins(v[k].vals, v[n - 1].vals)
    BY <2>6
  <2> HIDE DEF Bad
  <2>8. Begins(v[n - 1].vals, v[n].vals)
    BY <1>1, <1>2, <2>6, WaveGrows
  <2>9. k \in 0..Len(s)
    BY <1>1, <2>3, <2>4
  <2> QED
    <3>1. /\ v[k].vals \in Seq(Nat) /\ v[n - 1].vals \in Seq(Nat) /\ v[n].vals \in Seq(Nat)
      BY <1>2, <2>3, <2>6, <2>9
    <3> QED
      BY <2>4, <2>7, <2>8, <3>1, BeginsTransitive
<1> QED
  BY <1>3 DEF v

-----------------------------------------------------------------------------
(* The values written are the stream's.                                    *)

\* What the values written and those the decoder is about to write come to.
Due ==
  IF write.flux_mode = "idle" THEN [vals |-> made, ticks |-> write.ticks]
  ELSE IF write.flux_mode = "oneshot" THEN Split(made, write.ticks)
  ELSE Region(made, write.ticks, write.astable_period)

Decoding == state \in Before \cup {"write_flux"}

\* While the stream is written they are what the opcodes consumed come to; the
\* values stay when it is drained.
Meant ==
  /\ pc = "decode" => Decoding \/ state = "write_flux_drain"
  /\ Decoding => Due = Waves[stream][at]
  /\ Decoding /\ write.is_finished => at = Len(stream) /\ write.flux_mode = "idle"
  /\ ~Decoding => Begins(made, Wanted[stream])

\* The account of a stream that was consumed has its type.
LEMMA WavesType ==
  ASSUME NEW s \in Streams, NEW i \in 0..Len(s)
  PROVE  /\ Waves[s][i] \in Acc /\ Waves[s][i].vals \in Seq(Nat)
         /\ Waves[s][i].ticks \in Nat
<1>1. Waves[s] \in [0..Len(s) -> Acc]
  BY WavesAre DEF Recurs
<1>2. Waves[s][i] \in Acc
  BY <1>1
<1> QED
  BY <1>2 DEF Acc

\* So at any time the values written are the first ones of the stream.
LEMMA MeantBegins ==
  ASSUME IInv, Meant
  PROVE  Begins(made, Wanted[stream])
<1> SUFFICES ASSUME Decoding PROVE Begins(made, Wanted[stream])
  BY DEF Meant
<1>1. /\ stream \in Streams /\ at \in 0..Len(stream) /\ Len(stream) \in Nat
      /\ made \in Seq(Nat) /\ write \in WriteType /\ PeriodFits
  BY StreamAssumption, LenProperties DEF IInv, Core
<1>2. write.ticks \in Nat /\ write.flux_mode \in Mode /\ write.astable_period \in Nat
  BY <1>1 DEF WriteType
<1>3. Begins(made, Due.vals)
  <2>1. CASE write.flux_mode = "idle"
    BY <1>1, <2>1, LenProperties DEF Due, Begins
  <2>2. CASE write.flux_mode = "oneshot"
    BY <1>1, <1>2, <2>2, SplitStep DEF Due
  <2>3. CASE write.flux_mode = "astable"
    <3>1. write.astable_period \in Nat \ {0}
      BY <1>1, <1>2, <2>3, SizesFact DEF PeriodFits, Sizes
    <3>2. Due = Region(made, write.ticks, write.astable_period)
      BY <2>3 DEF Due
    <3> QED
      BY <1>1, <1>2, <3>1, <3>2, RegionStep
  <2> QED
    BY <1>2, <2>1, <2>2, <2>3 DEF Mode
<1>4. Begins(Waves[stream][at].vals, Waves[stream][Len(stream)].vals)
  BY <1>1, WavesGrow
<1>5. Wanted[stream] = Waves[stream][Len(stream)].vals
  BY <1>1 DEF Wanted
<1>6. Waves[stream][at].vals \in Seq(Nat) /\ Wanted[stream] \in Seq(Nat)
  <2>1. Len(stream) \in 0..Len(stream)
    BY <1>1
  <2> QED
    BY <1>1, <1>5, <2>1, WavesType
<1>7. Due = Waves[stream][at]
  BY DEF Meant
<1> QED
  BY <1>1, <1>3, <1>4, <1>5, <1>6, <1>7, BeginsTransitive

\* A step that neither decodes nor moves on.
LEMMA StaysMeant ==
  ASSUME Meant, UNCHANGED <<write, made, stream, at>>,
         pc' = "decode" => Decoding' \/ state' = "write_flux_drain",
         Decoding <=> Decoding'
  PROVE  Meant'
<1>1. Due' = Due
  BY DEF Due
<1> QED
  BY <1>1 DEF Meant

\* A step in or into the drain state, or one that ends the write.
LEMMA DrainMeant ==
  ASSUME IInv, Meant, state' \in {"write_flux_drain", "command_wait"},
         pc' = "decode" => state' = "write_flux_drain",
         UNCHANGED <<made, stream>>
  PROVE  Meant'
<1>1. ~Decoding'
  BY DEF Decoding, Before
<1>2. Begins(made, Wanted[stream])
  BY MeantBegins
<1> QED
  BY <1>1, <1>2 DEF Meant

\* What a value does that goes out before the drain.
LEMMA EmitIs ==
  ASSUME write \in WriteType, NEW v, NEW t, NEW m, Emit(v, t, m),
         state # "write_flux_drain"
  PROVE  /\ made' = Append(made, v) /\ write'.ticks = t
         /\ write'.flux_mode \in {write.flux_mode, m}
         /\ write'.astable_period = write.astable_period
         /\ write'.is_finished = write.is_finished
<1> DEFINE md == IF todo = 1 THEN write.flux_mode ELSE m
<1>1. write' = [write EXCEPT !.ticks = t, !.flux_mode = md] /\ made' = Append(made, v)
  BY DEF Emit
<1>2. md \in {write.flux_mode, m}
  OBVIOUS
<1> HIDE DEF md
<1> QED
  BY <1>1, <1>2 DEF WriteType

\* The types the steps below look at.
LEMMA DecoderTypes ==
  ASSUME IInv
  PROVE  /\ write \in WriteType /\ write.ticks \in Nat /\ write.astable_period \in Nat
         /\ write.flux_mode \in Mode /\ made \in Seq(Nat)
         /\ stream \in Streams /\ at \in 0..Len(stream) /\ Len(stream) \in Nat
         /\ write.flux_mode = "astable" => write.astable_period \in Nat \ {0}
         /\ MinPulse \in Nat \ {0} /\ Width \in Nat \ {0} /\ MinPulse < Width
<1>1. /\ stream \in Streams /\ at \in 0..Len(stream) /\ Len(stream) \in Nat
      /\ made \in Seq(Nat) /\ write \in WriteType /\ PeriodFits
  BY StreamAssumption, LenProperties DEF IInv, Core
<1>2. write.ticks \in Nat /\ write.flux_mode \in Mode /\ write.astable_period \in Nat
  BY <1>1 DEF WriteType
<1>3. MinPulse \in Nat \ {0} /\ Width \in Nat \ {0} /\ MinPulse < Width
  BY SizesFact DEF Sizes
<1> QED
  BY <1>1, <1>2, <1>3 DEF PeriodFits

\* A step in an oscillating region writes the next value due.
LEMMA AstableMeant == ASSUME IInv, Meant, Astable PROVE Meant'
<1> DEFINE p == write.astable_period
           t == write.ticks
<1>1. /\ pc = "decode" /\ write.flux_mode = "astable" /\ UNCHANGED <<state, stream, at>>
  BY DEF Astable, host
<1>2. /\ write \in WriteType /\ t \in Nat /\ p \in Nat \ {0} /\ made \in Seq(Nat)
  BY <1>1, DecoderTypes
<1>3. CASE state = "write_flux_drain"
  <2>1. made' = made
    BY <1>3 DEF Astable, Emit, out
  <2> QED
    BY <1>1, <1>3, <2>1, DrainMeant
<1>4. CASE state # "write_flux_drain"
  <2>1. Decoding /\ Decoding'
    BY <1>1, <1>4 DEF Meant, Decoding
  <2>2. ~write.is_finished /\ Due = Waves[stream][at]
    BY <1>1, <2>1 DEF Meant
  <2>3. Due = Region(made, t, p)
    BY <1>1 DEF Due
  <2>4. Due' = Due /\ write'.is_finished = write.is_finished
    <3>1. CASE t >= p
      <4>1. Emit(p, t - p, "astable")
        BY <1>1, <3>1 DEF Astable
      <4>2. /\ made' = Append(made, p) /\ write'.ticks = t - p
            /\ write'.flux_mode = "astable" /\ write'.astable_period = p
            /\ write'.is_finished = write.is_finished
        BY <1>1, <1>2, <1>4, <4>1, EmitIs
      <4>3. Due' = Region(Append(made, p), t - p, p)
        BY <4>2 DEF Due
      <4> QED
        BY <1>2, <2>3, <3>1, <4>2, <4>3, RegionStep
    <3>2. CASE ~(t >= p)
      <4>1. write' = [write EXCEPT !.flux_mode = "idle"] /\ made' = made
        BY <1>1, <3>2 DEF Astable, out
      <4>2. /\ write'.flux_mode = "idle" /\ write'.ticks = t
            /\ write'.is_finished = write.is_finished
        BY <1>2, <4>1 DEF WriteType
      <4>3. Due' = [vals |-> made, ticks |-> t]
        BY <4>1, <4>2 DEF Due
      <4>4. Region(made, t, p) = [vals |-> made, ticks |-> t]
        BY <1>2, <3>2, RegionStep
      <4> QED
        BY <2>3, <4>2, <4>3, <4>4
    <3> QED
      BY <3>1, <3>2
  <2> QED
    BY <1>1, <2>1, <2>2, <2>4 DEF Meant
<1> QED
  BY <1>3, <1>4

\* A step of a long flux writes the next value due.
LEMMA OneshotMeant == ASSUME IInv, Meant, Oneshot PROVE Meant'
<1> DEFINE t == write.ticks
<1>1. /\ pc = "decode" /\ write.flux_mode = "oneshot" /\ UNCHANGED <<state, stream, at>>
  BY DEF Oneshot, host
<1>2. /\ write \in WriteType /\ t \in Nat /\ made \in Seq(Nat)
      /\ MinPulse \in Nat \ {0} /\ Width \in Nat \ {0} /\ MinPulse < Width
  BY DecoderTypes
<1>3. CASE state = "write_flux_drain"
  <2>1. made' = made
    BY <1>3 DEF Oneshot, Emit, out
  <2> QED
    BY <1>1, <1>3, <2>1, DrainMeant
<1>4. CASE state # "write_flux_drain"
  <2>1. Decoding /\ Decoding'
    BY <1>1, <1>4 DEF Meant, Decoding
  <2>2. ~write.is_finished /\ Due = Waves[stream][at]
    BY <1>1, <2>1 DEF Meant
  <2>3. Due = Split(made, t)
    BY <1>1 DEF Due
  <2>4. Due' = Due /\ write'.is_finished = write.is_finished
    <3>1. CASE t >= Width
      <4>1. Emit(Width, t - Width, "oneshot")
        BY <1>1, <3>1 DEF Oneshot
      <4>2. /\ made' = Append(made, Width) /\ write'.ticks = t - Width
            /\ write'.flux_mode = "oneshot"
            /\ write'.is_finished = write.is_finished
        BY <1>1, <1>2, <1>4, <4>1, EmitIs
      <4>3. Due' = Split(Append(made, Width), t - Width)
        BY <4>2 DEF Due
      <4> QED
        BY <1>2, <2>3, <3>1, <4>2, <4>3, SplitStep
    <3>2. CASE ~(t >= Width) /\ t > MinPulse
      <4>1. Emit(t, 0, "idle")
        BY <1>1, <3>2 DEF Oneshot
      <4>2. /\ made' = Append(made, t) /\ write'.ticks = 0
            /\ write'.flux_mode \in {"oneshot", "idle"}
            /\ write'.is_finished = write.is_finished
        BY <1>1, <1>2, <1>4, <4>1, EmitIs
      <4> DEFINE longer == Append(made, t)
      <4>3. Split(made, t) = [vals |-> longer, ticks |-> 0]
        <5>1. made \in Seq(Nat) /\ t \in Nat /\ Width \in Nat
          BY <1>2, SizesFact DEF Sizes
        <5>2. t < Width /\ t > MinPulse
          BY <3>2, <5>1
        <5> HIDE DEF t
        <5> QED
          BY <5>1, <5>2, SplitStep
      <4>4. longer \in Seq(Nat)
        BY <1>2, AppendProperties
      <4>5. Split(longer, 0) = [vals |-> longer, ticks |-> 0]
        <5>1. 0 \in Nat /\ 0 < Width /\ ~(0 > MinPulse)
          BY SizesFact DEF Sizes
        <5> HIDE DEF longer
        <5> QED
          BY <4>4, <5>1, SplitStep
      <4>6. Due' = [vals |-> Append(made, t), ticks |-> 0]
        BY <4>2, <4>5 DEF Due
      <4> QED
        BY <2>3, <4>2, <4>3, <4>6
    <3>3. CASE ~(t >= Width) /\ ~(t > MinPulse)
      <4>1. write' = [write EXCEPT !.flux_mode = "idle"] /\ made' = made
        BY <1>1, <3>3 DEF Oneshot, out
      <4>2. /\ write'.flux_mode = "idle" /\ write'.ticks = t
            /\ write'.is_finished = write.is_finished
        BY <1>2, <4>1 DEF WriteType
      <4>3. Due' = [vals |-> made, ticks |-> t]
        BY <4>1, <4>2 DEF Due
      <4>4. Split(made, t) = [vals |-> made, ticks |-> t]
        BY <1>2, <3>3, SplitStep
      <4> QED
        BY <2>3, <4>2, <4>3, <4>4
    <3> QED
      BY <3>1, <3>2, <3>3
  <2> QED
    BY <1>1, <2>1, <2>2, <2>4 DEF Meant
<1> QED
  BY <1>3, <1>4

\* An opcode that is decoded is the next one of the stream's account.
LEMMA DecodeMeant == ASSUME IInv, Meant, Decode PROVE Meant'
<1> DEFINE t == write.ticks
           i == stream[at + 1]
           n == N(i)
           a == [vals |-> made, ticks |-> t]
<1>1. /\ pc = "decode" /\ write.flux_mode = "idle" /\ at' = at + 1 /\ stream' = stream
      /\ at < Len(stream)
  BY DEF Decode, Complete, host
<1>2. /\ write \in WriteType /\ t \in Nat /\ made \in Seq(Nat) /\ stream \in Streams
      /\ at \in 0..Len(stream) /\ Len(stream) \in Nat
      /\ MinPulse \in Nat \ {0} /\ Width \in Nat \ {0} /\ MinPulse < Width
  BY DecoderTypes
<1>3. at + 1 \in 1..Len(stream) /\ n \in Nat
  BY <1>1, <1>2, OpcodeTicks
<1>4. CASE state = "write_flux_drain"
  <2>1. made' = made /\ state' = "write_flux_drain"
    BY <1>4 DEF Decode, DecodeFlux, DecodeSpace, DecodeAstable, Emit, out
  <2> QED
    BY <1>1, <2>1, DrainMeant
<1>5. CASE state # "write_flux_drain"
  <2>1. Decoding
    BY <1>1, <1>5 DEF Meant
  <2>2. ~write.is_finished /\ Waves[stream][at] = a
    BY <1>1, <2>1 DEF Meant, Due
  <2>3. Waves[stream][at + 1] = Wave(a, i)
    <3>1. \A k \in 1..Len(stream) : Waves[stream][k] = Wave(Waves[stream][k - 1], stream[k])
      BY <1>2, WavesAre DEF Recurs
    <3>2. (at + 1) - 1 = at
      BY <1>2
    <3>3. Waves[stream][at + 1] = Wave(Waves[stream][(at + 1) - 1], stream[at + 1])
      BY <1>3, <3>1
    <3> QED
      BY <2>2, <3>2, <3>3
  <2>4. a.vals = made /\ a.ticks = t
    OBVIOUS
  <2> HIDE DEF a
  <2>5. CASE Op(i) = "flux"
    <3>1. DecodeFlux(n) /\ state' = state
      BY <2>5 DEF Decode
    <3>2. Decoding'
      BY <2>1, <3>1 DEF Decoding
    <3>3. pc' = "decode" => Decoding'
      BY <3>2
    <3> DEFINE u == t + n
    <3>4. u \in Nat
      BY <1>2, <1>3
    <3>5. CASE u >= Width
      <4>1. write' = [write EXCEPT !.ticks = u, !.flux_mode = "oneshot"] /\ made' = made
        BY <3>1, <3>5 DEF DecodeFlux, out
      <4> HIDE DEF u
      <4>2. /\ write'.flux_mode = "oneshot" /\ write'.ticks = u
            /\ write'.is_finished = write.is_finished
        BY <1>2, <4>1 DEF WriteType
      <4>3. Due' = Split(made, u)
        BY <4>1, <4>2 DEF Due
      <4>4. Wave(a, i) = Split(made, u)
        BY <1>2, <2>4, <2>5, <3>4, <3>5 DEF Wave, u
      <4> QED
        BY <1>1, <2>2, <2>3, <3>2, <4>2, <4>3, <4>4 DEF Meant
    <3>6. CASE u < MinPulse
      <4>1. write' = [write EXCEPT !.ticks = u] /\ made' = made
        BY <1>2, <3>1, <3>4, <3>6 DEF DecodeFlux, out
      <4> HIDE DEF u
      <4>2. /\ write'.flux_mode = "idle" /\ write'.ticks = u
            /\ write'.is_finished = write.is_finished
        BY <1>1, <1>2, <4>1 DEF WriteType
      <4>3. Due' = [vals |-> made, ticks |-> u]
        BY <4>1, <4>2 DEF Due
      <4>4. Wave(a, i) = [a EXCEPT !.ticks = u]
        BY <1>2, <2>4, <2>5, <3>4, <3>6 DEF Wave, u
      <4>5. Wave(a, i) = [vals |-> made, ticks |-> u]
        BY <4>4 DEF a
      <4> QED
        BY <1>1, <2>2, <2>3, <3>2, <4>2, <4>3, <4>5 DEF Meant
    <3>7. CASE u \in MinPulse..(Width - 1)
      <4>1. Emit(u, 0, "idle")
        BY <1>2, <3>1, <3>4, <3>7 DEF DecodeFlux
      <4> HIDE DEF u
      <4>2. /\ made' = Append(made, u) /\ write'.ticks = 0
            /\ write'.flux_mode = "idle"
            /\ write'.is_finished = write.is_finished
        BY <1>1, <1>2, <1>5, <4>1, EmitIs
      <4>3. Due' = [vals |-> Append(made, u), ticks |-> 0]
        BY <4>2 DEF Due
      <4>4. Wave(a, i) = [vals |-> Append(made, u), ticks |-> 0]
        BY <1>2, <2>4, <2>5, <3>4, <3>7 DEF Wave, u
      <4> QED
        BY <1>1, <2>2, <2>3, <3>2, <4>2, <4>3, <4>4 DEF Meant
    <3>8. u >= Width \/ u < MinPulse \/ u \in MinPulse..(Width - 1)
      BY <1>2, <3>4
    <3> QED
      BY <3>5, <3>6, <3>7, <3>8
  <2>6. CASE Op(i) = "space"
    <3>1. /\ write' = [write EXCEPT !.ticks = @ + n] /\ made' = made /\ state' = state
      BY <2>6 DEF Decode, DecodeSpace, out
    <3> DEFINE u == t + n
    <3>2. write' = [write EXCEPT !.ticks = u]
      BY <3>1
    <3> HIDE DEF u
    <3>3. /\ write'.flux_mode = "idle" /\ write'.ticks = u
          /\ write'.is_finished = write.is_finished
      BY <1>1, <1>2, <3>2 DEF WriteType
    <3>4. Due' = [vals |-> made, ticks |-> u]
      BY <3>1, <3>3 DEF Due
    <3>5. Wave(a, i) = [a EXCEPT !.ticks = u]
      BY <2>4, <2>6 DEF Wave, u
    <3>6. Wave(a, i) = [vals |-> made, ticks |-> u]
      BY <3>5 DEF a
    <3>7. Decoding'
      BY <2>1, <3>1 DEF Decoding
    <3> QED
      BY <1>1, <2>2, <2>3, <3>3, <3>4, <3>6, <3>7 DEF Meant
  <2>7. CASE Op(i) = "astable" /\ ~BadPeriod(n)
    <3>1. /\ write' = [write EXCEPT !.astable_period = n, !.flux_mode = "astable"]
          /\ made' = made /\ state' = state
      BY <2>7 DEF Decode, DecodeAstable, out
    <3> DEFINE m == "astable"
    <3>2. write' = [write EXCEPT !.astable_period = n, !.flux_mode = m]
      BY <3>1
    <3> HIDE DEF m, n
    <3>3. /\ write'.flux_mode = m /\ write'.ticks = t /\ write'.astable_period = n
          /\ write'.is_finished = write.is_finished
      BY <1>2, <3>2 DEF WriteType
    <3>4. Due' = Region(made, t, n)
      BY <3>1, <3>3 DEF Due, m
    <3>5. Wave(a, i) = Region(made, t, n)
      BY <2>4, <2>7 DEF Wave, n
    <3>6. Decoding'
      BY <2>1, <3>1 DEF Decoding
    <3> QED
      BY <1>1, <2>2, <2>3, <3>3, <3>4, <3>5, <3>6 DEF Meant
  <2>8. CASE Op(i) = "astable" /\ BadPeriod(n)
    <3>1. state' = "write_flux_drain" /\ made' = made
      BY <2>8 DEF Decode, DecodeAstable, out
    <3> QED
      BY <1>1, <3>1, DrainMeant
  <2>9. CASE Op(i) = "end"
    <3>1. /\ write' = [write EXCEPT !.is_finished = TRUE] /\ made' = made /\ state' = state
      BY <2>9 DEF Decode, out
    <3> DEFINE f == TRUE
    <3>2. write' = [write EXCEPT !.is_finished = f]
      BY <3>1
    <3> HIDE DEF f
    <3>3. write'.flux_mode = "idle" /\ write'.ticks = t
      BY <1>1, <1>2, <3>2 DEF WriteType
    <3>4. Due' = [vals |-> made, ticks |-> t]
      BY <3>1, <3>3 DEF Due
    <3>5. Wave(a, i) = a
      BY <2>9 DEF Wave
    <3>6. Due' = Waves[stream][at + 1]
      BY <2>3, <3>4, <3>5 DEF a
    <3>7. at + 1 = Len(stream)
      BY <1>2, <1>3, <2>9, StreamAssumption
    <3>8. Decoding'
      BY <2>1, <3>1 DEF Decoding
    <3> QED
      BY <1>1, <3>3, <3>6, <3>7, <3>8 DEF Meant
  <2> QED
    BY <2>5, <2>6, <2>7, <2>8, <2>9 DEF Decode
<1> QED
  BY <1>4, <1>5

\* The other steps write nothing, end the write, or begin one.
LEMMA OthersMeant ==
  ASSUME IInv, Meant,
         \/ Send \/ IRQ_INDEX_changed \/ Take \/ Turn \/ DecodeOut
         \/ floppy_write_wait_data \/ floppy_write_wait_index \/ floppy_write
         \/ Poll \/ DrainNext \/ floppy_write_drain \/ UNCHANGED vars
  PROVE  Meant'
<1>1. UNCHANGED <<write, made, stream, at>>
  BY DEF Send, IRQ_INDEX_changed, Take, Turn, DecodeOut, floppy_write_wait_data,
         floppy_write_wait_index, floppy_write, Poll, DrainNext, floppy_write_drain,
         vars, host, out
<1>2. CASE Send \/ IRQ_INDEX_changed \/ Take \/ DecodeOut \/ DrainNext \/ UNCHANGED vars
  <2>1. state' = state /\ (pc' = pc \/ pc' \in {"after", "top"})
    BY <1>2 DEF Send, IRQ_INDEX_changed, Take, DecodeOut, DrainNext, vars
  <2>2. Decoding <=> Decoding'
    BY <2>1 DEF Decoding
  <2> QED
    BY <1>1, <2>1, <2>2, StaysMeant DEF Meant
<1>3. CASE Turn
  <2>1. state' = state /\ state \in {"write_flux_wait_data", "write_flux", "write_flux_drain"}
    BY <1>3 DEF Turn
  <2>2. (Decoding <=> Decoding') /\ (Decoding' \/ state' = "write_flux_drain")
    BY <2>1 DEF Decoding, Before
  <2> QED
    BY <1>1, <2>2, StaysMeant
<1>4. CASE floppy_write_wait_data
  <2>1. /\ pc' = "top" /\ state = "write_flux_wait_data"
        /\ state' \in {"write_flux_wait_data", "write_flux_wait_index"}
    BY <1>4 DEF floppy_write_wait_data
  <2>2. Decoding /\ Decoding'
    BY <2>1 DEF Decoding, Before
  <2> QED
    BY <1>1, <2>1, <2>2, StaysMeant
<1>5. CASE floppy_write_wait_index
  <2>1. /\ pc' = "top" /\ state = "write_flux_wait_index"
        /\ state' \in {"write_flux_drain", "write_flux"}
    BY <1>5 DEF floppy_write_wait_index
  <2>2. CASE state' = "write_flux"
    <3>1. Decoding /\ Decoding'
      BY <2>1, <2>2 DEF Decoding, Before
    <3> QED
      BY <1>1, <2>1, <3>1, StaysMeant
  <2>3. CASE state' = "write_flux_drain"
    BY <1>1, <2>1, <2>3, DrainMeant
  <2> QED
    BY <2>1, <2>2, <2>3
<1>6. CASE floppy_write \/ Poll
  <2>1. /\ state' = state \/ state' = "write_flux_drain"
        /\ pc' \in {"top", "poll", pc} /\ pc # "decode"
    BY <1>6 DEF floppy_write, Poll, Drain
  <2>2. CASE state' = "write_flux_drain"
    BY <1>1, <2>1, <2>2, DrainMeant
  <2>3. CASE state' = state
    <3>1. Decoding <=> Decoding'
      BY <2>3 DEF Decoding
    <3> QED
      BY <1>1, <2>1, <3>1, StaysMeant
  <2> QED
    BY <2>1, <2>2, <2>3
<1>7. CASE floppy_write_drain
  BY <1>1, <1>7, DrainMeant DEF floppy_write_drain
<1> QED
  BY <1>2, <1>3, <1>4, <1>5, <1>6, <1>7

\* Nothing was read or written at the start of a write.
LEMMA FreshMeant ==
  ASSUME NEW s \in Streams
  PROVE  /\ Waves[s][0] = [vals |-> <<>>, ticks |-> 0]
         /\ Begins(<<>>, Wanted[s])
<1>1. Waves[s][0] = [vals |-> <<>>, ticks |-> 0]
  BY WavesAre DEF Recurs, Nothing
<1>2. Len(s) \in Nat /\ Len(s) \in 0..Len(s)
  BY StreamAssumption, LenProperties
<1>3. Wanted[s] \in Seq(Nat)
  BY <1>2, WavesType DEF Wanted
<1>4. Len(Wanted[s]) \in Nat /\ Len(<<>>) = 0
  BY <1>3, LenProperties, EmptySeq
<1> QED
  BY <1>1, <1>4 DEF Begins

\* The state before the first write.
LEMMA InitMeant == Init => Meant
<1> SUFFICES ASSUME Init PROVE Meant
  OBVIOUS
<1>1. state = "command_wait" /\ pc = "top" /\ stream \in Streams /\ made = <<>>
  BY DEF Init
<1>2. ~Decoding
  BY <1>1 DEF Decoding, Before
<1> QED
  BY <1>1, <1>2, FreshMeant DEF Meant

\* Setting up a write.
LEMMA PrepMeant ==
  ASSUME NEW s \in Streams, NEW cue \in BOOLEAN, NEW terminate \in BOOLEAN,
         floppy_write_prep(s, cue, terminate)
  PROVE  Meant'
<1>1. /\ pc' = "top" /\ stream' = s /\ at' = 0 /\ made' = <<>>
      /\ state' = "write_flux_wait_data"
      /\ write' = [Idle EXCEPT !.cue = cue, !.terminate = terminate]
  BY DEF floppy_write_prep
<1>2. write'.flux_mode = "idle" /\ write'.ticks = 0 /\ ~write'.is_finished
  BY <1>1 DEF Idle
<1>3. Due' = [vals |-> <<>>, ticks |-> 0]
  BY <1>1, <1>2 DEF Due
<1>4. Decoding'
  BY <1>1 DEF Decoding, Before
<1> QED
  BY <1>1, <1>2, <1>3, <1>4, FreshMeant DEF Meant

(* However packets and calls of the decoder cut a stream, the values written *)
(* are the first ones of what it means, and all of them once its end is read. *)
THEOREM DecodesRight == Spec => []DecodesTo
<1>1. IInv /\ Meant => DecodesTo
  <2> SUFFICES ASSUME IInv, Meant PROVE DecodesTo
    OBVIOUS
  <2>1. /\ made \in Seq(Nat) /\ stream \in Streams /\ Len(stream) \in Nat
        /\ Len(stream) \in 0..Len(stream)
    BY DecoderTypes
  <2>2. Wanted[stream] \in Seq(Nat) /\ Wanted[stream] = Waves[stream][Len(stream)].vals
    BY <2>1, WavesType DEF Wanted
  <2>3. Begins(made, Wanted[stream])
    BY MeantBegins
  <2>4. IsPrefix(made, Wanted[stream])
    <3> DEFINE w == Wanted[stream]
               b == SubSeq(w, 1, Len(made))
    <3>1. /\ Len(made) \in Nat /\ Len(w) \in Nat /\ Len(made) <= Len(w)
          /\ \A k \in 1..Len(made) : w[k] = made[k]
      BY <2>1, <2>2, <2>3, LenProperties DEF Begins
    <3>2. \A k \in 1..Len(made) : w[k] \in Nat
      BY <2>2, <3>1, ElementOfSeq
    <3> HIDE DEF w
    <3>3. /\ b \in Seq(Nat) /\ Len(b) = Len(made)
          /\ \A k \in 1..Len(made) : b[k] = w[k]
      BY <3>1, <3>2, SubSeqProperties
    <3>4. b = made
      BY <2>1, <3>1, <3>3, SeqEqual
    <3>5. SubSeq(made, 1, Len(made)) = made
      BY <2>1, SubSeqFull
    <3> QED
      BY <3>1, <3>4, <3>5 DEF IsPrefix, w
  <2>5. ASSUME Decoding, write.is_finished PROVE made = Wanted[stream]
    <3>1. at = Len(stream) /\ write.flux_mode = "idle" /\ Due = Waves[stream][at]
      BY <2>5 DEF Meant
    <3> QED
      BY <2>2, <3>1 DEF Due
  <2> QED
    BY <2>4, <2>5 DEF DecodesTo, Decoding
<1>2. IInv /\ Meant /\ [Next]_vars => Meant'
  BY PrepMeant, AstableMeant, OneshotMeant, DecodeMeant, OthersMeant DEF Next, MainLoop
<1> QED
  BY <1>1, <1>2, InitMeant, Invariance, PTL DEF Spec

-----------------------------------------------------------------------------
(* The decoder stays ahead of the DMA engine.                              *)

\* The values in the ring, and how many more it could have held when the main
\* loop last moved on.
Lead == Len(made) - taken
Lag == Ring - 1 - Lead - pace

\* The values decoded since the call that ended at opcode i; the ring was close
\* to full at such a call, not long ago.
Since(i) == Len(made) - Len(Waves[stream][i - 1].vals)
Near(n) == \E i \in Cuts(stream) : i <= at /\ Since(i) >= 0 /\ Lag + Since(i) <= n

Slot(x) == IF x < Ring THEN x ELSE x - Ring

\* The slots from cons on hold the values the DMA engine has yet to take.
RingInv ==
  /\ dma \in [prod : 0..(Ring - 1), cons : 0..(Ring - 1), buf : [0..(Ring - 1) -> Nat]]
  /\ taken \in 0..Len(made) /\ stale \in 0..Speed /\ Lead <= Ring - 1
  /\ ~torn /\ (stale > 0 => write.is_finished /\ Lead = 0)
  /\ dma.prod - dma.cons - (Lead - stale) \in {0, -Ring, Ring}
  /\ \A k \in 0..(Lead - 1) : dma.buf[Slot(dma.cons + k)] = taken + 1 + k

\* The bytes on their way, of which no more are in u_buf than it has room for.
BytesKept ==
  u_prod \in Nat /\ usb_packet \in Nat /\ rx \in Nat /\ Level <= UBufSz

\* The constants that the arithmetic is about.
LEMMA Margins ==
  /\ Ring \in Nat /\ Speed \in Nat /\ Speed >= 1 /\ Ring >= 4 * Speed + 2
  /\ UBufSz \in Nat /\ OpLen \in Nat /\ LowWater \in Nat /\ 2 <= OpLen /\ OpLen <= LowWater
  BY WriteAssumption

\* A position up to one turn of the ring beyond its end.
LEMMA Wraps ==
  ASSUME NEW x \in 0..(2 * Ring - 1)
  PROVE  x % Ring = Slot(x) /\ Slot(x) \in 0..(Ring - 1)
<1>1. Ring \in Nat \ {0} /\ x \in Nat
  BY Margins
<1>2. /\ x < Ring => (x % Ring) = x
      /\ x >= Ring => (x - Ring) % Ring = (x % Ring)
  BY <1>1, OnePeriod
<1>3. CASE x < Ring
  BY <1>1, <1>2, <1>3 DEF Slot
<1>4. CASE x >= Ring
  <2> DEFINE y == x - Ring
  <2>1. y \in Nat /\ y < Ring
    BY <1>1, <1>4
  <2>2. (y % Ring) = y
    BY <1>1, <2>1, OnePeriod
  <2>3. (x % Ring) = y
    BY <1>2, <1>4, <2>2
  <2>4. Slot(x) = y
    BY <1>1, <1>4 DEF Slot
  <2> HIDE DEF y
  <2> QED
    BY <1>1, <2>1, <2>3, <2>4
<1> QED
  BY <1>1, <1>3, <1>4

\* The consumer moves on by a slot.
LEMMA NextSlot ==
  ASSUME NEW p \in 0..(Ring - 1), NEW c \in 0..(Ring - 1), NEW n \in Int, n > -Ring,
         p - c - n \in {0, -Ring, Ring}
  PROVE  /\ Slot(c + 1) \in 0..(Ring - 1)
         /\ p - Slot(c + 1) - (n - 1) \in {0, -Ring, Ring}
         /\ \A k \in 0..(Ring - 2) : Slot(Slot(c + 1) + k) = Slot(c + (k + 1))
<1>1. Ring \in Nat /\ Ring >= 2
  BY Margins
<1> QED
  BY <1>1 DEF Slot

\* The producer moves on by a slot.
LEMMA NextProducer ==
  ASSUME NEW p \in 0..(Ring - 1), NEW c \in 0..(Ring - 1), NEW n \in 0..(Ring - 1),
         p - c - n \in {0, -Ring, Ring}
  PROVE  /\ Slot(p + 1) = (IF p = Ring - 1 THEN 0 ELSE p + 1)
         /\ Slot(p + 1) - c - (n + 1) \in {0, -Ring, Ring}
<1>1. Ring \in Nat /\ Ring >= 2
  BY Margins
<1>2. Slot(p + 1) = (IF p = Ring - 1 THEN 0 ELSE p + 1)
  BY <1>1 DEF Slot
<1>3. CASE p = Ring - 1
  BY <1>1, <1>2, <1>3
<1>4. CASE p # Ring - 1
  BY <1>1, <1>2, <1>4
<1> QED
  BY <1>2, <1>3, <1>4

\* The producer is as far behind the consumer's slot as there are values.
LEMMA ProducerSlot ==
  ASSUME RingInv, stale = 0, made \in Seq(Nat)
  PROVE  /\ Slot(dma.cons + Lead) = dma.prod
         /\ \A k \in 0..(Lead - 1) : Slot(dma.cons + k) \in 0..(Ring - 1)
                                     /\ Slot(dma.cons + k) # dma.prod
<1>1. /\ dma.prod \in 0..(Ring - 1) /\ dma.cons \in 0..(Ring - 1) /\ Lead \in 0..(Ring - 1)
      /\ Ring \in Nat /\ dma.prod - dma.cons - Lead \in {0, -Ring, Ring}
  <2>1. Lead \in Int /\ Lead >= 0 /\ Len(made) \in Nat
    BY LenProperties DEF RingInv, Lead
  <2> QED
    BY <2>1, Margins DEF RingInv
<1> DEFINE p == dma.prod
           c == dma.cons
           n == Lead
<1>2. /\ p \in 0..(Ring - 1) /\ c \in 0..(Ring - 1) /\ n \in 0..(Ring - 1)
      /\ p - c - n \in {0, -Ring, Ring}
  BY <1>1
<1> HIDE DEF p, c, n
<1>3. Slot(c + n) = p
  BY <1>1, <1>2 DEF Slot
<1>4. \A k \in 0..(n - 1) : Slot(c + k) \in 0..(Ring - 1) /\ Slot(c + k) # p
  BY <1>1, <1>2 DEF Slot
<1> QED
  BY <1>3, <1>4 DEF p, c, n

\* What the numbers of the ring are.
LEMMA RingTypes ==
  ASSUME RingInv, made \in Seq(Nat)
  PROVE  /\ dma.prod \in 0..(Ring - 1) /\ dma.cons \in 0..(Ring - 1) /\ Lead \in 0..(Ring - 1)
         /\ Len(made) \in Nat /\ taken \in Nat /\ Lead = Len(made) - taken
         /\ stale \in 0..Speed
BY LenProperties, Margins DEF RingInv, Lead

\* The DMA engine takes the next value, and its slot is right.
LEMMA TakeRing ==
  ASSUME RingInv, made \in Seq(Nat), stale = 0, Lead >= 1, TakeSlot,
         made' = made, write' = write
  PROVE  RingInv' /\ Lead' = Lead - 1 /\ stale' = 0 /\ dma'.prod = dma.prod
<1> DEFINE c == dma.cons
           d == (c + 1) % Ring
<1>1. /\ dma.prod \in 0..(Ring - 1) /\ c \in 0..(Ring - 1) /\ Lead \in 0..(Ring - 1)
      /\ Len(made) \in Nat /\ taken \in Nat /\ Lead = Len(made) - taken /\ Ring \in Nat
      /\ Speed \in Nat
  BY RingTypes, Margins
<1>2. c + 1 \in 0..(2 * Ring - 1)
  BY <1>1, Margins
<1>3. d = Slot(c + 1) /\ d \in 0..(Ring - 1)
  BY <1>2, Wraps
<1>4. dma.prod - c - Lead \in {0, -Ring, Ring}
  BY <1>1 DEF RingInv
<1>5. dma' = [dma EXCEPT !.cons = d]
  BY DEF TakeSlot
<1>6. /\ taken' = taken + 1 /\ stale' = 0
      /\ torn' = (torn \/ dma.buf[c] # taken + 1)
  BY <1>1 DEF TakeSlot
<1>7. ~torn'
  <2>1. 0 \in 0..(Lead - 1) /\ Slot(c + 0) = c
    BY <1>1 DEF Slot
  <2>2. dma.buf[Slot(c + 0)] = taken + 1 + 0
    BY <2>1 DEF RingInv
  <2>3. dma.buf[c] = taken + 1
    BY <1>1, <2>1, <2>2
  <2>4. ~torn
    BY DEF RingInv
  <2> QED
    BY <1>6, <2>3, <2>4
<1> HIDE DEF d
<1>8. Lead' = Lead - 1 /\ taken' \in 0..Len(made)
  BY <1>1, <1>6 DEF Lead
<1>9. dma'.prod = dma.prod /\ dma'.cons = d /\ dma'.buf = dma.buf
      /\ dma' \in [prod : 0..(Ring - 1), cons : 0..(Ring - 1), buf : [0..(Ring - 1) -> Nat]]
  BY <1>3, <1>5 DEF RingInv
<1>10. /\ dma.prod - d - (Lead - 1) \in {0, -Ring, Ring}
       /\ \A k \in 0..(Ring - 2) : Slot(d + k) = Slot(c + (k + 1))
  <2>1. Lead \in Int /\ Lead > -Ring
    BY <1>1
  <2>2. dma.prod \in 0..(Ring - 1) /\ c \in 0..(Ring - 1)
    BY <1>1
  <2> HIDE DEF c
  <2>3. /\ dma.prod - Slot(c + 1) - (Lead - 1) \in {0, -Ring, Ring}
        /\ \A k \in 0..(Ring - 2) : Slot(Slot(c + 1) + k) = Slot(c + (k + 1))
    BY <1>4, <2>1, <2>2, NextSlot
  <2> QED
    BY <1>3, <2>3
<1>11. ASSUME NEW k \in 0..(Lead' - 1) PROVE dma.buf[Slot(d + k)] = taken' + 1 + k
  <2>1. Slot(d + k) = Slot(c + (k + 1)) /\ k + 1 \in 0..(Lead - 1)
    BY <1>1, <1>8, <1>10
  <2>2. dma.buf[Slot(c + (k + 1))] = taken + 1 + (k + 1)
    BY <2>1 DEF RingInv
  <2> QED
    BY <1>1, <1>6, <2>1, <2>2
<1>12. dma'.prod - dma'.cons - (Lead' - stale') \in {0, -Ring, Ring}
  BY <1>1, <1>6, <1>8, <1>9, <1>10
<1>13. \A k \in 0..(Lead' - 1) : dma'.buf[Slot(dma'.cons + k)] = taken' + 1 + k
  BY <1>9, <1>11
<1>14. /\ taken' \in 0..Len(made') /\ stale' \in 0..Speed /\ Lead' <= Ring - 1 /\ ~(stale' > 0)
  BY <1>1, <1>6, <1>8
<1> QED
  BY <1>6, <1>7, <1>8, <1>9, <1>12, <1>13, <1>14 DEF RingInv

\* The DMA engine runs past the last value.
LEMMA OverrunRing ==
  ASSUME RingInv, made \in Seq(Nat), Lead = 0, stale < Speed, TakeSlot, write.is_finished,
         made' = made, write' = write
  PROVE  RingInv' /\ Lead' = 0 /\ stale' = stale + 1 /\ dma'.prod = dma.prod
<1> DEFINE c == dma.cons
           p == dma.prod
           d == (c + 1) % Ring
           n == Lead - stale
<1>1. /\ p \in 0..(Ring - 1) /\ c \in 0..(Ring - 1) /\ Len(made) \in Nat /\ taken \in Nat
      /\ Ring \in Nat /\ Speed \in Nat /\ taken = Len(made) /\ stale \in Nat
      /\ Ring >= 4 * Speed + 2
  BY RingTypes, Margins
<1>2. c + 1 \in 0..(2 * Ring - 1)
  BY <1>1, Margins
<1>3. d = Slot(c + 1) /\ d \in 0..(Ring - 1)
  BY <1>2, Wraps
<1>4. p - c - n \in {0, -Ring, Ring} /\ n \in Int /\ n > -Ring
  BY <1>1 DEF RingInv
<1>5. dma' = [dma EXCEPT !.cons = d]
  BY DEF TakeSlot
<1>6. taken' = taken /\ torn' = torn /\ stale' = stale + 1
  BY <1>1 DEF TakeSlot
<1> HIDE DEF d
<1>7. dma'.prod = p /\ dma'.cons = d /\ dma'.buf = dma.buf
      /\ dma' \in [prod : 0..(Ring - 1), cons : 0..(Ring - 1), buf : [0..(Ring - 1) -> Nat]]
  BY <1>3, <1>5 DEF RingInv
<1>8. Lead' = 0
  BY <1>1, <1>6 DEF Lead
<1>9. p - d - (n - 1) \in {0, -Ring, Ring}
  <2> HIDE DEF c, p, n
  <2>1. p - Slot(c + 1) - (n - 1) \in {0, -Ring, Ring}
    BY <1>1, <1>4, NextSlot
  <2> QED
    BY <1>3, <2>1
<1>10. dma'.prod - dma'.cons - (Lead' - stale') \in {0, -Ring, Ring}
  BY <1>1, <1>6, <1>7, <1>8, <1>9
<1>11. \A k \in 0..(Lead' - 1) : dma'.buf[Slot(dma'.cons + k)] = taken' + 1 + k
  BY <1>8
<1>12. /\ taken' \in 0..Len(made') /\ stale' \in 0..Speed /\ Lead' <= Ring - 1
  BY <1>1, <1>6, <1>8
<1>13. ~torn' /\ write'.is_finished
  BY <1>6 DEF RingInv
<1> QED
  BY <1>6, <1>7, <1>8, <1>10, <1>11, <1>12, <1>13 DEF RingInv

\* A value goes into the ring.
LEMMA EmitRing ==
  ASSUME RingInv, made \in Seq(Nat), stale = 0, Lead <= Ring - 2, NEW v, NEW t, NEW m,
         Emit(v, t, m), state # "write_flux_drain",
         taken' = taken, stale' = stale, torn' = torn, made' \in Seq(Nat)
  PROVE  /\ RingInv' /\ Lead' = Lead + 1 /\ Len(made') = Len(made) + 1
         /\ dma'.prod = (IF dma.prod = Ring - 1 THEN 0 ELSE dma.prod + 1)
<1> DEFINE c == dma.cons
           p == dma.prod
           d == (p + 1) % Ring
           n == Lead
           w == Len(made) + 1
<1>1. /\ p \in 0..(Ring - 1) /\ c \in 0..(Ring - 1) /\ Len(made) \in Nat /\ taken \in Nat
      /\ Ring \in Nat /\ Speed \in Nat /\ n = Len(made) - taken /\ n \in 0..(Ring - 1)
      /\ Ring >= 4 * Speed + 2 /\ Speed >= 1
  BY RingTypes, Margins
<1>2. p + 1 \in 0..(2 * Ring - 1)
  BY <1>1, Margins
<1>3. d = Slot(p + 1) /\ d \in 0..(Ring - 1)
  BY <1>2, Wraps
<1>4. d = (IF p = Ring - 1 THEN 0 ELSE p + 1) /\ d - c - (n + 1) \in {0, -Ring, Ring}
  <2>1. p - c - n \in {0, -Ring, Ring}
    BY <1>1 DEF RingInv
  <2> HIDE DEF p, c, n
  <2>2. /\ Slot(p + 1) = (IF p = Ring - 1 THEN 0 ELSE p + 1)
        /\ Slot(p + 1) - c - (n + 1) \in {0, -Ring, Ring}
    BY <1>1, <2>1, NextProducer
  <2> QED
    BY <1>3, <2>2
<1>5. made' = Append(made, v) /\ Len(made') = w
  BY <1>1 DEF Emit
<1>6. dma' = [dma EXCEPT !.buf[p] = w, !.prod = d]
  BY DEF Emit
<1> HIDE DEF d
<1>7. w \in Nat /\ w = taken + 1 + n
  BY <1>1
<1> HIDE DEF w
<1>8. /\ dma'.prod = d /\ dma'.cons = c /\ dma'.buf = [dma.buf EXCEPT ![p] = w]
      /\ dma' \in [prod : 0..(Ring - 1), cons : 0..(Ring - 1), buf : [0..(Ring - 1) -> Nat]]
  BY <1>1, <1>3, <1>6, <1>7 DEF RingInv
<1>9. Lead' = n + 1
  BY <1>1, <1>5 DEF Lead, w
<1>12. ASSUME NEW k \in 0..n PROVE dma'.buf[Slot(c + k)] = taken + 1 + k
  <2>1. /\ Slot(c + n) = p
        /\ \A j \in 0..(n - 1) : Slot(c + j) \in 0..(Ring - 1) /\ Slot(c + j) # p
    BY ProducerSlot
  <2>2. dma.buf \in [0..(Ring - 1) -> Nat]
    BY DEF RingInv
  <2>3. CASE k = n
    BY <1>1, <1>7, <1>8, <2>1, <2>2, <2>3
  <2>4. CASE k # n
    <3>1. k \in 0..(n - 1)
      BY <1>1, <2>4
    <3>2. dma.buf[Slot(c + k)] = taken + 1 + k
      BY <3>1 DEF RingInv
    <3> QED
      BY <1>1, <1>8, <2>1, <2>2, <3>1, <3>2
  <2> QED
    BY <2>3, <2>4
<1>13. \A k \in 0..(Lead' - 1) : dma'.buf[Slot(dma'.cons + k)] = taken' + 1 + k
  <2>1. \A k \in 0..n : dma'.buf[Slot(dma'.cons + k)] = taken' + 1 + k
    BY <1>8, <1>12
  <2>2. Lead' - 1 = n
    BY <1>1, <1>9
  <2> QED
    BY <2>1, <2>2
<1>14. dma'.prod - dma'.cons - (Lead' - stale') \in {0, -Ring, Ring}
  BY <1>1, <1>4, <1>8, <1>9
<1>15. /\ taken' \in 0..Len(made') /\ stale' \in 0..Speed /\ Lead' <= Ring - 1
       /\ ~torn' /\ ~(stale' > 0)
  BY <1>1, <1>5, <1>9 DEF RingInv, w
<1> QED
  BY <1>4, <1>5, <1>8, <1>9, <1>13, <1>14, <1>15 DEF RingInv, w

\* The stretch that may be filled, in numbers.
LEMMA RoomIs ==
  ASSUME RingInv, made \in Seq(Nat), stale = 0
  PROVE  Room =
           (IF Ring - dma.prod <= Ring - 1 - Lead THEN Ring - dma.prod ELSE Ring - 1 - Lead)
<1> DEFINE p == dma.prod
           c == dma.cons
           n == Lead
           x == c - p + Ring - 1
           a == Ring - p
           b == Ring - 1 - n
<1>1. /\ p \in 0..(Ring - 1) /\ c \in 0..(Ring - 1) /\ n \in 0..(Ring - 1)
      /\ Ring \in Nat \ {0}
  BY RingTypes, Margins
<1>2. p - c - n \in {0, -Ring, Ring}
  BY <1>1 DEF RingInv
<1>3. Room = Min({a, x % Ring})
  BY DEF Room
<1> HIDE DEF p, c, n
<1>4. x \in 0..(2 * Ring - 1) /\ (x = b \/ x = b + Ring) /\ b \in 0..(Ring - 1)
  BY <1>1, <1>2
<1> HIDE DEF x
<1>5. (x % Ring) = b
  <2>1. (x % Ring) = Slot(x)
    BY <1>4, Wraps
  <2> QED
    BY <1>1, <1>4, <2>1 DEF Slot
<1>6. a \in Int /\ b \in Int
  BY <1>1
<1> HIDE DEF a, b
<1>7. Min({a, b}) = (IF a <= b THEN a ELSE b)
  BY <1>6 DEF Min
<1>8. Room = (IF a <= b THEN a ELSE b)
  BY <1>3, <1>5, <1>7
<1> QED
  BY <1>8 DEF a, b, p, n

\* What the drain loop reads as left in the ring.
LEMMA LeftIs ==
  ASSUME RingInv, made \in Seq(Nat)
  PROVE  /\ stale = 0 => (dma.prod - dma.cons + Ring) % Ring = Lead
         /\ stale > 0 => (dma.prod - dma.cons + Ring) % Ring = Ring - stale
<1> DEFINE p == dma.prod
           c == dma.cons
           n == Lead
           x == p - c + Ring
<1>1. /\ p \in 0..(Ring - 1) /\ c \in 0..(Ring - 1) /\ n \in 0..(Ring - 1)
      /\ Ring \in Nat \ {0}
      /\ stale \in 0..Speed /\ Speed \in Nat /\ Ring >= 4 * Speed + 2
  BY RingTypes, Margins
<1>2. p - c - (n - stale) \in {0, -Ring, Ring} /\ (stale > 0 => n = 0)
  BY <1>1 DEF RingInv
<1> HIDE DEF p, c, n
<1>3. /\ x \in 0..(2 * Ring - 1)
      /\ stale = 0 => x = n \/ x = n + Ring
      /\ stale > 0 => x = Ring - stale \/ x = 2 * Ring - stale
  BY <1>1, <1>2
<1> HIDE DEF x
<1>4. (x % Ring) = Slot(x)
  BY <1>3, Wraps
<1>5. /\ stale = 0 => (x % Ring) = n
      /\ stale > 0 => (x % Ring) = Ring - stale
  <2>1. Slot(x) = IF x < Ring THEN x ELSE x - Ring
    BY DEF Slot
  <2>2. CASE stale = 0
    <3>1. Slot(x) = n
      BY <1>1, <1>3, <2>1, <2>2
    <3> QED
      BY <1>4, <2>2, <3>1
  <2>3. CASE stale > 0
    <3>1. Slot(x) = Ring - stale
      BY <1>1, <1>3, <2>1, <2>3
    <3> QED
      BY <1>1, <1>4, <2>3, <3>1
  <2> QED
    BY <1>1, <2>2, <2>3
<1> QED
  BY <1>5 DEF x, n, p, c

-----------------------------------------------------------------------------
(* The bytes of a stream.                                                  *)

\* An opcode is a byte at least, and the longest are those of a space.
LEMMA BytesAre == \A i \in Opcode : Bytes(i) \in 1..OpLen
  BY Margins, WriteAssumption DEF Bytes, Opcode, Op, N

Counts(s, n, f) ==
  /\ f \in [0..n -> Nat] /\ f[0] = 0
  /\ \A i \in 1..n : f[i] = f[i - 1] + Bytes(s[i])

\* The bytes of the first opcodes can be counted.
LEMMA CountExists ==
  ASSUME NEW s \in Streams
  PROVE  \E f : Counts(s, Len(s), f)
<1> DEFINE Bad == {n \in 0..Len(s) : ~ \E f : Counts(s, n, f)}
<1>1. s \in Seq(Opcode) /\ Len(s) \in Nat /\ \A i \in 1..Len(s) : s[i] \in Opcode
  BY StreamAssumption, ElementOfSeq, LenProperties
<1>2. Bad = {}
  <2> SUFFICES ASSUME Bad # {} PROVE FALSE
    OBVIOUS
  <2>1. Bad \in SUBSET Nat
    BY <1>1
  <2>2. PICK n \in Bad : \A k \in Bad : n <= k
    BY <2>1, LeastNat
  <2>3. n \in 0..Len(s) /\ ~ \E f : Counts(s, n, f)
    BY <2>2
  <2>4. CASE n = 0
    <3> DEFINE f == [i \in 0..0 |-> 0]
    <3>1. Counts(s, 0, f)
      BY DEF Counts
    <3> QED
      BY <2>3, <2>4, <3>1
  <2>5. CASE n > 0
    <3>1. n - 1 \in 0..Len(s) /\ n - 1 \notin Bad
      BY <1>1, <2>1, <2>2, <2>3, <2>5
    <3>2. PICK g : Counts(s, n - 1, g)
      BY <3>1
    <3> HIDE DEF Bad
    <3>3. g \in [0..(n - 1) -> Nat] /\ g[n - 1] \in Nat /\ s[n] \in Opcode
      BY <1>1, <2>3, <2>5, <3>2 DEF Counts
    <3> DEFINE last == g[n - 1] + Bytes(s[n])
               f == [i \in 0..n |-> IF i = n THEN last ELSE g[i]]
    <3>4. last \in Nat
      BY <3>3, BytesAre, Margins
    <3>5. f[n] = last /\ \A i \in 0..(n - 1) : f[i] = g[i]
      BY <2>3, <2>5
    <3>6. f \in [0..n -> Nat]
      <4> HIDE DEF last
      <4> QED
        BY <2>3, <2>5, <3>3, <3>4
    <3>7. f[0] = 0
      BY <2>3, <2>5, <3>2, <3>5 DEF Counts
    <3>8. ASSUME NEW i \in 1..n PROVE f[i] = f[i - 1] + Bytes(s[i])
      <4>1. f[i - 1] = g[i - 1]
        BY <2>3, <2>5, <3>5
      <4> HIDE DEF f
      <4>2. CASE i = n
        BY <3>5, <4>1, <4>2
      <4>3. CASE i # n
        <5>1. i \in 1..(n - 1) /\ i \in 0..(n - 1)
          BY <2>3, <4>3
        <5>2. f[i] = g[i]
          BY <3>5, <5>1
        <5>3. g[i] = g[i - 1] + Bytes(s[i])
          BY <3>2, <5>1 DEF Counts
        <5> QED
          BY <4>1, <5>2, <5>3
      <4> QED
        BY <4>2, <4>3
    <3> HIDE DEF f, last
    <3>9. Counts(s, n, f)
      BY <3>6, <3>7, <3>8 DEF Counts
    <3> QED
      BY <2>3, <3>9
  <2>6. n = 0 \/ n > 0
    BY <1>1, <2>3
  <2> QED
    BY <2>4, <2>5, <2>6
<1> QED
  BY <1>1, <1>2

\* End counts them.
LEMMA EndIs ==
  ASSUME NEW s \in Streams
  PROVE  Counts(s, Len(s), End[s])
<1> DEFINE Step(f) == [i \in 0..Len(s) |-> IF i = 0 THEN 0 ELSE f[i - 1] + Bytes(s[i])]
           w == CHOOSE f : f = Step(f)
<1>1. Len(s) \in Nat
  BY StreamAssumption, LenProperties
<1>2. PICK f : Counts(s, Len(s), f)
  BY CountExists
<1>3. f = Step(f)
  <2>1. f \in [0..Len(s) -> Nat]
    BY <1>2 DEF Counts
  <2>2. ASSUME NEW i \in 0..Len(s)
        PROVE  f[i] = IF i = 0 THEN 0 ELSE f[i - 1] + Bytes(s[i])
    BY <1>1, <1>2 DEF Counts
  <2> QED
    BY <2>1, <2>2
<1>4. w = Step(w)
  <2> HIDE DEF Step
  <2> QED
    BY <1>3
<1>5. End[s] = w
  BY Zenon DEF End
<1> HIDE DEF w
<1>6. End[s] = Step(End[s])
  BY <1>4, <1>5
<1> DEFINE v == End[s]
<1> HIDE DEF v
<1>7. v = Step(v)
  BY <1>6 DEF v
<1>8. v[0] = 0 /\ \A i \in 1..Len(s) : v[i] = v[i - 1] + Bytes(s[i])
  BY <1>1, <1>7
<1>9. \A i \in 1..Len(s) : Bytes(s[i]) \in Nat
  <2>1. \A i \in 1..Len(s) : s[i] \in Opcode
    BY StreamAssumption, ElementOfSeq
  <2> QED
    BY <2>1, BytesAre, Margins
<1> DEFINE Bad == {n \in 0..Len(s) : v[n] \notin Nat}
<1>10. Bad = {}
  <2> SUFFICES ASSUME Bad # {} PROVE FALSE
    OBVIOUS
  <2>1. Bad \in SUBSET Nat
    BY <1>1
  <2>2. PICK n \in Bad : \A k \in Bad : n <= k
    BY <2>1, LeastNat
  <2>3. n \in 0..Len(s) /\ v[n] \notin Nat
    BY <2>2
  <2>4. n # 0
    BY <1>8, <2>3
  <2>5. n \in 1..Len(s) /\ n - 1 \in 0..Len(s) /\ n - 1 \notin Bad
    BY <1>1, <2>1, <2>2, <2>3, <2>4
  <2>6. v[n - 1] \in Nat
    BY <2>5
  <2> QED
    BY <1>8, <1>9, <2>3, <2>5, <2>6
<1>11. \A n \in 0..Len(s) : v[n] \in Nat
  BY <1>10
<1>12. v \in [0..Len(s) -> Nat]
  BY <1>7, <1>11
<1> QED
  BY <1>8, <1>12 DEF Counts, v

\* Each opcode ends after those before it.
LEMMA EndGrows ==
  ASSUME NEW s \in Streams, NEW j \in 0..Len(s), NEW i \in 0..j
  PROVE  End[s][i] \in Nat /\ End[s][j] \in Nat /\ End[s][i] <= End[s][j]
<1> DEFINE v == End[s]
           Bad == {n \in 0..Len(s) : \E k \in 0..n : ~(v[k] <= v[n])}
<1>1. Len(s) \in Nat /\ \A k \in 1..Len(s) : Bytes(s[k]) \in Nat
  <2>1. \A k \in 1..Len(s) : s[k] \in Opcode
    BY StreamAssumption, ElementOfSeq
  <2> QED
    BY <2>1, BytesAre, Margins, StreamAssumption, LenProperties
<1>2. /\ \A k \in 0..Len(s) : v[k] \in Nat
      /\ \A k \in 1..Len(s) : v[k] = v[k - 1] + Bytes(s[k])
  BY EndIs DEF Counts
<1> HIDE DEF v
<1>3. Bad = {}
  <2> SUFFICES ASSUME Bad # {} PROVE FALSE
    OBVIOUS
  <2>1. Bad \in SUBSET Nat
    BY <1>1
  <2>2. PICK n \in Bad : \A k \in Bad : n <= k
    BY <2>1, LeastNat
  <2>3. n \in 0..Len(s)
    BY <2>2
  <2>4. PICK k \in 0..n : ~(v[k] <= v[n])
    BY <2>2
  <2>5. k # n
    BY <1>2, <2>3, <2>4
  <2>6. n \in 1..Len(s) /\ n - 1 \in 0..Len(s) /\ n - 1 \notin Bad /\ k \in 0..(n - 1)
    BY <1>1, <2>1, <2>2, <2>3, <2>4, <2>5
  <2>7. v[k] <= v[n - 1]
    BY <2>6
  <2> HIDE DEF Bad
  <2>8. /\ v[k] \in Nat /\ v[n - 1] \in Nat /\ Bytes(s[n]) \in Nat
      /\ v[n] = v[n - 1] + Bytes(s[n])
    BY <1>1, <1>2, <2>3, <2>6
  <2> QED
    BY <2>4, <2>7, <2>8
<1>4. i \in 0..Len(s)
  BY <1>1
<1> QED
  BY <1>2, <1>3, <1>4 DEF v

\* What u_buf holds shrinks by the opcode that is read.
LEMMA LevelIs ==
  ASSUME IInv, u_prod \in Nat
  PROVE  /\ u_cons \in Nat /\ Level \in Int /\ Level = u_prod - u_cons
         /\ at < Len(stream) => /\ End[stream][at + 1] = u_cons + Bytes(stream[at + 1])
                                /\ Bytes(stream[at + 1]) \in 1..OpLen
                                /\ End[stream][at + 1] <= End[stream][Len(stream)]
                                /\ End[stream][at + 1] \in Nat
                                /\ End[stream][Len(stream)] \in Nat
<1>1. stream \in Streams /\ at \in 0..Len(stream) /\ Len(stream) \in Nat
  BY DecoderTypes
<1>2. u_cons \in Nat
  BY <1>1, EndGrows DEF u_cons
<1>3. ASSUME at < Len(stream)
      PROVE  /\ End[stream][at + 1] = u_cons + Bytes(stream[at + 1])
             /\ Bytes(stream[at + 1]) \in 1..OpLen
             /\ End[stream][at + 1] <= End[stream][Len(stream)]
             /\ End[stream][at + 1] \in Nat /\ End[stream][Len(stream)] \in Nat
  <2> DEFINE k == at + 1
  <2>1. k \in 1..Len(stream) /\ k - 1 = at
    BY <1>1, <1>3
  <2>2. stream[k] \in Opcode
    BY <1>1, <2>1, StreamAssumption, ElementOfSeq
  <2>3. Len(stream) \in 0..Len(stream) /\ k \in 0..Len(stream)
    BY <1>1, <2>1
  <2>4. End[stream][k] = End[stream][k - 1] + Bytes(stream[k])
    BY <1>1, <2>1, EndIs DEF Counts
  <2>5. /\ End[stream][k] <= End[stream][Len(stream)] /\ End[stream][k] \in Nat
        /\ End[stream][Len(stream)] \in Nat
    BY <1>1, <2>3, EndGrows
  <2> QED
    BY <2>1, <2>2, <2>4, <2>5, BytesAre DEF u_cons
<1> QED
  BY <1>2, <1>3 DEF Level

-----------------------------------------------------------------------------
(* What holds besides, at each place of the main loop.                     *)

\* What is where: the DMA engine runs in one state only, and runs past the
\* last value only where the main loop waits for it.
Places ==
  /\ pace \in 0..Speed /\ todo \in Int
  /\ u_prod \in Nat /\ usb_packet \in Nat /\ rx \in Nat /\ Level <= UBufSz
  /\ timer = "running" <=> state = "write_flux"
  /\ pc = "poll" => state = "write_flux" /\ write.is_finished
  /\ Decoding /\ pc # "poll" => stale = 0
  /\ Decoding /\ at = Len(stream) => write.is_finished
  /\ state = "write_flux_wait_data" => taken = 0 /\ dma.cons = 0 /\ pace = 0
  /\ state = "write_flux_wait_index" => pc = "top" /\ pace = 0

\* The decoder has room for what it is to write.
Filling ==
  pc = "decode" /\ Decoding =>
    todo >= 1 /\ dma.prod + todo <= Ring /\ Lead + todo <= Ring - 1

\* A call of the decoder ends for want of bytes, or at one of the opcodes that end it.
Starved == write.flux_mode = "idle" /\ ~Complete
JustCut == at \in Cuts(stream) /\ Since(at) = 0

Waiting ==
  state = "write_flux_wait_data" =>
    /\ pc = "decode" => Len(made) + todo = Ring - 1
    /\ pc = "after" => write.is_finished \/ Starved \/ Len(made) = Ring - 1 \/ JustCut

\* How far the decoder may be behind after a turn.
Close ==
  \/ Lag <= 1
  \/ dma.prod = 0 /\ Lag <= 1 + Speed
  \/ Near(1 + Speed)
  \/ Lag + dma.prod <= 1 + 2 * Speed /\ Near(1 + 2 * Speed)

\* The same within a turn, with what is left to do.
AllDone == Lag <= todo
ToEnd == dma.prod + todo = Ring
InTurn ==
  \/ Lag <= 1 + Speed /\ (AllDone \/ ToEnd)
  \/ Lag + dma.prod <= 1 + 2 * Speed /\ AllDone
  \/ Near(1 + 2 * Speed) /\ (AllDone \/ ToEnd)
  \/ Near(1 + 3 * Speed) /\ AllDone

Ahead ==
  /\ state = "write_flux_wait_index" \/ (state = "write_flux" /\ pc = "top") =>
       (write.is_finished /\ Lag <= 1 + 2 * Speed) \/ (~write.is_finished /\ Close)
  /\ state = "write_flux" /\ pc # "poll" => Lag <= 1 + 3 * Speed
  /\ state = "write_flux" /\ pc = "decode" /\ ~write.is_finished => InTurn
  /\ state = "write_flux" /\ pc = "after" /\ ~write.is_finished => Close \/ Starved

\* The loop that waits for the ring to drain has not yet looked, or has seen what
\* was left then: what the DMA engine took since is at most pace.
Polling ==
  pc = "poll" =>
    \/ todo = Ring /\ stale = 0 /\ Lag <= 1 + 3 * Speed
    \/ todo \in 1..(Ring - 1) /\ Lead <= todo /\ todo <= Lead - stale + pace

Keeping == Places /\ RingInv /\ Filling /\ Waiting /\ Ahead /\ Polling /\ Whole

\* The numbers the steps below compare.
LEMMA Numbers ==
  ASSUME IInv, pace \in 0..Speed, RingInv
  PROVE  /\ dma.prod \in 0..(Ring - 1) /\ dma.cons \in 0..(Ring - 1) /\ Lead \in 0..(Ring - 1)
         /\ Len(made) \in Nat /\ taken \in Nat /\ Lead = Len(made) - taken
         /\ stale \in 0..Speed /\ pace \in 0..Speed /\ made \in Seq(Nat)
         /\ Lag \in Int /\ Lag = Ring - 1 - Lead - pace
         /\ stream \in Streams /\ at \in Nat /\ Len(stream) \in Nat
         /\ Ring \in Nat /\ Speed \in Nat /\ Speed >= 1 /\ Ring >= 4 * Speed + 2
BY DecoderTypes, RingTypes, Margins DEF Lag

\* The opcodes that end a call are opcodes of the stream.
LEMMA CutsAre ==
  ASSUME NEW s \in Streams, NEW i \in Cuts(s)
  PROVE  i \in 1..Len(s) /\ Len(s) \in Nat /\ Len(Waves[s][i - 1].vals) \in Nat
<1>1. i \in 1..Len(s) /\ Len(s) \in Nat
  BY StreamAssumption, LenProperties DEF Cuts
<1>2. i - 1 \in 0..Len(s)
  BY <1>1
<1> QED
  BY <1>1, <1>2, WavesType, LenProperties

\* A nearness at opcode i bounds the lag, and any larger one holds as well.
LEMMA NearBounds ==
  ASSUME stream \in Streams, Lag \in Int, Len(made) \in Nat, NEW n \in Int, Near(n)
  PROVE  Lag <= n /\ \A m \in Int : n <= m => Near(m)
<1>1. PICK i \in Cuts(stream) : i <= at /\ Since(i) >= 0 /\ Lag + Since(i) <= n
  BY DEF Near
<1>2. Since(i) \in Int
  BY CutsAre DEF Since
<1>3. Lag <= n
  BY <1>1, <1>2
<1>4. ASSUME NEW m \in Int, n <= m PROVE Near(m)
  <2>1. Lag + Since(i) <= m
    BY <1>1, <1>2, <1>4
  <2> QED
    BY <1>1, <2>1 DEF Near
<1> QED
  BY <1>3, <1>4

\* The values decoded since opcode i make up for a larger lag.
LEMMA NearKept ==
  ASSUME stream \in Streams, Lag \in Int, Lag' \in Int, Len(made) \in Nat, Len(made') \in Nat,
         at \in Nat, at' \in Nat, NEW n \in Int, NEW m \in Int, Near(n),
         stream' = stream, at <= at', Len(made) <= Len(made'),
         Lag' + Len(made') + n <= Lag + Len(made) + m
  PROVE  Near(m)'
<1>1. PICK i \in Cuts(stream) : i <= at /\ Since(i) >= 0 /\ Lag + Since(i) <= n
  BY DEF Near
<1> DEFINE w == Len(Waves[stream][i - 1].vals)
<1>2. w \in Nat /\ i \in Nat
  BY CutsAre
<1>3. Since(i) = Len(made) - w /\ Since(i)' = Len(made') - w
  BY DEF Since
<1> DEFINE b == at'
           k == Len(made')
           l == Lag'
<1>4. /\ b \in Nat /\ at <= b /\ k \in Nat /\ l \in Int /\ Since(i)' = k - w
      /\ Len(made) <= k /\ l + k + n <= Lag + Len(made) + m
  BY <1>3
<1> HIDE DEF w, b, k, l
<1>5. i <= b /\ k - w >= 0 /\ l + (k - w) <= m
  <2>1. i <= b
    BY <1>1, <1>2, <1>4
  <2>2. Len(made) - w >= 0 /\ Lag + (Len(made) - w) <= n
    BY <1>1, <1>3
  <2> QED
    BY <1>2, <1>4, <2>1, <2>2
<1>6. i <= at' /\ Since(i)' >= 0 /\ Lag' + Since(i)' <= m
  <2>1. i <= at'
    BY <1>5 DEF b
  <2>2. Since(i)' >= 0
    BY <1>4, <1>5
  <2>3. Lag' + Since(i)' <= m
    BY <1>4, <1>5 DEF l
  <2> QED
    BY <2>1, <2>2, <2>3
<1>7. i \in Cuts(stream)'
  BY DEF Cuts
<1> QED
  BY <1>6, <1>7 DEF Near

\* Once a call of the decoder ends at an opcode, that opcode is near.
LEMMA CutNear ==
  ASSUME JustCut', at' \in Nat, Lag' \in Int, NEW n \in Int, Lag' <= n
  PROVE  Near(n)'
<1>1. PICK i \in Cuts(stream)' : i = at'
  BY DEF JustCut
<1>2. Since(i)' = 0 /\ i <= at'
  BY <1>1 DEF JustCut, Since
<1> DEFINE l == Lag'
           d == Since(i)'
<1>3. l \in Int /\ l <= n /\ d = 0
  BY <1>2
<1> HIDE DEF l, d
<1>4. d >= 0 /\ l + d <= n
  BY <1>3
<1>5. Since(i)' >= 0 /\ Lag' + Since(i)' <= n
  BY <1>4 DEF l, d
<1> QED
  BY <1>1, <1>2, <1>5 DEF Near

-----------------------------------------------------------------------------
(* Steps that leave the ring alone.                                        *)

\* The level of u_buf depends on what was read into it and out of it.
LEMMA LevelSame ==
  ASSUME UNCHANGED <<stream, at, u_prod>>
  PROVE  u_cons' = u_cons /\ Level' = Level /\ (Complete <=> Complete')
BY DEF u_cons, Level, Complete

\* The ring keeps its values.
LEMMA RingSame ==
  ASSUME RingInv, UNCHANGED <<dma, made, taken, stale, torn>>,
         write.is_finished => write'.is_finished
  PROVE  RingInv' /\ Lead' = Lead
<1>1. Lead' = Lead
  BY DEF Lead
<1> QED
  BY <1>1 DEF RingInv

\* A step into the drain state, in it or out of it.
LEMMA DrainKeeps ==
  ASSUME RingInv, UNCHANGED <<dma, made, taken, stale, torn>>,
         write.is_finished => write'.is_finished,
         state' \in {"write_flux_drain", "command_wait"}, pc' # "poll", timer' # "running",
         pace' \in 0..Speed, todo' \in Int, u_prod' \in Nat, usb_packet' \in Nat,
         rx' \in Nat, Level' <= UBufSz, Whole'
  PROVE  Keeping'
<1>1. RingInv'
  BY RingSame
<1>2. ~Decoding'
  BY DEF Decoding, Before
<1>3. Places'
  BY <1>2 DEF Places
<1>4. Filling' /\ Waiting' /\ Ahead' /\ Polling'
  BY <1>2 DEF Filling, Waiting, Ahead, Polling
<1> QED
  BY <1>1, <1>3, <1>4 DEF Keeping

\* A write that is drained has ended already.
LEMMA DrainedWhole ==
  ASSUME Whole, state = "write_flux_drain", UNCHANGED <<made, stream, taken>>,
         status' \in {status, "bad_command"}, write'.terminate = write.terminate
  PROVE  Whole'
BY DEF Whole

\* The lag is the same in the next state.
LEMMA NearSame ==
  ASSUME IInv, pace \in 0..Speed, RingInv, UNCHANGED <<made, stream, at>>, Lag' = Lag,
         NEW n \in Int, Near(n)
  PROVE  Near(n)'
<1>1. /\ stream \in Streams /\ Lag \in Int /\ Len(made) \in Nat /\ at \in Nat
  BY Numbers
<1>2. /\ Lag' \in Int /\ Len(made') \in Nat /\ at' \in Nat /\ at <= at'
      /\ Len(made) <= Len(made') /\ Lag' + Len(made') + n <= Lag + Len(made) + n
  BY <1>1
<1> QED
  BY <1>1, <1>2, NearKept

\* A step that changes neither the lag nor what is to be done.
LEMMA LagSame ==
  ASSUME IInv, pace \in 0..Speed, RingInv, Ahead,
         UNCHANGED <<made, stream, at, write, state, pc, todo, u_prod>>,
         Lag' = Lag, dma'.prod = dma.prod
  PROVE  Ahead'
<1>1. /\ \A n \in Int : Near(n) => Near(n)'
      /\ Speed \in Nat
  BY NearSame, Margins
<1>2. Close => Close'
  BY <1>1 DEF Close
<1>3. InTurn => InTurn'
  BY <1>1 DEF InTurn, AllDone, ToEnd
<1>4. Starved => Starved'
  BY LevelSame DEF Starved
<1> QED
  BY <1>2, <1>3, <1>4 DEF Ahead

\* Nothing but the host's side and the index pulse has changed.
LEMMA QuietKeeps ==
  ASSUME IInv, Keeping, Send \/ IRQ_INDEX_changed \/ UNCHANGED vars
  PROVE  Keeping'
<1>1. /\ UNCHANGED <<state, status, pc, todo, stream, input, at, write, out, play>>
      /\ rx' \in Nat
  <2>1. CASE Send
    BY <2>1 DEF Send
  <2>2. CASE IRQ_INDEX_changed \/ UNCHANGED vars
    BY <2>2 DEF IRQ_INDEX_changed, vars, host, Keeping, Places
  <2> QED
    BY <2>1, <2>2
<1>2. /\ UNCHANGED <<usb_packet, u_prod, dma, made, timer, pace, taken, torn, stale>>
  BY <1>1 DEF input, out, play
<1>3. RingInv' /\ Lead' = Lead /\ Lag' = Lag /\ Level' = Level /\ (Starved => Starved')
  BY <1>1, <1>2, RingSame, LevelSame DEF Keeping, Lag, Starved
<1>4. Places' /\ Filling'
  BY <1>1, <1>2, <1>3 DEF Keeping, Places, Filling, Decoding
<1>5. Waiting' /\ Whole'
  BY <1>1, <1>2, <1>3 DEF Keeping, Waiting, Whole, JustCut, Since
<1>6. Ahead'
  BY <1>1, <1>2, <1>3, LagSame DEF Keeping, Places
<1>7. Polling'
  BY <1>1, <1>2, <1>3 DEF Keeping, Polling
<1> QED
  BY <1>3, <1>4, <1>5, <1>6, <1>7 DEF Keeping

-----------------------------------------------------------------------------
(* The DMA engine.                                                         *)

\* Outside the loop that waits for it to drain, the ring is not empty.
LEMMA NotEmpty ==
  ASSUME IInv, Keeping, timer = "running", pace < Speed
  PROVE  /\ pc # "poll" => Lead >= 1 /\ stale = 0
         /\ pc = "poll" /\ todo = Ring => Lead >= 1 /\ stale = 0
<1>1. (state = "write_flux" /\ Lag <= 1 + 3 * Speed) \/ pc = "poll"
  BY DEF Keeping, Places, Ahead
<1>2. /\ Lag = Ring - 1 - Lead - pace /\ Lead \in Nat /\ pace \in Nat /\ Speed \in Nat
      /\ Ring \in Nat /\ Ring >= 4 * Speed + 2
  BY Numbers DEF Keeping, Places
<1>3. pc # "poll" => stale = 0
  BY <1>1 DEF Keeping, Places, Decoding
<1>4. pc = "poll" /\ todo = Ring => Lag <= 1 + 3 * Speed /\ stale = 0
  BY <1>2 DEF Keeping, Polling
<1> QED
  BY <1>1, <1>2, <1>3, <1>4

\* Taking a value keeps the lag: there is one less in the ring, and one more was
\* taken in this turn.
LEMMA TakeKeeps ==
  ASSUME IInv, Keeping, Take
  PROVE  Keeping'
<1>1. /\ timer = "running" /\ pace < Speed /\ TakeSlot /\ pace' = pace + 1
      /\ UNCHANGED <<state, status, pc, todo, stream, rx, usb_packet, u_prod, at, write,
                     timer, made>>
  BY DEF Take, host, input
<1>2. /\ state = "write_flux" /\ RingInv /\ Places
  BY <1>1 DEF Keeping, Places
<1>3. /\ made \in Seq(Nat) /\ pace \in 0..Speed /\ Speed \in Nat /\ Lead \in Nat
      /\ stale \in Nat /\ todo \in Int /\ Lag \in Int /\ Lag = Ring - 1 - Lead - pace
      /\ Ring \in Nat /\ Ring >= 4 * Speed + 2 /\ pace' \in 0..Speed
  BY <1>1, <1>2, Numbers DEF Places
<1>4. Level' = Level /\ (Starved => Starved')
  BY <1>1, LevelSame DEF Starved
<1>5. CASE Lead >= 1 /\ stale = 0
  <2>1. RingInv' /\ Lead' = Lead - 1 /\ stale' = 0 /\ dma'.prod = dma.prod
    BY <1>1, <1>2, <1>3, <1>5, TakeRing
  <2>2. Lag' = Lag
    BY <1>1, <1>3, <2>1 DEF Lag
  <2>3. Places'
    BY <1>1, <1>2, <1>3, <1>4, <2>1 DEF Places, Decoding
  <2>4. Filling'
    <3>1. dma.prod \in Int
      BY <1>2 DEF RingInv
    <3> QED
      BY <1>1, <1>2, <1>3, <2>1, <3>1, Margins DEF Keeping, Filling, Decoding
  <2>5. Waiting' /\ Whole'
    BY <1>1, <1>2 DEF Waiting, Whole
  <2>6. Ahead'
    BY <1>1, <1>2, <1>3, <2>1, <2>2, LagSame DEF Keeping
  <2>7. Polling'
    BY <1>1, <1>3, <1>5, <2>1, <2>2 DEF Keeping, Polling
  <2> QED
    BY <2>1, <2>3, <2>4, <2>5, <2>6, <2>7 DEF Keeping
<1>6. CASE ~(Lead >= 1 /\ stale = 0)
  <2>1. pc = "poll" /\ todo # Ring
    BY <1>1, <1>6, NotEmpty
  <2>2. /\ todo \in 1..(Ring - 1) /\ Lead <= todo /\ todo <= Lead - stale + pace
        /\ write.is_finished
    BY <2>1 DEF Keeping, Polling, Places
  <2>3. Lead = 0
    BY <1>2, <1>3, <1>6 DEF RingInv
  <2>4. stale < Speed
    BY <1>1, <1>3, <2>2, <2>3
  <2>5. RingInv' /\ Lead' = 0 /\ stale' = stale + 1 /\ dma'.prod = dma.prod
    BY <1>1, <1>2, <1>3, <2>2, <2>3, <2>4, OverrunRing
  <2>6. Places'
    BY <1>1, <1>2, <1>3, <1>4, <2>1, <2>5 DEF Places, Decoding
  <2>7. Polling'
    BY <1>1, <1>3, <2>2, <2>3, <2>5 DEF Polling
  <2>8. Filling' /\ Waiting' /\ Ahead' /\ Whole'
    BY <1>1, <1>2, <2>1 DEF Filling, Waiting, Ahead, Whole
  <2> QED
    BY <2>5, <2>6, <2>7, <2>8 DEF Keeping
<1> QED
  BY <1>5, <1>6

-----------------------------------------------------------------------------
(* The decoder and its turns.                                              *)

\* A packet goes into u_buf only if there is room for all of it.
LEMMA PacketKeeps ==
  ASSUME IInv, BytesKept, floppy_process_write_packet, UNCHANGED <<stream, at>>
  PROVE  /\ u_prod' \in Nat /\ usb_packet' \in Nat /\ rx' \in Nat /\ Level' <= UBufSz
         /\ Level \in Int /\ Level' \in Int /\ Level <= Level'
<1> DEFINE n == IF usb_packet = 0 THEN rx ELSE usb_packet
<1>1. n \in Nat /\ u_prod \in Nat /\ rx \in Nat /\ usb_packet \in Nat /\ Level <= UBufSz
  BY DEF BytesKept
<1>2. u_cons \in Nat /\ Level = u_prod - u_cons /\ UBufSz \in Nat
  BY <1>1, LevelIs, Margins
<1>3. u_cons' = u_cons
  BY DEF u_cons
<1>4. /\ rx' = IF usb_packet = 0 THEN 0 ELSE rx
      /\ usb_packet' = IF UBufSz - Level >= n THEN 0 ELSE n
      /\ u_prod' = IF UBufSz - Level >= n THEN u_prod + n ELSE u_prod
  BY DEF floppy_process_write_packet
<1> HIDE DEF n
<1>5. u_prod' \in Nat /\ usb_packet' \in Nat /\ rx' \in Nat
  BY <1>1, <1>4
<1>6. u_prod' - u_cons <= UBufSz /\ u_prod' - u_cons \in Int /\ Level <= u_prod' - u_cons
  BY <1>1, <1>2, <1>4
<1>7. Level \in Int
  BY <1>1, <1>2
<1> QED
  BY <1>3, <1>5, <1>6, <1>7 DEF Level

\* Before the DMA engine starts, the values begin at slot 0.
LEMMA FromSlotZero ==
  ASSUME IInv, Keeping, state = "write_flux_wait_data"
  PROVE  Lead = Len(made) /\ dma.prod = Len(made) /\ stale = 0 /\ pc # "poll"
<1>1. /\ taken = 0 /\ dma.cons = 0 /\ stale = 0 /\ pc # "poll"
  BY DEF Keeping, Places, Decoding, Before
<1>2. /\ Lead = Len(made) - taken /\ Len(made) \in Nat /\ Lead \in 0..(Ring - 1)
      /\ Ring \in Nat
      /\ dma.prod \in 0..(Ring - 1)
  BY Numbers DEF Keeping, Places
<1>3. dma.prod - dma.cons - (Lead - stale) \in {0, -Ring, Ring}
  BY DEF Keeping, RingInv
<1> QED
  BY <1>1, <1>2, <1>3

\* A turn of the main loop: the lag grows by what the DMA engine took in the last
\* one, and what may be filled is all of it or reaches the end of the ring.
LEMMA TurnKeeps ==
  ASSUME IInv, Keeping, Turn
  PROVE  Keeping'
<1>1. /\ pc = "top" /\ pace' = 0 /\ pc' \in {"after", "decode"}
      /\ pc' = "after" <=> todo' = 0
      /\ floppy_process_write_packet
      /\ UNCHANGED <<state, status, stream, at, write, dma, made, timer, taken, torn, stale>>
  BY DEF Turn, out
<1>2. /\ u_prod' \in Nat /\ usb_packet' \in Nat /\ rx' \in Nat /\ Level' <= UBufSz
      /\ 0 \in 0..Speed
  BY <1>1, PacketKeeps, Margins DEF Keeping, Places, BytesKept
<1>3. RingInv' /\ Lead' = Lead
  BY <1>1, RingSame DEF Keeping
<1>4. /\ dma.prod \in 0..(Ring - 1) /\ Lead \in 0..(Ring - 1) /\ Lag \in Int
      /\ Lag = Ring - 1 - Lead - pace /\ Speed \in Nat /\ pace \in 0..Speed /\ Ring \in Nat
      /\ Ring >= 4 * Speed + 2 /\ Speed >= 1 /\ made \in Seq(Nat) /\ Len(made) \in Nat
      /\ stream \in Streams /\ at \in Nat
  BY Numbers DEF Keeping, Places
<1>5. CASE state = "write_flux_drain"
  <2>1. todo' = Ring /\ timer # "running" /\ timer' = timer
    BY <1>1, <1>5 DEF Turn, Keeping, Places
  <2>2. Whole'
    BY <1>1, <1>5, DrainedWhole DEF Keeping
  <2> QED
    BY <1>1, <1>2, <1>4, <1>5, <2>1, <2>2, DrainKeeps DEF Keeping
<1>6. CASE state \in {"write_flux_wait_data", "write_flux"}
  <2> DEFINE d == Ring - 1 - Lead
             e == Ring - dma.prod
  <2>1. stale = 0
    BY <1>1, <1>6 DEF Keeping, Places, Decoding, Before
  <2>2. todo' = IF e <= d THEN e ELSE d
    BY <1>1, <1>4, <1>6, <2>1, RoomIs DEF Turn, Keeping
  <2>3. Lag' = d /\ dma'.prod = dma.prod /\ d = Lag + pace
    BY <1>1, <1>3, <1>4 DEF Lag
  <2>4. todo' \in Nat /\ (todo' = 0 <=> d = 0) /\ todo' <= d /\ todo' <= e
    BY <1>4, <2>2
  <2>5. Places'
    BY <1>1, <1>2, <1>6, <2>4 DEF Keeping, Places, Decoding
  <2>6. Filling'
    <3>1. pc' = "decode" => todo' >= 1
      BY <1>1, <2>4
    <3> DEFINE p == dma.prod
               n == Lead
               r == todo'
    <3>2. /\ p \in Int /\ n \in Int /\ r \in Int /\ Ring \in Int
          /\ r <= Ring - p /\ r <= Ring - 1 - n
      BY <1>4, <2>4
    <3> HIDE DEF p, n, r
    <3>3. p + r <= Ring /\ n + r <= Ring - 1
      BY <3>2
    <3>4. dma.prod + todo' <= Ring /\ Lead + todo' <= Ring - 1
      BY <3>3 DEF p, n, r
    <3> QED
      BY <1>1, <1>3, <2>3, <3>1, <3>4 DEF Filling
  <2>7. Polling' /\ Whole'
    BY <1>1, <1>6 DEF Polling, Whole
  <2>8. Waiting'
    <3> SUFFICES ASSUME state = "write_flux_wait_data" PROVE Waiting'
      BY <1>1 DEF Waiting
    <3>1. Lead = Len(made) /\ dma.prod = Len(made)
      BY FromSlotZero
    <3>2. todo' = Ring - 1 - Len(made)
      BY <1>4, <2>2, <3>1
    <3> QED
      BY <1>1, <1>4, <3>2 DEF Waiting
  <2>9. Ahead'
    <3> SUFFICES ASSUME state = "write_flux" PROVE Ahead'
      BY <1>1, <1>6 DEF Ahead
    <3>1. (write.is_finished /\ Lag <= 1 + 2 * Speed) \/ (~write.is_finished /\ Close)
      BY <1>1 DEF Keeping, Ahead
    <3>2. Close => Lag <= 1 + 2 * Speed
      BY <1>4, NearBounds DEF Close
    <3>3. Lag' <= 1 + 3 * Speed
      BY <1>4, <2>3, <3>1, <3>2
    <3>4. pc' = "after" => Close'
      BY <1>1, <2>3, <2>4 DEF Close
    <3>5. Len(made') = Len(made) /\ at' = at /\ Lag' \in Int
      BY <1>1, <1>4, <2>3
    <3> HIDE DEF d, e
    <3>6. (AllDone' \/ ToEnd') /\ (d <= Ring - dma.prod => AllDone')
      BY <1>1, <1>4, <2>2, <2>3, <2>4 DEF AllDone, ToEnd, d, e
    <3>7. ASSUME Close PROVE InTurn'
      <4>1. CASE Lag <= 1
        <5>1. Lag' <= 1 + Speed
          BY <1>4, <2>3, <4>1
        <5> QED
          BY <3>6, <5>1 DEF InTurn
      <4>2. CASE dma.prod = 0 /\ Lag <= 1 + Speed
        <5>1. Lag' + dma'.prod <= 1 + 2 * Speed /\ d <= Ring - dma.prod
          BY <1>4, <2>3, <4>2 DEF d
        <5> QED
          BY <3>6, <5>1 DEF InTurn
      <4>3. CASE Near(1 + Speed)
        <5>1. Near(1 + 2 * Speed)'
          BY <1>1, <1>4, <2>3, <3>5, <4>3, NearKept
        <5> QED
          BY <3>6, <5>1 DEF InTurn
      <4>4. CASE Lag + dma.prod <= 1 + 2 * Speed /\ Near(1 + 2 * Speed)
        <5>1. Near(1 + 3 * Speed)'
          BY <1>1, <1>4, <2>3, <3>5, <4>4, NearKept
        <5>2. d <= Ring - dma.prod
          BY <1>4, <2>3, <4>4
        <5> QED
          BY <3>6, <5>1, <5>2 DEF InTurn
      <4> QED
        BY <3>7, <4>1, <4>2, <4>3, <4>4 DEF Close
    <3> QED
      BY <1>1, <3>1, <3>3, <3>4, <3>7 DEF Ahead, Keeping
  <2> QED
    BY <1>3, <2>5, <2>6, <2>7, <2>8, <2>9 DEF Keeping
<1> QED
  BY <1>5, <1>6 DEF Turn

\* A value that is written makes up for one that was taken.
LEMMA EmitKeeps ==
  ASSUME IInv, IInv', Keeping, pc = "decode", Decoding, ~write.is_finished,
         NEW v, NEW t, NEW m, Emit(v, t, m), at <= at', Level' <= Level,
         at' # Len(stream),
         UNCHANGED <<state, stream, u_prod, usb_packet, rx, timer, pace, taken, torn, stale>>
  PROVE  Keeping'
<1>1. /\ dma.prod \in 0..(Ring - 1) /\ Lead \in 0..(Ring - 1) /\ Lag \in Int
      /\ Lag = Ring - 1 - Lead - pace /\ Speed \in Nat /\ pace \in 0..Speed /\ Ring \in Nat
      /\ Ring >= 4 * Speed + 2 /\ Speed >= 1 /\ made \in Seq(Nat) /\ Len(made) \in Nat
      /\ stream \in Streams /\ at \in Nat /\ todo \in Int
  BY Numbers DEF Keeping, Places
<1>2. made' \in Seq(Nat) /\ at' \in Nat
  <2>1. Len(stream') \in Nat
    BY <1>1, StreamAssumption, LenProperties
  <2> QED
    BY <2>1 DEF IInv, Core
<1>3. state \in {"write_flux_wait_data", "write_flux"}
  BY DEF Keeping, Places, Decoding, Before
<1>4. todo >= 1 /\ dma.prod + todo <= Ring /\ Lead + todo <= Ring - 1 /\ stale = 0
  BY DEF Keeping, Filling, Places
<1>5. ~write'.is_finished
  BY <1>3, EmitIs, DecoderTypes
<1>6. todo' = todo - 1 /\ pc' = IF todo = 1 THEN "after" ELSE "decode"
  BY DEF Emit
<1>7. /\ RingInv' /\ Lead' = Lead + 1 /\ Len(made') = Len(made) + 1
      /\ dma'.prod = (IF dma.prod = Ring - 1 THEN 0 ELSE dma.prod + 1)
  BY <1>1, <1>2, <1>3, <1>4, EmitRing DEF Keeping
<1>8. Lag' = Lag - 1
  BY <1>1, <1>7 DEF Lag
<1>9. Places'
  <2>1. dma'.cons = dma.cons
    BY <1>1, <1>3 DEF Emit, Keeping, RingInv
  <2>2. Level' <= UBufSz
    <3>1. Level \in Int /\ Level' \in Int /\ UBufSz \in Int /\ Level <= UBufSz
      <4>1. u_prod \in Nat /\ u_prod' \in Nat /\ Level <= UBufSz
        BY DEF Keeping, Places
      <4>2. u_cons \in Nat /\ Level = u_prod - u_cons
        BY <4>1, LevelIs
      <4>3. u_cons' \in Nat
        <5>1. stream' \in Streams /\ at' \in 0..Len(stream') /\ Len(stream') \in Nat
          BY StreamAssumption, LenProperties DEF IInv
        <5>2. End[stream'][at'] \in Nat
          BY <5>1, EndGrows
        <5> QED
          BY <5>2 DEF u_cons
      <4> QED
        BY <4>1, <4>2, <4>3, Margins DEF Level
    <3> QED
      BY <3>1
  <2> QED
    BY <1>3, <1>4, <1>5, <1>6, <2>1, <2>2 DEF Keeping, Places, Decoding
<1>10. Filling'
  BY <1>1, <1>4, <1>6, <1>7 DEF Filling
<1>11. Waiting'
  <2> SUFFICES ASSUME state = "write_flux_wait_data" PROVE Waiting'
    BY DEF Waiting
  <2>1. Len(made) + todo = Ring - 1
    BY DEF Keeping, Waiting
  <2> QED
    BY <1>1, <1>6, <1>7, <2>1 DEF Waiting
<1>12. Polling' /\ Whole'
  BY <1>3, <1>6 DEF Polling, Whole
<1>13. Ahead'
  <2> SUFFICES ASSUME state = "write_flux" PROVE Ahead'
    BY <1>3, <1>6 DEF Ahead
  <2>1. InTurn /\ Lag <= 1 + 3 * Speed
    BY DEF Keeping, Ahead
  <2>2. Lag' <= 1 + 3 * Speed /\ Lag' \in Int /\ Len(made') \in Nat
    <3>1. Lag - 1 <= 1 + 3 * Speed /\ Lag - 1 \in Int /\ Len(made) + 1 \in Nat
      BY <1>1, <2>1
    <3> QED
      BY <1>7, <1>8, <3>1
  <2>3. ASSUME NEW n \in Int, Near(n) PROVE Near(n)'
    <3>1. (Lag - 1) + (Len(made) + 1) + n <= Lag + Len(made) + n /\ Len(made) <= Len(made) + 1
      BY <1>1
    <3>2. Lag' + Len(made') + n <= Lag + Len(made) + n /\ Len(made) <= Len(made')
      BY <1>7, <1>8, <3>1
    <3> QED
      BY <1>1, <1>2, <2>2, <2>3, <3>2, NearKept
  <2>4. /\ Near(1 + 2 * Speed) => Near(1 + 2 * Speed)'
        /\ Near(1 + 3 * Speed) => Near(1 + 3 * Speed)'
    <3>1. 1 + 2 * Speed \in Int /\ 1 + 3 * Speed \in Int
      BY <1>1
    <3> QED
      BY <2>3, <3>1
  <2>5. ASSUME todo = 1 PROVE Close'
    <3>1. CASE AllDone
      <4>1. Lag - 1 <= 1
        BY <1>1, <2>5, <3>1 DEF AllDone
      <4> QED
        BY <1>8, <4>1 DEF Close
    <3>2. CASE ~AllDone
      <4>1. dma.prod = Ring - 1 /\ (Lag <= 1 + Speed \/ Near(1 + 2 * Speed))
        <5>1. ToEnd /\ (Lag <= 1 + Speed \/ Near(1 + 2 * Speed))
          BY <2>1, <3>2 DEF InTurn
        <5>2. dma.prod = Ring - 1
          BY <1>1, <2>5, <5>1 DEF ToEnd
        <5> QED
          BY <5>1, <5>2
      <4>2. dma'.prod = 0
        BY <1>7, <4>1
      <4>3. CASE Lag <= 1 + Speed
        BY <1>1, <1>8, <4>2, <4>3 DEF Close
      <4>4. CASE Near(1 + 2 * Speed)
        <5>1. Near(1 + 2 * Speed)' /\ Lag <= 1 + 2 * Speed
          BY <1>1, <2>4, <4>4, NearBounds
        <5>2. Lag' + dma'.prod <= 1 + 2 * Speed
          BY <1>1, <1>8, <4>2, <5>1
        <5> QED
          BY <5>1, <5>2 DEF Close
      <4> QED
        BY <4>1, <4>3, <4>4
    <3> QED
      BY <3>1, <3>2
  <2>6. ASSUME todo # 1 PROVE InTurn'
    <3>1. dma'.prod = dma.prod + 1
      BY <1>1, <1>4, <1>7, <2>6
    <3>2. /\ AllDone => AllDone'
          /\ ToEnd => ToEnd'
          /\ Lag <= 1 + Speed => Lag' <= 1 + Speed
          /\ Lag + dma.prod <= 1 + 2 * Speed => Lag' + dma'.prod <= 1 + 2 * Speed
      BY <1>1, <1>6, <1>8, <3>1 DEF AllDone, ToEnd
    <3> QED
      BY <2>1, <2>4, <3>2 DEF InTurn
  <2> QED
    BY <1>5, <1>6, <2>2, <2>5, <2>6 DEF Ahead
<1> QED
  BY <1>7, <1>9, <1>10, <1>11, <1>12, <1>13 DEF Keeping

\* A step of the decoder that writes nothing and is not the last of a call.
LEMMA StayKeeps ==
  ASSUME IInv, Keeping, pc = "decode", Decoding, at' \in Nat, at <= at',
         at' # Len(stream), Level' <= UBufSz, ~write.is_finished, ~write'.is_finished,
         UNCHANGED <<state, pc, stream, todo, dma, made, taken, stale, torn, pace, timer,
                     u_prod, usb_packet, rx>>
  PROVE  Keeping'
<1>1. /\ Lag \in Int /\ Len(made) \in Nat /\ stream \in Streams /\ at \in Nat /\ Speed \in Nat
  BY Numbers DEF Keeping, Places
<1>2. RingInv' /\ Lead' = Lead /\ Lag' = Lag
  BY RingSame DEF Keeping, Lag
<1>3. state \in {"write_flux_wait_data", "write_flux"}
  BY DEF Keeping, Places, Decoding, Before
<1>4. \A n \in Int : Near(n) => Near(n)'
  BY <1>1, <1>2, NearKept
<1>5. Places' /\ Filling'
  BY <1>2, <1>3 DEF Keeping, Places, Filling, Decoding
<1>6. Waiting' /\ Polling' /\ Whole'
  BY <1>3 DEF Keeping, Waiting, Polling, Whole
<1>7. InTurn => InTurn'
  BY <1>1, <1>2, <1>4 DEF InTurn, AllDone, ToEnd
<1>8. Ahead'
  BY <1>2, <1>3, <1>7 DEF Keeping, Ahead
<1> QED
  BY <1>2, <1>5, <1>6, <1>8 DEF Keeping

\* A step of the decoder in the drain state.
LEMMA DrainDecodes ==
  ASSUME IInv, Keeping, state = "write_flux_drain", status' \in {status, "bad_command"},
         write.is_finished => write'.is_finished, write'.terminate = write.terminate,
         todo' \in Int, pc' # "poll", Level' <= UBufSz, timer' \in {timer, "off"},
         UNCHANGED <<state, stream, dma, made, pace,
                     taken, torn, stale, u_prod, usb_packet, rx>>
  PROVE  Keeping'
<1>1. timer' # "running"
  BY DEF Keeping, Places
<1>2. Whole'
  BY DrainedWhole DEF Keeping
<1> QED
  BY <1>1, <1>2, DrainKeeps DEF Keeping, Places

\* What a value that is written leaves of the mode of the write.
LEMMA EmitFlags ==
  ASSUME write \in WriteType, NEW v, NEW t, NEW m, Emit(v, t, m), todo \in Int
  PROVE  /\ write'.is_finished = write.is_finished /\ write'.terminate = write.terminate
         /\ todo' \in Int /\ pc' # "poll"
         /\ state = "write_flux_drain" => UNCHANGED <<dma, made>>
<1> DEFINE md == IF todo = 1 THEN write.flux_mode ELSE m
<1>1. write' = [write EXCEPT !.ticks = t, !.flux_mode = md]
  BY DEF Emit
<1> HIDE DEF md
<1>2. write'.is_finished = write.is_finished /\ write'.terminate = write.terminate
  BY <1>1 DEF WriteType
<1> QED
  BY <1>2 DEF Emit

\* A step that goes on with a region or a long flux.
LEMMA ModeKeeps ==
  ASSUME IInv, IInv', Meant, Keeping, Astable \/ Oneshot
  PROVE  Keeping'
<1>1. /\ pc = "decode" /\ write.flux_mode # "idle" /\ write \in WriteType /\ todo \in Int
      /\ UNCHANGED <<state, status, stream, rx, usb_packet, u_prod,
                   at, timer, pace, taken, torn, stale>>
  BY DecoderTypes DEF Astable, Oneshot, host, input, play, Keeping, Places
<1>2. Level' = Level /\ Level <= UBufSz /\ at \in Nat
  BY <1>1, LevelSame, DecoderTypes DEF Keeping, Places
<1>3. \/ \E v, t, m : Emit(v, t, m)
      \/ /\ write' = [write EXCEPT !.flux_mode = "idle"]
         /\ UNCHANGED <<todo, pc, dma, made>>
  BY DEF Astable, Oneshot, out
<1>4. CASE state = "write_flux_drain"
  <2>1. /\ write'.is_finished = write.is_finished /\ write'.terminate = write.terminate
        /\ todo' \in Int /\ pc' # "poll" /\ UNCHANGED <<dma, made>>
    BY <1>1, <1>3, <1>4, EmitFlags DEF WriteType
  <2> QED
    BY <1>1, <1>2, <1>4, <2>1, DrainDecodes
<1>5. CASE state # "write_flux_drain"
  <2>1. Decoding /\ ~write.is_finished /\ at # Len(stream)
    BY <1>1, <1>5 DEF Meant, Decoding, Keeping, Places
  <2>2. CASE \E v, t, m : Emit(v, t, m)
    <3>1. PICK v, t, m : Emit(v, t, m)
      BY <2>2
    <3>2. at <= at' /\ Level' <= Level /\ at' # Len(stream)
      <4>1. Level \in Int
        BY LevelIs DEF Keeping, Places
      <4> QED
        BY <1>1, <1>2, <2>1, <4>1
    <3> QED
      BY <1>1, <2>1, <3>1, <3>2, EmitKeeps
  <2>3. CASE /\ write' = [write EXCEPT !.flux_mode = "idle"]
             /\ UNCHANGED <<todo, pc, dma, made>>
    <3>1. write'.is_finished = write.is_finished
      BY <1>1, <2>3 DEF WriteType
    <3> QED
      BY <1>1, <1>2, <2>1, <2>3, <3>1, StayKeeps
  <2> QED
    BY <1>3, <2>2, <2>3
<1> QED
  BY <1>4, <1>5

\* Between opcodes, the values written are those of the opcodes consumed.
LEMMA IdleValues ==
  ASSUME Meant, Decoding, write.flux_mode = "idle"
  PROVE  Waves[stream][at].vals = made /\ Waves[stream][at].ticks = write.ticks
BY DEF Meant, Due

EndsCall(i) ==
  \/ Op(i) = "astable" /\ ~BadPeriod(N(i))
  \/ Op(i) = "flux" /\ write.ticks + N(i) >= Width

\* An opcode that ends the call of the decoder: the ring may not be filled, but the
\* values since the last such opcode make up for it.
LEMMA CutKeeps ==
  ASSUME \A s \in Streams : Steady(s),
         IInv, Meant, Keeping, pc = "decode", Decoding, write.flux_mode = "idle",
         at < Len(stream), EndsCall(stream[at + 1]), at' = at + 1, at' # Len(stream),
         Level' <= UBufSz, ~write.is_finished, ~write'.is_finished, pc' = "after",
         UNCHANGED <<state, stream, todo, dma, made, taken, stale, torn, pace, timer,
                     u_prod, usb_packet, rx>>
  PROVE  Keeping'
<1>1. /\ Lag \in Int /\ Len(made) \in Nat /\ stream \in Streams /\ at \in Nat /\ Speed \in Nat
      /\ Len(stream) \in Nat /\ dma.prod \in Nat
  BY Numbers DEF Keeping, Places
<1>2. RingInv' /\ Lead' = Lead /\ Lag' = Lag
  BY RingSame DEF Keeping, Lag
<1>3. state \in {"write_flux_wait_data", "write_flux"}
  BY DEF Keeping, Places, Decoding, Before
<1>4. (at + 1) - 1 = at /\ at + 1 \in 1..Len(stream) /\ at' \in Nat
  <2> DEFINE n == Len(stream)
  <2>1. n \in Nat /\ at \in Nat /\ at < n
    BY <1>1
  <2> HIDE DEF n
  <2>2. (at + 1) - 1 = at /\ at + 1 \in 1..n /\ at + 1 \in Nat
    BY <2>1
  <2> QED
    BY <2>2 DEF n
<1>5. Waves[stream][at].vals = made /\ Waves[stream][at].ticks = write.ticks
  BY IdleValues
<1>6. at + 1 \in Cuts(stream)
  BY <1>4, <1>5 DEF Cuts, EndsCall
<1>7. JustCut'
  <2>1. at' \in Cuts(stream)'
    BY <1>6 DEF Cuts
  <2>2. at' - 1 = at
    BY <1>4
  <2>3. Since(at)' = Len(made) - Len(Waves[stream][at].vals)
    BY <2>2 DEF Since
  <2> QED
    BY <1>1, <1>5, <2>1, <2>3 DEF JustCut
<1>8. \A n \in Int : Near(n) => Lag + 2 * Speed <= n
  <2> SUFFICES ASSUME NEW n \in Int, Near(n) PROVE Lag + 2 * Speed <= n
    OBVIOUS
  <2>1. PICK i \in Cuts(stream) : i <= at /\ Since(i) >= 0 /\ Lag + Since(i) <= n
    BY DEF Near
  <2>2. i \in Nat /\ Len(Waves[stream][i - 1].vals) \in Nat /\ i < at + 1
    BY <1>1, <2>1, CutsAre
  <2>3. Len(Waves[stream][(at + 1) - 1].vals) - Len(Waves[stream][i - 1].vals) >= 2 * Speed
    BY <1>1, <1>6, <2>2 DEF Steady
  <2>4. Since(i) >= 2 * Speed /\ Since(i) \in Int
    <3> DEFINE w == Len(Waves[stream][i - 1].vals)
    <3>1. w \in Nat /\ Since(i) = Len(made) - w
      BY <2>2 DEF Since
    <3>2. Len(made) - w >= 2 * Speed
      BY <1>4, <1>5, <2>3
    <3> HIDE DEF w
    <3> QED
      BY <1>1, <3>1, <3>2
  <2> QED
    BY <1>1, <2>1, <2>4
<1>9. Places' /\ Filling'
  BY <1>2, <1>3 DEF Keeping, Places, Filling, Decoding
<1>10. Waiting' /\ Polling' /\ Whole'
  BY <1>3, <1>7 DEF Waiting, Polling, Whole
<1>11. Ahead'
  <2> SUFFICES ASSUME state = "write_flux" PROVE Ahead'
    BY <1>3 DEF Ahead
  <2>1. InTurn /\ Lag <= 1 + 3 * Speed
    BY DEF Keeping, Ahead
  <2>2. Close'
    <3>1. CASE Lag <= 1 + Speed
      <4>1. Near(1 + Speed)'
        BY <1>1, <1>2, <1>4, <1>7, <3>1, CutNear
      <4> QED
        BY <4>1 DEF Close
    <3>2. CASE Lag + dma.prod <= 1 + 2 * Speed
      <4>1. Near(1 + 2 * Speed)'
        BY <1>1, <1>2, <1>4, <1>7, <3>2, CutNear
      <4> QED
        BY <1>2, <3>2, <4>1 DEF Close
    <3>3. CASE Near(1 + 2 * Speed)
      <4>1. Lag <= 1
        BY <1>1, <1>8, <3>3
      <4> QED
        BY <1>2, <4>1 DEF Close
    <3>4. CASE Near(1 + 3 * Speed)
      <4>1. Lag <= 1 + Speed
        BY <1>1, <1>8, <3>4
      <4> QED
        BY <3>1, <4>1
    <3> QED
      BY <2>1, <3>1, <3>2, <3>3, <3>4 DEF InTurn
  <2> QED
    BY <1>2, <2>1, <2>2 DEF Ahead
<1> QED
  BY <1>2, <1>9, <1>10, <1>11 DEF Keeping

\* The end of the stream: what is left to do is to wait for the ring.
LEMMA EndKeeps ==
  ASSUME IInv, Keeping, pc = "decode", Decoding, Level' <= UBufSz, write'.is_finished,
         pc' = "after",
         UNCHANGED <<state, stream, todo, dma, made, taken, stale, torn, pace, timer,
                     u_prod, usb_packet, rx>>
  PROVE  Keeping'
<1>1. RingInv' /\ Lead' = Lead /\ Lag' = Lag
  BY RingSame DEF Keeping, Lag
<1>2. state \in {"write_flux_wait_data", "write_flux"}
  BY DEF Keeping, Places, Decoding, Before
<1>3. Places' /\ Filling'
  BY <1>1, <1>2 DEF Keeping, Places, Filling, Decoding
<1>4. Waiting' /\ Polling' /\ Whole'
  BY <1>2 DEF Waiting, Polling, Whole
<1>5. Ahead'
  BY <1>1, <1>2 DEF Keeping, Ahead
<1> QED
  BY <1>1, <1>3, <1>4, <1>5 DEF Keeping

\* Reading an opcode only makes room in u_buf.
LEMMA DecodeLevel ==
  ASSUME IInv, BytesKept, Decode
  PROVE  /\ Level' \in Nat /\ Level' <= Level /\ Level' <= UBufSz
         /\ at \in Nat /\ at' \in Nat /\ at <= at'
         /\ at' = at + 1 /\ at < Len(stream) /\ at + 1 \in 1..Len(stream)
         /\ stream[at + 1] \in Opcode /\ N(stream[at + 1]) \in Nat
         /\ Op(stream[at + 1]) # "end" => at' # Len(stream)
         /\ UNCHANGED <<stream, rx, usb_packet, u_prod>>
<1>1. /\ at' = at + 1 /\ at < Len(stream) /\ UNCHANGED <<stream, rx, usb_packet, u_prod>>
      /\ u_prod >= End[stream][at + 1]
  BY DEF Decode, Complete, host, input
<1>2. stream \in Streams /\ at \in Nat /\ Len(stream) \in Nat
  BY DecoderTypes
<1>3. at + 1 \in 1..Len(stream) /\ at' \in Nat /\ at <= at'
  <2> DEFINE n == Len(stream)
  <2>1. n \in Nat /\ at \in Nat /\ at < n
    BY <1>1, <1>2
  <2> HIDE DEF n
  <2>2. at + 1 \in 1..n /\ at + 1 \in Nat /\ at <= at + 1
    BY <2>1
  <2> QED
    BY <1>1, <2>2 DEF n
<1>4. /\ u_prod \in Nat /\ Level <= UBufSz /\ UBufSz \in Nat
  BY Margins DEF BytesKept
<1>5. /\ u_cons \in Nat /\ Level = u_prod - u_cons
      /\ End[stream][at + 1] = u_cons + Bytes(stream[at + 1])
      /\ Bytes(stream[at + 1]) \in 1..OpLen
  BY <1>1, <1>4, LevelIs
<1>6. Level' = u_prod - End[stream][at + 1]
  BY <1>1 DEF Level, u_cons
<1>7. Level' \in Nat /\ Level' <= Level /\ Level' <= UBufSz
  <2> DEFINE b == Bytes(stream[at + 1])
  <2>1. Level' = u_prod - (u_cons + b)
    BY <1>5, <1>6
  <2>2. b \in Nat /\ u_prod >= u_cons + b
    BY <1>1, <1>5, Margins
  <2> HIDE DEF b
  <2> QED
    BY <1>4, <1>5, <2>1, <2>2
<1>8. stream[at + 1] \in Opcode
  BY <1>2, <1>3, StreamAssumption, ElementOfSeq
<1>9. N(stream[at + 1]) \in Nat
  BY <1>1, OpcodeTicks
<1>10. Op(stream[at + 1]) # "end" => at' # Len(stream)
  BY <1>1, <1>2, <1>3, StreamAssumption
<1> QED
  BY <1>1, <1>2, <1>3, <1>7, <1>8, <1>9, <1>10

\* Reading the next opcode.
LEMMA DecodeKeeps ==
  ASSUME \A s \in Streams : Steady(s), IInv, IInv', Meant, Keeping, Decode
  PROVE  Keeping'
<1> DEFINE i == stream[at + 1]
           n == N(i)
           u == write.ticks + n
<1>1. /\ Level' <= Level /\ Level' <= UBufSz /\ at \in Nat /\ at' \in Nat /\ at <= at'
      /\ at' = at + 1 /\ at < Len(stream) /\ n \in Nat
      /\ Op(i) # "end" => at' # Len(stream)
      /\ UNCHANGED <<stream, rx, usb_packet, u_prod>>
  BY DecodeLevel DEF Keeping, Places, BytesKept
<1>2. /\ pc = "decode" /\ write.flux_mode = "idle"
      /\ write \in WriteType /\ write.ticks \in Nat /\ u \in Nat
      /\ MinPulse \in Nat \ {0} /\ Width \in Nat \ {0} /\ MinPulse < Width
      /\ todo \in Int
  <2>1. pc = "decode" /\ write.flux_mode = "idle"
    BY DEF Decode
  <2>2. /\ write \in WriteType /\ write.ticks \in Nat
        /\ MinPulse \in Nat \ {0} /\ Width \in Nat \ {0} /\ MinPulse < Width
    BY DecoderTypes
  <2>3. u \in Nat /\ todo \in Int
    BY <1>1, <2>2 DEF Keeping, Places
  <2> QED
    BY <2>1, <2>2, <2>3
<1>3. CASE Op(i) = "astable" /\ BadPeriod(n)
  <2>1. /\ status' = "bad_command" /\ state' = "write_flux_drain" /\ pc' = "after"
        /\ timer' = "off" /\ UNCHANGED <<write, todo, dma, made, pace, taken, torn, stale>>
    BY <1>3 DEF Decode, DecodeAstable, FluxEnd, out
  <2>2. Whole'
    BY <2>1 DEF Whole
  <2>3. /\ pace' \in 0..Speed /\ todo' \in Int /\ u_prod' \in Nat /\ usb_packet' \in Nat
        /\ rx' \in Nat /\ RingInv
    BY <1>1, <2>1 DEF Keeping, Places
  <2> QED
    BY <1>1, <2>1, <2>2, <2>3, DrainKeeps
<1>4. CASE ~(Op(i) = "astable" /\ BadPeriod(n))
  <2>1. UNCHANGED <<state, status, timer, pace, taken, torn, stale>>
    BY <1>4 DEF Decode, play
  <2>2. state # "write_flux_drain" => Decoding /\ ~write.is_finished
    BY <1>1, <1>2, DecoderTypes DEF Meant, Decoding
  <2>3. CASE Op(i) = "end"
    <3>1. /\ write' = [write EXCEPT !.is_finished = TRUE] /\ pc' = "after"
          /\ UNCHANGED <<todo, dma, made>>
      BY <2>3 DEF Decode, out
    <3>2. write'.is_finished /\ write'.terminate = write.terminate
      BY <1>2, <3>1 DEF WriteType
    <3>3. CASE state = "write_flux_drain"
      BY <1>1, <1>2, <2>1, <3>1, <3>2, <3>3, DrainDecodes
    <3>4. CASE state # "write_flux_drain"
      BY <1>1, <1>2, <2>1, <2>2, <3>1, <3>2, <3>4, EndKeeps
    <3> QED
      BY <3>3, <3>4
  <2>4. CASE Op(i) = "space" \/ (Op(i) = "flux" /\ u < MinPulse)
    <3>1. /\ write' = [write EXCEPT !.ticks = u] /\ UNCHANGED <<pc, todo, dma, made>>
      <4>1. CASE Op(i) = "space"
        BY <4>1 DEF Decode, DecodeSpace, out
      <4>2. CASE Op(i) = "flux" /\ u < MinPulse
        <5>1. DecodeFlux(n) /\ ~(u >= Width)
          BY <1>2, <4>2 DEF Decode
        <5> QED
          BY <4>2, <5>1 DEF DecodeFlux, out
      <4> QED
        BY <2>4, <4>1, <4>2
    <3> HIDE DEF u
    <3>2. write'.is_finished = write.is_finished /\ write'.terminate = write.terminate
      BY <1>2, <3>1 DEF WriteType
    <3>3. CASE state = "write_flux_drain"
      BY <1>1, <1>2, <2>1, <3>1, <3>2, <3>3, DrainDecodes
    <3>4. CASE state # "write_flux_drain"
      BY <1>1, <1>2, <2>1, <2>2, <2>4, <3>1, <3>2, <3>4, StayKeeps
    <3> QED
      BY <3>3, <3>4
  <2>5. CASE Op(i) = "astable" \/ (Op(i) = "flux" /\ u >= Width)
    <3>1. /\ EndsCall(i) /\ pc' = "after" /\ UNCHANGED <<todo, dma, made>>
          /\ write'.is_finished = write.is_finished /\ write'.terminate = write.terminate
      <4>1. CASE Op(i) = "astable"
        <5>1. /\ write' = [write EXCEPT !.astable_period = n, !.flux_mode = "astable"]
              /\ pc' = "after" /\ UNCHANGED <<todo, dma, made>>
          BY <1>4, <4>1 DEF Decode, DecodeAstable, out
        <5> DEFINE m == "astable"
        <5>2. write' = [write EXCEPT !.astable_period = n, !.flux_mode = m]
          BY <5>1
        <5> HIDE DEF m, n
        <5>3. write'.is_finished = write.is_finished /\ write'.terminate = write.terminate
          BY <1>2, <5>2 DEF WriteType
        <5>4. EndsCall(i)
          BY <1>4, <4>1 DEF EndsCall, n
        <5> QED
          BY <5>1, <5>3, <5>4
      <4>2. CASE Op(i) = "flux" /\ u >= Width
        <5>1. DecodeFlux(n)
          BY <4>2 DEF Decode
        <5>2. /\ write' = [write EXCEPT !.ticks = u, !.flux_mode = "oneshot"]
              /\ pc' = "after" /\ UNCHANGED <<todo, dma, made>>
          BY <4>2, <5>1 DEF DecodeFlux, out
        <5> DEFINE m == "oneshot"
        <5>3. write' = [write EXCEPT !.ticks = u, !.flux_mode = m]
          BY <5>2
        <5>4. EndsCall(i)
          BY <4>2 DEF EndsCall
        <5> HIDE DEF m, u
        <5>5. write'.is_finished = write.is_finished /\ write'.terminate = write.terminate
          BY <1>2, <5>3 DEF WriteType
        <5> QED
          BY <5>2, <5>4, <5>5
      <4> QED
        BY <2>5, <4>1, <4>2
    <3>2. CASE state = "write_flux_drain"
      BY <1>1, <1>2, <2>1, <3>1, <3>2, DrainDecodes
    <3>3. CASE state # "write_flux_drain"
      BY <1>1, <1>2, <2>1, <2>2, <2>5, <3>1, <3>3, CutKeeps
    <3> QED
      BY <3>2, <3>3
  <2>6. CASE Op(i) = "flux" /\ u \in MinPulse..(Width - 1)
    <3>1. DecodeFlux(n)
      BY <2>6 DEF Decode
    <3>2. Emit(u, 0, "idle")
      BY <1>2, <2>6, <3>1 DEF DecodeFlux
    <3>3. CASE state = "write_flux_drain"
      <4>1. /\ write'.is_finished = write.is_finished /\ write'.terminate = write.terminate
            /\ todo' \in Int /\ pc' # "poll" /\ UNCHANGED <<dma, made>>
        BY <1>2, <3>2, <3>3, EmitFlags
      <4> QED
        BY <1>1, <1>2, <2>1, <3>3, <4>1, DrainDecodes
    <3>4. CASE state # "write_flux_drain"
      BY <1>1, <1>2, <2>1, <2>2, <2>6, <3>2, <3>4, EmitKeeps
    <3> QED
      BY <3>3, <3>4
  <2>7. Op(i) \in {"flux", "space", "astable", "end"}
    <3>1. i \in Opcode
      BY DecodeLevel DEF Keeping, Places, BytesKept
    <3> QED
      BY <3>1 DEF Opcode, Op
  <2>8. u < MinPulse \/ u >= Width \/ u \in MinPulse..(Width - 1)
    BY <1>2
  <2> QED
    BY <1>4, <2>3, <2>4, <2>5, <2>6, <2>7, <2>8
<1> QED
  BY <1>3, <1>4

\* The decoder has nothing more to read.
LEMMA DecodeOutKeeps ==
  ASSUME IInv, Keeping, DecodeOut
  PROVE  Keeping'
<1>1. /\ pc = "decode" /\ Starved /\ pc' = "after"
      /\ UNCHANGED <<state, status, todo, stream, rx, usb_packet, u_prod, at, write, dma, made,
                     timer, pace, taken, torn, stale>>
  BY DEF DecodeOut, Starved, host, input, out, play
<1>2. RingInv' /\ Lead' = Lead /\ Lag' = Lag /\ Level' = Level /\ Starved'
  BY <1>1, RingSame, LevelSame DEF Keeping, Lag, Starved
<1>3. Places' /\ Filling'
  BY <1>1, <1>2 DEF Keeping, Places, Filling, Decoding
<1>4. Waiting' /\ Polling' /\ Whole'
  BY <1>1, <1>2 DEF Keeping, Waiting, Polling, Whole
<1>5. Ahead'
  BY <1>1, <1>2 DEF Keeping, Ahead, Places
<1> QED
  BY <1>2, <1>3, <1>4, <1>5 DEF Keeping

-----------------------------------------------------------------------------
(* The handlers.                                                           *)

\* A call of the decoder that ended for want of bytes is noticed.
LEMMA StarvedShows ==
  ASSUME IInv, Keeping, Decoding, Starved, ~write.is_finished
  PROVE  ~EOStream /\ Underflow
<1>1. /\ stream \in Streams /\ at \in 0..Len(stream) /\ Len(stream) \in Nat
      /\ u_prod \in Nat /\ at # Len(stream) /\ LowWater \in Nat /\ OpLen <= LowWater
      /\ OpLen \in Nat
  BY DecoderTypes, Margins DEF Keeping, Places
<1>2. at < Len(stream)
  BY <1>1
<1>3. /\ u_cons \in Nat /\ Level = u_prod - u_cons
      /\ End[stream][at + 1] = u_cons + Bytes(stream[at + 1])
      /\ Bytes(stream[at + 1]) \in 1..OpLen
      /\ End[stream][at + 1] <= End[stream][Len(stream)]
      /\ End[stream][at + 1] \in Nat /\ End[stream][Len(stream)] \in Nat
  BY <1>1, <1>2, LevelIs
<1>4. ~(u_prod >= End[stream][at + 1])
  BY <1>2 DEF Starved, Complete
<1>5. Level < LowWater
  BY <1>1, <1>3, <1>4
<1>6. ~EOStream
  BY <1>1, <1>3, <1>4 DEF EOStream
<1> QED
  BY <1>5, <1>6 DEF Underflow

\* By the time the DMA engine is started, the ring was filled, or ended close to
\* full at an opcode that ends the call or at the end of the stream.
LEMMA ReadyNear ==
  ASSUME \A s \in Streams : Steady(s),
         IInv, Meant, Keeping, state = "write_flux_wait_data", pc = "after", Ready
  PROVE  /\ write.is_finished \/ Len(made) = Ring - 1 \/ JustCut
         /\ Len(made) >= Ring - 1 - Speed
<1> DEFINE n == Len(stream)
<1>1. /\ stream \in Streams /\ at \in 0..n /\ n \in Nat /\ n >= 1 /\ Decoding
      /\ dma.prod = Len(made) /\ Len(made) \in Nat /\ Ring \in Nat /\ Speed \in Nat
      /\ UBufSz \in Nat /\ Level <= UBufSz /\ u_prod \in Nat
  <2>1. n \in Nat /\ n > 0 /\ stream \in Streams /\ at \in 0..n
    BY StreamAssumption, LenProperties DEF IInv
  <2> QED
    BY <2>1, FromSlotZero, Margins, DecoderTypes DEF Decoding, Before, Keeping, Places
<1>2. n \in 0..n /\ n - 1 \in 0..n /\ n \in 1..n
  BY <1>1
<1>3. \A i \in Cuts(stream) \cup {n} :
         End[stream][n] - End[stream][i] <= UBufSz =>
           Len(Waves[stream][i - 1].vals) >= Ring - 1 - Speed
  BY <1>1 DEF Steady
<1>4. CASE write.is_finished
  <2>1. at = n /\ write.flux_mode = "idle"
    BY <1>1, <1>4 DEF Meant
  <2>2. Waves[stream][n].vals = made
    BY <1>1, <2>1, IdleValues
  <2>3. Op(stream[n]) = "end"
    BY <1>1, <1>2, StreamAssumption
  <2>4. Waves[stream][n] = Wave(Waves[stream][n - 1], stream[n])
    BY <1>1, <1>2, WavesAre DEF Recurs
  <2>5. Waves[stream][n - 1].vals = made
    BY <2>2, <2>3, <2>4 DEF Wave
  <2>6. End[stream][n] \in Nat
    BY <1>1, <1>2, EndGrows
  <2>7. End[stream][n] - End[stream][n] <= UBufSz
    BY <1>1, <2>6
  <2>8. Len(made) >= Ring - 1 - Speed
    BY <1>3, <2>5, <2>7
  <2> QED
    BY <1>4, <2>8
<1>5. CASE ~write.is_finished /\ dma.prod = Ring - 1
  BY <1>1, <1>5
<1>6. CASE ~write.is_finished /\ dma.prod # Ring - 1
  <2>1. EOStream
    BY <1>6 DEF Ready, WriteFinished
  <2>2. ~Starved
    BY <1>1, <1>6, <2>1, StarvedShows
  <2>3. JustCut
    BY <1>1, <1>6, <2>2 DEF Keeping, Waiting
  <2>4. Len(Waves[stream][at - 1].vals) \in Nat /\ at \in Cuts(stream)
    BY <1>1, <2>3, CutsAre DEF JustCut
  <2>5. Len(made) = Len(Waves[stream][at - 1].vals)
    <3>1. Since(at) = Len(made) - Len(Waves[stream][at - 1].vals) /\ Since(at) = 0
      BY <2>3 DEF JustCut, Since
    <3> QED
      BY <1>1, <2>4, <3>1
  <2>6. End[stream][n] - End[stream][at] <= UBufSz
    <3>1. Level = u_prod - End[stream][at] /\ u_prod = End[stream][n]
      BY <2>1 DEF EOStream, Level, u_cons
    <3> QED
      BY <1>1, <3>1
  <2>7. Len(made) >= Ring - 1 - Speed
    BY <1>3, <2>4, <2>5, <2>6
  <2> QED
    BY <2>3, <2>7
<1> QED
  BY <1>4, <1>5, <1>6

\* The ring is filled until the DMA engine may load its first value.
LEMMA WaitDataKeeps ==
  ASSUME \A s \in Streams : Steady(s), IInv, Meant, Keeping, floppy_write_wait_data
  PROVE  Keeping'
<1>1. /\ pc = "after" /\ state = "write_flux_wait_data" /\ pc' = "top"
      /\ UNCHANGED <<status, todo, stream, rx, usb_packet, u_prod, at, write, made>>
  BY DEF floppy_write_wait_data, host, input
<1>2. /\ Lag \in Int /\ Len(made) \in Nat /\ stream \in Streams /\ at \in Nat /\ Speed \in Nat
      /\ made \in Seq(Nat) /\ Ring \in Nat /\ Ring >= 4 * Speed + 2 /\ Speed >= 1
      /\ todo \in Int
  BY Numbers DEF Keeping, Places
<1>3. Level' = Level /\ (Starved => Starved')
  BY <1>1, LevelSame DEF Starved
<1>4. CASE ~Ready
  <2>1. UNCHANGED <<state, timer, pace, taken, torn, stale, dma>>
    BY <1>4 DEF floppy_write_wait_data, play
  <2>2. RingInv' /\ Lead' = Lead
    BY <1>1, <2>1, RingSame DEF Keeping
  <2>3. Places' /\ Filling'
    BY <1>1, <1>3, <2>1, <2>2 DEF Keeping, Places, Filling, Decoding
  <2>4. Waiting' /\ Ahead' /\ Polling' /\ Whole'
    BY <1>1, <2>1 DEF Waiting, Ahead, Polling, Whole
  <2> QED
    BY <2>2, <2>3, <2>4 DEF Keeping
<1>5. CASE Ready
  <2>1. /\ state' = "write_flux_wait_index" /\ timer' = "armed" /\ pace' = 0 /\ TakeSlot
    BY <1>5 DEF floppy_write_wait_data
  <2>2. /\ write.is_finished \/ Len(made) = Ring - 1 \/ JustCut
        /\ Len(made) >= Ring - 1 - Speed
    BY <1>1, <1>5, ReadyNear
  <2>3. Lead = Len(made) /\ stale = 0
    BY <1>1, FromSlotZero
  <2>4. RingInv' /\ Lead' = Lead - 1 /\ stale' = 0 /\ dma'.prod = dma.prod
    <3>1. Lead >= 1
      BY <1>2, <2>2, <2>3
    <3> QED
      BY <1>1, <1>2, <2>1, <2>3, <3>1, TakeRing DEF Keeping
  <2>5. Lag' = Ring - Len(made) /\ Lag' \in Int
    BY <1>2, <2>1, <2>3, <2>4 DEF Lag
  <2>6. Places' /\ Filling'
    BY <1>1, <1>2, <1>3, <2>1, <2>4 DEF Keeping, Places, Filling, Decoding, Before
  <2>7. Waiting' /\ Polling' /\ Whole'
    BY <1>1, <2>1 DEF Waiting, Polling, Whole
  <2>8. Ahead'
    <3>1. Lag' <= 1 + Speed /\ Lag' <= 1 + 2 * Speed
      BY <1>2, <2>2, <2>5
    <3>2. CASE write.is_finished
      BY <1>1, <2>1, <3>1, <3>2 DEF Ahead
    <3>3. CASE ~write.is_finished /\ Len(made) = Ring - 1
      <4>1. Lag' <= 1
        BY <1>2, <2>5, <3>3
      <4> QED
        BY <1>1, <2>1, <3>3, <4>1 DEF Ahead, Close
    <3>4. CASE ~write.is_finished /\ JustCut
      <4>1. JustCut'
        BY <1>1, <3>4 DEF JustCut, Since, Cuts
      <4>2. Near(1 + Speed)'
        BY <1>1, <1>2, <2>5, <3>1, <4>1, CutNear
      <4> QED
        BY <1>1, <2>1, <3>4, <4>2 DEF Ahead, Close
    <3> QED
      BY <2>2, <3>2, <3>3, <3>4
  <2> QED
    BY <2>4, <2>6, <2>7, <2>8 DEF Keeping
<1> QED
  BY <1>4, <1>5

\* The index pulse starts the timer, or its absence ends the write.
LEMMA WaitIndexKeeps ==
  ASSUME IInv, Keeping, floppy_write_wait_index
  PROVE  Keeping'
<1>1. /\ pc = "top" /\ pc' = "top" /\ state = "write_flux_wait_index" /\ pace' = 0
      /\ UNCHANGED <<todo, stream, rx, usb_packet, u_prod, at, write, dma, made, taken, torn,
                     stale>>
  BY DEF floppy_write_wait_index, host, input, out
<1>2. pace = 0 /\ stale = 0
  BY <1>1 DEF Keeping, Places, Decoding, Before
<1>3. RingInv' /\ Lead' = Lead /\ Lag' = Lag /\ Level' = Level
  BY <1>1, <1>2, RingSame, LevelSame DEF Keeping, Lag
<1>4. /\ Lag \in Int /\ Len(made) \in Nat /\ stream \in Streams /\ at \in Nat /\ Speed \in Nat
      /\ dma.prod \in Nat /\ 0 \in 0..Speed
  BY Numbers DEF Keeping, Places
<1>5. CASE state' = "write_flux_drain" /\ status' = "no_index" /\ timer' = "off"
  <2>1. Whole'
    BY <1>5 DEF Whole
  <2> QED
    BY <1>1, <1>3, <1>4, <1>5, <2>1, DrainKeeps DEF Keeping, Places
<1>6. CASE state' = "write_flux" /\ timer' = "running"
  <2>1. Places' /\ Filling'
    BY <1>1, <1>2, <1>3, <1>4, <1>6 DEF Keeping, Places, Filling, Decoding, Before
  <2>2. Waiting' /\ Polling' /\ Whole'
    BY <1>1, <1>6 DEF Waiting, Polling, Whole
  <2>3. \A n \in Int : Near(n) => Near(n)'
    BY <1>1, <1>3, NearSame DEF Keeping, Places
  <2>4. Close => Close'
    BY <1>1, <1>3, <1>4, <2>3 DEF Close
  <2>5. (write.is_finished /\ Lag <= 1 + 2 * Speed) \/ (~write.is_finished /\ Close)
    BY <1>1 DEF Keeping, Ahead
  <2>6. Close => Lag <= 1 + 2 * Speed
    BY <1>4, NearBounds DEF Close
  <2>7. Lag <= 1 + 3 * Speed
    BY <1>4, <2>5, <2>6
  <2>8. Ahead'
    BY <1>1, <1>3, <1>6, <2>4, <2>5, <2>7 DEF Ahead
  <2> QED
    BY <1>3, <2>1, <2>2, <2>8 DEF Keeping
<1> QED
  BY <1>5, <1>6 DEF floppy_write_wait_index

\* After a call of the decoder the write goes on, or ends.
LEMMA WriteKeeps ==
  ASSUME IInv, Meant, Keeping, floppy_write
  PROVE  Keeping'
<1>1. /\ pc = "after" /\ state = "write_flux"
      /\ UNCHANGED <<stream, rx, usb_packet, u_prod, at, write, dma, made>>
  BY DEF floppy_write, host, input, out
<1>2. Level' = Level
  BY <1>1, LevelSame
<1>3. CASE /\ Drain /\ todo' = todo /\ (write.terminate \/ status' = "underflow")
  <2>1. /\ state' = "write_flux_drain" /\ pc' = "top" /\ timer' = "off"
        /\ UNCHANGED <<pace, taken, torn, stale>>
    BY <1>3 DEF Drain, FluxEnd
  <2>2. Whole'
    BY <1>1, <1>3 DEF Whole
  <2> QED
    BY <1>1, <1>2, <1>3, <2>1, <2>2, DrainKeeps DEF Keeping, Places
<1>4. CASE /\ ~Underflow /\ ~write.is_finished /\ pc' = "top"
           /\ UNCHANGED <<state, status, play, todo>>
  <2>1. UNCHANGED <<timer, pace, taken, torn, stale, todo, state>>
    BY <1>4 DEF play
  <2>2. RingInv' /\ Lead' = Lead /\ Lag' = Lag
    BY <1>1, <2>1, RingSame DEF Keeping, Lag
  <2>3. Places' /\ Filling'
    BY <1>1, <1>2, <1>4, <2>1, <2>2 DEF Keeping, Places, Filling, Decoding
  <2>4. Waiting' /\ Polling' /\ Whole'
    BY <1>1, <1>4, <2>1 DEF Waiting, Polling, Whole
  <2>5. Decoding
    BY <1>1 DEF Decoding
  <2>6. Close /\ Lag <= 1 + 3 * Speed
    BY <1>1, <1>4, <2>5, StarvedShows DEF Keeping, Ahead
  <2>7. Close'
    <3>1. \A n \in Int : Near(n) => Near(n)'
      BY <1>1, <2>2, NearSame DEF Keeping, Places
    <3> QED
      BY <1>1, <2>2, <2>6, <3>1, Margins DEF Close
  <2>8. Ahead'
    BY <1>1, <1>4, <2>1, <2>2, <2>6, <2>7 DEF Ahead
  <2> QED
    BY <2>2, <2>3, <2>4, <2>8 DEF Keeping
<1>5. CASE /\ write.is_finished /\ pc' = "poll" /\ todo' = Ring
           /\ UNCHANGED <<state, status, play>>
  <2>1. UNCHANGED <<timer, pace, taken, torn, stale, state>>
    BY <1>5 DEF play
  <2>2. RingInv' /\ Lead' = Lead /\ Lag' = Lag
    BY <1>1, <2>1, RingSame DEF Keeping, Lag
  <2>3. stale = 0 /\ Lag <= 1 + 3 * Speed /\ Ring \in Int
    BY <1>1, Margins DEF Keeping, Places, Decoding, Ahead
  <2>4. Places' /\ Polling'
    BY <1>1, <1>2, <1>5, <2>1, <2>2, <2>3 DEF Keeping, Places, Polling, Decoding
  <2>5. Filling' /\ Waiting' /\ Ahead' /\ Whole'
    BY <1>1, <1>5, <2>1 DEF Filling, Waiting, Ahead, Whole
  <2> QED
    BY <2>2, <2>4, <2>5 DEF Keeping
<1> QED
  BY <1>1, <1>3, <1>4, <1>5 DEF floppy_write

\* The loop ends when the ring is empty, or when what is left has grown: the DMA
\* engine has gone past the last value, which it has taken then.
LEMMA PollKeeps ==
  ASSUME IInv, Meant, Keeping, Poll
  PROVE  Keeping'
<1> DEFINE left == (dma.prod - dma.cons + Ring) % Ring
<1>1. /\ pc = "poll" /\ state = "write_flux" /\ write.is_finished
      /\ UNCHANGED <<status, stream, rx, usb_packet, u_prod, at, write, dma, made>>
  BY DEF Poll, host, input, out, Keeping, Places
<1>2. Level' = Level
  BY <1>1, LevelSame
<1>3. /\ made \in Seq(Nat) /\ Lead \in 0..(Ring - 1) /\ stale \in 0..Speed /\ pace \in 0..Speed
      /\ Ring \in Nat /\ Ring >= 4 * Speed + 2 /\ Speed \in Nat /\ Speed >= 1
      /\ Lead = Len(made) - taken /\ Len(made) \in Nat /\ taken \in Nat /\ todo \in Int
  BY Numbers DEF Keeping, Places
<1>4. /\ stale = 0 => left = Lead
      /\ stale > 0 => left = Ring - stale /\ Lead = 0
  BY <1>3, LeftIs DEF Keeping, RingInv
<1>5. made = Wanted[stream]
  <2>1. Decoding
    BY <1>1 DEF Decoding
  <2>2. at = Len(stream) /\ Waves[stream][at].vals = made
    BY <1>1, <2>1, IdleValues DEF Meant
  <2> QED
    BY <2>2, DecoderTypes DEF Wanted
<1>6. \/ todo = Ring /\ stale = 0
      \/ todo \in 1..(Ring - 1) /\ Lead <= todo /\ todo <= Lead - stale + pace
  BY <1>1 DEF Keeping, Polling
<1> HIDE DEF left
<1>7. CASE (write.terminate /\ index) \/ left = 0 \/ left > todo
  <2>1. /\ state' = "write_flux_drain" /\ pc' = "top" /\ timer' = "off" /\ todo' = todo
        /\ UNCHANGED <<pace, taken, torn, stale>>
    BY <1>7 DEF Poll, Drain, FluxEnd, left
  <2>2. left = 0 \/ left > todo => Lead = 0
    BY <1>3, <1>4, <1>6
  <2>3. write.terminate \/ taken = Len(made)
    BY <1>3, <1>7, <2>2
  <2>4. Whole'
    BY <1>1, <1>5, <2>1, <2>3 DEF Whole
  <2> QED
    BY <1>1, <1>2, <2>1, <2>4, DrainKeeps DEF Keeping, Places
<1>8. CASE ~((write.terminate /\ index) \/ left = 0 \/ left > todo)
  <2>1. /\ todo' = left /\ pace' = 0 /\ UNCHANGED <<pc, state, timer, taken, torn, stale>>
    BY <1>8 DEF Poll, left
  <2>2. stale = 0 /\ left = Lead /\ Lead \in 1..(Ring - 1)
    BY <1>3, <1>4, <1>6, <1>8
  <2>3. RingInv' /\ Lead' = Lead
    BY <1>1, <2>1, RingSame DEF Keeping
  <2>4. Places' /\ Polling'
    BY <1>1, <1>2, <1>3, <2>1, <2>2, <2>3 DEF Keeping, Places, Polling, Decoding
  <2>5. Filling' /\ Waiting' /\ Ahead' /\ Whole'
    BY <1>1, <2>1 DEF Filling, Waiting, Ahead, Whole
  <2> QED
    BY <2>3, <2>4, <2>5 DEF Keeping
<1> QED
  BY <1>7, <1>8

\* The drain state, and its end.
LEMMA DrainedKeeps ==
  ASSUME IInv, Keeping, DrainNext \/ floppy_write_drain
  PROVE  Keeping'
<1>1. /\ state = "write_flux_drain" /\ state' \in {"write_flux_drain", "command_wait"}
      /\ pc' = "top"
      /\ UNCHANGED <<status, todo, stream, rx, usb_packet, u_prod, at, write, dma, made,
                     timer, pace, taken, torn, stale>>
  BY DEF DrainNext, floppy_write_drain, host, input, out, play
<1>2. Level' = Level /\ timer' # "running"
  BY <1>1, LevelSame DEF Keeping, Places
<1>3. Whole'
  BY <1>1, DrainedWhole DEF Keeping
<1> QED
  BY <1>1, <1>2, <1>3, DrainKeeps DEF Keeping, Places

\* The ring and u_buf are empty before a write.
LEMMA EmptyRing ==
  /\ \A s \in Streams : End[s][0] = 0 /\ Len(s) # 0
  /\ Empty \in [prod : 0..(Ring - 1), cons : 0..(Ring - 1), buf : [0..(Ring - 1) -> Nat]]
  /\ Empty.prod = 0 /\ Empty.cons = 0 /\ 0 \in 0..Speed /\ Len(<<>>) = 0
<1>1. 0 \in 0..(Ring - 1) /\ 0 \in 0..Speed /\ 0 \in Nat
  BY Margins
<1> DEFINE b == [i \in 0..(Ring - 1) |-> 0]
<1>2. b \in [0..(Ring - 1) -> Nat]
  OBVIOUS
<1>3. Empty = [prod |-> 0, cons |-> 0, buf |-> b]
  BY DEF Empty
<1> HIDE DEF b
<1>4. \A s \in Streams : End[s][0] = 0 /\ Len(s) # 0
  BY EndIs, StreamAssumption DEF Counts
<1> QED
  BY <1>1, <1>2, <1>3, <1>4, EmptySeq

\* At the start, and when a write is set up.
LEMMA InitKeeping == Init => Keeping
<1> SUFFICES ASSUME Init PROVE Keeping
  OBVIOUS
<1>1. /\ state = "command_wait" /\ pc = "top" /\ todo = 0 /\ stream \in Streams
      /\ rx = 0 /\ usb_packet = 0 /\ u_prod = 0 /\ at = 0 /\ dma = Empty /\ timer = "off"
      /\ pace = 0 /\ made = <<>> /\ taken = 0 /\ torn = FALSE /\ stale = 0
  BY DEF Init
<1>2. ~Decoding
  BY <1>1 DEF Decoding, Before
<1>3. Lead = 0 /\ Len(made) = 0
  BY <1>1, EmptyRing DEF Lead
<1>4. Level = 0 /\ UBufSz \in Nat
  BY <1>1, EmptyRing, Margins DEF Level, u_cons
<1>5. RingInv
  BY <1>1, <1>3, EmptyRing, Margins DEF RingInv
<1>6. Places
  BY <1>1, <1>2, <1>4, EmptyRing DEF Places
<1>7. Filling /\ Waiting /\ Ahead /\ Polling /\ Whole
  BY <1>1 DEF Filling, Waiting, Ahead, Polling, Whole
<1> QED
  BY <1>5, <1>6, <1>7 DEF Keeping

\* Setting up a write empties the ring and u_buf again.
LEMMA PrepKeeping ==
  ASSUME NEW s \in Streams, NEW cue \in BOOLEAN, NEW terminate \in BOOLEAN,
         floppy_write_prep(s, cue, terminate)
  PROVE  Keeping'
<1>1. /\ state' = "write_flux_wait_data" /\ pc' = "top" /\ todo' = 0 /\ stream' = s
      /\ rx' = 0 /\ usb_packet' = 0 /\ u_prod' = 0 /\ at' = 0 /\ dma' = Empty
      /\ timer' = "off" /\ pace' = 0 /\ made' = <<>> /\ taken' = 0 /\ torn' = FALSE
      /\ stale' = 0
  BY DEF floppy_write_prep
<1>2. Lead' = 0 /\ Len(made') = 0
  BY <1>1, EmptyRing DEF Lead
<1>3. Level' = 0 /\ UBufSz \in Nat /\ at' # Len(stream')
  BY <1>1, EmptyRing, Margins DEF Level, u_cons
<1>4. RingInv'
  BY <1>1, <1>2, EmptyRing, Margins DEF RingInv
<1>5. Places'
  BY <1>1, <1>3, EmptyRing DEF Places
<1>6. Filling' /\ Waiting' /\ Ahead' /\ Polling' /\ Whole'
  BY <1>1 DEF Filling, Waiting, Ahead, Polling, Whole
<1> QED
  BY <1>4, <1>5, <1>6 DEF Keeping

\* With streams that are steady, all of this holds in every reachable state.
THEOREM KeepingHolds ==
  ASSUME \A s \in Streams : Steady(s)
  PROVE  Spec => [](IInv /\ Meant /\ Keeping)
<1>1. IInv /\ [Next]_vars => IInv'
  BY PrepSafe, AstableSafe, OneshotSafe, DecodeSafe, OthersSafe DEF Next, MainLoop
<1>2. IInv /\ Meant /\ [Next]_vars => Meant'
  BY PrepMeant, AstableMeant, OneshotMeant, DecodeMeant, OthersMeant DEF Next, MainLoop
<1>3. IInv /\ Meant /\ Keeping /\ [Next]_vars => Keeping'
  <2> SUFFICES ASSUME IInv, Meant, Keeping, [Next]_vars PROVE Keeping'
    OBVIOUS
  <2>1. IInv'
    BY <1>1
  <2>2. CASE \E s \in Streams, cue, terminate \in BOOLEAN :
               floppy_write_prep(s, cue, terminate)
    BY <2>2, PrepKeeping
  <2>3. CASE Turn
    BY <2>3, TurnKeeps
  <2>4. CASE Astable \/ Oneshot
    BY <2>1, <2>4, ModeKeeps
  <2>5. CASE Decode
    BY <2>1, <2>5, DecodeKeeps
  <2>6. CASE DecodeOut
    BY <2>6, DecodeOutKeeps
  <2>7. CASE floppy_write_wait_data
    BY <2>7, WaitDataKeeps
  <2>8. CASE floppy_write_wait_index
    BY <2>8, WaitIndexKeeps
  <2>9. CASE floppy_write
    BY <2>9, WriteKeeps
  <2>10. CASE Poll
    BY <2>10, PollKeeps
  <2>11. CASE DrainNext \/ floppy_write_drain
    BY <2>11, DrainedKeeps
  <2>12. CASE Take
    BY <2>12, TakeKeeps
  <2>13. CASE Send \/ IRQ_INDEX_changed \/ UNCHANGED vars
    BY <2>13, QuietKeeps
  <2> QED
    BY <2>2, <2>3, <2>4, <2>5, <2>6, <2>7, <2>8, <2>9, <2>10, <2>11, <2>12, <2>13
       DEF Next, MainLoop
<1> QED
  BY <1>1, <1>2, <1>3, InitIInv, InitMeant, InitKeeping, PTL DEF Spec

(* Whatever the stream, no packet overwrites bytes of u_buf that the decoder *)
(* has yet to read, and the decoder reads none that have not come: the test  *)
(* of the room before the copy, and that of the length of an opcode.         *)
THEOREM BufferHolds ==
  Spec => [](BytesKept /\ Level >= 0)
<1> DEFINE Held == BytesKept /\ Level \in Nat
<1>1. IInv /\ [Next]_vars => IInv'
  BY PrepSafe, AstableSafe, OneshotSafe, DecodeSafe, OthersSafe DEF Next, MainLoop
<1>2. ASSUME u_prod = 0, usb_packet = 0, rx = 0, at = 0, stream \in Streams
      PROVE  Held
  BY <1>2, EmptyRing, Margins DEF u_cons, Level, BytesKept
<1>3. Init => Held
  BY <1>2 DEF Init
<1>4. IInv /\ Held /\ [Next]_vars => Held'
  <2> SUFFICES ASSUME IInv, Held, [Next]_vars PROVE Held'
    OBVIOUS
  <2>1. CASE \E s \in Streams, cue, terminate \in BOOLEAN :
               floppy_write_prep(s, cue, terminate)
    <3>1. u_prod' = 0 /\ usb_packet' = 0 /\ rx' = 0 /\ at' = 0 /\ stream' \in Streams
      BY <2>1 DEF floppy_write_prep
    <3> QED
      BY <3>1, EmptyRing, Margins DEF u_cons, Level, BytesKept
  <2>2. CASE Turn
    <3>1. floppy_process_write_packet /\ UNCHANGED <<stream, at>>
      BY <2>2 DEF Turn
    <3> DEFINE l == Level'
               m == Level
    <3>2. BytesKept' /\ l \in Int /\ m \in Nat /\ m <= l
      BY <3>1, PacketKeeps DEF BytesKept
    <3> HIDE DEF l, m
    <3>3. l \in Nat
      BY <3>2
    <3> QED
      BY <3>2, <3>3 DEF l
  <2>3. CASE Decode
    BY <2>3, DecodeLevel DEF BytesKept
  <2>4. CASE Send
    <3>1. UNCHANGED <<u_prod, usb_packet, at, stream>> /\ rx' \in Nat
      BY <2>4 DEF Send, input
    <3> QED
      BY <3>1, LevelSame DEF BytesKept
  <2>5. ASSUME UNCHANGED <<u_prod, usb_packet, rx, at, stream>>
        PROVE  Held'
    BY <2>5, LevelSame DEF BytesKept
  <2>6. CASE Astable \/ Oneshot \/ DecodeOut \/ floppy_write_wait_data
               \/ floppy_write_wait_index \/ floppy_write
    BY <2>5, <2>6 DEF Astable, Oneshot, DecodeOut, floppy_write_wait_data,
       floppy_write_wait_index, floppy_write, host, input
  <2>7. CASE Poll \/ DrainNext \/ floppy_write_drain \/ IRQ_INDEX_changed \/ Take
               \/ UNCHANGED vars
    BY <2>5, <2>7 DEF Poll, DrainNext, floppy_write_drain, IRQ_INDEX_changed, Take, host,
       input, vars
  <2> QED
    BY <2>1, <2>2, <2>3, <2>4, <2>6, <2>7 DEF Next, MainLoop
<1>5. Held => BytesKept /\ Level >= 0
  OBVIOUS
<1> QED
  BY <1>1, <1>3, <1>4, <1>5, InitIInv, PTL DEF Spec

(* The DMA engine takes every value once and in order: no slot before it is *)
(* filled, none twice, and none that the decoder has filled again too early. *)
THEOREM KeepsOrder ==
  ASSUME \A s \in Streams : Steady(s)
  PROVE  Spec => []InOrder
<1>1. Keeping => InOrder
  BY DEF Keeping, RingInv, Places, InOrder
<1> QED
  BY <1>1, KeepingHolds, PTL

(* A write that ends well, and not at an index pulse, has put every value of *)
(* its stream on the disk.                                                  *)
THEOREM WritesWhole ==
  ASSUME \A s \in Streams : Steady(s)
  PROVE  Spec => []Whole
<1>1. Keeping => Whole
  BY DEF Keeping
<1> QED
  BY <1>1, KeepingHolds, PTL

(* Between two looks at the ring the DMA engine runs past the end of the    *)
(* stream by no more than it takes in a turn: the loop then sees it.         *)
THEOREM OverrunBounded ==
  ASSUME \A s \in Streams : Steady(s)
  PROVE  Spec => []StaleBounded
<1>1. Keeping => StaleBounded
  BY Margins DEF Keeping, RingInv, StaleBounded
<1> QED
  BY <1>1, KeepingHolds, PTL

(* The DMA engine is enabled with a value in the ring: what an empty ring    *)
(* does to a stream that is not steady cannot happen.                        *)
THEOREM ValueBeforeDma ==
  ASSUME \A s \in Streams : Steady(s)
  PROVE  Spec => FluxBeforeDma
<1>1. IInv /\ Meant /\ Keeping /\ [Next]_vars =>
        [timer = "off" /\ timer' = "armed" /\ Wanted[stream] # <<>> => made # <<>>]_vars
  <2> SUFFICES ASSUME IInv, Meant, Keeping, Next, timer = "off", timer' = "armed"
               PROVE  made # <<>>
    OBVIOUS
  <2>1. floppy_write_wait_data /\ Ready
    BY DEF Next, MainLoop, floppy_write_prep, Turn, Astable, Oneshot, Decode, DecodeOut,
           floppy_write_wait_data, floppy_write_wait_index, floppy_write, Poll, DrainNext,
           floppy_write_drain, Send, IRQ_INDEX_changed, Take, Drain, FluxEnd, play
  <2>2. Len(made) >= Ring - 1 - Speed
    BY <2>1, ReadyNear DEF floppy_write_wait_data
  <2>3. Len(made) > 0
    BY <2>2, Margins, DecoderTypes, LenProperties
  <2> QED
    BY <2>3, EmptySeq
<1> QED
  BY <1>1, KeepingHolds, PTL DEF Spec, FluxBeforeDma
=============================================================================
