------------------------------ MODULE UsbProofs ------------------------------
(***************************************************************************)
(* The USB drivers, for every set of packets and every size of their       *)
(* rings: each is two pipes that lose, repeat and reorder nothing          *)
(* (UsbPipe), and the assertions of hw_dwc_otg.c hold, both for a host     *)
(* that does none of the things hw_dwc_otg.c does not stand (Rough = {}).  *)
(* Then control transfers, for every set of requests and every size of the *)
(* buffer and a host that is not Eager: what the host has, and how often a *)
(* request was carried out.                                                *)
(***************************************************************************)
EXTENDS MCUsb, SequenceTheorems, TLAPS

-----------------------------------------------------------------------------
(* Sequences.                                                              *)

\* What appending, taking and moving a packet do to a queue in two parts.
LEMMA Append2 ==
  ASSUME NEW S, NEW q \in Seq(S), NEW r \in Seq(S), NEW a \in S
  PROVE  /\ q \o Append(r, a) = Append(q \o r, a)
         /\ (q \o <<a>>) \o r = q \o (<<a>> \o r)
         /\ Append(q, a) = q \o <<a>> /\ Append(q, a) \in Seq(S)
<1>1. q \o Append(r, a) = Append(q \o r, a)
  OBVIOUS
<1>2. (q \o <<a>>) \o r = q \o (<<a>> \o r)
  OBVIOUS
<1>3. Append(q, a) = q \o <<a>> /\ Append(q, a) \in Seq(S)
  OBVIOUS
<1>4. QED
  BY <1>1, <1>2, <1>3

\* What appending one element does.
LEMMA Append1 ==
  ASSUME NEW S, NEW q \in Seq(S), NEW a \in S
  PROVE  /\ Append(q, a) = q \o <<a>> /\ Append(q, a) \in Seq(S)
         /\ Len(Append(q, a)) = Len(q) + 1 /\ Len(q) \in Nat
OBVIOUS

\* The first element of a concatenation is that of its first part.
LEMMA Tail2 ==
  ASSUME NEW S, NEW q \in Seq(S), NEW r \in Seq(S), q # <<>>
  PROVE  /\ Tail(q \o r) = Tail(q) \o r /\ Head(q \o r) = Head(q) /\ q \o r # <<>>
         /\ Tail(q) \in Seq(S) /\ Head(q) \in S /\ Len(Tail(q)) = Len(q) - 1
<1>1. Tail(q \o r) = Tail(q) \o r
  OBVIOUS
<1>2. Head(q \o r) = Head(q) /\ q \o r # <<>>
  OBVIOUS
<1>3. Tail(q) \in Seq(S) /\ Head(q) \in S /\ Len(Tail(q)) = Len(q) - 1
  OBVIOUS
<1>4. QED
  BY <1>1, <1>2, <1>3

\* A packet moved from the head of one part to the end of the other.
LEMMA Pass2 ==
  ASSUME NEW S, NEW q \in Seq(S), NEW r \in Seq(S), r # <<>>
  PROVE  q \o r = Append(q, Head(r)) \o Tail(r)
OBVIOUS

\* The empty sequence adds nothing.
LEMMA Empty2 ==
  ASSUME NEW S, NEW q \in Seq(S)
  PROVE  q \o <<>> = q /\ <<>> \o q = q /\ Len(q) \in Nat /\ Len(<<>>) = 0
OBVIOUS

\* One packet, or none.
One(p, c) == IF c THEN <<p>> ELSE <<>>

\* What the sequence of one packet or none is.
LEMMA OneIs ==
  ASSUME NEW S, NEW p \in S, NEW c \in BOOLEAN
  PROVE  /\ One(p, c) \in Seq(S) /\ Len(One(p, c)) = (IF c THEN 1 ELSE 0)
         /\ c => /\ One(p, c) = <<p>> /\ One(p, c) # <<>>
                 /\ Head(One(p, c)) = p /\ Tail(One(p, c)) = <<>>
         /\ ~c => One(p, c) = <<>>
BY DEF One

\* What a step of a pipe does to its queue q.
Moves(q, r, out, reset) ==
  \/ \E p \in Packets : Len(q) < Capacity /\ r = Append(q, p)
                        /\ out = None /\ reset = FALSE
  \/ q # <<>> /\ out = Head(q) /\ r = Tail(q) /\ reset = FALSE
  \/ r = <<>> /\ out = None /\ reset = TRUE
  \/ r = q /\ out = None /\ reset = FALSE

-----------------------------------------------------------------------------
(* hw_usbd.c: two buffers.                                                 *)

Owner == 0..1
Content == Packets \cup {None, Zlp}
Buffers == [Owner -> Content]
UsbdEp == [buf : Buffers, dtog : Owner, sw : Owner,
           nak : BOOLEAN, ctr : BOOLEAN, ready : BOOLEAN]

UsbdMain ==
  {<<"usb">>, <<"unconfigured">>, <<"app">>, <<"handle_rx_transfer">>,
   <<"handle_tx_transfer">>, <<"submit">>}
  \cup {<<"read", b>> : b \in Owner} \cup {<<"release", p>> : p \in Content}
  \cup {<<"write", b, p>> : b \in Owner, p \in Packets}

\* The buffers that software owns.
Held(ep) == IF ep.dtog # ep.sw THEN 1 ELSE IF ep.nak THEN 2 ELSE 0

\* Announced buffers are there, beside the w in work; what is announced
\* twice is there twice.
Announced(ep, w) ==
  /\ ep \in UsbdEp
  /\ ep.nak => ep.dtog = ep.sw
  /\ Held(ep) >= w
  /\ ep.ready \/ ep.ctr => Held(ep) >= w + 1
  /\ ep.ready /\ ep.ctr => Held(ep) >= 2

Reading == IF main[1] \in {"read", "release"} THEN 1 ELSE 0
Writing == IF main[1] \in {"write", "submit"} THEN 1 ELSE 0

UsbdInv ==
  /\ main \in UsbdMain
  /\ Announced(rx, Reading) /\ Announced(tx, Writing)
  /\ main[1] = "read" => main[2] = rx.sw
  /\ main[1] = "release" => main[2] = rx.buf[rx.sw]
  /\ main[1] = "write" => main[2] = tx.sw
  /\ main[1] = "submit" => tx.buf[tx.sw] \in Packets
  /\ main[1] = "handle_rx_transfer" => rx.ctr
  /\ main[1] = "handle_tx_transfer" => tx.ctr

\* The queues, by what software owns.
RxOf(ep) == One(ep.buf[ep.sw], Held(ep) >= 1)
            \o One(ep.buf[1 - ep.sw], Held(ep) >= 2)
TxOf(ep) ==
  One(ep.buf[ep.dtog], Held(ep) <= 1 /\ ep.buf[ep.dtog] # Zlp)
  \o One(ep.buf[1 - ep.dtog], Held(ep) = 0 /\ ep.buf[1 - ep.dtog] # Zlp)

\* There are two buffers.
LEMMA TheOther ==
  ASSUME NEW b \in Owner
  PROVE  (b + 1 - 1) % 2 = b /\ (b + 2 - 1) % 2 = 1 - b /\ 1 - b \in Owner
BY DEF Owner

\* The queues of the refinement are these, before and after a step.
LEMMA UsbdQueues ==
  ASSUME UsbdInv, UsbdInv'
  PROVE  /\ usbd!RxQueue = RxOf(rx) /\ usbd!RxQueue' = RxOf(rx')
         /\ main[1] # "unconfigured" => usbd!TxQueue = TxOf(tx)
         /\ main'[1] # "unconfigured" => usbd!TxQueue' = TxOf(tx')
<1>1. ASSUME NEW ep \in UsbdEp
      PROVE  /\ ep.sw \in Owner /\ ep.dtog \in Owner
             /\ (ep.sw + 1 - 1) % 2 = ep.sw /\ (ep.sw + 2 - 1) % 2 = 1 - ep.sw
             /\ (ep.dtog + 1 - 1) % 2 = ep.dtog /\ (ep.dtog + 2 - 1) % 2 = 1 - ep.dtog
  BY TheOther DEF UsbdEp
<1>2. rx \in UsbdEp /\ rx' \in UsbdEp /\ tx \in UsbdEp /\ tx' \in UsbdEp
  BY DEF UsbdInv, Announced
<1>3. usbd!RxQueue = RxOf(rx)
  BY <1>1, <1>2 DEF usbd!RxQueue, usbd!RxPacket, usbd!RxFull, RxOf, One, Held
<1>4. usbd!RxQueue' = RxOf(rx')
  BY <1>1, <1>2 DEF usbd!RxQueue, usbd!RxPacket, usbd!RxFull, RxOf, One, Held
<1>5. main[1] # "unconfigured" => usbd!TxQueue = TxOf(tx)
  BY <1>1, <1>2
     DEF usbd!TxQueue, usbd!TxPacket, usbd!TxFull, usbd!Configured, TxOf, One, Held
<1>6. main'[1] # "unconfigured" => usbd!TxQueue' = TxOf(tx')
  BY <1>1, <1>2
     DEF usbd!TxQueue, usbd!TxPacket, usbd!TxFull, usbd!Configured, TxOf, One, Held
<1>7. QED
  BY <1>3, <1>4, <1>5, <1>6

\* The hardware receives a packet.
LEMMA Received ==
  ASSUME NEW ep, NEW w \in 0..1, Announced(ep, w), ~ep.nak, NEW p \in Packets
  PROVE  LET r == [usbd!Transacted(ep) EXCEPT !.buf[ep.dtog] = p]
         IN /\ Announced(r, w) /\ r.sw = ep.sw
            /\ w = 1 => r.buf[r.sw] = ep.buf[ep.sw]
            /\ RxOf(r) = Append(RxOf(ep), p) /\ Len(RxOf(ep)) <= 1
<1> DEFINE b == [ep.buf EXCEPT ![ep.dtog] = p]
           r == [usbd!Transacted(ep) EXCEPT !.buf[ep.dtog] = p]
<1>1. /\ ep \in UsbdEp /\ ep.dtog \in Owner /\ ep.sw \in Owner /\ ep.buf \in Buffers
      /\ p \in Content
  BY DEF Announced, UsbdEp, Content
<1>2. /\ b \in Buffers /\ b[ep.dtog] = p /\ b[1 - ep.dtog] = ep.buf[1 - ep.dtog]
      /\ 1 - ep.dtog \in Owner
  BY <1>1 DEF Buffers, Owner
<1>3. /\ r.buf = b /\ r.dtog = 1 - ep.dtog /\ r.sw = ep.sw
      /\ (r.nak <=> 1 - ep.dtog = ep.sw) /\ r.ctr /\ (r.ready <=> ep.ready)
  BY <1>1 DEF usbd!Transacted, UsbdEp
<1>4. r \in UsbdEp
  BY <1>1, <1>2 DEF usbd!Transacted, UsbdEp
<1> HIDE DEF b, r
<1>5. CASE ep.dtog = ep.sw
  <2>1. Held(ep) = 0 /\ Held(r) = 1 /\ w = 0
    BY <1>1, <1>3, <1>5 DEF Held, Announced, Owner
  <2>2. RxOf(ep) = <<>> \o <<>> /\ RxOf(r) = <<p>> \o <<>>
    BY <1>2, <1>3, <1>5, <2>1 DEF RxOf, One
  <2>3. RxOf(ep) = <<>> /\ RxOf(r) = Append(RxOf(ep), p) /\ Len(RxOf(ep)) = 0
    BY <2>2, Empty2
  <2>4. Announced(r, w)
    BY <1>1, <1>3, <1>4, <1>5, <2>1 DEF Announced, Held, Owner
  <2>5. QED
    BY <1>3, <2>1, <2>3, <2>4 DEF r
<1>6. CASE ep.dtog # ep.sw
  <2>1. ep.sw = 1 - ep.dtog /\ 1 - ep.sw = ep.dtog
    BY <1>1, <1>6 DEF Owner
  <2>2. Held(ep) = 1 /\ Held(r) = 2
    BY <1>3, <1>6, <2>1 DEF Held
  <2>3. RxOf(ep) = <<ep.buf[ep.sw]>> \o <<>> /\ RxOf(r) = <<ep.buf[ep.sw]>> \o <<p>>
    BY <1>2, <1>3, <2>1, <2>2 DEF RxOf, One
  <2>4. ep.buf[ep.sw] \in Content
    BY <1>1 DEF Buffers
  <2>5. RxOf(ep) = <<ep.buf[ep.sw]>> /\ Len(RxOf(ep)) = 1
        /\ RxOf(r) = Append(RxOf(ep), p)
    BY <1>1, <2>3, <2>4
  <2>6. Announced(r, w)
    BY <1>3, <1>4, <1>6, <2>1, <2>2 DEF Announced, Held
  <2>7. r.buf[r.sw] = ep.buf[ep.sw]
    BY <1>2, <1>3, <2>1
  <2>8. QED
    BY <1>3, <2>5, <2>6, <2>7 DEF r
<1>7. QED
  BY <1>5, <1>6

\* The host takes a packet from the hardware, or an empty one.
LEMMA Sent ==
  ASSUME NEW ep, NEW w \in 0..1, Announced(ep, w), ~ep.nak
  PROVE  LET r == [usbd!Transacted(ep) EXCEPT !.buf[ep.dtog] = None]
         IN /\ Announced(r, w) /\ r.sw = ep.sw
            /\ w = 1 => r.buf[r.sw] = ep.buf[ep.sw]
            /\ ep.buf[ep.dtog] = Zlp => TxOf(r) = TxOf(ep)
            /\ ep.buf[ep.dtog] # Zlp => /\ TxOf(ep) # <<>>
                                        /\ Head(TxOf(ep)) = ep.buf[ep.dtog]
                                        /\ TxOf(r) = Tail(TxOf(ep))
<1> DEFINE b == [ep.buf EXCEPT ![ep.dtog] = None]
           r == [usbd!Transacted(ep) EXCEPT !.buf[ep.dtog] = None]
           x == ep.buf[ep.dtog]
           y == One(ep.buf[1 - ep.dtog], ep.dtog = ep.sw /\ ep.buf[1 - ep.dtog] # Zlp)
<1>1. /\ ep \in UsbdEp /\ ep.dtog \in Owner /\ ep.sw \in Owner /\ ep.buf \in Buffers
      /\ None \in Content
  BY DEF Announced, UsbdEp, Content
<1>2. /\ b \in Buffers /\ b[1 - ep.dtog] = ep.buf[1 - ep.dtog]
      /\ 1 - ep.dtog \in Owner /\ x \in Content /\ ep.buf[1 - ep.dtog] \in Content
  BY <1>1 DEF Buffers, Owner
<1>3. /\ r.buf = b /\ r.dtog = 1 - ep.dtog /\ r.sw = ep.sw
      /\ (r.nak <=> 1 - ep.dtog = ep.sw) /\ r.ctr /\ (r.ready <=> ep.ready)
  BY <1>1 DEF usbd!Transacted, UsbdEp
<1>4. r \in UsbdEp
  BY <1>1, <1>2 DEF usbd!Transacted, UsbdEp
<1> HIDE DEF b, r
<1>5. y \in Seq(Content)
  BY <1>2, OneIs
<1>6. TxOf(ep) = One(x, x # Zlp) \o y
  BY <1>1 DEF TxOf, Held, One
<1>7. TxOf(r) = y \o <<>>
  <2>1. 1 - r.dtog = ep.dtog /\ Held(r) >= 1
    BY <1>1, <1>3 DEF Held, Owner
  <2>2. Held(r) <= 1 <=> ep.dtog = ep.sw
    BY <1>1, <1>3 DEF Held, Owner
  <2>3. r.buf[r.dtog] = ep.buf[1 - ep.dtog]
    BY <1>2, <1>3
  <2>4. One(r.buf[r.dtog], Held(r) <= 1 /\ r.buf[r.dtog] # Zlp) = y
    BY <2>2, <2>3 DEF One
  <2>5. One(r.buf[1 - r.dtog], Held(r) = 0 /\ r.buf[1 - r.dtog] # Zlp) = <<>>
    BY <2>1 DEF One, Held
  <2>6. QED
    BY <2>4, <2>5 DEF TxOf
<1>8. TxOf(r) = y
  BY <1>5, <1>7, Empty2
<1>9. Announced(r, w) /\ (w = 1 => r.buf[r.sw] = ep.buf[ep.sw])
  BY <1>1, <1>2, <1>3, <1>4 DEF Announced, Held, Owner
<1> HIDE DEF y
<1>10. x = Zlp => TxOf(ep) = y
  BY <1>5, <1>6, Empty2 DEF One
<1>11. x # Zlp => TxOf(ep) # <<>> /\ Head(TxOf(ep)) = x /\ Tail(TxOf(ep)) = y
  <2> SUFFICES ASSUME x # Zlp PROVE TxOf(ep) # <<>> /\ Head(TxOf(ep)) = x /\ Tail(TxOf(ep)) = y
    OBVIOUS
  <2> DEFINE q == One(x, x # Zlp)
  <2>1. q \in Seq(Content) /\ q # <<>> /\ Head(q) = x /\ Tail(q) = <<>>
    BY <1>2, OneIs
  <2> HIDE DEF q
  <2>2. q \o y # <<>> /\ Head(q \o y) = x /\ Tail(q \o y) = <<>> \o y
    BY <1>5, <2>1, Tail2
  <2>3. QED
    BY <1>5, <1>6, <2>2, Empty2 DEF q
<1>12. QED
  BY <1>3, <1>8, <1>9, <1>10, <1>11 DEF r

\* usb_read() and usb_write() begin: the buffer is in work from here on.
LEMMA WorkBegins ==
  ASSUME NEW ep, Announced(ep, 0), ep.ready
  PROVE  LET r == [ep EXCEPT !.ready = usbd!BothOurs(ep)]
         IN /\ Announced(r, 1) /\ r.buf = ep.buf /\ r.sw = ep.sw
            /\ RxOf(r) = RxOf(ep) /\ TxOf(r) = TxOf(ep)
<1> DEFINE r == [ep EXCEPT !.ready = usbd!BothOurs(ep)]
<1>1. ep \in UsbdEp
  BY DEF Announced
<1>2. /\ r.buf = ep.buf /\ r.dtog = ep.dtog /\ r.sw = ep.sw /\ (r.nak <=> ep.nak)
      /\ (r.ctr <=> ep.ctr) /\ (r.ready <=> ep.dtog = ep.sw) /\ r \in UsbdEp
  BY <1>1 DEF usbd!BothOurs, UsbdEp
<1> HIDE DEF r
<1>3. Held(r) = Held(ep)
  BY <1>2 DEF Held
<1>4. RxOf(r) = RxOf(ep) /\ TxOf(r) = TxOf(ep)
  BY <1>2, <1>3 DEF RxOf, TxOf
<1>5. Announced(r, 1)
  BY <1>2, <1>3 DEF Announced, Held
<1>6. QED
  BY <1>2, <1>4, <1>5 DEF r

\* A completed transfer becomes ready.
LEMMA TransferHandled ==
  ASSUME NEW ep, Announced(ep, 0), ep.ctr
  PROVE  LET r == [usbd!clear_ctr(ep) EXCEPT !.ready = TRUE]
         IN Announced(r, 0) /\ RxOf(r) = RxOf(ep) /\ TxOf(r) = TxOf(ep)
<1> DEFINE r == [usbd!clear_ctr(ep) EXCEPT !.ready = TRUE]
<1>1. ep \in UsbdEp
  BY DEF Announced
<1>2. /\ r.buf = ep.buf /\ r.dtog = ep.dtog /\ r.sw = ep.sw /\ (r.nak <=> ep.nak)
      /\ ~r.ctr /\ r.ready /\ r \in UsbdEp
  BY <1>1 DEF usbd!clear_ctr, UsbdEp
<1> HIDE DEF r
<1>3. Held(r) = Held(ep)
  BY <1>2 DEF Held
<1>4. RxOf(r) = RxOf(ep) /\ TxOf(r) = TxOf(ep)
  BY <1>2, <1>3 DEF RxOf, TxOf
<1>5. Announced(r, 0)
  BY <1>2, <1>3 DEF Announced, Held
<1>6. QED
  BY <1>2, <1>4, <1>5 DEF r

\* The buffer in work goes back to the hardware.
LEMMA Toggled ==
  ASSUME NEW ep, Announced(ep, 1), NEW b \in Buffers
  PROVE  LET r == [usbd!ToggleSwBuf(ep) EXCEPT !.buf = b]
         IN /\ Announced(r, 0) /\ r.buf = b /\ r.dtog = ep.dtog /\ r.sw = 1 - ep.sw
            /\ Held(r) = Held(ep) - 1
<1> DEFINE r == [usbd!ToggleSwBuf(ep) EXCEPT !.buf = b]
<1>1. ep \in UsbdEp /\ ep.dtog \in Owner /\ ep.sw \in Owner
  BY DEF Announced, UsbdEp
<1>2. /\ r.buf = b /\ r.dtog = ep.dtog /\ r.sw = 1 - ep.sw /\ ~r.nak
      /\ (r.ctr <=> ep.ctr /\ ~ep.ready) /\ (r.ready <=> ep.ready) /\ r \in UsbdEp
  <2> DEFINE c == ep.ctr /\ ~ep.ready
             t == [ep EXCEPT !.sw = 1 - ep.sw, !.nak = FALSE, !.ctr = c]
  <2>1. 1 - ep.sw \in Owner /\ c \in BOOLEAN
    BY <1>1 DEF Owner
  <2>2. usbd!ToggleSwBuf(ep) = t
    BY <1>1 DEF usbd!ToggleSwBuf, UsbdEp
  <2> HIDE DEF c
  <2>3. /\ t.buf = ep.buf /\ t.dtog = ep.dtog /\ t.sw = 1 - ep.sw /\ ~t.nak
        /\ (t.ctr <=> c) /\ (t.ready <=> ep.ready) /\ t \in UsbdEp
    BY <1>1, <2>1 DEF UsbdEp
  <2> HIDE DEF t
  <2>4. r = [t EXCEPT !.buf = b]
    BY <2>2
  <2>5. QED
    BY <2>3, <2>4 DEF UsbdEp, c
<1> HIDE DEF r
<1>3. Held(r) = Held(ep) - 1
  BY <1>1, <1>2 DEF Announced, Held, Owner
<1>4. Announced(r, 0)
  <2>1. ep.ready \/ ep.ctr => Held(ep) >= 2
    BY DEF Announced
  <2>2. Held(ep) \in 0..2 /\ Held(ep) >= 1
    BY DEF Announced, Held
  <2>3. QED
    BY <1>2, <1>3, <2>1, <2>2 DEF Announced
<1>5. QED
  BY <1>2, <1>3, <1>4 DEF r

\* usb_read() ends: the packet it has copied leaves the queue.
LEMMA ReadEnds ==
  ASSUME NEW ep, Announced(ep, 1)
  PROVE  LET r == [usbd!ToggleSwBuf(ep) EXCEPT !.buf[ep.sw] = None]
         IN /\ Announced(r, 0) /\ RxOf(ep) # <<>>
            /\ Head(RxOf(ep)) = ep.buf[ep.sw] /\ RxOf(r) = Tail(RxOf(ep))
<1> DEFINE b == [ep.buf EXCEPT ![ep.sw] = None]
           r == [usbd!ToggleSwBuf(ep) EXCEPT !.buf = b]
           q == One(ep.buf[ep.sw], Held(ep) >= 1)
           y == One(ep.buf[1 - ep.sw], Held(ep) >= 2)
<1>1. /\ ep \in UsbdEp /\ ep.dtog \in Owner /\ ep.sw \in Owner /\ ep.buf \in Buffers
      /\ None \in Content /\ Held(ep) \in 1..2
  BY DEF Announced, UsbdEp, Content, Held
<1>2. /\ b \in Buffers /\ b[1 - ep.sw] = ep.buf[1 - ep.sw]
      /\ ep.buf[ep.sw] \in Content /\ ep.buf[1 - ep.sw] \in Content
      /\ 1 - (1 - ep.sw) = ep.sw
  BY <1>1 DEF Buffers, Owner
<1>3. [usbd!ToggleSwBuf(ep) EXCEPT !.buf[ep.sw] = None] = r
  BY <1>1 DEF usbd!ToggleSwBuf, UsbdEp
<1> HIDE DEF b
<1>4. /\ Announced(r, 0) /\ r.buf = b /\ r.sw = 1 - ep.sw /\ Held(r) = Held(ep) - 1
  BY <1>2, Toggled
<1> HIDE DEF r
<1>5. q \in Seq(Content) /\ q # <<>> /\ Head(q) = ep.buf[ep.sw] /\ Tail(q) = <<>>
  <2>1. q = <<ep.buf[ep.sw]>>
    BY <1>1 DEF One
  <2> HIDE DEF q
  <2>2. QED
    BY <1>2, <2>1
<1>6. y \in Seq(Content)
  BY <1>2 DEF One
<1>7. RxOf(r) = y \o <<>>
  <2>1. One(r.buf[r.sw], Held(r) >= 1) = y
    BY <1>1, <1>2, <1>4 DEF One
  <2>2. One(r.buf[1 - r.sw], Held(r) >= 2) = <<>>
    BY <1>1, <1>4 DEF One
  <2>3. QED
    BY <2>1, <2>2 DEF RxOf
<1>8. RxOf(ep) = q \o y
  BY DEF RxOf
<1> HIDE DEF q, y
<1>9. RxOf(ep) # <<>> /\ Head(RxOf(ep)) = ep.buf[ep.sw] /\ Tail(RxOf(ep)) = <<>> \o y
  <2>1. /\ q \o y # <<>> /\ Head(q \o y) = Head(q) /\ Tail(q \o y) = Tail(q) \o y
    BY <1>5, <1>6, Tail2
  <2>2. QED
    BY <1>5, <1>8, <2>1
<1>10. RxOf(r) = Tail(RxOf(ep))
  BY <1>6, <1>7, <1>9, Empty2
<1>11. QED
  BY <1>3, <1>4, <1>9, <1>10

\* usb_write() ends: the packet it has copied joins the queue.
LEMMA WriteEnds ==
  ASSUME NEW ep, Announced(ep, 1), ep.buf[ep.sw] \in Packets
  PROVE  LET r == usbd!ToggleSwBuf(ep)
         IN /\ Announced(r, 0) /\ Len(TxOf(ep)) <= 1
            /\ TxOf(r) = Append(TxOf(ep), ep.buf[ep.sw])
<1> DEFINE r == [usbd!ToggleSwBuf(ep) EXCEPT !.buf = ep.buf]
           x == ep.buf[ep.sw]
           q == One(ep.buf[ep.dtog], Held(ep) <= 1 /\ ep.buf[ep.dtog] # Zlp)
<1>1. /\ ep \in UsbdEp /\ ep.dtog \in Owner /\ ep.sw \in Owner /\ ep.buf \in Buffers
      /\ Held(ep) \in 1..2
  BY DEF Announced, UsbdEp, Held
<1>2. x # Zlp /\ x \in Content /\ ep.buf[ep.dtog] \in Content
  BY <1>1, UsbAssumption DEF Content, Buffers
<1>3. usbd!ToggleSwBuf(ep) = r
  BY <1>1 DEF usbd!ToggleSwBuf, UsbdEp
<1>4. /\ Announced(r, 0) /\ r.buf = ep.buf /\ r.dtog = ep.dtog /\ Held(r) = Held(ep) - 1
  BY <1>1, Toggled
<1> HIDE DEF r
<1>5. q \in Seq(Content) /\ Len(q) <= 1
  BY <1>2 DEF One
<1>6. TxOf(ep) = q \o <<>>
  <2>1. One(ep.buf[1 - ep.dtog], Held(ep) = 0 /\ ep.buf[1 - ep.dtog] # Zlp) = <<>>
    BY <1>1 DEF One
  <2>2. QED
    BY <2>1 DEF TxOf
<1>7. TxOf(r) = q \o <<x>>
  <2>1. CASE Held(ep) = 1
    <3>1. ep.sw = 1 - ep.dtog
      BY <1>1, <2>1 DEF Held, Owner
    <3>2. One(r.buf[1 - r.dtog], Held(r) = 0 /\ r.buf[1 - r.dtog] # Zlp) = <<x>>
      BY <1>2, <1>4, <2>1, <3>1 DEF One
    <3>3. One(r.buf[r.dtog], Held(r) <= 1 /\ r.buf[r.dtog] # Zlp) = q
      BY <1>4, <2>1 DEF One
    <3>4. QED
      BY <3>2, <3>3 DEF TxOf
  <2>2. CASE Held(ep) = 2
    <3>1. ep.sw = ep.dtog
      BY <1>1, <2>2 DEF Held, Owner
    <3>2. One(r.buf[1 - r.dtog], Held(r) = 0 /\ r.buf[1 - r.dtog] # Zlp) = <<>>
      BY <1>4, <2>2 DEF One
    <3>3. One(r.buf[r.dtog], Held(r) <= 1 /\ r.buf[r.dtog] # Zlp) = <<x>>
      BY <1>2, <1>4, <2>2, <3>1 DEF One
    <3>4. q = <<>>
      BY <2>2 DEF One
    <3>5. <<x>> \o <<>> = <<>> \o <<x>>
      BY <1>2
    <3>6. QED
      BY <3>2, <3>3, <3>4, <3>5 DEF TxOf
  <2>3. QED
    BY <1>1, <2>1, <2>2
<1> HIDE DEF q
<1>8. TxOf(ep) = q
  BY <1>5, <1>6, Empty2
<1>9. TxOf(r) = Append(TxOf(ep), x)
  BY <1>2, <1>5, <1>7, <1>8, Append2
<1>10. QED
  BY <1>3, <1>4, <1>5, <1>8, <1>9

\* While usb_write() copies, the hardware does not own the buffer.
LEMMA CopyUnseen ==
  ASSUME NEW ep, Announced(ep, 1), NEW p \in Packets
  PROVE  LET r == [ep EXCEPT !.buf[ep.sw] = p]
         IN Announced(r, 1) /\ r.sw = ep.sw /\ r.buf[r.sw] = p /\ TxOf(r) = TxOf(ep)
<1> DEFINE b == [ep.buf EXCEPT ![ep.sw] = p]
           r == [ep EXCEPT !.buf = b]
<1>1. /\ ep \in UsbdEp /\ ep.dtog \in Owner /\ ep.sw \in Owner /\ ep.buf \in Buffers
      /\ Held(ep) \in 1..2 /\ p \in Content
  BY DEF Announced, UsbdEp, Held, Content
<1>2. b \in Buffers /\ b[ep.sw] = p /\ (ep.dtog # ep.sw => b[ep.dtog] = ep.buf[ep.dtog])
  BY <1>1 DEF Buffers
<1>3. [ep EXCEPT !.buf[ep.sw] = p] = r
  OBVIOUS
<1> HIDE DEF b
<1>4. /\ r.buf = b /\ r.dtog = ep.dtog /\ r.sw = ep.sw /\ (r.nak <=> ep.nak)
      /\ (r.ctr <=> ep.ctr) /\ (r.ready <=> ep.ready) /\ r \in UsbdEp
  BY <1>1, <1>2 DEF UsbdEp
<1> HIDE DEF r
<1>5. Held(r) = Held(ep)
  BY <1>4 DEF Held
<1>6. Announced(r, 1)
  BY <1>4, <1>5 DEF Announced
<1>7. TxOf(r) = TxOf(ep)
  <2>1. One(r.buf[1 - r.dtog], Held(r) = 0 /\ r.buf[1 - r.dtog] # Zlp)
          = One(ep.buf[1 - ep.dtog], Held(ep) = 0 /\ ep.buf[1 - ep.dtog] # Zlp)
    BY <1>1, <1>5 DEF One
  <2>2. One(r.buf[r.dtog], Held(r) <= 1 /\ r.buf[r.dtog] # Zlp)
          = One(ep.buf[ep.dtog], Held(ep) <= 1 /\ ep.buf[ep.dtog] # Zlp)
    BY <1>1, <1>2, <1>4, <1>5 DEF One, Held
  <2>3. QED
    BY <2>1, <2>2 DEF TxOf
<1>8. QED
  BY <1>2, <1>3, <1>4, <1>6, <1>7

\* What a step does to the two queues.
UsbdMoves ==
  /\ Moves(RxOf(rx), RxOf(rx'), got', fresh')
  /\ Moves(TxOf(tx), TxOf(tx'), sent', fresh')
  /\ fresh' # TRUE => main[1] # "unconfigured" /\ main'[1] # "unconfigured"

\* The endpoints as they are configured hold nothing.
LEMMA UsbdConfigured ==
  /\ Announced(usbd!RxConfigured, 0) /\ RxOf(usbd!RxConfigured) = <<>>
  /\ Announced(usbd!TxConfigured, 0) /\ TxOf(usbd!TxConfigured) = <<>>
<1> DEFINE r == usbd!RxConfigured
           t == usbd!TxConfigured
<1>1. /\ r \in UsbdEp /\ r.dtog = 0 /\ r.sw = 0 /\ ~r.nak /\ ~r.ctr /\ ~r.ready
  BY DEF usbd!RxConfigured, UsbdEp, Buffers, Content, Owner
<1>2. /\ t \in UsbdEp /\ t.dtog = 0 /\ t.sw = 1 /\ ~t.nak /\ ~t.ctr /\ t.ready
      /\ t.buf[0] = Zlp /\ t.buf[1] = Zlp
  BY DEF usbd!TxConfigured, UsbdEp, Buffers, Content, Owner
<1> HIDE DEF r, t
<1>3. Held(r) = 0 /\ Held(t) = 1
  BY <1>1, <1>2 DEF Held
<1>4. Announced(r, 0) /\ Announced(t, 0)
  BY <1>1, <1>2, <1>3 DEF Announced
<1>5. RxOf(r) = <<>> \o <<>>
  BY <1>3 DEF RxOf, One
<1>6. TxOf(t) = <<>> \o <<>>
  BY <1>2, <1>3 DEF TxOf, One
<1>7. QED
  BY <1>4, <1>5, <1>6, Empty2 DEF r, t

\* A step that leaves an endpoint's queue alone.
LEMMA NothingMoves ==
  ASSUME NEW q
  PROVE  Moves(q, q, None, FALSE)
BY DEF Moves

\* The hardware and the host.
LEMMA UsbdHostStep ==
  ASSUME UsbdInv, (\E p \in Packets : usbd!HostOut(p)) \/ usbd!HostIn
  PROVE  UsbdInv' /\ UsbdMoves
<1>0. /\ main \in UsbdMain /\ Announced(rx, Reading) /\ Announced(tx, Writing)
      /\ Reading \in 0..1 /\ Writing \in 0..1
  BY DEF UsbdInv, Reading, Writing
<1>1. ASSUME NEW p \in Packets, usbd!HostOut(p) PROVE UsbdInv' /\ UsbdMoves
  <2> DEFINE r == [usbd!Transacted(rx) EXCEPT !.buf[rx.dtog] = p]
  <2>1. /\ rx' = r /\ ~rx.nak /\ tx' = tx /\ main' = main /\ main[1] # "unconfigured"
        /\ got' = None /\ sent' = None /\ fresh' = FALSE
    BY <1>0, <1>1 DEF usbd!HostOut, usbd!Quiet, usbd!Configured, UsbdMain
  <2>2. /\ Announced(r, Reading) /\ r.sw = rx.sw
        /\ Reading = 1 => r.buf[r.sw] = rx.buf[rx.sw]
        /\ RxOf(r) = Append(RxOf(rx), p) /\ Len(RxOf(rx)) <= 1
    BY <1>0, <2>1, Received
  <2>3. r.ctr
    BY <1>0 DEF usbd!Transacted, Announced, UsbdEp
  <2> HIDE DEF r
  <2>4. Reading' = Reading /\ Writing' = Writing
    BY <2>1 DEF Reading, Writing
  <2>5. main[1] \in {"read", "release"} => Reading = 1
    BY DEF Reading
  <2>6. UsbdInv'
    BY <1>0, <2>1, <2>2, <2>3, <2>4, <2>5 DEF UsbdInv
  <2>7. Moves(RxOf(rx), RxOf(rx'), got', fresh')
    BY <2>1, <2>2, UsbAssumption DEF Moves
  <2>8. QED
    BY <2>1, <2>6, <2>7, NothingMoves DEF UsbdMoves
<1>2. CASE usbd!HostIn
  <2> DEFINE t == [usbd!Transacted(tx) EXCEPT !.buf[tx.dtog] = None]
  <2>1. /\ tx' = t /\ ~tx.nak /\ rx' = rx /\ main' = main /\ main[1] # "unconfigured"
        /\ got' = None /\ fresh' = FALSE
        /\ sent' = IF tx.buf[tx.dtog] = Zlp THEN None ELSE tx.buf[tx.dtog]
    BY <1>0, <1>2 DEF usbd!HostIn, usbd!Configured, UsbdMain
  <2>2. /\ Announced(t, Writing) /\ t.sw = tx.sw
        /\ Writing = 1 => t.buf[t.sw] = tx.buf[tx.sw]
        /\ tx.buf[tx.dtog] = Zlp => TxOf(t) = TxOf(tx)
        /\ tx.buf[tx.dtog] # Zlp => /\ TxOf(tx) # <<>>
                                    /\ Head(TxOf(tx)) = tx.buf[tx.dtog]
                                    /\ TxOf(t) = Tail(TxOf(tx))
    BY <1>0, <2>1, Sent
  <2>3. t.ctr
    BY <1>0 DEF usbd!Transacted, Announced, UsbdEp
  <2> HIDE DEF t
  <2>4. Reading' = Reading /\ Writing' = Writing
    BY <2>1 DEF Reading, Writing
  <2>5. main[1] \in {"write", "submit"} => Writing = 1
    BY DEF Writing
  <2>6. UsbdInv'
    BY <1>0, <2>1, <2>2, <2>3, <2>4, <2>5 DEF UsbdInv
  <2>7. Moves(TxOf(tx), TxOf(tx'), sent', fresh')
    BY <2>1, <2>2 DEF Moves
  <2>8. QED
    BY <2>1, <2>6, <2>7, NothingMoves DEF UsbdMoves
<1>3. QED
  BY <1>1, <1>2

\* usb_process() and the main loop move nothing.
LEMMA UsbdProcessStep ==
  ASSUME UsbdInv,
         \/ usbd!usbd_process \/ usbd!handle_rx_transfer \/ usbd!handle_tx_transfer
         \/ usbd!MainLoop
  PROVE  UsbdInv' /\ UsbdMoves
<1>0. main \in UsbdMain /\ Announced(rx, Reading) /\ Announced(tx, Writing)
  BY DEF UsbdInv
<1>1. CASE usbd!usbd_process \/ usbd!MainLoop
  <2>1. /\ main[1] \in {"usb", "app"} /\ rx' = rx /\ tx' = tx
        /\ got' = None /\ sent' = None /\ fresh' = FALSE
        /\ \/ main' = <<"handle_rx_transfer">> /\ rx.ctr
           \/ main' = <<"handle_tx_transfer">> /\ tx.ctr
           \/ main' = <<"app">> \/ main' = <<"usb">>
    BY <1>1 DEF usbd!usbd_process, usbd!MainLoop, usbd!Quiet
  <2>2. Reading = 0 /\ Writing = 0 /\ Reading' = 0 /\ Writing' = 0
    BY <2>1 DEF Reading, Writing
  <2>3. UsbdInv'
    BY <1>0, <2>1, <2>2 DEF UsbdInv, UsbdMain
  <2>4. main[1] # "unconfigured" /\ main'[1] # "unconfigured"
    BY <2>1
  <2>5. Moves(RxOf(rx), RxOf(rx'), got', fresh') /\ Moves(TxOf(tx), TxOf(tx'), sent', fresh')
    BY <2>1, NothingMoves
  <2>6. QED
    BY <2>3, <2>4, <2>5 DEF UsbdMoves
<1>2. CASE usbd!handle_rx_transfer
  <2> DEFINE r == [usbd!clear_ctr(rx) EXCEPT !.ready = TRUE]
  <2>1. /\ main = <<"handle_rx_transfer">> /\ rx' = r /\ tx' = tx /\ main' = <<"app">>
        /\ got' = None /\ sent' = None /\ fresh' = FALSE
    BY <1>2 DEF usbd!handle_rx_transfer, usbd!Quiet
  <2>2. Reading = 0 /\ Writing = 0 /\ Reading' = 0 /\ Writing' = 0
    BY <2>1 DEF Reading, Writing
  <2>3. Announced(r, 0) /\ RxOf(r) = RxOf(rx)
    BY <1>0, <2>1, <2>2, TransferHandled DEF UsbdInv
  <2> HIDE DEF r
  <2>4. UsbdInv'
    BY <1>0, <2>1, <2>2, <2>3 DEF UsbdInv, UsbdMain
  <2>5. QED
    BY <2>1, <2>3, <2>4, NothingMoves DEF UsbdMoves
<1>3. CASE usbd!handle_tx_transfer
  <2> DEFINE t == [usbd!clear_ctr(tx) EXCEPT !.ready = TRUE]
  <2>1. /\ main = <<"handle_tx_transfer">> /\ tx' = t /\ rx' = rx /\ main' = <<"app">>
        /\ got' = None /\ sent' = None /\ fresh' = FALSE
    BY <1>3 DEF usbd!handle_tx_transfer, usbd!Quiet
  <2>2. Reading = 0 /\ Writing = 0 /\ Reading' = 0 /\ Writing' = 0
    BY <2>1 DEF Reading, Writing
  <2>3. Announced(t, 0) /\ TxOf(t) = TxOf(tx)
    BY <1>0, <2>1, <2>2, TransferHandled DEF UsbdInv
  <2> HIDE DEF t
  <2>4. UsbdInv'
    BY <1>0, <2>1, <2>2, <2>3 DEF UsbdInv, UsbdMain
  <2>5. QED
    BY <2>1, <2>3, <2>4, NothingMoves DEF UsbdMoves
<1>4. QED
  BY <1>1, <1>2, <1>3

\* usb_read(), step by step.
LEMMA UsbdReadStep ==
  ASSUME UsbdInv, usbd!ReadStart \/ usbd!ReadCopy \/ usbd!ReadRelease
  PROVE  UsbdInv' /\ UsbdMoves
<1>0. main \in UsbdMain /\ Announced(rx, Reading) /\ Announced(tx, Writing)
  BY DEF UsbdInv
<1>1. CASE usbd!ReadStart
  <2> DEFINE r == [rx EXCEPT !.ready = usbd!BothOurs(rx)]
  <2>1. /\ main = <<"app">> /\ rx.ready /\ rx' = r /\ tx' = tx
        /\ main' = <<"read", rx.sw>>
        /\ got' = None /\ sent' = None /\ fresh' = FALSE
    BY <1>1 DEF usbd!ReadStart, usbd!Quiet
  <2>2. Reading = 0 /\ Writing = 0 /\ Reading' = 1 /\ Writing' = 0
    BY <2>1 DEF Reading, Writing
  <2>3. Announced(r, 1) /\ r.sw = rx.sw /\ RxOf(r) = RxOf(rx)
    BY <1>0, <2>1, <2>2, WorkBegins
  <2> HIDE DEF r
  <2>4. rx.sw \in Owner
    BY <1>0 DEF Announced, UsbdEp
  <2>5. UsbdInv'
    BY <1>0, <2>1, <2>2, <2>3, <2>4 DEF UsbdInv, UsbdMain
  <2>6. QED
    BY <2>1, <2>3, <2>5, NothingMoves DEF UsbdMoves
<1>2. CASE usbd!ReadCopy
  <2>1. /\ main[1] = "read" /\ rx' = rx /\ tx' = tx /\ main' = <<"release", rx.buf[main[2]]>>
        /\ got' = None /\ sent' = None /\ fresh' = FALSE /\ main[2] = rx.sw
    BY <1>2 DEF usbd!ReadCopy, usbd!Quiet, UsbdInv
  <2>2. Reading = 1 /\ Writing = 0 /\ Reading' = 1 /\ Writing' = 0
    BY <2>1 DEF Reading, Writing
  <2>3. rx.buf[rx.sw] \in Content
    BY <1>0 DEF Announced, UsbdEp, Buffers
  <2>4. UsbdInv'
    BY <1>0, <2>1, <2>2, <2>3 DEF UsbdInv, UsbdMain
  <2>5. QED
    BY <2>1, <2>4, NothingMoves DEF UsbdMoves
<1>3. CASE usbd!ReadRelease
  <2> DEFINE r == [usbd!ToggleSwBuf(rx) EXCEPT !.buf[rx.sw] = None]
  <2>1. /\ main[1] = "release" /\ rx' = r /\ tx' = tx /\ main' = <<"app">>
        /\ got' = main[2] /\ sent' = None /\ fresh' = FALSE /\ main[2] = rx.buf[rx.sw]
    BY <1>3 DEF usbd!ReadRelease, UsbdInv
  <2>2. Reading = 1 /\ Writing = 0 /\ Reading' = 0 /\ Writing' = 0
    BY <2>1 DEF Reading, Writing
  <2>3. /\ Announced(r, 0) /\ RxOf(rx) # <<>>
        /\ Head(RxOf(rx)) = rx.buf[rx.sw] /\ RxOf(r) = Tail(RxOf(rx))
    BY <1>0, <2>2, ReadEnds
  <2> HIDE DEF r
  <2>4. UsbdInv'
    BY <1>0, <2>1, <2>2, <2>3 DEF UsbdInv, UsbdMain
  <2>5. Moves(RxOf(rx), RxOf(rx'), got', fresh')
    BY <2>1, <2>3 DEF Moves
  <2>6. QED
    BY <2>1, <2>4, <2>5, NothingMoves DEF UsbdMoves
<1>4. QED
  BY <1>1, <1>2, <1>3

\* usb_write(), step by step.
LEMMA UsbdWriteStep ==
  ASSUME UsbdInv,
         (\E p \in Packets : usbd!WriteStart(p)) \/ usbd!WriteCopy \/ usbd!WriteSubmit
  PROVE  UsbdInv' /\ UsbdMoves
<1>0. main \in UsbdMain /\ Announced(rx, Reading) /\ Announced(tx, Writing)
  BY DEF UsbdInv
<1>1. ASSUME NEW p \in Packets, usbd!WriteStart(p) PROVE UsbdInv' /\ UsbdMoves
  <2> DEFINE t == [tx EXCEPT !.ready = usbd!BothOurs(tx)]
  <2>1. /\ main = <<"app">> /\ tx.ready /\ tx' = t /\ rx' = rx
        /\ main' = <<"write", tx.sw, p>>
        /\ got' = None /\ sent' = None /\ fresh' = FALSE
    BY <1>1 DEF usbd!WriteStart, usbd!Quiet
  <2>2. Reading = 0 /\ Writing = 0 /\ Reading' = 0 /\ Writing' = 1
    BY <2>1 DEF Reading, Writing
  <2>3. Announced(t, 1) /\ t.sw = tx.sw /\ TxOf(t) = TxOf(tx)
    BY <1>0, <2>1, <2>2, WorkBegins
  <2> HIDE DEF t
  <2>4. tx.sw \in Owner
    BY <1>0 DEF Announced, UsbdEp
  <2>5. UsbdInv'
    BY <1>0, <2>1, <2>2, <2>3, <2>4 DEF UsbdInv, UsbdMain
  <2>6. QED
    BY <2>1, <2>3, <2>5, NothingMoves DEF UsbdMoves
<1>2. CASE usbd!WriteCopy
  <2>1. PICK p \in Packets : main[3] = p
    BY <1>0, <1>2 DEF usbd!WriteCopy, UsbdMain
  <2> DEFINE t == [tx EXCEPT !.buf[tx.sw] = p]
  <2>2. /\ main[1] = "write" /\ tx' = t /\ rx' = rx /\ main' = <<"submit">>
        /\ got' = None /\ sent' = None /\ fresh' = FALSE
    BY <1>2, <2>1 DEF usbd!WriteCopy, usbd!Quiet, UsbdInv
  <2>3. Reading = 0 /\ Writing = 1 /\ Reading' = 0 /\ Writing' = 1
    BY <2>2 DEF Reading, Writing
  <2>4. Announced(t, 1) /\ t.buf[t.sw] = p /\ TxOf(t) = TxOf(tx)
    BY <1>0, <2>3, CopyUnseen
  <2> HIDE DEF t
  <2>5. UsbdInv'
    BY <1>0, <2>2, <2>3, <2>4 DEF UsbdInv, UsbdMain
  <2>6. QED
    BY <2>2, <2>4, <2>5, NothingMoves DEF UsbdMoves
<1>3. CASE usbd!WriteSubmit
  <2> DEFINE t == usbd!ToggleSwBuf(tx)
  <2>1. /\ main = <<"submit">> /\ tx' = t /\ rx' = rx /\ main' = <<"app">>
        /\ got' = None /\ sent' = None /\ fresh' = FALSE /\ tx.buf[tx.sw] \in Packets
    BY <1>3 DEF usbd!WriteSubmit, usbd!Quiet, UsbdInv
  <2>2. Reading = 0 /\ Writing = 1 /\ Reading' = 0 /\ Writing' = 0
    BY <2>1 DEF Reading, Writing
  <2>3. /\ Announced(t, 0) /\ Len(TxOf(tx)) <= 1
        /\ TxOf(t) = Append(TxOf(tx), tx.buf[tx.sw])
    BY <1>0, <2>1, <2>2, WriteEnds
  <2> HIDE DEF t
  <2>4. UsbdInv'
    BY <1>0, <2>1, <2>2, <2>3 DEF UsbdInv, UsbdMain
  <2>5. Moves(TxOf(tx), TxOf(tx'), sent', fresh')
    BY <2>1, <2>3, UsbAssumption DEF Moves
  <2>6. QED
    BY <2>1, <2>4, <2>5, NothingMoves DEF UsbdMoves
<1>4. QED
  BY <1>1, <1>2, <1>3

\* Every step of this driver is a step of both pipes.
LEMMA UsbdStep ==
  ASSUME UsbdInv, usbd!Next
  PROVE  /\ UsbdInv'
         /\ Moves(usbd!RxQueue, usbd!RxQueue', got', fresh')
         /\ Moves(usbd!TxQueue, usbd!TxQueue', sent', fresh')
<1>1. UsbdInv' /\ UsbdMoves
  <2>1. CASE usbd!handle_reset \/ usbd!configure_ep
    <3>1. /\ rx' = usbd!RxConfigured /\ tx' = usbd!TxConfigured
          /\ got' = None /\ sent' = None /\ fresh' = TRUE
          /\ main' = <<"usb">> \/ main' = <<"unconfigured">>
      BY <2>1 DEF usbd!handle_reset, usbd!configure_ep, usbd!Fresh
    <3>2. Reading' = 0 /\ Writing' = 0
      BY <3>1 DEF Reading, Writing
    <3>3. UsbdInv'
      BY <3>1, <3>2, UsbdConfigured DEF UsbdInv, UsbdMain
    <3>4. QED
      BY <3>1, <3>3, UsbdConfigured DEF UsbdMoves, Moves
  <2>2. QED
    BY <2>1, UsbdHostStep, UsbdProcessStep, UsbdReadStep, UsbdWriteStep
       DEF usbd!Next, usbd!Firmware
<1>2. /\ usbd!RxQueue = RxOf(rx) /\ usbd!RxQueue' = RxOf(rx')
      /\ main[1] # "unconfigured" => usbd!TxQueue = TxOf(tx)
      /\ main'[1] # "unconfigured" => usbd!TxQueue' = TxOf(tx')
  BY <1>1, UsbdQueues
<1>3. CASE fresh' = TRUE
  <2>1. TxOf(tx') = <<>> /\ sent' = None
    BY <1>1, <1>3 DEF UsbdMoves, Moves
  <2>2. usbd!TxQueue' = <<>>
    <3>1. CASE main'[1] = "unconfigured"
      <4>1. main' = <<"unconfigured">>
        BY <1>1, <3>1 DEF UsbdInv, UsbdMain
      <4>2. QED
        BY <4>1 DEF usbd!TxQueue, usbd!Configured
    <3>2. CASE main'[1] # "unconfigured"
      BY <1>2, <2>1, <3>2
    <3>3. QED
      BY <3>1, <3>2
  <2>3. Moves(usbd!TxQueue, usbd!TxQueue', sent', fresh')
    BY <1>3, <2>1, <2>2 DEF Moves
  <2>4. QED
    BY <1>1, <1>2, <2>3 DEF UsbdMoves
<1>4. CASE fresh' # TRUE
  BY <1>1, <1>2, <1>4 DEF UsbdMoves
<1>5. QED
  BY <1>3, <1>4

-----------------------------------------------------------------------------
(* hw_usbd_at32f4.c: a ring beside the buffers.                            *)

Item == Packets \cup {None}
At32Main == {<<"app">>, <<"unconfigured">>}
            \cup {<<l, e>> : l \in {"kick", "masked"}, e \in {"rx", "tx"}}
At32Irq == {<<"idle">>, <<"second">>} \cup {<<"copy", b>> : b \in Owner}
At32Rx == [buf : [Owner -> Item], dtog : Owner, sw : Owner, ctr : BOOLEAN,
           kick : BOOLEAN, ring : Seq(Item)]
At32Tx == [buf : [Owner -> Item], dtog : Owner, sw : Owner, ctr : BOOLEAN,
           kick : BOOLEAN, ring : Seq(Item), slots : 0..2]

\* An interrupt or a kick is for a packet that waits in the hardware.
RxWaits(ep, irq) ==
  /\ ep \in At32Rx /\ Len(ep.ring) <= NBUF
  /\ ep.ctr \/ ep.kick => ep.dtog = ep.sw
  /\ ~(ep.ctr /\ ep.kick)
  /\ irq[1] = "copy" => irq[2] = ep.sw /\ ~ep.kick /\ Len(ep.ring) < NBUF

\* Of the stuffed packets one at most is not in the hardware, or out of it
\* and not yet accounted for; without one there the main loop must kick.
InHardware(ep) == IF ep.dtog # ep.sw \/ ep.ctr THEN 1 ELSE 0
TxSlots(ep, irq) ==
  /\ ep \in At32Tx /\ Len(ep.ring) <= NBUF
  /\ ep.slots \in InHardware(ep)..(InHardware(ep) + 1)
  /\ ep.ctr => ep.dtog = ep.sw
  /\ ep.kick => InHardware(ep) = 0 /\ ep.slots = 0
  /\ irq[1] = "second" => InHardware(ep) = 1

At32Inv == /\ main \in At32Main /\ aux \in At32Irq
           /\ RxWaits(rx, aux) /\ TxSlots(tx, aux)

\* The queues, part by part.
RxParts(ep, irq) ==
  ep.ring \o (IF irq[1] = "copy" THEN <<ep.buf[irq[2]]>> ELSE <<>>)
          \o (IF ep.dtog = ep.sw THEN <<ep.buf[1 - ep.dtog]>> ELSE <<>>)
TxParts(ep) ==
  (IF ep.dtog # ep.sw THEN <<ep.buf[ep.dtog]>> ELSE <<>>)
  \o (IF ep.slots - InHardware(ep) = 1 THEN <<ep.buf[ep.sw]>> ELSE <<>>)
  \o ep.ring

\* They are the queues of the refinement.
LEMMA At32Queues ==
  /\ at32!RxQueue = RxParts(rx, aux) /\ at32!RxQueue' = RxParts(rx', aux')
  /\ at32!TxQueue = TxParts(tx) /\ at32!TxQueue' = TxParts(tx')
BY DEF at32!RxQueue, at32!TxQueue, RxParts, TxParts, InHardware

\* The queue of EP_RX is the ring and what has not reached it.
LEMMA RxPartsAre ==
  ASSUME NEW ep \in At32Rx, NEW irq, irq[1] = "copy" => irq[2] = ep.sw
  PROVE  LET x == ep.buf[ep.sw]
             y == ep.buf[1 - ep.dtog]
         IN /\ x \in Item /\ y \in Item /\ 1 - ep.dtog \in Owner
            /\ irq[1] # "copy" /\ ep.dtog # ep.sw => RxParts(ep, irq) = ep.ring
            /\ irq[1] # "copy" /\ ep.dtog = ep.sw => RxParts(ep, irq) = Append(ep.ring, y)
            /\ irq[1] = "copy" /\ ep.dtog # ep.sw => RxParts(ep, irq) = Append(ep.ring, x)
            /\ irq[1] = "copy" /\ ep.dtog = ep.sw =>
                 RxParts(ep, irq) = Append(Append(ep.ring, x), y)
<1> DEFINE x == ep.buf[ep.sw]
           y == ep.buf[1 - ep.dtog]
           q == ep.ring
<1>1. /\ x \in Item /\ y \in Item /\ q \in Seq(Item) /\ 1 - ep.dtog \in Owner
  BY DEF At32Rx, Owner
<1>2. RxParts(ep, irq) = q \o (IF irq[1] = "copy" THEN <<x>> ELSE <<>>)
                           \o (IF ep.dtog = ep.sw THEN <<y>> ELSE <<>>)
  BY DEF RxParts
<1> HIDE DEF x, y, q
<1>3. /\ (q \o <<>>) \o <<>> = q /\ (q \o <<>>) \o <<y>> = Append(q, y)
      /\ (q \o <<x>>) \o <<>> = Append(q, x)
      /\ (q \o <<x>>) \o <<y>> = Append(Append(q, x), y)
  <2>1. /\ Append(q, x) = q \o <<x>> /\ Append(q, y) = q \o <<y>>
        /\ Append(q, x) \in Seq(Item)
    BY <1>1, Append1
  <2>2. q \o <<>> = q /\ Append(q, x) \o <<>> = Append(q, x)
    BY <1>1, <2>1, Empty2
  <2>3. Append(Append(q, x), y) = Append(q, x) \o <<y>>
    BY <1>1, <2>1, Append1
  <2>4. QED
    BY <2>1, <2>2, <2>3
<1>4. QED
  BY <1>1, <1>2, <1>3 DEF x, y, q

\* The hardware receives a packet.
LEMMA At32Received ==
  ASSUME NEW ep, NEW irq \in At32Irq, RxWaits(ep, irq), ep.dtog # ep.sw, NEW p \in Packets
  PROVE  LET r == [at32!Transacted(ep) EXCEPT !.buf[ep.dtog] = p]
         IN /\ RxWaits(r, irq)
            /\ RxParts(r, irq) = Append(RxParts(ep, irq), p)
            /\ Len(RxParts(ep, irq)) <= NBUF
<1> DEFINE b == [ep.buf EXCEPT ![ep.dtog] = p]
           r == [at32!Transacted(ep) EXCEPT !.buf[ep.dtog] = p]
<1>1. /\ ep \in At32Rx /\ ep.dtog \in Owner /\ ep.sw = 1 - ep.dtog
      /\ ep.buf \in [Owner -> Item] /\ ep.sw \in Owner
      /\ ep.ring \in Seq(Item) /\ Len(ep.ring) \in Nat
      /\ p \in Item /\ NBUF \in Nat
      /\ irq[1] = "copy" => irq[2] = ep.sw
  BY UsbAssumption DEF RxWaits, At32Rx, Owner, Item
<1>2. b \in [Owner -> Item] /\ b[ep.dtog] = p /\ b[ep.sw] = ep.buf[ep.sw]
  BY <1>1
<1>3. /\ r.buf = b /\ r.dtog = ep.sw /\ r.sw = ep.sw /\ r.ctr /\ (r.kick <=> ep.kick)
      /\ r.ring = ep.ring /\ r \in At32Rx
  BY <1>1, <1>2 DEF at32!Transacted, At32Rx
<1> HIDE DEF b, r
<1>4. RxWaits(r, irq)
  BY <1>1, <1>3 DEF RxWaits
<1>5. CASE irq[1] = "copy"
  <2>1. RxParts(ep, irq) = Append(ep.ring, ep.buf[ep.sw])
    BY <1>1, <1>5, RxPartsAre
  <2>2. RxParts(r, irq) = Append(Append(r.ring, r.buf[r.sw]), r.buf[1 - r.dtog])
    BY <1>1, <1>3, <1>5, RxPartsAre
  <2>3. 1 - r.dtog = ep.dtog
    BY <1>1, <1>3 DEF Owner
  <2>4. Len(ep.ring) < NBUF /\ ep.buf[ep.sw] \in Item
    BY <1>1, <1>5 DEF RxWaits
  <2>5. Len(RxParts(ep, irq)) <= NBUF
    BY <1>1, <2>1, <2>4, Append1
  <2>6. RxParts(r, irq) = Append(RxParts(ep, irq), p)
    BY <1>1, <1>2, <1>3, <2>1, <2>2, <2>3
  <2>7. QED
    BY <1>4, <2>5, <2>6 DEF r
<1>6. CASE irq[1] # "copy"
  <2>1. RxParts(ep, irq) = ep.ring
    BY <1>1, <1>6, RxPartsAre
  <2>2. RxParts(r, irq) = Append(r.ring, r.buf[1 - r.dtog])
    BY <1>1, <1>3, <1>6, RxPartsAre
  <2>3. 1 - r.dtog = ep.dtog
    BY <1>1, <1>3 DEF Owner
  <2>4. QED
    BY <1>2, <1>3, <1>4, <2>1, <2>2, <2>3 DEF r, RxWaits
<1>7. QED
  BY <1>5, <1>6

\* The interrupt's work for EP_RX, up to its write of the register.
LEMMA At32RxTransfer ==
  ASSUME At32Inv, aux = <<"idle">>, rx.ctr \/ rx.kick, at32!RxTransfer
  PROVE  /\ RxWaits(rx', aux') /\ RxParts(rx', aux') = RxParts(rx, aux)
         /\ aux' \in At32Irq /\ aux'[1] # "second"
<1>1. /\ rx \in At32Rx /\ rx.dtog \in Owner /\ rx.sw = rx.dtog
      /\ rx.buf \in [Owner -> Item] /\ Len(rx.ring) \in Nat /\ Len(rx.ring) <= NBUF
      /\ NBUF \in Nat /\ aux[1] # "copy" /\ 1 - rx.sw \in Owner
  BY UsbAssumption DEF At32Inv, RxWaits, At32Rx, Owner
<1>2. RxParts(rx, aux) = Append(rx.ring, rx.buf[1 - rx.dtog])
  BY <1>1, RxPartsAre
<1>3. CASE Len(rx.ring) = NBUF
  <2>1. /\ rx' = [at32!clear_ctr(rx) EXCEPT !.kick = TRUE] /\ aux' = <<"idle">>
    BY <1>3 DEF at32!RxTransfer
  <2>2. /\ rx' \in At32Rx /\ rx'.buf = rx.buf /\ rx'.dtog = rx.dtog /\ rx'.sw = rx.sw
        /\ ~rx'.ctr /\ rx'.kick /\ rx'.ring = rx.ring
    BY <1>1, <2>1 DEF at32!clear_ctr, At32Rx
  <2>3. aux' \in At32Irq /\ aux'[1] = "idle"
    BY <2>1 DEF At32Irq
  <2>4. RxParts(rx', aux') = Append(rx'.ring, rx'.buf[1 - rx'.dtog])
    BY <1>1, <2>2, <2>3, RxPartsAre
  <2>5. RxWaits(rx', aux')
    BY <1>1, <2>2, <2>3 DEF RxWaits
  <2>6. QED
    BY <1>2, <2>2, <2>3, <2>4, <2>5
<1>4. CASE Len(rx.ring) # NBUF
  <2>1. /\ rx' = [at32!ToggleSwBuf(at32!clear_ctr(rx)) EXCEPT !.kick = FALSE]
        /\ aux' = <<"copy", 1 - rx.sw>>
    BY <1>4 DEF at32!RxTransfer
  <2>2. /\ rx' \in At32Rx /\ rx'.buf = rx.buf /\ rx'.dtog = rx.dtog /\ rx'.sw = 1 - rx.sw
        /\ ~rx'.ctr /\ ~rx'.kick /\ rx'.ring = rx.ring
    BY <1>1, <2>1 DEF at32!clear_ctr, at32!ToggleSwBuf, At32Rx
  <2>3. aux' \in At32Irq /\ aux'[1] = "copy" /\ aux'[2] = rx'.sw
    BY <1>1, <2>1, <2>2 DEF At32Irq
  <2>4. rx'.dtog # rx'.sw
    BY <1>1, <2>2 DEF Owner
  <2>5. RxParts(rx', aux') = Append(rx'.ring, rx'.buf[rx'.sw])
    BY <2>2, <2>3, <2>4, RxPartsAre
  <2>6. RxWaits(rx', aux')
    BY <1>1, <1>4, <2>2, <2>3 DEF RxWaits
  <2>7. QED
    BY <1>1, <1>2, <2>2, <2>3, <2>5, <2>6
<1>5. QED
  BY <1>3, <1>4

\* ... and after it: the packet comes to the ring.
LEMMA At32RxCopy ==
  ASSUME At32Inv, at32!RxCopy
  PROVE  /\ RxWaits(rx', aux') /\ RxParts(rx', aux') = RxParts(rx, aux)
         /\ aux' = <<"idle">>
<1> DEFINE x == rx.buf[rx.sw]
           b == [rx.buf EXCEPT ![rx.sw] = None]
           q == Append(rx.ring, x)
<1>1. /\ aux[1] = "copy" /\ aux[2] = rx.sw /\ Len(rx.ring) < NBUF /\ ~rx.kick
      /\ rx.dtog \in Owner /\ rx.sw \in Owner /\ rx \in At32Rx
      /\ rx.buf \in [Owner -> Item] /\ rx.ring \in Seq(Item) /\ NBUF \in Nat
      /\ None \in Item
  BY UsbAssumption DEF At32Inv, RxWaits, At32Rx, at32!RxCopy, Item
<1>2. /\ rx' = [rx EXCEPT !.ring = q, !.buf = b] /\ aux' = <<"idle">>
  BY <1>1 DEF at32!RxCopy
<1>3. x \in Item /\ b \in [Owner -> Item]
      /\ (rx.dtog = rx.sw => b[1 - rx.dtog] = rx.buf[1 - rx.dtog])
  BY <1>1 DEF Owner
<1>4. q \in Seq(Item) /\ Len(q) = Len(rx.ring) + 1 /\ Len(rx.ring) \in Nat
  BY <1>1, <1>3
<1> HIDE DEF x, b, q
<1>5. /\ rx' \in At32Rx /\ rx'.buf = b /\ rx'.dtog = rx.dtog /\ rx'.sw = rx.sw
      /\ (rx'.ctr <=> rx.ctr) /\ (rx'.kick <=> rx.kick) /\ rx'.ring = q
  BY <1>1, <1>2, <1>3, <1>4 DEF At32Rx
<1>6. aux'[1] = "idle"
  BY <1>2
<1>7. RxWaits(rx', aux')
  BY <1>1, <1>4, <1>5, <1>6 DEF RxWaits, At32Inv
<1>8. RxParts(rx', aux') = RxParts(rx, aux)
  <2>1. CASE rx.dtog = rx.sw
    <3>1. RxParts(rx, aux) = Append(q, rx.buf[1 - rx.dtog])
      BY <1>1, <2>1, RxPartsAre DEF q, x
    <3>2. RxParts(rx', aux') = Append(q, b[1 - rx.dtog])
      BY <1>5, <1>6, <2>1, RxPartsAre
    <3>3. QED
      BY <1>3, <2>1, <3>1, <3>2
  <2>2. CASE rx.dtog # rx.sw
    <3>1. RxParts(rx, aux) = q
      BY <1>1, <2>2, RxPartsAre DEF q, x
    <3>2. RxParts(rx', aux') = q
      BY <1>5, <1>6, <2>2, RxPartsAre
    <3>3. QED
      BY <3>1, <3>2
  <2>3. QED
    BY <2>1, <2>2
<1>9. QED
  BY <1>2, <1>7, <1>8

\* The queue of EP_TX is what has left the ring, and the ring.
LEMMA TxPartsAre ==
  ASSUME NEW ep \in At32Tx
  PROVE  LET x == ep.buf[ep.dtog]
             y == ep.buf[ep.sw]
             held == ep.slots - InHardware(ep)
         IN /\ x \in Item /\ y \in Item
            /\ ep.dtog = ep.sw /\ held # 1 => TxParts(ep) = ep.ring
            /\ ep.dtog = ep.sw /\ held = 1 => TxParts(ep) = <<y>> \o ep.ring
            /\ ep.dtog # ep.sw /\ held # 1 => TxParts(ep) = <<x>> \o ep.ring
            /\ ep.dtog # ep.sw /\ held = 1 => TxParts(ep) = <<x>> \o (<<y>> \o ep.ring)
<1> DEFINE x == ep.buf[ep.dtog]
           y == ep.buf[ep.sw]
           q == ep.ring
           held == ep.slots - InHardware(ep)
<1>1. x \in Item /\ y \in Item /\ q \in Seq(Item)
  BY DEF At32Tx
<1>2. TxParts(ep) = (IF ep.dtog # ep.sw THEN <<x>> ELSE <<>>)
                    \o (IF held = 1 THEN <<y>> ELSE <<>>) \o q
  BY DEF TxParts
<1> HIDE DEF x, y, q, held
<1>3. /\ (<<>> \o <<>>) \o q = q /\ (<<>> \o <<y>>) \o q = <<y>> \o q
      /\ (<<x>> \o <<>>) \o q = <<x>> \o q
      /\ (<<x>> \o <<y>>) \o q = <<x>> \o (<<y>> \o q)
  <2>1. <<x>> \in Seq(Item) /\ <<y>> \in Seq(Item) /\ <<>> \in Seq(Item)
    BY <1>1
  <2>2. /\ <<>> \o <<>> = <<>> /\ <<>> \o <<y>> = <<y>> /\ <<x>> \o <<>> = <<x>>
        /\ <<>> \o q = q
    BY <1>1, <2>1, Empty2
  <2>3. (<<x>> \o <<y>>) \o q = <<x>> \o (<<y>> \o q)
    BY <1>1, <2>1, Append2
  <2>4. QED
    BY <2>2, <2>3
<1>4. QED
  BY <1>1, <1>2, <1>3 DEF x, y, q, held

\* A packet and what follows it.
LEMMA ConsQueue ==
  ASSUME NEW S, NEW a \in S, NEW q \in Seq(S)
  PROVE  /\ <<a>> \o q # <<>> /\ Head(<<a>> \o q) = a /\ Tail(<<a>> \o q) = q
         /\ <<a>> \o q \in Seq(S) /\ Len(<<a>> \o q) = Len(q) + 1 /\ Len(q) \in Nat
OBVIOUS
\* ... as a queue.
LEMMA ConsQueueIs ==
  ASSUME NEW S, NEW a \in S, NEW q \in Seq(S), NEW r, r = <<a>> \o q
  PROVE  r # <<>> /\ Head(r) = a /\ Tail(r) = q
OBVIOUS

\* A sequence is its first element and the rest.
LEMMA Uncons ==
  ASSUME NEW S, NEW q \in Seq(S), q # <<>>
  PROVE  /\ q = <<Head(q)>> \o Tail(q) /\ Head(q) \in S /\ Tail(q) \in Seq(S)
         /\ Len(Tail(q)) = Len(q) - 1 /\ Len(q) \in Nat
OBVIOUS

\* The host takes a packet from the hardware.
LEMMA At32Sent ==
  ASSUME NEW ep, NEW irq \in At32Irq, TxSlots(ep, irq), ep.dtog # ep.sw
  PROVE  LET r == [at32!Transacted(ep) EXCEPT !.buf[ep.dtog] = None]
         IN /\ TxSlots(r, irq)
            /\ TxParts(ep) # <<>> /\ Head(TxParts(ep)) = ep.buf[ep.dtog]
            /\ TxParts(r) = Tail(TxParts(ep))
<1> DEFINE b == [ep.buf EXCEPT ![ep.dtog] = None]
           r == [at32!Transacted(ep) EXCEPT !.buf[ep.dtog] = None]
           x == ep.buf[ep.dtog]
           y == ep.buf[ep.sw]
           held == ep.slots - 1
<1>1. /\ ep \in At32Tx /\ ep.dtog \in Owner /\ ep.sw = 1 - ep.dtog
      /\ ep.buf \in [Owner -> Item] /\ ep.sw \in Owner /\ ep.ring \in Seq(Item)
      /\ None \in Item /\ InHardware(ep) = 1 /\ ep.slots \in 1..2
  BY DEF TxSlots, At32Tx, Owner, Item, InHardware
<1>2. b \in [Owner -> Item] /\ b[ep.sw] = y /\ x \in Item /\ y \in Item
  BY <1>1
<1>3. /\ r.buf = b /\ r.dtog = ep.sw /\ r.sw = ep.sw /\ r.ctr /\ (r.kick <=> ep.kick)
      /\ r.ring = ep.ring /\ r.slots = ep.slots /\ r \in At32Tx
  BY <1>1, <1>2 DEF at32!Transacted, At32Tx
<1>4. InHardware(r) = 1
  BY <1>3 DEF InHardware
<1> HIDE DEF b, r
<1>5. TxSlots(r, irq)
  BY <1>1, <1>3, <1>4 DEF TxSlots
<1>9. ep.dtog # ep.sw /\ r.dtog = r.sw
  BY <1>3
<1>6. CASE ep.slots = 2
  <2>0. ep.slots - InHardware(ep) = 1 /\ r.slots - InHardware(r) = 1
    BY <1>1, <1>3, <1>4, <1>6
  <2>1. TxParts(ep) = <<x>> \o (<<y>> \o ep.ring)
    BY <1>1, <1>9, <2>0, TxPartsAre
  <2>2. TxParts(r) = <<y>> \o ep.ring
    BY <1>2, <1>3, <1>9, <2>0, TxPartsAre
  <2>3. <<y>> \o ep.ring \in Seq(Item)
    BY <1>1, <1>2, ConsQueue
  <2>4. QED
    <3>1. TxParts(ep) # <<>> /\ Head(TxParts(ep)) = x /\ Tail(TxParts(ep)) = <<y>> \o ep.ring
      BY <1>2, <2>1, <2>3, ConsQueueIs
    <3>2. QED
      BY <1>5, <2>2, <3>1 DEF r
<1>7. CASE ep.slots = 1
  <2>0. ep.slots - InHardware(ep) # 1 /\ r.slots - InHardware(r) # 1
    BY <1>1, <1>3, <1>4, <1>7
  <2>1. TxParts(ep) = <<x>> \o ep.ring
    BY <1>1, <1>9, <2>0, TxPartsAre
  <2>2. TxParts(r) = ep.ring
    BY <1>3, <1>9, <2>0, TxPartsAre
  <2>3. TxParts(ep) # <<>> /\ Head(TxParts(ep)) = x /\ Tail(TxParts(ep)) = ep.ring
    BY <1>1, <1>2, <2>1, ConsQueueIs
  <2>4. QED
    BY <1>5, <2>2, <2>3 DEF r
<1>8. QED
  BY <1>1, <1>6, <1>7

\* A packet leaves the ring for the buffer of software.
LEMMA At32Stuffed ==
  ASSUME NEW ep \in At32Tx, ep.ring # <<>>, ep.slots < 2, ep.slots = InHardware(ep)
  PROVE  LET r == at32!stuff_dblbuf_tx_packet(ep)
         IN /\ r \in At32Tx /\ r.dtog = ep.dtog /\ r.sw = ep.sw /\ (r.ctr <=> ep.ctr)
            /\ (r.kick <=> ep.kick) /\ r.slots = ep.slots + 1
            /\ Len(r.ring) = Len(ep.ring) - 1 /\ Len(r.ring) \in Nat
            /\ InHardware(r) = InHardware(ep) /\ TxParts(r) = TxParts(ep)
<1> DEFINE h == Head(ep.ring)
           b == [ep.buf EXCEPT ![ep.sw] = h]
           q == Tail(ep.ring)
           r == at32!stuff_dblbuf_tx_packet(ep)
           x == ep.buf[ep.dtog]
<1>1. /\ ep.dtog \in Owner /\ ep.sw \in Owner /\ ep.buf \in [Owner -> Item]
      /\ ep.ring \in Seq(Item) /\ ep.slots \in 0..1
  BY DEF At32Tx
<1>2. ep.ring = <<h>> \o q /\ h \in Item /\ q \in Seq(Item) /\ Len(q) = Len(ep.ring) - 1
  BY <1>1, Uncons
<1> HIDE DEF h, q
<1>3. /\ b \in [Owner -> Item] /\ b[ep.sw] = h /\ (ep.dtog # ep.sw => b[ep.dtog] = x)
  BY <1>1, <1>2
<1>4. r = [ep EXCEPT !.buf = b, !.ring = q, !.slots = ep.slots + 1]
  BY DEF at32!stuff_dblbuf_tx_packet, h, q
<1> HIDE DEF b, r
<1>5. /\ r \in At32Tx /\ r.buf = b /\ r.dtog = ep.dtog /\ r.sw = ep.sw
      /\ (r.ctr <=> ep.ctr) /\ (r.kick <=> ep.kick) /\ r.ring = q
      /\ r.slots = ep.slots + 1
  <2>1. ep.slots + 1 \in 0..2
    BY <1>1
  <2>2. QED
    BY <1>2, <1>3, <1>4, <2>1 DEF At32Tx
<1>6. InHardware(r) = InHardware(ep) /\ InHardware(ep) \in 0..1
  BY <1>5 DEF InHardware
<1>7. TxParts(r) = TxParts(ep)
  <2>1. ep.slots - InHardware(ep) # 1 /\ r.slots - InHardware(r) = 1
    BY <1>1, <1>5, <1>6
  <2>2. CASE ep.dtog = ep.sw
    <3>1. TxParts(ep) = ep.ring /\ TxParts(r) = <<b[ep.sw]>> \o q
      BY <1>5, <2>1, <2>2, TxPartsAre
    <3>2. QED
      BY <1>2, <1>3, <3>1
  <2>3. CASE ep.dtog # ep.sw
    <3>1. TxParts(ep) = <<x>> \o ep.ring
      BY <2>1, <2>3, TxPartsAre
    <3>2. TxParts(r) = <<b[ep.dtog]>> \o (<<b[ep.sw]>> \o q)
      BY <1>5, <2>1, <2>3, TxPartsAre
    <3>3. QED
      BY <1>2, <1>3, <2>3, <3>1, <3>2
  <2>4. QED
    BY <2>2, <2>3
<1>8. QED
  BY <1>2, <1>5, <1>6, <1>7 DEF r, q

\* A packet that was stuffed is handed to the hardware.
LEMMA At32Handed ==
  ASSUME NEW ep \in At32Tx, ep.slots = 1, InHardware(ep) = 0
  PROVE  LET r == [at32!ToggleSwBuf(ep) EXCEPT !.kick = FALSE]
         IN /\ r \in At32Tx /\ r.ring = ep.ring /\ r.slots = 1 /\ ~r.ctr /\ ~r.kick
            /\ InHardware(r) = 1 /\ TxParts(r) = TxParts(ep)
<1> DEFINE r == [at32!ToggleSwBuf(ep) EXCEPT !.kick = FALSE]
<1>1. ep.dtog \in Owner /\ ep.sw = ep.dtog /\ ~ep.ctr /\ 1 - ep.sw \in Owner
  BY DEF At32Tx, InHardware, Owner
<1>2. /\ r \in At32Tx /\ r.buf = ep.buf /\ r.dtog = ep.dtog /\ r.sw = 1 - ep.sw
      /\ ~r.ctr /\ ~r.kick /\ r.ring = ep.ring /\ r.slots = 1
  BY <1>1 DEF at32!ToggleSwBuf, At32Tx
<1> HIDE DEF r
<1>3. r.dtog # r.sw
  BY <1>1, <1>2 DEF Owner
<1>4. InHardware(r) = 1
  BY <1>3 DEF InHardware
<1>5. TxParts(ep) = <<ep.buf[ep.sw]>> \o ep.ring
  BY <1>1, TxPartsAre
<1>6. TxParts(r) = <<r.buf[r.dtog]>> \o r.ring
  <2>1. r.slots - InHardware(r) # 1
    BY <1>2, <1>4
  <2>2. QED
    BY <1>2, <1>3, <2>1, TxPartsAre
<1>7. QED
  BY <1>1, <1>2, <1>4, <1>5, <1>6 DEF r

\* What a step does to the two queues.
At32Moves ==
  /\ Moves(RxParts(rx, aux), RxParts(rx', aux'), got', fresh')
  /\ Moves(TxParts(tx), TxParts(tx'), sent', fresh')

\* The other endpoint does not care where the interrupt's work ends.
LEMMA IdleWaits ==
  ASSUME NEW ep, NEW irq, NEW other, RxWaits(ep, irq), irq[1] # "copy", other[1] # "copy"
  PROVE  RxWaits(ep, other) /\ RxParts(ep, other) = RxParts(ep, irq)
BY DEF RxWaits, RxParts

\* TxSlots depends on the interrupt only through its second half.
LEMMA IdleSlots ==
  ASSUME NEW ep, NEW irq, NEW other, TxSlots(ep, irq), other[1] # "second"
  PROVE  TxSlots(ep, other)
BY DEF TxSlots

\* The endpoints as they are configured hold nothing.
LEMMA At32Configured ==
  LET r == at32!RxConfigured
      t == at32!TxConfigured
      i == <<"idle">>
  IN /\ RxWaits(r, i) /\ RxParts(r, i) = <<>>
     /\ TxSlots(t, i) /\ TxParts(t) = <<>>
<1> DEFINE r == at32!RxConfigured
           t == at32!TxConfigured
           i == <<"idle">>
<1>1. i[1] # "copy" /\ i[1] # "second"
  OBVIOUS
<1>2. /\ r \in At32Rx /\ r.dtog = 0 /\ r.sw = 1 /\ ~r.ctr /\ ~r.kick /\ r.ring = <<>>
  BY DEF at32!RxConfigured, at32!Blank, At32Rx, Owner, Item
<1>3. /\ t \in At32Tx /\ t.dtog = 0 /\ t.sw = 0 /\ ~t.ctr /\ t.kick /\ t.ring = <<>>
      /\ t.slots = 0
  BY DEF at32!TxConfigured, at32!Blank, At32Tx, Owner, Item
<1> HIDE DEF r, t, i
<1>4. RxWaits(r, i)
  BY <1>1, <1>2, UsbAssumption DEF RxWaits
<1>5. RxParts(r, i) = <<>>
  BY <1>1, <1>2, RxPartsAre
<1>6. InHardware(t) = 0
  BY <1>3 DEF InHardware
<1>7. TxSlots(t, i)
  BY <1>1, <1>3, <1>6, UsbAssumption DEF TxSlots
<1>8. TxParts(t) = <<>>
  <2>1. t.slots - InHardware(t) # 1
    BY <1>3, <1>6
  <2>2. QED
    BY <1>3, <2>1, TxPartsAre
<1>9. QED
  BY <1>4, <1>5, <1>7, <1>8 DEF r, t, i

\* The interrupt's work for EP_TX, up to its write of the register: ep is the
\* endpoint without the packet that the interrupt is about.
LEMMA At32TxTransfer ==
  ASSUME NEW ep \in At32Tx, Len(ep.ring) <= NBUF, InHardware(ep) = 0,
         ep.slots \in 0..1, at32!TxTransfer(ep)
  PROVE  /\ TxSlots(tx', aux') /\ TxParts(tx') = TxParts(ep)
         /\ aux' \in At32Irq /\ aux'[1] # "copy"
<1>1. ep.ring \in Seq(Item) /\ Len(ep.ring) \in Nat /\ NBUF \in Nat
  BY UsbAssumption DEF At32Tx
<1>2. CASE ep.ring = <<>> /\ ep.slots = 0
  <2>1. tx' = [ep EXCEPT !.kick = TRUE] /\ aux' = <<"idle">>
    BY <1>2 DEF at32!TxTransfer
  <2>2. /\ tx' \in At32Tx /\ tx'.buf = ep.buf /\ tx'.dtog = ep.dtog /\ tx'.sw = ep.sw
        /\ (tx'.ctr <=> ep.ctr) /\ tx'.ring = ep.ring /\ tx'.slots = 0
    BY <1>2, <2>1 DEF At32Tx
  <2>3. InHardware(tx') = 0 /\ ~tx'.ctr
    BY <2>2 DEF InHardware
  <2>4. aux' \in At32Irq /\ aux'[1] # "copy" /\ aux'[1] # "second"
    BY <2>1 DEF At32Irq
  <2>5. TxSlots(tx', aux')
    BY <1>1, <2>2, <2>3, <2>4 DEF TxSlots
  <2>6. TxParts(tx') = TxParts(ep)
    BY <1>2, <2>2, <2>3 DEF TxParts
  <2>7. QED
    BY <2>4, <2>5, <2>6
<1>3. CASE ~(ep.ring = <<>> /\ ep.slots = 0)
  <2> DEFINE first == IF ep.slots = 0 THEN at32!stuff_dblbuf_tx_packet(ep) ELSE ep
  <2>1. tx' = [at32!ToggleSwBuf(first) EXCEPT !.kick = FALSE] /\ aux' = <<"second">>
    BY <1>3 DEF at32!TxTransfer
  <2>2. /\ first \in At32Tx /\ first.slots = 1 /\ InHardware(first) = 0
        /\ Len(first.ring) <= NBUF /\ TxParts(first) = TxParts(ep)
    <3>1. CASE ep.slots = 0
      BY <1>1, <1>3, <3>1, At32Stuffed
    <3>2. CASE ep.slots = 1
      BY <3>2
    <3>3. QED
      BY <3>1, <3>2
  <2> HIDE DEF first
  <2>3. /\ tx' \in At32Tx /\ tx'.ring = first.ring /\ tx'.slots = 1 /\ ~tx'.ctr /\ ~tx'.kick
        /\ InHardware(tx') = 1 /\ TxParts(tx') = TxParts(first)
    BY <2>1, <2>2, At32Handed
  <2>4. aux' \in At32Irq /\ aux'[1] # "copy"
    BY <2>1 DEF At32Irq
  <2>5. TxSlots(tx', aux')
    BY <2>2, <2>3 DEF TxSlots
  <2>6. QED
    BY <2>2, <2>3, <2>4, <2>5
<1>4. QED
  BY <1>2, <1>3

\* ... and after it: the other buffer is filled as well.
LEMMA At32TxSecond ==
  ASSUME At32Inv, at32!TxSecond
  PROVE  TxSlots(tx', aux') /\ TxParts(tx') = TxParts(tx)
<1>1. /\ tx \in At32Tx /\ InHardware(tx) = 1 /\ aux' = <<"idle">> /\ TxSlots(tx, aux)
      /\ aux'[1] # "second" /\ ~tx.kick
  BY DEF At32Inv, TxSlots, at32!TxSecond
<1>2. CASE tx.slots = 1 /\ tx.ring # <<>>
  <2>1. tx' = at32!stuff_dblbuf_tx_packet(tx)
    BY <1>2 DEF at32!TxSecond
  <2>2. /\ tx' \in At32Tx /\ tx'.dtog = tx.dtog /\ tx'.sw = tx.sw /\ (tx'.ctr <=> tx.ctr)
        /\ (tx'.kick <=> tx.kick) /\ tx'.slots = 2
        /\ Len(tx'.ring) = Len(tx.ring) - 1 /\ Len(tx'.ring) \in Nat
        /\ InHardware(tx') = 1 /\ TxParts(tx') = TxParts(tx)
    BY <1>1, <1>2, <2>1, At32Stuffed
  <2>3. Len(tx'.ring) <= NBUF
    <3>1. Len(tx.ring) <= NBUF /\ Len(tx.ring) \in Nat /\ NBUF \in Nat
      BY <1>1, UsbAssumption DEF TxSlots, At32Tx
    <3>2. QED
      BY <2>2, <3>1
  <2>4. TxSlots(tx', aux')
    BY <1>1, <2>2, <2>3 DEF TxSlots
  <2>5. QED
    BY <2>2, <2>4
<1>3. CASE ~(tx.slots = 1 /\ tx.ring # <<>>)
  <2>1. tx' = tx
    BY <1>3 DEF at32!TxSecond
  <2>2. QED
    BY <1>1, <2>1 DEF TxSlots
<1>4. QED
  BY <1>2, <1>3

\* What the interrupt announces, and what the main loop kicks.
LEMMA At32Waiting ==
  ASSUME At32Inv
  PROVE  LET acked == [at32!clear_ctr(tx) EXCEPT !.slots = @ - 1]
         IN /\ tx.ctr => /\ acked \in At32Tx /\ Len(acked.ring) <= NBUF
                         /\ InHardware(acked) = 0 /\ acked.slots \in 0..1
                         /\ TxParts(acked) = TxParts(tx)
            /\ tx.kick => /\ tx \in At32Tx /\ Len(tx.ring) <= NBUF
                          /\ InHardware(tx) = 0 /\ tx.slots \in 0..1
<1>1. TxSlots(tx, aux) /\ tx \in At32Tx
  BY DEF At32Inv, TxSlots
<1>2. ASSUME tx.ctr
      PROVE  LET acked == [at32!clear_ctr(tx) EXCEPT !.slots = @ - 1]
             IN /\ acked \in At32Tx /\ Len(acked.ring) <= NBUF
                /\ InHardware(acked) = 0 /\ acked.slots \in 0..1
                /\ TxParts(acked) = TxParts(tx)
  <2> DEFINE s == tx.slots - 1
             acked == [at32!clear_ctr(tx) EXCEPT !.slots = s]
  <2>1. tx.dtog = tx.sw /\ InHardware(tx) = 1 /\ tx.slots \in 1..2
    BY <1>1, <1>2 DEF TxSlots, InHardware
  <2>2. s \in 0..1 /\ s \in 0..2
    BY <2>1
  <2>3. acked = [at32!clear_ctr(tx) EXCEPT !.slots = @ - 1]
    BY <1>1 DEF at32!clear_ctr, At32Tx
  <2> HIDE DEF s
  <2>4. /\ acked \in At32Tx /\ acked.buf = tx.buf /\ acked.dtog = tx.dtog /\ acked.sw = tx.sw
        /\ ~acked.ctr /\ acked.ring = tx.ring /\ acked.slots = s
    BY <1>1, <2>2 DEF at32!clear_ctr, At32Tx
  <2> HIDE DEF acked
  <2>5. InHardware(acked) = 0
    BY <2>1, <2>4 DEF InHardware
  <2>6. acked.slots - InHardware(acked) = tx.slots - InHardware(tx)
    BY <2>1, <2>4, <2>5 DEF s
  <2>7. TxParts(acked) = TxParts(tx)
    BY <2>4, <2>6 DEF TxParts
  <2>8. Len(acked.ring) <= NBUF
    BY <1>1, <2>4 DEF TxSlots
  <2>9. QED
    BY <2>2, <2>3, <2>4, <2>5, <2>7, <2>8
<1>3. ASSUME tx.kick
      PROVE  /\ tx \in At32Tx /\ Len(tx.ring) <= NBUF
             /\ InHardware(tx) = 0 /\ tx.slots \in 0..1
  BY <1>1, <1>3 DEF TxSlots
<1>4. QED
  BY <1>2, <1>3

\* The hardware and the host.
LEMMA At32HostStep ==
  ASSUME At32Inv, (\E p \in Packets : at32!HostOut(p)) \/ at32!HostIn
  PROVE  At32Inv' /\ At32Moves
<1>0. main \in At32Main /\ aux \in At32Irq /\ RxWaits(rx, aux) /\ TxSlots(tx, aux)
  BY DEF At32Inv
<1>1. ASSUME NEW p \in Packets, at32!HostOut(p) PROVE At32Inv' /\ At32Moves
  <2>1. /\ rx' = [at32!Transacted(rx) EXCEPT !.buf[rx.dtog] = p] /\ rx.dtog # rx.sw
        /\ tx' = tx /\ main' = main /\ aux' = aux
        /\ got' = None /\ sent' = None /\ fresh' = FALSE
    BY <1>1 DEF at32!HostOut, at32!Quiet
  <2>2. /\ RxWaits(rx', aux) /\ RxParts(rx', aux) = Append(RxParts(rx, aux), p)
        /\ Len(RxParts(rx, aux)) <= NBUF
    BY <1>0, <2>1, At32Received
  <2>3. At32Inv'
    BY <1>0, <2>1, <2>2 DEF At32Inv
  <2>4. Len(RxParts(rx, aux)) < Capacity
    <3>1. RxParts(rx, aux) \in Seq(Item)
      <4>1. /\ rx \in At32Rx /\ (aux[1] = "copy" => aux[2] = rx.sw) /\ rx.ring \in Seq(Item)
            /\ rx.buf[rx.sw] \in Item
        BY <1>0 DEF RxWaits, At32Rx
      <4>2. RxParts(rx, aux) = rx.ring \/ RxParts(rx, aux) = Append(rx.ring, rx.buf[rx.sw])
        BY <2>1, <4>1, RxPartsAre
      <4>3. QED
        BY <4>1, <4>2, Append1
    <3>2. Len(RxParts(rx, aux)) \in Nat
      BY <3>1
    <3>3. QED
      BY <2>2, <3>2, UsbAssumption
  <2>5. Moves(RxParts(rx, aux), RxParts(rx', aux'), got', fresh')
    BY <2>1, <2>2, <2>4 DEF Moves
  <2>6. QED
    BY <2>1, <2>3, <2>5, NothingMoves DEF At32Moves
<1>2. CASE at32!HostIn
  <2>1. /\ tx' = [at32!Transacted(tx) EXCEPT !.buf[tx.dtog] = None] /\ tx.dtog # tx.sw
        /\ rx' = rx /\ main' = main /\ aux' = aux
        /\ got' = None /\ sent' = tx.buf[tx.dtog] /\ fresh' = FALSE
    BY <1>2 DEF at32!HostIn
  <2>2. /\ TxSlots(tx', aux)
        /\ TxParts(tx) # <<>> /\ Head(TxParts(tx)) = tx.buf[tx.dtog]
        /\ TxParts(tx') = Tail(TxParts(tx))
    BY <1>0, <2>1, At32Sent
  <2>3. At32Inv'
    BY <1>0, <2>1, <2>2 DEF At32Inv
  <2>4. Moves(TxParts(tx), TxParts(tx'), sent', fresh')
    BY <2>1, <2>2 DEF Moves
  <2>5. QED
    BY <2>1, <2>3, <2>4, NothingMoves DEF At32Moves
<1>3. QED
  BY <1>1, <1>2

\* The work of the interrupt, by whom it may be done.
LEMMA At32RxWork ==
  ASSUME At32Inv, aux = <<"idle">>, rx.ctr \/ rx.kick, at32!RxTransfer,
         tx' = tx, at32!Quiet, main' \in At32Main
  PROVE  At32Inv' /\ At32Moves
<1>1. /\ RxWaits(rx', aux') /\ RxParts(rx', aux') = RxParts(rx, aux)
      /\ aux' \in At32Irq /\ aux'[1] # "second"
  BY At32RxTransfer
<1>2. TxSlots(tx', aux')
  <2>1. TxSlots(tx, aux')
    BY <1>1, IdleSlots DEF At32Inv
  <2>2. QED
    BY <2>1
<1>3. QED
  BY <1>1, <1>2, NothingMoves DEF At32Inv, At32Moves, at32!Quiet

\* A step of the IN side that moves no packet past the driver.
LEMMA At32TxWork ==
  ASSUME At32Inv, aux = <<"idle">>, rx' = rx, at32!Quiet, main' \in At32Main,
         TxSlots(tx', aux'), TxParts(tx') = TxParts(tx),
         aux' \in At32Irq, aux'[1] # "copy"
  PROVE  At32Inv' /\ At32Moves
<1>1. aux[1] # "copy"
  OBVIOUS
<1>2. RxWaits(rx, aux') /\ RxParts(rx, aux') = RxParts(rx, aux)
  BY <1>1, IdleWaits DEF At32Inv
<1>3. QED
  BY <1>2, NothingMoves DEF At32Inv, At32Moves, at32!Quiet

\* The interrupt.
LEMMA At32InterruptStep ==
  ASSUME At32Inv, at32!Interrupt
  PROVE  At32Inv' /\ At32Moves
<1>1. CASE at32!IRQ_USB_HP
  <2>1. /\ aux = <<"idle">> /\ main' = main /\ at32!Quiet /\ main \in At32Main
    BY <1>1 DEF at32!IRQ_USB_HP, at32!Unmasked, At32Inv
  <2>2. CASE rx.ctr /\ at32!RxTransfer /\ tx' = tx
    BY <2>1, <2>2, At32RxWork
  <2>3. CASE /\ tx.ctr /\ rx' = rx
             /\ at32!TxTransfer([at32!clear_ctr(tx) EXCEPT !.slots = @ - 1])
    <3> DEFINE ep == [at32!clear_ctr(tx) EXCEPT !.slots = @ - 1]
    <3>1. /\ ep \in At32Tx /\ Len(ep.ring) <= NBUF
          /\ InHardware(ep) = 0 /\ ep.slots \in 0..1 /\ TxParts(ep) = TxParts(tx)
      BY <2>3, At32Waiting
    <3> HIDE DEF ep
    <3>2. /\ TxSlots(tx', aux') /\ TxParts(tx') = TxParts(ep)
          /\ aux' \in At32Irq /\ aux'[1] # "copy"
      BY <2>3, <3>1, At32TxTransfer DEF ep
    <3>3. QED
      BY <2>1, <2>3, <3>1, <3>2, At32TxWork
  <2>4. QED
    BY <1>1, <2>2, <2>3 DEF at32!IRQ_USB_HP
<1>2. CASE at32!RxCopy
  <2>1. /\ RxWaits(rx', aux') /\ RxParts(rx', aux') = RxParts(rx, aux)
        /\ aux' = <<"idle">>
    BY <1>2, At32RxCopy
  <2>2. tx' = tx /\ main' = main /\ at32!Quiet
    BY <1>2 DEF at32!RxCopy
  <2>3. aux' \in At32Irq /\ aux'[1] # "second"
    BY <2>1 DEF At32Irq
  <2>4. TxSlots(tx, aux')
    BY <2>3, IdleSlots DEF At32Inv
  <2>5. QED
    BY <2>1, <2>2, <2>3, <2>4, NothingMoves DEF At32Inv, At32Moves, at32!Quiet
<1>3. CASE at32!TxSecond
  <2>1. TxSlots(tx', aux') /\ TxParts(tx') = TxParts(tx)
    BY <1>3, At32TxSecond
  <2>2. aux = <<"second">> /\ aux' = <<"idle">> /\ rx' = rx /\ main' = main /\ at32!Quiet
    BY <1>3 DEF at32!TxSecond
  <2>3. aux' \in At32Irq /\ aux'[1] # "copy" /\ aux[1] # "copy"
    BY <2>2 DEF At32Irq
  <2>4. RxWaits(rx, aux') /\ RxParts(rx, aux') = RxParts(rx, aux)
    BY <2>3, IdleWaits DEF At32Inv
  <2>5. QED
    BY <2>1, <2>2, <2>3, <2>4, NothingMoves DEF At32Inv, At32Moves, at32!Quiet
<1>4. QED
  BY <1>1, <1>2, <1>3 DEF at32!Interrupt

\* usb_read(): the oldest packet leaves the ring.
LEMMA At32Read ==
  ASSUME At32Inv, at32!Read
  PROVE  At32Inv' /\ At32Moves
<1> DEFINE q == Tail(rx.ring)
<1>1. /\ rx.ring # <<>> /\ rx' = [rx EXCEPT !.ring = q] /\ got' = Head(rx.ring)
      /\ main' = <<"kick", "rx">> /\ tx' = tx /\ aux' = aux /\ aux = <<"idle">>
      /\ sent' = None /\ fresh' = FALSE
  BY DEF at32!Read, at32!AtMain, at32!ep_rx_ready
<1>2. /\ rx \in At32Rx /\ rx.ring \in Seq(Item) /\ aux[1] # "copy" /\ NBUF \in Nat
      /\ RxWaits(rx, aux) /\ Len(rx.ring) <= NBUF
  BY <1>1, UsbAssumption DEF At32Inv, RxWaits, At32Rx
<1>3. q \in Seq(Item) /\ Len(q) <= NBUF
  BY <1>1, <1>2, Uncons
<1> HIDE DEF q
<1>4. /\ rx' \in At32Rx /\ rx'.buf = rx.buf /\ rx'.dtog = rx.dtog /\ rx'.sw = rx.sw
      /\ (rx'.ctr <=> rx.ctr) /\ (rx'.kick <=> rx.kick) /\ rx'.ring = q
  BY <1>1, <1>2, <1>3 DEF At32Rx
<1>5. RxWaits(rx', aux')
  BY <1>1, <1>2, <1>3, <1>4 DEF RxWaits
<1>6. At32Inv'
  BY <1>1, <1>5 DEF At32Inv, At32Main
<1>7. /\ RxParts(rx, aux) # <<>> /\ Head(RxParts(rx, aux)) = got'
      /\ RxParts(rx', aux) = Tail(RxParts(rx, aux))
  <2> DEFINE y == rx.buf[1 - rx.dtog]
  <2>1. y \in Item
    BY <1>2, RxPartsAre
  <2>2. CASE rx.dtog = rx.sw
    <3>1. RxParts(rx, aux) = Append(rx.ring, y) /\ RxParts(rx', aux) = Append(q, y)
      BY <1>2, <1>4, <2>2, RxPartsAre
    <3>2. Append(rx.ring, y) = rx.ring \o <<y>> /\ Append(q, y) = q \o <<y>>
      BY <1>2, <1>3, <2>1, Append1
    <3>3. <<y>> \in Seq(Item)
      BY <2>1
    <3> HIDE DEF y
    <3>4. /\ Tail(rx.ring \o <<y>>) = q \o <<y>>
          /\ Head(rx.ring \o <<y>>) = Head(rx.ring) /\ rx.ring \o <<y>> # <<>>
      BY <1>1, <1>2, <3>3, Tail2 DEF q
    <3>5. QED
      BY <1>1, <3>1, <3>2, <3>4
  <2>3. CASE rx.dtog # rx.sw
    <3>1. RxParts(rx, aux) = rx.ring /\ RxParts(rx', aux) = q
      BY <1>2, <1>4, <2>3, RxPartsAre
    <3>2. QED
      BY <1>1, <3>1 DEF q
  <2>4. QED
    BY <2>2, <2>3
<1>8. Moves(RxParts(rx, aux), RxParts(rx', aux'), got', fresh')
  BY <1>1, <1>7 DEF Moves
<1>9. QED
  BY <1>1, <1>6, <1>8, NothingMoves DEF At32Moves

\* usb_write(): the packet joins the ring.
LEMMA At32Write ==
  ASSUME At32Inv, NEW p \in Packets, at32!Write(p)
  PROVE  At32Inv' /\ At32Moves
<1> DEFINE q == Append(tx.ring, p)
<1>1. /\ Len(tx.ring) < NBUF /\ tx' = [tx EXCEPT !.ring = q]
      /\ main' = <<"kick", "tx">> /\ rx' = rx /\ aux' = aux
      /\ got' = None /\ sent' = None /\ fresh' = FALSE
  BY DEF at32!Write, at32!ep_tx_ready, at32!Quiet
<1>2. /\ tx \in At32Tx /\ tx.ring \in Seq(Item) /\ NBUF \in Nat /\ p \in Item
      /\ TxSlots(tx, aux) /\ Capacity \in Nat /\ Capacity >= NBUF + 2
  BY UsbAssumption DEF At32Inv, TxSlots, At32Tx, Item
<1>3. q \in Seq(Item) /\ Len(q) <= NBUF /\ Len(tx.ring) \in Nat
  BY <1>1, <1>2, Append1
<1> HIDE DEF q
<1>4. /\ tx' \in At32Tx /\ tx'.buf = tx.buf /\ tx'.dtog = tx.dtog /\ tx'.sw = tx.sw
      /\ (tx'.ctr <=> tx.ctr) /\ (tx'.kick <=> tx.kick) /\ tx'.ring = q
      /\ tx'.slots = tx.slots
  BY <1>1, <1>2, <1>3 DEF At32Tx
<1>5. InHardware(tx') = InHardware(tx)
  BY <1>4 DEF InHardware
<1>6. TxSlots(tx', aux')
  BY <1>1, <1>2, <1>3, <1>4, <1>5 DEF TxSlots
<1>7. At32Inv'
  BY <1>1, <1>6 DEF At32Inv, At32Main
<1>8. \E r \in Seq(Item) : /\ Len(r) <= 2
                           /\ TxParts(tx) = r \o tx.ring /\ TxParts(tx') = r \o q
  <2> DEFINE f == IF tx.dtog # tx.sw THEN <<tx.buf[tx.dtog]>> ELSE <<>>
             s == IF tx.slots - InHardware(tx) = 1 THEN <<tx.buf[tx.sw]>> ELSE <<>>
  <2>1. TxParts(tx) = (f \o s) \o tx.ring /\ TxParts(tx') = (f \o s) \o q
    BY <1>4, <1>5 DEF TxParts
  <2>2. f \in Seq(Item) /\ Len(f) <= 1 /\ s \in Seq(Item) /\ Len(s) <= 1
    <3>1. tx.buf[tx.dtog] \in Item /\ tx.buf[tx.sw] \in Item
      BY <1>2 DEF At32Tx
    <3>2. QED
      BY <3>1
  <2> HIDE DEF f, s
  <2>3. f \o s \in Seq(Item) /\ Len(f \o s) <= 2
    BY <2>2
  <2>4. QED
    BY <2>1, <2>3
<1>9. PICK r \in Seq(Item) : /\ Len(r) <= 2
                             /\ TxParts(tx) = r \o tx.ring /\ TxParts(tx') = r \o q
  BY <1>8
<1>10. TxParts(tx') = Append(TxParts(tx), p)
  BY <1>2, <1>9, Append2 DEF q
<1>11. Len(TxParts(tx)) < Capacity
  <2>1. Len(r \o tx.ring) = Len(r) + Len(tx.ring) /\ Len(r) \in Nat
    BY <1>2
  <2>2. QED
    BY <1>1, <1>2, <1>3, <1>9, <2>1
<1>12. Moves(TxParts(tx), TxParts(tx'), sent', fresh')
  BY <1>1, <1>10, <1>11 DEF Moves
<1>13. QED
  BY <1>1, <1>7, <1>12, NothingMoves DEF At32Moves

\* The main loop looks at kick, and again with the interrupt masked.
LEMMA At32KickStep ==
  ASSUME At32Inv, at32!Kick \/ at32!MaskedKick
  PROVE  At32Inv' /\ At32Moves
<1>0. main \in At32Main
  BY DEF At32Inv
<1>1. main' \in At32Main
  BY <1>0 DEF at32!Kick, at32!MaskedKick, at32!AtMain, At32Main
<1>2. aux = <<"idle">> /\ at32!Quiet
  BY DEF at32!Kick, at32!MaskedKick, at32!AtMain
<1>3. CASE rx' = rx /\ tx' = tx /\ aux' = aux
  BY <1>1, <1>2, <1>3, NothingMoves DEF At32Inv, At32Moves, at32!Quiet
<1>4. CASE rx.kick /\ at32!RxTransfer /\ tx' = tx
  BY <1>1, <1>2, <1>4, At32RxWork
<1>5. CASE tx.kick /\ at32!TxTransfer(tx) /\ rx' = rx
  <2>1. /\ TxSlots(tx', aux') /\ TxParts(tx') = TxParts(tx)
        /\ aux' \in At32Irq /\ aux'[1] # "copy"
    BY <1>5, At32Waiting, At32TxTransfer
  <2>2. QED
    BY <1>1, <1>2, <1>5, <2>1, At32TxWork
<1>6. QED
  BY <1>3, <1>4, <1>5 DEF at32!Kick, at32!MaskedKick

\* Every step of this driver is a step of both pipes.
LEMMA At32Step ==
  ASSUME At32Inv, at32!Next
  PROVE  /\ At32Inv'
         /\ Moves(at32!RxQueue, at32!RxQueue', got', fresh')
         /\ Moves(at32!TxQueue, at32!TxQueue', sent', fresh')
<1>1. At32Inv' /\ At32Moves
  <2>1. CASE at32!handle_reset \/ at32!configure_ep
    <3>1. /\ rx' = at32!RxConfigured /\ tx' = at32!TxConfigured /\ aux' = <<"idle">>
          /\ got' = None /\ sent' = None /\ fresh' = TRUE
          /\ main' = <<"app">> \/ main' = <<"unconfigured">>
      BY <2>1 DEF at32!handle_reset, at32!configure_ep, at32!Fresh
    <3>2. At32Inv'
      BY <3>1, At32Configured DEF At32Inv, At32Main, At32Irq
    <3>3. RxParts(rx', aux') = <<>> /\ TxParts(tx') = <<>>
      BY <3>1, At32Configured
    <3>4. QED
      BY <3>1, <3>2, <3>3 DEF At32Moves, Moves
  <2>2. QED
    BY <2>1, At32HostStep, At32InterruptStep, At32Read, At32Write, At32KickStep
       DEF at32!Next, at32!Firmware
<1>2. QED
  BY <1>1, At32Queues DEF At32Moves

-----------------------------------------------------------------------------
(* hw_dwc_otg.c: one FIFO, two rings.                                      *)

DataEntry == <<"data", "ep2">>
EndEntry == <<"xfrc", "ep2">>
ControlData == <<"data", "ep0">>
SetupEnd == <<"stup", "ep0">>
OutEnd == <<"xfrc", "ep0">>
ControlEnd == {SetupEnd, OutEnd}
Entry == {DataEntry, EndEntry, ControlData, SetupEnd, OutEnd}
OtgEp == [ring : Seq(Item), nr : Nat, active : BOOLEAN, pktcnt : Nat,
          xfrc : BOOLEAN, stup : BOOLEAN]
OtgRx == [ep : [{"ep0", "ep2"} -> OtgEp], fifo : Seq(Entry), data : Seq(Item)]
OtgTx == [ready : BOOLEAN, pkt : Item, xfrc : BOOLEAN]

\* The packets for EP_RX in the FIFO are those that its entries announce.
Matched(f, d) ==
  \E pos \in [1..Len(d) -> 1..Len(f)] :
    /\ \A k \in 1..Len(d) : f[pos[k]] = DataEntry
    /\ \A i \in 1..Len(f) : f[i] = DataEntry => \E k \in 1..Len(d) : pos[k] = i
    /\ \A k, l \in 1..Len(d) : k < l => pos[k] < pos[l]

Absent(f, e) == \A i \in 1..Len(f) : f[i][2] # e

\* A packet of endpoint 0 and its end are neighbours in the FIFO.
Paired(f) ==
  /\ \A i \in 1..Len(f) : f[i] = ControlData =>
                            i + 1 \in 1..Len(f) /\ f[i + 1] \in ControlEnd
  /\ \A i \in 1..Len(f) : f[i] \in ControlEnd /\ i # 1 => f[i - 1] = ControlData
EndFirst(f) == f # <<>> /\ Head(f) \in ControlEnd

\* A packet of endpoint 0 is in the ring once it is out of the FIFO, until
\* its end is handled.
ControlRx(ep, f) ==
  /\ ep.nr = 1 /\ ep.active /\ Len(ep.ring) <= 1 /\ Paired(f)
  /\ EndFirst(f) => ep.ring # <<>> /\ ~ep.xfrc /\ ~ep.stup
  /\ ep.ring # <<>> => EndFirst(f) \/ ep.xfrc \/ ep.stup
  /\ ep.xfrc \/ ep.stup => ep.ring # <<>>

\* The end of a transfer is the last of it in the FIFO.
EndIsLast(f) == \A i, j \in 1..Len(f) : i < j /\ f[i] = EndEntry => f[j][2] # "ep2"
NoEnd(f) == \A i \in 1..Len(f) : f[i] # EndEntry

\* The transfer of EP_RX has room in the ring, and ends once.
TransferInv(ep, f, d) ==
  /\ ep.nr = RxNr /\ ~ep.stup
  /\ Matched(f, d) /\ Len(ep.ring) + Len(d) + ep.pktcnt <= ep.nr
  /\ EndIsLast(f)
  /\ ep.pktcnt > 0 => ep.active /\ ~ep.xfrc /\ NoEnd(f)
  /\ ep.xfrc => ep.active /\ Absent(f, "ep2")
  /\ ~ep.active => Absent(f, "ep2")

\* The packet in the core is neither finished nor allowed a successor.
OneSent(t) == /\ t \in OtgTx
              /\ t.ready \/ t.xfrc => t.pkt = None
              /\ ~(t.ready /\ t.xfrc)

\* EP_RX after a reset, until it is configured.
Unused(ep, f, d) == ep = dwc_otg!Cleared /\ Absent(f, "ep2") /\ d = <<>>

\* Where an enumeration stands: before ENUMDNE is handled, endpoint 0 is as
\* ENUMDNE will find it.
Enumerating(eps, f, d) ==
  /\ aux = {"reset"} => f = <<>>
  /\ aux \in {{"reset"}, {"ENUMDNE"}} => eps["ep0"] = dwc_otg!Cleared
  /\ aux = {"ENUMDNE"} => ControlRx(dwc_otg!Configured("ep0"), f)
  /\ aux = {"unconfigured"} => ControlRx(eps["ep0"], f)
  /\ Unused(eps["ep2"], f, d)

\* What holds of the two endpoints and the FIFO between resets, from a reset
\* until the firmware meets it, and until the device is configured again.
Phases(eps, f, d) ==
  /\ aux = {} => ControlRx(eps["ep0"], f) /\ TransferInv(eps["ep2"], f, d)
  /\ aux = {"USBRST"} =>
       /\ f = <<>> /\ d = <<>> /\ ControlRx(eps["ep0"], f)
       /\ TransferInv(eps["ep2"], f, d) \/ Unused(eps["ep2"], f, d)
  /\ aux \in {{"reset"}, {"ENUMDNE"}, {"unconfigured"}} => Enumerating(eps, f, d)

OtgInv ==
  /\ rx \in OtgRx /\ OneSent(tx) /\ main \in {"usb", "app"}
  /\ aux \in {{}, {"USBRST"}, {"reset"}, {"ENUMDNE"}, {"unconfigured"}}
  /\ aux \in {{"reset"}, {"ENUMDNE"}, {"unconfigured"}} => tx = dwc_otg!TxCleared
  /\ Phases(rx.ep, rx.fifo, rx.data)

\* The entries the FIFO can hold, and that they differ.
LEMMA Entries ==
  /\ {DataEntry, EndEntry, ControlData, SetupEnd, OutEnd} \subseteq Entry
  /\ ControlEnd \subseteq Entry
  /\ DataEntry[2] = "ep2" /\ EndEntry[2] = "ep2" /\ ControlData[2] = "ep0"
  /\ \A x \in ControlEnd : x[2] = "ep0"
  /\ \A x \in Entry : /\ x[2] = "ep2" => x \in {DataEntry, EndEntry}
                      /\ x[2] # "ep2" => x[2] = "ep0" /\ x \in ControlEnd \cup {ControlData}
                      /\ x[1] = "data" => x \in {DataEntry, ControlData}
  /\ DataEntry # EndEntry /\ DataEntry # ControlData /\ EndEntry # ControlData
  /\ DataEntry \notin ControlEnd /\ EndEntry \notin ControlEnd
  /\ ControlData \notin ControlEnd
BY DEF Entry, DataEntry, EndEntry, ControlData, SetupEnd, OutEnd, ControlEnd

\* Where an entry is after one has been appended, or the first has gone.
LEMMA Appended ==
  ASSUME NEW S, NEW f \in Seq(S), NEW x \in S
  PROVE  LET g == Append(f, x)
         IN /\ g \in Seq(S) /\ Len(g) = Len(f) + 1 /\ Len(f) \in Nat
            /\ \A i \in 1..Len(f) : g[i] = f[i]
            /\ g[Len(f) + 1] = x
            /\ \A i \in 1..Len(g) : i \in 1..Len(f) \/ i = Len(f) + 1
OBVIOUS

\* Where an entry is after the first one has gone.
LEMMA Popped ==
  ASSUME NEW S, NEW f \in Seq(S), f # <<>>
  PROVE  LET g == Tail(f)
         IN /\ g \in Seq(S) /\ Len(g) = Len(f) - 1 /\ Len(f) \in Nat /\ Len(f) >= 1
            /\ \A i \in 1..Len(g) : g[i] = f[i + 1] /\ i + 1 \in 1..Len(f)
            /\ \A i \in 1..Len(f) : i # 1 => i - 1 \in 1..Len(g)
            /\ Head(f) = f[1] /\ 1 \in 1..Len(f) /\ Head(f) \in S
OBVIOUS

\* A packet comes to the FIFO with its entry.
LEMMA MatchedReceived ==
  ASSUME NEW f \in Seq(Entry), NEW d \in Seq(Item), NEW p \in Item, Matched(f, d)
  PROVE  Matched(Append(f, DataEntry), Append(d, p))
<1> DEFINE g == Append(f, DataEntry)
           e == Append(d, p)
           n == Len(f) + 1
           m == Len(d) + 1
<1>1. PICK pos \in [1..Len(d) -> 1..Len(f)] :
        /\ \A k \in 1..Len(d) : f[pos[k]] = DataEntry
        /\ \A i \in 1..Len(f) : f[i] = DataEntry => \E k \in 1..Len(d) : pos[k] = i
        /\ \A k, l \in 1..Len(d) : k < l => pos[k] < pos[l]
  BY DEF Matched
<1>2. /\ Len(g) = n /\ Len(f) \in Nat /\ g[n] = DataEntry
      /\ \A i \in 1..Len(f) : g[i] = f[i]
      /\ \A i \in 1..Len(g) : i \in 1..Len(f) \/ i = n
  BY Appended, Entries
<1>3. Len(e) = m /\ Len(d) \in Nat
  BY Appended
<1> HIDE DEF g, e
<1> DEFINE q == [k \in 1..m |-> IF k = m THEN n ELSE pos[k]]
<1>4. /\ \A k \in 1..Len(d) : q[k] = pos[k] /\ pos[k] \in 1..Len(f) /\ k \in 1..m
      /\ q[m] = n /\ m \in 1..m
      /\ \A k \in 1..m : k = m \/ k \in 1..Len(d)
  <2>1. m \in 1..m /\ (\A k \in 1..m : k = m \/ k \in 1..Len(d))
    BY <1>3
  <2>2. \A k \in 1..Len(d) : k \in 1..m /\ k # m
    BY <1>3
  <2>3. \A k \in 1..m : q[k] = IF k = m THEN n ELSE pos[k]
    OBVIOUS
  <2> HIDE DEF q, m, n
  <2>4. QED
    BY <2>1, <2>2, <2>3
<1>5. q \in [1..Len(e) -> 1..Len(g)]
  BY <1>2, <1>3, <1>4
<1> HIDE DEF q
<1>6. \A k \in 1..Len(e) : g[q[k]] = DataEntry
  BY <1>1, <1>2, <1>3, <1>4
<1>7. ASSUME NEW i \in 1..Len(g), g[i] = DataEntry PROVE \E k \in 1..Len(e) : q[k] = i
  <2>1. CASE i = n
    BY <1>3, <1>4, <2>1
  <2>2. CASE i \in 1..Len(f)
    BY <1>1, <1>2, <1>3, <1>4, <1>7, <2>2
  <2>3. QED
    BY <1>2, <2>1, <2>2
<1>8. ASSUME NEW k \in 1..Len(e), NEW l \in 1..Len(e), k < l PROVE q[k] < q[l]
  <2>1. k \in 1..Len(d) /\ q[k] = pos[k] /\ pos[k] \in 1..Len(f)
    BY <1>3, <1>4, <1>8
  <2>2. CASE l = m
    BY <1>2, <1>4, <2>1, <2>2
  <2>3. CASE l \in 1..Len(d)
    BY <1>1, <1>4, <1>8, <2>1, <2>3
  <2>4. QED
    BY <1>3, <1>4, <2>2, <2>3
<1>9. QED
  BY <1>5, <1>6, <1>7, <1>8 DEF Matched, g, e

\* Another entry comes to the FIFO.
LEMMA MatchedAppended ==
  ASSUME NEW f \in Seq(Entry), NEW d \in Seq(Item), NEW x \in Entry, x # DataEntry,
         Matched(f, d)
  PROVE  Matched(Append(f, x), d)
<1> DEFINE g == Append(f, x)
<1>1. PICK pos \in [1..Len(d) -> 1..Len(f)] :
        /\ \A k \in 1..Len(d) : f[pos[k]] = DataEntry
        /\ \A i \in 1..Len(f) : f[i] = DataEntry => \E k \in 1..Len(d) : pos[k] = i
        /\ \A k, l \in 1..Len(d) : k < l => pos[k] < pos[l]
  BY DEF Matched
<1>2. /\ Len(g) = Len(f) + 1 /\ Len(f) \in Nat /\ g[Len(f) + 1] = x
      /\ \A i \in 1..Len(f) : g[i] = f[i]
      /\ \A i \in 1..Len(g) : i \in 1..Len(f) \/ i = Len(f) + 1
  BY Appended
<1> HIDE DEF g
<1>3. pos \in [1..Len(d) -> 1..Len(g)]
  BY <1>2
<1>4. \A k \in 1..Len(d) : g[pos[k]] = DataEntry
  BY <1>1, <1>2
<1>5. \A i \in 1..Len(g) : g[i] = DataEntry => \E k \in 1..Len(d) : pos[k] = i
  BY <1>1, <1>2
<1>6. QED
  BY <1>1, <1>3, <1>4, <1>5 DEF Matched, g

\* The packet that the first entry announces is the first.
LEMMA MatchedPopped ==
  ASSUME NEW f \in Seq(Entry), NEW d \in Seq(Item), f # <<>>, Head(f) = DataEntry,
         Matched(f, d)
  PROVE  d # <<>> /\ Matched(Tail(f), Tail(d))
<1> DEFINE g == Tail(f)
           e == Tail(d)
<1>1. PICK pos \in [1..Len(d) -> 1..Len(f)] :
        /\ \A k \in 1..Len(d) : f[pos[k]] = DataEntry
        /\ \A i \in 1..Len(f) : f[i] = DataEntry => \E k \in 1..Len(d) : pos[k] = i
        /\ \A k, l \in 1..Len(d) : k < l => pos[k] < pos[l]
  BY DEF Matched
<1>2. /\ Len(g) = Len(f) - 1 /\ Len(f) \in Nat /\ Len(f) >= 1
      /\ \A i \in 1..Len(g) : g[i] = f[i + 1] /\ i + 1 \in 1..Len(f)
      /\ f[1] = DataEntry /\ 1 \in 1..Len(f)
  BY Popped
<1>3. PICK one \in 1..Len(d) : pos[one] = 1
  BY <1>1, <1>2
<1>4. Len(d) \in Nat /\ Len(d) >= 1 /\ d # <<>>
  BY <1>3
<1>5. Len(e) = Len(d) - 1 /\ \A k \in 1..Len(e) : k + 1 \in 1..Len(d)
  BY <1>4, Popped
<1>6. pos[1] = 1
  <2>1. pos[1] \in 1..Len(f) /\ 1 \in 1..Len(d)
    BY <1>4
  <2>2. one # 1 => pos[1] < pos[one]
    BY <1>1, <1>3, <2>1
  <2>3. QED
    BY <1>2, <1>3, <2>1, <2>2
<1> HIDE DEF g, e
<1> DEFINE q == [k \in 1..Len(e) |-> pos[k + 1] - 1]
<1>7. \A k \in 1..Len(e) : /\ q[k] = pos[k + 1] - 1 /\ pos[k + 1] > 1
                           /\ pos[k + 1] \in 1..Len(f) /\ q[k] \in 1..Len(g)
  <2> TAKE k \in 1..Len(e)
  <2>1. k + 1 \in 1..Len(d) /\ 1 \in 1..Len(d) /\ 1 < k + 1
    BY <1>4, <1>5
  <2>2. pos[k + 1] > 1 /\ pos[k + 1] \in 1..Len(f)
    BY <1>1, <1>6, <2>1
  <2>3. QED
    BY <1>2, <2>2
<1>8. q \in [1..Len(e) -> 1..Len(g)]
  BY <1>7
<1> HIDE DEF q
<1>9. \A k \in 1..Len(e) : g[q[k]] = DataEntry
  <2> TAKE k \in 1..Len(e)
  <2>1. f[pos[k + 1]] = DataEntry
    BY <1>1, <1>5
  <2>2. q[k] \in 1..Len(g) /\ q[k] + 1 = pos[k + 1]
    BY <1>7
  <2>3. QED
    BY <1>2, <2>1, <2>2
<1>10. ASSUME NEW i \in 1..Len(g), g[i] = DataEntry PROVE \E k \in 1..Len(e) : q[k] = i
  <2>1. i + 1 \in 1..Len(f) /\ f[i + 1] = DataEntry
    BY <1>2, <1>10
  <2>2. PICK k \in 1..Len(d) : pos[k] = i + 1
    BY <1>1, <2>1
  <2>3. k # 1
    BY <1>6, <2>2
  <2>4. k - 1 \in 1..Len(e) /\ (k - 1) + 1 = k
    BY <1>4, <1>5, <2>3
  <2>5. q[k - 1] = i
    <3>1. q[k - 1] = pos[(k - 1) + 1] - 1
      BY <1>7, <2>4
    <3>2. pos[(k - 1) + 1] = i + 1
      BY <2>2, <2>4
    <3>3. (i + 1) - 1 = i
      BY <1>2
    <3>4. QED
      BY <3>1, <3>2, <3>3
  <2>6. QED
    BY <2>4, <2>5
<1>11. ASSUME NEW k \in 1..Len(e), NEW l \in 1..Len(e), k < l PROVE q[k] < q[l]
  <2>1. k + 1 \in 1..Len(d) /\ l + 1 \in 1..Len(d) /\ k + 1 < l + 1
    BY <1>5, <1>11
  <2>2. pos[k + 1] < pos[l + 1]
    BY <1>1, <2>1
  <2>3. QED
    BY <1>7, <2>2
<1>12. QED
  BY <1>4, <1>8, <1>9, <1>10, <1>11 DEF Matched, g, e

\* The first entry is another one.
LEMMA MatchedRest ==
  ASSUME NEW f \in Seq(Entry), NEW d \in Seq(Item), f # <<>>, Head(f) # DataEntry,
         Matched(f, d)
  PROVE  Matched(Tail(f), d)
<1> DEFINE g == Tail(f)
<1>1. PICK pos \in [1..Len(d) -> 1..Len(f)] :
        /\ \A k \in 1..Len(d) : f[pos[k]] = DataEntry
        /\ \A i \in 1..Len(f) : f[i] = DataEntry => \E k \in 1..Len(d) : pos[k] = i
        /\ \A k, l \in 1..Len(d) : k < l => pos[k] < pos[l]
  BY DEF Matched
<1>2. /\ Len(g) = Len(f) - 1 /\ Len(f) \in Nat /\ Len(f) >= 1
      /\ \A i \in 1..Len(g) : g[i] = f[i + 1] /\ i + 1 \in 1..Len(f)
      /\ f[1] # DataEntry
  BY Popped
<1> HIDE DEF g
<1> DEFINE q == [k \in 1..Len(d) |-> pos[k] - 1]
<1>3. \A k \in 1..Len(d) : /\ q[k] = pos[k] - 1 /\ pos[k] \in 1..Len(f)
                           /\ q[k] \in 1..Len(g) /\ q[k] + 1 = pos[k]
  <2> TAKE k \in 1..Len(d)
  <2>1. pos[k] # 1 /\ pos[k] \in 1..Len(f)
    BY <1>1, <1>2
  <2>2. QED
    BY <1>2, <2>1
<1>4. q \in [1..Len(d) -> 1..Len(g)]
  BY <1>3
<1> HIDE DEF q
<1>5. \A k \in 1..Len(d) : g[q[k]] = DataEntry
  BY <1>1, <1>2, <1>3
<1>6. ASSUME NEW i \in 1..Len(g), g[i] = DataEntry PROVE \E k \in 1..Len(d) : q[k] = i
  <2>1. i + 1 \in 1..Len(f) /\ f[i + 1] = DataEntry
    BY <1>2, <1>6
  <2>2. PICK k \in 1..Len(d) : pos[k] = i + 1
    BY <1>1, <2>1
  <2>3. QED
    BY <1>3, <2>2
<1>7. \A k, l \in 1..Len(d) : k < l => q[k] < q[l]
  BY <1>1, <1>3
<1>8. QED
  BY <1>4, <1>5, <1>6, <1>7 DEF Matched, g

\* Without an entry for it there is no packet.
LEMMA MatchedNone ==
  ASSUME NEW f \in Seq(Entry), NEW d \in Seq(Item), Matched(f, d), Absent(f, "ep2")
  PROVE  d = <<>>
<1>1. PICK pos \in [1..Len(d) -> 1..Len(f)] : \A k \in 1..Len(d) : f[pos[k]] = DataEntry
  BY DEF Matched
<1>2. SUFFICES ASSUME d # <<>> PROVE FALSE
  OBVIOUS
<1>3. 1 \in 1..Len(d)
  BY <1>2, Popped
<1>4. pos[1] \in 1..Len(f) /\ f[pos[1]] = DataEntry
  BY <1>1, <1>3
<1>5. QED
  BY <1>4, Entries DEF Absent

\* The FIFO's contents when an entry is appended.
LEMMA AbsentAppended ==
  ASSUME NEW f \in Seq(Entry), NEW x \in Entry, NEW e, Absent(f, e), x[2] # e
  PROVE  Absent(Append(f, x), e)
<1> DEFINE g == Append(f, x)
<1>1. /\ \A i \in 1..Len(f) : g[i] = f[i]
      /\ g[Len(f) + 1] = x
      /\ \A i \in 1..Len(g) : i \in 1..Len(f) \/ i = Len(f) + 1
  BY Appended
<1> HIDE DEF g
<1>2. \A i \in 1..Len(g) : g[i][2] # e
  BY <1>1 DEF Absent
<1>3. QED
  BY <1>2 DEF Absent, g

\* An entry of another endpoint changes nothing for endpoint 0.
LEMMA PairedAppended ==
  ASSUME NEW f \in Seq(Entry), NEW x \in Entry, x[2] # "ep0", Paired(f)
  PROVE  Paired(Append(f, x)) /\ (EndFirst(Append(f, x)) <=> EndFirst(f))
<1> DEFINE g == Append(f, x)
<1>1. /\ Len(g) = Len(f) + 1 /\ Len(f) \in Nat
      /\ \A i \in 1..Len(f) : g[i] = f[i] /\ i \in 1..Len(g)
      /\ g[Len(f) + 1] = x
      /\ \A i \in 1..Len(g) : i \in 1..Len(f) \/ i = Len(f) + 1
  BY Appended
<1>2. x # ControlData /\ x \notin ControlEnd
  BY Entries
<1>3. /\ Head(g) = IF f = <<>> THEN x ELSE Head(f)
      /\ g # <<>>
  OBVIOUS
<1> HIDE DEF g
<1>4. \A i \in 1..Len(g) : g[i] = ControlData =>
                            i + 1 \in 1..Len(g) /\ g[i + 1] \in ControlEnd
  BY <1>1, <1>2 DEF Paired
<1>5. \A i \in 1..Len(g) : g[i] \in ControlEnd /\ i # 1 => g[i - 1] = ControlData
  <2> TAKE i \in 1..Len(g)
  <2> HAVE g[i] \in ControlEnd /\ i # 1
  <2>1. i \in 1..Len(f) /\ f[i] \in ControlEnd
    BY <1>1, <1>2
  <2>2. f[i - 1] = ControlData /\ i - 1 \in 1..Len(f)
    BY <2>1 DEF Paired
  <2>3. QED
    BY <1>1, <2>2
<1>6. EndFirst(g) <=> EndFirst(f)
  BY <1>2, <1>3 DEF EndFirst
<1>7. QED
  BY <1>4, <1>5, <1>6 DEF Paired, g

\* A packet of endpoint 0 comes with its end.
LEMMA PairedArrives ==
  ASSUME NEW f \in Seq(Entry), NEW x \in ControlEnd, Paired(f)
  PROVE  LET h == Append(Append(f, ControlData), x)
         IN h \in Seq(Entry) /\ Paired(h) /\ (EndFirst(h) <=> EndFirst(f))
<1> DEFINE g == Append(f, ControlData)
           h == Append(g, x)
           n == Len(f)
<1>1. /\ g \in Seq(Entry) /\ Len(g) = n + 1 /\ n \in Nat
      /\ \A i \in 1..n : g[i] = f[i]
      /\ g[n + 1] = ControlData
  BY Entries, Appended
<1>2. ControlData # x /\ x \in Entry
  BY Entries
<1>3. Head(h) = IF f = <<>> THEN ControlData ELSE Head(f)
  OBVIOUS
<1> HIDE DEF g
<1>4. /\ h \in Seq(Entry) /\ h # <<>> /\ Len(h) = n + 2
      /\ \A i \in 1..n + 1 : h[i] = g[i]
      /\ h[n + 2] = x
  BY <1>1, <1>2
<1> HIDE DEF h
<1>5. /\ \A i \in 1..n : h[i] = f[i]
      /\ h[n + 1] = ControlData /\ h[n + 2] = x /\ n + 1 + 1 = n + 2 /\ n + 2 - 1 = n + 1
      /\ \A i \in 1..Len(h) : i \in 1..n \/ i = n + 1 \/ i = n + 2
      /\ n + 2 \in 1..Len(h) /\ n + 1 \in 1..Len(h) /\ \A i \in 1..n : i \in 1..Len(h)
  BY <1>1, <1>4
<1>6. \A i \in 1..Len(h) : h[i] = ControlData =>
                            i + 1 \in 1..Len(h) /\ h[i + 1] \in ControlEnd
  <2> TAKE i \in 1..Len(h)
  <2> HAVE h[i] = ControlData
  <2>1. CASE i \in 1..n
    BY <1>5, <2>1 DEF Paired
  <2>2. CASE i = n + 1
    BY <1>5, <2>2
  <2>3. CASE i = n + 2
    BY <1>2, <1>5, <2>3
  <2>4. QED
    BY <1>5, <2>1, <2>2, <2>3
<1>7. \A i \in 1..Len(h) : h[i] \in ControlEnd /\ i # 1 => h[i - 1] = ControlData
  <2> TAKE i \in 1..Len(h)
  <2> HAVE h[i] \in ControlEnd /\ i # 1
  <2>1. CASE i \in 1..n
    <3>1. f[i - 1] = ControlData /\ i - 1 \in 1..n
      <4>1. i \in 1..Len(f) /\ f[i] \in ControlEnd /\ i # 1
        BY <1>5, <2>1
      <4>2. f[i - 1] = ControlData
        BY <4>1 DEF Paired
      <4>3. i - 1 \in 1..n
        BY <1>1, <2>1
      <4>4. QED
        BY <4>2, <4>3
    <3>2. QED
      BY <1>5, <3>1
  <2>2. CASE i = n + 1
    BY <1>5, <2>2, Entries
  <2>3. CASE i = n + 2
    BY <1>5, <2>3
  <2>4. QED
    BY <1>5, <2>1, <2>2, <2>3
<1>8. EndFirst(h) <=> EndFirst(f)
  BY <1>3, <1>4, Entries DEF EndFirst
<1>9. QED
  BY <1>4, <1>6, <1>7, <1>8 DEF Paired, h, g

\* Where the end of the transfer is after an entry has been appended.
LEMMA EndAppended ==
  ASSUME NEW f \in Seq(Entry), NEW x \in Entry
  PROVE  LET g == Append(f, x)
         IN /\ x # EndEntry /\ NoEnd(f) => NoEnd(g)
            /\ NoEnd(f) => EndIsLast(g)
            /\ x[2] # "ep2" /\ EndIsLast(f) => EndIsLast(g)
<1> DEFINE g == Append(f, x)
<1>1. /\ Len(g) = Len(f) + 1 /\ Len(f) \in Nat
      /\ \A i \in 1..Len(f) : g[i] = f[i]
      /\ g[Len(f) + 1] = x
      /\ \A i \in 1..Len(g) : i \in 1..Len(f) \/ i = Len(f) + 1
  BY Appended
<1> HIDE DEF g
<1>2. x # EndEntry /\ NoEnd(f) => NoEnd(g)
  BY <1>1 DEF NoEnd
<1>3. \A i, j \in 1..Len(g) : i < j => i \in 1..Len(f)
  BY <1>1
<1>4. NoEnd(f) => EndIsLast(g)
  BY <1>1, <1>3 DEF NoEnd, EndIsLast
<1>5. x[2] # "ep2" /\ EndIsLast(f) => EndIsLast(g)
  BY <1>1, <1>3 DEF EndIsLast
<1>6. QED
  BY <1>2, <1>4, <1>5 DEF g

\* ... and when the first is popped.
LEMMA Rest ==
  ASSUME NEW f \in Seq(Entry), f # <<>>
  PROVE  LET g == Tail(f)
             x == Head(f)
         IN /\ \A e : Absent(f, e) => Absent(g, e) /\ x[2] # e
            /\ EndIsLast(f) => EndIsLast(g)
            /\ NoEnd(f) => NoEnd(g) /\ x # EndEntry
            /\ x = EndEntry /\ EndIsLast(f) => Absent(g, "ep2")
<1> DEFINE g == Tail(f)
           x == Head(f)
<1>1. /\ Len(g) = Len(f) - 1 /\ Len(f) \in Nat /\ Len(f) >= 1
      /\ \A i \in 1..Len(g) : g[i] = f[i + 1] /\ i + 1 \in 1..Len(f)
      /\ x = f[1] /\ 1 \in 1..Len(f)
  BY Popped
<1> HIDE DEF g, x
<1>2. ASSUME NEW e, Absent(f, e) PROVE Absent(g, e) /\ x[2] # e
  BY <1>1, <1>2 DEF Absent
<1>3. ASSUME EndIsLast(f) PROVE EndIsLast(g)
  <2> SUFFICES ASSUME NEW i \in 1..Len(g), NEW j \in 1..Len(g), i < j, g[i] = EndEntry
               PROVE  g[j][2] # "ep2"
    BY DEF EndIsLast
  <2>1. i + 1 \in 1..Len(f) /\ j + 1 \in 1..Len(f) /\ i + 1 < j + 1
    BY <1>1
  <2>2. QED
    BY <1>1, <1>3, <2>1 DEF EndIsLast
<1>4. ASSUME NoEnd(f) PROVE NoEnd(g) /\ x # EndEntry
  BY <1>1, <1>4 DEF NoEnd
<1>5. ASSUME x = EndEntry, EndIsLast(f) PROVE Absent(g, "ep2")
  <2> SUFFICES ASSUME NEW i \in 1..Len(g) PROVE g[i][2] # "ep2"
    BY DEF Absent
  <2>1. 1 < i + 1 /\ i + 1 \in 1..Len(f)
    BY <1>1
  <2>2. QED
    BY <1>1, <1>5, <2>1 DEF EndIsLast
<1>6. QED
  BY <1>2, <1>3, <1>4, <1>5 DEF g, x

\* What is left for endpoint 0 when the first entry is popped.
LEMMA PairedRest ==
  ASSUME NEW f \in Seq(Entry), f # <<>>, Paired(f)
  PROVE  /\ Paired(Tail(f))
         /\ EndFirst(f) <=> Head(f) \in ControlEnd
         /\ EndFirst(Tail(f)) <=> Head(f) = ControlData
<1> DEFINE g == Tail(f)
           x == Head(f)
<1>1. /\ g \in Seq(Entry) /\ Len(g) = Len(f) - 1 /\ Len(f) \in Nat /\ Len(f) >= 1
      /\ \A i \in 1..Len(g) : g[i] = f[i + 1] /\ i + 1 \in 1..Len(f)
      /\ x = f[1] /\ 1 \in 1..Len(f)
  BY Popped
<1>2. g # <<>> => Head(g) = g[1] /\ 1 \in 1..Len(g)
  BY <1>1, Popped
<1>3. EndFirst(f) <=> x \in ControlEnd
  BY DEF EndFirst
<1> HIDE DEF g, x
<1>4. 1 \in 1..Len(g) => g # <<>>
  OBVIOUS
<1>5. \A i \in 1..Len(g) : g[i] = ControlData =>
                            i + 1 \in 1..Len(g) /\ g[i + 1] \in ControlEnd
  <2> TAKE i \in 1..Len(g)
  <2> HAVE g[i] = ControlData
  <2>1. i + 1 + 1 \in 1..Len(f) /\ f[i + 1 + 1] \in ControlEnd
    BY <1>1 DEF Paired
  <2>2. i + 1 \in 1..Len(g)
    BY <1>1, <2>1
  <2>3. QED
    BY <1>1, <2>1, <2>2
<1>6. \A i \in 1..Len(g) : g[i] \in ControlEnd /\ i # 1 => g[i - 1] = ControlData
  <2> TAKE i \in 1..Len(g)
  <2> HAVE g[i] \in ControlEnd /\ i # 1
  <2>1. f[i + 1 - 1] = ControlData
    BY <1>1 DEF Paired
  <2>2. i - 1 \in 1..Len(g) /\ i - 1 + 1 = i /\ i + 1 - 1 = i
    BY <1>1
  <2>3. QED
    BY <1>1, <2>1, <2>2
<1>7. ASSUME x = ControlData PROVE EndFirst(g)
  <2>1. 1 + 1 \in 1..Len(f) /\ f[1 + 1] \in ControlEnd
    BY <1>1, <1>7 DEF Paired
  <2>2. 1 \in 1..Len(g)
    BY <1>1, <2>1
  <2>3. QED
    BY <1>1, <1>2, <1>4, <2>1, <2>2 DEF EndFirst
<1>8. ASSUME EndFirst(g) PROVE x = ControlData
  <2>1. g # <<>> /\ g[1] \in ControlEnd /\ 1 \in 1..Len(g)
    BY <1>2, <1>8 DEF EndFirst
  <2>2. f[1 + 1] \in ControlEnd /\ 1 + 1 \in 1..Len(f)
    BY <1>1, <2>1
  <2>3. f[1 + 1 - 1] = ControlData
    BY <2>2 DEF Paired
  <2>4. QED
    BY <1>1, <2>3
<1>9. QED
  BY <1>3, <1>5, <1>6, <1>7, <1>8 DEF Paired, g, x

\* Without an entry for EP_RX there is no packet for it, and no end.
LEMMA NoneMatched ==
  ASSUME NEW f \in Seq(Entry), Absent(f, "ep2")
  PROVE  Matched(f, <<>>) /\ EndIsLast(f) /\ NoEnd(f)
<1> DEFINE pos == [k \in 1..Len(<<>>) |-> k]
<1>1. pos \in [1..Len(<<>>) -> 1..Len(f)] /\ \A k \in 1..Len(<<>>) : FALSE
  OBVIOUS
<1>2. \A i \in 1..Len(f) : f[i] # DataEntry /\ f[i] # EndEntry
  BY Entries DEF Absent
<1> HIDE DEF pos
<1>3. QED
  BY <1>1, <1>2 DEF Matched, EndIsLast, NoEnd

\* The core may fill the ring again, or may go on as it did.
LEMMA Prepared ==
  ASSUME NEW ep \in OtgEp
  PROVE  LET r == dwc_otg!prepare_rx(ep)
         IN /\ r \in OtgEp /\ r.ring = ep.ring /\ r.nr = ep.nr
            /\ (r.xfrc <=> ep.xfrc) /\ (r.stup <=> ep.stup)
            /\ \/ r = ep
               \/ /\ ~ep.active /\ r.active /\ Len(ep.ring) + r.pktcnt = ep.nr
            /\ ep.nr = 1 /\ ep.ring = <<>> => r.active
<1> DEFINE n == ep.nr - Len(ep.ring)
           r == dwc_otg!prepare_rx(ep)
<1>1. ep.nr \in Nat /\ Len(ep.ring) \in Nat
  BY DEF OtgEp
<1>2. CASE ep.active \/ n <= ep.nr \div 2
  <2>1. r = ep
    BY <1>2 DEF dwc_otg!prepare_rx
  <2>2. ep.nr = 1 /\ ep.ring = <<>> => ep.active
    BY <1>1, <1>2
  <2>3. QED
    BY <2>1, <2>2
<1>3. CASE ~(ep.active \/ n <= ep.nr \div 2)
  <2>1. n \in Nat /\ Len(ep.ring) + n = ep.nr
    BY <1>1, <1>3
  <2>2. r = [ep EXCEPT !.pktcnt = n, !.active = TRUE]
    BY <1>3 DEF dwc_otg!prepare_rx
  <2> HIDE DEF n, r
  <2>3. /\ r \in OtgEp /\ r.ring = ep.ring /\ r.nr = ep.nr
        /\ (r.xfrc <=> ep.xfrc) /\ (r.stup <=> ep.stup) /\ r.active /\ r.pktcnt = n
    BY <2>1, <2>2 DEF OtgEp
  <2>4. QED
    BY <1>3, <2>1, <2>3 DEF r
<1>4. QED
  BY <1>2, <1>3

\* The endpoints as they are configured.
LEMMA OtgConfigured ==
  /\ dwc_otg!Cleared \in OtgEp /\ ~dwc_otg!Cleared.xfrc /\ ~dwc_otg!Cleared.stup
  /\ dwc_otg!Cleared.ring = <<>>
  /\ [dwc_otg!Cleared EXCEPT !.pktcnt = 0] = dwc_otg!Cleared
  /\ dwc_otg!Configured("ep0") \in OtgEp
  /\ ControlRx(dwc_otg!Configured("ep0"), <<>>)
  /\ ~dwc_otg!Configured("ep0").xfrc /\ ~dwc_otg!Configured("ep0").stup
  /\ dwc_otg!Configured("ep2") \in OtgEp
  /\ \A f \in Seq(Entry) :
       Absent(f, "ep2") => TransferInv(dwc_otg!Configured("ep2"), f, <<>>)
  /\ dwc_otg!Configured("ep2").ring = <<>>
  /\ ~dwc_otg!Configured("ep2").xfrc /\ ~dwc_otg!Configured("ep2").stup
<1> DEFINE c == dwc_otg!Cleared
           a == [c EXCEPT !.nr = 1]
           b == [c EXCEPT !.nr = RxNr]
<1>1. /\ c \in OtgEp /\ ~c.xfrc /\ ~c.stup /\ ~c.active /\ c.ring = <<>> /\ c.pktcnt = 0
      /\ [c EXCEPT !.pktcnt = 0] = c
  BY DEF dwc_otg!Cleared, OtgEp
<1>2. /\ dwc_otg!Configured("ep0") = dwc_otg!prepare_rx(a)
      /\ dwc_otg!Configured("ep2") = dwc_otg!prepare_rx(b)
  BY DEF dwc_otg!Configured, dwc_otg!Size
<1> HIDE DEF c
<1>3. /\ a \in OtgEp /\ a.nr = 1 /\ ~a.xfrc /\ ~a.stup /\ a.ring = <<>>
      /\ b \in OtgEp /\ b.nr = RxNr /\ ~b.xfrc /\ ~b.stup /\ b.ring = <<>>
      /\ ~b.active /\ b.pktcnt = 0 /\ RxNr \in Nat
  BY <1>1, UsbAssumption DEF OtgEp
<1> HIDE DEF a, b
<1>4. Paired(<<>>) /\ ~EndFirst(<<>>)
  BY DEF Paired, EndFirst
<1>5. Len(<<>>) = 0
  OBVIOUS
<1> DEFINE r == dwc_otg!prepare_rx(a)
           s == dwc_otg!prepare_rx(b)
<1>6. r \in OtgEp /\ r.ring = <<>> /\ r.nr = 1 /\ ~r.xfrc /\ ~r.stup /\ r.active
  BY <1>3, Prepared
<1>7. /\ s \in OtgEp /\ s.ring = <<>> /\ s.nr = RxNr /\ ~s.xfrc /\ ~s.stup
      /\ s.pktcnt <= RxNr /\ (s.pktcnt > 0 => s.active) /\ s.pktcnt \in Nat
  <2>1. /\ s \in OtgEp /\ s.ring = <<>> /\ s.nr = RxNr /\ ~s.xfrc /\ ~s.stup
        /\ s = b \/ (s.active /\ Len(b.ring) + s.pktcnt = RxNr)
    BY <1>3, Prepared
  <2>2. s.pktcnt \in Nat
    BY <2>1 DEF OtgEp
  <2>3. QED
    BY <1>3, <1>5, <2>1, <2>2
<1> HIDE DEF r, s
<1>8. ControlRx(r, <<>>)
  BY <1>4, <1>5, <1>6 DEF ControlRx
<1>9. ASSUME NEW f \in Seq(Entry), Absent(f, "ep2") PROVE TransferInv(s, f, <<>>)
  <2>1. Matched(f, <<>>) /\ EndIsLast(f) /\ NoEnd(f)
    BY <1>9, NoneMatched
  <2>2. Len(s.ring) + Len(<<>>) + s.pktcnt <= s.nr
    BY <1>3, <1>5, <1>7
  <2>3. QED
    BY <1>7, <1>9, <2>1, <2>2 DEF TransferInv
<1>10. QED
  BY <1>1, <1>2, <1>6, <1>7, <1>8, <1>9 DEF c, r, s

\* A bus reset stops the transfers of both endpoints.
LEMMA Stopped ==
  ASSUME NEW ep \in OtgEp, NEW f, NEW d
  PROVE  LET r == [ep EXCEPT !.pktcnt = 0]
         IN /\ r \in OtgEp /\ r.ring = ep.ring
            /\ ControlRx(ep, f) => ControlRx(r, f)
            /\ f \in Seq(Entry) /\ d \in Seq(Item) /\ TransferInv(ep, f, d) =>
                 TransferInv(r, f, d)
<1> DEFINE r == [ep EXCEPT !.pktcnt = 0]
<1>1. /\ r \in OtgEp /\ r.ring = ep.ring /\ r.nr = ep.nr /\ (r.active <=> ep.active)
      /\ r.pktcnt = 0 /\ (r.xfrc <=> ep.xfrc) /\ (r.stup <=> ep.stup)
  BY DEF OtgEp
<1> HIDE DEF r
<1>2. ControlRx(ep, f) => ControlRx(r, f)
  BY <1>1 DEF ControlRx
<1>3. ASSUME f \in Seq(Entry), d \in Seq(Item), TransferInv(ep, f, d)
      PROVE  TransferInv(r, f, d)
  <2>1. /\ Len(ep.ring) \in Nat /\ Len(d) \in Nat /\ ep.pktcnt \in Nat /\ ep.nr \in Nat
        /\ Len(ep.ring) + Len(d) + ep.pktcnt <= ep.nr
    BY <1>3 DEF OtgEp, TransferInv
  <2>2. Len(r.ring) + Len(d) + r.pktcnt <= r.nr
    BY <1>1, <2>1
  <2>3. QED
    BY <1>1, <1>3, <2>2 DEF TransferInv
<1>4. QED
  BY <1>1, <1>2, <1>3 DEF r

\* The core accepts a packet; it may be the last of the transfer.
LEMMA TransferReceives ==
  ASSUME NEW ep \in OtgEp, NEW f \in Seq(Entry), NEW d \in Seq(Item), NEW p \in Item,
         TransferInv(ep, f, d), ep.pktcnt > 0,
         NEW n \in Nat, n < ep.pktcnt
  PROVE  LET r == [ep EXCEPT !.pktcnt = n]
             g == Append(f, DataEntry)
         IN /\ r \in OtgEp /\ TransferInv(r, g, Append(d, p))
            /\ n = 0 => TransferInv(r, Append(g, EndEntry), Append(d, p))
            /\ r.ring = ep.ring /\ Len(ep.ring) + Len(d) < RxNr
<1> DEFINE r == [ep EXCEPT !.pktcnt = n]
           g == Append(f, DataEntry)
           e == Append(d, p)
           h == Append(g, EndEntry)
<1>1. /\ r \in OtgEp /\ r.ring = ep.ring /\ r.nr = ep.nr /\ r.pktcnt = n
      /\ (r.active <=> ep.active) /\ (r.xfrc <=> ep.xfrc) /\ (r.stup <=> ep.stup)
  BY DEF OtgEp
<1>2. ep.active /\ ~ep.xfrc /\ NoEnd(f) /\ Matched(f, d)
  BY DEF TransferInv
<1>3. /\ g \in Seq(Entry) /\ e \in Seq(Item) /\ Len(e) = Len(d) + 1 /\ Len(d) \in Nat
  BY Entries, Append1
<1>4. Matched(g, e)
  BY <1>2, MatchedReceived
<1>5. NoEnd(g) /\ EndIsLast(g)
  BY <1>2, Entries, EndAppended
<1> HIDE DEF g, e
<1>6. Matched(h, e) /\ EndIsLast(h)
  BY <1>3, <1>4, <1>5, Entries, MatchedAppended, EndAppended
<1>7. Len(ep.ring) \in Nat /\ ep.pktcnt \in Nat /\ ep.nr \in Nat
      /\ Len(ep.ring) + Len(d) + ep.pktcnt <= ep.nr /\ ep.nr = RxNr /\ ~ep.stup
  BY DEF OtgEp, TransferInv
<1> HIDE DEF r, h
<1>8. Len(r.ring) + Len(e) + r.pktcnt <= r.nr
  <2>1. Len(r.ring) = Len(ep.ring) /\ r.pktcnt = n /\ r.nr = ep.nr /\ Len(e) = Len(d) + 1
    BY <1>1, <1>3
  <2>2. \A a, b, c, m \in Nat : a + b + c <= m /\ n < c => a + (b + 1) + n <= m
    OBVIOUS
  <2>3. Len(ep.ring) + (Len(d) + 1) + n <= ep.nr
    BY <1>3, <1>7, <2>2
  <2>4. QED
    BY <2>1, <2>3
<1>9. TransferInv(r, g, e)
  BY <1>1, <1>2, <1>4, <1>5, <1>7, <1>8 DEF TransferInv
<1>10. n = 0 => TransferInv(r, h, e)
  BY <1>1, <1>2, <1>6, <1>7, <1>8 DEF TransferInv
<1>11. QED
  BY <1>1, <1>3, <1>7, <1>9, <1>10 DEF r, g, e, h

\* handle_oepint() ends the transfer and begins another if it may.
LEMMA TransferEnded ==
  ASSUME NEW ep \in OtgEp, NEW f \in Seq(Entry), NEW d \in Seq(Item),
         TransferInv(ep, f, d)
  PROVE  LET r == dwc_otg!handle_oepint("ep2", ep)
         IN r \in OtgEp /\ TransferInv(r, f, d) /\ r.ring = ep.ring
<1> DEFINE done == [ep EXCEPT !.xfrc = FALSE, !.stup = FALSE, !.active = FALSE]
           r == dwc_otg!handle_oepint("ep2", ep)
           s == dwc_otg!prepare_rx(done)
<1>1. ~ep.stup
  BY DEF TransferInv
<1>2. CASE ~ep.xfrc
  <2>1. r = ep
    BY <1>1, <1>2 DEF dwc_otg!handle_oepint
  <2>2. QED
    BY <2>1
<1>3. CASE ep.xfrc
  <2>1. r = s
    BY <1>3 DEF dwc_otg!handle_oepint
  <2>2. /\ done \in OtgEp /\ done.ring = ep.ring /\ done.nr = ep.nr /\ ~done.xfrc
        /\ ~done.stup /\ ~done.active /\ done.pktcnt = ep.pktcnt
    BY DEF OtgEp
  <2> HIDE DEF done
  <2>3. /\ s \in OtgEp /\ s.ring = ep.ring /\ s.nr = ep.nr /\ ~s.xfrc /\ ~s.stup
        /\ s = done \/ (s.active /\ Len(ep.ring) + s.pktcnt = ep.nr)
    BY <2>2, Prepared
  <2> HIDE DEF s
  <2>4. Absent(f, "ep2") /\ d = <<>> /\ ep.pktcnt = 0
    <3>1. Absent(f, "ep2") /\ Matched(f, d) /\ ~(ep.pktcnt > 0)
      BY <1>3 DEF TransferInv
    <3>2. QED
      BY <3>1, MatchedNone DEF OtgEp
  <2>5. NoEnd(f)
    BY <2>4, Entries DEF Absent, NoEnd
  <2>6. /\ Len(ep.ring) \in Nat /\ Len(d) = 0 /\ s.pktcnt \in Nat
        /\ ep.nr = RxNr /\ Matched(f, d) /\ EndIsLast(f)
        /\ Len(ep.ring) + Len(d) + ep.pktcnt <= ep.nr /\ ep.nr \in Nat
    BY <2>3, <2>4 DEF OtgEp, TransferInv
  <2>7. Len(s.ring) + Len(d) + s.pktcnt <= s.nr /\ (s.pktcnt > 0 => s.active)
    BY <2>2, <2>3, <2>4, <2>6
  <2>8. TransferInv(s, f, d)
    BY <2>3, <2>4, <2>5, <2>6, <2>7 DEF TransferInv
  <2>9. QED
    BY <2>1, <2>3, <2>8
<1>4. QED
  BY <1>2, <1>3

\* usb_read() takes a packet from the ring.
LEMMA TransferRead ==
  ASSUME NEW ep \in OtgEp, NEW f \in Seq(Entry), NEW d \in Seq(Item),
         TransferInv(ep, f, d), ep.ring # <<>>
  PROVE  LET r == dwc_otg!usb_read(ep)
         IN r \in OtgEp /\ TransferInv(r, f, d) /\ r.ring = Tail(ep.ring)
<1> DEFINE q == Tail(ep.ring)
           t == [ep EXCEPT !.ring = q]
           r == dwc_otg!prepare_rx(t)
<1>1. dwc_otg!usb_read(ep) = r
  BY DEF dwc_otg!usb_read
<1>2. q \in Seq(Item) /\ Len(q) = Len(ep.ring) - 1 /\ Len(ep.ring) \in Nat /\ Len(q) \in Nat
  BY Uncons DEF OtgEp
<1> HIDE DEF q
<1>3. /\ t \in OtgEp /\ t.ring = q /\ t.nr = ep.nr /\ (t.active <=> ep.active)
      /\ t.pktcnt = ep.pktcnt /\ (t.xfrc <=> ep.xfrc) /\ (t.stup <=> ep.stup)
  BY <1>2 DEF OtgEp
<1> HIDE DEF t
<1>4. /\ r \in OtgEp /\ r.ring = q /\ r.nr = ep.nr /\ (r.xfrc <=> ep.xfrc)
      /\ (r.stup <=> ep.stup)
      /\ r = t \/ (~ep.active /\ r.active /\ Len(q) + r.pktcnt = ep.nr)
  BY <1>3, Prepared
<1> HIDE DEF r
<1>5. /\ ep.nr = RxNr /\ ~ep.stup /\ Matched(f, d) /\ EndIsLast(f) /\ Len(d) \in Nat
      /\ Len(ep.ring) + Len(d) + ep.pktcnt <= ep.nr /\ ep.pktcnt \in Nat /\ ep.nr \in Nat
      /\ ep.pktcnt > 0 => ep.active /\ ~ep.xfrc /\ NoEnd(f)
      /\ ep.xfrc => ep.active /\ Absent(f, "ep2")
      /\ ~ep.active => Absent(f, "ep2")
  BY DEF TransferInv, OtgEp
<1>6. CASE r = t
  <2>1. Len(r.ring) + Len(d) + r.pktcnt <= r.nr
    BY <1>2, <1>3, <1>4, <1>5, <1>6
  <2>2. TransferInv(r, f, d)
    BY <1>3, <1>4, <1>5, <1>6, <2>1 DEF TransferInv
  <2>3. QED
    BY <1>1, <1>4, <2>2 DEF q
<1>7. CASE ~ep.active /\ r.active /\ Len(q) + r.pktcnt = ep.nr
  <2>1. Absent(f, "ep2") /\ d = <<>> /\ ~ep.xfrc
    BY <1>5, <1>7, MatchedNone
  <2>2. NoEnd(f)
    BY <2>1, Entries DEF Absent, NoEnd
  <2>3. Len(d) = 0
    BY <2>1
  <2>4. Len(r.ring) + Len(d) + r.pktcnt <= r.nr
    <3>1. r.pktcnt \in Nat
      BY <1>4 DEF OtgEp
    <3>2. QED
      BY <1>2, <1>4, <1>5, <1>7, <2>3, <3>1
  <2>5. TransferInv(r, f, d)
    BY <1>4, <1>5, <1>7, <2>1, <2>2, <2>4 DEF TransferInv
  <2>6. QED
    BY <1>1, <1>4, <2>5 DEF q
<1>8. QED
  BY <1>4, <1>6, <1>7

\* handle_rx_transfer() pops an entry of EP_RX.
LEMMA TransferPopped ==
  ASSUME NEW ep \in OtgEp, NEW f \in Seq(Entry), NEW d \in Seq(Item),
         TransferInv(ep, f, d), f # <<>>
  PROVE  LET r == [ep EXCEPT !.ring = Append(@, Head(d))]
             s == [ep EXCEPT !.xfrc = TRUE]
         IN /\ Head(f)[2] = "ep2" => ep.active
            /\ Head(f) = DataEntry =>
                 /\ d # <<>> /\ Len(ep.ring) < ep.nr
                 /\ r \in OtgEp /\ TransferInv(r, Tail(f), Tail(d))
                 /\ r.ring = Append(ep.ring, Head(d))
            /\ Head(f) = EndEntry =>
                 s \in OtgEp /\ TransferInv(s, Tail(f), d) /\ s.ring = ep.ring
            /\ Head(f)[2] # "ep2" => TransferInv(ep, Tail(f), d)
<1> DEFINE g == Tail(f)
           x == Head(f)
<1>1. /\ ep.nr = RxNr /\ ~ep.stup /\ Matched(f, d) /\ EndIsLast(f) /\ Len(d) \in Nat
      /\ Len(ep.ring) + Len(d) + ep.pktcnt <= ep.nr /\ ep.pktcnt \in Nat /\ ep.nr \in Nat
      /\ ep.ring \in Seq(Item) /\ Len(ep.ring) \in Nat
      /\ ep.pktcnt > 0 => ep.active /\ ~ep.xfrc /\ NoEnd(f)
      /\ ep.xfrc => ep.active /\ Absent(f, "ep2")
      /\ ~ep.active => Absent(f, "ep2")
  BY DEF TransferInv, OtgEp
<1>2. /\ \A e : Absent(f, e) => Absent(g, e) /\ x[2] # e
      /\ EndIsLast(g)
      /\ NoEnd(f) => NoEnd(g) /\ x # EndEntry
      /\ x = EndEntry => Absent(g, "ep2")
  BY <1>1, Rest
<1>3. x = DataEntry => d # <<>> /\ Matched(g, Tail(d))
  BY <1>1, MatchedPopped
<1>4. x # DataEntry => Matched(g, d)
  BY <1>1, MatchedRest
<1> HIDE DEF g, x
<1>5. x[2] = "ep2" => ep.active /\ ~ep.xfrc
  BY <1>1, <1>2
<1>6. ASSUME x = DataEntry
      PROVE  LET r == [ep EXCEPT !.ring = Append(@, Head(d))]
             IN /\ d # <<>> /\ Len(ep.ring) < ep.nr
                /\ r \in OtgEp /\ TransferInv(r, g, Tail(d))
                /\ r.ring = Append(ep.ring, Head(d))
  <2> DEFINE h == Head(d)
             q == Append(ep.ring, h)
             r == [ep EXCEPT !.ring = q]
             e == Tail(d)
  <2>1. d # <<>> /\ Matched(g, e)
    BY <1>3, <1>6
  <2>2. h \in Item /\ Len(e) = Len(d) - 1 /\ Len(d) >= 1
    BY <2>1, Uncons, Popped
  <2> HIDE DEF h, e
  <2>3. q \in Seq(Item) /\ Len(q) = Len(ep.ring) + 1
    BY <1>1, <2>2, Append1
  <2> HIDE DEF q
  <2>4. /\ r \in OtgEp /\ r.ring = q /\ r.nr = ep.nr /\ (r.active <=> ep.active)
        /\ r.pktcnt = ep.pktcnt /\ (r.xfrc <=> ep.xfrc) /\ (r.stup <=> ep.stup)
    BY <2>3 DEF OtgEp
  <2>5. r = [ep EXCEPT !.ring = Append(@, h)]
    BY DEF q, OtgEp
  <2> HIDE DEF r
  <2>6. Len(r.ring) + Len(e) + r.pktcnt <= r.nr /\ Len(ep.ring) < ep.nr
    BY <1>1, <2>2, <2>3, <2>4
  <2>7. ep.active /\ ~ep.xfrc
    BY <1>5, <1>6, Entries
  <2>8. TransferInv(r, g, e)
    BY <1>1, <1>2, <2>1, <2>4, <2>6, <2>7 DEF TransferInv
  <2>9. QED
    BY <2>1, <2>4, <2>5, <2>6, <2>8 DEF h, q, e
<1>7. ASSUME x = EndEntry
      PROVE  LET s == [ep EXCEPT !.xfrc = TRUE]
             IN s \in OtgEp /\ TransferInv(s, g, d) /\ s.ring = ep.ring
  <2> DEFINE s == [ep EXCEPT !.xfrc = TRUE]
  <2>1. /\ s \in OtgEp /\ s.ring = ep.ring /\ s.nr = ep.nr /\ (s.active <=> ep.active)
        /\ s.pktcnt = ep.pktcnt /\ s.xfrc /\ (s.stup <=> ep.stup)
    BY DEF OtgEp
  <2> HIDE DEF s
  <2>2. ep.active /\ ~(ep.pktcnt > 0) /\ Absent(g, "ep2") /\ Matched(g, d)
    BY <1>1, <1>2, <1>4, <1>5, <1>7, Entries
  <2>3. TransferInv(s, g, d)
    BY <1>1, <1>2, <2>1, <2>2 DEF TransferInv
  <2>4. QED
    BY <2>1, <2>3 DEF s
<1>8. ASSUME x[2] # "ep2" PROVE TransferInv(ep, g, d)
  <2>1. Matched(g, d)
    BY <1>4, <1>8, Entries
  <2>2. QED
    BY <1>1, <1>2, <2>1 DEF TransferInv
<1>9. QED
  BY <1>5, <1>6, <1>7, <1>8 DEF g, x

\* An entry that is not this endpoint's.
LEMMA TransferIgnores ==
  ASSUME NEW ep \in OtgEp, NEW f \in Seq(Entry), NEW d \in Seq(Item), NEW x \in Entry,
         TransferInv(ep, f, d), x[2] # "ep2"
  PROVE  TransferInv(ep, Append(f, x), d)
<1>1. x # DataEntry /\ x # EndEntry
  BY Entries
<1>2. Matched(f, d) => Matched(Append(f, x), d)
  BY <1>1, MatchedAppended
<1>3. /\ EndIsLast(f) => EndIsLast(Append(f, x))
      /\ NoEnd(f) => NoEnd(Append(f, x))
  BY <1>1, EndAppended
<1>4. Absent(f, "ep2") => Absent(Append(f, x), "ep2")
  BY AbsentAppended
<1>5. QED
  BY <1>2, <1>3, <1>4 DEF TransferInv

\* What comes for EP_RX does not concern endpoint 0.
LEMMA ControlIgnores ==
  ASSUME NEW ep, NEW f \in Seq(Entry), NEW x \in Entry, ControlRx(ep, f), x[2] # "ep0"
  PROVE  ControlRx(ep, Append(f, x))
BY PairedAppended DEF ControlRx

\* A packet comes for endpoint 0, whatever it is doing.
LEMMA ControlArrives ==
  ASSUME NEW ep, NEW f \in Seq(Entry), NEW x \in ControlEnd, ControlRx(ep, f)
  PROVE  ControlRx(ep, Append(Append(f, ControlData), x))
BY PairedArrives DEF ControlRx

\* A queue of one packet.
LEMMA OnlyOne ==
  ASSUME NEW S, NEW q \in Seq(S), q # <<>>, Len(q) <= 1
  PROVE  Tail(q) = <<>> /\ Tail(q) \in Seq(S)
OBVIOUS

\* handle_oepint() reads what has been received, and makes room for the next.
LEMMA ControlHandled ==
  ASSUME NEW ep \in OtgEp, NEW f \in Seq(Entry), ControlRx(ep, f)
  PROVE  LET r == dwc_otg!handle_oepint("ep0", ep)
         IN r \in OtgEp /\ ControlRx(r, f) /\ ~r.xfrc /\ ~r.stup
<1> DEFINE done == [ep EXCEPT !.xfrc = FALSE, !.stup = FALSE, !.active = FALSE]
           q == Tail(done.ring)
           t == [done EXCEPT !.ring = q]
           r == dwc_otg!handle_oepint("ep0", ep)
           s == dwc_otg!prepare_rx(t)
           u == dwc_otg!prepare_rx(s)
<1>1. ep.nr = 1 /\ Len(ep.ring) <= 1 /\ ep.ring \in Seq(Item)
  BY DEF ControlRx, OtgEp
<1>2. CASE ~(ep.xfrc \/ ep.stup)
  <2>1. r = ep
    BY <1>2 DEF dwc_otg!handle_oepint
  <2>2. QED
    BY <1>2, <2>1
<1>3. CASE ep.xfrc \/ ep.stup
  <2>1. r = u
    BY <1>3 DEF dwc_otg!handle_oepint, dwc_otg!usb_read
  <2>2. /\ done \in OtgEp /\ done.ring = ep.ring /\ done.nr = 1 /\ ~done.xfrc /\ ~done.stup
    BY <1>1 DEF OtgEp
  <2> HIDE DEF done
  <2>3. ep.ring # <<>> /\ ~EndFirst(f) /\ Paired(f)
    BY <1>3 DEF ControlRx
  <2>4. q = <<>> /\ q \in Seq(Item)
    <3>1. Tail(ep.ring) = <<>> /\ Tail(ep.ring) \in Seq(Item)
      BY <1>1, <2>3, OnlyOne
    <3>2. QED
      BY <2>2, <3>1
  <2> HIDE DEF q
  <2>5. t \in OtgEp /\ t.ring = <<>> /\ t.nr = 1 /\ ~t.xfrc /\ ~t.stup
    BY <2>2, <2>4 DEF OtgEp
  <2> HIDE DEF t
  <2>6. s \in OtgEp /\ s.ring = <<>> /\ s.nr = 1 /\ ~s.xfrc /\ ~s.stup
    BY <2>5, Prepared
  <2> HIDE DEF s
  <2>7. u \in OtgEp /\ u.ring = <<>> /\ u.nr = 1 /\ ~u.xfrc /\ ~u.stup /\ u.active
    BY <2>6, Prepared
  <2> HIDE DEF u
  <2>8. Len(u.ring) <= 1
    BY <2>7
  <2>9. ControlRx(u, f)
    BY <2>3, <2>7, <2>8 DEF ControlRx
  <2>10. QED
    BY <2>1, <2>7, <2>9
<1>4. QED
  BY <1>2, <1>3

\* handle_rx_transfer() pops an entry of endpoint 0.
LEMMA ControlPopped ==
  ASSUME NEW ep \in OtgEp, NEW f \in Seq(Entry), ControlRx(ep, f), f # <<>>,
         ~ep.xfrc, ~ep.stup
  PROVE  LET r == [ep EXCEPT !.ring = Append(@, None)]
             s == [ep EXCEPT !.stup = TRUE]
             t == [ep EXCEPT !.xfrc = TRUE]
         IN /\ ep.active
            /\ Head(f) = ControlData =>
                 /\ Len(ep.ring) < ep.nr /\ r \in OtgEp /\ ControlRx(r, Tail(f))
            /\ Head(f) = SetupEnd => s \in OtgEp /\ ControlRx(s, Tail(f))
            /\ Head(f) = OutEnd => t \in OtgEp /\ ControlRx(t, Tail(f))
            /\ Head(f)[2] # "ep0" => ControlRx(ep, Tail(f))
<1> DEFINE g == Tail(f)
           x == Head(f)
<1>1. /\ ep.active /\ ep.nr = 1 /\ Len(ep.ring) <= 1 /\ ep.ring \in Seq(Item)
      /\ EndFirst(f) <=> ep.ring # <<>>
  BY DEF ControlRx, OtgEp
<1>2. /\ Paired(g) /\ (EndFirst(f) <=> x \in ControlEnd)
      /\ EndFirst(g) <=> x = ControlData
  BY PairedRest DEF ControlRx
<1> HIDE DEF g, x
<1>3. ASSUME x = ControlData
      PROVE  LET r == [ep EXCEPT !.ring = Append(@, None)]
             IN Len(ep.ring) < ep.nr /\ r \in OtgEp /\ ControlRx(r, g)
  <2> DEFINE q == Append(ep.ring, None)
             r == [ep EXCEPT !.ring = q]
  <2>1. ep.ring = <<>> /\ EndFirst(g)
    BY <1>1, <1>2, <1>3, Entries
  <2>2. Len(ep.ring) = 0
    BY <2>1
  <2>3. q \in Seq(Item) /\ Len(q) = 1 /\ q # <<>>
    <3>1. None \in Item
      BY DEF Item
    <3>2. QED
      BY <1>1, <2>2, <3>1, Appended
  <2> HIDE DEF q
  <2>4. /\ r \in OtgEp /\ r.ring = q /\ r.nr = 1 /\ r.active /\ ~r.xfrc /\ ~r.stup
    BY <1>1, <2>1, <2>3 DEF OtgEp
  <2>5. r = [ep EXCEPT !.ring = Append(@, None)]
    BY DEF q, OtgEp
  <2> HIDE DEF r
  <2>6. ControlRx(r, g)
    <3>1. r.ring = q
      BY <2>4
    <3>2. Len(r.ring) = 1 /\ r.ring # <<>>
      BY <2>3, <3>1
    <3>3. QED
      BY <1>2, <2>1, <2>4, <3>2 DEF ControlRx
  <2>7. QED
    BY <1>1, <2>2, <2>4, <2>5, <2>6
<1>4. ASSUME x \in ControlEnd
      PROVE  LET s == [ep EXCEPT !.stup = TRUE]
                 t == [ep EXCEPT !.xfrc = TRUE]
             IN s \in OtgEp /\ ControlRx(s, g) /\ t \in OtgEp /\ ControlRx(t, g)
  <2> DEFINE s == [ep EXCEPT !.stup = TRUE]
             t == [ep EXCEPT !.xfrc = TRUE]
  <2>1. ep.ring # <<>> /\ ~EndFirst(g)
    BY <1>1, <1>2, <1>4, Entries
  <2>2. /\ s \in OtgEp /\ s.ring = ep.ring /\ s.nr = 1 /\ s.active /\ s.stup
        /\ t \in OtgEp /\ t.ring = ep.ring /\ t.nr = 1 /\ t.active /\ t.xfrc
    BY <1>1 DEF OtgEp
  <2> HIDE DEF s, t
  <2>3. ControlRx(s, g) /\ ControlRx(t, g)
    BY <1>1, <1>2, <2>1, <2>2 DEF ControlRx
  <2>4. QED
    BY <2>2, <2>3 DEF s, t
<1>5. ASSUME x[2] # "ep0" PROVE ControlRx(ep, g)
  <2>1. x # ControlData /\ x \notin ControlEnd
    BY <1>5, Entries
  <2>2. QED
    BY <1>1, <1>2, <2>1 DEF ControlRx
<1>6. QED
  BY <1>1, <1>3, <1>4, <1>5 DEF g, x, ControlEnd

-----------------------------------------------------------------------------

OtgEps == {"ep0", "ep2"}

\* The rings are those of the two endpoints.
LEMMA OtgRings == dwc_otg!Rings = OtgEps
BY DEF dwc_otg!Rings, OtgEps

\* A step keeps the invariant when it keeps the parts, in whichever phase it
\* leaves the device.
LEMMA OtgRuns ==
  ASSUME rx' \in OtgRx, OneSent(tx'), main' \in {"usb", "app"}
  PROVE  /\ /\ aux' = {} /\ ControlRx(rx'.ep["ep0"], rx'.fifo)
            /\ TransferInv(rx'.ep["ep2"], rx'.fifo, rx'.data)
            => OtgInv'
         /\ /\ aux' = {"USBRST"} /\ ControlRx(rx'.ep["ep0"], rx'.fifo)
            /\ rx'.fifo = <<>> /\ rx'.data = <<>>
            /\ \/ TransferInv(rx'.ep["ep2"], rx'.fifo, rx'.data)
               \/ Unused(rx'.ep["ep2"], rx'.fifo, rx'.data)
            => OtgInv'
         /\ /\ aux' = {"reset"} /\ tx' = dwc_otg!TxCleared /\ rx'.fifo = <<>>
            /\ rx'.ep["ep0"] = dwc_otg!Cleared /\ Unused(rx'.ep["ep2"], rx'.fifo, rx'.data)
            => OtgInv'
         /\ /\ aux' = {"ENUMDNE"} /\ tx' = dwc_otg!TxCleared
            /\ rx'.ep["ep0"] = dwc_otg!Cleared
            /\ ControlRx(dwc_otg!Configured("ep0"), rx'.fifo)
            /\ Unused(rx'.ep["ep2"], rx'.fifo, rx'.data)
            => OtgInv'
         /\ /\ aux' = {"unconfigured"} /\ tx' = dwc_otg!TxCleared
            /\ ControlRx(rx'.ep["ep0"], rx'.fifo)
            /\ Unused(rx'.ep["ep2"], rx'.fifo, rx'.data)
            => OtgInv'
<1>1. ASSUME aux' = {}, ControlRx(rx'.ep["ep0"], rx'.fifo),
             TransferInv(rx'.ep["ep2"], rx'.fifo, rx'.data)
      PROVE  OtgInv'
  <2>1. aux' # {"USBRST"} /\ aux' \notin {{"reset"}, {"ENUMDNE"}, {"unconfigured"}}
    BY <1>1
  <2>2. QED
    BY <1>1, <2>1 DEF OtgInv, Phases
<1>2. ASSUME aux' = {"USBRST"}, ControlRx(rx'.ep["ep0"], rx'.fifo),
             rx'.fifo = <<>>, rx'.data = <<>>,
             \/ TransferInv(rx'.ep["ep2"], rx'.fifo, rx'.data)
             \/ Unused(rx'.ep["ep2"], rx'.fifo, rx'.data)
      PROVE  OtgInv'
  <2>1. aux' # {} /\ aux' \notin {{"reset"}, {"ENUMDNE"}, {"unconfigured"}}
    BY <1>2
  <2>2. QED
    BY <1>2, <2>1 DEF OtgInv, Phases
<1>3. ASSUME aux' = {"reset"}, tx' = dwc_otg!TxCleared, rx'.fifo = <<>>,
             rx'.ep["ep0"] = dwc_otg!Cleared, Unused(rx'.ep["ep2"], rx'.fifo, rx'.data)
      PROVE  OtgInv'
  <2>1. aux' # {} /\ aux' # {"USBRST"} /\ aux' # {"ENUMDNE"} /\ aux' # {"unconfigured"}
    BY <1>3
  <2>2. QED
    BY <1>3, <2>1 DEF OtgInv, Phases, Enumerating
<1>4. ASSUME aux' = {"ENUMDNE"}, tx' = dwc_otg!TxCleared,
             rx'.ep["ep0"] = dwc_otg!Cleared,
             ControlRx(dwc_otg!Configured("ep0"), rx'.fifo),
             Unused(rx'.ep["ep2"], rx'.fifo, rx'.data)
      PROVE  OtgInv'
  <2>1. aux' # {} /\ aux' # {"USBRST"} /\ aux' # {"reset"} /\ aux' # {"unconfigured"}
    BY <1>4
  <2>2. QED
    BY <1>4, <2>1 DEF OtgInv, Phases, Enumerating
<1>5. ASSUME aux' = {"unconfigured"}, tx' = dwc_otg!TxCleared,
             ControlRx(rx'.ep["ep0"], rx'.fifo),
             Unused(rx'.ep["ep2"], rx'.fifo, rx'.data)
      PROVE  OtgInv'
  <2>1. /\ aux' # {} /\ aux' # {"USBRST"} /\ aux' # {"reset"} /\ aux' # {"ENUMDNE"}
        /\ aux' \notin {{"reset"}, {"ENUMDNE"}}
    BY <1>5
  <2>2. QED
    BY <1>5, <2>1 DEF OtgInv, Phases, Enumerating
<1>6. QED
  BY <1>1, <1>2, <1>3, <1>4, <1>5

\* The parts of the state.
LEMMA OtgParts ==
  ASSUME rx \in OtgRx
  PROVE  /\ rx.ep \in [OtgEps -> OtgEp] /\ rx.ep["ep0"] \in OtgEp /\ rx.ep["ep2"] \in OtgEp
         /\ rx.fifo \in Seq(Entry) /\ rx.data \in Seq(Item)
         /\ rx.ep["ep2"].ring \in Seq(Item) /\ rx.ep["ep0"].ring \in Seq(Item)
BY DEF OtgRx, OtgEps, OtgEp

\* What the invariant says in each phase.
LEMMA OtgPhases ==
  ASSUME OtgInv
  PROVE  /\ rx \in OtgRx /\ OneSent(tx) /\ main \in {"usb", "app"}
         /\ \/ aux = {} \/ aux = {"USBRST"} \/ aux = {"reset"}
            \/ aux = {"ENUMDNE"} \/ aux = {"unconfigured"}
         /\ aux = {} => /\ ControlRx(rx.ep["ep0"], rx.fifo)
                        /\ TransferInv(rx.ep["ep2"], rx.fifo, rx.data)
         /\ aux = {"USBRST"} => /\ ControlRx(rx.ep["ep0"], rx.fifo)
                                /\ rx.fifo = <<>> /\ rx.data = <<>>
                                /\ \/ TransferInv(rx.ep["ep2"], rx.fifo, rx.data)
                                   \/ Unused(rx.ep["ep2"], rx.fifo, rx.data)
         /\ aux = {"reset"} => rx.fifo = <<>> /\ rx.ep["ep0"] = dwc_otg!Cleared
         /\ aux = {"ENUMDNE"} => /\ rx.ep["ep0"] = dwc_otg!Cleared
                                 /\ ControlRx(dwc_otg!Configured("ep0"), rx.fifo)
         /\ aux = {"unconfigured"} => ControlRx(rx.ep["ep0"], rx.fifo)
         /\ aux \in {{"reset"}, {"ENUMDNE"}, {"unconfigured"}} =>
              tx = dwc_otg!TxCleared /\ Unused(rx.ep["ep2"], rx.fifo, rx.data)
BY DEF OtgInv, Phases, Enumerating

\* What a step does to the two queues.
OtgMoves == /\ Moves(dwc_otg!RxQueue, dwc_otg!RxQueue', got', fresh')
            /\ Moves(dwc_otg!TxQueue, dwc_otg!TxQueue', sent', fresh')

\* A packet for EP_RX comes to the FIFO.
LEMMA OtgHostOut ==
  ASSUME OtgInv, NEW p \in Packets, NEW short \in BOOLEAN, dwc_otg!HostOut(p, short)
  PROVE  OtgInv' /\ OtgMoves
<1> DEFINE ep == rx.ep["ep2"]
           last == short \/ ep.pktcnt = 1
           n == IF last THEN 0 ELSE ep.pktcnt - 1
           r == [ep EXCEPT !.pktcnt = n]
           d == Append(rx.data, p)
           g == Append(rx.fifo, DataEntry)
           h == IF last THEN Append(g, EndEntry) ELSE g
           eps == [rx.ep EXCEPT !["ep2"] = r]
<1>1. /\ aux = {} /\ aux' = {} /\ tx' = tx /\ main' = main /\ ep.pktcnt > 0
      /\ got' = None /\ sent' = None /\ fresh' = FALSE
  BY DEF dwc_otg!HostOut, dwc_otg!Quiet
<1>2. /\ rx \in OtgRx /\ OneSent(tx) /\ main \in {"usb", "app"} /\ p \in Item
      /\ ControlRx(rx.ep["ep0"], rx.fifo) /\ TransferInv(ep, rx.fifo, rx.data)
  BY <1>1, OtgPhases DEF Item
<1>3. /\ rx.ep \in [OtgEps -> OtgEp] /\ ep \in OtgEp /\ rx.ep["ep0"] \in OtgEp
      /\ rx.fifo \in Seq(Entry) /\ rx.data \in Seq(Item) /\ ep.ring \in Seq(Item)
  BY <1>2, OtgParts
<1>4. n \in Nat /\ n < ep.pktcnt /\ (last => n = 0)
  <2>1. ep.pktcnt \in Nat
    BY <1>3 DEF OtgEp
  <2>2. QED
    BY <1>1, <2>1
<1>5. g \in Seq(Entry) /\ h \in Seq(Entry) /\ d \in Seq(Item)
  BY <1>2, <1>3, Entries, Append1
<1>6. rx' = [rx EXCEPT !.ep = eps, !.data = d, !.fifo = h]
  <2> DEFINE more == IF last THEN <<EndEntry>> ELSE <<>>
  <2>1. rx' = [rx EXCEPT !.ep["ep2"].pktcnt = n, !.data = d,
                         !.fifo = rx.fifo \o <<DataEntry>> \o more]
    BY <1>3 DEF dwc_otg!HostOut, DataEntry, EndEntry, OtgEp, OtgEps
  <2>2. rx.fifo \o <<DataEntry>> \o more = h
    <3>1. g = rx.fifo \o <<DataEntry>>
      BY <1>3, Entries, Append1
    <3>2. Append(g, EndEntry) = g \o <<EndEntry>> /\ g \o <<>> = g
      BY <1>5, Entries, Append1, Empty2
    <3>3. QED
      BY <3>1, <3>2
  <2> HIDE DEF n, d, more, h
  <2>3. QED
    BY <2>1, <2>2
<1>7. /\ r \in OtgEp /\ r.ring = ep.ring /\ TransferInv(r, h, d)
      /\ Len(ep.ring) + Len(rx.data) < RxNr
  <2> HIDE DEF n
  <2>1. /\ r \in OtgEp /\ TransferInv(r, g, d)
        /\ n = 0 => TransferInv(r, Append(g, EndEntry), d)
        /\ r.ring = ep.ring /\ Len(ep.ring) + Len(rx.data) < RxNr
    BY <1>1, <1>2, <1>3, <1>4, TransferReceives
  <2>2. QED
    BY <1>4, <2>1
<1>8. ControlRx(rx.ep["ep0"], h)
  <2>1. ControlRx(rx.ep["ep0"], g)
    BY <1>2, <1>3, Entries, ControlIgnores
  <2>2. ControlRx(rx.ep["ep0"], Append(g, EndEntry))
    BY <1>5, <2>1, Entries, ControlIgnores
  <2>3. QED
    BY <2>1, <2>2
<1> HIDE DEF ep, r, d, g, h, n
<1>9. eps \in [OtgEps -> OtgEp] /\ eps["ep0"] = rx.ep["ep0"] /\ eps["ep2"] = r
  BY <1>3, <1>7 DEF OtgEps
<1> HIDE DEF eps
<1>10. /\ rx' \in OtgRx /\ rx'.ep["ep0"] = rx.ep["ep0"] /\ rx'.ep["ep2"] = r
       /\ rx'.fifo = h /\ rx'.data = d
  BY <1>2, <1>5, <1>6, <1>9 DEF OtgRx, OtgEps
<1>11. OtgInv'
  BY <1>1, <1>2, <1>7, <1>8, <1>10, OtgRuns
<1>12. dwc_otg!RxQueue = ep.ring \o rx.data /\ dwc_otg!RxQueue' = ep.ring \o d
  BY <1>1, <1>7, <1>10 DEF dwc_otg!RxQueue, ep
<1>13. /\ ep.ring \o d = Append(ep.ring \o rx.data, p)
       /\ Len(ep.ring \o rx.data) = Len(ep.ring) + Len(rx.data)
       /\ Len(ep.ring) \in Nat /\ Len(rx.data) \in Nat
  <2>1. ep.ring \o d = Append(ep.ring \o rx.data, p)
    <3>1. ep.ring \in Seq(Item) /\ rx.data \in Seq(Item) /\ p \in Item
      BY <1>2, <1>3
    <3>2. QED
      <4>1. \A q, t \in Seq(Item) : q \o Append(t, p) = Append(q \o t, p)
        BY <3>1, Append2
      <4>2. QED
        BY <3>1, <4>1 DEF d
  <2>2. /\ Len(ep.ring \o rx.data) = Len(ep.ring) + Len(rx.data)
        /\ Len(ep.ring) \in Nat /\ Len(rx.data) \in Nat
    BY <1>3
  <2>3. QED
    BY <2>1, <2>2
<1>14. Len(dwc_otg!RxQueue) < Capacity
  <2>1. Capacity \in Nat /\ RxNr \in Nat /\ RxNr <= Capacity
    BY UsbAssumption
  <2>2. Len(dwc_otg!RxQueue) = Len(ep.ring) + Len(rx.data)
    BY <1>12, <1>13
  <2>3. \A a, b, c, e \in Nat : a + b < c /\ c <= e => a + b < e
    OBVIOUS
  <2>4. QED
    BY <1>7, <1>13, <2>1, <2>2, <2>3
<1>15. Moves(dwc_otg!RxQueue, dwc_otg!RxQueue', got', fresh')
  BY <1>1, <1>12, <1>13, <1>14 DEF Moves
<1>16. dwc_otg!TxQueue' = dwc_otg!TxQueue
  BY <1>1 DEF dwc_otg!TxQueue
<1>17. QED
  BY <1>1, <1>11, <1>15, <1>16, NothingMoves DEF OtgMoves

\* A packet comes for endpoint 0 with its end, be it a SETUP packet, data or
\* status.
LEMMA OtgHostControl ==
  ASSUME OtgInv, dwc_otg!HostSetup \/ dwc_otg!HostControlOut
  PROVE  OtgInv' /\ OtgMoves
<1>1. PICK x \in ControlEnd :
        /\ aux # {"USBRST"} /\ aux # {"reset"}
        /\ aux' = aux /\ tx' = tx /\ main' = main
        /\ got' = None /\ sent' = None /\ fresh' = FALSE
        /\ rx' = [rx EXCEPT !.ep["ep0"].pktcnt = 0,
                            !.fifo = Append(Append(@, ControlData), x)]
  <2>1. SetupEnd \in ControlEnd /\ OutEnd \in ControlEnd
    BY DEF ControlEnd
  <2>2. CASE dwc_otg!HostSetup
    BY <2>1, <2>2 DEF dwc_otg!HostSetup, dwc_otg!HostControl, dwc_otg!BusLive,
                      dwc_otg!Quiet, ControlData, SetupEnd
  <2>3. CASE dwc_otg!HostControlOut
    BY <2>1, <2>3 DEF dwc_otg!HostControlOut, dwc_otg!HostControl, dwc_otg!BusLive,
                      dwc_otg!Quiet, ControlData, OutEnd
  <2>4. QED
    BY <2>2, <2>3
<1> DEFINE ep == rx.ep["ep0"]
           a == [ep EXCEPT !.pktcnt = 0]
           b == rx.ep["ep2"]
           g == Append(rx.fifo, ControlData)
           h == Append(g, x)
           eps == [rx.ep EXCEPT !["ep0"] = a]
<1>2. rx \in OtgRx /\ OneSent(tx) /\ main \in {"usb", "app"}
  BY OtgPhases
<1>3. /\ rx.ep \in [OtgEps -> OtgEp] /\ ep \in OtgEp /\ b \in OtgEp
      /\ rx.fifo \in Seq(Entry) /\ rx.data \in Seq(Item)
  BY <1>2, OtgParts
<1>4. g \in Seq(Entry) /\ h \in Seq(Entry)
  BY <1>3, Entries, Append1
<1>5. rx' = [rx EXCEPT !.ep = eps, !.fifo = h]
  BY <1>1, <1>2 DEF OtgRx
<1>6. ASSUME NEW e, ControlRx(e, rx.fifo) PROVE ControlRx(e, h)
  BY <1>3, <1>6, ControlArrives
<1>7. a \in OtgEp /\ (ControlRx(ep, h) => ControlRx(a, h))
  BY <1>3, Stopped
<1>8. ep = dwc_otg!Cleared => a = dwc_otg!Cleared
  BY OtgConfigured
<1>9. ASSUME TransferInv(b, rx.fifo, rx.data) PROVE TransferInv(b, h, rx.data)
  <2>1. TransferInv(b, g, rx.data)
    BY <1>3, <1>9, Entries, TransferIgnores
  <2> HIDE DEF g
  <2>2. x \in Entry /\ x[2] # "ep2"
    BY Entries
  <2>3. QED
    BY <1>3, <1>4, <2>1, <2>2, TransferIgnores
<1>10. ASSUME Unused(b, rx.fifo, rx.data) PROVE Unused(b, h, rx.data)
  <2>1. Absent(rx.fifo, "ep2")
    BY <1>10 DEF Unused
  <2>2. ControlData \in Entry /\ ControlData[2] # "ep2" /\ x \in Entry /\ x[2] # "ep2"
    BY Entries
  <2>3. Absent(g, "ep2")
    BY <1>3, <2>1, <2>2, AbsentAppended
  <2> HIDE DEF g
  <2>4. Absent(h, "ep2")
    BY <1>4, <2>2, <2>3, AbsentAppended
  <2>5. QED
    BY <1>10, <2>4 DEF Unused
<1> HIDE DEF a, b, g, h
<1>11. eps \in [OtgEps -> OtgEp] /\ eps["ep0"] = a /\ eps["ep2"] = b
  BY <1>3, <1>7 DEF OtgEps, b
<1> HIDE DEF eps, ep
<1>12. /\ rx' \in OtgRx /\ rx'.ep["ep0"] = a /\ rx'.ep["ep2"] = b
       /\ rx'.fifo = h /\ rx'.data = rx.data
  BY <1>2, <1>4, <1>5, <1>11 DEF OtgRx, OtgEps
<1>13. OtgInv'
  <2>1. CASE aux = {}
    <3>1. ControlRx(a, h) /\ TransferInv(b, h, rx.data)
      BY <1>6, <1>7, <1>9, <2>1, OtgPhases DEF ep, b
    <3>2. QED
      BY <1>1, <1>2, <1>12, <2>1, <3>1, OtgRuns
  <2>2. CASE aux = {"ENUMDNE"}
    <3>1. /\ ControlRx(dwc_otg!Configured("ep0"), h) /\ a = dwc_otg!Cleared
          /\ Unused(b, h, rx.data) /\ tx = dwc_otg!TxCleared
      BY <1>6, <1>8, <1>10, <2>2, OtgPhases DEF ep, b
    <3>2. QED
      BY <1>1, <1>2, <1>12, <2>2, <3>1, OtgRuns
  <2>3. CASE aux = {"unconfigured"}
    <3>1. ControlRx(a, h) /\ Unused(b, h, rx.data) /\ tx = dwc_otg!TxCleared
      BY <1>6, <1>7, <1>10, <2>3, OtgPhases DEF ep, b
    <3>2. QED
      BY <1>1, <1>2, <1>12, <2>3, <3>1, OtgRuns
  <2>4. QED
    BY <1>1, <2>1, <2>2, <2>3, OtgPhases
<1>14. dwc_otg!RxQueue' = dwc_otg!RxQueue /\ dwc_otg!TxQueue' = dwc_otg!TxQueue
  BY <1>1, <1>12 DEF dwc_otg!RxQueue, dwc_otg!TxQueue, b
<1>15. QED
  BY <1>1, <1>13, <1>14, NothingMoves DEF OtgMoves

\* The host takes the packet.
LEMMA OtgHostIn ==
  ASSUME OtgInv, dwc_otg!HostIn
  PROVE  OtgInv' /\ OtgMoves
<1>1. /\ aux = {} /\ aux' = {} /\ rx' = rx /\ main' = main
      /\ got' = None /\ sent' = tx.pkt /\ tx.pkt # None /\ fresh' = FALSE
      /\ tx' = [tx EXCEPT !.pkt = None, !.xfrc = TRUE]
  BY DEF dwc_otg!HostIn
<1>2. /\ rx \in OtgRx /\ OneSent(tx) /\ main \in {"usb", "app"}
      /\ ControlRx(rx.ep["ep0"], rx.fifo) /\ TransferInv(rx.ep["ep2"], rx.fifo, rx.data)
  BY <1>1, OtgPhases
<1>3. OneSent(tx') /\ tx'.pkt = None
  BY <1>1, <1>2 DEF OneSent, OtgTx, Item
<1>4. OtgInv'
  BY <1>1, <1>2, <1>3, OtgRuns
<1>5. dwc_otg!RxQueue' = dwc_otg!RxQueue
  BY <1>1 DEF dwc_otg!RxQueue
<1>6. dwc_otg!TxQueue = <<tx.pkt>> /\ dwc_otg!TxQueue' = <<>>
  BY <1>1, <1>3 DEF dwc_otg!TxQueue
<1>7. tx.pkt \in Item
  BY <1>2 DEF OneSent, OtgTx
<1>8. <<tx.pkt>> # <<>> /\ Head(<<tx.pkt>>) = tx.pkt /\ Tail(<<tx.pkt>>) = <<>>
  BY <1>7
<1>9. Moves(dwc_otg!TxQueue, dwc_otg!TxQueue', sent', fresh')
  BY <1>1, <1>6, <1>8 DEF Moves
<1>10. QED
  BY <1>1, <1>4, <1>5, <1>9, NothingMoves DEF OtgMoves

\* A bus reset, and its end.
LEMMA OtgReset ==
  ASSUME OtgInv, Rough = {}, dwc_otg!BusReset \/ dwc_otg!ResetEnds
  PROVE  OtgInv' /\ OtgMoves
<1>1. CASE dwc_otg!BusReset
  <2> DEFINE a == [rx.ep["ep0"] EXCEPT !.pktcnt = 0]
             b == [rx.ep["ep2"] EXCEPT !.pktcnt = 0]
             eps == [e \in OtgEps |-> [rx.ep[e] EXCEPT !.pktcnt = 0]]
  <2>1. /\ aux \in {{}, {"unconfigured"}}
        /\ rx.fifo = <<>> /\ rx' = [rx EXCEPT !.ep = eps] /\ tx' = tx
        /\ aux' = {"USBRST"} /\ main' = main
        /\ got' = None /\ sent' = None /\ fresh' = FALSE
    BY <1>1, OtgRings DEF dwc_otg!BusReset, dwc_otg!Quiet
  <2>2. rx \in OtgRx /\ OneSent(tx) /\ main \in {"usb", "app"}
    BY OtgPhases
  <2>3. /\ rx.ep["ep0"] \in OtgEp /\ rx.ep["ep2"] \in OtgEp
        /\ rx.fifo \in Seq(Entry) /\ rx.data \in Seq(Item)
    BY <2>2, OtgParts
  <2>4. a \in OtgEp /\ (ControlRx(rx.ep["ep0"], rx.fifo) => ControlRx(a, rx.fifo))
    BY <2>3, Stopped
  <2>5. /\ b \in OtgEp /\ b.ring = rx.ep["ep2"].ring
        /\ TransferInv(rx.ep["ep2"], rx.fifo, rx.data) => TransferInv(b, rx.fifo, rx.data)
    BY <2>3, Stopped
  <2>6. Unused(rx.ep["ep2"], rx.fifo, rx.data) => Unused(b, rx.fifo, rx.data)
    BY OtgConfigured DEF Unused
  <2>7. eps["ep0"] = a /\ eps["ep2"] = b /\ eps \in [OtgEps -> OtgEp]
    <3>1. eps["ep0"] = a /\ eps["ep2"] = b
      BY DEF OtgEps
    <3> HIDE DEF a, b
    <3>2. \A e \in OtgEps : eps[e] \in OtgEp
      BY <2>4, <2>5, <3>1 DEF OtgEps
    <3>3. QED
      BY <3>1, <3>2
  <2> HIDE DEF a, b, eps
  <2>8. /\ rx' \in OtgRx /\ rx'.fifo = rx.fifo /\ rx'.data = rx.data
        /\ rx'.ep["ep0"] = a /\ rx'.ep["ep2"] = b
    BY <2>1, <2>2, <2>7 DEF OtgRx, OtgEps
  <2>9. /\ ControlRx(a, rx.fifo) /\ rx.data = <<>>
        /\ TransferInv(b, rx.fifo, rx.data) \/ Unused(b, rx.fifo, rx.data)
    <3>1. CASE aux = {}
      <4>1. ControlRx(rx.ep["ep0"], rx.fifo) /\ TransferInv(rx.ep["ep2"], rx.fifo, rx.data)
        BY <3>1, OtgPhases
      <4>2. Absent(rx.fifo, "ep2")
        BY <2>1 DEF Absent
      <4>3. rx.data = <<>>
        BY <2>3, <4>1, <4>2, MatchedNone DEF TransferInv
      <4>4. QED
        BY <2>4, <2>5, <4>1, <4>3
    <3>2. CASE aux = {"unconfigured"}
      <4>1. ControlRx(rx.ep["ep0"], rx.fifo) /\ Unused(rx.ep["ep2"], rx.fifo, rx.data)
        BY <3>2, OtgPhases
      <4>2. QED
        BY <2>4, <2>6, <4>1 DEF Unused
    <3>3. QED
      BY <2>1, <3>1, <3>2
  <2>10. OtgInv'
    BY <2>1, <2>2, <2>8, <2>9, OtgRuns
  <2>11. dwc_otg!RxQueue' = dwc_otg!RxQueue /\ dwc_otg!TxQueue' = dwc_otg!TxQueue
    BY <2>1, <2>5, <2>8 DEF dwc_otg!RxQueue, dwc_otg!TxQueue
  <2>12. QED
    BY <2>1, <2>10, <2>11, NothingMoves DEF OtgMoves
<1>2. CASE dwc_otg!ResetEnds
  <2>1. /\ aux = {"reset"} /\ aux' = {"ENUMDNE"} /\ main' = main /\ rx' = rx /\ tx' = tx
        /\ got' = None /\ sent' = None /\ fresh' = FALSE
    BY <1>2 DEF dwc_otg!ResetEnds, dwc_otg!Quiet
  <2>2. /\ rx \in OtgRx /\ OneSent(tx) /\ main \in {"usb", "app"}
        /\ rx.fifo = <<>> /\ rx.ep["ep0"] = dwc_otg!Cleared
        /\ tx = dwc_otg!TxCleared /\ Unused(rx.ep["ep2"], rx.fifo, rx.data)
    BY <2>1, OtgPhases
  <2>3. ControlRx(dwc_otg!Configured("ep0"), rx.fifo)
    BY <2>2, OtgConfigured
  <2>4. OtgInv'
    BY <2>1, <2>2, <2>3, OtgRuns
  <2>5. /\ dwc_otg!RxQueue' = dwc_otg!RxQueue /\ dwc_otg!TxQueue' = dwc_otg!TxQueue
    BY <2>1 DEF dwc_otg!RxQueue, dwc_otg!TxQueue
  <2>6. QED
    BY <2>1, <2>4, <2>5, NothingMoves DEF OtgMoves
<1>3. QED
  BY <1>1, <1>2

\* usb_read(): the oldest packet leaves the ring.
LEMMA OtgRead ==
  ASSUME OtgInv, dwc_otg!Read
  PROVE  OtgInv' /\ OtgMoves
<1> DEFINE ep == rx.ep["ep2"]
           r == dwc_otg!usb_read(ep)
           eps == [rx.ep EXCEPT !["ep2"] = r]
<1>1. /\ ep.ring # <<>> /\ tx' = tx /\ main' = main /\ aux' = aux
      /\ got' = Head(ep.ring) /\ rx' = [rx EXCEPT !.ep = eps]
      /\ sent' = None /\ fresh' = FALSE
  BY DEF dwc_otg!Read, dwc_otg!ep_rx_ready
<1>2. rx \in OtgRx /\ OneSent(tx) /\ main \in {"usb", "app"}
  BY OtgPhases
<1>3. /\ rx.ep \in [OtgEps -> OtgEp] /\ ep \in OtgEp /\ rx.ep["ep0"] \in OtgEp
      /\ rx.fifo \in Seq(Entry) /\ rx.data \in Seq(Item) /\ ep.ring \in Seq(Item)
  BY <1>2, OtgParts
<1>4. TransferInv(ep, rx.fifo, rx.data) /\ (aux = {} \/ aux = {"USBRST"})
  <2>1. ~Unused(ep, rx.fifo, rx.data)
    BY <1>1, OtgConfigured DEF Unused
  <2>2. QED
    BY <2>1, OtgPhases
<1>5. r \in OtgEp /\ TransferInv(r, rx.fifo, rx.data) /\ r.ring = Tail(ep.ring)
  BY <1>1, <1>3, <1>4, TransferRead
<1> HIDE DEF r
<1>6. eps \in [OtgEps -> OtgEp] /\ eps["ep0"] = rx.ep["ep0"] /\ eps["ep2"] = r
  BY <1>3, <1>5 DEF OtgEps
<1> HIDE DEF eps, ep
<1>7. /\ rx' \in OtgRx /\ rx'.ep["ep0"] = rx.ep["ep0"] /\ rx'.ep["ep2"] = r
      /\ rx'.fifo = rx.fifo /\ rx'.data = rx.data
  BY <1>1, <1>2, <1>6 DEF OtgRx, OtgEps
<1>8. OtgInv'
  <2>1. CASE aux = {}
    BY <1>1, <1>2, <1>5, <1>7, <2>1, OtgPhases, OtgRuns
  <2>2. CASE aux = {"USBRST"}
    BY <1>1, <1>2, <1>5, <1>7, <2>2, OtgPhases, OtgRuns
  <2>3. QED
    BY <1>4, <2>1, <2>2
<1>9. dwc_otg!TxQueue' = dwc_otg!TxQueue
  BY <1>1 DEF dwc_otg!TxQueue
<1>10. /\ dwc_otg!RxQueue = ep.ring \o rx.data
       /\ dwc_otg!RxQueue' = Tail(ep.ring) \o rx.data /\ got' = Head(ep.ring)
  BY <1>1, <1>5, <1>7 DEF dwc_otg!RxQueue, ep
<1>11. /\ Tail(ep.ring \o rx.data) = Tail(ep.ring) \o rx.data
       /\ Head(ep.ring \o rx.data) = Head(ep.ring) /\ ep.ring \o rx.data # <<>>
  BY <1>1, <1>3, Tail2
<1>12. Moves(dwc_otg!RxQueue, dwc_otg!RxQueue', got', fresh')
  BY <1>1, <1>10, <1>11 DEF Moves
<1>13. QED
  BY <1>1, <1>8, <1>9, <1>12, NothingMoves DEF OtgMoves

\* usb_write() gives the core a packet.
LEMMA OtgWrite ==
  ASSUME OtgInv, NEW p \in Packets, dwc_otg!Write(p)
  PROVE  OtgInv' /\ OtgMoves
<1>1. /\ tx.ready /\ tx' = [tx EXCEPT !.ready = FALSE, !.pkt = p]
      /\ rx' = rx /\ main' = main /\ aux' = aux
      /\ got' = None /\ sent' = None /\ fresh' = FALSE
  BY DEF dwc_otg!Write, dwc_otg!Quiet
<1>2. rx \in OtgRx /\ main \in {"usb", "app"} /\ OneSent(tx) /\ p # None /\ p \in Item
  BY UsbAssumption, OtgPhases DEF Item
<1>3. OneSent(tx') /\ tx'.pkt = p /\ tx.pkt = None
  BY <1>1, <1>2 DEF OneSent, OtgTx
<1>4. aux = {} \/ aux = {"USBRST"}
  <2>1. tx # dwc_otg!TxCleared
    BY <1>1 DEF dwc_otg!TxCleared
  <2>2. QED
    BY <2>1, OtgPhases
<1>5. OtgInv'
  BY <1>1, <1>2, <1>3, <1>4, OtgPhases, OtgRuns
<1>6. dwc_otg!RxQueue' = dwc_otg!RxQueue
  BY <1>1 DEF dwc_otg!RxQueue
<1>7. dwc_otg!TxQueue = <<>> /\ dwc_otg!TxQueue' = <<p>>
  BY <1>2, <1>3 DEF dwc_otg!TxQueue
<1>8. <<p>> = Append(<<>>, p) /\ Len(<<>>) = 0
  BY <1>2
<1>9. 0 < Capacity
  BY UsbAssumption
<1>10. Moves(dwc_otg!TxQueue, dwc_otg!TxQueue', sent', fresh')
  BY <1>1, <1>7, <1>8, <1>9 DEF Moves
<1>11. QED
  BY <1>1, <1>5, <1>6, <1>10, NothingMoves DEF OtgMoves

\* An entry is popped: both endpoints find what they expect.
LEMMA OtgPopped ==
  ASSUME NEW s \in OtgRx, s.fifo # <<>>, ControlRx(s.ep["ep0"], s.fifo),
         ~s.ep["ep0"].xfrc, ~s.ep["ep0"].stup,
         \/ TransferInv(s.ep["ep2"], s.fifo, s.data)
         \/ Unused(s.ep["ep2"], s.fifo, s.data)
  PROVE  LET n == dwc_otg!handle_rx_transfer(s)
         IN /\ n \in OtgRx /\ ControlRx(n.ep["ep0"], n.fifo)
            /\ TransferInv(s.ep["ep2"], s.fifo, s.data) =>
                 TransferInv(n.ep["ep2"], n.fifo, n.data)
            /\ Unused(s.ep["ep2"], s.fifo, s.data) =>
                 Unused(n.ep["ep2"], n.fifo, n.data)
            /\ n.ep["ep2"].ring \o n.data = s.ep["ep2"].ring \o s.data
<1> DEFINE x == Head(s.fifo)
           a == s.ep["ep0"]
           b == s.ep["ep2"]
           f == Tail(s.fifo)
           n == dwc_otg!handle_rx_transfer(s)
           Made(eps, d) == [ep |-> eps, fifo |-> f, data |-> d]
<1>1. /\ s.ep \in [OtgEps -> OtgEp] /\ a \in OtgEp /\ b \in OtgEp
      /\ s.fifo \in Seq(Entry) /\ s.data \in Seq(Item) /\ b.ring \in Seq(Item)
  BY DEF OtgRx, OtgEps, OtgEp
<1>2. x \in Entry /\ f \in Seq(Entry)
  BY <1>1, Uncons
<1>3. ASSUME NEW e \in OtgEps, NEW r \in OtgEp
      PROVE  /\ [s.ep EXCEPT ![e] = r] \in [OtgEps -> OtgEp]
             /\ [s.ep EXCEPT ![e] = r][e] = r
             /\ \A o \in OtgEps : o # e => [s.ep EXCEPT ![e] = r][o] = s.ep[o]
  BY <1>1
<1>4. ASSUME NEW eps \in [OtgEps -> OtgEp], NEW d \in Seq(Item), n = Made(eps, d)
      PROVE  n \in OtgRx /\ n.ep = eps /\ n.fifo = f /\ n.data = d
  BY <1>2, <1>4 DEF OtgRx, OtgEps
<1>5. "ep0" \in OtgEps /\ "ep2" \in OtgEps /\ "ep0" # "ep2"
  BY DEF OtgEps
<1> DEFINE packet == IF x[2] = "ep2" THEN Head(s.data) ELSE None
           next == CASE x[1] = "data" -> [s.ep[x[2]] EXCEPT !.ring = Append(@, packet)]
                     [] x[1] = "xfrc" -> [s.ep[x[2]] EXCEPT !.xfrc = TRUE]
                     [] OTHER -> [s.ep[x[2]] EXCEPT !.stup = TRUE]
           left == IF x = <<"data", "ep2">> THEN Tail(s.data) ELSE s.data
<1>6. n = Made([s.ep EXCEPT ![x[2]] = next], left)
  BY DEF dwc_otg!handle_rx_transfer
<1>7. Unused(b, s.fifo, s.data) => x[2] # "ep2" /\ Unused(b, f, s.data)
  BY <1>1, Rest DEF Unused
<1>8. CASE x = DataEntry
  <2> DEFINE r == [b EXCEPT !.ring = Append(@, Head(s.data))]
             eps == [s.ep EXCEPT !["ep2"] = r]
             d == Tail(s.data)
  <2>1. ~Unused(b, s.fifo, s.data)
    BY <1>7, <1>8, Entries
  <2>2. /\ s.data # <<>> /\ r \in OtgEp /\ TransferInv(r, f, d)
        /\ r.ring = Append(b.ring, Head(s.data)) /\ d \in Seq(Item)
    BY <1>1, <1>8, <2>1, TransferPopped, Uncons
  <2>3. ControlRx(a, f)
    BY <1>1, <1>8, Entries, ControlPopped
  <2>4. n = Made(eps, d)
    <3>1. x = <<"data", "ep2">> /\ x[1] = "data" /\ x[2] = "ep2"
      BY <1>8 DEF DataEntry
    <3> HIDE DEF x, Made, n
    <3>2. left = d /\ next = r
      BY <3>1
    <3> HIDE DEF next, left, r
    <3>3. QED
      BY <1>6, <3>1, <3>2
  <2> HIDE DEF r, n, Made, a, f
  <2>5. eps \in [OtgEps -> OtgEp] /\ eps["ep2"] = r /\ eps["ep0"] = a
    BY <1>3, <1>5, <2>2 DEF a
  <2> HIDE DEF eps, d
  <2>6. n \in OtgRx /\ n.ep = eps /\ n.fifo = f /\ n.data = d
    BY <1>4, <2>2, <2>4, <2>5
  <2>7. b.ring \o s.data = Append(b.ring, Head(s.data)) \o Tail(s.data)
    BY <1>1, <2>2, Pass2
  <2>8. n.ep["ep2"].ring \o n.data = b.ring \o s.data
    BY <2>2, <2>5, <2>6, <2>7 DEF d
  <2>9. QED
    BY <2>1, <2>2, <2>3, <2>5, <2>6, <2>8 DEF n
<1>9. CASE x = EndEntry
  <2> DEFINE r == [b EXCEPT !.xfrc = TRUE]
             eps == [s.ep EXCEPT !["ep2"] = r]
  <2>1. ~Unused(b, s.fifo, s.data)
    BY <1>7, <1>9, Entries
  <2>2. r \in OtgEp /\ TransferInv(r, f, s.data) /\ r.ring = b.ring
    BY <1>1, <1>9, <2>1, TransferPopped
  <2>3. ControlRx(a, f)
    BY <1>1, <1>9, Entries, ControlPopped
  <2>4. n = Made(eps, s.data)
    <3>1. x = <<"xfrc", "ep2">> /\ x[1] = "xfrc" /\ x[2] = "ep2"
      BY <1>9 DEF EndEntry
    <3> HIDE DEF x, Made, n
    <3>2. left = s.data /\ next = r
      BY <3>1
    <3> HIDE DEF next, left, r
    <3>3. QED
      BY <1>6, <3>1, <3>2
  <2> HIDE DEF r, n, Made, a, f
  <2>5. eps \in [OtgEps -> OtgEp] /\ eps["ep2"] = r /\ eps["ep0"] = a
    BY <1>3, <1>5, <2>2 DEF a
  <2> HIDE DEF eps
  <2>6. n \in OtgRx /\ n.ep = eps /\ n.fifo = f /\ n.data = s.data
    BY <1>1, <1>4, <2>4, <2>5
  <2>7. QED
    BY <2>1, <2>2, <2>3, <2>5, <2>6 DEF n
<1>10. CASE x \in {ControlData, SetupEnd, OutEnd}
  <2> DEFINE r == next
             eps == [s.ep EXCEPT !["ep0"] = r]
  <2>1. /\ x[2] = "ep0" /\ x[2] # "ep2" /\ x # DataEntry
        /\ x = ControlData => x[1] = "data"
        /\ x = SetupEnd => x[1] = "stup"
        /\ x = OutEnd => x[1] = "xfrc"
    BY <1>10 DEF ControlData, SetupEnd, OutEnd, DataEntry
  <2>2. r \in OtgEp /\ ControlRx(r, f)
    <3> DEFINE r1 == [a EXCEPT !.ring = Append(@, None)]
               r2 == [a EXCEPT !.stup = TRUE]
               r3 == [a EXCEPT !.xfrc = TRUE]
    <3>1. /\ x = ControlData => r1 \in OtgEp /\ ControlRx(r1, f)
          /\ x = SetupEnd => r2 \in OtgEp /\ ControlRx(r2, f)
          /\ x = OutEnd => r3 \in OtgEp /\ ControlRx(r3, f)
      BY <1>1, ControlPopped
    <3> HIDE DEF x, f
    <3>2. /\ x = ControlData => r = r1
          /\ x = SetupEnd => r = r2
          /\ x = OutEnd => r = r3
      BY <2>1
    <3> HIDE DEF r1, r2, r3, next
    <3>3. QED
      BY <1>10, <3>1, <3>2
  <2>3. TransferInv(b, s.fifo, s.data) => TransferInv(b, f, s.data)
    BY <1>1, <2>1, TransferPopped
  <2>4. n = Made(eps, s.data)
    <3>1. left = s.data
      BY <2>1 DEF DataEntry
    <3> HIDE DEF x, Made, n, next, left
    <3>2. QED
      BY <1>6, <2>1, <3>1
  <2> HIDE DEF next, n, Made, b, f
  <2>5. eps \in [OtgEps -> OtgEp] /\ eps["ep0"] = r /\ eps["ep2"] = b
    BY <1>3, <1>5, <2>2 DEF b
  <2> HIDE DEF eps
  <2>6. n \in OtgRx /\ n.ep = eps /\ n.fifo = f /\ n.data = s.data
    BY <1>1, <1>4, <2>4, <2>5
  <2>7. QED
    BY <1>7, <2>2, <2>3, <2>5, <2>6 DEF n, b
<1>11. QED
  BY <1>2, <1>8, <1>9, <1>10 DEF Entry

\* What handle_rx_transfer() finds, in each phase, and when the device is
\* being configured.
LEMMA OtgFound ==
  ASSUME OtgInv, Rough = {}, NEW conf \in BOOLEAN, conf => dwc_otg!MayConfigure
  PROVE  LET r == dwc_otg!Found(conf)
         IN /\ r \in OtgRx /\ r.fifo = rx.fifo /\ r.data = rx.data
            /\ conf => aux = {"unconfigured"}
            /\ aux \notin {{"USBRST"}, {"reset"}} =>
                 /\ ControlRx(r.ep["ep0"], r.fifo)
                 /\ ~r.ep["ep0"].xfrc /\ ~r.ep["ep0"].stup
            /\ aux = {} \/ conf => TransferInv(r.ep["ep2"], r.fifo, r.data)
            /\ aux \in {{"ENUMDNE"}, {"unconfigured"}} /\ ~conf =>
                 Unused(r.ep["ep2"], r.fifo, r.data)
            /\ aux \in {{"USBRST"}, {"reset"}} =>
                 /\ r.fifo = <<>> /\ r.data = <<>> /\ r.ep["ep0"] = dwc_otg!Cleared
                 /\ Unused(r.ep["ep2"], r.fifo, r.data)
            /\ IF conf \/ aux = {"USBRST"}
               THEN r.ep["ep2"].ring = <<>> /\ r.data = <<>>
               ELSE r.ep["ep2"].ring = rx.ep["ep2"].ring
<1> DEFINE a == rx.ep["ep0"]
           b == rx.ep["ep2"]
           c == dwc_otg!Cleared
           found == IF conf THEN dwc_otg!configure_rx(b) ELSE b
           eps == [rx.ep EXCEPT !["ep2"] = found]
           u == dwc_otg!handle_oepint("ep0", a)
           v == dwc_otg!handle_oepint("ep2", found)
           hs == [e \in OtgEps |-> dwc_otg!handle_oepint(e, eps[e])]
           s == [rx EXCEPT !.ep = hs]
           t == IF "ENUMDNE" \in aux THEN dwc_otg!EnumDone(s) ELSE s
           r == dwc_otg!Found(conf)
<1>1. r = IF "USBRST" \in aux THEN dwc_otg!handle_reset(t) ELSE t
  BY OtgRings DEF dwc_otg!Found
<1>2. conf => aux = {"unconfigured"}
  BY DEF dwc_otg!MayConfigure
<1>3. /\ rx \in OtgRx /\ rx.ep \in [OtgEps -> OtgEp] /\ a \in OtgEp /\ b \in OtgEp
      /\ rx.fifo \in Seq(Entry) /\ rx.data \in Seq(Item)
  BY OtgPhases, OtgParts
<1>4. /\ c \in OtgEp /\ ~c.xfrc /\ ~c.stup /\ c.ring = <<>>
      /\ dwc_otg!Configured("ep0") \in OtgEp
      /\ ~dwc_otg!Configured("ep0").xfrc /\ ~dwc_otg!Configured("ep0").stup
      /\ dwc_otg!Configured("ep2") \in OtgEp /\ dwc_otg!Configured("ep2").ring = <<>>
      /\ ~dwc_otg!Configured("ep2").xfrc
  BY OtgConfigured
<1>5. \A e, p : ~p.xfrc /\ ~p.stup => dwc_otg!handle_oepint(e, p) = p
  BY DEF dwc_otg!handle_oepint
<1>6. /\ conf => found = dwc_otg!Configured("ep2") /\ Unused(b, rx.fifo, rx.data)
      /\ ~conf => found = b
  <2>1. ASSUME conf PROVE Unused(b, rx.fifo, rx.data)
    BY <1>2, <2>1, OtgPhases
  <2>2. ASSUME conf PROVE dwc_otg!configure_rx(b) = dwc_otg!Configured("ep2")
    <3>1. b.xfrc = FALSE
      BY <2>1, <2>2 DEF Unused, dwc_otg!Cleared
    <3> DEFINE z == dwc_otg!Configured("ep2")
    <3>2. z \in OtgEp /\ z.xfrc = FALSE
      BY <1>4 DEF OtgEp
    <3>3. dwc_otg!configure_rx(b) = [z EXCEPT !.xfrc = FALSE]
      BY <3>1 DEF dwc_otg!configure_rx
    <3> HIDE DEF z
    <3>4. [z EXCEPT !.xfrc = FALSE] = z
      BY <3>2 DEF OtgEp
    <3>5. QED
      BY <3>3, <3>4 DEF z
  <2>3. QED
    BY <2>1, <2>2
<1>7. hs["ep0"] = u /\ hs["ep2"] = v
  BY <1>3 DEF OtgEps
<1>8. u \in OtgEp /\ (ControlRx(a, rx.fifo) => ControlRx(u, rx.fifo) /\ ~u.xfrc /\ ~u.stup)
  <2>1. CASE ControlRx(a, rx.fifo)
    BY <1>3, <2>1, ControlHandled
  <2>2. CASE ~ControlRx(a, rx.fifo)
    BY <1>4, <1>5, <2>2, OtgPhases
  <2>3. QED
    BY <2>1, <2>2
<1>9. /\ v \in OtgEp
      /\ aux = {} \/ conf => TransferInv(v, rx.fifo, rx.data)
      /\ Unused(b, rx.fifo, rx.data) /\ ~conf => Unused(v, rx.fifo, rx.data)
      /\ v.ring = IF conf THEN <<>> ELSE b.ring
  <2>1. CASE conf
    <3>1. Absent(rx.fifo, "ep2") /\ rx.data = <<>>
      BY <1>6, <2>1 DEF Unused
    <3>2. TransferInv(found, rx.fifo, rx.data) /\ found \in OtgEp /\ found.ring = <<>>
      BY <1>3, <1>6, <2>1, <3>1, OtgConfigured
    <3> HIDE DEF found
    <3>3. v \in OtgEp /\ TransferInv(v, rx.fifo, rx.data) /\ v.ring = found.ring
      BY <1>3, <3>2, TransferEnded
    <3>4. QED
      BY <2>1, <3>2, <3>3
  <2>2. CASE ~conf /\ Unused(b, rx.fifo, rx.data)
    <3>1. b = c /\ v = b
      BY <1>4, <1>5, <1>6, <2>2 DEF Unused
    <3>2. aux = {} => TransferInv(b, rx.fifo, rx.data)
      BY OtgPhases
    <3>3. QED
      BY <1>3, <2>2, <3>1, <3>2
  <2>3. CASE ~conf /\ ~Unused(b, rx.fifo, rx.data)
    <3>1. TransferInv(b, rx.fifo, rx.data) /\ found = b
      BY <1>6, <2>3, OtgPhases
    <3>2. v \in OtgEp /\ TransferInv(v, rx.fifo, rx.data) /\ v.ring = b.ring
      BY <1>3, <3>1, TransferEnded
    <3>3. QED
      BY <2>3, <3>2
  <2>4. QED
    BY <2>1, <2>2, <2>3
<1> HIDE DEF u, v, found, eps
<1>10. hs \in [OtgEps -> OtgEp]
  <2>1. \A e \in OtgEps : hs[e] \in OtgEp
    BY <1>7, <1>8, <1>9 DEF OtgEps
  <2> DEFINE h(e) == dwc_otg!handle_oepint(e, eps[e])
  <2>2. hs = [e \in OtgEps |-> h(e)] /\ \A e \in OtgEps : hs[e] = h(e)
    OBVIOUS
  <2> HIDE DEF h, hs
  <2>3. QED
    BY <2>1, <2>2
<1> HIDE DEF hs
<1>11. s \in OtgRx /\ s.ep = hs /\ s.fifo = rx.fifo /\ s.data = rx.data
  BY <1>3, <1>10 DEF OtgRx, OtgEps
<1> HIDE DEF s
<1>12. CASE aux = {"USBRST"}
  <2> DEFINE z == [e \in OtgEps |-> c]
  <2>1. "USBRST" \in aux /\ "ENUMDNE" \notin aux /\ aux # {} /\ ~conf
        /\ aux \notin {{"ENUMDNE"}, {"unconfigured"}}
    BY <1>2, <1>12
  <2>2. r = [s EXCEPT !.ep = z]
    BY <1>1, <2>1, OtgRings DEF dwc_otg!handle_reset
  <2> HIDE DEF c, r
  <2>3. z \in [OtgEps -> OtgEp] /\ z["ep0"] = c /\ z["ep2"] = c
    BY <1>4 DEF OtgEps
  <2> HIDE DEF z
  <2>4. r \in OtgRx /\ r.ep = z /\ r.fifo = rx.fifo /\ r.data = rx.data
    BY <1>3, <1>11, <2>2, <2>3 DEF OtgRx, OtgEps
  <2>5. rx.fifo = <<>> /\ rx.data = <<>>
    BY <1>12, OtgPhases
  <2>6. Unused(c, rx.fifo, rx.data)
    BY <2>5 DEF Unused, Absent, c
  <2>7. QED
    BY <1>4, <1>12, <2>1, <2>3, <2>4, <2>5, <2>6 DEF c, r
<1>13. CASE aux = {"ENUMDNE"}
  <2> DEFINE k == dwc_otg!Configured("ep0")
             z == [hs EXCEPT !["ep0"] = k]
  <2>1. /\ "USBRST" \notin aux /\ "ENUMDNE" \in aux /\ aux # {} /\ ~conf
        /\ aux \notin {{"USBRST"}, {"reset"}}
    BY <1>2, <1>13
  <2>2. r = [s EXCEPT !.ep = z]
    <3>1. r = dwc_otg!EnumDone(s)
      BY <1>1, <2>1
    <3>2. dwc_otg!EnumDone(s) = [s EXCEPT !.ep["ep0"] = k]
      BY DEF dwc_otg!EnumDone
    <3> HIDE DEF r, k
    <3>3. [s EXCEPT !.ep["ep0"] = k] = [s EXCEPT !.ep = z]
      BY <1>11 DEF OtgRx
    <3>4. QED
      BY <3>1, <3>2, <3>3
  <2> HIDE DEF r
  <2>3. k \in OtgEp /\ ~k.xfrc /\ ~k.stup /\ ControlRx(k, rx.fifo)
    BY <1>4, <1>13, OtgPhases
  <2> HIDE DEF k
  <2>4. z \in [OtgEps -> OtgEp] /\ z["ep0"] = k /\ z["ep2"] = v
    BY <1>7, <1>10, <2>3 DEF OtgEps
  <2> HIDE DEF z
  <2>5. r \in OtgRx /\ r.ep = z /\ r.fifo = rx.fifo /\ r.data = rx.data
    BY <1>3, <1>11, <2>2, <2>4 DEF OtgRx, OtgEps
  <2>6. Unused(v, rx.fifo, rx.data) /\ v.ring = b.ring
    BY <1>9, <1>13, <2>1, OtgPhases
  <2>7. QED
    BY <2>1, <2>3, <2>4, <2>5, <2>6, <1>13 DEF r
<1>14. CASE aux \in {{}, {"reset"}, {"unconfigured"}}
  <2>1. "USBRST" \notin aux /\ "ENUMDNE" \notin aux /\ aux # {"USBRST"} /\ aux # {"ENUMDNE"}
    BY <1>14
  <2>2. r = s
    BY <1>1, <2>1
  <2> HIDE DEF r
  <2>3. /\ r \in OtgRx /\ r.ep["ep0"] = u /\ r.ep["ep2"] = v
        /\ r.fifo = rx.fifo /\ r.data = rx.data
    BY <1>7, <1>11, <2>2
  <2>4. CASE aux = {}
    <3>1. /\ aux \notin {{"USBRST"}, {"reset"}} /\ aux \notin {{"ENUMDNE"}, {"unconfigured"}}
          /\ ~conf
      BY <1>2, <2>4
    <3>2. ControlRx(u, rx.fifo) /\ ~u.xfrc /\ ~u.stup
      BY <1>8, <2>4, OtgPhases
    <3>3. TransferInv(v, rx.fifo, rx.data) /\ v.ring = b.ring
      BY <1>9, <2>4, <3>1
    <3>4. QED
      BY <2>1, <2>3, <2>4, <3>1, <3>2, <3>3 DEF r
  <2>5. CASE aux = {"reset"}
    <3>1. aux # {} /\ ~conf /\ aux \notin {{"ENUMDNE"}, {"unconfigured"}}
      BY <1>2, <2>5
    <3>2. rx.fifo = <<>> /\ a = c /\ Unused(b, rx.fifo, rx.data)
      BY <2>5, OtgPhases
    <3>3. u = c /\ Unused(v, rx.fifo, rx.data) /\ v.ring = b.ring
      <4>1. dwc_otg!handle_oepint("ep0", a) = a
        BY <1>4, <1>5, <3>2
      <4>2. QED
        BY <1>9, <3>1, <3>2, <4>1 DEF u
    <3>4. QED
      BY <2>1, <2>3, <2>5, <3>1, <3>2, <3>3 DEF r, Unused, c
  <2>6. CASE aux = {"unconfigured"}
    <3>1. aux # {} /\ aux \notin {{"USBRST"}, {"reset"}}
      BY <2>6
    <3>2. ControlRx(u, rx.fifo) /\ ~u.xfrc /\ ~u.stup /\ Unused(b, rx.fifo, rx.data)
      BY <1>8, <2>6, OtgPhases
    <3>3. rx.data = <<>>
      BY <3>2 DEF Unused
    <3>4. QED
      BY <1>9, <2>1, <2>3, <2>6, <3>1, <3>2, <3>3 DEF r
  <2>7. QED
    BY <1>14, <2>4, <2>5, <2>6
<1>15. QED
  BY <1>12, <1>13, <1>14, OtgPhases

\* usb_process(), whatever it finds.
LEMMA OtgProcess ==
  ASSUME OtgInv, Rough = {}, dwc_otg!usbd_process
  PROVE  OtgInv' /\ OtgMoves
<1>1. PICK conf \in BOOLEAN : dwc_otg!Process(conf)
  BY DEF dwc_otg!usbd_process
<1> DEFINE r == dwc_otg!Found(conf)
           n == dwc_otg!handle_rx_transfer(r)
           t == IF conf THEN dwc_otg!configure_tx(tx) ELSE tx
<1>2. /\ main' = "app" /\ (conf => dwc_otg!MayConfigure)
      /\ rx' = IF r.fifo # <<>> THEN n ELSE r
      /\ tx' = IF "USBRST" \in aux THEN dwc_otg!TxCleared ELSE dwc_otg!handle_iepint(t)
      /\ aux' = CASE aux = {"USBRST"} -> {"reset"}
                  [] "ENUMDNE" \in aux -> {"unconfigured"}
                  [] OTHER -> IF conf THEN {} ELSE aux
      /\ got' = None /\ sent' = None /\ fresh' = (conf \/ "USBRST" \in aux)
  BY <1>1 DEF dwc_otg!Process, dwc_otg!reset_tx
<1>3. /\ r \in OtgRx /\ r.fifo = rx.fifo /\ r.data = rx.data
      /\ conf => aux = {"unconfigured"}
      /\ aux \notin {{"USBRST"}, {"reset"}} =>
           /\ ControlRx(r.ep["ep0"], r.fifo)
           /\ ~r.ep["ep0"].xfrc /\ ~r.ep["ep0"].stup
      /\ aux = {} \/ conf => TransferInv(r.ep["ep2"], r.fifo, r.data)
      /\ aux \in {{"ENUMDNE"}, {"unconfigured"}} /\ ~conf =>
           Unused(r.ep["ep2"], r.fifo, r.data)
      /\ aux \in {{"USBRST"}, {"reset"}} =>
           /\ r.fifo = <<>> /\ r.data = <<>> /\ r.ep["ep0"] = dwc_otg!Cleared
           /\ Unused(r.ep["ep2"], r.fifo, r.data)
      /\ IF conf \/ aux = {"USBRST"}
         THEN r.ep["ep2"].ring = <<>> /\ r.data = <<>>
         ELSE r.ep["ep2"].ring = rx.ep["ep2"].ring
  BY <1>2, OtgFound
<1> HIDE DEF r
<1> DEFINE p == IF r.fifo # <<>> THEN n ELSE r
<1>4. ASSUME aux \notin {{"USBRST"}, {"reset"}}
      PROVE  /\ p \in OtgRx /\ ControlRx(p.ep["ep0"], p.fifo)
             /\ aux = {} \/ conf => TransferInv(p.ep["ep2"], p.fifo, p.data)
             /\ ~(aux = {} \/ conf) => Unused(p.ep["ep2"], p.fifo, p.data)
             /\ p.ep["ep2"].ring \o p.data = r.ep["ep2"].ring \o r.data
  <2>1. \/ aux = {} \/ conf
        \/ aux \in {{"ENUMDNE"}, {"unconfigured"}} /\ ~conf
    BY <1>4, OtgPhases
  <2>2. \/ TransferInv(r.ep["ep2"], r.fifo, r.data)
        \/ Unused(r.ep["ep2"], r.fifo, r.data)
    BY <1>3, <2>1
  <2>3. CASE r.fifo # <<>>
    <3>1. p = n
      BY <2>3
    <3> HIDE DEF p
    <3>2. /\ n \in OtgRx /\ ControlRx(n.ep["ep0"], n.fifo)
          /\ TransferInv(r.ep["ep2"], r.fifo, r.data) =>
               TransferInv(n.ep["ep2"], n.fifo, n.data)
          /\ Unused(r.ep["ep2"], r.fifo, r.data) =>
               Unused(n.ep["ep2"], n.fifo, n.data)
          /\ n.ep["ep2"].ring \o n.data = r.ep["ep2"].ring \o r.data
      BY <1>3, <1>4, <2>2, <2>3, OtgPopped
    <3> HIDE DEF n
    <3>3. QED
      BY <1>3, <2>1, <3>1, <3>2
  <2>4. CASE r.fifo = <<>>
    <3>1. p = r
      BY <2>4
    <3> HIDE DEF p
    <3>2. QED
      BY <1>3, <1>4, <2>1, <3>1
  <2>5. QED
    BY <2>3, <2>4
<1>5. p = rx'
  BY <1>2
<1> HIDE DEF n, p
<1>6. ASSUME OneSent(tx)
      PROVE  /\ OneSent(dwc_otg!handle_iepint(tx)) /\ dwc_otg!handle_iepint(tx).pkt = tx.pkt
  BY <1>6 DEF OneSent, OtgTx, dwc_otg!handle_iepint
<1>7. /\ OneSent(dwc_otg!TxCleared) /\ dwc_otg!TxCleared.pkt = None
      /\ dwc_otg!handle_iepint(dwc_otg!TxCleared) = dwc_otg!TxCleared
  BY DEF OneSent, OtgTx, Item, dwc_otg!TxCleared, dwc_otg!handle_iepint
<1>8. rx \in OtgRx /\ OneSent(tx) /\ main' \in {"usb", "app"}
  BY <1>2, OtgPhases
<1>9. CASE aux = {}
  <2>1. /\ aux \notin {{"USBRST"}, {"reset"}} /\ "USBRST" \notin aux /\ "ENUMDNE" \notin aux
        /\ aux # {"USBRST"} /\ aux # {"unconfigured"} /\ ~conf
    BY <1>3, <1>9
  <2>2. t = tx
    BY <2>1
  <2>3. aux' = {} /\ tx' = dwc_otg!handle_iepint(tx) /\ fresh' = FALSE
    BY <1>2, <1>9, <2>1, <2>2
  <2>4. OneSent(tx') /\ tx'.pkt = tx.pkt
    BY <1>6, <1>8, <2>3
  <2>5. OtgInv'
    BY <1>4, <1>5, <1>8, <1>9, <2>1, <2>3, <2>4, OtgRuns
  <2>6. dwc_otg!RxQueue' = dwc_otg!RxQueue /\ dwc_otg!TxQueue' = dwc_otg!TxQueue
    BY <1>3, <1>4, <1>5, <2>1, <2>4 DEF dwc_otg!RxQueue, dwc_otg!TxQueue
  <2>7. QED
    BY <1>2, <2>3, <2>5, <2>6, NothingMoves DEF OtgMoves
<1>10. CASE conf
  <2>1. /\ aux = {"unconfigured"} /\ aux \notin {{"USBRST"}, {"reset"}}
        /\ "USBRST" \notin aux /\ "ENUMDNE" \notin aux /\ aux # {"USBRST"}
    BY <1>3, <1>10
  <2>2. tx = dwc_otg!TxCleared
    BY <2>1, OtgPhases
  <2>3. aux' = {} /\ tx' = dwc_otg!handle_iepint(dwc_otg!configure_tx(tx)) /\ fresh' = TRUE
    BY <1>2, <1>10, <2>1
  <2>4. OneSent(tx') /\ tx'.pkt = None
    BY <2>2, <2>3 DEF OneSent, OtgTx, Item, dwc_otg!TxCleared, dwc_otg!handle_iepint,
                      dwc_otg!configure_tx
  <2>5. OtgInv'
    BY <1>4, <1>5, <1>8, <1>10, <2>1, <2>3, <2>4, OtgRuns
  <2>6. rx'.ep["ep2"].ring \o rx'.data = <<>> \o <<>>
    BY <1>3, <1>4, <1>5, <1>10, <2>1
  <2>7. <<>> \o <<>> = <<>>
    OBVIOUS
  <2>8. dwc_otg!RxQueue' = <<>> /\ dwc_otg!TxQueue' = <<>>
    BY <2>4, <2>6, <2>7 DEF dwc_otg!RxQueue, dwc_otg!TxQueue
  <2>9. QED
    BY <1>2, <2>3, <2>5, <2>8 DEF OtgMoves, Moves
<1>11. CASE aux \in {{"ENUMDNE"}, {"unconfigured"}} /\ ~conf
  <2>1. /\ aux \notin {{"USBRST"}, {"reset"}} /\ aux # {} /\ "USBRST" \notin aux
        /\ aux # {"USBRST"} /\ ("ENUMDNE" \notin aux => aux = {"unconfigured"})
    BY <1>11
  <2>2. tx = dwc_otg!TxCleared /\ t = tx
    BY <1>11, OtgPhases
  <2>3. aux' = {"unconfigured"} /\ tx' = dwc_otg!TxCleared /\ fresh' = FALSE
    BY <1>2, <1>7, <1>11, <2>1, <2>2
  <2>4. OtgInv'
    BY <1>4, <1>5, <1>7, <1>8, <1>11, <2>1, <2>3, OtgRuns
  <2>5. dwc_otg!RxQueue' = dwc_otg!RxQueue /\ dwc_otg!TxQueue' = dwc_otg!TxQueue
    BY <1>3, <1>4, <1>5, <1>11, <2>1, <2>2, <2>3 DEF dwc_otg!RxQueue, dwc_otg!TxQueue
  <2>6. QED
    BY <1>2, <2>3, <2>4, <2>5, NothingMoves DEF OtgMoves
<1>12. CASE aux \in {{"USBRST"}, {"reset"}}
  <2>1. aux # {"unconfigured"} /\ aux # {} /\ "ENUMDNE" \notin aux
        /\ ("USBRST" \notin aux => aux = {"reset"}) /\ ("USBRST" \in aux => aux = {"USBRST"})
    BY <1>12
  <2>2. ~conf /\ t = tx
    BY <1>3, <2>1
  <2>3. /\ r.fifo = <<>> /\ r.data = <<>> /\ r.ep["ep0"] = dwc_otg!Cleared
        /\ Unused(r.ep["ep2"], r.fifo, r.data) /\ rx' = r
    BY <1>2, <1>3, <1>12
  <2>4. aux' = {"reset"} /\ tx' = dwc_otg!TxCleared
    <3>1. CASE aux = {"USBRST"}
      BY <1>2, <3>1
    <3>2. CASE aux = {"reset"}
      <4>1. "USBRST" \notin aux /\ aux # {"USBRST"} /\ tx = dwc_otg!TxCleared
        BY <3>2, OtgPhases
      <4>2. QED
        BY <1>2, <1>7, <2>1, <2>2, <3>2, <4>1
    <3>3. QED
      BY <1>12, <3>1, <3>2
  <2>5. OtgInv'
    BY <1>3, <1>7, <1>8, <2>3, <2>4, OtgRuns
  <2>6. rx'.ep["ep2"].ring = <<>> /\ rx'.data = <<>>
    BY <2>3, OtgConfigured DEF Unused
  <2>7. <<>> \o <<>> = <<>>
    OBVIOUS
  <2>8. dwc_otg!RxQueue' = <<>> /\ dwc_otg!TxQueue' = <<>>
    BY <1>7, <2>4, <2>6, <2>7 DEF dwc_otg!RxQueue, dwc_otg!TxQueue
  <2>9. CASE aux = {"USBRST"}
    <3>1. fresh' = TRUE
      BY <1>2, <2>9
    <3>2. QED
      BY <1>2, <2>5, <2>8, <3>1 DEF OtgMoves, Moves
  <2>10. CASE aux = {"reset"}
    <3>1. "USBRST" \notin aux /\ aux # {"USBRST"} /\ tx = dwc_otg!TxCleared
      BY <2>10, OtgPhases
    <3>2. fresh' = FALSE
      BY <1>2, <2>2, <3>1
    <3>3. rx.ep["ep2"].ring = <<>> /\ rx.data = <<>>
      BY <1>3, <2>2, <2>3, <2>6, <3>1
    <3>4. dwc_otg!RxQueue = <<>> /\ dwc_otg!TxQueue = <<>>
      BY <1>7, <2>7, <3>1, <3>3 DEF dwc_otg!RxQueue, dwc_otg!TxQueue
    <3>5. QED
      BY <1>2, <2>5, <2>8, <3>2, <3>4, NothingMoves DEF OtgMoves
  <2>11. QED
    BY <1>12, <2>9, <2>10
<1>13. QED
  BY <1>9, <1>10, <1>11, <1>12, OtgPhases

\* The main loop comes round.
LEMMA OtgMainLoop ==
  ASSUME OtgInv, dwc_otg!MainLoop
  PROVE  OtgInv' /\ OtgMoves
<1>1. /\ rx' = rx /\ tx' = tx /\ aux' = aux /\ main' = "usb"
      /\ got' = None /\ sent' = None /\ fresh' = FALSE
  BY DEF dwc_otg!MainLoop, dwc_otg!Quiet
<1>2. OtgInv'
  BY <1>1 DEF OtgInv, Phases, Enumerating
<1>3. dwc_otg!RxQueue' = dwc_otg!RxQueue /\ dwc_otg!TxQueue' = dwc_otg!TxQueue
  BY <1>1 DEF dwc_otg!RxQueue, dwc_otg!TxQueue
<1>4. QED
  BY <1>1, <1>2, <1>3, NothingMoves DEF OtgMoves

\* Every step of this driver is a step of both pipes.
LEMMA OtgStep ==
  ASSUME OtgInv, Rough = {}, dwc_otg!Next
  PROVE  /\ OtgInv'
         /\ Moves(dwc_otg!RxQueue, dwc_otg!RxQueue', got', fresh')
         /\ Moves(dwc_otg!TxQueue, dwc_otg!TxQueue', sent', fresh')
<1>1. CASE dwc_otg!usbd_process
  BY <1>1, OtgProcess DEF OtgMoves
<1>2. CASE dwc_otg!Read \/ (\E p \in Packets : dwc_otg!Write(p)) \/ dwc_otg!MainLoop
  BY <1>2, OtgRead, OtgWrite, OtgMainLoop DEF OtgMoves
<1>3. CASE dwc_otg!BusReset \/ dwc_otg!ResetEnds
  BY <1>3, OtgReset DEF OtgMoves
<1>4. CASE \/ \E p \in Packets, short \in BOOLEAN : dwc_otg!HostOut(p, short)
           \/ dwc_otg!HostIn
  BY <1>4, OtgHostOut, OtgHostIn DEF OtgMoves
<1>5. CASE dwc_otg!HostSetup \/ dwc_otg!HostControlOut
  BY <1>5, OtgHostControl DEF OtgMoves
<1>6. QED
  BY <1>1, <1>2, <1>3, <1>4, <1>5 DEF dwc_otg!Next, dwc_otg!Firmware

\* What usb_process() finds is what it expects.
LEMMA OtgAsserts ==
  ASSUME OtgInv, Rough = {}
  PROVE  dwc_otg!AssertsHold
<1> DEFINE x == Head(rx.fifo)
<1>1. /\ rx \in OtgRx /\ rx.fifo \in Seq(Entry)
      /\ rx.ep["ep0"] \in OtgEp /\ rx.ep["ep2"] \in OtgEp
  BY OtgPhases, OtgParts
<1>2. ASSUME NEW e \in OtgEps, rx.ep[e].xfrc \/ rx.ep[e].stup PROVE rx.ep[e].active
  <2>1. \/ rx.ep[e] = dwc_otg!Cleared
        \/ e = "ep0" /\ ControlRx(rx.ep[e], rx.fifo)
        \/ e = "ep2" /\ TransferInv(rx.ep[e], rx.fifo, rx.data)
    BY OtgPhases DEF OtgEps, Unused
  <2>2. rx.ep[e] # dwc_otg!Cleared
    BY <1>2, OtgConfigured
  <2>3. QED
    BY <1>2, <2>1, <2>2 DEF ControlRx, TransferInv
<1>3. ASSUME NEW conf \in BOOLEAN, conf => dwc_otg!MayConfigure,
             rx.fifo # <<>>, x[1] = "data"
      PROVE  dwc_otg!PacketExpected(dwc_otg!Found(conf).ep[x[2]])
  <2> DEFINE r == dwc_otg!Found(conf)
  <2>1. /\ r \in OtgRx /\ r.fifo = rx.fifo /\ r.data = rx.data
        /\ conf => aux = {"unconfigured"}
        /\ aux \notin {{"USBRST"}, {"reset"}} =>
             /\ ControlRx(r.ep["ep0"], r.fifo)
             /\ ~r.ep["ep0"].xfrc /\ ~r.ep["ep0"].stup
        /\ aux = {} \/ conf => TransferInv(r.ep["ep2"], r.fifo, r.data)
        /\ aux \in {{"ENUMDNE"}, {"unconfigured"}} /\ ~conf =>
             Unused(r.ep["ep2"], r.fifo, r.data)
    BY <1>3, OtgFound
  <2> HIDE DEF r
  <2>2. aux \in {{}, {"ENUMDNE"}, {"unconfigured"}}
    BY <1>3, OtgPhases
  <2>3. aux \notin {{"USBRST"}, {"reset"}}
    BY <2>2
  <2>4. r.ep["ep0"] \in OtgEp /\ r.ep["ep2"] \in OtgEp /\ r.data \in Seq(Item)
    BY <2>1 DEF OtgRx
  <2>5. x \in {DataEntry, ControlData}
    <3>1. x \in Entry
      BY <1>1, <1>3, Popped
    <3> HIDE DEF x
    <3>2. QED
      BY <1>3, <3>1 DEF Entry, DataEntry, EndEntry, ControlData, SetupEnd, OutEnd
  <2>6. CASE x = ControlData
    <3>1. r.ep["ep0"].active /\ Len(r.ep["ep0"].ring) < r.ep["ep0"].nr
      BY <1>1, <1>3, <2>1, <2>3, <2>4, <2>6, ControlPopped
    <3>2. x[2] = "ep0"
      BY <2>6, Entries
    <3> HIDE DEF x
    <3>3. QED
      BY <3>1, <3>2 DEF dwc_otg!PacketExpected, r
  <2>7. CASE x = DataEntry
    <3>1. x[2] = "ep2"
      BY <2>7, Entries
    <3>2. TransferInv(r.ep["ep2"], rx.fifo, r.data)
      <4>1. Unused(r.ep["ep2"], rx.fifo, r.data) => x[2] # "ep2"
        BY <1>1, <1>3, Rest DEF Unused
      <4>2. QED
        BY <2>1, <2>2, <3>1, <4>1
    <3>3. r.ep["ep2"].active /\ Len(r.ep["ep2"].ring) < r.ep["ep2"].nr
      BY <1>1, <1>3, <2>4, <2>7, <3>1, <3>2, TransferPopped
    <3> HIDE DEF x
    <3>4. QED
      BY <3>1, <3>3 DEF dwc_otg!PacketExpected, r
  <2>8. QED
    BY <2>5, <2>6, <2>7
<1>4. QED
  BY <1>2, <1>3, OtgRings DEF dwc_otg!AssertsHold

-----------------------------------------------------------------------------
(* The drivers behind usb.h.                                               *)

DriverInv == /\ drv = "usbd" => UsbdInv
             /\ drv = "usbd_at32" => At32Inv
             /\ drv = "dwc_otg" => OtgInv

RxQueues == ByDriver(usbd!RxQueue, at32!RxQueue, dwc_otg!RxQueue)
TxQueues == ByDriver(usbd!TxQueue, at32!TxQueue, dwc_otg!TxQueue)

\* Whichever driver it is begins with its invariant and empty pipes.
LEMMA DriverInit ==
  ASSUME hw_usb_init
  PROVE  DriverInv /\ OutPipe!Init /\ InPipe!Init
<1>0. got = None /\ sent = None /\ fresh = FALSE
  BY DEF hw_usb_init, usbd!Init, at32!Init, dwc_otg!Init
<1>1. CASE drv = "usbd" /\ usbd!Init
  <2>1. rx = usbd!RxConfigured /\ tx = usbd!TxConfigured /\ main = <<"usb">>
    BY <1>1 DEF usbd!Init
  <2>2. Reading = 0 /\ Writing = 0
    BY <2>1 DEF Reading, Writing
  <2>3. UsbdInv
    BY <2>1, <2>2, UsbdConfigured DEF UsbdInv, UsbdMain
  <2>4. usbd!RxQueue = <<>> /\ usbd!TxQueue = <<>>
    <3>1. usbd!RxQueue = <<>> \o <<>> /\ usbd!TxQueue = <<>> \o <<>>
      <4>1. /\ rx.dtog = 0 /\ rx.sw = 0 /\ ~rx.nak /\ tx.dtog = 0 /\ tx.sw = 1
            /\ tx.buf[0] = Zlp /\ tx.buf[1] = Zlp /\ main # <<"unconfigured">>
        BY <2>1 DEF usbd!RxConfigured, usbd!TxConfigured
      <4>2. (0 + 1 - 1) % 2 = 0 /\ (0 + 2 - 1) % 2 = 1
        OBVIOUS
      <4>3. QED
        BY <4>1, <4>2 DEF usbd!RxQueue, usbd!RxPacket, usbd!RxFull, usbd!TxQueue,
                          usbd!TxPacket, usbd!TxFull, usbd!Configured
    <3>2. QED
      BY <3>1, Empty2
  <2>5. RxQueues = <<>> /\ TxQueues = <<>>
    BY <1>1, <2>4 DEF RxQueues, TxQueues, ByDriver
  <2>6. QED
    BY <1>0, <1>1, <2>3, <2>5
       DEF DriverInv, OutPipe!Init, InPipe!Init, RxQueues, TxQueues
<1>2. CASE drv = "usbd_at32" /\ at32!Init
  <2>1. /\ rx = at32!RxConfigured /\ tx = at32!TxConfigured
        /\ main = <<"app">> /\ aux = <<"idle">>
    BY <1>2 DEF at32!Init
  <2>2. At32Inv
    BY <2>1, At32Configured DEF At32Inv, At32Main, At32Irq
  <2>3. at32!RxQueue = <<>> /\ at32!TxQueue = <<>>
    BY <2>1, At32Configured, At32Queues
  <2>4. RxQueues = <<>> /\ TxQueues = <<>>
    BY <1>2, <2>3 DEF RxQueues, TxQueues, ByDriver
  <2>5. QED
    BY <1>0, <1>2, <2>2, <2>4
       DEF DriverInv, OutPipe!Init, InPipe!Init, RxQueues, TxQueues
<1>3. CASE drv = "dwc_otg" /\ dwc_otg!Init
  <2> DEFINE a == dwc_otg!Configured("ep0")
             b == dwc_otg!Configured("ep2")
             eps == [e \in OtgEps |-> dwc_otg!Configured(e)]
  <2>1. /\ rx = [ep |-> eps, fifo |-> <<>>, data |-> <<>>]
        /\ tx = dwc_otg!TxConfigured /\ main = "usb" /\ aux = {}
    BY <1>3, OtgRings DEF dwc_otg!Init
  <2>2. /\ ControlRx(a, <<>>) /\ a \in OtgEp
        /\ TransferInv(b, <<>>, <<>>) /\ b \in OtgEp /\ b.ring = <<>>
    <3>1. <<>> \in Seq(Entry) /\ Absent(<<>>, "ep2")
      BY DEF Absent
    <3>2. QED
      BY <3>1, OtgConfigured
  <2>3. eps["ep0"] = a /\ eps["ep2"] = b /\ eps \in [OtgEps -> OtgEp]
    <3>1. eps["ep0"] = a /\ eps["ep2"] = b
      BY DEF OtgEps
    <3> HIDE DEF a, b
    <3>2. \A e \in OtgEps : eps[e] \in OtgEp
      BY <2>2, <3>1 DEF OtgEps
    <3>3. QED
      BY <3>1, <3>2
  <2> HIDE DEF a, b, eps
  <2>4. rx \in OtgRx /\ rx.ep = eps /\ rx.fifo = <<>> /\ rx.data = <<>>
    <3>1. <<>> \in Seq(Entry) /\ <<>> \in Seq(Item)
      OBVIOUS
    <3>2. QED
      BY <2>1, <2>3, <3>1 DEF OtgRx, OtgEps
  <2>5. OneSent(tx) /\ tx.pkt = None
    BY <2>1 DEF OneSent, OtgTx, Item, dwc_otg!TxConfigured, dwc_otg!TxCleared
  <2>6. OtgInv
    <3>1. aux # {"USBRST"} /\ aux \notin {{"reset"}, {"ENUMDNE"}, {"unconfigured"}}
      BY <2>1
    <3>2. QED
      BY <2>1, <2>2, <2>3, <2>4, <2>5, <3>1 DEF OtgInv, Phases
  <2>7. dwc_otg!RxQueue = <<>> \o <<>> /\ dwc_otg!TxQueue = <<>>
    BY <2>1, <2>2, <2>3, <2>4, <2>5 DEF dwc_otg!RxQueue, dwc_otg!TxQueue
  <2>8. <<>> \o <<>> = <<>>
    OBVIOUS
  <2>9. RxQueues = <<>> /\ TxQueues = <<>>
    BY <1>3, <2>7, <2>8 DEF RxQueues, TxQueues, ByDriver
  <2>10. QED
    BY <1>0, <1>3, <2>6, <2>9
       DEF DriverInv, OutPipe!Init, InPipe!Init, RxQueues, TxQueues
<1>4. CASE drv = "ep0"
  <2>1. RxQueues = <<>> /\ TxQueues = <<>>
    BY <1>4 DEF RxQueues, TxQueues, ByDriver
  <2>2. QED
    BY <1>0, <1>4, <2>1 DEF DriverInv, OutPipe!Init, InPipe!Init, RxQueues, TxQueues
<1>5. QED
  BY <1>1, <1>2, <1>3, <1>4 DEF hw_usb_init

\* A move is a step of a pipe.
LEMMA OutPipeMoves ==
  ASSUME Moves(RxQueues, RxQueues', got', fresh')
  PROVE  OutPipe!Next
BY DEF Moves, RxQueues, OutPipe!Next, OutPipe!Put, OutPipe!Take, OutPipe!Configure,
       OutPipe!Pass

\* What a driver does to the IN queue is a step of the abstract pipe.
LEMMA InPipeMoves ==
  ASSUME Moves(TxQueues, TxQueues', sent', fresh')
  PROVE  InPipe!Next
BY DEF Moves, TxQueues, InPipe!Next, InPipe!Put, InPipe!Take, InPipe!Configure,
       InPipe!Pass

\* Whichever driver it is keeps its invariant, and steps as the pipes may.
LEMMA DriverStep ==
  ASSUME DriverInv, Rough = {}, [Next]_vars
  PROVE  DriverInv' /\ [OutPipe!Next]_(OutPipe!vars) /\ [InPipe!Next]_(InPipe!vars)
<1>1. CASE Usbd(usbd!Next)
  <2>1. drv = "usbd" /\ drv' = "usbd" /\ UsbdInv /\ usbd!Next
    BY <1>1 DEF Usbd, DriverInv
  <2>2. /\ UsbdInv'
        /\ Moves(usbd!RxQueue, usbd!RxQueue', got', fresh')
        /\ Moves(usbd!TxQueue, usbd!TxQueue', sent', fresh')
    BY <2>1, UsbdStep
  <2>3. /\ RxQueues = usbd!RxQueue /\ RxQueues' = usbd!RxQueue'
        /\ TxQueues = usbd!TxQueue /\ TxQueues' = usbd!TxQueue'
    BY <2>1 DEF RxQueues, TxQueues, ByDriver
  <2>4. OutPipe!Next /\ InPipe!Next
    BY <2>2, <2>3, OutPipeMoves, InPipeMoves
  <2>5. QED
    BY <2>1, <2>2, <2>4 DEF DriverInv
<1>2. CASE At32(at32!Next)
  <2>1. drv = "usbd_at32" /\ drv' = "usbd_at32" /\ At32Inv /\ at32!Next
    BY <1>2 DEF At32, DriverInv
  <2>2. /\ At32Inv'
        /\ Moves(at32!RxQueue, at32!RxQueue', got', fresh')
        /\ Moves(at32!TxQueue, at32!TxQueue', sent', fresh')
    BY <2>1, At32Step
  <2>3. /\ RxQueues = at32!RxQueue /\ RxQueues' = at32!RxQueue'
        /\ TxQueues = at32!TxQueue /\ TxQueues' = at32!TxQueue'
    BY <2>1 DEF RxQueues, TxQueues, ByDriver
  <2>4. OutPipe!Next /\ InPipe!Next
    BY <2>2, <2>3, OutPipeMoves, InPipeMoves
  <2>5. QED
    BY <2>1, <2>2, <2>4 DEF DriverInv
<1>3. CASE Otg(dwc_otg!Next)
  <2>1. drv = "dwc_otg" /\ drv' = "dwc_otg" /\ OtgInv /\ dwc_otg!Next
    BY <1>3 DEF Otg, DriverInv
  <2>2. /\ OtgInv'
        /\ Moves(dwc_otg!RxQueue, dwc_otg!RxQueue', got', fresh')
        /\ Moves(dwc_otg!TxQueue, dwc_otg!TxQueue', sent', fresh')
    BY <2>1, OtgStep
  <2>3. /\ RxQueues = dwc_otg!RxQueue /\ RxQueues' = dwc_otg!RxQueue'
        /\ TxQueues = dwc_otg!TxQueue /\ TxQueues' = dwc_otg!TxQueue'
    BY <2>1 DEF RxQueues, TxQueues, ByDriver
  <2>4. OutPipe!Next /\ InPipe!Next
    BY <2>2, <2>3, OutPipeMoves, InPipeMoves
  <2>5. QED
    BY <2>1, <2>2, <2>4 DEF DriverInv
<1>4. CASE Ep0(control!Next)
  <2>1. /\ drv = "ep0" /\ drv' = "ep0"
        /\ got' = got /\ sent' = sent /\ fresh' = fresh
    BY <1>4 DEF Ep0, bulk
  <2>2. RxQueues = <<>> /\ RxQueues' = <<>> /\ TxQueues = <<>> /\ TxQueues' = <<>>
    BY <2>1 DEF RxQueues, TxQueues, ByDriver
  <2>3. OutPipe!vars' = OutPipe!vars /\ InPipe!vars' = InPipe!vars
    BY <2>1, <2>2 DEF OutPipe!vars, InPipe!vars, RxQueues, TxQueues
  <2>4. QED
    BY <2>1, <2>3 DEF DriverInv
<1>5. CASE UNCHANGED vars
  <2>1. /\ drv' = drv /\ main' = main /\ rx' = rx /\ tx' = tx /\ aux' = aux
        /\ got' = got /\ sent' = sent /\ fresh' = fresh
    BY <1>5 DEF vars, bulk
  <2>2. DriverInv'
    <3>1. UsbdInv => UsbdInv'
      BY <2>1 DEF UsbdInv, Reading, Writing
    <3>2. At32Inv => At32Inv'
      BY <2>1 DEF At32Inv
    <3>3. OtgInv => OtgInv'
      BY <2>1 DEF OtgInv, Phases, Enumerating
    <3>4. QED
      BY <2>1, <3>1, <3>2, <3>3 DEF DriverInv
  <2>3. /\ usbd!RxQueue' = usbd!RxQueue /\ usbd!TxQueue' = usbd!TxQueue
        /\ at32!RxQueue' = at32!RxQueue /\ at32!TxQueue' = at32!TxQueue
        /\ dwc_otg!RxQueue' = dwc_otg!RxQueue /\ dwc_otg!TxQueue' = dwc_otg!TxQueue
    <3>1. usbd!RxQueue' = usbd!RxQueue
      BY <2>1 DEF usbd!RxQueue, usbd!RxPacket, usbd!RxFull
    <3>2. usbd!TxQueue' = usbd!TxQueue
      BY <2>1 DEF usbd!TxQueue, usbd!TxPacket, usbd!TxFull, usbd!Configured
    <3>3. at32!RxQueue' = at32!RxQueue /\ at32!TxQueue' = at32!TxQueue
      BY <2>1 DEF at32!RxQueue, at32!TxQueue
    <3>4. dwc_otg!RxQueue' = dwc_otg!RxQueue /\ dwc_otg!TxQueue' = dwc_otg!TxQueue
      BY <2>1 DEF dwc_otg!RxQueue, dwc_otg!TxQueue
    <3>5. QED
      BY <3>1, <3>2, <3>3, <3>4
  <2>4. RxQueues' = RxQueues /\ TxQueues' = TxQueues
    BY <2>1, <2>3 DEF RxQueues, TxQueues, ByDriver
  <2>5. OutPipe!vars' = OutPipe!vars /\ InPipe!vars' = InPipe!vars
    BY <2>1, <2>4 DEF OutPipe!vars, InPipe!vars, RxQueues, TxQueues
  <2>6. QED
    BY <2>2, <2>5
<1>6. QED
  BY <1>1, <1>2, <1>3, <1>4, <1>5 DEF Next

\* The assertions of hw_dwc_otg.c hold, through bus resets, configurations and
\* whatever comes for endpoint 0, with a host that resets the bus only when
\* the receive FIFO is empty, for longer than the main loop may block, and
\* configures the device once after each reset (Rough = {}); when a reset is
\* met too late they fail, as the run "blocked" shows.
THEOREM RxAssertsHold ==
  ASSUME Rough = {}
  PROVE  Spec => []RxAsserts
<1>1. hw_usb_init => DriverInv
  BY DriverInit
<1>2. DriverInv /\ [Next]_vars => DriverInv'
  BY DriverStep
<1>3. DriverInv => RxAsserts
  BY OtgAsserts DEF DriverInv, RxAsserts
<1>4. QED
  BY <1>1, <1>2, <1>3, PTL DEF Spec

\* ep_tx_ready() says nothing of an IN endpoint of hw_dwc_otg.c while a packet
\* is in its FIFO, with a host that is not Rough.
THEOREM ReadyTrue ==
  ASSUME Rough = {}
  PROVE  Spec => []TxReadyTrue
<1>1. hw_usb_init => DriverInv
  BY DriverInit
<1>2. DriverInv /\ [Next]_vars => DriverInv'
  BY DriverStep
<1>3. DriverInv => TxReadyTrue
  BY DEF DriverInv, OtgInv, OneSent, TxReadyTrue, dwc_otg!ReadyIsFree
<1>4. QED
  BY <1>1, <1>2, <1>3, PTL DEF Spec

\* Packets of the host reach usb_read() whole, once and in order, whichever
\* the driver is; for hw_dwc_otg.c with a host that is not Rough.
THEOREM OutPipeSafe ==
  ASSUME Rough = {}
  PROVE  Spec => OutPipe!Safety
<1>1. hw_usb_init => DriverInv /\ OutPipe!Init
  BY DriverInit
<1>2. DriverInv /\ [Next]_vars => DriverInv'
  BY DriverStep
<1>3. DriverInv /\ [Next]_vars => [OutPipe!Next]_(OutPipe!vars)
  BY DriverStep
<1>4. QED
  BY <1>1, <1>2, <1>3, PTL DEF Spec, OutPipe!Safety

\* Packets given to usb_write() reach the host whole, once and in order; for
\* hw_dwc_otg.c with a host that is not Rough: one that configures the device
\* again has it write over a packet that is still to be sent.
THEOREM InPipeSafe ==
  ASSUME Rough = {}
  PROVE  Spec => InPipe!Safety
<1>1. hw_usb_init => DriverInv /\ InPipe!Init
  BY DriverInit
<1>2. DriverInv /\ [Next]_vars => DriverInv'
  BY DriverStep
<1>3. DriverInv /\ [Next]_vars => [InPipe!Next]_(InPipe!vars)
  BY DriverStep
<1>4. QED
  BY <1>1, <1>2, <1>3, PTL DEF Spec, InPipe!Safety

-----------------------------------------------------------------------------
(* Endpoint 0: core.c over hw_usbd.c.  Where a transfer stands is one of   *)
(* the phases below, each of which relates the host's view of it to the    *)
(* firmware's and to the registers between them.                           *)

\* The smaller of two numbers.
Least(a, b) == IF a <= b THEN a ELSE b

\* What a host asks for has the fields that are looked at.
Asked == Requests \cup {control!NoRequest}
Pkt == [req : Asked, off : Int, len : Int]
Ep0Rec == [req : Asked, data_len : Int, todo : Int, off : Int, trunc : BOOLEAN]
Ep0Hw == [rx : {"VALID", "NAK", "DISABLED"}, tx : {"VALID", "NAK", "STALL", "DISABLED"},
          ctr_rx : BOOLEAN, ctr_tx : BOOLEAN, setup : BOOLEAN, rxpkt : Pkt,
          txpkt : Pkt, reset : BOOLEAN]
Ep0Soft == [rx_ready : BOOLEAN, tx_ready : BOOLEAN, pending_addr : Nat, daddr : Nat,
            baud : Nat]
Ep0Host == [stage : {"idle", "in", "out", "status_in", "status_out"}, req : Asked,
            got : Int, ok : BOOLEAN, addr : Nat]
Ep0Types == /\ ep0 \in Ep0Rec /\ hw \in Ep0Hw /\ soft \in Ep0Soft /\ host \in Ep0Host
            /\ ran \in Nat

\* What the main loop has noticed is still so when it handles it.
Noticed ==
  \/ main = <<"usb">>
  \/ \E k \in {"rx", "tx", "none"}, r \in BOOLEAN :
       /\ main = <<"handle", k, r>>
       /\ r => hw.reset
       /\ k = "rx" => hw.ctr_rx
       /\ k = "tx" => hw.ctr_tx

\* A packet received holds up the next, and usb_write() waits for the one sent.
Turns(h, s) == /\ h.ctr_rx => h.rx # "VALID"
               /\ s.tx_ready <=> h.tx # "VALID" /\ ~h.ctr_tx

\* No transfer since the reset.
Fresh(h, s, o) ==
  /\ o.stage = "idle" /\ o.req = control!NoRequest /\ o.ok
  /\ ~h.ctr_rx /\ ~h.ctr_tx /\ h.tx = "NAK" /\ s.pending_addr = 0

\* The SETUP packet waits; the host may have given up already.
SetupWaits(h, s, o, n) ==
  /\ o.req \in Requests /\ o.got = 0 /\ o.ok /\ n = 0
  /\ h.ctr_rx /\ h.setup /\ ~h.ctr_tx /\ h.tx = "NAK"
  /\ h.rxpkt = control!Packet(o.req, 0, 0) /\ s.pending_addr = 0
  /\ \/ o.stage = "status_in" /\ o.req.wLength = 0
     \/ o.stage = "in" /\ o.req.wLength > 0 /\ o.req.in
     \/ o.stage \in {"out", "idle"} /\ o.req.wLength > 0 /\ ~o.req.in

\* Data comes from the host, until it gives up or all of it is on the way.
Receiving(e, h, s, o, n) ==
  /\ ~e.req.in /\ o.ok /\ n = 0 /\ s.pending_addr = 0 /\ e.todo = -1
  /\ ~h.ctr_tx /\ h.tx = "NAK" /\ (h.ctr_rx => ~h.setup)
  /\ e.data_len >= 0 /\ e.data_len < e.req.wLength
  /\ \/ /\ ~h.ctr_rx /\ o.got = e.data_len /\ o.stage \in {"out", "idle"}
     \/ /\ h.ctr_rx /\ o.got = e.data_len + h.rxpkt.len /\ h.rxpkt.len >= 0
        /\ \/ o.stage \in {"out", "idle"} /\ o.got < e.req.wLength
           \/ o.stage = "status_in" /\ o.got = e.req.wLength

\* The reply goes out: a packet is in the hardware, or the last one was taken.
Replying(e, h, s, o) ==
  /\ e.req.do = "GET" /\ o.stage = "in" /\ o.ok /\ s.pending_addr = 0
  /\ e.data_len = control!Reply(e.req)
  /\ e.trunc <=> e.data_len < e.req.wLength
  /\ ~h.ctr_rx /\ o.got >= 0 /\ o.got <= e.data_len /\ o.got < e.req.wLength
  /\ \/ LET len == Least(e.data_len - o.got, control!Mps)
            left == e.data_len - o.got - len
        IN /\ h.tx = "VALID" /\ ~h.ctr_tx
           /\ h.txpkt = control!Packet(e.req, o.got, len)
           /\ e.off = o.got + len
           /\ e.todo = IF control!Over(e.trunc, left, len) THEN -1 ELSE left
     \/ h.tx = "NAK" /\ h.ctr_tx /\ e.off = o.got /\ e.todo = e.data_len - o.got

\* The host has all of the reply, and says so.
Replied(e, h, s, o) ==
  /\ e.req.do = "GET" /\ o.ok /\ s.pending_addr = 0 /\ e.todo = -1
  /\ o.got = control!Reply(e.req) /\ h.tx = "NAK"
  /\ \/ o.stage = "status_out" /\ ~h.ctr_rx /\ e.data_len >= 0
     \/ o.stage = "idle" /\ ~h.ctr_rx
     \/ o.stage = "idle" /\ h.ctr_rx /\ ~h.setup /\ e.data_len >= 0

\* The request is carried out, and its status in the hardware or taken.
Acknowledged(e, h, s, o, n) ==
  /\ control!Known(e.req) /\ o.ok /\ e.todo = -1 /\ ~h.ctr_rx
  /\ IF e.req.in THEN e.req.do = "GET" /\ o.got = control!Reply(e.req)
                 ELSE n = 1 /\ o.got = e.req.wLength
  /\ \/ /\ o.stage = "status_in" /\ h.tx = "VALID" /\ ~h.ctr_tx /\ h.txpkt.len = 0
        /\ s.pending_addr # 0 =>
             e.req.do = "SET_ADDRESS" /\ s.pending_addr = e.req.addr
     \/ /\ o.stage = "idle" /\ h.tx = "NAK"
        /\ s.pending_addr # 0 => h.ctr_tx /\ s.pending_addr = o.addr

\* The request is not known, and stalled.
Refused(e, h, s, o, n) ==
  /\ ~control!Known(e.req) /\ n = 0 /\ h.tx = "STALL" /\ ~h.ctr_rx /\ ~h.ctr_tx
  /\ s.pending_addr = 0
  /\ \/ o.stage \in {"in", "status_in"} /\ o.ok
     \/ o.stage = "idle" /\ ~o.ok

\* A transfer under way, or the last one.
Phase(e, h, s, o, n) ==
  \/ Fresh(h, s, o)
  \/ SetupWaits(h, s, o, n)
  \/ /\ e.req = o.req /\ o.req \in Requests
     /\ \/ Receiving(e, h, s, o, n) \/ Replying(e, h, s, o) \/ Replied(e, h, s, o)
        \/ Acknowledged(e, h, s, o, n) \/ Refused(e, h, s, o, n)

Ep0Inv ==
  /\ Ep0Types /\ Noticed
  /\ IF hw.reset THEN host = control!Idle
     ELSE Turns(hw, soft) /\ Phase(ep0, hw, soft, host, ran)

ControlInv == IF drv = "ep0" THEN Ep0Inv ELSE host = control!Idle

\* What the handlers of core.c work on.
Ep0Dev == [ep0 : Ep0Rec, hw : Ep0Hw, soft : Ep0Soft, ran : Nat]

\* The smaller of two numbers.
LEMMA MinOf ==
  ASSUME NEW a \in Int, NEW b \in Int
  PROVE  /\ Min({a, b}) = Least(a, b) /\ control!Min({a, b}) = Least(a, b)
         /\ Least(a, b) \in Int
<1> DEFINE m == Least(a, b)
<1>1. m \in {a, b} /\ \A x \in {a, b} : m <= x
  BY DEF Least
<1>2. \A n \in {a, b} : (\A x \in {a, b} : n <= x) => n = m
  BY <1>1
<1> HIDE DEF m
<1>3. Min({a, b}) = m /\ control!Min({a, b}) = m
  BY <1>1, <1>2 DEF Min, control!Min
<1>4. QED
  BY <1>1, <1>3 DEF m

\* What is known of a request, whether there is one or not.
LEMMA AskedParts ==
  ASSUME NEW r \in Asked
  PROVE  /\ r.in \in BOOLEAN /\ r.wLength \in Nat
         /\ r.do = "GET" => r.in /\ r.len \in Nat /\ control!Reply(r) \in Nat
                            /\ control!Reply(r) <= r.wLength
         /\ r.do = "SET_ADDRESS" => r.addr \in Nat
         /\ r.do = "SET_LINE_CODING" => r.baud \in Nat
         /\ r \in Requests /\ r.in => r.do \in {"GET", "UNKNOWN"}
<1>1. CASE r = control!NoRequest
  BY <1>1, RequestAssumption DEF control!NoRequest
<1>2. CASE r \in Requests
  <2>1. /\ r.in \in BOOLEAN /\ r.wLength \in Nat
        /\ r.do = "GET" => r.in /\ r.len \in Nat
        /\ r.do = "SET_ADDRESS" => r.addr \in Nat
        /\ r.do = "SET_LINE_CODING" => r.baud \in Nat
        /\ r.in => r.do \in {"GET", "UNKNOWN"}
    BY <1>2, RequestAssumption
  <2>2. ASSUME r.do = "GET"
        PROVE  control!Reply(r) \in Nat /\ control!Reply(r) <= r.wLength
    <3>1. r.len \in Int /\ r.wLength \in Int /\ r.len >= 0 /\ r.wLength >= 0
      BY <2>1, <2>2
    <3>2. control!Reply(r) = Least(r.len, r.wLength)
      BY <3>1, MinOf DEF control!Reply
    <3>3. QED
      BY <3>1, <3>2 DEF Least
  <2>3. QED
    BY <2>1, <2>2
<1>3. QED
  BY <1>1, <1>2 DEF Asked

\* What usb_write_ep0() does to its parts: the next packet goes to the hardware.
LEMMA WriteParts ==
  ASSUME NEW e \in Ep0Rec, NEW h \in Ep0Hw, NEW s \in Ep0Soft, NEW n \in Nat,
         e.todo >= 0, s.tx_ready
  PROVE  LET d == [ep0 |-> e, hw |-> h, soft |-> s, ran |-> n]
             len == Least(e.todo, control!Mps)
             left == e.todo - len
             todo == IF control!Over(e.trunc, left, len) THEN -1 ELSE left
             p == control!Packet(e.req, e.off, len)
         IN /\ p \in Pkt /\ len \in Int /\ todo \in Int
            /\ control!usb_write_ep0(d) =
                 [ep0 |-> [e EXCEPT !.off = e.off + len, !.todo = todo],
                  hw |-> [h EXCEPT !.txpkt = p, !.tx = "VALID"],
                  soft |-> [s EXCEPT !.tx_ready = FALSE], ran |-> n]
<1> DEFINE d == [ep0 |-> e, hw |-> h, soft |-> s, ran |-> n]
           len == Least(e.todo, control!Mps)
           left == e.todo - len
           todo == IF control!Over(e.trunc, left, len) THEN -1 ELSE left
           p == control!Packet(e.req, e.off, len)
<1>1. e.todo \in Int /\ e.off \in Int /\ e.req \in Asked
  BY DEF Ep0Rec
<1>2. control!Min({e.todo, control!Mps}) = len /\ len \in Int
  BY <1>1, MinOf DEF control!Mps
<1> HIDE DEF len
<1>3. todo \in Int /\ p \in Pkt
  BY <1>1, <1>2 DEF Pkt, control!Packet
<1>4. /\ control!usb_write(d, len) =
           [d EXCEPT !.hw.txpkt = p, !.hw.tx = "VALID", !.soft.tx_ready = FALSE]
  BY DEF control!usb_write
<1>5. control!usb_write(d, len) =
           [ep0 |-> e, hw |-> [h EXCEPT !.txpkt = p, !.tx = "VALID"],
            soft |-> [s EXCEPT !.tx_ready = FALSE], ran |-> n]
  BY <1>4
<1>6. control!usb_write_ep0(d) = [control!usb_write(d, len) EXCEPT
                                    !.ep0.off = @ + len, !.ep0.todo = todo]
  <2>1. d.ep0 = e /\ d.soft = s
    OBVIOUS
  <2> HIDE DEF d
  <2>2. ~(d.ep0.todo < 0 \/ ~d.soft.tx_ready)
    BY <1>1, <2>1
  <2>3. control!Min({d.ep0.todo, control!Mps}) = len
    BY <1>2, <2>1
  <2>4. todo = IF control!Over(d.ep0.trunc, d.ep0.todo - len, len) THEN -1
               ELSE d.ep0.todo - len
    BY <2>1
  <2> HIDE DEF todo
  <2>5. QED
    BY <2>2, <2>3, <2>4 DEF control!usb_write_ep0
<1> DEFINE u == control!usb_write(d, len)
           g == [h EXCEPT !.txpkt = p, !.tx = "VALID"]
           t == [s EXCEPT !.tx_ready = FALSE]
<1> HIDE DEF p, todo, g, t
<1>7. control!usb_write_ep0(d) =
        [ep0 |-> [e EXCEPT !.off = e.off + len, !.todo = todo],
         hw |-> g, soft |-> t, ran |-> n]
  <2>1. u = [ep0 |-> e, hw |-> g, soft |-> t, ran |-> n]
    BY <1>5 DEF g, t
  <2> HIDE DEF d, u
  <2>2. control!usb_write_ep0(d) = [u EXCEPT !.ep0.off = @ + len, !.ep0.todo = todo]
    BY <1>6 DEF u
  <2>3. [u EXCEPT !.ep0.off = @ + len, !.ep0.todo = todo] =
           [u EXCEPT !.ep0 = [e EXCEPT !.off = e.off + len, !.todo = todo]]
    BY <2>1 DEF Ep0Rec
  <2>4. QED
    BY <2>1, <2>2, <2>3
<1>8. QED
  BY <1>2, <1>3, <1>7 DEF len, todo, p, g, t

\* A device from its parts.
Made(e, h, s, n) == [ep0 |-> e, hw |-> h, soft |-> s, ran |-> n]

\* A device has the parts it was made from, and is made of its parts.
LEMMA MadeParts ==
  ASSUME NEW e \in Ep0Rec, NEW h \in Ep0Hw, NEW s \in Ep0Soft, NEW n \in Nat
  PROVE  /\ Made(e, h, s, n) \in Ep0Dev
         /\ Made(e, h, s, n).ep0 = e /\ Made(e, h, s, n).hw = h
         /\ Made(e, h, s, n).soft = s /\ Made(e, h, s, n).ran = n
BY DEF Made, Ep0Dev

\* The parts of a device have their types.
LEMMA DevParts ==
  ASSUME NEW d \in Ep0Dev
  PROVE  /\ d.ep0 \in Ep0Rec /\ d.hw \in Ep0Hw /\ d.soft \in Ep0Soft /\ d.ran \in Nat
         /\ d = Made(d.ep0, d.hw, d.soft, d.ran)
BY DEF Made, Ep0Dev

\* What the handlers of endpoint 0 leave alone.
Keeps(u, d) ==
  /\ u.ep0.req = d.ep0.req
  /\ u.hw.rx = d.hw.rx /\ u.hw.ctr_rx = d.hw.ctr_rx /\ u.hw.ctr_tx = d.hw.ctr_tx
  /\ u.hw.setup = d.hw.setup /\ u.hw.rxpkt = d.hw.rxpkt /\ u.hw.reset = d.hw.reset
  /\ u.soft.daddr = d.soft.daddr

\* What usb_write_ep0() does: nothing, or the next packet goes to the hardware.
LEMMA WriteEp0 ==
  ASSUME NEW d \in Ep0Dev
  PROVE  LET w == control!usb_write_ep0(d)
             len == Least(d.ep0.todo, control!Mps)
             left == d.ep0.todo - len
         IN /\ w \in Ep0Dev /\ Keeps(w, d) /\ w.ran = d.ran
            /\ w.ep0.data_len = d.ep0.data_len /\ w.ep0.trunc = d.ep0.trunc
            /\ w.soft.pending_addr = d.soft.pending_addr
            /\ d.ep0.todo < 0 => w = d
            /\ d.ep0.todo >= 0 /\ d.soft.tx_ready =>
                 /\ w.hw.tx = "VALID" /\ ~w.soft.tx_ready
                 /\ w.hw.txpkt = control!Packet(d.ep0.req, d.ep0.off, len)
                 /\ w.ep0.off = d.ep0.off + len
                 /\ w.ep0.todo = IF control!Over(d.ep0.trunc, left, len) THEN -1 ELSE left
<1> DEFINE e == d.ep0
           h == d.hw
           s == d.soft
           n == d.ran
           w == control!usb_write_ep0(d)
           len == Least(e.todo, control!Mps)
           left == e.todo - len
           todo == IF control!Over(e.trunc, left, len) THEN -1 ELSE left
           p == control!Packet(e.req, e.off, len)
           e2 == [e EXCEPT !.off = e.off + len, !.todo = todo]
           h2 == [h EXCEPT !.txpkt = p, !.tx = "VALID"]
           s2 == [s EXCEPT !.tx_ready = FALSE]
<1>1. /\ e \in Ep0Rec /\ h \in Ep0Hw /\ s \in Ep0Soft /\ n \in Nat
      /\ d = Made(e, h, s, n)
  BY DevParts
<1>2. e.todo \in Int /\ e.off \in Int /\ s.tx_ready \in BOOLEAN
  BY <1>1 DEF Ep0Rec, Ep0Soft
<1>3. CASE e.todo >= 0 /\ s.tx_ready
  <2>1. p \in Pkt /\ len \in Int /\ todo \in Int /\ w = Made(e2, h2, s2, n)
    <3> HIDE DEF e, h, s, n
    <3>1. control!usb_write_ep0(Made(e, h, s, n)) = Made(e2, h2, s2, n)
      BY <1>1, <1>3, WriteParts DEF Made
    <3>2. p \in Pkt /\ len \in Int /\ todo \in Int
      BY <1>1, <1>3, WriteParts
    <3>3. QED
      BY <1>1, <3>1, <3>2
  <2> HIDE DEF w, len, left, todo, p, e, h, s, n
  <2>2. e2 \in Ep0Rec /\ h2 \in Ep0Hw /\ s2 \in Ep0Soft
    <3>1. e2 \in Ep0Rec
      <4>1. e.off + len \in Int
        BY <1>2, <2>1
      <4>2. QED
        BY <1>1, <2>1, <4>1 DEF Ep0Rec
    <3>2. h2 \in Ep0Hw
      BY <1>1, <2>1 DEF Ep0Hw
    <3>3. s2 \in Ep0Soft
      BY <1>1 DEF Ep0Soft
    <3>4. QED
      BY <3>1, <3>2, <3>3
  <2>3. /\ e2.req = e.req /\ e2.data_len = e.data_len /\ e2.trunc = e.trunc
        /\ e2.off = e.off + len /\ e2.todo = todo
    BY <1>1 DEF Ep0Rec
  <2>4. /\ h2.rx = h.rx /\ h2.ctr_rx = h.ctr_rx /\ h2.ctr_tx = h.ctr_tx
        /\ h2.setup = h.setup /\ h2.rxpkt = h.rxpkt /\ h2.reset = h.reset
        /\ h2.tx = "VALID" /\ h2.txpkt = p
    BY <1>1 DEF Ep0Hw
  <2>5. /\ s2.pending_addr = s.pending_addr /\ s2.daddr = s.daddr /\ ~s2.tx_ready
    BY <1>1 DEF Ep0Soft
  <2> HIDE DEF e2, h2, s2
  <2>6. /\ w \in Ep0Dev /\ w.ep0 = e2 /\ w.hw = h2 /\ w.soft = s2 /\ w.ran = n
    BY <1>1, <2>1, <2>2, MadeParts
  <2>7. Keeps(w, d)
    BY <2>3, <2>4, <2>5, <2>6 DEF Keeps, e, h, s
  <2>8. w = d \/ ~(e.todo < 0)
    BY <1>2, <1>3
  <2>9. QED
    BY <2>3, <2>4, <2>5, <2>6, <2>7, <2>8 DEF w, e, h, s, n, len, left, todo, p
<1>4. CASE ~(e.todo >= 0 /\ s.tx_ready)
  <2>1. w = d
    BY <1>2, <1>4 DEF control!usb_write_ep0
  <2>2. Keeps(d, d)
    BY DEF Keeps
  <2>3. QED
    BY <1>4, <2>1, <2>2
<1>5. QED
  BY <1>3, <1>4

\* usb_read() makes room for the next packet.
LEMMA ReadEp0 ==
  ASSUME NEW d \in Ep0Dev
  PROVE  LET w == control!usb_read(d)
         IN /\ w \in Ep0Dev /\ w.ep0 = d.ep0 /\ w.ran = d.ran
            /\ w.hw.rx = "VALID" /\ w.hw.tx = d.hw.tx
            /\ w.hw.ctr_rx = d.hw.ctr_rx /\ w.hw.ctr_tx = d.hw.ctr_tx
            /\ w.hw.reset = d.hw.reset
            /\ w.soft.tx_ready = d.soft.tx_ready /\ w.soft.daddr = d.soft.daddr
            /\ w.soft.pending_addr = d.soft.pending_addr
<1>1. PICK e \in Ep0Rec, h \in Ep0Hw, s \in Ep0Soft, n \in Nat : d = Made(e, h, s, n)
  BY DevParts
<1>2. control!Nothing \in Pkt
  BY DEF control!Nothing, control!Packet, Pkt, Asked
<1> DEFINE h2 == [h EXCEPT !.rx = "VALID", !.rxpkt = control!Nothing]
           s2 == [s EXCEPT !.rx_ready = FALSE]
           w == control!usb_read(d)
<1>3. w = Made(e, h2, s2, n)
  <2>1. control!usb_read(Made(e, h, s, n)) = Made(e, h2, s2, n)
    <3> DEFINE r == [ep0 |-> e, hw |-> h, soft |-> s, ran |-> n]
    <3>1. control!usb_read(r) = [r EXCEPT !.soft.rx_ready = FALSE, !.hw.rx = "VALID",
                                          !.hw.rxpkt = control!Nothing]
      BY DEF control!usb_read
    <3>2. control!usb_read(r) = [ep0 |-> e, hw |-> h2, soft |-> s2, ran |-> n]
      BY <3>1
    <3>3. QED
      BY <3>2 DEF Made
  <2>2. QED
    BY <1>1, <2>1
<1>4. /\ h2 \in Ep0Hw /\ h2.rx = "VALID" /\ h2.tx = h.tx /\ h2.ctr_rx = h.ctr_rx
      /\ h2.ctr_tx = h.ctr_tx /\ h2.reset = h.reset
  BY <1>2 DEF Ep0Hw
<1>5. /\ s2 \in Ep0Soft /\ s2.tx_ready = s.tx_ready /\ s2.daddr = s.daddr
      /\ s2.pending_addr = s.pending_addr
  BY DEF Ep0Soft
<1> HIDE DEF h2, s2, w
<1>6. w \in Ep0Dev /\ w.ep0 = e /\ w.hw = h2 /\ w.soft = s2 /\ w.ran = n
  BY <1>3, <1>4, <1>5, MadeParts
<1>7. d.ep0 = e /\ d.hw = h /\ d.soft = s /\ d.ran = n
  BY <1>1, MadeParts
<1>8. QED
  BY <1>4, <1>5, <1>6, <1>7 DEF w

\* usb_stall() is for what comes next, and the rest stays.
LEMMA StallEp0 ==
  ASSUME NEW d \in Ep0Dev
  PROVE  LET w == control!usb_stall(d)
         IN /\ w \in Ep0Dev /\ w.ep0 = d.ep0 /\ w.soft = d.soft /\ w.ran = d.ran
            /\ w.hw.tx = "STALL" /\ Keeps(w, d)
<1> DEFINE h2 == [d.hw EXCEPT !.tx = "STALL"]
           w == control!usb_stall(d)
<1>1. /\ d.ep0 \in Ep0Rec /\ d.hw \in Ep0Hw /\ d.soft \in Ep0Soft /\ d.ran \in Nat
      /\ d = Made(d.ep0, d.hw, d.soft, d.ran)
  BY DevParts
<1>2. w = Made(d.ep0, h2, d.soft, d.ran)
  <2> DEFINE e == d.ep0
             h == d.hw
             s == d.soft
             n == d.ran
  <2> HIDE DEF e, h, s, n
  <2>1. control!usb_stall(Made(e, h, s, n)) = Made(e, [h EXCEPT !.tx = "STALL"], s, n)
    BY DEF control!usb_stall, Made
  <2>2. d = Made(e, h, s, n)
    BY <1>1 DEF e, h, s, n
  <2>3. QED
    BY <2>1, <2>2 DEF e, h, s, n
<1>3. /\ h2 \in Ep0Hw /\ h2.tx = "STALL" /\ h2.rx = d.hw.rx /\ h2.ctr_rx = d.hw.ctr_rx
      /\ h2.ctr_tx = d.hw.ctr_tx /\ h2.setup = d.hw.setup /\ h2.rxpkt = d.hw.rxpkt
      /\ h2.reset = d.hw.reset
  BY <1>1 DEF Ep0Hw
<1> HIDE DEF h2, w
<1>4. /\ w \in Ep0Dev /\ w.ep0 = d.ep0 /\ w.hw = h2 /\ w.soft = d.soft /\ w.ran = d.ran
  BY <1>1, <1>2, <1>3, MadeParts
<1>5. QED
  BY <1>3, <1>4 DEF Keeps, w

\* core.c changes its own record: the rest stays.
LEMMA Ep0Becomes ==
  ASSUME NEW d \in Ep0Dev, NEW e \in Ep0Rec
  PROVE  LET w == [d EXCEPT !.ep0 = e]
         IN w \in Ep0Dev /\ w.ep0 = e /\ w.hw = d.hw /\ w.soft = d.soft /\ w.ran = d.ran
BY DEF Ep0Dev

\* A transfer that is complete is still for its request.
LEMMA CompleteEp0 ==
  ASSUME NEW e \in Ep0Rec
  PROVE  LET f == control!Complete(e)
         IN /\ f \in Ep0Rec /\ f.req = e.req /\ f.todo = e.todo /\ f.data_len = -1
            /\ f.off = e.off /\ f.trunc = e.trunc
<1> DEFINE z == -1
<1>1. z \in Int
  OBVIOUS
<1>2. control!Complete(e) = [e EXCEPT !.data_len = z]
  BY DEF control!Complete
<1> HIDE DEF z
<1>3. QED
  BY <1>1, <1>2 DEF Ep0Rec, z

\* What carrying out a request changes.
LEMMA HandledEp0 ==
  ASSUME NEW d \in Ep0Dev
  PROVE  LET u == control!handle_control_request(d)
             r == d.ep0.req
         IN /\ u \in Ep0Dev /\ u.hw = d.hw /\ u.ran = d.ran + 1
            /\ u.ep0 = IF r.do = "GET" THEN [d.ep0 EXCEPT !.data_len = control!Reply(r)]
                       ELSE d.ep0
            /\ u.soft.tx_ready = d.soft.tx_ready /\ u.soft.daddr = d.soft.daddr
            /\ u.soft.pending_addr = IF r.do = "SET_ADDRESS" THEN r.addr
                                     ELSE d.soft.pending_addr
<1>1. PICK e \in Ep0Rec, h \in Ep0Hw, s \in Ep0Soft, n \in Nat : d = Made(e, h, s, n)
  BY DevParts
<1>2. d.ep0 = e /\ d.hw = h /\ d.soft = s /\ d.ran = n
  BY <1>1, MadeParts
<1> DEFINE r == e.req
           x == [ep0 |-> e, hw |-> h, soft |-> s, ran |-> n]
           m == n + 1
           data == [ep0 |-> e, hw |-> h, soft |-> s, ran |-> m]
           u == control!handle_control_request(d)
<1>3. /\ r \in Asked /\ m \in Nat
      /\ r.do = "GET" => control!Reply(r) \in Int
      /\ r.do = "SET_ADDRESS" => r.addr \in Nat
      /\ r.do = "SET_LINE_CODING" => r.baud \in Nat
  <2>1. r \in Asked
    BY DEF Ep0Rec
  <2>2. QED
    BY <2>1, AskedParts
<1>4. [x EXCEPT !.ran = @ + 1] = data
  OBVIOUS
<1>5. d = x
  BY <1>1 DEF Made
<1>6. x.ep0.req = r
  OBVIOUS
<1> HIDE DEF r, x, u, m
<1>7. CASE r.do = "GET"
  <2> DEFINE e2 == [e EXCEPT !.data_len = control!Reply(r)]
  <2>1. control!handle_control_request(x) = [data EXCEPT !.ep0.data_len = control!Reply(r)]
    BY <1>4, <1>6, <1>7 DEF control!handle_control_request
  <2>2. [data EXCEPT !.ep0.data_len = control!Reply(r)] =
          [ep0 |-> e2, hw |-> h, soft |-> s, ran |-> m]
    OBVIOUS
  <2>3. e2 \in Ep0Rec
    BY <1>3, <1>7 DEF Ep0Rec
  <2> HIDE DEF e2, data
  <2>4. u = Made(e2, h, s, m)
    BY <1>5, <2>1, <2>2 DEF u, Made
  <2>5. u \in Ep0Dev /\ u.ep0 = e2 /\ u.hw = h /\ u.soft = s /\ u.ran = m
    BY <1>3, <2>3, <2>4, MadeParts
  <2>6. QED
    BY <1>2, <1>7, <2>5 DEF e2, u, r, m
<1>8. CASE r.do = "SET_ADDRESS"
  <2> DEFINE s2 == [s EXCEPT !.pending_addr = r.addr]
  <2>1. control!handle_control_request(x) = [data EXCEPT !.soft = control!setaddr(s, r)]
    BY <1>4, <1>6, <1>8 DEF control!handle_control_request
  <2>2. [data EXCEPT !.soft = control!setaddr(s, r)] =
          [ep0 |-> e, hw |-> h, soft |-> s2, ran |-> m]
    BY DEF control!setaddr
  <2>3. /\ s2 \in Ep0Soft /\ s2.tx_ready = s.tx_ready /\ s2.daddr = s.daddr
        /\ s2.pending_addr = r.addr
    BY <1>3, <1>8 DEF Ep0Soft
  <2> HIDE DEF s2, data
  <2>4. u = Made(e, h, s2, m)
    BY <1>5, <2>1, <2>2 DEF u, Made
  <2>5. u \in Ep0Dev /\ u.ep0 = e /\ u.hw = h /\ u.soft = s2 /\ u.ran = m
    BY <1>3, <2>3, <2>4, MadeParts
  <2>6. QED
    BY <1>2, <1>8, <2>3, <2>5 DEF u, r, m
<1>9. CASE r.do = "SET_LINE_CODING"
  <2> DEFINE s2 == [s EXCEPT !.baud = r.baud]
  <2>1. control!handle_control_request(x) =
          [data EXCEPT !.soft = control!cdc_acm_handle_class_request(s, r)]
    BY <1>4, <1>6, <1>9 DEF control!handle_control_request
  <2>2. [data EXCEPT !.soft = control!cdc_acm_handle_class_request(s, r)] =
          [ep0 |-> e, hw |-> h, soft |-> s2, ran |-> m]
    BY DEF control!cdc_acm_handle_class_request
  <2>3. /\ s2 \in Ep0Soft /\ s2.tx_ready = s.tx_ready /\ s2.daddr = s.daddr
        /\ s2.pending_addr = s.pending_addr
    BY <1>3, <1>9 DEF Ep0Soft
  <2> HIDE DEF s2, data
  <2>4. u = Made(e, h, s2, m)
    BY <1>5, <2>1, <2>2 DEF u, Made
  <2>5. u \in Ep0Dev /\ u.ep0 = e /\ u.hw = h /\ u.soft = s2 /\ u.ran = m
    BY <1>3, <2>3, <2>4, MadeParts
  <2>6. QED
    BY <1>2, <1>9, <2>3, <2>5 DEF u, r, m
<1>10. CASE r.do \notin {"GET", "SET_ADDRESS", "SET_LINE_CODING"}
  <2>1. control!handle_control_request(x) = data
    BY <1>4, <1>6, <1>10 DEF control!handle_control_request
  <2>2. u = Made(e, h, s, m)
    BY <1>5, <2>1 DEF u, Made
  <2>3. u \in Ep0Dev /\ u.ep0 = e /\ u.hw = h /\ u.soft = s /\ u.ran = m
    BY <1>3, <2>2, MadeParts
  <2>4. QED
    BY <1>2, <1>10, <2>3 DEF u, r, m
<1>11. QED
  BY <1>7, <1>8, <1>9, <1>10

\* The first packet of the reply goes to the hardware.
LEMMA ReplySent ==
  ASSUME NEW d \in Ep0Dev
  PROVE  LET u == control!SendReply(d)
             size == d.ep0.data_len
             len == Least(size, control!Mps)
             left == size - len
         IN /\ u \in Ep0Dev /\ Keeps(u, d) /\ u.ran = d.ran /\ u.ep0.data_len = size
            /\ u.ep0.trunc <=> size < d.ep0.req.wLength
            /\ u.soft.pending_addr = d.soft.pending_addr
            /\ d.soft.tx_ready /\ size >= 0 =>
                 /\ u.hw.tx = "VALID" /\ ~u.soft.tx_ready
                 /\ u.hw.txpkt = control!Packet(d.ep0.req, 0, len) /\ u.ep0.off = len
                 /\ u.ep0.todo = IF control!Over(u.ep0.trunc, left, len) THEN -1 ELSE left
<1> DEFINE size == d.ep0.data_len
           short == size < d.ep0.req.wLength
           e2 == [d.ep0 EXCEPT !.todo = size, !.off = 0, !.trunc = short]
           d2 == [d EXCEPT !.ep0 = e2]
           u == control!SendReply(d)
<1>1. /\ d.ep0 \in Ep0Rec /\ size \in Int
  BY DevParts DEF Ep0Rec
<1>2. /\ e2 \in Ep0Rec /\ e2.todo = size /\ e2.off = 0 /\ (e2.trunc <=> short)
      /\ e2.req = d.ep0.req /\ e2.data_len = size
  <2>1. short \in BOOLEAN
    OBVIOUS
  <2> HIDE DEF short, size
  <2>2. e2 \in Ep0Rec
    <3> DEFINE f == [d.ep0 EXCEPT !.todo = size, !.off = 0]
    <3>1. f \in Ep0Rec
      <4> DEFINE z == 0
      <4>1. z \in Int
        OBVIOUS
      <4> HIDE DEF z
      <4>2. [d.ep0 EXCEPT !.todo = size, !.off = z] \in Ep0Rec
        BY <1>1, <4>1 DEF Ep0Rec
      <4>3. QED
        BY <4>2 DEF z
    <3>2. e2 = [f EXCEPT !.trunc = short]
      OBVIOUS
    <3> HIDE DEF f, e2
    <3>3. QED
      BY <2>1, <3>1, <3>2 DEF Ep0Rec
  <2>3. e2.todo = size /\ e2.off = 0 /\ e2.trunc = short
    BY <1>1 DEF Ep0Rec
  <2>4. e2.req = d.ep0.req /\ e2.data_len = d.ep0.data_len
    BY <1>1 DEF Ep0Rec
  <2>5. QED
    BY <2>2, <2>3, <2>4 DEF size
<1>3. u = control!usb_write_ep0(d2)
  <2>1. [d EXCEPT !.ep0.todo = d.ep0.data_len, !.ep0.off = 0,
                  !.ep0.trunc = d.ep0.data_len < d.ep0.req.wLength] = d2
    OBVIOUS
  <2>2. QED
    BY <2>1 DEF control!SendReply
<1> HIDE DEF e2, short, u
<1>4. /\ d2 \in Ep0Dev /\ d2.ep0 = e2 /\ d2.hw = d.hw /\ d2.soft = d.soft /\ d2.ran = d.ran
  BY <1>2, Ep0Becomes
<1> HIDE DEF d2
<1> DEFINE w == control!usb_write_ep0(d2)
           len == Least(size, control!Mps)
           left == size - len
<1>5. /\ w \in Ep0Dev /\ Keeps(w, d2) /\ w.ran = d2.ran
      /\ w.ep0.data_len = d2.ep0.data_len /\ (w.ep0.trunc <=> d2.ep0.trunc)
      /\ w.soft.pending_addr = d2.soft.pending_addr
      /\ d.soft.tx_ready /\ size >= 0 =>
           /\ w.hw.tx = "VALID" /\ ~w.soft.tx_ready
           /\ w.hw.txpkt = control!Packet(e2.req, 0, len) /\ w.ep0.off = 0 + len
           /\ w.ep0.todo = IF control!Over(d2.ep0.trunc, left, len) THEN -1 ELSE left
  <2>1. d2.ep0.todo = size /\ d2.ep0.off = 0 /\ d2.soft = d.soft
    BY <1>2, <1>4
  <2> HIDE DEF size
  <2>2. QED
    BY <1>4, <2>1, WriteEp0
<1>6. len \in Int
  BY <1>1 DEF Least, control!Mps
<1> HIDE DEF w, len
<1>7. w.ep0.trunc = d2.ep0.trunc
  BY <1>4, <1>5, DevParts DEF Ep0Rec
<1>8. u = w
  BY <1>3 DEF w
<1>9. Keeps(u, d)
  BY <1>2, <1>4, <1>5, <1>8 DEF Keeps
<1>10. /\ d.soft.tx_ready /\ size >= 0 => u.ep0.off = len
       /\ u.ep0.trunc <=> short
  BY <1>2, <1>4, <1>5, <1>6, <1>8
<1>11. /\ u \in Ep0Dev /\ u.ran = d.ran /\ u.ep0.data_len = size
       /\ u.soft.pending_addr = d.soft.pending_addr
       /\ d.soft.tx_ready /\ size >= 0 =>
            /\ u.hw.tx = "VALID" /\ ~u.soft.tx_ready
            /\ u.hw.txpkt = control!Packet(d.ep0.req, 0, len)
            /\ u.ep0.todo = IF control!Over(u.ep0.trunc, left, len) THEN -1 ELSE left
  BY <1>2, <1>4, <1>5, <1>7, <1>8
<1>12. QED
  BY <1>9, <1>10, <1>11 DEF u, len, short

\* The packet of status goes to the hardware.
LEMMA StatusSent ==
  ASSUME NEW d \in Ep0Dev
  PROVE  LET u == control!SendStatus(d)
         IN /\ u \in Ep0Dev /\ Keeps(u, d) /\ u.ran = d.ran
            /\ u.soft.pending_addr = d.soft.pending_addr
            /\ d.soft.tx_ready =>
                 /\ u.hw.tx = "VALID" /\ ~u.soft.tx_ready /\ u.hw.txpkt.len = 0
                 /\ u.ep0.todo = -1
<1> DEFINE e2 == [d.ep0 EXCEPT !.todo = 0, !.off = 0, !.trunc = FALSE]
           d2 == [d EXCEPT !.ep0 = e2]
           w == control!usb_write_ep0(d2)
           e3 == control!Complete(w.ep0)
           u == control!SendStatus(d)
<1>1. d.ep0 \in Ep0Rec
  BY DevParts
<1>2. e2 \in Ep0Rec /\ e2.todo = 0 /\ e2.off = 0 /\ ~e2.trunc /\ e2.req = d.ep0.req
  <2>1. e2 \in Ep0Rec
    <3> DEFINE f == [d.ep0 EXCEPT !.todo = 0, !.off = 0]
    <3>1. f \in Ep0Rec
      <4> DEFINE z == 0
      <4>1. z \in Int
        OBVIOUS
      <4> HIDE DEF z
      <4>2. [d.ep0 EXCEPT !.todo = z, !.off = z] \in Ep0Rec
        BY <1>1, <4>1 DEF Ep0Rec
      <4>3. QED
        BY <4>2 DEF z
    <3>2. e2 = [f EXCEPT !.trunc = FALSE]
      OBVIOUS
    <3> HIDE DEF f, e2
    <3>3. QED
      BY <3>1, <3>2 DEF Ep0Rec
  <2>2. e2.todo = 0 /\ e2.off = 0 /\ e2.trunc = FALSE
    BY <1>1 DEF Ep0Rec
  <2>3. e2.req = d.ep0.req
    BY <1>1 DEF Ep0Rec
  <2>4. QED
    BY <2>1, <2>2, <2>3
<1>3. u = [w EXCEPT !.ep0 = e3]
  <2>1. [d EXCEPT !.ep0.todo = 0, !.ep0.off = 0, !.ep0.trunc = FALSE] = d2
    OBVIOUS
  <2> HIDE DEF d2
  <2>2. QED
    BY <2>1 DEF control!SendStatus
<1> HIDE DEF e2, u
<1>4. /\ d2 \in Ep0Dev /\ d2.ep0 = e2 /\ d2.hw = d.hw /\ d2.soft = d.soft /\ d2.ran = d.ran
  BY <1>2, Ep0Becomes
<1> HIDE DEF d2
<1>5. Least(0, control!Mps) = 0 /\ control!Over(FALSE, 0, 0)
  BY DEF Least, control!Mps, control!Over
<1>6. /\ w \in Ep0Dev /\ Keeps(w, d2) /\ w.ran = d2.ran
      /\ w.soft.pending_addr = d2.soft.pending_addr
      /\ d.soft.tx_ready =>
           /\ w.hw.tx = "VALID" /\ ~w.soft.tx_ready
           /\ w.hw.txpkt = control!Packet(e2.req, 0, 0)
           /\ w.ep0.todo = -1
  <2>1. d2.ep0.todo = 0 /\ d2.ep0.off = 0 /\ ~d2.ep0.trunc /\ d2.soft = d.soft
    BY <1>2, <1>4
  <2> DEFINE len == Least(d2.ep0.todo, control!Mps)
             left == d2.ep0.todo - len
  <2>2. len = 0 /\ left = 0
    BY <1>5, <2>1
  <2>3. /\ w \in Ep0Dev /\ Keeps(w, d2) /\ w.ran = d2.ran
        /\ w.soft.pending_addr = d2.soft.pending_addr
        /\ d2.ep0.todo >= 0 /\ d2.soft.tx_ready =>
             /\ w.hw.tx = "VALID" /\ ~w.soft.tx_ready
             /\ w.hw.txpkt = control!Packet(d2.ep0.req, d2.ep0.off, len)
             /\ w.ep0.todo = IF control!Over(d2.ep0.trunc, left, len) THEN -1 ELSE left
    BY <1>4, WriteEp0
  <2> HIDE DEF w, len, left
  <2>4. control!Over(d2.ep0.trunc, left, len)
    BY <2>1, <2>2 DEF control!Over
  <2>5. QED
    BY <1>4, <2>1, <2>2, <2>3, <2>4
<1> HIDE DEF w
<1>7. w.ep0 \in Ep0Rec
  BY <1>6, DevParts
<1>8. e3 \in Ep0Rec /\ e3.todo = w.ep0.todo /\ e3.req = w.ep0.req
  BY <1>7 DEF Ep0Rec, control!Complete
<1> HIDE DEF e3
<1>9. /\ u \in Ep0Dev /\ u.ep0 = e3 /\ u.hw = w.hw /\ u.soft = w.soft /\ u.ran = w.ran
  BY <1>3, <1>6, <1>8, Ep0Becomes
<1>10. Keeps(u, d)
  BY <1>2, <1>4, <1>6, <1>8, <1>9 DEF Keeps
<1>11. d.soft.tx_ready => u.hw.txpkt.len = 0
  BY <1>6, <1>9 DEF control!Packet
<1>12. QED
  BY <1>4, <1>6, <1>8, <1>9, <1>10, <1>11 DEF u

\* How a request r is answered: stalled, with the first packet of a reply, or
\* with the status; s and n are soft and ran before.
Answer(u, r, s, n) ==
  LET size == control!Reply(r)
      len == Least(size, control!Mps)
      left == size - len
  IN /\ ~control!Known(r) =>
          /\ u.ran = n /\ u.hw.tx = "STALL" /\ u.soft.tx_ready = s.tx_ready
          /\ u.soft.pending_addr = s.pending_addr
     /\ control!Known(r) /\ r \in Requests /\ r.in /\ s.tx_ready =>
          /\ r.do = "GET" /\ u.ep0.data_len = size
          /\ u.ep0.trunc <=> size < r.wLength
          /\ u.soft.pending_addr = s.pending_addr
          /\ u.hw.tx = "VALID" /\ ~u.soft.tx_ready
          /\ u.hw.txpkt = control!Packet(r, 0, len) /\ u.ep0.off = len
          /\ u.ep0.todo = IF control!Over(u.ep0.trunc, left, len) THEN -1 ELSE left
     /\ control!Known(r) /\ ~r.in /\ s.tx_ready =>
          /\ u.ran = n + 1 /\ u.ep0.todo = -1
          /\ u.hw.tx = "VALID" /\ ~u.soft.tx_ready /\ u.hw.txpkt.len = 0
          /\ u.soft.pending_addr = IF r.do = "SET_ADDRESS" THEN r.addr
                                   ELSE s.pending_addr

\* A request is refused, or carried out and answered.
LEMMA AttemptedEp0 ==
  ASSUME NEW d \in Ep0Dev
  PROVE  LET u == control!Attempt(d)
         IN u \in Ep0Dev /\ Keeps(u, d) /\ Answer(u, d.ep0.req, d.soft, d.ran)
<1> DEFINE u == control!Attempt(d)
           r == d.ep0.req
           size == control!Reply(r)
           len == Least(size, control!Mps)
           left == size - len
           c == control!handle_control_request(d)
<1>1. d.ep0 \in Ep0Rec /\ r \in Asked
  BY DevParts DEF Ep0Rec
<1>2. /\ r.in \in BOOLEAN
      /\ r.do = "GET" => r.in /\ control!Reply(r) \in Nat
      /\ r \in Requests /\ r.in => r.do \in {"GET", "UNKNOWN"}
  BY <1>1, AskedParts
<1>3. CASE ~control!Known(r)
  <2> DEFINE s == control!usb_stall(d)
             e == control!Complete(s.ep0)
  <2>1. u = [s EXCEPT !.ep0 = e]
    BY <1>3 DEF control!Attempt
  <2>2. /\ s \in Ep0Dev /\ s.ep0 = d.ep0 /\ s.soft = d.soft /\ s.ran = d.ran
        /\ s.hw.tx = "STALL" /\ Keeps(s, d)
    BY StallEp0
  <2> HIDE DEF s, u
  <2>3. e \in Ep0Rec /\ e.req = d.ep0.req
    BY <1>1, <2>2, CompleteEp0
  <2> HIDE DEF e
  <2>4. /\ u \in Ep0Dev /\ u.ep0 = e /\ u.hw = s.hw /\ u.soft = s.soft /\ u.ran = s.ran
    BY <2>1, <2>2, <2>3, Ep0Becomes
  <2>5. Keeps(u, d)
    BY <2>2, <2>3, <2>4 DEF Keeps
  <2>6. QED
    BY <1>3, <2>2, <2>4, <2>5 DEF u, r, Answer
<1>4. /\ c \in Ep0Dev /\ c.hw = d.hw /\ c.ran = d.ran + 1
      /\ c.ep0 = IF r.do = "GET" THEN [d.ep0 EXCEPT !.data_len = size] ELSE d.ep0
      /\ c.soft.tx_ready = d.soft.tx_ready /\ c.soft.daddr = d.soft.daddr
      /\ c.soft.pending_addr = IF r.do = "SET_ADDRESS" THEN r.addr
                               ELSE d.soft.pending_addr
  BY HandledEp0
<1> HIDE DEF c
<1>5. c.ep0.req = r /\ (r.do = "GET" => c.ep0.data_len = size)
  BY <1>1, <1>4 DEF Ep0Rec
<1>6. \A v \in Ep0Dev : Keeps(v, c) => Keeps(v, d)
  BY <1>4, <1>5 DEF Keeps
<1>7. CASE control!Known(r) /\ r.in
  <2> DEFINE v == control!SendReply(c)
  <2>1. u = v
    BY <1>7 DEF control!Attempt, c
  <2>2. /\ v \in Ep0Dev /\ Keeps(v, c) /\ v.ran = c.ran /\ v.ep0.data_len = c.ep0.data_len
        /\ v.ep0.trunc <=> c.ep0.data_len < c.ep0.req.wLength
        /\ v.soft.pending_addr = c.soft.pending_addr
    BY <1>4, ReplySent
  <2>3. ASSUME r \in Requests, d.soft.tx_ready
        PROVE  /\ r.do = "GET" /\ v.ep0.data_len = size
               /\ v.ep0.trunc <=> size < r.wLength
               /\ v.soft.pending_addr = d.soft.pending_addr
               /\ v.hw.tx = "VALID" /\ ~v.soft.tx_ready
               /\ v.hw.txpkt = control!Packet(r, 0, len) /\ v.ep0.off = len
               /\ v.ep0.todo = IF control!Over(v.ep0.trunc, left, len) THEN -1 ELSE left
    <3>1. r.do = "GET"
      BY <1>2, <1>7, <2>3 DEF control!Known
    <3>2. c.ep0.data_len = size /\ size >= 0 /\ c.soft.tx_ready /\ c.ep0.req = r
      BY <1>2, <1>4, <1>5, <2>3, <3>1
    <3> HIDE DEF size, r
    <3>3. /\ v.hw.tx = "VALID" /\ ~v.soft.tx_ready
          /\ v.hw.txpkt = control!Packet(r, 0, len) /\ v.ep0.off = len
          /\ v.ep0.todo = IF control!Over(v.ep0.trunc, left, len) THEN -1 ELSE left
      BY <1>4, <3>2, ReplySent
    <3>4. QED
      BY <1>4, <2>2, <3>1, <3>2, <3>3
  <2> HIDE DEF v, u, size
  <2>4. u \in Ep0Dev /\ Keeps(u, d)
    BY <1>6, <2>1, <2>2
  <2>5. QED
    BY <1>7, <2>1, <2>3, <2>4 DEF u, size, Answer
<1>8. CASE control!Known(r) /\ ~r.in
  <2> DEFINE v == control!SendStatus(c)
  <2>1. u = v
    BY <1>8 DEF control!Attempt, c
  <2>2. /\ v \in Ep0Dev /\ Keeps(v, c) /\ v.ran = c.ran
        /\ v.soft.pending_addr = c.soft.pending_addr
        /\ c.soft.tx_ready =>
             /\ v.hw.tx = "VALID" /\ ~v.soft.tx_ready /\ v.hw.txpkt.len = 0
             /\ v.ep0.todo = -1
    BY <1>4, StatusSent
  <2> HIDE DEF v, u, size
  <2>3. u \in Ep0Dev /\ Keeps(u, d)
    BY <1>6, <2>1, <2>2
  <2>4. QED
    BY <1>4, <1>8, <2>1, <2>2, <2>3 DEF u, size, Answer
<1>9. QED
  BY <1>2, <1>3, <1>7, <1>8

\* What the handlers of core.c leave alone when they have read the packet.
Reads(u, d) ==
  /\ u.hw.rx = "VALID" /\ u.hw.ctr_rx = d.hw.ctr_rx /\ u.hw.ctr_tx = d.hw.ctr_tx
  /\ u.hw.reset = d.hw.reset /\ u.soft.daddr = d.soft.daddr

\* Nothing is answered yet.
Waits(u, d) ==
  /\ u.ran = d.ran /\ u.hw.tx = d.hw.tx /\ u.soft.tx_ready = d.soft.tx_ready
  /\ u.soft.pending_addr = d.soft.pending_addr

\* The Setup stage: the request is answered, or data is waited for.
LEMMA SetupEp0 ==
  ASSUME NEW d \in Ep0Dev
  PROVE  LET u == control!HandleSetup(d)
             r == d.hw.rxpkt.req
         IN /\ u \in Ep0Dev /\ u.ep0.req = r /\ Reads(u, d)
            /\ control!SetupReady(r) => Answer(u, r, d.soft, d.ran)
            /\ ~control!SetupReady(r) =>
                 Waits(u, d) /\ u.ep0.data_len = 0 /\ u.ep0.todo = -1
<1> DEFINE r == d.hw.rxpkt.req
           e == [d.ep0 EXCEPT !.req = r, !.data_len = 0, !.todo = -1]
           d2 == [d EXCEPT !.ep0 = e]
           read == control!usb_read(d2)
           v == control!Attempt(read)
           u == control!HandleSetup(d)
<1>1. d.ep0 \in Ep0Rec /\ r \in Asked
  BY DevParts DEF Ep0Hw, Pkt
<1>2. e \in Ep0Rec /\ e.req = r /\ e.data_len = 0 /\ e.todo = -1
  <2> DEFINE zero == 0
             minus == -1
             f == [d.ep0 EXCEPT !.req = r, !.data_len = zero, !.todo = minus]
  <2>1. zero \in Int /\ minus \in Int
    OBVIOUS
  <2> HIDE DEF zero, minus, r
  <2>2. f \in Ep0Rec /\ f.req = r /\ f.data_len = zero /\ f.todo = minus
    BY <1>1, <2>1 DEF Ep0Rec
  <2>3. QED
    BY <2>2 DEF r, zero, minus
<1>3. u = IF control!SetupReady(r) THEN v ELSE read
  <2>1. [d EXCEPT !.ep0.req = r, !.ep0.data_len = 0, !.ep0.todo = -1] = d2
    OBVIOUS
  <2> HIDE DEF d2
  <2>2. QED
    BY <2>1 DEF control!HandleSetup
<1> HIDE DEF e, u, r
<1>4. /\ d2 \in Ep0Dev /\ d2.ep0 = e /\ d2.hw = d.hw /\ d2.soft = d.soft /\ d2.ran = d.ran
  BY <1>2, Ep0Becomes
<1> HIDE DEF d2
<1>5. /\ read \in Ep0Dev /\ read.ep0 = d2.ep0 /\ read.ran = d2.ran
      /\ read.hw.rx = "VALID" /\ read.hw.tx = d2.hw.tx
      /\ read.hw.ctr_rx = d2.hw.ctr_rx /\ read.hw.ctr_tx = d2.hw.ctr_tx
      /\ read.hw.reset = d2.hw.reset
      /\ read.soft.tx_ready = d2.soft.tx_ready /\ read.soft.daddr = d2.soft.daddr
      /\ read.soft.pending_addr = d2.soft.pending_addr
  BY <1>4, ReadEp0
<1>6. v \in Ep0Dev /\ Keeps(v, read) /\ Answer(v, read.ep0.req, read.soft, read.ran)
  BY <1>5, AttemptedEp0
<1> HIDE DEF v, read
<1>7. Reads(read, d) /\ Reads(v, d) /\ read.ep0.req = r /\ v.ep0.req = r
  BY <1>2, <1>4, <1>5, <1>6 DEF Reads, Keeps
<1>8. Answer(v, r, d.soft, d.ran)
  BY <1>4, <1>5, <1>6, <1>7 DEF Answer
<1>9. Waits(read, d) /\ read.ep0.data_len = 0 /\ read.ep0.todo = -1
  BY <1>2, <1>4, <1>5 DEF Waits
<1>10. CASE control!SetupReady(r)
  BY <1>3, <1>6, <1>7, <1>8, <1>10 DEF u, r
<1>11. CASE ~control!SetupReady(r)
  BY <1>3, <1>5, <1>7, <1>9, <1>11 DEF u, r
<1>12. QED
  BY <1>10, <1>11

\* Data from the host: the request is answered when all of it is there.
LEMMA DataEp0 ==
  ASSUME NEW d \in Ep0Dev
  PROVE  LET u == control!HandleData(d)
             r == d.ep0.req
             len == d.ep0.data_len + d.hw.rxpkt.len
         IN /\ u \in Ep0Dev /\ u.ep0.req = r /\ Reads(u, d)
            /\ len >= r.wLength => Answer(u, r, d.soft, d.ran)
            /\ len < r.wLength =>
                 Waits(u, d) /\ u.ep0.data_len = len /\ u.ep0.todo = d.ep0.todo
<1> DEFINE r == d.ep0.req
           len == d.ep0.data_len + d.hw.rxpkt.len
           whole == len >= r.wLength
           w == control!usb_read(d)
           all == IF whole THEN r.wLength ELSE len
           e == [w.ep0 EXCEPT !.data_len = all]
           read == [w EXCEPT !.ep0 = e]
           v == control!Attempt(read)
           u == control!HandleData(d)
<1>1. d.ep0 \in Ep0Rec /\ r \in Asked /\ d.ep0.data_len \in Int /\ d.hw.rxpkt.len \in Int
  BY DevParts DEF Ep0Rec, Ep0Hw, Pkt
<1>2. r.wLength \in Nat /\ len \in Int
  BY <1>1, AskedParts
<1>3. u = IF whole THEN v ELSE read
  <2>1. [w EXCEPT !.ep0.data_len = all] = read
    OBVIOUS
  <2> HIDE DEF read, w
  <2>2. QED
    BY <2>1 DEF control!HandleData, w
<1>4. /\ w \in Ep0Dev /\ w.ep0 = d.ep0 /\ w.ran = d.ran
      /\ w.hw.rx = "VALID" /\ w.hw.tx = d.hw.tx
      /\ w.hw.ctr_rx = d.hw.ctr_rx /\ w.hw.ctr_tx = d.hw.ctr_tx
      /\ w.hw.reset = d.hw.reset
      /\ w.soft.tx_ready = d.soft.tx_ready /\ w.soft.daddr = d.soft.daddr
      /\ w.soft.pending_addr = d.soft.pending_addr
  BY ReadEp0
<1>5. all \in Int
  BY <1>2
<1> HIDE DEF w, all, u
<1>6. e \in Ep0Rec /\ e.req = r /\ e.data_len = all /\ e.todo = d.ep0.todo
  BY <1>1, <1>4, <1>5 DEF Ep0Rec
<1> HIDE DEF e
<1>7. /\ read \in Ep0Dev /\ read.ep0 = e /\ read.hw = w.hw /\ read.soft = w.soft
      /\ read.ran = w.ran
  BY <1>4, <1>6, Ep0Becomes
<1>8. v \in Ep0Dev /\ Keeps(v, read) /\ Answer(v, read.ep0.req, read.soft, read.ran)
  BY <1>7, AttemptedEp0
<1> HIDE DEF v, read
<1>9. Reads(read, d) /\ Reads(v, d) /\ read.ep0.req = r /\ v.ep0.req = r
  BY <1>4, <1>6, <1>7, <1>8 DEF Reads, Keeps
<1>10. Answer(v, r, d.soft, d.ran)
  BY <1>4, <1>6, <1>7, <1>8 DEF Answer
<1>11. Waits(read, d) /\ read.ep0.todo = d.ep0.todo
  BY <1>4, <1>6, <1>7 DEF Waits
<1>12. CASE whole
  BY <1>2, <1>3, <1>8, <1>9, <1>10, <1>12 DEF u
<1>13. CASE ~whole
  <2>1. read.ep0.data_len = len
    BY <1>6, <1>7, <1>13 DEF all
  <2>2. QED
    BY <1>2, <1>3, <1>7, <1>9, <1>11, <1>13, <2>1 DEF u
<1>14. QED
  BY <1>12, <1>13

\* The status of an IN transfer ends it.
LEMMA StatusEp0 ==
  ASSUME NEW d \in Ep0Dev
  PROVE  LET u == control!HandleStatus(d)
         IN /\ u \in Ep0Dev /\ u.ep0.req = d.ep0.req /\ Reads(u, d) /\ Waits(u, d)
            /\ u.ep0.todo = -1
<1> DEFINE w == control!usb_read(d)
           f == control!Complete(w.ep0)
           e == [f EXCEPT !.todo = -1]
           u == control!HandleStatus(d)
<1>1. /\ w \in Ep0Dev /\ w.ep0 = d.ep0 /\ w.ran = d.ran
      /\ w.hw.rx = "VALID" /\ w.hw.tx = d.hw.tx
      /\ w.hw.ctr_rx = d.hw.ctr_rx /\ w.hw.ctr_tx = d.hw.ctr_tx
      /\ w.hw.reset = d.hw.reset
      /\ w.soft.tx_ready = d.soft.tx_ready /\ w.soft.daddr = d.soft.daddr
      /\ w.soft.pending_addr = d.soft.pending_addr
  BY ReadEp0
<1>2. u = [w EXCEPT !.ep0 = e]
  BY DEF control!HandleStatus
<1> HIDE DEF w, u
<1>3. f \in Ep0Rec /\ f.req = d.ep0.req
  BY <1>1, DevParts, CompleteEp0
<1> HIDE DEF f
<1>4. e \in Ep0Rec /\ e.req = d.ep0.req /\ e.todo = -1
  <2> DEFINE minus == -1
  <2>1. minus \in Int
    OBVIOUS
  <2> HIDE DEF minus
  <2>2. LET g == [f EXCEPT !.todo = minus]
        IN g \in Ep0Rec /\ g.req = d.ep0.req /\ g.todo = minus
    BY <1>3, <2>1 DEF Ep0Rec
  <2>3. QED
    BY <2>2 DEF minus
<1> HIDE DEF e
<1>5. /\ u \in Ep0Dev /\ u.ep0 = e /\ u.hw = w.hw /\ u.soft = w.soft /\ u.ran = w.ran
  BY <1>1, <1>2, <1>4, Ep0Becomes
<1>6. QED
  BY <1>1, <1>4, <1>5 DEF Reads, Waits, u

\* A packet received is handled: CTR_RX goes, and what comes is up to core.c.
LEMMA RxEp0 ==
  ASSUME NEW d \in Ep0Dev
  PROVE  LET u == control!handle_rx_transfer(d)
             r == d.hw.rxpkt.req
             len == d.ep0.data_len + d.hw.rxpkt.len
         IN /\ u \in Ep0Dev /\ u.hw.rx = "VALID" /\ ~u.hw.ctr_rx
            /\ u.hw.ctr_tx = d.hw.ctr_tx /\ u.hw.reset = d.hw.reset
            /\ \/ /\ ~d.hw.setup /\ d.ep0.data_len < 0
               \/ /\ d.hw.setup /\ u.ep0.req = r /\ u.soft.daddr = d.soft.daddr
                  /\ control!SetupReady(r) => Answer(u, r, d.soft, d.ran)
                  /\ ~control!SetupReady(r) =>
                       Waits(u, d) /\ u.ep0.data_len = 0 /\ u.ep0.todo = -1
               \/ /\ ~d.hw.setup /\ d.ep0.data_len >= 0 /\ ~d.ep0.req.in
                  /\ u.ep0.req = d.ep0.req /\ u.soft.daddr = d.soft.daddr
                  /\ len >= d.ep0.req.wLength => Answer(u, d.ep0.req, d.soft, d.ran)
                  /\ len < d.ep0.req.wLength =>
                       /\ Waits(u, d) /\ u.ep0.data_len = len
                       /\ u.ep0.todo = d.ep0.todo
               \/ /\ ~d.hw.setup /\ d.ep0.data_len >= 0 /\ d.ep0.req.in
                  /\ u.ep0.req = d.ep0.req /\ u.soft.daddr = d.soft.daddr
                  /\ Waits(u, d) /\ u.ep0.todo = -1
<1>1. PICK e \in Ep0Rec, h \in Ep0Hw, s \in Ep0Soft, n \in Nat : d = Made(e, h, s, n)
  BY DevParts
<1>2. d.ep0 = e /\ d.hw = h /\ d.soft = s /\ d.ran = n
  BY <1>1, MadeParts
<1> DEFINE h2 == [h EXCEPT !.ctr_rx = FALSE]
           s2 == [s EXCEPT !.rx_ready = TRUE]
           d2 == Made(e, h2, s2, n)
           u == control!handle_rx_transfer(d)
           v == control!handle_rx_ep0(d2, h.setup)
<1>3. u = v
  <2> DEFINE r == [ep0 |-> e, hw |-> h, soft |-> s, ran |-> n]
  <2>1. [r EXCEPT !.hw.ctr_rx = FALSE, !.soft.rx_ready = TRUE]
          = [ep0 |-> e, hw |-> h2, soft |-> s2, ran |-> n]
    <3> DEFINE y == [r EXCEPT !.hw.ctr_rx = FALSE, !.soft.rx_ready = TRUE]
    <3>1. y = [r EXCEPT !.hw.ctr_rx = FALSE, !.soft.rx_ready = TRUE]
      OBVIOUS
    <3> HIDE DEF y
    <3>2. y = [ep0 |-> e, hw |-> h2, soft |-> s2, ran |-> n]
      BY <3>1
    <3>3. QED
      BY <3>2 DEF y
  <2>2. [r EXCEPT !.hw.ctr_rx = FALSE, !.soft.rx_ready = TRUE] = d2 /\ d = r
    BY <1>1, <2>1 DEF Made
  <2> HIDE DEF r, d2
  <2>3. control!handle_rx_transfer(r) =
          control!handle_rx_ep0([r EXCEPT !.hw.ctr_rx = FALSE, !.soft.rx_ready = TRUE],
                                r.hw.setup)
    BY DEF control!handle_rx_transfer
  <2>4. r.hw.setup = h.setup
    BY <1>2, <2>2
  <2>5. QED
    BY <2>2, <2>3, <2>4
<1>4. /\ h2 \in Ep0Hw /\ ~h2.ctr_rx /\ h2.ctr_tx = h.ctr_tx /\ h2.reset = h.reset
      /\ h2.tx = h.tx /\ h2.rxpkt = h.rxpkt
  BY DEF Ep0Hw
<1>5. /\ s2 \in Ep0Soft /\ s2.tx_ready = s.tx_ready /\ s2.daddr = s.daddr
      /\ s2.pending_addr = s.pending_addr
  BY DEF Ep0Soft
<1> HIDE DEF h2, s2, u
<1>6. /\ d2 \in Ep0Dev /\ d2.ep0 = e /\ d2.hw = h2 /\ d2.soft = s2 /\ d2.ran = n
  BY <1>4, <1>5, MadeParts
<1> HIDE DEF d2
<1>7. /\ h.setup \in BOOLEAN /\ e.data_len \in Int /\ e.req \in Asked
      /\ h.rxpkt.len \in Int
  BY DEF Ep0Hw, Ep0Rec, Pkt
<1>8. e.req.in \in BOOLEAN /\ e.req.wLength \in Int
  BY <1>7, AskedParts
<1>9. ASSUME NEW w, Reads(w, d2)
      PROVE  /\ w.hw.rx = "VALID" /\ ~w.hw.ctr_rx /\ w.hw.ctr_tx = h.ctr_tx
             /\ w.hw.reset = h.reset /\ w.soft.daddr = s.daddr
  BY <1>4, <1>5, <1>6, <1>9 DEF Reads
<1>10. \A w : Waits(w, d2) => Waits(w, d)
  BY <1>2, <1>4, <1>5, <1>6 DEF Waits
<1>11. \A w, r : Answer(w, r, d2.soft, d2.ran) => Answer(w, r, s, n)
  BY <1>5, <1>6 DEF Answer
<1>12. CASE h.setup
  <2> DEFINE w == control!HandleSetup(d2)
             r == h.rxpkt.req
  <2>1. v = w
    BY <1>12 DEF control!handle_rx_ep0
  <2>2. /\ w \in Ep0Dev /\ w.ep0.req = r /\ Reads(w, d2)
        /\ control!SetupReady(r) => Answer(w, r, d2.soft, d2.ran)
        /\ ~control!SetupReady(r) => Waits(w, d2) /\ w.ep0.data_len = 0 /\ w.ep0.todo = -1
    <3> HIDE DEF w
    <3>1. d2.hw.rxpkt.req = r
      BY <1>4, <1>6
    <3>2. QED
      BY <1>6, <3>1, SetupEp0 DEF w
  <2> HIDE DEF v, w
  <2>3. QED
    BY <1>2, <1>3, <1>9, <1>10, <1>11, <1>12, <2>1, <2>2 DEF u
<1>13. CASE ~h.setup /\ e.data_len < 0
  <2> DEFINE w == control!usb_read(control!usb_stall(d2))
  <2>1. v = w
    BY <1>6, <1>7, <1>13 DEF control!handle_rx_ep0
  <2>2. /\ control!usb_stall(d2) \in Ep0Dev /\ Keeps(control!usb_stall(d2), d2)
    BY <1>6, StallEp0
  <2>3. /\ w \in Ep0Dev /\ w.hw.rx = "VALID" /\ ~w.hw.ctr_rx
        /\ w.hw.ctr_tx = h.ctr_tx /\ w.hw.reset = h.reset
    BY <1>4, <1>6, <2>2, ReadEp0 DEF Keeps
  <2> HIDE DEF v, w
  <2>4. QED
    BY <1>2, <1>3, <1>13, <2>1, <2>3 DEF u
<1>14. CASE ~h.setup /\ e.data_len >= 0 /\ ~e.req.in
  <2> DEFINE w == control!HandleData(d2)
             r == e.req
             len == e.data_len + h.rxpkt.len
  <2>1. v = w
    BY <1>6, <1>7, <1>14 DEF control!handle_rx_ep0
  <2>2. /\ w \in Ep0Dev /\ w.ep0.req = r /\ Reads(w, d2)
        /\ len >= r.wLength => Answer(w, r, d2.soft, d2.ran)
        /\ len < r.wLength =>
             Waits(w, d2) /\ w.ep0.data_len = len /\ w.ep0.todo = d2.ep0.todo
    <3> HIDE DEF w
    <3>1. d2.hw.rxpkt.len = h.rxpkt.len /\ d2.ep0 = e
      BY <1>4, <1>6
    <3>2. QED
      BY <1>6, <3>1, DataEp0 DEF w
  <2> HIDE DEF v, w, len
  <2>3. QED
    BY <1>2, <1>3, <1>6, <1>9, <1>10, <1>11, <1>14, <2>1, <2>2 DEF u, len
<1>15. CASE ~h.setup /\ e.data_len >= 0 /\ e.req.in
  <2> DEFINE w == control!HandleStatus(d2)
  <2>1. v = w
    BY <1>6, <1>7, <1>15 DEF control!handle_rx_ep0
  <2>2. /\ w \in Ep0Dev /\ w.ep0.req = d2.ep0.req /\ Reads(w, d2) /\ Waits(w, d2)
        /\ w.ep0.todo = -1
    BY <1>6, StatusEp0
  <2> HIDE DEF v, w
  <2>3. QED
    BY <1>2, <1>3, <1>6, <1>9, <1>10, <1>15, <2>1, <2>2 DEF u
<1>16. QED
  BY <1>7, <1>8, <1>12, <1>13, <1>14, <1>15

\* A packet sent is accounted for: the next one follows, or nothing, and an
\* address that waited for this is used.
LEMMA TxEp0 ==
  ASSUME NEW d \in Ep0Dev
  PROVE  LET u == control!handle_tx_transfer(d)
             len == Least(d.ep0.todo, control!Mps)
             left == d.ep0.todo - len
         IN /\ u \in Ep0Dev /\ ~u.hw.ctr_tx /\ u.hw.rx = d.hw.rx
            /\ u.hw.ctr_rx = d.hw.ctr_rx /\ u.hw.setup = d.hw.setup
            /\ u.hw.rxpkt = d.hw.rxpkt /\ u.hw.reset = d.hw.reset /\ u.ran = d.ran
            /\ u.ep0.req = d.ep0.req /\ u.ep0.data_len = d.ep0.data_len
            /\ u.ep0.trunc = d.ep0.trunc
            /\ \/ u.soft.daddr = d.soft.daddr /\ u.soft.pending_addr = d.soft.pending_addr
               \/ /\ d.soft.pending_addr # 0 /\ u.ep0.todo = -1
                  /\ u.soft.daddr = d.soft.pending_addr /\ u.soft.pending_addr = 0
            /\ u.ep0.todo = -1 => u.soft.pending_addr = 0
            /\ d.ep0.todo < 0 =>
                 u.ep0 = d.ep0 /\ u.hw.tx = d.hw.tx /\ u.soft.tx_ready
            /\ d.ep0.todo >= 0 =>
                 /\ u.hw.tx = "VALID" /\ ~u.soft.tx_ready
                 /\ u.hw.txpkt = control!Packet(d.ep0.req, d.ep0.off, len)
                 /\ u.ep0.off = d.ep0.off + len
                 /\ u.ep0.todo = IF control!Over(d.ep0.trunc, left, len) THEN -1 ELSE left
<1>1. PICK e \in Ep0Rec, h \in Ep0Hw, s \in Ep0Soft, n \in Nat : d = Made(e, h, s, n)
  BY DevParts
<1>2. d.ep0 = e /\ d.hw = h /\ d.soft = s /\ d.ran = n
  BY <1>1, MadeParts
<1> DEFINE h2 == [h EXCEPT !.ctr_tx = FALSE]
           s2 == [s EXCEPT !.tx_ready = TRUE]
           d2 == Made(e, h2, s2, n)
           w == control!usb_write_ep0(d2)
           s3 == [w.soft EXCEPT !.daddr = w.soft.pending_addr, !.pending_addr = 0]
           w2 == [w EXCEPT !.soft = s3]
           turns == w.soft.pending_addr # 0 /\ w.ep0.todo = -1
           u == control!handle_tx_transfer(d)
           len == Least(e.todo, control!Mps)
           left == e.todo - len
<1>3. u = IF turns THEN w2 ELSE w
  <2> DEFINE r == [ep0 |-> e, hw |-> h, soft |-> s, ran |-> n]
             y == [r EXCEPT !.hw.ctr_tx = FALSE, !.soft.tx_ready = TRUE]
  <2>1. y = [r EXCEPT !.hw.ctr_tx = FALSE, !.soft.tx_ready = TRUE]
    OBVIOUS
  <2> HIDE DEF y
  <2>2. y = [ep0 |-> e, hw |-> h2, soft |-> s2, ran |-> n]
    BY <2>1
  <2>3. y = d2 /\ d = r
    BY <1>1, <2>2 DEF Made
  <2> HIDE DEF r, d2
  <2>4. LET x == control!usb_write_ep0(y)
        IN control!handle_tx_transfer(r) =
             IF x.soft.pending_addr # 0 /\ x.ep0.todo = -1
             THEN [x EXCEPT !.soft.daddr = x.soft.pending_addr, !.soft.pending_addr = 0]
             ELSE x
    BY DEF control!handle_tx_transfer, y
  <2>5. [w EXCEPT !.soft.daddr = w.soft.pending_addr, !.soft.pending_addr = 0] = w2
    OBVIOUS
  <2> HIDE DEF w2
  <2>6. QED
    BY <2>3, <2>4, <2>5
<1>4. /\ h2 \in Ep0Hw /\ ~h2.ctr_tx /\ h2.rx = h.rx /\ h2.ctr_rx = h.ctr_rx
      /\ h2.reset = h.reset /\ h2.tx = h.tx /\ h2.setup = h.setup /\ h2.rxpkt = h.rxpkt
  BY DEF Ep0Hw
<1>5. /\ s2 \in Ep0Soft /\ s2.tx_ready /\ s2.daddr = s.daddr
      /\ s2.pending_addr = s.pending_addr
  BY DEF Ep0Soft
<1> HIDE DEF h2, s2, u
<1>6. /\ d2 \in Ep0Dev /\ d2.ep0 = e /\ d2.hw = h2 /\ d2.soft = s2 /\ d2.ran = n
  BY <1>4, <1>5, MadeParts
<1> HIDE DEF d2
<1>7. /\ w \in Ep0Dev /\ Keeps(w, d2) /\ w.ran = n
      /\ w.ep0.data_len = e.data_len /\ w.ep0.trunc = e.trunc
      /\ w.soft.pending_addr = s.pending_addr
      /\ e.todo < 0 => w = d2
      /\ e.todo >= 0 =>
           /\ w.hw.tx = "VALID" /\ ~w.soft.tx_ready
           /\ w.hw.txpkt = control!Packet(e.req, e.off, len)
           /\ w.ep0.off = e.off + len
           /\ w.ep0.todo = IF control!Over(e.trunc, left, len) THEN -1 ELSE left
  <2> HIDE DEF w
  <2>1. d2.soft.tx_ready /\ d2.ep0 = e /\ d2.soft.pending_addr = s.pending_addr /\ d2.ran = n
    BY <1>5, <1>6
  <2>2. QED
    BY <1>6, <2>1, WriteEp0 DEF w
<1> HIDE DEF w, len, left
<1>8. /\ w.hw.rx = h.rx /\ w.hw.ctr_rx = h.ctr_rx /\ ~w.hw.ctr_tx
      /\ w.hw.setup = h.setup /\ w.hw.rxpkt = h.rxpkt /\ w.hw.reset = h.reset
      /\ w.soft.daddr = s.daddr /\ w.ep0.req = e.req
  BY <1>4, <1>5, <1>6, <1>7 DEF Keeps
<1>9. e.todo < 0 => w.ep0 = e /\ w.hw.tx = h.tx /\ w.soft.tx_ready
  BY <1>4, <1>5, <1>6, <1>7
<1>10. CASE ~turns
  <2>1. u = w
    BY <1>3, <1>10
  <2>2. w.ep0.todo = -1 => w.soft.pending_addr = 0
    BY <1>10
  <2>3. QED
    BY <1>2, <1>7, <1>8, <1>9, <2>1, <2>2 DEF u, len, left
<1>11. CASE turns
  <2>1. w.soft \in Ep0Soft
    BY <1>7, DevParts
  <2>2. /\ s3 \in Ep0Soft /\ s3.tx_ready = w.soft.tx_ready
        /\ s3.daddr = w.soft.pending_addr /\ s3.pending_addr = 0
    <3> DEFINE zero == 0
               s4 == [w.soft EXCEPT !.daddr = w.soft.pending_addr, !.pending_addr = zero]
    <3>1. zero \in Nat
      OBVIOUS
    <3> HIDE DEF zero
    <3>2. /\ s4 \in Ep0Soft /\ s4.tx_ready = w.soft.tx_ready
          /\ s4.daddr = w.soft.pending_addr /\ s4.pending_addr = zero
      BY <2>1, <3>1 DEF Ep0Soft
    <3>3. QED
      BY <3>2 DEF zero
  <2> HIDE DEF s3
  <2>3. w2 \in Ep0Dev /\ w2.ep0 = w.ep0 /\ w2.hw = w.hw /\ w2.soft = s3 /\ w2.ran = w.ran
    BY <1>7, <2>2 DEF Ep0Dev
  <2>4. u = w2
    BY <1>3, <1>11
  <2> HIDE DEF w2
  <2>5. QED
    BY <1>2, <1>7, <1>8, <1>9, <1>11, <2>2, <2>3, <2>4 DEF u, len, left
<1>12. QED
  BY <1>10, <1>11

\* The registers as configure_ep() sets them.
LEMMA ConfiguredEp0 ==
  LET h == control!Configured
  IN /\ h \in Ep0Hw /\ h.rx = "VALID" /\ h.tx = "NAK" /\ ~h.ctr_rx /\ ~h.ctr_tx
     /\ ~h.setup /\ ~h.reset
<1>1. control!Nothing \in Pkt
  BY DEF control!Nothing, control!Packet, Pkt, Asked
<1>2. QED
  BY <1>1 DEF control!Configured, Ep0Hw

\* The reset is over for the firmware.
LEMMA ResetEp0 ==
  ASSUME NEW d \in Ep0Dev
  PROVE  LET u == control!handle_reset(d)
         IN /\ u \in Ep0Dev /\ u.hw = control!Configured
            /\ u.soft.tx_ready /\ u.soft.pending_addr = 0
<1>1. PICK e \in Ep0Rec, h \in Ep0Hw, s \in Ep0Soft, n \in Nat : d = Made(e, h, s, n)
  BY DevParts
<1> DEFINE f == control!Complete(e)
           e2 == [f EXCEPT !.todo = -1]
           h2 == control!Configured
           s2 == [s EXCEPT !.rx_ready = FALSE, !.tx_ready = TRUE, !.pending_addr = 0,
                           !.daddr = 0]
           u == control!handle_reset(d)
<1>2. u = Made(e2, h2, s2, n)
  <2> DEFINE r == [ep0 |-> e, hw |-> h, soft |-> s, ran |-> n]
  <2>1. control!handle_reset(r) =
          [r EXCEPT !.ep0 = e2, !.hw = h2, !.soft.rx_ready = FALSE,
                    !.soft.tx_ready = TRUE, !.soft.pending_addr = 0, !.soft.daddr = 0]
    BY DEF control!handle_reset
  <2> HIDE DEF e2, h2
  <2>2. control!handle_reset(r) = [ep0 |-> e2, hw |-> h2, soft |-> s2, ran |-> n]
    BY <2>1
  <2>3. QED
    BY <1>1, <2>2 DEF Made
<1>3. e2 \in Ep0Rec
  <2> DEFINE minus == -1
  <2>1. minus \in Int /\ f \in Ep0Rec
    BY CompleteEp0
  <2> HIDE DEF minus, f
  <2>2. [f EXCEPT !.todo = minus] \in Ep0Rec
    BY <2>1 DEF Ep0Rec
  <2>3. QED
    BY <2>2 DEF minus
<1>4. s2 \in Ep0Soft /\ s2.tx_ready /\ s2.pending_addr = 0
  <2> DEFINE zero == 0
             t == [s EXCEPT !.rx_ready = FALSE]
             v == [t EXCEPT !.tx_ready = TRUE]
             x == [v EXCEPT !.pending_addr = zero, !.daddr = zero]
  <2>1. zero \in Nat
    OBVIOUS
  <2> HIDE DEF zero
  <2>2. t \in Ep0Soft
    BY DEF Ep0Soft
  <2> HIDE DEF t
  <2>3. v \in Ep0Soft /\ v.tx_ready
    BY <2>2 DEF Ep0Soft
  <2> HIDE DEF v
  <2>4. x \in Ep0Soft /\ x.tx_ready = v.tx_ready /\ x.pending_addr = zero
    BY <2>1, <2>3 DEF Ep0Soft
  <2>5. s2 = x
    BY DEF x, v, t, zero
  <2>6. QED
    BY <2>3, <2>4, <2>5 DEF zero
<1> HIDE DEF e2, s2, u
<1>5. u \in Ep0Dev /\ u.hw = h2 /\ u.soft = s2
  BY <1>2, <1>3, <1>4, ConfiguredEp0, MadeParts
<1>6. QED
  BY <1>4, <1>5 DEF u

-----------------------------------------------------------------------------
(* The firmware goes from phase to phase.                                  *)

\* The firmware and the host agree on where the transfer stands.
Agree(d, o) == Turns(d.hw, d.soft) /\ Phase(d.ep0, d.hw, d.soft, o, d.ran)

\* An answer to a request that was asked for is a phase of its transfer.
LEMMA AnswerPhase ==
  ASSUME NEW u \in Ep0Dev, NEW r \in Requests, NEW s, NEW o \in Ep0Host,
         Answer(u, r, s, 0), u.ep0.req = r, o.req = r, o.ok, s.tx_ready,
         s.pending_addr = 0, ~u.hw.ctr_rx, ~u.hw.ctr_tx,
         \/ o.stage = "in" /\ r.in /\ r.wLength > 0 /\ o.got = 0
         \/ o.stage = "status_in" /\ r.in /\ r.wLength = 0 /\ o.got = 0
         \/ o.stage = "status_in" /\ ~r.in /\ o.got = r.wLength
  PROVE  Agree(u, o)
<1> DEFINE size == control!Reply(r)
           len == Least(size, control!Mps)
           left == size - len
<1>1. /\ r \in Asked /\ r.in \in BOOLEAN /\ r.wLength \in Nat
      /\ r.do = "GET" => r.in /\ size \in Nat /\ size <= r.wLength
      /\ r.do = "SET_ADDRESS" => r.addr \in Nat
  BY AskedParts DEF Asked
<1>2. u.soft.tx_ready = TRUE \/ u.soft.tx_ready = FALSE
  BY DevParts DEF Ep0Soft
<1>3. CASE ~control!Known(r)
  <2>1. /\ u.ran = 0 /\ u.hw.tx = "STALL" /\ u.soft.tx_ready /\ u.soft.pending_addr = 0
    BY <1>3 DEF Answer
  <2>2. Turns(u.hw, u.soft)
    BY <2>1 DEF Turns
  <2>3. Refused(u.ep0, u.hw, u.soft, o, u.ran)
    BY <1>3, <2>1 DEF Refused
  <2>4. QED
    BY <2>2, <2>3 DEF Agree, Phase
<1>4. CASE control!Known(r) /\ r.in
  <2>1. /\ r.do = "GET" /\ u.ep0.data_len = size
        /\ u.ep0.trunc <=> size < r.wLength
        /\ u.soft.pending_addr = 0
        /\ u.hw.tx = "VALID" /\ ~u.soft.tx_ready
        /\ u.hw.txpkt = control!Packet(r, 0, len) /\ u.ep0.off = len
        /\ u.ep0.todo = IF control!Over(u.ep0.trunc, left, len) THEN -1 ELSE left
    BY <1>4 DEF Answer
  <2>2. Turns(u.hw, u.soft)
    BY <2>1 DEF Turns
  <2>3. size \in Nat /\ size <= r.wLength
    BY <1>1, <2>1
  <2> HIDE DEF size
  <2>4. CASE r.wLength > 0
    <3>1. o.stage = "in" /\ o.got = 0
      BY <1>4, <2>4
    <3>2. /\ size - 0 = size /\ 0 + len = len
          /\ size - 0 - len = left /\ 0 <= size /\ 0 < r.wLength
      BY <1>1, <2>3, <2>4 DEF Least, control!Mps
    <3> HIDE DEF len
    <3>3. /\ u.hw.txpkt = control!Packet(u.ep0.req, o.got, len)
          /\ u.ep0.off = o.got + len /\ len = Least(u.ep0.data_len - o.got, control!Mps)
          /\ left = u.ep0.data_len - o.got - len
      BY <2>1, <3>1, <3>2 DEF len
    <3> HIDE DEF left
    <3>4. /\ o.got >= 0 /\ o.got <= u.ep0.data_len /\ o.got < u.ep0.req.wLength
      BY <2>1, <3>1, <3>2
    <3>5. Replying(u.ep0, u.hw, u.soft, o)
      BY <2>1, <3>1, <3>3, <3>4 DEF Replying, size
    <3>6. QED
      BY <2>2, <3>5 DEF Agree, Phase
  <2>5. CASE r.wLength = 0
    <3>1. o.stage = "status_in" /\ o.got = 0
      BY <1>4, <2>5
    <3>2. size = 0
      BY <2>3, <2>5
    <3>3. len = 0 /\ left = 0 /\ ~(size < r.wLength)
      BY <2>5, <3>2 DEF Least, control!Mps
    <3>4. u.ep0.todo = -1 /\ u.hw.txpkt.len = 0
      BY <2>1, <3>3 DEF control!Over, control!Packet
    <3>5. Acknowledged(u.ep0, u.hw, u.soft, o, u.ran)
      BY <1>4, <2>1, <3>1, <3>2, <3>4 DEF Acknowledged, size
    <3>6. QED
      BY <2>2, <3>5 DEF Agree, Phase
  <2>6. QED
    BY <1>1, <2>4, <2>5
<1>5. CASE control!Known(r) /\ ~r.in
  <2>1. /\ u.ran = 1 /\ u.ep0.todo = -1
        /\ u.hw.tx = "VALID" /\ ~u.soft.tx_ready /\ u.hw.txpkt.len = 0
        /\ u.soft.pending_addr = IF r.do = "SET_ADDRESS" THEN r.addr ELSE 0
    BY <1>5 DEF Answer
  <2>2. Turns(u.hw, u.soft)
    BY <2>1 DEF Turns
  <2>3. Acknowledged(u.ep0, u.hw, u.soft, o, u.ran)
    BY <1>5, <2>1 DEF Acknowledged
  <2>4. QED
    BY <2>2, <2>3 DEF Agree, Phase
<1>6. QED
  BY <1>1, <1>3, <1>4, <1>5

\* Data received for a request, and the status of one.
LEMMA RxDataOrStatus ==
  ASSUME NEW d \in Ep0Dev, ~d.hw.setup, d.ep0.data_len >= 0
  PROVE  LET u == control!handle_rx_transfer(d)
             r == d.ep0.req
             len == d.ep0.data_len + d.hw.rxpkt.len
         IN /\ u.ep0.req = r /\ u.soft.daddr = d.soft.daddr
            /\ ~r.in /\ len >= r.wLength => Answer(u, r, d.soft, d.ran)
            /\ ~r.in /\ len < r.wLength =>
                 Waits(u, d) /\ u.ep0.data_len = len /\ u.ep0.todo = d.ep0.todo
            /\ r.in => Waits(u, d) /\ u.ep0.todo = -1
<1> DEFINE u == control!handle_rx_transfer(d)
           r == d.ep0.req
           len == d.ep0.data_len + d.hw.rxpkt.len
<1>1. d.ep0.data_len \in Int /\ r.in \in BOOLEAN
  BY DevParts, AskedParts DEF Ep0Rec
<1>2. ~(d.ep0.data_len < 0)
  BY <1>1
<1> HIDE DEF u, len
<1>3. \/ /\ ~r.in /\ u.ep0.req = r /\ u.soft.daddr = d.soft.daddr
         /\ len >= r.wLength => Answer(u, r, d.soft, d.ran)
         /\ len < r.wLength =>
              Waits(u, d) /\ u.ep0.data_len = len /\ u.ep0.todo = d.ep0.todo
      \/ /\ r.in /\ u.ep0.req = r /\ u.soft.daddr = d.soft.daddr
         /\ Waits(u, d) /\ u.ep0.todo = -1
  BY <1>2, RxEp0 DEF u, len
<1>4. QED
  BY <1>3 DEF u, len

\* Whatever packet has come, handling it leads to a phase.
LEMMA RxPhase ==
  ASSUME NEW d \in Ep0Dev, NEW o \in Ep0Host, Agree(d, o), d.hw.ctr_rx
  PROVE  LET u == control!handle_rx_transfer(d)
         IN Agree(u, o) /\ u.soft.daddr = d.soft.daddr
<1> DEFINE u == control!handle_rx_transfer(d)
           r == d.hw.rxpkt.req
           len == d.ep0.data_len + d.hw.rxpkt.len
           e == d.ep0
           h == d.hw
           s == d.soft
           n == d.ran
<1>1. /\ u \in Ep0Dev /\ u.hw.rx = "VALID" /\ ~u.hw.ctr_rx /\ u.hw.ctr_tx = h.ctr_tx
  BY RxEp0
<1>2. /\ e \in Ep0Rec /\ h \in Ep0Hw /\ s \in Ep0Soft /\ n \in Nat
      /\ e.data_len \in Int /\ h.rxpkt.len \in Int /\ e.req \in Asked
      /\ h.setup \in BOOLEAN
  BY DevParts DEF Ep0Rec, Ep0Hw, Pkt
<1>3. o.req \in Asked /\ o.req.in \in BOOLEAN /\ o.req.wLength \in Nat
  BY AskedParts DEF Ep0Host
<1>4. CASE SetupWaits(h, s, o, n)
  <2>1. /\ h.setup /\ r = o.req /\ r \in Requests /\ o.ok /\ n = 0 /\ o.got = 0
        /\ h.tx = "NAK" /\ ~h.ctr_tx /\ s.pending_addr = 0 /\ s.tx_ready
    BY <1>4 DEF SetupWaits, Agree, Turns, control!Packet
  <2>2. /\ u.ep0.req = r /\ u.soft.daddr = d.soft.daddr
        /\ control!SetupReady(r) => Answer(u, r, d.soft, d.ran)
        /\ ~control!SetupReady(r) =>
             Waits(u, d) /\ u.ep0.data_len = 0 /\ u.ep0.todo = -1
    BY <2>1, RxEp0
  <2>3. CASE control!SetupReady(r)
    <3>1. \/ o.stage = "in" /\ r.in /\ r.wLength > 0 /\ o.got = 0
          \/ o.stage = "status_in" /\ r.in /\ r.wLength = 0 /\ o.got = 0
          \/ o.stage = "status_in" /\ ~r.in /\ o.got = r.wLength
      BY <1>3, <1>4, <2>1, <2>3 DEF SetupWaits, control!SetupReady
    <3>2. Answer(u, r, s, 0)
      BY <2>1, <2>2, <2>3
    <3> HIDE DEF u, r, s
    <3>3. Agree(u, o)
      BY <1>1, <2>1, <2>2, <3>1, <3>2, AnswerPhase
    <3>4. QED
      BY <2>2, <3>3 DEF u
  <2>4. CASE ~control!SetupReady(r)
    <3>1. ~r.in /\ r.wLength > 0 /\ o.stage \in {"out", "idle"}
      BY <1>3, <1>4, <2>1, <2>4 DEF SetupWaits, control!SetupReady
    <3>2. /\ u.ran = 0 /\ u.hw.tx = "NAK" /\ u.soft.tx_ready
          /\ u.soft.pending_addr = 0 /\ u.ep0.data_len = 0 /\ u.ep0.todo = -1
      BY <2>1, <2>2, <2>4 DEF Waits
    <3>3. Turns(u.hw, u.soft)
      BY <1>1, <2>1, <3>2 DEF Turns
    <3>4. Receiving(u.ep0, u.hw, u.soft, o, u.ran)
      BY <1>1, <2>1, <2>2, <3>1, <3>2 DEF Receiving
    <3>5. QED
      BY <2>1, <2>2, <3>3, <3>4 DEF Agree, Phase
  <2>5. QED
    BY <2>3, <2>4
<1>5. CASE e.req = o.req /\ o.req \in Requests /\ Receiving(e, h, s, o, n)
  <2>1. /\ ~e.req.in /\ o.ok /\ n = 0 /\ s.pending_addr = 0 /\ e.todo = -1
        /\ ~h.ctr_tx /\ h.tx = "NAK" /\ ~h.setup
        /\ e.data_len >= 0 /\ o.got = len /\ h.rxpkt.len >= 0
        /\ \/ o.stage \in {"out", "idle"} /\ o.got < e.req.wLength
           \/ o.stage = "status_in" /\ o.got = e.req.wLength
    BY <1>5 DEF Receiving
  <2>2. s.tx_ready
    BY <2>1 DEF Agree, Turns
  <2>3. /\ u.ep0.req = e.req /\ u.soft.daddr = d.soft.daddr
        /\ len >= e.req.wLength => Answer(u, e.req, d.soft, d.ran)
        /\ len < e.req.wLength =>
             Waits(u, d) /\ u.ep0.data_len = len /\ u.ep0.todo = e.todo
    BY <2>1, RxDataOrStatus
  <2>4. len \in Int /\ len >= 0
    BY <1>2, <2>1
  <2> HIDE DEF len, u, e
  <2>5. CASE o.got < e.req.wLength
    <3>1. len < e.req.wLength
      BY <2>1, <2>5
    <3>2. Waits(u, d) /\ u.ep0.data_len = len /\ u.ep0.todo = e.todo
      BY <2>3, <3>1
    <3>3. o.stage \in {"out", "idle"}
      BY <1>3, <1>5, <2>1, <2>5
    <3>4. /\ o.stage \in {"out", "idle"} /\ u.ran = 0 /\ u.hw.tx = "NAK" /\ u.soft.tx_ready
          /\ u.soft.pending_addr = 0 /\ u.ep0.data_len = o.got /\ u.ep0.todo = -1
      BY <2>1, <2>2, <3>2, <3>3 DEF Waits
    <3>5. Turns(u.hw, u.soft)
      BY <1>1, <2>1, <3>4 DEF Turns
    <3>6. Receiving(u.ep0, u.hw, u.soft, o, u.ran)
      BY <1>1, <2>1, <2>3, <2>4, <2>5, <3>4 DEF Receiving
    <3>7. QED
      BY <1>5, <2>3, <3>5, <3>6 DEF Agree, Phase, u
  <2>6. CASE o.got = e.req.wLength
    <3>1. o.stage = "status_in" /\ Answer(u, e.req, s, 0)
      BY <1>3, <1>5, <2>1, <2>3, <2>4, <2>6
    <3> DEFINE q == e.req
    <3>2. q \in Requests /\ o.req = q /\ u.ep0.req = q /\ ~q.in /\ o.got = q.wLength
      BY <1>5, <2>1, <2>3, <2>6
    <3> HIDE DEF q, s
    <3>3. Agree(u, o)
      BY <1>1, <2>1, <2>2, <3>1, <3>2, AnswerPhase DEF q
    <3>4. QED
      BY <2>3, <3>3 DEF u
  <2>7. QED
    BY <2>1, <2>5, <2>6
<1>6. CASE e.req = o.req /\ o.req \in Requests /\ Replied(e, h, s, o)
  <2>1. /\ e.req.do = "GET" /\ o.ok /\ s.pending_addr = 0
        /\ o.got = control!Reply(e.req) /\ h.tx = "NAK"
        /\ o.stage = "idle" /\ ~h.setup /\ e.data_len >= 0
    BY <1>6 DEF Replied
  <2>2. e.req.in
    BY <1>2, <2>1, AskedParts
  <2>3. /\ u.ep0.req = e.req /\ u.soft.daddr = d.soft.daddr
        /\ Waits(u, d) /\ u.ep0.todo = -1
    BY <2>1, <2>2, RxDataOrStatus
  <2> HIDE DEF u
  <2>4. Turns(u.hw, u.soft)
    BY <1>1, <2>1, <2>3 DEF Agree, Turns, Waits
  <2>5. Replied(u.ep0, u.hw, u.soft, o)
    BY <1>1, <2>1, <2>3 DEF Replied, Waits
  <2>6. QED
    BY <1>6, <2>3, <2>4, <2>5 DEF Agree, Phase, u
<1>7. ~Fresh(h, s, o) /\ ~Replying(e, h, s, o) /\ ~Acknowledged(e, h, s, o, n)
      /\ ~Refused(e, h, s, o, n)
  BY DEF Fresh, Replying, Acknowledged, Refused
<1>8. QED
  BY <1>4, <1>5, <1>6, <1>7 DEF Agree, Phase

\* Whatever has been sent, accounting for it leads to a phase; an address that
\* comes into use is the one the host uses.
LEMMA TxPhase ==
  ASSUME NEW d \in Ep0Dev, NEW o \in Ep0Host, Agree(d, o), d.hw.ctr_tx
  PROVE  LET u == control!handle_tx_transfer(d)
         IN Agree(u, o) /\ (u.soft.daddr = d.soft.daddr \/ u.soft.daddr = o.addr)
<1> DEFINE u == control!handle_tx_transfer(d)
           e == d.ep0
           h == d.hw
           s == d.soft
           n == d.ran
           len == Least(e.todo, control!Mps)
           left == e.todo - len
<1>1. /\ u \in Ep0Dev /\ ~u.hw.ctr_tx /\ u.hw.rx = h.rx /\ u.hw.ctr_rx = h.ctr_rx
      /\ u.hw.setup = h.setup /\ u.hw.rxpkt = h.rxpkt /\ u.ran = n
      /\ u.ep0.req = e.req /\ u.ep0.data_len = e.data_len /\ u.ep0.trunc = e.trunc
      /\ \/ u.soft.daddr = s.daddr /\ u.soft.pending_addr = s.pending_addr
         \/ s.pending_addr # 0 /\ u.soft.daddr = s.pending_addr /\ u.soft.pending_addr = 0
      /\ u.ep0.todo = -1 => u.soft.pending_addr = 0
      /\ e.todo < 0 => u.ep0 = e /\ u.hw.tx = h.tx /\ u.soft.tx_ready
      /\ e.todo >= 0 =>
           /\ u.hw.tx = "VALID" /\ ~u.soft.tx_ready
           /\ u.hw.txpkt = control!Packet(e.req, e.off, len)
           /\ u.ep0.off = e.off + len
           /\ u.ep0.todo = IF control!Over(e.trunc, left, len) THEN -1 ELSE left
  BY TxEp0
<1>2. /\ e.todo \in Int /\ e.off \in Int /\ e.data_len \in Int /\ o.got \in Int
      /\ u.ep0.trunc = TRUE \/ u.ep0.trunc = FALSE
      /\ u.soft.tx_ready = TRUE \/ u.soft.tx_ready = FALSE
  BY <1>1, DevParts DEF Ep0Rec, Ep0Soft, Ep0Host
<1>3. h.ctr_rx => h.rx # "VALID"
  BY DEF Agree, Turns
<1> HIDE DEF u
<1>4. CASE e.req = o.req /\ o.req \in Requests /\ Replying(e, h, s, o)
  <2>1. /\ e.req.do = "GET" /\ o.stage = "in" /\ o.ok /\ s.pending_addr = 0
        /\ e.data_len = control!Reply(e.req) /\ (e.trunc <=> e.data_len < e.req.wLength)
        /\ ~h.ctr_rx /\ o.got >= 0 /\ o.got <= e.data_len /\ o.got < e.req.wLength
        /\ e.off = o.got /\ e.todo = e.data_len - o.got
    BY <1>4 DEF Replying
  <2>2. e.todo >= 0
    BY <1>2, <2>1
  <2>3. u.soft.pending_addr = 0 /\ u.soft.daddr = s.daddr
    BY <1>1, <2>1
  <2>4. Turns(u.hw, u.soft)
    BY <1>1, <2>1, <2>2 DEF Turns
  <2>5. /\ u.ep0.req.do = "GET" /\ u.ep0.data_len = control!Reply(u.ep0.req)
        /\ u.ep0.trunc <=> u.ep0.data_len < u.ep0.req.wLength
        /\ ~u.hw.ctr_rx /\ o.got <= u.ep0.data_len /\ o.got < u.ep0.req.wLength
    BY <1>1, <2>1
  <2>6. /\ len = Least(u.ep0.data_len - o.got, control!Mps)
        /\ left = u.ep0.data_len - o.got - len
        /\ u.hw.tx = "VALID" /\ ~u.hw.ctr_tx
        /\ u.hw.txpkt = control!Packet(u.ep0.req, o.got, len)
        /\ u.ep0.off = o.got + len
        /\ u.ep0.todo = IF control!Over(u.ep0.trunc, left, len) THEN -1 ELSE left
    BY <1>1, <2>1, <2>2
  <2> HIDE DEF len, left
  <2>7. Replying(u.ep0, u.hw, u.soft, o)
    BY <2>1, <2>3, <2>5, <2>6 DEF Replying
  <2>8. QED
    BY <1>1, <1>4, <2>3, <2>4, <2>7 DEF Agree, Phase, u
<1>5. CASE /\ e.req = o.req /\ o.req \in Requests
           /\ Replied(e, h, s, o) \/ Acknowledged(e, h, s, o, n)
  <2>1. e.todo = -1
    BY <1>5 DEF Replied, Acknowledged
  <2>2. /\ u.ep0 = e /\ u.hw.tx = h.tx /\ u.soft.tx_ready /\ u.soft.pending_addr = 0
    BY <1>1, <2>1
  <2>3. h.tx = "NAK"
    BY <1>5 DEF Replied, Acknowledged
  <2>4. Turns(u.hw, u.soft)
    BY <1>1, <1>3, <2>2, <2>3 DEF Turns
  <2>5. CASE Replied(e, h, s, o)
    <3>1. u.soft.daddr = s.daddr
      BY <1>1, <2>5 DEF Replied
    <3>2. Replied(u.ep0, u.hw, u.soft, o)
      BY <1>1, <2>2, <2>3, <2>5 DEF Replied
    <3>3. QED
      BY <1>5, <2>2, <2>4, <3>1, <3>2 DEF Agree, Phase, u
  <2>6. CASE Acknowledged(e, h, s, o, n)
    <3>1. o.stage = "idle" /\ (s.pending_addr # 0 => s.pending_addr = o.addr)
      BY <2>6 DEF Acknowledged
    <3>2. u.soft.daddr = s.daddr \/ u.soft.daddr = o.addr
      BY <1>1, <3>1
    <3>3. Acknowledged(u.ep0, u.hw, u.soft, o, u.ran)
      BY <1>1, <2>2, <2>3, <2>6, <3>1 DEF Acknowledged
    <3>4. QED
      BY <1>5, <2>2, <2>4, <3>2, <3>3 DEF Agree, Phase, u
  <2>7. QED
    BY <1>5, <2>5, <2>6
<1>6. /\ ~Fresh(h, s, o) /\ ~SetupWaits(h, s, o, n) /\ ~Receiving(e, h, s, o, n)
      /\ ~Refused(e, h, s, o, n)
  BY DEF Fresh, SetupWaits, Receiving, Refused
<1>7. QED
  BY <1>4, <1>5, <1>6 DEF Agree, Phase

-----------------------------------------------------------------------------
(* Every step keeps where the transfer stands.                             *)

\* The device before the handlers is of its parts.
LEMMA DeviceEp0 ==
  ASSUME Ep0Types
  PROVE  LET d == control!Device
         IN d \in Ep0Dev /\ d.ep0 = ep0 /\ d.hw = hw /\ d.soft = soft /\ d.ran = ran
BY DEF Ep0Types, Ep0Dev, control!Device

\* The main loop looks at the flags; what it sees stays until it handles it.
LEMMA LookEp0 ==
  ASSUME Ep0Inv, control!usbd_process
  PROVE  Ep0Inv'
<1>1. UNCHANGED <<ep0, hw, soft, host, ran>>
  BY DEF control!usbd_process
<1> DEFINE k == CASE hw.ctr_rx -> "rx" [] ~hw.ctr_rx /\ hw.ctr_tx -> "tx"
                  [] OTHER -> "none"
<1>2. main' = <<"handle", k, hw.reset>> /\ hw.reset \in BOOLEAN
  BY DEF control!usbd_process, Ep0Inv, Ep0Types, Ep0Hw
<1>3. /\ k \in {"rx", "tx", "none"} /\ (k = "rx" => hw.ctr_rx) /\ (k = "tx" => hw.ctr_tx)
  OBVIOUS
<1> HIDE DEF k
<1>4. Noticed'
  BY <1>1, <1>2, <1>3 DEF Noticed
<1>5. QED
  BY <1>1, <1>4 DEF Ep0Inv, Ep0Types

\* Handling what was noticed leads to a phase, or is over with the reset; an
\* address that comes into use is the host's.
LEMMA HandleEp0 ==
  ASSUME Ep0Inv, control!Handle
  PROVE  Ep0Inv' /\ (soft'.daddr = soft.daddr \/ soft'.daddr = host'.addr \/ hw.reset)
<1> DEFINE d == control!Device
<1>1. PICK k \in {"rx", "tx", "none"}, r \in BOOLEAN :
        /\ main = <<"handle", k, r>> /\ (r => hw.reset)
        /\ (k = "rx" => hw.ctr_rx) /\ (k = "tx" => hw.ctr_tx)
  BY DEF Ep0Inv, Noticed, control!Handle
<1>2. d \in Ep0Dev /\ d.ep0 = ep0 /\ d.hw = hw /\ d.soft = soft /\ d.ran = ran
  BY DeviceEp0 DEF Ep0Inv
<1> DEFINE done == CASE k = "rx" -> control!handle_rx_transfer(d)
                     [] k = "tx" -> control!handle_tx_transfer(d)
                     [] OTHER -> d
           u == IF r THEN control!handle_reset(done) ELSE done
<1>3. control!Becomes(u) /\ main' = <<"usb">> /\ host' = host
  BY <1>1 DEF control!Handle
<1> HIDE DEF d
<1>4. /\ k = "rx" => done = control!handle_rx_transfer(d)
      /\ k = "tx" => done = control!handle_tx_transfer(d)
      /\ k = "none" => done = d
  OBVIOUS
<1>5. /\ r => u = control!handle_reset(done)
      /\ ~r => u = done
  OBVIOUS
<1> HIDE DEF done, u
<1>6. done \in Ep0Dev /\ done.hw.reset = hw.reset
  <2>1. CASE k = "rx"
    BY <1>2, <1>4, <2>1, RxEp0
  <2>2. CASE k = "tx"
    BY <1>2, <1>4, <2>2, TxEp0
  <2>3. CASE k = "none"
    BY <1>2, <1>4, <2>3
  <2>4. QED
    BY <2>1, <2>2, <2>3
<1>7. /\ ep0' = u.ep0 /\ hw' = u.hw /\ soft' = u.soft /\ ran' = u.ran
  BY <1>3 DEF control!Becomes
<1>8. u \in Ep0Dev
  BY <1>5, <1>6, ResetEp0
<1>9. Ep0Types' /\ Noticed'
  <2>1. u.ep0 \in Ep0Rec /\ u.hw \in Ep0Hw /\ u.soft \in Ep0Soft /\ u.ran \in Nat
    BY <1>8, DevParts
  <2>2. host \in Ep0Host
    BY DEF Ep0Inv, Ep0Types
  <2>3. Ep0Types'
    BY <1>3, <1>7, <2>1, <2>2 DEF Ep0Types
  <2>4. Noticed'
    BY <1>3 DEF Noticed
  <2>5. QED
    BY <2>3, <2>4
<1>10. CASE r
  <2>1. host = control!Idle /\ hw.reset
    BY <1>1, <1>10 DEF Ep0Inv
  <2>2. hw' = control!Configured /\ soft'.tx_ready /\ soft'.pending_addr = 0
    BY <1>5, <1>6, <1>7, <1>10, ResetEp0
  <2>3. /\ hw'.tx = "NAK" /\ ~hw'.ctr_rx /\ ~hw'.ctr_tx /\ ~hw'.reset
    BY <2>2, ConfiguredEp0
  <2>4. host'.stage = "idle" /\ host'.req = control!NoRequest /\ host'.ok
    BY <1>3, <2>1 DEF control!Idle
  <2>5. Turns(hw', soft')
    BY <2>2, <2>3 DEF Turns
  <2>6. Fresh(hw', soft', host')
    BY <2>2, <2>3, <2>4 DEF Fresh
  <2>7. Phase(ep0', hw', soft', host', ran')
    BY <2>6 DEF Phase
  <2>8. QED
    BY <1>9, <2>1, <2>3, <2>5, <2>7 DEF Ep0Inv
<1>11. CASE ~r /\ hw.reset
  <2>1. host' = control!Idle /\ hw'.reset
    BY <1>3, <1>5, <1>6, <1>7, <1>11 DEF Ep0Inv
  <2>2. QED
    BY <1>9, <1>11, <2>1 DEF Ep0Inv
<1>12. CASE ~r /\ ~hw.reset
  <2>1. Agree(d, host) /\ host \in Ep0Host
    BY <1>2, <1>12 DEF Ep0Inv, Ep0Types, Agree
  <2>2. /\ Agree(done, host)
        /\ done.soft.daddr = soft.daddr \/ done.soft.daddr = host.addr
    <3>1. CASE k = "rx"
      BY <1>1, <1>2, <1>4, <2>1, <3>1, RxPhase
    <3>2. CASE k = "tx"
      BY <1>1, <1>2, <1>4, <2>1, <3>2, TxPhase
    <3>3. CASE k = "none"
      BY <1>2, <1>4, <2>1, <3>3
    <3>4. QED
      BY <3>1, <3>2, <3>3
  <2>3. u = done /\ ~hw'.reset
    BY <1>5, <1>6, <1>7, <1>12
  <2>4. Turns(hw', soft') /\ Phase(ep0', hw', soft', host', ran')
    BY <1>3, <1>7, <2>2, <2>3 DEF Agree
  <2>5. soft'.daddr = soft.daddr \/ soft'.daddr = host'.addr
    BY <1>3, <1>7, <2>2, <2>3
  <2>6. QED
    BY <1>9, <2>3, <2>4, <2>5 DEF Ep0Inv
<1>13. QED
  BY <1>10, <1>11, <1>12

\* A step of the host leaves the firmware alone, and what it has noticed so.
LEMMA HostStep ==
  ASSUME Ep0Inv, ~hw.reset, UNCHANGED <<ep0, soft, main>>,
         hw' \in Ep0Hw, host' \in Ep0Host, ran' \in Nat, ~hw'.reset,
         hw.ctr_rx => hw'.ctr_rx, hw.ctr_tx => hw'.ctr_tx,
         Turns(hw', soft), Phase(ep0, hw', soft, host', ran')
  PROVE  Ep0Inv'
<1>1. Ep0Types'
  BY DEF Ep0Inv, Ep0Types
<1>2. Noticed'
  <2>1. CASE main = <<"usb">>
    BY <2>1 DEF Noticed
  <2>2. CASE main # <<"usb">>
    <3>1. PICK k \in {"rx", "tx", "none"}, r \in BOOLEAN :
            /\ main = <<"handle", k, r>> /\ (r => hw.reset)
            /\ (k = "rx" => hw.ctr_rx) /\ (k = "tx" => hw.ctr_tx)
      BY <2>2 DEF Ep0Inv, Noticed
    <3>2. /\ main' = <<"handle", k, r>> /\ (r => hw'.reset)
          /\ (k = "rx" => hw'.ctr_rx) /\ (k = "tx" => hw'.ctr_tx)
      BY <3>1
    <3>3. QED
      BY <3>2 DEF Noticed
  <2>3. QED
    BY <2>1, <2>2
<1>3. Turns(hw', soft') /\ Phase(ep0', hw', soft', host', ran')
  OBVIOUS
<1>4. QED
  BY <1>1, <1>2, <1>3 DEF Ep0Inv

\* The state in which the host may do more than reset the bus.
LEMMA OnTheBus ==
  ASSUME Ep0Inv, control!Reachable
  PROVE  /\ ~hw.reset /\ Turns(hw, soft) /\ Phase(ep0, hw, soft, host, ran)
         /\ ep0 \in Ep0Rec /\ hw \in Ep0Hw /\ soft \in Ep0Soft /\ host \in Ep0Host
         /\ ran \in Nat
BY DEF Ep0Inv, Ep0Types, control!Reachable

\* A SETUP packet finds the firmware done with the transfer before it, if the
\* host waits for that.
LEMMA SetupStep ==
  ASSUME Ep0Inv, ~Eager, NEW r \in Requests, control!Setup(r)
  PROVE  Ep0Inv'
<1>1. /\ ~hw.reset /\ Turns(hw, soft) /\ Phase(ep0, hw, soft, host, ran)
      /\ ep0 \in Ep0Rec /\ hw \in Ep0Hw /\ soft \in Ep0Soft /\ host \in Ep0Host
      /\ ran \in Nat
  BY OnTheBus DEF control!Setup
<1> DEFINE p == control!Packet(r, 0, 0)
           stage == CASE r.wLength = 0 -> "status_in"
                      [] r.wLength > 0 /\ r.in -> "in"
                      [] OTHER -> "out"
           h2 == [hw EXCEPT !.rx = "NAK", !.tx = "NAK", !.ctr_rx = TRUE,
                            !.setup = TRUE, !.rxpkt = p]
           o2 == [host EXCEPT !.req = r, !.got = 0, !.ok = TRUE, !.stage = stage]
<1>2. /\ host.stage = "idle" /\ ~hw.ctr_rx /\ ~hw.ctr_tx
      /\ hw' = h2 /\ host' = o2 /\ ran' = 0 /\ UNCHANGED <<ep0, soft, main>>
  BY DEF control!Setup
<1>3. r \in Asked /\ r.in \in BOOLEAN /\ r.wLength \in Nat
  BY AskedParts DEF Asked
<1>4. p \in Pkt
  BY <1>3 DEF Pkt, control!Packet
<1>5. stage \in {"status_in", "in", "out"}
  OBVIOUS
<1>6. /\ r.wLength = 0 => stage = "status_in"
      /\ r.wLength > 0 /\ r.in => stage = "in"
      /\ r.wLength > 0 /\ ~r.in => stage = "out"
  BY <1>3
<1> HIDE DEF p, stage
<1>7. h2 \in Ep0Hw
  <2> DEFINE y == [hw EXCEPT !.rx = "NAK", !.tx = "NAK", !.rxpkt = p]
             z == [y EXCEPT !.ctr_rx = TRUE]
             x == [z EXCEPT !.setup = TRUE]
  <2>1. y \in Ep0Hw
    BY <1>1, <1>4 DEF Ep0Hw
  <2> HIDE DEF y
  <2>2. z \in Ep0Hw
    BY <2>1 DEF Ep0Hw
  <2> HIDE DEF z
  <2>3. x \in Ep0Hw
    BY <2>2 DEF Ep0Hw
  <2>4. h2 = x
    BY DEF x, z, y
  <2>5. QED
    BY <2>3, <2>4
<1>8. /\ h2.tx = "NAK" /\ h2.rx = "NAK" /\ h2.rxpkt = p /\ h2.ctr_rx /\ h2.setup
      /\ h2.ctr_tx = hw.ctr_tx /\ h2.reset = hw.reset
  BY <1>1 DEF Ep0Hw
<1>9. o2 \in Ep0Host
  <2> DEFINE zero == 0
             y == [host EXCEPT !.req = r, !.got = zero, !.stage = stage]
             x == [y EXCEPT !.ok = TRUE]
  <2>1. zero \in Int
    OBVIOUS
  <2> HIDE DEF zero
  <2>2. y \in Ep0Host
    BY <1>1, <1>3, <1>5, <2>1 DEF Ep0Host
  <2> HIDE DEF y
  <2>3. x \in Ep0Host
    BY <2>2 DEF Ep0Host
  <2>4. o2 = x
    BY DEF x, y, zero
  <2>5. QED
    BY <2>3, <2>4
<1>10. o2.req = r /\ o2.got = 0 /\ o2.ok /\ o2.stage = stage
  BY <1>1 DEF Ep0Host
<1> HIDE DEF h2, o2
<1>11. soft.pending_addr = 0 /\ hw.tx # "VALID"
  BY <1>1, <1>2 DEF Phase, Fresh, SetupWaits, Receiving, Replying, Replied, Acknowledged,
     Refused
<1>12. Turns(h2, soft)
  BY <1>1, <1>2, <1>8, <1>11 DEF Turns
<1>13. SetupWaits(h2, soft, o2, 0)
  BY <1>2, <1>3, <1>6, <1>8, <1>10, <1>11 DEF SetupWaits, p
<1>14. Phase(ep0, h2, soft, o2, 0)
  BY <1>13 DEF Phase
<1>15. QED
  <2>1. /\ hw' \in Ep0Hw /\ host' \in Ep0Host /\ ran' \in Nat /\ ~hw'.reset
        /\ (hw.ctr_rx => hw'.ctr_rx) /\ (hw.ctr_tx => hw'.ctr_tx)
        /\ Turns(hw', soft) /\ Phase(ep0, hw', soft, host', ran')
    BY <1>1, <1>2, <1>7, <1>8, <1>9, <1>12, <1>14
  <2>2. QED
    BY <1>1, <1>2, <2>1, HostStep

\* What a packet to the device does to the registers.
LEMMA OutEp0 ==
  ASSUME Ep0Inv, NEW len \in Int, control!Out(len)
  PROVE  /\ hw' \in Ep0Hw /\ ~hw.ctr_rx /\ hw'.ctr_rx /\ ~hw'.setup
         /\ hw'.rxpkt.len = len
         /\ hw'.tx = hw.tx /\ hw'.ctr_tx = hw.ctr_tx /\ ~hw'.reset
         /\ Turns(hw', soft) /\ UNCHANGED <<ep0, soft, main, ran>>
<1>1. /\ ~hw.reset /\ Turns(hw, soft) /\ hw \in Ep0Hw /\ host \in Ep0Host
  BY OnTheBus DEF control!Out
<1> DEFINE p == control!Packet(host.req, host.got, len)
           y == [hw EXCEPT !.rx = "NAK", !.rxpkt = p]
           z == [y EXCEPT !.ctr_rx = TRUE]
           x == [z EXCEPT !.setup = FALSE]
<1>2. /\ hw.rx = "VALID" /\ UNCHANGED <<ep0, soft, main, ran>>
      /\ hw' = [hw EXCEPT !.rx = "NAK", !.ctr_rx = TRUE, !.setup = FALSE, !.rxpkt = p]
  BY DEF control!Out
<1>3. hw' = x
  BY <1>2
<1>4. p \in Pkt /\ p.len = len
  BY <1>1 DEF Pkt, control!Packet, Ep0Host
<1> HIDE DEF p
<1>5. /\ y \in Ep0Hw /\ y.rx = "NAK" /\ y.rxpkt = p /\ y.tx = hw.tx
      /\ y.ctr_tx = hw.ctr_tx /\ y.reset = hw.reset
  BY <1>1, <1>4 DEF Ep0Hw
<1> HIDE DEF y
<1>6. /\ z \in Ep0Hw /\ z.rx = y.rx /\ z.rxpkt = y.rxpkt /\ z.tx = y.tx
      /\ z.ctr_tx = y.ctr_tx /\ z.reset = y.reset /\ z.ctr_rx
  BY <1>5 DEF Ep0Hw
<1> HIDE DEF z
<1>7. /\ x \in Ep0Hw /\ x.rx = z.rx /\ x.rxpkt = z.rxpkt /\ x.tx = z.tx
      /\ x.ctr_tx = z.ctr_tx /\ x.reset = z.reset /\ x.ctr_rx = z.ctr_rx /\ ~x.setup
  BY <1>6 DEF Ep0Hw
<1> HIDE DEF x
<1>8. ~hw.ctr_rx
  BY <1>1, <1>2 DEF Turns
<1>9. /\ hw' \in Ep0Hw /\ hw'.ctr_rx /\ ~hw'.setup /\ hw'.rxpkt.len = len
      /\ hw'.rx = "NAK" /\ hw'.tx = hw.tx /\ hw'.ctr_tx = hw.ctr_tx /\ ~hw'.reset
  BY <1>1, <1>3, <1>4, <1>5, <1>6, <1>7
<1>10. Turns(hw', soft)
  BY <1>1, <1>9 DEF Turns
<1>11. QED
  BY <1>2, <1>8, <1>9, <1>10

\* The host sends the next packet of data.
LEMMA HostDataStep ==
  ASSUME Ep0Inv, control!HostData
  PROVE  Ep0Inv'
<1> DEFINE len == control!Min({control!Mps, host.req.wLength - host.got})
           all == host.got + len
           stage == IF all = host.req.wLength THEN "status_in" ELSE "out"
           o2 == [host EXCEPT !.got = all, !.stage = stage]
<1>1. /\ ~hw.reset /\ Turns(hw, soft) /\ Phase(ep0, hw, soft, host, ran)
      /\ ep0 \in Ep0Rec /\ hw \in Ep0Hw /\ soft \in Ep0Soft /\ host \in Ep0Host
      /\ ran \in Nat
  BY OnTheBus DEF control!HostData, control!Out
<1>2. host.got \in Int /\ host.req.wLength \in Nat /\ ep0.data_len \in Int
  BY <1>1, AskedParts DEF Ep0Host, Ep0Rec
<1>3. len \in Int /\ len = Least(2, host.req.wLength - host.got)
  <2> DEFINE rest == host.req.wLength - host.got
  <2>1. rest \in Int /\ control!Mps = 2
    BY <1>2 DEF control!Mps
  <2> HIDE DEF rest
  <2>2. control!Min({2, rest}) = Least(2, rest) /\ Least(2, rest) \in Int
    BY <2>1, MinOf
  <2>3. QED
    BY <2>1, <2>2 DEF rest
<1>4. host.stage = "out" /\ control!Out(len) /\ host' = o2
  BY DEF control!HostData
<1> HIDE DEF len
<1>5. /\ hw' \in Ep0Hw /\ ~hw.ctr_rx /\ hw'.ctr_rx /\ ~hw'.setup /\ hw'.rxpkt.len = len
      /\ hw'.tx = hw.tx /\ hw'.ctr_tx = hw.ctr_tx /\ ~hw'.reset
      /\ Turns(hw', soft) /\ UNCHANGED <<ep0, soft, main, ran>>
  BY <1>3, <1>4, OutEp0
<1>6. ep0.req = host.req /\ host.req \in Requests /\ Receiving(ep0, hw, soft, host, ran)
  BY <1>1, <1>4, <1>5 DEF Phase, Fresh, SetupWaits, Receiving, Replying, Replied,
     Acknowledged, Refused
<1>7. /\ host.got = ep0.data_len /\ ~ep0.req.in /\ host.ok /\ ran = 0
      /\ soft.pending_addr = 0 /\ ep0.todo = -1 /\ ~hw.ctr_tx /\ hw.tx = "NAK"
      /\ ep0.data_len >= 0 /\ ep0.data_len < ep0.req.wLength
  BY <1>5, <1>6 DEF Receiving
<1>8. /\ all \in Int /\ len >= 0
      /\ \/ all = ep0.req.wLength /\ stage = "status_in"
         \/ all < ep0.req.wLength /\ stage = "out"
  <2>1. len >= 0 /\ all \in Int /\ all <= host.req.wLength
    BY <1>2, <1>3, <1>6, <1>7 DEF Least
  <2>2. ep0.req.wLength = host.req.wLength
    BY <1>6
  <2> HIDE DEF all
  <2>3. QED
    BY <1>2, <2>1, <2>2
<1> HIDE DEF all, stage
<1>9. stage \in {"status_in", "out"}
  BY <1>8
<1>10. /\ o2 \in Ep0Host /\ o2.got = all /\ o2.stage = stage /\ o2.req = host.req
       /\ o2.ok = host.ok
  BY <1>1, <1>8, <1>9 DEF Ep0Host
<1>11. all = ep0.data_len + len
  BY <1>7 DEF all
<1> HIDE DEF o2
<1>12. Receiving(ep0, hw', soft, host', ran)
  BY <1>4, <1>5, <1>7, <1>8, <1>10, <1>11 DEF Receiving
<1>13. Phase(ep0, hw', soft, host', ran')
  BY <1>4, <1>5, <1>6, <1>10, <1>12 DEF Phase
<1>14. QED
  <2>1. ran' \in Nat /\ host' \in Ep0Host /\ (hw.ctr_tx => hw'.ctr_tx)
    BY <1>1, <1>4, <1>5, <1>10
  <2>2. QED
    BY <1>1, <1>5, <1>13, <2>1, HostStep

\* The host has all of the reply.
LEMMA StatusOutStep ==
  ASSUME Ep0Inv, control!HostStatusOut
  PROVE  Ep0Inv'
<1> DEFINE o2 == [host EXCEPT !.stage = "idle"]
<1>1. /\ ~hw.reset /\ Turns(hw, soft) /\ Phase(ep0, hw, soft, host, ran)
      /\ ep0 \in Ep0Rec /\ hw \in Ep0Hw /\ soft \in Ep0Soft /\ host \in Ep0Host
      /\ ran \in Nat
  BY OnTheBus DEF control!HostStatusOut, control!Out
<1>2. host.stage = "status_out" /\ control!Out(0) /\ host' = o2
  BY DEF control!HostStatusOut
<1>3. /\ hw' \in Ep0Hw /\ ~hw.ctr_rx /\ hw'.ctr_rx /\ ~hw'.setup
      /\ hw'.tx = hw.tx /\ hw'.ctr_tx = hw.ctr_tx /\ ~hw'.reset
      /\ Turns(hw', soft) /\ UNCHANGED <<ep0, soft, main, ran>>
  BY <1>2, OutEp0
<1>4. ep0.req = host.req /\ host.req \in Requests /\ Replied(ep0, hw, soft, host)
  BY <1>1, <1>2 DEF Phase, Fresh, SetupWaits, Receiving, Replying, Replied,
     Acknowledged, Refused
<1>5. /\ o2 \in Ep0Host /\ o2.stage = "idle" /\ o2.req = host.req /\ o2.ok = host.ok
      /\ o2.got = host.got
  BY <1>1 DEF Ep0Host
<1> HIDE DEF o2
<1>6. Replied(ep0, hw', soft, host')
  BY <1>2, <1>3, <1>4, <1>5 DEF Replied
<1>7. Phase(ep0, hw', soft, host', ran')
  BY <1>2, <1>4, <1>5, <1>6 DEF Phase
<1>8. QED
  <2>1. ran' \in Nat /\ host' \in Ep0Host /\ (hw.ctr_tx => hw'.ctr_tx)
    BY <1>1, <1>2, <1>3, <1>5
  <2>2. QED
    BY <1>1, <1>3, <1>7, <2>1, HostStep

\* What taking a packet from the device does to the registers.
LEMMA InEp0 ==
  ASSUME Ep0Inv, control!In
  PROVE  /\ hw' \in Ep0Hw /\ hw.tx = "VALID" /\ ~hw.ctr_tx
         /\ hw'.tx = "NAK" /\ hw'.ctr_tx
         /\ hw'.ctr_rx = hw.ctr_rx /\ hw'.setup = hw.setup /\ ~hw'.reset
         /\ Turns(hw', soft) /\ UNCHANGED <<ep0, soft, main, ran>>
<1>1. /\ ~hw.reset /\ Turns(hw, soft) /\ Phase(ep0, hw, soft, host, ran) /\ hw \in Ep0Hw
  BY OnTheBus DEF control!In
<1> DEFINE y == [hw EXCEPT !.tx = "NAK", !.txpkt = control!Nothing]
           z == [y EXCEPT !.ctr_tx = TRUE]
<1>2. /\ hw.tx = "VALID" /\ UNCHANGED <<ep0, soft, main, ran>>
      /\ hw' = [hw EXCEPT !.tx = "NAK", !.ctr_tx = TRUE, !.txpkt = control!Nothing]
  BY DEF control!In
<1>3. hw' = z
  BY <1>2
<1>4. control!Nothing \in Pkt
  BY DEF control!Nothing, control!Packet, Pkt, Asked
<1>5. /\ y \in Ep0Hw /\ y.rx = hw.rx /\ y.tx = "NAK" /\ y.ctr_rx = hw.ctr_rx
      /\ y.setup = hw.setup /\ y.reset = hw.reset
  BY <1>1, <1>4 DEF Ep0Hw
<1> HIDE DEF y
<1>6. /\ z \in Ep0Hw /\ z.rx = y.rx /\ z.tx = y.tx /\ z.ctr_rx = y.ctr_rx
      /\ z.setup = y.setup /\ z.reset = y.reset /\ z.ctr_tx
  BY <1>5 DEF Ep0Hw
<1> HIDE DEF z
<1>7. ~hw.ctr_tx
  BY <1>1, <1>2 DEF Phase, Fresh, SetupWaits, Receiving, Replying, Replied,
     Acknowledged, Refused
<1>8. /\ hw' \in Ep0Hw /\ hw'.rx = hw.rx /\ hw'.tx = "NAK" /\ hw'.ctr_tx
      /\ hw'.ctr_rx = hw.ctr_rx /\ hw'.setup = hw.setup /\ ~hw'.reset
  BY <1>1, <1>3, <1>5, <1>6
<1>9. Turns(hw', soft)
  BY <1>1, <1>2, <1>8 DEF Turns
<1>10. QED
  BY <1>2, <1>7, <1>8, <1>9

\* The host takes a packet of the reply, and knows the last one.
LEMMA TakesStep ==
  ASSUME Ep0Inv, control!HostTakes
  PROVE  Ep0Inv'
<1> DEFINE p == hw.txpkt
           all == host.got + p.len
           stage == IF p.len < control!Mps \/ all >= host.req.wLength
                    THEN "status_out" ELSE "in"
           ok == host.ok /\ p = control!Packet(host.req, host.got, p.len)
           o2 == [host EXCEPT !.got = all, !.ok = ok, !.stage = stage]
<1>1. /\ ~hw.reset /\ Turns(hw, soft) /\ Phase(ep0, hw, soft, host, ran)
      /\ ep0 \in Ep0Rec /\ hw \in Ep0Hw /\ soft \in Ep0Soft /\ host \in Ep0Host
      /\ ran \in Nat
  BY OnTheBus DEF control!HostTakes, control!In
<1>2. /\ host.got \in Int /\ host.req.wLength \in Nat /\ ep0.data_len \in Int
      /\ ep0.trunc \in BOOLEAN /\ p.len \in Int
  BY <1>1, AskedParts DEF Ep0Host, Ep0Rec, Ep0Hw, Pkt
<1>3. host.stage = "in" /\ control!In /\ host' = o2
  BY DEF control!HostTakes
<1>4. /\ hw' \in Ep0Hw /\ hw.tx = "VALID" /\ ~hw.ctr_tx /\ hw'.tx = "NAK" /\ hw'.ctr_tx
      /\ hw'.ctr_rx = hw.ctr_rx /\ hw'.setup = hw.setup /\ ~hw'.reset
      /\ Turns(hw', soft) /\ UNCHANGED <<ep0, soft, main, ran>>
  BY <1>3, InEp0
<1>5. ep0.req = host.req /\ host.req \in Requests /\ Replying(ep0, hw, soft, host)
  BY <1>1, <1>3, <1>4 DEF Phase, Fresh, SetupWaits, Receiving, Replying, Replied,
     Acknowledged, Refused
<1> DEFINE len == Least(ep0.data_len - host.got, control!Mps)
           left == ep0.data_len - host.got - len
<1>6. /\ ep0.req.do = "GET" /\ host.ok /\ soft.pending_addr = 0 /\ ~hw.ctr_rx
      /\ ep0.data_len = control!Reply(ep0.req)
      /\ ep0.trunc <=> ep0.data_len < ep0.req.wLength
      /\ host.got >= 0 /\ host.got <= ep0.data_len /\ host.got < ep0.req.wLength
      /\ p = control!Packet(ep0.req, host.got, len) /\ ep0.off = host.got + len
      /\ ep0.todo = IF control!Over(ep0.trunc, left, len) THEN -1 ELSE left
  BY <1>4, <1>5 DEF Replying
<1>7. p.len = len /\ ok
  BY <1>5, <1>6 DEF control!Packet
<1>8. /\ len \in Int /\ len >= 0 /\ len <= 2 /\ left >= 0
      /\ all = host.got + len /\ all \in Int /\ all >= 0 /\ all <= ep0.data_len
      /\ left = ep0.data_len - all
  BY <1>2, <1>6, <1>7 DEF Least, control!Mps
<1>9. ep0.data_len <= ep0.req.wLength
  BY <1>1, <1>6, AskedParts DEF Ep0Rec
<1>10. \/ stage = "status_out" /\ all = ep0.data_len /\ ep0.todo = -1
       \/ stage = "in" /\ all < ep0.req.wLength /\ ep0.todo = left
  <2>1. CASE len < 2
    <3>1. left = 0 /\ all = ep0.data_len
      BY <1>2, <1>8, <2>1 DEF Least, control!Mps
    <3>2. control!Over(ep0.trunc, left, len)
      BY <2>1, <3>1 DEF control!Over, control!Mps
    <3>3. stage = "status_out"
      BY <1>7, <2>1 DEF control!Mps
    <3> HIDE DEF left, len, all, stage
    <3>4. QED
      BY <1>6, <3>1, <3>2, <3>3
  <2>2. CASE len = 2 /\ all >= ep0.req.wLength
    <3>1. all = ep0.data_len /\ left = 0 /\ ~ep0.trunc
      BY <1>2, <1>5, <1>6, <1>8, <1>9, <2>2
    <3>2. control!Over(ep0.trunc, left, len)
      BY <3>1 DEF control!Over
    <3>3. stage = "status_out"
      BY <1>5, <2>2
    <3> HIDE DEF left, len, all, stage
    <3>4. QED
      BY <1>6, <3>1, <3>2, <3>3
  <2>3. CASE len = 2 /\ all < ep0.req.wLength
    <3>1. stage = "in"
      BY <1>2, <1>5, <1>7, <1>8, <2>3 DEF control!Mps
    <3>2. ~control!Over(ep0.trunc, left, len)
      <4>1. left = 0 => ep0.trunc
        BY <1>2, <1>5, <1>6, <1>8, <2>3
      <4>2. QED
        BY <2>3, <4>1 DEF control!Over, control!Mps
    <3> HIDE DEF left, len, all, stage
    <3>3. QED
      BY <1>6, <2>3, <3>1, <3>2
  <2>4. QED
    BY <1>2, <1>5, <1>8, <2>1, <2>2, <2>3
<1>11. stage \in {"status_out", "in"} /\ ok \in BOOLEAN
  OBVIOUS
<1> HIDE DEF p, all, stage, ok, len, left
<1>12. /\ o2 \in Ep0Host /\ o2.got = all /\ o2.stage = stage /\ o2.req = host.req
       /\ o2.ok = ok
  BY <1>1, <1>8, <1>11 DEF Ep0Host
<1> HIDE DEF o2
<1>13. Replying(ep0, hw', soft, host') \/ Replied(ep0, hw', soft, host')
  <2>1. CASE stage = "status_out" /\ all = ep0.data_len /\ ep0.todo = -1
    <3>1. Replied(ep0, hw', soft, host')
      BY <1>3, <1>4, <1>6, <1>7, <1>8, <1>12, <2>1 DEF Replied
    <3>2. QED
      BY <3>1
  <2>2. CASE stage = "in" /\ all < ep0.req.wLength /\ ep0.todo = left
    <3>1. ep0.off = all /\ ep0.todo = ep0.data_len - all
      BY <1>6, <1>8, <2>2
    <3>2. Replying(ep0, hw', soft, host')
      BY <1>3, <1>4, <1>6, <1>7, <1>8, <1>12, <2>2, <3>1 DEF Replying
    <3>3. QED
      BY <3>2
  <2>3. QED
    BY <1>10, <2>1, <2>2
<1>14. Phase(ep0, hw', soft, host', ran')
  BY <1>3, <1>5, <1>12, <1>13 DEF Phase
<1>15. QED
  <2>1. ran' \in Nat /\ host' \in Ep0Host /\ (hw.ctr_rx => hw'.ctr_rx)
        /\ (hw.ctr_tx => hw'.ctr_tx)
    BY <1>1, <1>3, <1>4, <1>12
  <2>2. QED
    BY <1>1, <1>4, <1>14, <2>1, HostStep

\* The host has the status: the request was carried out, and its address waits
\* only for the firmware to hear of it.
LEMMA StatusInStep ==
  ASSUME Ep0Inv, control!HostStatusIn
  PROVE  Ep0Inv'
<1> DEFINE ok == host.ok /\ hw.txpkt.len = 0
           addr == IF host.req.do = "SET_ADDRESS" THEN host.req.addr ELSE host.addr
           o2 == [host EXCEPT !.stage = "idle", !.ok = ok, !.addr = addr]
<1>1. /\ ~hw.reset /\ Turns(hw, soft) /\ Phase(ep0, hw, soft, host, ran)
      /\ ep0 \in Ep0Rec /\ hw \in Ep0Hw /\ soft \in Ep0Soft /\ host \in Ep0Host
      /\ ran \in Nat
  BY OnTheBus DEF control!HostStatusIn, control!In
<1>2. host.stage = "status_in" /\ control!In /\ host' = o2
  BY DEF control!HostStatusIn
<1>3. /\ hw' \in Ep0Hw /\ hw.tx = "VALID" /\ ~hw.ctr_tx /\ hw'.tx = "NAK" /\ hw'.ctr_tx
      /\ hw'.ctr_rx = hw.ctr_rx /\ hw'.setup = hw.setup /\ ~hw'.reset
      /\ Turns(hw', soft) /\ UNCHANGED <<ep0, soft, main, ran>>
  BY <1>2, InEp0
<1>4. ep0.req = host.req /\ host.req \in Requests
      /\ Acknowledged(ep0, hw, soft, host, ran)
  BY <1>1, <1>2, <1>3 DEF Phase, Fresh, SetupWaits, Receiving, Replying, Replied,
     Acknowledged, Refused
<1>5. /\ hw.txpkt.len = 0 /\ host.ok
      /\ soft.pending_addr # 0 =>
           ep0.req.do = "SET_ADDRESS" /\ soft.pending_addr = ep0.req.addr
  BY <1>2, <1>3, <1>4 DEF Acknowledged
<1>6. addr \in Nat /\ ok \in BOOLEAN
  BY <1>1, AskedParts DEF Ep0Host
<1>7. ok /\ (soft.pending_addr # 0 => soft.pending_addr = addr)
  BY <1>4, <1>5
<1> HIDE DEF ok, addr
<1>8. /\ o2 \in Ep0Host /\ o2.stage = "idle" /\ o2.req = host.req /\ o2.ok = ok
      /\ o2.got = host.got /\ o2.addr = addr
  BY <1>1, <1>6 DEF Ep0Host
<1> HIDE DEF o2
<1>9. Acknowledged(ep0, hw', soft, host', ran)
  BY <1>2, <1>3, <1>4, <1>7, <1>8 DEF Acknowledged
<1>10. Phase(ep0, hw', soft, host', ran')
  BY <1>2, <1>3, <1>4, <1>8, <1>9 DEF Phase
<1>11. QED
  <2>1. ran' \in Nat /\ host' \in Ep0Host /\ (hw.ctr_rx => hw'.ctr_rx)
        /\ (hw.ctr_tx => hw'.ctr_tx)
    BY <1>1, <1>2, <1>3, <1>8
  <2>2. QED
    BY <1>1, <1>3, <1>10, <2>1, HostStep

\* Only a request that is not known is stalled.
LEMMA StalledStep ==
  ASSUME Ep0Inv, control!HostStalled
  PROVE  Ep0Inv'
<1> DEFINE o2 == [host EXCEPT !.stage = "idle", !.ok = FALSE]
<1>1. /\ ~hw.reset /\ Turns(hw, soft) /\ Phase(ep0, hw, soft, host, ran)
      /\ ep0 \in Ep0Rec /\ hw \in Ep0Hw /\ soft \in Ep0Soft /\ host \in Ep0Host
      /\ ran \in Nat
  BY OnTheBus DEF control!HostStalled
<1>2. /\ host.stage \in {"in", "status_in"} /\ hw.tx = "STALL" /\ host' = o2
      /\ UNCHANGED <<ep0, hw, soft, main, ran>>
  BY DEF control!HostStalled
<1>3. ep0.req = host.req /\ host.req \in Requests /\ Refused(ep0, hw, soft, host, ran)
  BY <1>1, <1>2 DEF Phase, Fresh, SetupWaits, Receiving, Replying, Replied,
     Acknowledged, Refused
<1>4. o2 \in Ep0Host /\ o2.stage = "idle" /\ ~o2.ok /\ o2.req = host.req
  <2> DEFINE y == [host EXCEPT !.stage = "idle"]
             x == [y EXCEPT !.ok = FALSE]
  <2>1. y \in Ep0Host /\ y.stage = "idle" /\ y.req = host.req
    BY <1>1 DEF Ep0Host
  <2>2. o2 = x
    OBVIOUS
  <2> HIDE DEF y, o2
  <2>3. QED
    BY <2>1, <2>2 DEF Ep0Host
<1> HIDE DEF o2
<1>5. Refused(ep0, hw, soft, o2, ran)
  BY <1>3, <1>4 DEF Refused
<1>6. Phase(ep0, hw, soft, o2, ran)
  BY <1>3, <1>4, <1>5 DEF Phase
<1>7. /\ hw' \in Ep0Hw /\ host' \in Ep0Host /\ ran' \in Nat /\ ~hw'.reset
      /\ (hw.ctr_rx => hw'.ctr_rx) /\ (hw.ctr_tx => hw'.ctr_tx)
      /\ Turns(hw', soft) /\ Phase(ep0, hw', soft, host', ran')
  BY <1>1, <1>2, <1>4, <1>6
<1>8. QED
  BY <1>1, <1>2, <1>7, HostStep

\* The host gives up while it has data left.
LEMMA GivesUpStep ==
  ASSUME Ep0Inv, control!HostGivesUp
  PROVE  Ep0Inv'
<1> DEFINE o2 == [host EXCEPT !.stage = "idle"]
<1>1. /\ host.stage = "out" /\ host.got < host.req.wLength /\ host' = o2
      /\ UNCHANGED <<ep0, hw, soft, main, ran>>
  BY DEF control!HostGivesUp
<1>2. ~hw.reset
  BY <1>1 DEF Ep0Inv, control!Idle
<1>3. /\ Turns(hw, soft) /\ Phase(ep0, hw, soft, host, ran) /\ hw \in Ep0Hw
      /\ host \in Ep0Host /\ ran \in Nat
  BY <1>2 DEF Ep0Inv, Ep0Types
<1>4. /\ o2 \in Ep0Host /\ o2.stage = "idle" /\ o2.ok = host.ok /\ o2.req = host.req
      /\ o2.got = host.got
  BY <1>3 DEF Ep0Host
<1> HIDE DEF o2
<1>5. \/ SetupWaits(hw, soft, host, ran)
      \/ /\ ep0.req = host.req /\ host.req \in Requests
         /\ Receiving(ep0, hw, soft, host, ran)
  BY <1>1, <1>3 DEF Phase, Fresh, Replying, Replied, Acknowledged, Refused
<1>6. Phase(ep0, hw, soft, o2, ran)
  <2>1. CASE SetupWaits(hw, soft, host, ran)
    <3>1. SetupWaits(hw, soft, o2, ran)
      BY <1>1, <1>4, <2>1 DEF SetupWaits
    <3>2. QED
      BY <3>1 DEF Phase
  <2>2. CASE /\ ep0.req = host.req /\ host.req \in Requests
             /\ Receiving(ep0, hw, soft, host, ran)
    <3>1. Receiving(ep0, hw, soft, o2, ran)
      BY <1>1, <1>4, <2>2 DEF Receiving
    <3>2. QED
      BY <1>4, <2>2, <3>1 DEF Phase
  <2>3. QED
    BY <1>5, <2>1, <2>2
<1>7. /\ hw' \in Ep0Hw /\ host' \in Ep0Host /\ ran' \in Nat /\ ~hw'.reset
      /\ (hw.ctr_rx => hw'.ctr_rx) /\ (hw.ctr_tx => hw'.ctr_tx)
      /\ Turns(hw', soft) /\ Phase(ep0, hw', soft, host', ran')
  BY <1>1, <1>2, <1>3, <1>4, <1>6
<1>8. QED
  BY <1>1, <1>2, <1>7, HostStep

\* The host before the first transfer.
LEMMA IdleEp0 ==
  /\ control!Idle \in Ep0Host /\ control!Idle.stage = "idle" /\ control!Idle.ok
  /\ control!Idle.req = control!NoRequest
BY DEF control!Idle, Ep0Host, Asked

\* A bus reset ends everything, for the host.
LEMMA BusResetStep ==
  ASSUME Ep0Inv, control!BusReset
  PROVE  Ep0Inv'
<1> DEFINE y == [hw EXCEPT !.rx = "DISABLED", !.tx = "DISABLED"]
           z == [y EXCEPT !.setup = FALSE]
           x == [z EXCEPT !.reset = TRUE]
<1>1. /\ hw' = [hw EXCEPT !.rx = "DISABLED", !.tx = "DISABLED", !.setup = FALSE,
                          !.reset = TRUE]
      /\ host' = control!Idle /\ ran' = 0 /\ UNCHANGED <<ep0, soft, main>>
  BY DEF control!BusReset
<1>2. hw' = x
  BY <1>1
<1>3. y \in Ep0Hw /\ y.ctr_rx = hw.ctr_rx /\ y.ctr_tx = hw.ctr_tx
  BY DEF Ep0Inv, Ep0Types, Ep0Hw
<1> HIDE DEF y
<1>4. z \in Ep0Hw /\ z.ctr_rx = y.ctr_rx /\ z.ctr_tx = y.ctr_tx
  BY <1>3 DEF Ep0Hw
<1> HIDE DEF z
<1>5. x \in Ep0Hw /\ x.ctr_rx = z.ctr_rx /\ x.ctr_tx = z.ctr_tx /\ x.reset
  BY <1>4 DEF Ep0Hw
<1> HIDE DEF x
<1>6. Ep0Types'
  BY <1>1, <1>2, <1>5, IdleEp0 DEF Ep0Inv, Ep0Types
<1>7. Noticed'
  <2>1. CASE main = <<"usb">>
    BY <1>1, <2>1 DEF Noticed
  <2>2. CASE main # <<"usb">>
    <3>1. PICK k \in {"rx", "tx", "none"}, r \in BOOLEAN :
            /\ main = <<"handle", k, r>>
            /\ (k = "rx" => hw.ctr_rx) /\ (k = "tx" => hw.ctr_tx)
      BY <2>2 DEF Ep0Inv, Noticed
    <3>2. /\ main' = <<"handle", k, r>> /\ (r => hw'.reset)
          /\ (k = "rx" => hw'.ctr_rx) /\ (k = "tx" => hw'.ctr_tx)
      BY <1>1, <1>2, <1>3, <1>4, <1>5, <3>1
    <3>3. QED
      BY <3>2 DEF Noticed
  <2>3. QED
    BY <2>1, <2>2
<1>8. QED
  BY <1>1, <1>2, <1>5, <1>6, <1>7 DEF Ep0Inv

-----------------------------------------------------------------------------
(* Together: endpoint 0 beside the other drivers.                          *)

\* It begins in a phase.
LEMMA ControlInit ==
  ASSUME hw_usb_init
  PROVE  ControlInv
<1>1. CASE drv = "ep0"
  <2>1. /\ hw = control!Configured /\ host = control!Idle /\ ran = 0 /\ main = <<"usb">>
        /\ ep0 = [req |-> control!NoRequest, data_len |-> -1, todo |-> -1, off |-> 0,
                  trunc |-> FALSE]
        /\ soft = [rx_ready |-> FALSE, tx_ready |-> TRUE, pending_addr |-> 0,
                   daddr |-> 0, baud |-> 0]
    BY <1>1 DEF hw_usb_init, control!Init, control!Quiet
  <2>2. ep0 \in Ep0Rec
    BY <2>1 DEF Ep0Rec, Asked
  <2>3. soft \in Ep0Soft /\ soft.tx_ready /\ soft.pending_addr = 0
    BY <2>1 DEF Ep0Soft
  <2>4. /\ hw \in Ep0Hw /\ hw.tx = "NAK" /\ ~hw.ctr_rx /\ ~hw.ctr_tx /\ ~hw.reset
    BY <2>1, ConfiguredEp0
  <2>5. /\ host \in Ep0Host /\ host.stage = "idle" /\ host.ok
        /\ host.req = control!NoRequest
    BY <2>1, IdleEp0
  <2>6. Ep0Types /\ Noticed
    BY <2>1, <2>2, <2>3, <2>4, <2>5 DEF Ep0Types, Noticed
  <2>7. Turns(hw, soft) /\ Fresh(hw, soft, host)
    BY <2>3, <2>4, <2>5 DEF Turns, Fresh
  <2>8. QED
    BY <1>1, <2>4, <2>6, <2>7 DEF ControlInv, Ep0Inv, Phase
<1>2. CASE drv # "ep0"
  BY <1>2 DEF hw_usb_init, control!Quiet, ControlInv
<1>3. QED
  BY <1>1, <1>2

\* Every step of endpoint 0 keeps it; only the firmware changes the address, and
\* then to the one the host uses.
LEMMA Ep0Step ==
  ASSUME Ep0Inv, control!Next, ~Eager
  PROVE  Ep0Inv' /\ (soft'.daddr = soft.daddr \/ soft'.daddr = host'.addr \/ hw.reset)
<1>1. CASE control!usbd_process
  BY <1>1, LookEp0 DEF control!usbd_process
<1>2. CASE control!Handle
  BY <1>2, HandleEp0
<1>3. CASE control!HostData
  BY <1>3, HostDataStep DEF control!HostData, control!Out
<1>4. CASE control!HostStatusOut
  BY <1>4, StatusOutStep DEF control!HostStatusOut, control!Out
<1>5. CASE control!HostTakes
  BY <1>5, TakesStep DEF control!HostTakes, control!In
<1>6. CASE control!HostStatusIn
  BY <1>6, StatusInStep DEF control!HostStatusIn, control!In
<1>7. CASE control!HostStalled
  BY <1>7, StalledStep DEF control!HostStalled
<1>8. CASE control!HostGivesUp
  BY <1>8, GivesUpStep DEF control!HostGivesUp
<1>9. CASE control!BusReset
  BY <1>9, BusResetStep DEF control!BusReset
<1>10. ASSUME NEW r \in Requests, control!Setup(r)
       PROVE  Ep0Inv' /\ soft'.daddr = soft.daddr
  BY <1>10, SetupStep DEF control!Setup
<1>11. QED
  BY <1>1, <1>2, <1>3, <1>4, <1>5, <1>6, <1>7, <1>8, <1>9, <1>10
  DEF control!Next, control!MainLoop, control!Host

\* So does every step of the whole.
LEMMA ControlStep ==
  ASSUME ~Eager
  PROVE  ControlInv /\ [Next]_vars =>
           ControlInv' /\ (soft'.daddr = soft.daddr \/ soft'.daddr = host'.addr \/ hw.reset)
<1> SUFFICES ASSUME ControlInv, [Next]_vars
             PROVE  /\ ControlInv'
                    /\ soft'.daddr = soft.daddr \/ soft'.daddr = host'.addr \/ hw.reset
  OBVIOUS
<1>1. CASE Ep0(control!Next)
  BY <1>1, Ep0Step DEF ControlInv, Ep0
<1>2. ASSUME drv' = drv, drv # "ep0", UNCHANGED controls
      PROVE  ControlInv' /\ soft'.daddr = soft.daddr
  BY <1>2 DEF ControlInv, controls
<1>3. CASE Usbd(usbd!Next)
  BY <1>2, <1>3 DEF Usbd
<1>4. CASE At32(at32!Next)
  BY <1>2, <1>4 DEF At32
<1>5. CASE Otg(dwc_otg!Next)
  BY <1>2, <1>5 DEF Otg
<1>6. CASE UNCHANGED vars
  <2>1. UNCHANGED <<drv, main, ep0, hw, soft, host, ran>>
    BY <1>6 DEF vars, controls
  <2>2. Ep0Inv' <=> Ep0Inv
    BY <2>1 DEF Ep0Inv, Ep0Types, Noticed
  <2>3. QED
    BY <2>1, <2>2 DEF ControlInv
<1>7. QED
  BY <1>1, <1>3, <1>4, <1>5, <1>6 DEF Next

\* In every phase, what the host has is true.
LEMMA PhaseTrue ==
  ASSUME ControlInv
  PROVE  DataTrue /\ OutOnce
<1>1. CASE host = control!Idle
  <2>1. /\ host.req = control!NoRequest /\ host.ok /\ ~host.req.in
    BY <1>1 DEF control!Idle, control!NoRequest
  <2>2. QED
    BY <2>1 DEF DataTrue, OutOnce, Completed, Stalled
<1>2. CASE host # control!Idle
  <2>1. /\ Phase(ep0, hw, soft, host, ran) /\ ep0 \in Ep0Rec /\ host \in Ep0Host
        /\ ran \in Nat
    BY <1>2 DEF ControlInv, Ep0Inv, Ep0Types
  <2>2. host.req \in Asked /\ host.got \in Int
    BY <2>1 DEF Ep0Host
  <2> DEFINE r == host.req
             size == Min({r.len, r.wLength})
  <2>3. /\ r.wLength \in Nat /\ r.in \in BOOLEAN
        /\ r.do = "GET" => r.in /\ control!Known(r) /\ control!Reply(r) = size
    <3>1. /\ r.wLength \in Nat /\ r.in \in BOOLEAN
          /\ r.do = "GET" => r.in /\ r.len \in Nat
      BY <2>2, AskedParts
    <3>2. ASSUME r.do = "GET"
          PROVE  control!Known(r) /\ control!Reply(r) = size
      <4>1. r.len \in Int /\ r.wLength \in Int
        BY <3>1, <3>2
      <4> HIDE DEF r
      <4>2. control!Min({r.len, r.wLength}) = Min({r.len, r.wLength})
        BY <4>1, MinOf
      <4>3. QED
        BY <3>1, <3>2, <4>2 DEF control!Reply, control!Known
    <3>3. QED
      BY <3>1, <3>2
  <2> HIDE DEF size
  <2>4. CASE Fresh(hw, soft, host)
    <3>1. r = control!NoRequest /\ host.ok /\ ~r.in
      BY <2>4 DEF Fresh, control!NoRequest
    <3>2. QED
      BY <3>1 DEF DataTrue, OutOnce, Completed, Stalled
  <2>5. CASE SetupWaits(hw, soft, host, ran)
    <3>1. /\ host.ok /\ ran = 0 /\ host.got = 0
          /\ host.stage = "idle" => r.wLength > 0 /\ ~r.in
      BY <2>5 DEF SetupWaits
    <3>2. QED
      BY <2>3, <3>1 DEF DataTrue, OutOnce, Completed, Stalled
  <2>6. CASE ep0.req = r /\ Receiving(ep0, hw, soft, host, ran)
    <3>1. /\ ~r.in /\ host.ok /\ ran = 0
          /\ host.stage = "idle" => host.got < r.wLength
      BY <2>6 DEF Receiving
    <3>2. QED
      BY <2>2, <2>3, <3>1 DEF DataTrue, OutOnce, Completed, Stalled
  <2>7. CASE ep0.req = r /\ Replying(ep0, hw, soft, host)
    <3>1. r.do = "GET" /\ host.stage = "in"
      BY <2>7 DEF Replying
    <3>2. QED
      BY <2>3, <3>1 DEF DataTrue, OutOnce, Completed, Stalled
  <2>8. CASE ep0.req = r /\ Replied(ep0, hw, soft, host)
    <3>1. r.do = "GET" /\ host.ok /\ host.got = control!Reply(r)
      BY <2>8 DEF Replied
    <3>2. QED
      BY <2>3, <3>1 DEF DataTrue, OutOnce, Completed, Stalled, size
  <2>9. CASE ep0.req = r /\ Acknowledged(ep0, hw, soft, host, ran)
    <3>1. /\ control!Known(r) /\ host.ok
          /\ r.in => r.do = "GET" /\ host.got = control!Reply(r)
          /\ ~r.in => ran = 1 /\ host.got = r.wLength
      BY <2>9 DEF Acknowledged
    <3>2. QED
      BY <2>3, <3>1 DEF DataTrue, OutOnce, Completed, Stalled, size
  <2>10. CASE ep0.req = r /\ Refused(ep0, hw, soft, host, ran)
    <3>1. /\ ~control!Known(r) /\ ran = 0 /\ (host.stage = "idle" => ~host.ok)
      BY <2>10 DEF Refused
    <3>2. QED
      BY <3>1 DEF DataTrue, OutOnce, Completed, Stalled
  <2>11. QED
    BY <2>1, <2>4, <2>5, <2>6, <2>7, <2>8, <2>9, <2>10 DEF Phase
<1>3. QED
  BY <1>1, <1>2

\* A completed transfer from the device has given the host the reply to its own
\* request, whole and clipped, and only unknown requests are stalled: for a host
\* that lets the firmware notice the end of one transfer before the next.
THEOREM DataIsTrue ==
  ASSUME ~Eager
  PROVE  Spec => []DataTrue
<1>1. hw_usb_init => ControlInv
  BY ControlInit
<1>2. ControlInv /\ [Next]_vars => ControlInv'
  BY ControlStep
<1>3. ControlInv => DataTrue
  BY PhaseTrue
<1>4. QED
  BY <1>1, <1>2, <1>3, PTL DEF Spec

\* A request with data for the device, or with none, is carried out exactly once
\* when its transfer completes, and never otherwise: for the same host.
THEOREM CarriedOutOnce ==
  ASSUME ~Eager
  PROVE  Spec => []OutOnce
<1>1. hw_usb_init => ControlInv
  BY ControlInit
<1>2. ControlInv /\ [Next]_vars => ControlInv'
  BY ControlStep
<1>3. ControlInv => OutOnce
  BY PhaseTrue
<1>4. QED
  BY <1>1, <1>2, <1>3, PTL DEF Spec

\* The device takes a new address only when the host has seen the status of
\* SET_ADDRESS, and then the one the host uses: this is what hw_usbd.c says of
\* handle_tx_transfer(), and it holds with a host that lets the firmware notice
\* the end of one transfer before it begins another (~Eager).  It is false with
\* an Eager host, whose SETUP may be handled while the completion of the
\* transfer before it is still pending; the run "eager" shows that.
THEOREM AddressWaits ==
  ASSUME ~Eager
  PROVE  Spec => AddressAfterStatus
<1>1. hw_usb_init => ControlInv
  BY ControlInit
<1>2. ControlInv /\ [Next]_vars => ControlInv'
  BY ControlStep
<1>3. ControlInv /\ [Next]_vars =>
        [soft'.daddr # soft.daddr => soft'.daddr = host'.addr \/ hw.reset]_vars
  BY ControlStep
<1>4. QED
  BY <1>1, <1>2, <1>3, PTL DEF Spec, AddressAfterStatus
=============================================================================
