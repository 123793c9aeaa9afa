------------------------------ MODULE UsbdAt32 ------------------------------
(***************************************************************************)
(* The bulk endpoints of hw_usbd_at32f4.c.  On this chip the hardware may  *)
(* use buffer DTOG while DTOG and SW_BUF differ, and stops (NAK) while     *)
(* they are equal.  An interrupt moves packets between the two buffers and *)
(* a ring in RAM, a sequence here; the main loop uses the ring, and only   *)
(* when the interrupt had to give up ("kick") does it run the interrupt's  *)
(* work itself, with the interrupt masked.                                 *)
(*                                                                         *)
(* main is cut at every access to what the interrupt shares, and the       *)
(* interrupt at every access to what the hardware shares.  A buffer whose  *)
(* packet has been taken holds None: were it used again, that would show.  *)
(***************************************************************************)
EXTENDS Naturals, Sequences

CONSTANTS
  Packets,  \* what a packet may hold
  None,     \* no packet
  NBUF      \* packets in a ring

VARIABLES
  rx,    \* endpoint EP_RX: registers, buffers and eps[]
  tx,    \* endpoint EP_TX
  main,  \* where the main loop is
  irq,   \* where the interrupt's work is, whoever does it
  got,   \* the packet that this step read, or None
  sent,  \* the packet that the host took in this step
  fresh  \* whether this step resets or configures the endpoints

vars == <<rx, tx, main, irq, got, sent, fresh>>

\* Nothing is delivered in this step.
Quiet == got' = None /\ sent' = None /\ fresh' = FALSE
Fresh == got' = None /\ sent' = None /\ fresh' = TRUE

-----------------------------------------------------------------------------

Blank == [b \in 0..1 |-> None]

\* Software owns buffer 1: the hardware may receive into buffer 0 at once.
RxConfigured == [buf |-> Blank, dtog |-> 0, sw |-> 1, ctr |-> FALSE,
                 kick |-> FALSE, ring |-> <<>>]

\* Nothing to send, and nobody but the main loop to start.
TxConfigured == [buf |-> Blank, dtog |-> 0, sw |-> 0, ctr |-> FALSE,
                 kick |-> TRUE, ring |-> <<>>, slots |-> 0]

Init == /\ rx = RxConfigured /\ tx = TxConfigured
        /\ main = <<"app">> /\ irq = <<"idle">>
        /\ got = None /\ sent = None /\ fresh = FALSE

\* A bus reset disables the endpoints, and usb_process() clears eps[]; it is
\* met between two calls of floppy_process().
handle_reset == /\ main = <<"app">> /\ main' = <<"unconfigured">>
                /\ irq' = <<"idle">>
                /\ rx' = RxConfigured /\ tx' = TxConfigured
                /\ Fresh

\* SET_CONFIGURATION, after a reset or again; the host sends no bulk packets
\* meanwhile.
configure_ep == /\ main \in {<<"app">>, <<"unconfigured">>} /\ main' = <<"app">>
                /\ irq = <<"idle">> /\ UNCHANGED irq
                /\ rx' = RxConfigured /\ tx' = TxConfigured
                /\ Fresh

Configured == main # <<"unconfigured">>

-----------------------------------------------------------------------------
(* The hardware and the host.                                              *)

Transacted(ep) == [ep EXCEPT !.dtog = 1 - ep.dtog, !.ctr = TRUE]

HostOut(p) == /\ Configured /\ rx.dtog # rx.sw
              /\ rx' = [Transacted(rx) EXCEPT !.buf[rx.dtog] = p]
              /\ UNCHANGED <<tx, main, irq>> /\ Quiet

HostIn == /\ Configured /\ tx.dtog # tx.sw
          /\ tx' = [Transacted(tx) EXCEPT !.buf[tx.dtog] = None]
          /\ sent' = tx.buf[tx.dtog]
          /\ UNCHANGED <<rx, main, irq>> /\ got' = None /\ fresh' = FALSE

-----------------------------------------------------------------------------
(* The interrupt's work.  It runs in the interrupt, or in the main loop    *)
(* with the interrupt masked.                                              *)

ToggleSwBuf(ep) == [ep EXCEPT !.sw = 1 - ep.sw]
clear_ctr(ep) == [ep EXCEPT !.ctr = FALSE]

\* handle_dblbuf_rx_transfer() up to its write of the register ...
RxTransfer ==
  IF Len(rx.ring) = NBUF
  THEN /\ rx' = [clear_ctr(rx) EXCEPT !.kick = TRUE]
       /\ irq' = <<"idle">>
  ELSE /\ rx' = [ToggleSwBuf(clear_ctr(rx)) EXCEPT !.kick = FALSE]
       /\ irq' = <<"copy", 1 - rx.sw>>

\* ... and after it: the buffer that was not software's is now.
RxCopy ==
  /\ irq[1] = "copy"
  /\ rx' = [rx EXCEPT !.ring = Append(@, rx.buf[irq[2]]), !.buf[irq[2]] = None]
  /\ irq' = <<"idle">>
  /\ UNCHANGED <<tx, main>> /\ Quiet

stuff_dblbuf_tx_packet(ep) ==
  [ep EXCEPT !.buf[ep.sw] = Head(ep.ring), !.ring = Tail(@), !.slots = @ + 1]

\* Mutant: a packet that is stuffed but not yet handed over is forgotten.
TxTransferForgets(ep) ==
  LET first == IF ep.slots = 0 THEN stuff_dblbuf_tx_packet(ep) ELSE ep
  IN IF ep.ring = <<>>
     THEN /\ tx' = [ep EXCEPT !.kick = TRUE]
          /\ irq' = <<"idle">>
     ELSE /\ tx' = [ToggleSwBuf(first) EXCEPT !.kick = FALSE]
          /\ irq' = <<"second">>

\* handle_dblbuf_tx_transfer() up to its write of the register ...
TxTransfer(ep) ==
  LET idle == ep.ring = <<>> /\ ep.slots = 0
      first == IF ep.slots = 0 THEN stuff_dblbuf_tx_packet(ep) ELSE ep
  IN IF idle
     THEN /\ tx' = [ep EXCEPT !.kick = TRUE]
          /\ irq' = <<"idle">>
     ELSE /\ tx' = [ToggleSwBuf(first) EXCEPT !.kick = FALSE]
          /\ irq' = <<"second">>

\* ... and after it: fill the other buffer as well.
TxSecond ==
  /\ irq = <<"second">>
  /\ tx' = IF tx.slots = 1 /\ tx.ring # <<>>
           THEN stuff_dblbuf_tx_packet(tx) ELSE tx
  /\ irq' = <<"idle">>
  /\ UNCHANGED <<rx, main>> /\ Quiet

Unmasked == main[1] # "masked" /\ irq = <<"idle">>

IRQ_USB_HP ==
  /\ Unmasked
  /\ \/ rx.ctr /\ RxTransfer /\ UNCHANGED tx
     \/ /\ tx.ctr /\ ~rx.ctr
        /\ TxTransfer([clear_ctr(tx) EXCEPT !.slots = @ - 1])
        /\ UNCHANGED rx
  /\ UNCHANGED main /\ Quiet

-----------------------------------------------------------------------------
(* The main loop.  usbd_process() leaves these endpoints to the interrupt. *)

ep_rx_ready == rx.ring # <<>>
ep_tx_ready == Len(tx.ring) < NBUF

\* The main loop runs while the interrupt does not and none is pending.
AtMain(l) == /\ main[1] = l /\ irq = <<"idle">>
             /\ l = "masked" \/ ~(rx.ctr \/ tx.ctr)

\* One step each: the interrupt only adds to the ring that is read here and
\* only takes from the one that is written.
Read == /\ AtMain("app") /\ ep_rx_ready
        /\ rx' = [rx EXCEPT !.ring = Tail(@)]
        /\ got' = Head(rx.ring)
        /\ main' = <<"kick", "rx">>
        /\ UNCHANGED <<tx, irq>> /\ sent' = None /\ fresh' = FALSE

Write(p) == /\ AtMain("app") /\ ep_tx_ready
            /\ tx' = [tx EXCEPT !.ring = Append(@, p)]
            /\ main' = <<"kick", "tx">>
            /\ UNCHANGED <<rx, irq>> /\ Quiet

Kicks(ep) == IF ep = "rx" THEN rx.kick ELSE tx.kick

\* Look at kick, and when it is set mask the interrupt ...
Kick == /\ AtMain("kick")
        /\ main' = IF Kicks(main[2]) THEN <<"masked", main[2]>> ELSE <<"app">>
        /\ UNCHANGED <<rx, tx, irq>> /\ Quiet

\* ... then look again.  The interrupt is on again when its work is done.
MaskedKick ==
  /\ AtMain("masked")
  /\ \/ ~Kicks(main[2]) /\ UNCHANGED <<rx, tx, irq>>
     \/ main[2] = "rx" /\ rx.kick /\ RxTransfer /\ UNCHANGED tx
     \/ main[2] = "tx" /\ tx.kick /\ TxTransfer(tx) /\ UNCHANGED rx
  /\ main' = <<"app">>
  /\ Quiet

-----------------------------------------------------------------------------

Firmware == Read \/ (\E p \in Packets : Write(p)) \/ Kick \/ MaskedKick

Interrupt == IRQ_USB_HP \/ RxCopy \/ TxSecond

Next == Firmware \/ Interrupt \/ handle_reset \/ configure_ep
        \/ (\E p \in Packets : HostOut(p)) \/ HostIn

-----------------------------------------------------------------------------
(* The packets under way: the refinement mapping to UsbPipe.               *)

\* In the ring, then the one that is being copied to it, then in the
\* hardware: the buffer that DTOG has left, unless software owns it.
RxQueue ==
  rx.ring \o (IF irq[1] = "copy" THEN <<rx.buf[irq[2]]>> ELSE <<>>)
           \o (IF rx.dtog = rx.sw THEN <<rx.buf[1 - rx.dtog]>> ELSE <<>>)

\* In the hardware, then stuffed and held back, then in the ring.
TxQueue ==
  (IF tx.dtog # tx.sw THEN <<tx.buf[tx.dtog]>> ELSE <<>>)
  \o (IF tx.slots - (IF tx.dtog # tx.sw \/ tx.ctr THEN 1 ELSE 0) = 1
      THEN <<tx.buf[tx.sw]>> ELSE <<>>)
  \o tx.ring

=============================================================================
