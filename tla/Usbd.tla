-------------------------------- MODULE Usbd --------------------------------
(***************************************************************************)
(* The bulk endpoints of hw_usbd.c, the driver of the STM32F1: two packet  *)
(* buffers per endpoint, one bit DTOG that says which of them the hardware *)
(* uses next and one bit SW_BUF that says which of them software uses.     *)
(* The hardware flips DTOG at the end of a packet and then stops (NAK) if  *)
(* the two bits have become equal; flipping SW_BUF starts it again.        *)
(* Everything runs in the main loop, which is cut here wherever it reads   *)
(* or writes an endpoint register, a flag of the hardware or a buffer.     *)
(* A buffer whose packet has been taken holds None: were it used again,    *)
(* that would show.                                                        *)
(***************************************************************************)
EXTENDS Naturals, Sequences

CONSTANTS
  Packets,  \* what a packet may hold
  None,     \* no packet
  Zlp       \* an empty packet

VARIABLES
  rx,    \* endpoint EP_RX: registers, buffers and eps[]
  tx,    \* endpoint EP_TX
  main,  \* where the main loop is
  got,   \* the packet that this step read, or None
  sent,  \* the packet that the host took in this step
  fresh  \* whether this step resets or configures the endpoints

vars == <<rx, tx, main, got, sent, fresh>>

\* Nothing is delivered in this step.
Quiet == got' = None /\ sent' = None /\ fresh' = FALSE
Fresh == got' = None /\ sent' = None /\ fresh' = TRUE

-----------------------------------------------------------------------------
(* Endpoints as usbd_configure_ep() leaves them.                           *)

RxConfigured == [buf |-> [b \in 0..1 |-> None], dtog |-> 0, sw |-> 0,
                 nak |-> FALSE, ctr |-> FALSE, ready |-> FALSE]

\* SW_BUF is set and the status is VALID: buffer 0, of count 0, may be sent.
TxConfigured == [buf |-> [b \in 0..1 |-> Zlp], dtog |-> 0, sw |-> 1,
                 nak |-> FALSE, ctr |-> FALSE, ready |-> TRUE]

Init == /\ rx = RxConfigured /\ tx = TxConfigured
        /\ main = <<"usb">>
        /\ got = None /\ sent = None /\ fresh = FALSE

\* A bus reset disables the endpoints, and usb_process() clears eps[]; it is
\* met between two calls of floppy_process().
handle_reset == /\ main = <<"usb">> /\ main' = <<"unconfigured">>
                /\ rx' = RxConfigured /\ tx' = TxConfigured
                /\ Fresh

\* SET_CONFIGURATION, after a reset or again; the host sends no bulk packets
\* meanwhile.
configure_ep == /\ main \in {<<"usb">>, <<"unconfigured">>}
                /\ main' = <<"usb">>
                /\ rx' = RxConfigured /\ tx' = TxConfigured
                /\ Fresh

Configured == main # <<"unconfigured">>

-----------------------------------------------------------------------------
(* The hardware and the host.                                              *)

Transacted(ep) == LET d == 1 - ep.dtog
                  IN [ep EXCEPT !.dtog = d, !.ctr = TRUE, !.nak = (d = ep.sw)]

HostOut(p) == /\ Configured /\ ~rx.nak
              /\ rx' = [Transacted(rx) EXCEPT !.buf[rx.dtog] = p]
              /\ UNCHANGED <<tx, main>> /\ Quiet

HostIn == /\ Configured /\ ~tx.nak
          /\ tx' = [Transacted(tx) EXCEPT !.buf[tx.dtog] = None]
          /\ sent' = IF tx.buf[tx.dtog] = Zlp THEN None ELSE tx.buf[tx.dtog]
          /\ UNCHANGED <<rx, main>> /\ got' = None /\ fresh' = FALSE

-----------------------------------------------------------------------------
(* usb_process(): one completed transfer per call, EP_RX before EP_TX.     *)

usbd_process ==
  /\ main = <<"usb">>
  /\ main' = CASE rx.ctr -> <<"handle_rx_transfer">>
               [] ~rx.ctr /\ tx.ctr -> <<"handle_tx_transfer">>
               [] OTHER -> <<"app">>
  /\ UNCHANGED <<rx, tx>> /\ Quiet

clear_ctr(ep) == [ep EXCEPT !.ctr = FALSE]

handle_rx_transfer ==
  /\ main = <<"handle_rx_transfer">>
  /\ rx' = [clear_ctr(rx) EXCEPT !.ready = TRUE]
  /\ main' = <<"app">>
  /\ UNCHANGED tx /\ Quiet

handle_tx_transfer ==
  /\ main = <<"handle_tx_transfer">>
  /\ tx' = [clear_ctr(tx) EXCEPT !.ready = TRUE]
  /\ main' = <<"app">>
  /\ UNCHANGED rx /\ Quiet

-----------------------------------------------------------------------------
(* floppy_process(): reads, writes or neither.                             *)

\* The other buffer holds a packet too, or for EP_TX is free too.
BothOurs(ep) == ep.dtog = ep.sw

\* After the toggle the hardware may go on.  A packet that was announced
\* together with this one will not be announced again: forget it.
ToggleSwBuf(ep) ==
  [ep EXCEPT !.sw = 1 - ep.sw, !.nak = FALSE, !.ctr = @ /\ ~ep.ready]

\* Mutant: ready is always cleared, whatever the other buffer holds.
ReadStartClears == /\ main = <<"app">> /\ rx.ready
                   /\ rx' = [rx EXCEPT !.ready = FALSE]
                   /\ main' = <<"read", rx.sw>>
                   /\ UNCHANGED tx /\ Quiet

ReadStart == /\ main = <<"app">> /\ rx.ready
             /\ rx' = [rx EXCEPT !.ready = BothOurs(rx)]
             /\ main' = <<"read", rx.sw>>
             /\ UNCHANGED tx /\ Quiet

ReadCopy == /\ main[1] = "read"
            /\ main' = <<"release", rx.buf[main[2]]>>
            /\ UNCHANGED <<rx, tx>> /\ Quiet

ReadRelease == /\ main[1] = "release"
               /\ rx' = [ToggleSwBuf(rx) EXCEPT !.buf[rx.sw] = None]
               /\ got' = main[2]
               /\ main' = <<"app">>
               /\ UNCHANGED tx /\ sent' = None /\ fresh' = FALSE

WriteStart(p) == /\ main = <<"app">> /\ tx.ready
                 /\ tx' = [tx EXCEPT !.ready = BothOurs(tx)]
                 /\ main' = <<"write", tx.sw, p>>
                 /\ UNCHANGED rx /\ Quiet

WriteCopy == /\ main[1] = "write"
             /\ tx' = [tx EXCEPT !.buf[main[2]] = main[3]]
             /\ main' = <<"submit">>
             /\ UNCHANGED rx /\ Quiet

WriteSubmit == /\ main = <<"submit">>
               /\ tx' = ToggleSwBuf(tx)
               /\ main' = <<"app">>
               /\ UNCHANGED rx /\ Quiet

MainLoop == main = <<"app">> /\ main' = <<"usb">> /\ UNCHANGED <<rx, tx>> /\ Quiet

-----------------------------------------------------------------------------
(* The main loop never stops (main.c).  Firmware that is offered packets   *)
(* again and again reads them, and the host polls EP_TX.                   *)

Firmware == \/ usbd_process \/ handle_rx_transfer \/ handle_tx_transfer
            \/ ReadStart \/ ReadCopy \/ ReadRelease
            \/ \E p \in Packets : WriteStart(p)
            \/ WriteCopy \/ WriteSubmit \/ MainLoop

Next == Firmware \/ handle_reset \/ configure_ep \/ (\E p \in Packets : HostOut(p)) \/ HostIn

-----------------------------------------------------------------------------
(* The packets under way: the refinement mapping to UsbPipe.               *)

RxFull == IF rx.dtog # rx.sw THEN 1 ELSE IF rx.nak THEN 2 ELSE 0
RxPacket(n) == IF n > RxFull THEN <<>> ELSE <<rx.buf[(rx.sw + n - 1) % 2]>>
RxQueue == RxPacket(1) \o RxPacket(2)

TxFull == IF tx.dtog # tx.sw THEN 1 ELSE IF tx.nak THEN 0 ELSE 2
TxPacket(n) == IF n > TxFull \/ tx.buf[(tx.dtog + n - 1) % 2] = Zlp THEN <<>>
               ELSE <<tx.buf[(tx.dtog + n - 1) % 2]>>
TxQueue == IF Configured THEN TxPacket(1) \o TxPacket(2) ELSE <<>>

=============================================================================
