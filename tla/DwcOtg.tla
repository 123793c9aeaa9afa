------------------------------- MODULE DwcOtg -------------------------------
(***************************************************************************)
(* hw_dwc_otg.c, the driver of the STM32F7 and of the AT32F415: one        *)
(* receive FIFO for all endpoints, from which usb_process() pops one entry *)
(* per call; a ring of packet buffers for EP_RX and one of a single buffer *)
(* for endpoint 0; one packet in the transmit FIFO of EP_TX.               *)
(*                                                                         *)
(* There are no interrupts.  The core only adds to the receive FIFO, takes *)
(* packets to transmit and raises flags, so that each call of              *)
(* usb_process() is one step.                                              *)
(***************************************************************************)
EXTENDS Naturals, Sequences

CONSTANTS
  Packets,  \* what a packet may hold
  None,     \* no packet
  RxNr,     \* packets in rx_bufn[], a power of two
  Fifo,     \* entries in the receive FIFO
  Rough     \* what the host may do that the driver does not stand:
            \*   "backlog"  reset the bus with entries in the receive FIFO
            \*   "blocked"  end a bus reset before usb_process() has met it
            \*   "again"    configure the device twice without a reset

VARIABLES
  rx,    \* ep: eps[] and registers of the OUT endpoints; fifo: the entries of
         \* the receive FIFO; data: the packets for EP_RX that are in it
  tx,    \* endpoint EP_TX
  main,  \* where the main loop is
  gint,  \* USBRST and ENUMDNE, as raised by the core
  got,   \* the packet that this step read, or None
  sent,  \* the packet that the host took in this step
  fresh  \* whether this step resets or configures the endpoints

vars == <<rx, tx, main, gint, got, sent, fresh>>

\* Nothing is delivered in this step.
Quiet == got' = None /\ sent' = None /\ fresh' = FALSE

-----------------------------------------------------------------------------
(* An OUT endpoint: eps[], with the packets from rxc to rxp as a sequence; *)
(* of the registers, the packets that the core may still accept (tsiz) and *)
(* the interrupts raised (intsts).                                         *)

Rings == {"ep0", "ep2"}
Size(e) == IF e = "ep0" THEN 1 ELSE RxNr

\* memset(eps, 0, sizeof(eps)): no ring, nothing accepted.
Cleared == [ring |-> <<>>, nr |-> 0, active |-> FALSE,
            pktcnt |-> 0, xfrc |-> FALSE, stup |-> FALSE]

\* Mutant: the transfer is as long as the ring, whatever the ring holds.
prepare_rx_whole(ep) ==
  LET nr == ep.nr - Len(ep.ring)
  IN IF ep.active \/ nr <= ep.nr \div 2 THEN ep
     ELSE [ep EXCEPT !.pktcnt = ep.nr, !.active = TRUE]

\* Let the core fill the ring again, once more than half of it is free.
prepare_rx(ep) ==
  LET nr == ep.nr - Len(ep.ring)
  IN IF ep.active \/ nr <= ep.nr \div 2 THEN ep
     ELSE [ep EXCEPT !.pktcnt = nr, !.active = TRUE]

Configured(e) ==
  prepare_rx([Cleared EXCEPT !.nr = Size(e)])

\* eps[EP_TX]: tx_ready; in the core: the packet queued, its completion.
TxCleared == [ready |-> FALSE, pkt |-> None, xfrc |-> FALSE]
TxConfigured == [TxCleared EXCEPT !.ready = TRUE]

\* The device after its first enumeration and configuration.
Init == /\ rx = [ep |-> [e \in Rings |-> Configured(e)], fifo |-> <<>>, data |-> <<>>]
        /\ tx = TxConfigured
        /\ main = "usb" /\ gint = {}
        /\ got = None /\ sent = None /\ fresh = FALSE

-----------------------------------------------------------------------------
(* The core and the host.  The core accepts a packet for an endpoint that  *)
(* has room in its transfer, and ends the transfer with the last packet or *)
(* with a short one; endpoint 0 takes one packet at a time, of data or of  *)
(* status.  A SETUP packet it accepts always, and no other until the       *)
(* firmware lets it.                                                       *)

Room(n) == Len(rx.fifo) + n <= Fifo

\* The bus is not being reset.
BusLive == gint # {"USBRST"} /\ gint # {"reset"}

HostOut(p, short) ==
  LET ep == rx.ep["ep2"]
      last == short \/ ep.pktcnt = 1
  IN /\ gint = {} /\ ep.pktcnt > 0 /\ Room(2)
     /\ rx' = [rx EXCEPT
                !.ep["ep2"].pktcnt = IF last THEN 0 ELSE @ - 1,
                !.data = Append(@, p),
                !.fifo = @ \o <<<<"data", "ep2">>>>
                           \o (IF last THEN <<<<"xfrc", "ep2">>>> ELSE <<>>)]
     /\ UNCHANGED <<tx, main, gint>> /\ Quiet

HostControl(end) ==
  /\ BusLive /\ Room(2)
  /\ rx' = [rx EXCEPT !.ep["ep0"].pktcnt = 0,
                      !.fifo = Append(Append(@, <<"data", "ep0">>), <<end, "ep0">>)]
  /\ UNCHANGED <<tx, main, gint>> /\ Quiet

HostSetup == HostControl("stup")
HostControlOut == rx.ep["ep0"].pktcnt > 0 /\ HostControl("xfrc")

HostIn == /\ gint = {} /\ tx.pkt # None
          /\ sent' = tx.pkt
          /\ tx' = [tx EXCEPT !.pkt = None, !.xfrc = TRUE]
          /\ UNCHANGED <<rx, main, gint>> /\ got' = None /\ fresh' = FALSE

\* A bus reset stops the transfers.  It leaves alone what is in the FIFOs:
\* handle_reset() flushes the transmit FIFO, and nothing flushes the other.
BusReset == /\ gint \in {{}, {"unconfigured"}}
            /\ rx.fifo = <<>> \/ "backlog" \in Rough
            /\ gint' = {"USBRST"}
            /\ rx' = [rx EXCEPT !.ep = [e \in Rings |-> [@[e] EXCEPT !.pktcnt = 0]]]
            /\ UNCHANGED <<tx, main>> /\ Quiet

\* It lasts 10ms or more; a seek or a delay of floppy.c may block for longer.
ResetEnds == /\ \/ gint = {"reset"}
                \/ gint = {"USBRST"} /\ main = "app" /\ "blocked" \in Rough
             /\ gint' = (gint \ {"reset"}) \cup {"ENUMDNE"}
             /\ UNCHANGED <<rx, tx, main>> /\ Quiet

-----------------------------------------------------------------------------
(* usb_process(): the interrupts of the OUT endpoints, of the IN           *)
(* endpoints, ENUMDNE, USBRST, then one entry of the receive FIFO.         *)

\* handle_rx_ep0() reads what has been received.
usb_read(ep) == prepare_rx([ep EXCEPT !.ring = Tail(@)])

handle_oepint(e, ep) ==
  LET done == [ep EXCEPT !.xfrc = FALSE, !.stup = FALSE, !.active = FALSE]
  IN IF ep.xfrc \/ ep.stup
     THEN prepare_rx(IF e = "ep0" THEN usb_read(done) ELSE done)
     ELSE ep

handle_iepint(ep) ==
  IF ep.xfrc THEN [ep EXCEPT !.xfrc = FALSE, !.ready = TRUE] ELSE ep

\* One entry: a packet goes to its ring, the end of a transfer or of a
\* SETUP stage raises the endpoint's interrupt.
handle_rx_transfer(r) ==
  LET x == Head(r.fifo)
      e == x[2]
      packet == IF e = "ep2" THEN Head(r.data) ELSE None
      ep == r.ep[e]
      next == CASE x[1] = "data" -> [ep EXCEPT !.ring = Append(@, packet)]
                [] x[1] = "xfrc" -> [ep EXCEPT !.xfrc = TRUE]
                [] OTHER -> [ep EXCEPT !.stup = TRUE]
  IN [ep |-> [r.ep EXCEPT ![e] = next], fifo |-> Tail(r.fifo),
      data |-> IF x = <<"data", "ep2">> THEN Tail(r.data) ELSE r.data]

\* ENUMDNE: endpoint 0 is configured.
EnumDone(r) == [r EXCEPT !.ep["ep0"] = Configured("ep0")]

\* Mutant: the transmit FIFO is not flushed.
reset_tx_keeps(ep) == [TxCleared EXCEPT !.pkt = ep.pkt]

\* Nothing is queued any more: the FIFO is flushed.
reset_tx(ep) == TxCleared

\* memset(eps, 0, sizeof(eps)).
handle_reset(r) == [r EXCEPT !.ep = [e \in Rings |-> Cleared]]

\* SET_CONFIGURATION configures EP_RX, whose interrupt may be pending, and
\* says that EP_TX is ready.
configure_rx(ep) == [Configured("ep2") EXCEPT !.xfrc = ep.xfrc]
configure_tx(ep) == [ep EXCEPT !.ready = TRUE]

\* Whether the SETUP packet in hand may be a SET_CONFIGURATION.
MayConfigure == /\ rx.ep["ep0"].stup
                /\ gint = {"unconfigured"} \/ (gint = {} /\ "again" \in Rough)

\* The receiving side as handle_rx_transfer() finds it.
Found(conf) ==
  LET ep2 == IF conf THEN configure_rx(rx.ep["ep2"]) ELSE rx.ep["ep2"]
      eps == [rx.ep EXCEPT !["ep2"] = ep2]
      handled == [rx EXCEPT !.ep = [e \in Rings |-> handle_oepint(e, eps[e])]]
      enum == IF "ENUMDNE" \in gint THEN EnumDone(handled) ELSE handled
  IN IF "USBRST" \in gint THEN handle_reset(enum) ELSE enum

Process(conf) ==
  LET r == Found(conf)
  IN /\ main = "usb" /\ main' = "app"
     /\ conf => MayConfigure
     /\ rx' = IF r.fifo # <<>> THEN handle_rx_transfer(r) ELSE r
     /\ tx' = IF "USBRST" \in gint THEN reset_tx(tx)
              ELSE handle_iepint(IF conf THEN configure_tx(tx) ELSE tx)
     /\ gint' = CASE gint = {"USBRST"} -> {"reset"}
                  [] "ENUMDNE" \in gint -> {"unconfigured"}
                  [] OTHER -> IF conf THEN {} ELSE gint
     /\ got' = None /\ sent' = None
     /\ fresh' = (conf \/ "USBRST" \in gint)

usbd_process == \E conf \in BOOLEAN : Process(conf)

-----------------------------------------------------------------------------
(* floppy_process(): reads, writes or neither.                             *)

ep_rx_ready == rx.ep["ep2"].ring # <<>>

Read ==
  LET ep == rx.ep["ep2"]
  IN /\ main = "app" /\ ep_rx_ready
     /\ got' = Head(ep.ring)
     /\ rx' = [rx EXCEPT !.ep["ep2"] = usb_read(ep)]
     /\ UNCHANGED <<tx, main, gint>> /\ sent' = None /\ fresh' = FALSE

Write(p) == /\ main = "app" /\ tx.ready
            /\ tx' = [tx EXCEPT !.ready = FALSE, !.pkt = p]
            /\ UNCHANGED <<rx, main, gint>> /\ Quiet

MainLoop == /\ main = "app" /\ main' = "usb"
            /\ UNCHANGED <<rx, tx, gint>> /\ Quiet

-----------------------------------------------------------------------------

Firmware == usbd_process \/ Read \/ (\E p \in Packets : Write(p)) \/ MainLoop

Next == \/ Firmware
        \/ (\E p \in Packets, short \in BOOLEAN : HostOut(p, short))
        \/ HostSetup \/ HostControlOut \/ HostIn \/ BusReset \/ ResetEnds

-----------------------------------------------------------------------------
(* The assertions of handle_oepint(), for the interrupts that              *)
(* usb_process() would find, and of handle_rx_transfer(), for the entry    *)
(* that it would pop.                                                      *)

PacketExpected(ep) == ep.active /\ Len(ep.ring) < ep.nr

AssertsHold ==
  /\ \A e \in Rings : rx.ep[e].xfrc \/ rx.ep[e].stup => rx.ep[e].active
  /\ \A conf \in BOOLEAN :
       (conf => MayConfigure) /\ rx.fifo # <<>> /\ Head(rx.fifo)[1] = "data" =>
         PacketExpected(Found(conf).ep[Head(rx.fifo)[2]])

\* An endpoint that is ready for the next packet holds none.
ReadyIsFree == tx.ready => tx.pkt = None

-----------------------------------------------------------------------------
(* The packets under way: the refinement mapping to UsbPipe.               *)

RxQueue == rx.ep["ep2"].ring \o rx.data

TxQueue == IF tx.pkt = None THEN <<>> ELSE <<tx.pkt>>

=============================================================================
