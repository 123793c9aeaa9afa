-------------------------------- MODULE MCUsb --------------------------------
(***************************************************************************)
(* The three USB drivers behind the one interface of usb.h.  A build has   *)
(* one or two of them; on the AT32F4 hw_usb_init() chooses, and every call *)
(* of usb.h goes through drv.  Each is shown to be a pipe in both          *)
(* directions.  Beside them endpoint 0, which shares no state with the     *)
(* bulk endpoints but the resets and configurations that these take as     *)
(* they come.                                                              *)
(***************************************************************************)
EXTENDS Integers, SequencesExt

CONSTANTS Packets, None, Zlp, NBUF, RxNr, Fifo, Capacity, Rough,
          Requests, BufSz, Eager

\* The packets are packets, and a pipe is as long as what a driver may hold: two
\* buffers of the hardware beside a ring.
ASSUME UsbAssumption ==
  /\ None \notin Packets /\ Zlp \notin Packets
  /\ {NBUF, RxNr, Fifo, Capacity} \subseteq Nat
  /\ Capacity >= RxNr /\ Capacity >= NBUF + 2
  /\ Rough \subseteq {"backlog", "blocked", "again"}

\* Requests have a direction, a length, and what the handler of each looks at;
\* those with a reply are the ones that USB defines with one.
ASSUME RequestAssumption ==
  /\ BufSz \in Nat /\ Eager \in BOOLEAN
  /\ \A r \in Requests :
       /\ r.in \in BOOLEAN /\ r.wLength \in Nat
       /\ r.do = "GET" => r.in /\ r.len \in Nat
       /\ r.in => r.do \in {"GET", "UNKNOWN"}
       /\ r.do = "SET_ADDRESS" => r.addr \in Nat
       /\ r.do = "SET_LINE_CODING" => r.baud \in Nat

VARIABLES drv, rx, tx, main, aux, got, sent, fresh,
          ep0, hw, soft, host, ran

bulk == <<rx, tx, aux, got, sent, fresh>>
controls == <<ep0, hw, soft, host, ran>>
vars == <<drv, main, bulk, controls>>

usbd == INSTANCE Usbd
at32 == INSTANCE UsbdAt32 WITH irq <- aux
dwc_otg == INSTANCE DwcOtg WITH gint <- aux
control == INSTANCE UsbEp0

\* One of the drivers with its bulk endpoints, or endpoint 0 by itself.
hw_usb_init ==
  \/ drv = "usbd" /\ usbd!Init /\ aux = "none" /\ control!Quiet
  \/ drv = "usbd_at32" /\ at32!Init /\ control!Quiet
  \/ drv = "dwc_otg" /\ dwc_otg!Init /\ control!Quiet
  \/ /\ drv = "ep0" /\ control!Init
     /\ rx = "none" /\ tx = "none" /\ aux = "none"
     /\ got = None /\ sent = None /\ fresh = FALSE

Usbd(A) == drv = "usbd" /\ A /\ UNCHANGED <<drv, aux, controls>>
At32(A) == drv = "usbd_at32" /\ A /\ UNCHANGED <<drv, controls>>
Otg(A) == drv = "dwc_otg" /\ A /\ UNCHANGED <<drv, controls>>
Ep0(A) == drv = "ep0" /\ A /\ UNCHANGED <<drv, bulk>>

Next == \/ Usbd(usbd!Next) \/ At32(at32!Next) \/ Otg(dwc_otg!Next)
        \/ Ep0(control!Next)

\* The main loop and the interrupt go on, firmware that is offered packets
\* again and again reads them, and the host polls.
Fairness ==
  /\ SF_vars(Usbd(usbd!Firmware) \/ At32(at32!Firmware) \/ Otg(dwc_otg!Firmware)
             \/ Ep0(control!MainLoop))
  /\ SF_vars(Usbd(usbd!MainLoop) \/ Otg(dwc_otg!MainLoop))
  /\ SF_vars(Usbd(usbd!ReadStart) \/ At32(at32!Read) \/ Otg(dwc_otg!Read))
  /\ WF_vars(At32(at32!Interrupt))
  /\ WF_vars(Usbd(usbd!HostIn) \/ At32(at32!HostIn) \/ Otg(dwc_otg!HostIn)
             \/ Ep0(control!Host))

Spec == hw_usb_init /\ [][Next]_vars /\ Fairness

-----------------------------------------------------------------------------

ByDriver(f, a, d) == CASE drv = "usbd" -> f
                       [] drv = "usbd_at32" -> a
                       [] drv = "dwc_otg" -> d
                       [] OTHER -> <<>>

OutPipe == INSTANCE UsbPipe WITH
  queue <- ByDriver(usbd!RxQueue, at32!RxQueue, dwc_otg!RxQueue), out <- got

InPipe == INSTANCE UsbPipe WITH
  queue <- ByDriver(usbd!TxQueue, at32!TxQueue, dwc_otg!TxQueue), out <- sent

\* Packets of the host reach usb_read() whole, once and in order, and none
\* is left behind: not by a deferred flag, not by a missed kick, not by a
\* transfer that is never started again.
OutPacketsArrive == OutPipe!Spec

\* Packets given to usb_write() reach the host whole, once and in order,
\* and none is left in a buffer that nobody hands to the hardware.
InPacketsArrive == InPipe!Spec

\* A packet popped from the receive FIFO finds its endpoint active and room
\* in the ring, and the end of a transfer finds the transfer active: the
\* assertions of hw_dwc_otg.c hold, through bus resets, configurations and
\* whatever comes for endpoint 0, with a host that is not Rough.
RxAsserts == drv = "dwc_otg" => dwc_otg!AssertsHold

\* "Is IN endpoint ready for next packet?": ep_tx_ready() is true only when the
\* transmit FIFO holds no packet that the host has still to take, across bus
\* resets and configurations, with a host that is not Rough.
TxReadyTrue == drv = "dwc_otg" => dwc_otg!ReadyIsFree

-----------------------------------------------------------------------------

Completed == host.stage = "idle" /\ host.ok
Stalled == host.stage = "idle" /\ ~host.ok

\* A completed IN transfer has given the host the data of the request it
\* made, in order, no more than it asked for and no less than there is; only
\* requests that the firmware does not know are stalled.
DataTrue ==
  /\ Completed /\ host.req.in =>
       control!Known(host.req) /\ host.got = Min({host.req.len, host.req.wLength})
  /\ Stalled => ~control!Known(host.req)

\* A request with data for the device, or with none, is carried out once
\* when the transfer completes, and neither twice, nor early, nor at all
\* when it is stalled or given up.
OutOnce ==
  host.req # control!NoRequest /\ ~host.req.in =>
    /\ ran <= 1
    /\ ran = 1 => control!Known(host.req) /\ host.got = host.req.wLength
    /\ Completed /\ host.got = host.req.wLength => ran = 1

\* Every transfer ends, but one that an Eager host begins while the device is
\* about to take its new address too early: it no longer finds the device.
TransferEnds == []<>(host.stage = "idle" \/ soft.daddr # host.addr)

\* The device changes its address only when the host has seen the status of
\* SET_ADDRESS, as hw_usbd.c says: true with a host that lets the firmware
\* notice the end of one transfer before it begins another, and false with an
\* Eager one.
AddressAfterStatus ==
  [][soft'.daddr # soft.daddr => soft'.daddr = host'.addr \/ hw.reset]_vars

\* Even with an Eager host it takes only the address of the SET_ADDRESS that
\* the host is at, or the one the host uses: an address asked for before a
\* bus reset is forgotten.
AddressAsked ==
  [][soft'.daddr # soft.daddr =>
       \/ soft'.daddr = host'.addr \/ hw.reset
       \/ host.req.do = "SET_ADDRESS" /\ host.req.addr = soft'.daddr]_vars

-----------------------------------------------------------------------------
(* A host's requests.                                                      *)

Get(len, wLength) == [do |-> "GET", in |-> TRUE, wLength |-> wLength, len |-> len]
Put(do, wLength) == [do |-> do, in |-> FALSE, wLength |-> wLength]

\* Replies of less than a packet, of one packet and of more; data in one
\* packet and in two; data that fills ep0.data or is too long for it.
MCRequests ==
  {Get(1, 0), Get(1, 4), Get(2, 3), Get(3, 2), Get(3, 4)}
  \cup {[do |-> "UNKNOWN", in |-> TRUE, wLength |-> 1]}
  \cup {[do |-> "SET_ADDRESS", in |-> FALSE, wLength |-> 0, addr |-> a] : a \in 1..2}
  \cup {[do |-> "SET_LINE_CODING", in |-> FALSE, wLength |-> 1 + 2 * b, baud |-> b] :
          b \in {0, 1}}
  \cup {Put("SEND_BREAK", 0), Put("UNKNOWN", BufSz), Put("SEND_BREAK", BufSz + 1)}
=============================================================================
