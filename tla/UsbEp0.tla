------------------------------- MODULE UsbEp0 -------------------------------
(***************************************************************************)
(* Control transfers: core.c and cdc_acm.c over endpoint 0 of hw_usbd.c.   *)
(* (hw_usbd_at32f4.c handles endpoint 0 in the same way.)                  *)
(*                                                                         *)
(* The host begins a transfer with a SETUP packet, sends or takes data and *)
(* ends with a packet of status in the other direction.  The hardware      *)
(* raises CTR_RX or CTR_TX; usb_process() looks at them once per turn of   *)
(* the main loop, handles one of the two, CTR_RX first, and may have       *)
(* looked some time before it handles.  A handler is one step: the host    *)
(* can do nothing that it would notice before it has answered.             *)
(*                                                                         *)
(* Data is counted in units of half a packet.  A packet is known by the    *)
(* request it belongs to and by its place in the data.                     *)
(***************************************************************************)
EXTENDS Integers, FiniteSetsExt

CONSTANTS
  Requests,  \* what the host may ask
  BufSz,     \* sizeof(ep0.data)
  Eager      \* whether the host may send a SETUP packet before the
             \* firmware has noticed the end of the transfer before it

VARIABLES
  ep0,   \* struct ep0
  hw,    \* registers of endpoint 0, its packets, and the bus reset
  soft,  \* eps[0], pending_addr, daddr, line_coding
  main,  \* where the main loop is
  host,  \* the transfer as the host sees it
  ran    \* ghost: how often this transfer's request was carried out

vars == <<ep0, hw, soft, main, host, ran>>

Mps == 2
NoRequest == [do |-> "none", in |-> FALSE, wLength |-> 0]
Packet(r, off, len) == [req |-> r, off |-> off, len |-> len]
Nothing == Packet(NoRequest, 0, 0)

\* configure_ep() for endpoint 0.
Configured == [rx |-> "VALID", tx |-> "NAK", ctr_rx |-> FALSE, ctr_tx |-> FALSE,
               setup |-> FALSE, rxpkt |-> Nothing, txpkt |-> Nothing,
               reset |-> FALSE]

Idle == [stage |-> "idle", req |-> NoRequest, got |-> 0, ok |-> TRUE, addr |-> 0]

Complete(e) == [e EXCEPT !.data_len = -1]

\* After the reset that begins the enumeration.
Quiet == /\ ep0 = [req |-> NoRequest, data_len |-> -1, todo |-> -1, off |-> 0,
                   trunc |-> FALSE]
         /\ hw = Configured
         /\ soft = [rx_ready |-> FALSE, tx_ready |-> TRUE, pending_addr |-> 0,
                    daddr |-> 0, baud |-> 0]
         /\ host = Idle
         /\ ran = 0

Init == Quiet /\ main = <<"usb">>

-----------------------------------------------------------------------------
(* core.c and cdc_acm.c.  The handlers work on d, a record of ep0, hw,     *)
(* soft and of how often the request has been carried out.                 *)

\* usb_write(): to be called only when tx_ready.
usb_write(d, len) ==
  [d EXCEPT !.hw.txpkt = Packet(d.ep0.req, d.ep0.off, len), !.hw.tx = "VALID",
            !.soft.tx_ready = FALSE]

\* The packet is forgotten, here and once it is sent: were it used again,
\* that would show.
usb_read(d) ==
  [d EXCEPT !.soft.rx_ready = FALSE, !.hw.rx = "VALID", !.hw.rxpkt = Nothing]

\* Only the IN direction is stalled.
usb_stall(d) == [d EXCEPT !.hw.tx = "STALL"]

\* Mutant: the data stage is over as soon as there is no data left.
OverWhenSent(trunc, left, len) == left = 0

\* Less data than asked for must end with a short packet, maybe an empty one.
Over(trunc, left, len) == left = 0 /\ (~trunc \/ len < Mps)

usb_write_ep0(d) ==
  LET len == Min({d.ep0.todo, Mps})
      left == d.ep0.todo - len
  IN IF d.ep0.todo < 0 \/ ~d.soft.tx_ready THEN d
     ELSE [usb_write(d, len) EXCEPT
             !.ep0.off = @ + len,
             !.ep0.todo = IF Over(d.ep0.trunc, left, len) THEN -1 ELSE left]

\* Mutant: the reply is sent whole.
ReplyUnclipped(r) == r.len

\* Descriptors, status and GET_LINE_CODING: the length of the reply.  It is
\* clipped to what the host has asked for.
Reply(r) == Min({r.len, r.wLength})

\* SET_LINE_CODING: clears the line only when the baud rate changes.
cdc_acm_handle_class_request(soft0, r) == [soft0 EXCEPT !.baud = r.baud]

setaddr(soft0, r) == [soft0 EXCEPT !.pending_addr = r.addr]

\* Whether the firmware knows the request at all.
Known(r) == r.do # "UNKNOWN" /\ (r.in \/ r.wLength <= BufSz)

\* Carries out the request, which must be Known.
handle_control_request(d) ==
  LET r == d.ep0.req
      data == [d EXCEPT !.ran = @ + 1]
  IN CASE r.do = "GET" -> [data EXCEPT !.ep0.data_len = Reply(r)]
       [] r.do = "SET_ADDRESS" -> [data EXCEPT !.soft = setaddr(@, r)]
       [] r.do = "SET_LINE_CODING" ->
            [data EXCEPT !.soft = cdc_acm_handle_class_request(@, r)]
       [] OTHER -> data

\* The data stage, or the status stage of a request without data, begins.
SendReply(d) ==
  usb_write_ep0([d EXCEPT !.ep0.todo = d.ep0.data_len, !.ep0.off = 0,
                          !.ep0.trunc = d.ep0.data_len < d.ep0.req.wLength])

SendStatus(d) ==
  LET sent == usb_write_ep0([d EXCEPT !.ep0.todo = 0, !.ep0.off = 0,
                                      !.ep0.trunc = FALSE])
  IN [sent EXCEPT !.ep0 = Complete(@)]

Attempt(d) ==
  CASE ~Known(d.ep0.req) -> [usb_stall(d) EXCEPT !.ep0 = Complete(@)]
    [] Known(d.ep0.req) /\ d.ep0.req.in -> SendReply(handle_control_request(d))
    [] OTHER -> SendStatus(handle_control_request(d))

\* Mutant: a SETUP packet is always enough to handle the request.
SetupReadyAlways(r) == TRUE

SetupReady(r) == r.in \/ r.wLength = 0

HandleSetup(d) ==
  LET r == d.hw.rxpkt.req
      read == usb_read([d EXCEPT !.ep0.req = r, !.ep0.data_len = 0,
                                 !.ep0.todo = -1])
  IN IF SetupReady(r) THEN Attempt(read) ELSE read

\* Data beyond the buffer is counted and dropped; data beyond wLength is
\* clipped.
HandleData(d) ==
  LET len == d.ep0.data_len + d.hw.rxpkt.len
      whole == len >= d.ep0.req.wLength
      read == [usb_read(d) EXCEPT
                 !.ep0.data_len = IF whole THEN d.ep0.req.wLength ELSE len]
  IN IF whole THEN Attempt(read) ELSE read

HandleStatus(d) ==
  [usb_read(d) EXCEPT !.ep0 = [Complete(@) EXCEPT !.todo = -1]]

handle_rx_ep0(d, is_setup) ==
  CASE is_setup -> HandleSetup(d)
    [] ~is_setup /\ d.ep0.data_len < 0 -> usb_read(usb_stall(d))
    [] ~is_setup /\ d.ep0.data_len >= 0 /\ ~d.ep0.req.in -> HandleData(d)
    [] OTHER -> HandleStatus(d)

-----------------------------------------------------------------------------
(* hw_usbd.c.                                                              *)

Device == [ep0 |-> ep0, hw |-> hw, soft |-> soft, ran |-> ran]
Becomes(d) == ep0' = d.ep0 /\ hw' = d.hw /\ soft' = d.soft /\ ran' = d.ran

usbd_process ==
  /\ main = <<"usb">>
  /\ main' = <<"handle",
               CASE hw.ctr_rx -> "rx" [] ~hw.ctr_rx /\ hw.ctr_tx -> "tx" [] OTHER -> "none",
               hw.reset>>
  /\ UNCHANGED <<ep0, hw, soft, host, ran>>

handle_rx_transfer(d) ==
  handle_rx_ep0([d EXCEPT !.hw.ctr_rx = FALSE, !.soft.rx_ready = TRUE],
                d.hw.setup)

handle_tx_transfer(d) ==
  LET w == usb_write_ep0([d EXCEPT !.hw.ctr_tx = FALSE, !.soft.tx_ready = TRUE])
  IN IF w.soft.pending_addr # 0 /\ w.ep0.todo = -1
     THEN [w EXCEPT !.soft.daddr = w.soft.pending_addr, !.soft.pending_addr = 0]
     ELSE w

\* Mutant: the address that was to be set is set after the reset.
ResetKeepsAddress(d) ==
  [d EXCEPT !.ep0 = [Complete(@) EXCEPT !.todo = -1], !.hw = Configured,
            !.soft.rx_ready = FALSE, !.soft.tx_ready = TRUE, !.soft.daddr = 0]

handle_reset(d) ==
  [d EXCEPT !.ep0 = [Complete(@) EXCEPT !.todo = -1], !.hw = Configured,
            !.soft.rx_ready = FALSE, !.soft.tx_ready = TRUE,
            !.soft.pending_addr = 0, !.soft.daddr = 0]

Handle ==
  LET done == CASE main[2] = "rx" -> handle_rx_transfer(Device)
                [] main[2] = "tx" -> handle_tx_transfer(Device)
                [] OTHER -> Device
  IN /\ main[1] = "handle"
     /\ Becomes(IF main[3] THEN handle_reset(done) ELSE done)
     /\ main' = <<"usb">>
     /\ UNCHANGED host

-----------------------------------------------------------------------------
(* The hardware and the host.                                              *)

\* The device answers on the bus at the host's address for it.
Reachable == ~hw.reset /\ soft.daddr = host.addr

\* A SETUP packet is ignored while CTR_RX is set; it sets both directions
\* to NAK.
Setup(r) ==
  /\ host.stage = "idle" /\ Reachable /\ ~hw.ctr_rx
  /\ Eager \/ ~hw.ctr_tx
  /\ hw' = [hw EXCEPT !.rx = "NAK", !.tx = "NAK", !.ctr_rx = TRUE,
                      !.setup = TRUE, !.rxpkt = Packet(r, 0, 0)]
  /\ host' = [host EXCEPT !.req = r, !.got = 0, !.ok = TRUE,
                !.stage = CASE r.wLength = 0 -> "status_in"
                            [] r.wLength > 0 /\ r.in -> "in"
                            [] OTHER -> "out"]
  /\ ran' = 0
  /\ UNCHANGED <<ep0, soft, main>>

Out(len) == /\ Reachable /\ hw.rx = "VALID"
            /\ hw' = [hw EXCEPT !.rx = "NAK", !.ctr_rx = TRUE, !.setup = FALSE,
                                !.rxpkt = Packet(host.req, host.got, len)]
            /\ UNCHANGED <<ep0, soft, main, ran>>

HostData ==
  LET len == Min({Mps, host.req.wLength - host.got})
  IN /\ host.stage = "out" /\ Out(len)
     /\ host' = [host EXCEPT !.got = @ + len,
                   !.stage = IF host.got + len = host.req.wLength
                             THEN "status_in" ELSE "out"]

HostStatusOut == /\ host.stage = "status_out" /\ Out(0)
                 /\ host' = [host EXCEPT !.stage = "idle"]

In == /\ Reachable /\ hw.tx = "VALID"
      /\ hw' = [hw EXCEPT !.tx = "NAK", !.ctr_tx = TRUE, !.txpkt = Nothing]
      /\ UNCHANGED <<ep0, soft, main, ran>>

\* The data stage ends with a short packet or with the last unit asked for.
HostTakes ==
  LET p == hw.txpkt
      all == host.got + p.len
  IN /\ host.stage = "in" /\ In
     /\ host' = [host EXCEPT !.got = all,
                   !.ok = @ /\ p = Packet(host.req, host.got, p.len),
                   !.stage = IF p.len < Mps \/ all >= host.req.wLength
                             THEN "status_out" ELSE "in"]

HostStatusIn ==
  /\ host.stage = "status_in" /\ In
  /\ host' = [host EXCEPT !.stage = "idle", !.ok = @ /\ hw.txpkt.len = 0,
                !.addr = IF host.req.do = "SET_ADDRESS" THEN host.req.addr
                         ELSE @]

\* A stall ends the transfer.
HostStalled ==
  /\ host.stage \in {"in", "status_in"} /\ Reachable /\ hw.tx = "STALL"
  /\ host' = [host EXCEPT !.stage = "idle", !.ok = FALSE]
  /\ UNCHANGED <<ep0, hw, soft, main, ran>>

\* The host may give up a transfer while it has data left to send.  core.c
\* takes a SETUP packet at any time, but one that cuts short the data or the
\* status that the device sends is outside this model: there the host resets
\* the bus.
HostGivesUp ==
  /\ host.stage = "out" /\ host.got < host.req.wLength
  /\ host' = [host EXCEPT !.stage = "idle"]
  /\ UNCHANGED <<ep0, hw, soft, main, ran>>

\* The registers are reset, but for CTR_RX and CTR_TX, and the device stays
\* off the bus until the firmware has noticed.
BusReset ==
  /\ hw' = [hw EXCEPT !.rx = "DISABLED", !.tx = "DISABLED", !.setup = FALSE,
                      !.reset = TRUE]
  /\ host' = Idle
  /\ ran' = 0
  /\ UNCHANGED <<ep0, soft, main>>

-----------------------------------------------------------------------------
(* The main loop never stops; the host goes on with what the device is     *)
(* ready for.                                                              *)

MainLoop == usbd_process \/ Handle
Host == HostData \/ HostStatusOut \/ HostTakes \/ HostStatusIn \/ HostStalled

Next == MainLoop \/ Host \/ HostGivesUp \/ BusReset \/ \E r \in Requests : Setup(r)

=============================================================================
