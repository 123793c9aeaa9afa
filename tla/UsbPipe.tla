------------------------------- MODULE UsbPipe -------------------------------
(* What usb.h promises of one direction of the bulk link: packets arrive   *)
(* whole, once and in order, however the driver buffers them, and none is  *)
(* left behind.  Only a new configuration empties a pipe.                   *)
EXTENDS Naturals, Sequences

CONSTANTS
  Packets,   \* what a packet may hold
  None,      \* no packet
  Capacity   \* packets a driver holds, at most

VARIABLES
  queue,  \* packets under way, oldest first
  out,    \* the packet delivered by the last step, or None
  fresh   \* whether the last step was a reset or a configuration

vars == <<queue, out, fresh>>

Init == queue = <<>> /\ out = None /\ fresh = FALSE

Put(p) == /\ Len(queue) < Capacity
          /\ queue' = Append(queue, p)
          /\ out' = None
          /\ fresh' = FALSE

Take == /\ queue # <<>>
        /\ out' = Head(queue)
        /\ queue' = Tail(queue)
        /\ fresh' = FALSE

Configure == queue' = <<>> /\ out' = None /\ fresh' = TRUE

Pass == out' = None /\ fresh' = FALSE /\ UNCHANGED queue

Next == (\E p \in Packets : Put(p)) \/ Take \/ Configure \/ Pass

\* Weak fairness of Take, which is enabled unless the queue is empty.
Delivers == []<>(queue = <<>>) \/ []<><<Take>>_vars

Safety == Init /\ [][Next]_vars

Spec == Safety /\ Delivers
==============================================================================
