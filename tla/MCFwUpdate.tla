---------------------------- MODULE MCFwUpdate ----------------------------
(* A board, its user and a host with good and bad images, for TLC.         *)
EXTENDS FwUpdate

Image(id, len, good) == [id |-> id, len |-> len, good |-> good]

\* Of two pages and of one, corrupt, empty, of a bad size, and too long.
MCMainImages ==
  {Image("a", 8, TRUE), Image("b", 4, TRUE), Image("c", 8, FALSE),
   Image("empty", 0, FALSE), Image("odd", 6, TRUE), Image("long", 12, TRUE)}
MCBootImages ==
  {Image("k", 8, TRUE), Image("l", 4, TRUE), Image("m", 4, FALSE),
   Image("odd", 6, TRUE), Image("long", 12, TRUE)}

-----------------------------------------------------------------------------

Rescue == mode = "wild" /\ PowerCycle(TRUE)

Repair == /\ ~ValidAs(fw, MainImages)
          /\ \E img \in Sound(MainImages, FwSz) : CmdUpdate(img)

Restart == ValidAs(fw, MainImages) /\ Switch(FALSE)

Reenumerates == st = "inactive" /\ Configure

FairSpec ==
  /\ Spec
  /\ WF_vars(Firmware) /\ WF_vars(Packet) /\ WF_vars(HostTakesResponse)
  /\ SF_vars(Reenumerates) /\ SF_vars(Rescue)
  /\ SF_vars(Repair) /\ SF_vars(Restart)

\* While the bootloader is whole, a user who straps the board when it does
\* not come up and a host that updates firmware that is not whole bring the
\* board back.
Recovers == []<>(mode = "dead" \/ (mode = "main" /\ ValidAs(fw, MainImages)))
=============================================================================
