------------------------------ MODULE FwUpdate ------------------------------
(***************************************************************************)
(* Two programs in flash that replace each other: the update bootloader    *)
(* (fw_update.c) writes the main firmware as it arrives, and the main      *)
(* firmware (floppy.c) replaces the bootloader from a copy in RAM.  Power  *)
(* may fail between any two operations on the flash; at power-on and after *)
(* a reset the bootloader decides what to run.                             *)
(*                                                                         *)
(* Flash is written in halfwords and erased in pages.  A halfword holds    *)
(* the two bytes written to it, a byte being known by its image and its    *)
(* place there, so that the CRC of an area is right when the area holds a  *)
(* good image.  A page erase is taken to be atomic.                        *)
(***************************************************************************)
EXTENDS Integers, Sequences

CONSTANTS
  MainImages,   \* images of the main firmware: [id, len in bytes, good]
  BootImages,   \* images of the bootloader
  FwSz, BlSz,   \* halfwords of the two areas
  PageSz,       \* halfwords of FLASH_PAGE_SIZE
  MaxPacket,    \* bytes in a packet, at most
  MaxStops,     \* bound: updates stopped by a power cycle or the USB host
  MaxFaults     \* bound: halfwords that are not programmed as they should

ASSUME ImagesAssumption ==
  \A i \in MainImages \cup BootImages :
    i.len \in Nat /\ i.good \in BOOLEAN /\ (i.good => i.len > 0)
\* The first word of the firmware lies in one page.
ASSUME FlashAssumption == {FwSz, BlSz, PageSz} \subseteq Nat \ {0, 1} /\ MaxPacket \in Nat

VARIABLES
  fw, bl,  \* the two areas of flash
  mode,    \* what runs: "boot", "main", "wild" (no whole image), "dead"
  st,      \* state / floppy_state
  op,      \* the operation on flash under way
  upd,     \* update.len, update.cur, u_buf[] from 0 to u_prod, the retries, and
           \* how many bytes of the image the host has sent
  tx,      \* the response in the IN endpoint
  flag,    \* _reset_flag is set
  stops,   \* stops so far
  faults,  \* faults so far
  cut,     \* ghost: writing the main firmware, or erasing a bad one, was stopped
  blcut    \* ghost: writing the bootloader was stopped, or given up

vars == <<fw, bl, mode, st, op, upd, tx, flag, stops, faults, cut, blcut>>

Erased == <<>>
Wrong == <<"wrong">>
Byte(img, i) == <<img.id, i>>
Halfword(img, j) == <<Byte(img, 2*j - 1), Byte(img, 2*j)>>
Written(img, n) ==
  [j \in 1..n |-> IF 2*j <= img.len THEN Halfword(img, j) ELSE Erased]

Fits(area, img) == img.len <= 2 * Len(area)
Holds(area, img) ==
  Fits(area, img) /\ \A j \in 1..(img.len \div 2) : area[j] = Halfword(img, j)

\* crc16_ccitt() over the first bytes of an area: zero for an image whose
\* last bytes are its CRC, but not for no bytes at all.
CrcGood(area, img) == img.good /\ img.len > 0 /\ Holds(area, img)

None == [id |-> "none", len |-> 0, good |-> FALSE]
NoUpdate == [img |-> None, cur |-> 0, buf |-> <<>>, retry |-> 0, sent |-> 0]

\* Update files hold whole words.
Sound(images, size) == {i \in images : i.good /\ i.len % 4 = 0 /\ i.len <= 2 * size}

Init == /\ \E i \in Sound(MainImages, FwSz) : fw = Written(i, FwSz)
        /\ \E i \in Sound(BootImages, BlSz) : bl = Written(i, BlSz)
        /\ mode = "main" /\ st = "command" /\ op = <<"none">>
        /\ upd = NoUpdate /\ tx = "none" /\ flag = FALSE
        /\ stops = 0 /\ faults = 0
        /\ cut = FALSE /\ blcut = FALSE

-----------------------------------------------------------------------------
(* fpec.c.                                                                 *)

ErasePage(area, p) ==
  [j \in DOMAIN area |-> IF (j - 1) \div PageSz = p - 1 THEN Erased ELSE area[j]]

\* The controller refuses to program a halfword that is not erased.
Program(area, j, bytes) ==
  IF area[j] = Erased THEN [area EXCEPT ![j] = bytes] ELSE area

Pages(halfwords) == (halfwords + PageSz - 1) \div PageSz

\* A halfword to be programmed comes out as it should, or not.
Outcomes(bytes) == {bytes} \cup (IF faults < MaxFaults THEN {Wrong} ELSE {})

-----------------------------------------------------------------------------
(* Boot: main() of fw_update.c.                                            *)

ValidAs(area, images) == \E i \in images : CrcGood(area, i)

\* Mutant: a strapped board starts the firmware all the same.
IgnoresStrap(strapped) == flag

enter_bootloader(strapped) == flag \/ strapped

\* The first word, the stack pointer, reads ~0.
FirstWordErased == fw[1] = Erased /\ fw[2] = Erased

Boot(strapped) ==
  /\ mode' = IF ~ValidAs(bl, BootImages) THEN "dead"
             ELSE IF enter_bootloader(strapped) \/ FirstWordErased THEN "boot"
             ELSE IF ValidAs(fw, MainImages) THEN "main" ELSE "wild"
  /\ flag' = FALSE
  /\ st' = "inactive" /\ op' = <<"none">> /\ upd' = NoUpdate /\ tx' = "none"

\* Flash is not to be left now: the firmware's first word is there, the rest
\* is being written, or is bad and about to be erased.
Exposed == \/ mode = "boot" /\ st = "update" /\ fw[1] # Erased
           \/ op = <<"erase", 1, "failed">>

BlExposed == op[1] \in {"bl_erase", "bl_write", "bl_verify"}

Stops == /\ cut' = (cut \/ Exposed)
         /\ blcut' = (blcut \/ BlExposed)

Busy == st = "update" \/ op # <<"none">>

Stop == /\ stops < MaxStops \/ ~Busy
        /\ stops' = IF Busy THEN stops + 1 ELSE stops

PowerCycle(strapped) ==
  /\ Stop /\ Stops /\ Boot(strapped)
  /\ UNCHANGED <<fw, bl, faults>>

\* CMD_SWITCH_FW_MODE: system_reset(), from the main firmware with the flag.
Switch(strapped) ==
  /\ st = "command" /\ op = <<"none">> /\ tx = "none"
  /\ mode = "boot" /\ Boot(strapped)
  /\ UNCHANGED <<fw, bl, stops, faults, cut, blcut>>

SwitchToBoot ==
  /\ mode = "main" /\ st = "command" /\ op = <<"none">> /\ tx = "none"
  /\ flag' = TRUE /\ mode' = "reset"
  /\ UNCHANGED <<fw, bl, st, op, upd, tx, stops, faults, cut, blcut>>

SystemReset(strapped) ==
  /\ mode = "reset" /\ Boot(strapped)
  /\ UNCHANGED <<fw, bl, stops, faults, cut, blcut>>

-----------------------------------------------------------------------------
(* USB: usb_process() runs between two calls of update_process().          *)

Running == mode \in {"boot", "main"}

\* update_reset() and update_configure(), and theirs in floppy.c.
Reset == /\ Running /\ op = <<"none">> /\ Stop /\ Stops
         /\ st' = "inactive" /\ tx' = "none"
         /\ UNCHANGED <<fw, bl, mode, op, upd, flag, faults>>

Configure == /\ Running /\ op = <<"none">> /\ Stop /\ Stops
             /\ st' = "command" /\ tx' = "none"
             /\ upd' = [upd EXCEPT !.buf = <<>>]
             /\ UNCHANGED <<fw, bl, mode, op, flag, faults>>

HostTakesResponse == /\ tx # "none" /\ op = <<"none">>
                     /\ tx' = "none"
                     /\ UNCHANGED <<fw, bl, mode, st, op, upd, flag, stops, faults, cut, blcut>>

\* The next packet of the image; the host sends it once it has the response
\* to the command.
Arrives(n) == /\ st = "update" /\ op = <<"none">> /\ tx = "none"
              /\ n <= upd.img.len - upd.sent

Received(n) == upd.buf \o [k \in 1..n |-> Byte(upd.img, upd.sent + k)]

-----------------------------------------------------------------------------
(* The bootloader replaces the main firmware.                              *)

\* CMD_UPDATE: update_prep() erases first.
CmdUpdate(img) ==
  /\ mode = "boot" /\ st = "command" /\ op = <<"none">> /\ tx = "none"
  /\ IF img.len % 4 # 0 \/ ~Fits(fw, img)
     THEN /\ tx' = IF img.len % 4 # 0 THEN "bad_command" ELSE "out_of_flash"
          /\ UNCHANGED <<op, upd>>
     ELSE /\ op' = <<"erase", 1, "prep">>
          /\ upd' = [NoUpdate EXCEPT !.img = img]
          /\ UNCHANGED tx
  /\ UNCHANGED <<fw, bl, mode, st, flag, stops, faults, cut, blcut>>

\* Mutant: from the last page to the first.
ErasesBackwards(p) == ErasePage(fw, Pages(upd.img.len \div 2) + 1 - p)

Erases(p) == ErasePage(fw, p)

\* erase_old_firmware(): page by page, from the first; then the update
\* begins, or is over.
EraseOldFirmware ==
  /\ op[1] = "erase"
  /\ IF op[2] <= Pages(upd.img.len \div 2)
     THEN /\ fw' = Erases(op[2])
          /\ op' = <<"erase", op[2] + 1, op[3]>>
          /\ UNCHANGED <<st, tx, cut>>
     ELSE /\ op' = <<"none">>
          /\ IF op[3] = "prep"
             THEN st' = "update" /\ tx' = "okay" /\ cut' = (cut /\ upd.img.len = 0)
             ELSE UNCHANGED <<st, tx, cut>>
          /\ UNCHANGED fw
  /\ UNCHANGED <<bl, mode, upd, flag, stops, faults, blcut>>

UpdateReceive(n) ==
  /\ mode = "boot" /\ Arrives(n)
  /\ upd' = [upd EXCEPT !.buf = Received(n), !.sent = @ + n]
  /\ op' = IF Len(Received(n)) >= 2 THEN <<"write", 0>> ELSE <<"none">>
  /\ UNCHANGED <<fw, bl, mode, st, tx, flag, stops, faults, cut, blcut>>

\* Mutant: the byte before the odd one is kept for the next packet.
LeftBehind(nr) == SubSeq(upd.buf, nr, Len(upd.buf) - 1)

Left(nr) == SubSeq(upd.buf, nr + 1, Len(upd.buf))

\* fpec_write() of the whole halfwords received; an odd byte is left.
UpdateWrite ==
  LET k == op[2]
      nr == 2 * (Len(upd.buf) \div 2)
  IN /\ op[1] = "write"
     /\ \E bytes \in Outcomes(<<upd.buf[2*k + 1], upd.buf[2*k + 2]>>) :
          /\ fw' = Program(fw, upd.cur \div 2 + k + 1, bytes)
          /\ faults' = IF bytes = Wrong THEN faults + 1 ELSE faults
     /\ IF 2 * (k + 1) < nr
        THEN op' = <<"write", k + 1>> /\ UNCHANGED upd
        ELSE /\ op' = <<"none">>
             /\ upd' = [upd EXCEPT !.cur = @ + nr, !.buf = Left(nr)]
     /\ UNCHANGED <<bl, mode, st, tx, flag, stops, cut, blcut>>

\* All is written: the verdict goes to the host before bad firmware is
\* erased.
UpdateEnd ==
  /\ mode = "boot" /\ st = "update" /\ op = <<"none">> /\ tx = "none"
  /\ upd.cur >= upd.img.len
  /\ st' = "command"
  /\ IF CrcGood(fw, upd.img)
     THEN tx' = "good" /\ UNCHANGED op
     ELSE tx' = "fail" /\ op' = <<"erase", 1, "failed">>
  /\ upd' = [upd EXCEPT !.buf = <<>>]
  /\ UNCHANGED <<fw, bl, mode, flag, stops, faults, cut, blcut>>

-----------------------------------------------------------------------------
(* The main firmware replaces the bootloader.                              *)

\* The u_buf[] of the board may be too small for a bootloader.
CmdUpdateBootloader(img) ==
  /\ mode = "main" /\ st = "command" /\ op = <<"none">> /\ tx = "none"
  /\ IF img.len % 4 # 0 \/ ~Fits(bl, img)
     THEN tx' = "bad_command" /\ UNCHANGED <<st, upd>>
     ELSE \/ tx' = "out_of_sram" /\ UNCHANGED <<st, upd>>
          \/ /\ st' = "update" /\ tx' = "okay"
             /\ upd' = [NoUpdate EXCEPT !.img = img]
  /\ UNCHANGED <<fw, bl, mode, op, flag, stops, faults, cut, blcut>>

BlReceive(n) ==
  /\ mode = "main" /\ Arrives(n)
  /\ upd' = [upd EXCEPT !.buf = Received(n), !.sent = @ + n]
  /\ UNCHANGED <<fw, bl, mode, st, op, tx, flag, stops, faults, cut, blcut>>

\* Mutant: what was received is not checked.
AcceptAny == TRUE

\* The CRC of what is in u_buf[].
Accept == upd.img.good /\ upd.img.len > 0

BlReceived ==
  /\ mode = "main" /\ st = "update" /\ op = <<"none">> /\ tx = "none"
  /\ Len(upd.buf) = upd.img.len
  /\ IF Accept
     THEN op' = <<"bl_erase", 1>> /\ UNCHANGED <<st, tx>>
     ELSE st' = "command" /\ tx' = "fail" /\ UNCHANGED op
  /\ UNCHANGED <<fw, bl, mode, upd, flag, stops, faults, cut, blcut>>

EraseOldBootloader ==
  /\ op[1] = "bl_erase"
  /\ bl' = ErasePage(bl, op[2])
  /\ op' = IF op[2] = Pages(BlSz) THEN <<"bl_write", 0>> ELSE <<"bl_erase", op[2] + 1>>
  /\ UNCHANGED <<fw, mode, st, upd, tx, flag, stops, faults, cut, blcut>>

BlWrite ==
  LET k == op[2]
  IN /\ op[1] = "bl_write"
     /\ \E bytes \in Outcomes(<<upd.buf[2*k + 1], upd.buf[2*k + 2]>>) :
          /\ bl' = Program(bl, k + 1, bytes)
          /\ faults' = IF bytes = Wrong THEN faults + 1 ELSE faults
     /\ op' = IF 2 * (k + 1) < upd.img.len THEN <<"bl_write", k + 1>>
              ELSE <<"bl_verify">>
     /\ UNCHANGED <<fw, mode, st, upd, tx, flag, stops, cut, blcut>>

\* Up to three attempts.
BlVerify ==
  LET good == CrcGood(bl, upd.img)
      over == good \/ upd.retry = 2
  IN /\ op = <<"bl_verify">>
     /\ IF over
        THEN /\ op' = <<"none">> /\ st' = "command"
             /\ tx' = IF good THEN "good" ELSE "fail"
             /\ upd' = [upd EXCEPT !.buf = <<>>]
             /\ blcut' = (blcut \/ (~good /\ upd.img.good))
        ELSE /\ op' = <<"bl_erase", 1>>
             /\ upd' = [upd EXCEPT !.retry = @ + 1]
             /\ UNCHANGED <<st, tx, blcut>>
     /\ UNCHANGED <<fw, bl, mode, flag, stops, faults, cut>>

-----------------------------------------------------------------------------

Firmware ==
  \/ EraseOldFirmware \/ UpdateWrite \/ UpdateEnd
  \/ BlReceived \/ EraseOldBootloader \/ BlWrite \/ BlVerify
  \/ \E s \in BOOLEAN : SystemReset(s)

Packet == \E n \in 1..MaxPacket : UpdateReceive(n) \/ BlReceive(n)

Next ==
  \/ Firmware \/ Packet \/ HostTakesResponse
  \/ \E img \in MainImages : CmdUpdate(img)
  \/ \E img \in BootImages : CmdUpdateBootloader(img)
  \/ \E s \in BOOLEAN : PowerCycle(s) \/ Switch(s)
  \/ SwitchToBoot \/ Reset \/ Configure

Spec == Init /\ [][Next]_vars

-----------------------------------------------------------------------------
(* Properties.                                                             *)

Faulty(area) == \E j \in DOMAIN area : area[j] = Wrong

\* The verdict given to the host is true: "good" only with all of a good
\* image in flash, "fail" only for an image that is bad or a fault of the
\* flash.  Packets may end anywhere, at odd bytes too.
VerdictTrue ==
  /\ tx = "good" => CrcGood(IF mode = "boot" THEN fw ELSE bl, upd.img)
  /\ op = <<"erase", 1, "failed">> => ~upd.img.good \/ Faulty(fw)
  /\ mode = "main" /\ tx = "fail" => ~upd.img.good \/ Faulty(bl)

\* The bootloader never starts firmware that is not whole, unless an update was
\* stopped: while it was written, or between its bad verdict and the erase of its
\* first page.  An interrupted erase of the old firmware, or a bad image or a
\* fault without a stop, leaves nothing that starts.
WildOnlyIfCut == mode = "wild" => cut

\* The bootloader is lost only by a stop while the main firmware rewrites
\* it, or after three faulty attempts to write a good one: not by a bad
\* image, a host that goes away or a single fault.
BootloaderKept == ~ValidAs(bl, BootImages) => blcut \/ BlExposed
=============================================================================
