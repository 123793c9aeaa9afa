--------------------------- MODULE FirmwareProofs ---------------------------
(***************************************************************************)
(* What the two update programs promise.  FwUpdate, for flash of any size, *)
(* any images and any number of power cuts and faults: firmware that is    *)
(* not whole is started only if its writing was stopped, the bootloader is *)
(* lost only while it is rewritten, and the verdict given to the host is   *)
(* true.  Blinky, for every chip: what its LED says of the chip.           *)
(***************************************************************************)
EXTENDS FwUpdate, SequenceTheorems, TLAPS

-----------------------------------------------------------------------------
(* Control: which operation runs in which mode and state.                  *)

Erasing == op[1] = "erase"
Writing == op[1] = "write"
Updating == mode = "boot" /\ st = "update"

\* An operation on flash belongs to one program and state, and its image to
\* one set of images.
Control ==
  /\ Erasing => /\ mode = "boot" /\ st = "command" /\ op[2] \in Nat \ {0}
                /\ upd.img \in MainImages /\ upd.img.len % 4 = 0
                /\ op[3] = "prep" => upd.cur = 0 /\ upd.sent = 0
  /\ Writing => Updating /\ op[2] \in Nat /\ upd.img.len > 0
  /\ Updating => /\ upd.img \in MainImages /\ upd.img.len % 4 = 0
                 /\ upd.sent \in Nat
  /\ BlExposed => mode = "main" /\ st = "update" /\ upd.img.good
  /\ mode = "main" /\ st = "update" => upd.img \in BootImages

-----------------------------------------------------------------------------
(* The invariant.                                                          *)

\* Firmware is whole, or does not look like firmware, or is being written.
FwKept ==
  \/ cut
  \/ FirstWordErased
  \/ ValidAs(fw, MainImages)
  \/ Exposed /\ upd.img.len > 0

\* The first halfword is written first and erased first.
WrittenFirst ==
  Updating /\ (upd.cur # 0 \/ (Writing /\ op[2] > 0)) => fw[1] # Erased
ErasedFirst == Erasing /\ op[2] > 1 => FirstWordErased

IInv == /\ DOMAIN fw = 1..FwSz /\ Control
        /\ FwKept /\ WrittenFirst /\ ErasedFirst
        /\ WildOnlyIfCut /\ BootloaderKept

\* A good image, written from the start of a large enough area, is valid there.
LEMMA WrittenHolds ==
  ASSUME NEW i, NEW n \in Nat, i.len \in Nat, i.len <= 2 * n, i.good, i.len > 0
  PROVE  CrcGood(Written(i, n), i)
<1>1. Len(Written(i, n)) = n
  <2>1. Written(i, n) \in Seq(UNION {{Written(i, n)[j]} : j \in 1..n})
    BY DEF Written
  <2>2. DOMAIN Written(i, n) = 1..n
    BY DEF Written
  <2>3. QED
    BY <2>1, <2>2
<1>2. ASSUME NEW j \in 1..(i.len \div 2) PROVE Written(i, n)[j] = Halfword(i, j)
  <2>1. j \in 1..n /\ 2*j <= i.len
    OBVIOUS
  <2>2. QED
    BY <2>1 DEF Written
<1>3. QED
  BY <1>1, <1>2 DEF CrcGood, Holds, Fits

\* Both images are whole at the start, and nothing is under way.
LEMMA InitIInv == Init => IInv
<1> SUFFICES ASSUME Init PROVE IInv
  OBVIOUS
<1>1. /\ mode = "main" /\ st = "command" /\ op = <<"none">>
  BY DEF Init
<1>2. PICK i \in Sound(MainImages, FwSz) : fw = Written(i, FwSz)
  BY DEF Init
<1>3. PICK b \in Sound(BootImages, BlSz) : bl = Written(b, BlSz)
  BY DEF Init
<1>4. CrcGood(fw, i)
  BY <1>2, WrittenHolds, ImagesAssumption, FlashAssumption DEF Sound
<1>5. CrcGood(bl, b)
  BY <1>3, WrittenHolds, ImagesAssumption, FlashAssumption DEF Sound
<1>6. FwKept /\ BootloaderKept /\ WildOnlyIfCut
  <2>1. i \in MainImages /\ b \in BootImages
    BY DEF Sound
  <2>2. QED
    BY <1>1, <1>4, <1>5, <2>1 DEF FwKept, BootloaderKept, ValidAs, WildOnlyIfCut
<1>7. Control /\ WrittenFirst /\ ErasedFirst
  BY <1>1 DEF Control, WrittenFirst, ErasedFirst, Erasing, Writing, Updating, BlExposed
<1>8. DOMAIN fw = 1..FwSz
  BY <1>2 DEF Written
<1>9. QED
  BY <1>6, <1>7, <1>8 DEF IInv

\* A start, a power cycle, or a reset of the bus ends what was under way.
LEMMA StopsIInv ==
  ASSUME IInv, op' = <<"none">>, st' # "update", UNCHANGED <<fw, bl>>,
         (cut' <=> cut \/ Exposed), (blcut' <=> blcut \/ BlExposed),
         mode' # "wild" \/ mode' = mode \/ (~FirstWordErased /\ ~ValidAs(fw, MainImages))
  PROVE  IInv'
<1>1. Control' /\ WrittenFirst' /\ ErasedFirst'
  BY DEF Control, Erasing, Writing, Updating, BlExposed, WrittenFirst, ErasedFirst
<1>2. FwKept' /\ (cut => cut')
  BY DEF IInv, FwKept, FirstWordErased, ValidAs, CrcGood, Holds, Fits
<1>3. WildOnlyIfCut'
  BY <1>2 DEF IInv, WildOnlyIfCut, FwKept
<1>4. BootloaderKept'
  BY DEF IInv, BootloaderKept, ValidAs, CrcGood, Holds, Fits
<1>5. QED
  BY <1>1, <1>2, <1>3, <1>4 DEF IInv

\* Starting up, whatever the strap says.
LEMMA BootIInv ==
  ASSUME IInv, NEW s \in BOOLEAN, PowerCycle(s) \/ Switch(s) \/ SystemReset(s)
  PROVE  IInv'
<1>1. Boot(s) /\ UNCHANGED <<fw, bl>>
  BY DEF PowerCycle, Switch, SystemReset
<1>2. /\ op' = <<"none">> /\ st' # "update"
      /\ mode' # "wild" \/ (~FirstWordErased /\ ~ValidAs(fw, MainImages))
  BY <1>1 DEF Boot
<1>3. (cut' <=> cut \/ Exposed) /\ (blcut' <=> blcut \/ BlExposed)
  <2>1. CASE PowerCycle(s)
    BY <2>1 DEF PowerCycle, Stops
  <2>2. CASE Switch(s)
    <3>1. ~Exposed /\ ~BlExposed
      BY <2>2 DEF Switch, Exposed, BlExposed
    <3>2. QED
      BY <2>2, <3>1 DEF Switch
  <2>3. CASE SystemReset(s)
    <3>1. ~Exposed /\ ~BlExposed
      BY <2>3 DEF SystemReset, Exposed, BlExposed, IInv, Control, Erasing
    <3>2. QED
      BY <2>3, <3>1 DEF SystemReset
  <2>4. QED
    BY <2>1, <2>2, <2>3
<1>4. QED
  BY <1>1, <1>2, <1>3, StopsIInv

\* A reset or a configuration by the USB host.
LEMMA UsbIInv ==
  ASSUME IInv, Reset \/ Configure
  PROVE  IInv'
<1>1. /\ op' = <<"none">> /\ st' # "update" /\ UNCHANGED <<fw, bl, mode>>
      /\ (cut' <=> cut \/ Exposed) /\ (blcut' <=> blcut \/ BlExposed)
  BY DEF Reset, Configure, Stops
<1>2. QED
  BY <1>1, StopsIInv

-----------------------------------------------------------------------------
(* Steps that leave the flash alone.                                       *)

\* Nothing that the invariant looks at changes.
LEMMA IdleIInv ==
  ASSUME IInv, UNCHANGED <<fw, bl, st, mode, op, upd, cut, blcut>>
  PROVE  IInv'
BY DEF IInv, Control, Erasing, Writing, Updating, FwKept, FirstWordErased,
       Exposed, ValidAs, CrcGood, Holds, Fits, WrittenFirst, ErasedFirst,
       WildOnlyIfCut, BootloaderKept, BlExposed

\* As long as no operation is begun in state "update" of the bootloader, and the
\* bootloader is not being rewritten, control is all there is to show.
LEMMA QuietIInv ==
  ASSUME IInv, Control', ~Exposed, ~BlExposed, UNCHANGED <<fw, bl, cut, blcut>>,
         mode' # "wild", Updating' => upd'.cur = 0 /\ ~Writing',
         Erasing' => op'[2] = 1
  PROVE  IInv'
<1>1. FwKept' /\ BootloaderKept'
  BY DEF IInv, FwKept, BootloaderKept, FirstWordErased, ValidAs, CrcGood, Holds, Fits
<1>2. WrittenFirst' /\ ErasedFirst' /\ WildOnlyIfCut'
  BY DEF WrittenFirst, ErasedFirst, WildOnlyIfCut
<1>3. QED
  BY <1>1, <1>2 DEF IInv

\* The three commands.
LEMMA CommandIInv ==
  ASSUME IInv,
         \/ SwitchToBoot
         \/ \E img \in MainImages : CmdUpdate(img)
         \/ \E img \in BootImages : CmdUpdateBootloader(img)
  PROVE  IInv'
<1>1. CASE SwitchToBoot
  <2>1. Control'
    BY <1>1 DEF SwitchToBoot, Control, Erasing, Writing, Updating, BlExposed
  <2>2. ~Exposed /\ ~BlExposed
    BY <1>1 DEF SwitchToBoot, Exposed, BlExposed
  <2>3. QED
    BY <1>1, <2>1, <2>2, QuietIInv DEF SwitchToBoot, Updating, Erasing
<1>2. ASSUME NEW img \in MainImages, CmdUpdate(img) PROVE IInv'
  <2>1. CASE img.len % 4 # 0 \/ ~Fits(fw, img)
    BY <1>2, <2>1, IdleIInv DEF CmdUpdate
  <2>2. CASE ~(img.len % 4 # 0 \/ ~Fits(fw, img))
    <3>1. /\ op' = <<"erase", 1, "prep">> /\ upd' = [NoUpdate EXCEPT !.img = img]
          /\ mode = "boot" /\ st = "command" /\ op = <<"none">>
          /\ UNCHANGED <<mode, st, fw, bl, cut, blcut>> /\ img.len % 4 = 0
      BY <1>2, <2>2 DEF CmdUpdate
    <3>2. upd'.img = img /\ upd'.cur = 0 /\ upd'.sent = 0
      BY <3>1 DEF NoUpdate
    <3>3. Control' /\ ~Exposed /\ ~BlExposed
      BY <3>1, <3>2 DEF Control, Erasing, Writing, Updating, Exposed, BlExposed
    <3>4. QED
      BY <3>1, <3>3, QuietIInv DEF Updating
  <2>3. QED
    BY <2>1, <2>2
<1>3. ASSUME NEW img \in BootImages, CmdUpdateBootloader(img) PROVE IInv'
  <2>1. CASE UNCHANGED <<st, upd>> /\ tx' \in {"bad_command", "out_of_sram"}
    BY <1>3, <2>1, IdleIInv DEF CmdUpdateBootloader
  <2>2. CASE ~(UNCHANGED <<st, upd>> /\ tx' \in {"bad_command", "out_of_sram"})
    <3>1. /\ st' = "update" /\ upd' = [NoUpdate EXCEPT !.img = img]
          /\ mode = "main" /\ st = "command" /\ op = <<"none">>
          /\ UNCHANGED <<mode, op, fw, bl, cut, blcut>>
      BY <1>3, <2>2 DEF CmdUpdateBootloader
    <3>2. upd'.img = img
      BY <3>1 DEF NoUpdate
    <3>3. Control' /\ ~Exposed /\ ~BlExposed
      BY <3>1, <3>2 DEF Control, Erasing, Writing, Updating, Exposed, BlExposed
    <3>4. QED
      BY <3>1, <3>3, QuietIInv DEF Updating, Erasing
  <2>3. QED
    BY <2>1, <2>2
<1>4. QED
  BY <1>1, <1>2, <1>3

\* A packet of the image, in either program.
LEMMA ReceiveIInv ==
  ASSUME IInv, NEW n \in 1..MaxPacket, UpdateReceive(n) \/ BlReceive(n)
  PROVE  IInv'
<1>1. /\ upd' = [upd EXCEPT !.buf = Received(n), !.sent = @ + n]
      /\ st = "update" /\ op = <<"none">> /\ n <= upd.img.len - upd.sent
      /\ UNCHANGED <<fw, bl, st, mode, cut, blcut>>
  <2>1. CASE UpdateReceive(n)
    BY <2>1 DEF UpdateReceive, Arrives
  <2>2. CASE BlReceive(n)
    BY <2>2 DEF BlReceive, Arrives
  <2>3. QED
    BY <2>1, <2>2
<1>2. CASE UpdateReceive(n)
  <2>1. /\ mode = "boot" /\ op' \in {<<"write", 0>>, <<"none">>}
    BY <1>2 DEF UpdateReceive
  <2>2. /\ upd.img \in MainImages /\ upd.img.len \in Nat /\ upd.img.len % 4 = 0
        /\ upd.sent \in Nat
    BY <1>1, <2>1, ImagesAssumption DEF IInv, Control, Updating
  <2>3. upd.img.len > 0 /\ upd'.sent \in Nat
    BY <1>1, <2>2
  <2>4. Control'
    BY <1>1, <2>1, <2>2, <2>3 DEF Control, Erasing, Writing, Updating, BlExposed
  <2>5. FwKept' /\ BootloaderKept'
    BY <1>1, <2>1 DEF IInv, FwKept, BootloaderKept, FirstWordErased, Exposed,
                      BlExposed, ValidAs, CrcGood, Holds, Fits
  <2>6. WrittenFirst' /\ ErasedFirst' /\ WildOnlyIfCut'
    BY <1>1, <2>1 DEF IInv, WrittenFirst, ErasedFirst, WildOnlyIfCut, Updating,
                      Writing, Erasing
  <2>7. QED
    BY <1>1, <2>4, <2>5, <2>6 DEF IInv
<1>3. CASE BlReceive(n)
  <2>1. mode = "main" /\ op' = op
    BY <1>3 DEF BlReceive
  <2>2. Control' /\ ~Exposed /\ ~BlExposed
    BY <1>1, <2>1 DEF IInv, Control, Erasing, Writing, Updating, Exposed, BlExposed
  <2>3. QED
    BY <1>1, <2>1, <2>2, QuietIInv DEF Updating, Erasing
<1>4. QED
  BY <1>2, <1>3

-----------------------------------------------------------------------------
(* The main firmware is erased and written.                                *)

\* The first page holds the first word, and an image has at least a page.
LEMMA FirstPage ==
  /\ (1 - 1) \div PageSz = 0 /\ (2 - 1) \div PageSz = 0
  /\ \A n \in Nat : n > 0 => Pages(n) >= 1
<1>1. PageSz \in Nat /\ PageSz >= 2
  BY FlashAssumption
<1>2. QED
  BY <1>1 DEF Pages

\* Erasing a page leaves halfwords as they are or erased.
LEMMA ErasePageOnly ==
  ASSUME NEW area, NEW p
  PROVE  /\ DOMAIN ErasePage(area, p) = DOMAIN area
         /\ \A j \in DOMAIN area : ErasePage(area, p)[j] \in {area[j], Erased}
         /\ \A j \in DOMAIN area :
              (j - 1) \div PageSz = p - 1 => ErasePage(area, p)[j] = Erased
BY DEF ErasePage

\* The page with the first word goes first; when the erase ends it is gone.
LEMMA EraseIInv ==
  ASSUME IInv, EraseOldFirmware
  PROVE  IInv'
<1>1. /\ op[1] = "erase" /\ mode = "boot" /\ mode' = "boot" /\ st = "command"
      /\ op[2] \in Nat \ {0} /\ upd.img \in MainImages /\ upd.img.len % 4 = 0
      /\ upd.img.len \in Nat /\ UNCHANGED <<bl, upd, blcut>> /\ ~BlExposed
  BY ImagesAssumption DEF IInv, Control, Erasing, EraseOldFirmware, BlExposed
<1>2. 1 \in DOMAIN fw /\ 2 \in DOMAIN fw
  BY FlashAssumption DEF IInv
<1>3. CASE op[2] <= Pages(upd.img.len \div 2)
  <2>1. /\ fw' = ErasePage(fw, op[2]) /\ op' = <<"erase", op[2] + 1, op[3]>>
        /\ UNCHANGED <<st, cut>>
    BY <1>3 DEF EraseOldFirmware, Erases
  <2>2. FirstWordErased'
    <3>1. CASE op[2] = 1
      BY <1>2, <2>1, <3>1, FirstPage, ErasePageOnly DEF FirstWordErased
    <3>2. CASE op[2] > 1
      <4>1. fw[1] = Erased /\ fw[2] = Erased
        BY <1>1, <3>2 DEF IInv, ErasedFirst, Erasing, FirstWordErased
      <4>2. QED
        BY <1>2, <2>1, <4>1, ErasePageOnly DEF FirstWordErased
    <3>3. QED
      BY <1>1, <3>1, <3>2
  <2>3. op'[1] = "erase" /\ op'[2] = op[2] + 1 /\ op'[3] = op[3]
    BY <2>1
  <2>4. Control'
    BY <1>1, <2>1, <2>3 DEF IInv, Control, Erasing, Writing, Updating, BlExposed
  <2>5. BootloaderKept' /\ DOMAIN fw' = 1..FwSz
    BY <1>1, <2>1, ErasePageOnly DEF IInv, BootloaderKept, ValidAs, CrcGood, Holds, Fits
  <2>6. WildOnlyIfCut' /\ WrittenFirst' /\ ErasedFirst' /\ FwKept'
    BY <1>1, <2>1, <2>2 DEF WildOnlyIfCut, WrittenFirst, ErasedFirst, FwKept, Updating
  <2>7. QED
    BY <2>4, <2>5, <2>6 DEF IInv
<1>4. CASE ~(op[2] <= Pages(upd.img.len \div 2))
  <2>1. /\ op' = <<"none">> /\ UNCHANGED fw
        /\ \/ op[3] = "prep" /\ st' = "update" /\ (cut' <=> cut /\ upd.img.len = 0)
           \/ UNCHANGED <<st, cut>>
    BY <1>4 DEF EraseOldFirmware
  <2>2. op[3] = "prep" => upd.cur = 0 /\ upd.sent = 0
    BY <1>1 DEF IInv, Control, Erasing
  <2>3. upd.img.len > 0 => FirstWordErased
    <3>1. ASSUME upd.img.len > 0 PROVE op[2] > 1
      <4>1. upd.img.len \div 2 \in Nat /\ upd.img.len \div 2 > 0
        BY <1>1, <3>1
      <4>2. Pages(upd.img.len \div 2) >= 1 /\ Pages(upd.img.len \div 2) \in Int
        BY <4>1, FirstPage, FlashAssumption DEF Pages
      <4>3. QED
        BY <1>1, <1>4, <4>2
    <3>2. QED
      BY <1>1, <3>1 DEF IInv, ErasedFirst, Erasing
  <2>4. Control'
    BY <1>1, <2>1, <2>2 DEF Control, Erasing, Writing, Updating, BlExposed
  <2>5. FwKept'
    <3>1. CASE upd.img.len > 0
      BY <2>1, <2>3, <3>1 DEF FwKept, FirstWordErased
    <3>2. CASE upd.img.len = 0
      BY <1>1, <2>1, <3>2
      DEF IInv, FwKept, FirstWordErased, ValidAs, CrcGood, Holds, Fits
    <3>3. QED
      BY <1>1, <3>1, <3>2
  <2>6. BootloaderKept' /\ DOMAIN fw' = 1..FwSz
    BY <1>1, <2>1 DEF IInv, BootloaderKept, ValidAs, CrcGood, Holds, Fits
  <2>7. WildOnlyIfCut' /\ WrittenFirst' /\ ErasedFirst'
    BY <1>1, <2>1, <2>2 DEF WildOnlyIfCut, WrittenFirst, ErasedFirst, Updating,
                            Erasing, Writing
  <2>8. QED
    BY <2>4, <2>5, <2>6, <2>7 DEF IInv
<1>5. QED
  BY <1>3, <1>4

\* The first halfword is the first to be written.
LEMMA WriteIInv ==
  ASSUME IInv, UpdateWrite
  PROVE  IInv'
<1> DEFINE j == upd.cur \div 2 + op[2] + 1
<1>1. /\ op[1] = "write" /\ mode = "boot" /\ st = "update" /\ op[2] \in Nat
      /\ upd.img \in MainImages /\ upd.img.len % 4 = 0 /\ upd.img.len > 0
      /\ upd.sent \in Nat
      /\ UNCHANGED <<bl, mode, st, cut, blcut>> /\ ~BlExposed
  BY DEF IInv, Control, Writing, Updating, UpdateWrite, BlExposed
<1>2. PICK bytes \in Outcomes(<<upd.buf[2*op[2] + 1], upd.buf[2*op[2] + 2]>>) :
        fw' = Program(fw, j, bytes)
  BY DEF UpdateWrite
<1>3. bytes # Erased
  BY DEF Outcomes, Wrong, Erased
<1>4. 1 \in DOMAIN fw
  BY FlashAssumption DEF IInv
<1>5. DOMAIN fw' = 1..FwSz /\ (fw[1] # Erased => fw'[1] # Erased)
  BY <1>2, <1>3, <1>4 DEF IInv, Program
<1>6. fw'[1] # Erased
  <2>1. CASE upd.cur # 0 \/ op[2] > 0
    BY <1>1, <1>5, <2>1 DEF IInv, WrittenFirst, Updating, Writing
  <2>2. CASE upd.cur = 0 /\ op[2] = 0
    <3>1. j = 1
      BY <2>2
    <3>2. QED
      BY <1>2, <1>3, <1>4, <1>5, <3>1 DEF Program
  <2>3. QED
    BY <1>1, <2>1, <2>2
<1>7. \/ op'[1] = "write" /\ op'[2] = op[2] + 1
      \/ op'[1] = "none"
  <2>1. op' = <<"write", op[2] + 1>> \/ op' = <<"none">>
    BY DEF UpdateWrite
  <2>2. QED
    BY <2>1
<1>8. upd'.img = upd.img /\ upd'.sent = upd.sent
  <2>1. CASE UNCHANGED upd
    BY <2>1
  <2>2. CASE ~UNCHANGED upd
    <3>1. upd' = [upd EXCEPT !.cur = @ + 2 * (Len(upd.buf) \div 2),
                             !.buf = Left(2 * (Len(upd.buf) \div 2))]
      BY <2>2 DEF UpdateWrite
    <3>2. QED
      BY <3>1
  <2>3. QED
    BY <2>1, <2>2
<1>9. Control' /\ ~Erasing' /\ upd'.img.len > 0
  BY <1>1, <1>7, <1>8 DEF Control, Erasing, Writing, Updating, BlExposed
<1>10. FwKept' /\ WrittenFirst' /\ ErasedFirst' /\ WildOnlyIfCut'
  BY <1>1, <1>6, <1>9 DEF FwKept, Exposed, WrittenFirst, ErasedFirst, WildOnlyIfCut
<1>11. BootloaderKept'
  BY <1>1 DEF IInv, BootloaderKept, ValidAs, CrcGood, Holds, Fits
<1>12. QED
  BY <1>5, <1>9, <1>10, <1>11 DEF IInv

\* What is written is checked: good firmware is whole, bad firmware is erased.
LEMMA EndIInv ==
  ASSUME IInv, UpdateEnd
  PROVE  IInv'
<1>1. /\ mode = "boot" /\ st = "update" /\ op = <<"none">> /\ st' = "command"
      /\ upd' = [upd EXCEPT !.buf = <<>>]
      /\ UNCHANGED <<fw, bl, mode, cut, blcut>>
  BY DEF UpdateEnd
<1>2. /\ upd.img \in MainImages /\ upd.img.len % 4 = 0 /\ upd.img.len \in Nat
      /\ upd'.img = upd.img
  BY <1>1, ImagesAssumption DEF IInv, Control, Updating
<1>3. CASE CrcGood(fw, upd.img)
  <2>1. UNCHANGED op
    BY <1>3 DEF UpdateEnd
  <2>2. ValidAs(fw, MainImages)'
    BY <1>1, <1>2, <1>3 DEF ValidAs, CrcGood, Holds, Fits
  <2>3. Control' /\ FwKept' /\ WrittenFirst' /\ ErasedFirst' /\ WildOnlyIfCut'
    BY <1>1, <2>1, <2>2 DEF Control, Erasing, Writing, Updating, BlExposed, FwKept,
                            WrittenFirst, ErasedFirst, WildOnlyIfCut
  <2>4. BootloaderKept' /\ DOMAIN fw' = 1..FwSz
    BY <1>1, <2>1 DEF IInv, BootloaderKept, BlExposed, ValidAs, CrcGood, Holds, Fits
  <2>5. QED
    BY <2>3, <2>4 DEF IInv
<1>4. CASE ~CrcGood(fw, upd.img)
  <2>1. op' = <<"erase", 1, "failed">>
    BY <1>4 DEF UpdateEnd
  <2>2. op'[1] = "erase" /\ op'[2] = 1 /\ op'[3] = "failed"
    BY <2>1
  <2>3. Control' /\ WrittenFirst' /\ ErasedFirst' /\ WildOnlyIfCut'
    BY <1>1, <1>2, <2>2 DEF Control, Erasing, Writing, Updating, BlExposed,
                            WrittenFirst, ErasedFirst, WildOnlyIfCut
  <2>4. FwKept'
    <3>1. CASE upd.img.len > 0
      BY <1>2, <2>1, <3>1 DEF FwKept, Exposed
    <3>2. CASE upd.img.len = 0
      BY <1>1, <3>2 DEF IInv, FwKept, FirstWordErased, ValidAs, CrcGood, Holds, Fits
    <3>3. QED
      BY <1>2, <3>1, <3>2
  <2>5. BootloaderKept' /\ DOMAIN fw' = 1..FwSz
    BY <1>1 DEF IInv, BootloaderKept, BlExposed, ValidAs, CrcGood, Holds, Fits
  <2>6. QED
    BY <2>3, <2>4, <2>5 DEF IInv
<1>5. QED
  BY <1>3, <1>4

-----------------------------------------------------------------------------
(* The bootloader is erased and written.                                   *)

\* While the bootloader is rewritten with a good image, the main firmware is
\* left as it is.
LEMMA RewriteIInv ==
  ASSUME IInv, BlExposed', mode = "main", st = "update", upd.img.good,
         ~Exposed, upd'.img = upd.img, UNCHANGED <<fw, mode, st, cut>>
  PROVE  IInv'
<1>1. ~Erasing' /\ ~Writing' /\ ~Updating' /\ upd.img \in BootImages
  BY DEF IInv, Control, Erasing, Writing, Updating, BlExposed
<1>2. Control'
  BY <1>1 DEF Control, BlExposed
<1>3. FwKept' /\ WrittenFirst' /\ ErasedFirst' /\ WildOnlyIfCut'
  BY <1>1 DEF IInv, FwKept, FirstWordErased, ValidAs, CrcGood, Holds, Fits,
              WrittenFirst, ErasedFirst, WildOnlyIfCut
<1>4. BootloaderKept' /\ DOMAIN fw' = 1..FwSz
  BY DEF IInv, BootloaderKept
<1>5. QED
  BY <1>2, <1>3, <1>4 DEF IInv

\* Only a good image is written; it is given up only as blcut records.
LEMMA BootloaderIInv ==
  ASSUME IInv, BlReceived \/ EraseOldBootloader \/ BlWrite \/ BlVerify
  PROVE  IInv'
<1>1. CASE BlReceived
  <2>1. /\ mode = "main" /\ st = "update" /\ op = <<"none">>
        /\ UNCHANGED <<fw, bl, mode, upd, cut, blcut>> /\ ~Exposed /\ ~BlExposed
    BY <1>1 DEF BlReceived, Exposed, BlExposed
  <2>2. CASE Accept
    BY <1>1, <2>1, <2>2, RewriteIInv DEF BlReceived, Accept, BlExposed
  <2>3. CASE ~Accept
    <3>1. st' = "command" /\ UNCHANGED op
      BY <1>1, <2>3 DEF BlReceived
    <3>2. Control'
      BY <2>1, <3>1 DEF Control, Erasing, Writing, Updating, BlExposed
    <3>3. QED
      BY <2>1, <3>1, <3>2, QuietIInv DEF Updating, Erasing
  <2>4. QED
    BY <2>2, <2>3
<1>2. ASSUME EraseOldBootloader \/ BlWrite \/ BlVerify
      PROVE  /\ BlExposed /\ mode = "main" /\ st = "update" /\ upd.img.good
             /\ upd.img \in BootImages /\ ~Exposed
  <2>1. BlExposed
    BY <1>2 DEF EraseOldBootloader, BlWrite, BlVerify, BlExposed
  <2>2. QED
    BY <2>1 DEF IInv, Control, BlExposed, Exposed
<1>3. CASE EraseOldBootloader \/ BlWrite
  <2>1. BlExposed' /\ UNCHANGED <<fw, mode, st, upd, cut>>
    <3>1. CASE EraseOldBootloader
      BY <3>1 DEF EraseOldBootloader, BlExposed
    <3>2. CASE BlWrite
      BY <3>2 DEF BlWrite, BlExposed
    <3>3. QED
      BY <1>3, <3>1, <3>2
  <2>2. QED
    BY <1>2, <1>3, <2>1, RewriteIInv
<1>4. CASE BlVerify
  <2>1. CASE CrcGood(bl, upd.img) \/ upd.retry = 2
    <3>1. /\ op' = <<"none">> /\ st' # "update"
          /\ UNCHANGED <<fw, bl, mode, cut>>
          /\ (blcut' <=> blcut \/ (~CrcGood(bl, upd.img) /\ upd.img.good))
      BY <1>4, <2>1 DEF BlVerify
    <3>2. ValidAs(bl, BootImages)' \/ blcut'
      BY <1>2, <1>4, <3>1 DEF ValidAs, CrcGood, Holds, Fits
    <3>3. Control' /\ WrittenFirst' /\ ErasedFirst' /\ WildOnlyIfCut'
      BY <1>2, <1>4, <3>1 DEF Control, Erasing, Writing, Updating, BlExposed,
                              WrittenFirst, ErasedFirst, WildOnlyIfCut
    <3>4. FwKept' /\ BootloaderKept' /\ DOMAIN fw' = 1..FwSz
      BY <1>2, <1>4, <3>1, <3>2
      DEF IInv, FwKept, BootloaderKept, FirstWordErased, ValidAs, CrcGood, Holds, Fits
    <3>5. QED
      BY <3>3, <3>4 DEF IInv
  <2>2. CASE ~(CrcGood(bl, upd.img) \/ upd.retry = 2)
    <3>1. /\ op' = <<"bl_erase", 1>> /\ upd' = [upd EXCEPT !.retry = @ + 1]
          /\ UNCHANGED <<fw, mode, st, cut>>
      BY <1>4, <2>2 DEF BlVerify
    <3>2. BlExposed' /\ upd'.img = upd.img
      BY <3>1 DEF BlExposed
    <3>3. QED
      BY <1>2, <1>4, <3>1, <3>2, RewriteIInv
  <2>3. QED
    BY <2>1, <2>2
<1>5. QED
  BY <1>1, <1>3, <1>4

-----------------------------------------------------------------------------
(* Theorems.                                                               *)

\* Every step keeps the invariant.
LEMMA NextIInv == IInv /\ [Next]_vars => IInv'
<1> SUFFICES ASSUME IInv, [Next]_vars PROVE IInv'
  OBVIOUS
<1>1. CASE Firmware
  BY <1>1, EraseIInv, WriteIInv, EndIInv, BootloaderIInv, BootIInv DEF Firmware
<1>2. CASE Packet
  BY <1>2, ReceiveIInv DEF Packet
<1>3. CASE HostTakesResponse
  BY <1>3, IdleIInv DEF HostTakesResponse
<1>4. CASE \/ \E img \in MainImages : CmdUpdate(img)
           \/ \E img \in BootImages : CmdUpdateBootloader(img)
           \/ SwitchToBoot
  BY <1>4, CommandIInv
<1>5. CASE \E s \in BOOLEAN : PowerCycle(s) \/ Switch(s)
  BY <1>5, BootIInv
<1>6. CASE Reset \/ Configure
  BY <1>6, UsbIInv
<1>7. CASE UNCHANGED vars
  BY <1>7, IdleIInv DEF vars
<1>8. QED
  BY <1>1, <1>2, <1>3, <1>4, <1>5, <1>6, <1>7 DEF Next

\* The invariant holds whatever is cut, stopped or faulty.
LEMMA Invariance == Spec => []IInv
<1>1. QED
  BY InitIInv, NextIInv, PTL DEF Spec

\* main() of fw_update.c never starts firmware that is not whole unless an
\* update was stopped, in its writing or between its bad verdict and the erase of
\* the first page: an interrupted erase of the old firmware, a bad image and a
\* fault of the flash are all caught by the first word or by the check.
THEOREM FirmwareWholeOrCut == Spec => []WildOnlyIfCut
<1>1. IInv => WildOnlyIfCut
  BY DEF IInv
<1>2. QED
  BY Invariance, <1>1, PTL

\* The main firmware loses the bootloader only to a stop while it rewrites it,
\* or when it gives up writing a good one.
THEOREM BootloaderWholeOrCut == Spec => []BootloaderKept
<1>1. IInv => BootloaderKept
  BY DEF IInv
<1>2. QED
  BY Invariance, <1>1, PTL

-----------------------------------------------------------------------------
(* The verdict: what is in flash, in the buffer and still to come.         *)

IsArea(area, n) == DOMAIN area = 1..n /\ area = [j \in 1..n |-> area[j]]

\* u_buf[] holds the bytes of the image from update.cur on, as far as sent.
Buffered ==
  /\ upd.cur \in Nat /\ upd.sent \in upd.cur..upd.img.len
  /\ upd.buf = [i \in 1..(upd.sent - upd.cur) |-> Byte(upd.img, upd.cur + i)]

\* The first n halfwords of an image were programmed, the others are erased.
Programmed(area, img, n) ==
  \A j \in 1..(img.len \div 2) :
    IF j <= n THEN area[j] \in {Halfword(img, j), Wrong} ELSE area[j] = Erased

\* The pages before page p are erased.
ErasedBelow(area, p) ==
  \A j \in DOMAIN area : (j - 1) \div PageSz < p - 1 => area[j] = Erased

\* An update of the main firmware.
Streamed ==
  /\ Erasing /\ op[3] = "prep" =>
       Fits(fw, upd.img) /\ ErasedBelow(fw, op[2]) /\ upd.buf = <<>>
  /\ Updating =>
       /\ Fits(fw, upd.img) /\ Buffered /\ upd.cur % 2 = 0
       /\ Programmed(fw, upd.img, upd.cur \div 2 + (IF Writing THEN op[2] ELSE 0))
       /\ Writing => op[2] < (upd.sent - upd.cur) \div 2

\* An update of the bootloader.
Replaced ==
  mode = "main" /\ st = "update" =>
    /\ Fits(bl, upd.img) /\ upd.img.len % 4 = 0 /\ Buffered /\ upd.cur = 0
    /\ BlExposed => upd.sent = upd.img.len /\ upd.img.len > 0
    /\ op[1] = "bl_erase" => op[2] \in 1..Pages(BlSz) /\ ErasedBelow(bl, op[2])
    /\ op[1] = "bl_write" => /\ op[2] \in Nat /\ op[2] < upd.img.len \div 2
                             /\ Programmed(bl, upd.img, op[2])
    /\ op[1] = "bl_verify" => Programmed(bl, upd.img, upd.img.len \div 2)

\* Nothing happens between the verdict and its arrival.
Answered ==
  tx = "good" \/ (mode = "main" /\ tx = "fail") => st = "command" /\ op = <<"none">>

VInv == /\ IsArea(fw, FwSz) /\ IsArea(bl, BlSz)
        /\ Streamed /\ Replaced /\ Answered /\ VerdictTrue

\* An area has as many halfwords as it is long.
LEMMA AreaLen ==
  ASSUME NEW n \in Nat, NEW area, IsArea(area, n)
  PROVE  Len(area) = n
<1>1. area \in [1..n -> {area[j] : j \in 1..n}]
  BY DEF IsArea
<1>2. area \in Seq({area[j] : j \in 1..n})
  BY <1>1
<1>3. QED
  BY <1>2, LenProperties DEF IsArea

\* The flash controller leaves an area its halfwords.
LEMMA AreaKept ==
  ASSUME NEW n \in Nat, NEW area, IsArea(area, n)
  PROVE  /\ \A p : IsArea(ErasePage(area, p), n)
         /\ \A j, bytes : IsArea(Program(area, j, bytes), n)
BY DEF IsArea, ErasePage, Program

\* What fits an area fits another of the same size.
LEMMA FitsKept ==
  ASSUME NEW n \in Nat, NEW a, NEW b, NEW img, IsArea(a, n), IsArea(b, n), Fits(a, img)
  PROVE  Fits(b, img)
BY AreaLen DEF Fits

\* An image all of whose halfwords were programmed is whole, or one is faulty.
LEMMA AllProgrammed ==
  ASSUME NEW n \in Nat, NEW area, IsArea(area, n), NEW img, img.len \in Nat,
         Fits(area, img), Programmed(area, img, img.len \div 2),
         img.good, img.len > 0, ~CrcGood(area, img)
  PROVE  Faulty(area)
<1>1. PICK j \in 1..(img.len \div 2) : area[j] # Halfword(img, j)
  BY DEF CrcGood, Holds
<1>2. area[j] = Wrong
  BY <1>1 DEF Programmed
<1>3. j \in 1..n
  BY AreaLen DEF Fits
<1>4. QED
  BY <1>2, <1>3 DEF Faulty, IsArea

\* Programming the next halfword.
LEMMA ProgramNext ==
  ASSUME NEW area, NEW n \in Nat, IsArea(area, n), NEW img, img.len \in Nat,
         Fits(area, img), NEW k \in Nat, k < img.len \div 2,
         Programmed(area, img, k), NEW bytes, bytes \in {Halfword(img, k + 1), Wrong}
  PROVE  Programmed(Program(area, k + 1, bytes), img, k + 1)
<1>1. k + 1 \in 1..(img.len \div 2) /\ area[k + 1] = Erased
  BY DEF Programmed
<1>2. k + 1 \in DOMAIN area
  BY <1>1, AreaLen DEF Fits, IsArea
<1>3. Program(area, k + 1, bytes) = [area EXCEPT ![k + 1] = bytes]
  BY <1>1 DEF Program
<1>4. ASSUME NEW j \in 1..(img.len \div 2)
      PROVE  IF j <= k + 1
             THEN [area EXCEPT ![k + 1] = bytes][j] \in {Halfword(img, j), Wrong}
             ELSE [area EXCEPT ![k + 1] = bytes][j] = Erased
  <2>1. j \in DOMAIN area
    BY AreaLen DEF Fits, IsArea
  <2>2. CASE j = k + 1
    BY <1>2, <2>2
  <2>3. CASE j # k + 1
    BY <2>1, <2>3 DEF Programmed
  <2>4. QED
    BY <2>2, <2>3
<1>5. QED
  BY <1>3, <1>4 DEF Programmed

\* Erasing the next page.
LEMMA EraseNext ==
  ASSUME NEW n \in Nat, NEW area, IsArea(area, n), NEW p \in Nat \ {0},
         ErasedBelow(area, p)
  PROVE  ErasedBelow(ErasePage(area, p), p + 1)
<1> SUFFICES ASSUME NEW j \in 1..n, (j - 1) \div PageSz < p
             PROVE  ErasePage(area, p)[j] = Erased
  BY DEF ErasedBelow, ErasePage, IsArea
<1>1. (j - 1) \div PageSz \in Int
  BY FlashAssumption
<1>2. CASE (j - 1) \div PageSz = p - 1
  BY <1>2 DEF ErasePage, IsArea
<1>3. CASE (j - 1) \div PageSz < p - 1
  BY <1>3 DEF ErasePage, IsArea, ErasedBelow
<1>4. QED
  BY <1>1, <1>2, <1>3

\* Nothing has to be erased before the first page, and there is one.
LEMMA FromFirstPage ==
  ASSUME NEW n \in Nat, NEW area, IsArea(area, n)
  PROVE  ErasedBelow(area, 1) /\ 1 \in 1..Pages(BlSz)
<1>1. PageSz \in Nat /\ PageSz > 0 /\ BlSz \in Nat /\ BlSz > 0
  BY FlashAssumption
<1>2. \A j \in 1..n : ~((j - 1) \div PageSz < 1 - 1)
  BY <1>1
<1>3. Pages(BlSz) \in Int /\ Pages(BlSz) >= 1
  BY <1>1, FirstPage DEF Pages
<1>4. QED
  BY <1>2, <1>3 DEF ErasedBelow, IsArea

\* When all pages of an image are erased, none of it is programmed.
LEMMA AllErased ==
  ASSUME NEW n \in Nat, NEW area, IsArea(area, n), NEW img, img.len \in Nat,
         Fits(area, img), NEW p \in Nat, NEW m \in Nat, img.len \div 2 <= m,
         p > Pages(m), ErasedBelow(area, p)
  PROVE  Programmed(area, img, 0)
<1> SUFFICES ASSUME NEW j \in 1..(img.len \div 2) PROVE area[j] = Erased
  BY DEF Programmed
<1>1. j \in DOMAIN area
  BY AreaLen DEF Fits, IsArea
<1>2. PageSz \in Nat /\ PageSz > 0
  BY FlashAssumption
<1>3. (j - 1) \div PageSz < Pages(m)
  BY <1>2 DEF Pages
<1>4. Pages(m) \in Int /\ (j - 1) \div PageSz \in Int
  BY <1>2 DEF Pages
<1>5. QED
  BY <1>1, <1>3, <1>4 DEF ErasedBelow

\* A stretch of an image is a sequence of its bytes.
LEMMA Stretch ==
  ASSUME NEW img, NEW from \in Nat, NEW n \in Nat
  PROVE  /\ [i \in 1..n |-> Byte(img, from + i)] \in Seq({Byte(img, i) : i \in Nat})
         /\ Len([i \in 1..n |-> Byte(img, from + i)]) = n
<1> DEFINE B == {Byte(img, i) : i \in Nat}
           s == [i \in 1..n |-> Byte(img, from + i)]
<1>1. ASSUME NEW i \in 1..n PROVE Byte(img, from + i) \in B
  <2>1. from + i \in Nat
    OBVIOUS
  <2>2. QED
    BY <2>1
<1>2. s \in [1..n -> B]
  <2> HIDE DEF B
  <2>1. QED
    BY <1>1
<1> HIDE DEF B, s
<1>3. s \in Seq(B)
  BY <1>2
<1>4. DOMAIN s = 1..n
  BY <1>2
<1>5. Len(s) = n
  BY <1>3, <1>4, LenProperties
<1>6. QED
  BY <1>3, <1>5 DEF s, B

\* The buffer as a sequence.
LEMMA BufferLen ==
  ASSUME Buffered, upd.img.len \in Nat
  PROVE  /\ upd.buf \in Seq({Byte(upd.img, i) : i \in Nat})
         /\ Len(upd.buf) = upd.sent - upd.cur
         /\ upd.cur \in Nat /\ upd.sent \in Nat /\ upd.sent >= upd.cur
         /\ \A i \in 1..(upd.sent - upd.cur) : upd.buf[i] = Byte(upd.img, upd.cur + i)
<1>1. /\ upd.cur \in Nat /\ upd.sent \in Nat /\ upd.sent >= upd.cur
      /\ upd.sent - upd.cur \in Nat
      /\ upd.buf = [i \in 1..(upd.sent - upd.cur) |-> Byte(upd.img, upd.cur + i)]
  BY DEF Buffered
<1>2. \A i \in 1..(upd.sent - upd.cur) : upd.buf[i] = Byte(upd.img, upd.cur + i)
  BY <1>1
<1>3. upd.buf \in Seq({Byte(upd.img, i) : i \in Nat}) /\ Len(upd.buf) = upd.sent - upd.cur
  <2> DEFINE n == upd.sent - upd.cur
  <2>1. n \in Nat /\ upd.buf = [i \in 1..n |-> Byte(upd.img, upd.cur + i)]
    BY <1>1
  <2> HIDE DEF n
  <2>2. /\ upd.buf \in Seq({Byte(upd.img, i) : i \in Nat}) /\ Len(upd.buf) = n
    BY <1>1, <2>1, Stretch
  <2>3. QED
    BY <2>2 DEF n
<1>4. QED
  BY <1>1, <1>2, <1>3

\* A packet is appended to the buffer.
LEMMA ReceivedBuffer ==
  ASSUME Buffered, upd.img.len \in Nat, NEW n \in Nat
  PROVE  /\ Received(n) = [i \in 1..(upd.sent + n - upd.cur) |-> Byte(upd.img, upd.cur + i)]
         /\ Len(Received(n)) = upd.sent + n - upd.cur
<1> DEFINE B == {Byte(upd.img, i) : i \in Nat}
           have == upd.sent - upd.cur
           new == [k \in 1..n |-> Byte(upd.img, upd.sent + k)]
           all == [i \in 1..(upd.sent + n - upd.cur) |-> Byte(upd.img, upd.cur + i)]
<1>1. /\ upd.buf \in Seq(B) /\ Len(upd.buf) = have
      /\ upd.cur \in Nat /\ upd.sent \in Nat /\ upd.sent >= upd.cur
      /\ \A i \in 1..have : upd.buf[i] = Byte(upd.img, upd.cur + i)
  BY BufferLen
<1>2. new \in Seq(B) /\ Len(new) = n
  BY <1>1, Stretch
<1>3. all \in Seq(B) /\ Len(all) = have + n
  <2> DEFINE m == upd.sent + n - upd.cur
  <2>1. m \in Nat /\ m = have + n /\ all = [i \in 1..m |-> Byte(upd.img, upd.cur + i)]
    BY <1>1
  <2> HIDE DEF m, all, B
  <2>2. upd.cur \in Nat
    BY <1>1
  <2>3. /\ [i \in 1..m |-> Byte(upd.img, upd.cur + i)] \in Seq(B)
        /\ Len([i \in 1..m |-> Byte(upd.img, upd.cur + i)]) = m
    BY <2>1, <2>2, Stretch DEF B
  <2>4. QED
    BY <2>1, <2>3
<1>4. \A i \in 1..n : new[i] = Byte(upd.img, upd.sent + i)
  OBVIOUS
<1>5. \A i \in 1..(have + n) : all[i] = Byte(upd.img, upd.cur + i)
  BY <1>1
<1>6. Received(n) = upd.buf \o new
  BY DEF Received
<1>7. have \in Nat /\ upd.sent = upd.cur + have
  BY <1>1
<1> HIDE DEF B, new, all, have
<1>8. /\ upd.buf \o new \in Seq(B) /\ Len(upd.buf \o new) = have + n
      /\ \A i \in 1..(have + n) :
           (upd.buf \o new)[i] = IF i <= have THEN upd.buf[i] ELSE new[i - have]
  BY <1>1, <1>2, ConcatProperties
<1>9. ASSUME NEW i \in 1..(have + n) PROVE (upd.buf \o new)[i] = all[i]
  <2>1. CASE i <= have
    BY <1>1, <1>5, <1>7, <1>8, <2>1
  <2>2. CASE ~(i <= have)
    <3>1. i - have \in 1..n /\ upd.sent + (i - have) = upd.cur + i
      BY <1>1, <1>7, <2>2
    <3>2. new[i - have] = Byte(upd.img, upd.cur + i)
      BY <1>4, <3>1
    <3>3. QED
      BY <1>5, <1>7, <1>8, <2>2, <3>2
  <2>3. QED
    BY <2>1, <2>2
<1>10. upd.buf \o new = all
  BY <1>3, <1>8, <1>9, SeqEqual
<1>11. QED
  <2>1. Len(all) = upd.sent + n - upd.cur
    BY <1>1, <1>3 DEF have
  <2>2. QED
    BY <1>6, <1>10, <2>1 DEF all

\* What was written leaves the buffer.
LEMMA LeftBuffer ==
  ASSUME Buffered, upd.img.len \in Nat, NEW n \in 0..(upd.sent - upd.cur)
  PROVE  Left(n) = [i \in 1..(upd.sent - (upd.cur + n)) |-> Byte(upd.img, (upd.cur + n) + i)]
<1> DEFINE B == {Byte(upd.img, i) : i \in Nat}
           rest == [i \in 1..(upd.sent - (upd.cur + n)) |-> Byte(upd.img, (upd.cur + n) + i)]
           more == upd.sent - (upd.cur + n)
<1>1. /\ upd.buf \in Seq(B) /\ Len(upd.buf) = upd.sent - upd.cur
      /\ upd.cur \in Nat /\ upd.sent \in Nat /\ upd.sent >= upd.cur
      /\ \A i \in 1..(upd.sent - upd.cur) : upd.buf[i] = Byte(upd.img, upd.cur + i)
  BY BufferLen
<1>2. more \in Nat /\ upd.cur + n \in Nat /\ upd.sent - upd.cur = more + n /\ n \in Nat
  BY <1>1
<1>3. rest \in Seq(B) /\ Len(rest) = more
  BY <1>2, Stretch
<1>4. \A i \in 1..more : rest[i] = Byte(upd.img, (upd.cur + n) + i)
  OBVIOUS
<1> HIDE DEF B, rest, more
<1>5. Left(n) = SubSeq(upd.buf, n + 1, more + n)
  BY <1>1, <1>2 DEF Left
<1>6. \A i \in (n + 1)..(more + n) : upd.buf[i] \in B
  BY <1>1, <1>2, ElementOfSeq
<1>7. /\ Left(n) \in Seq(B)
      /\ Len(Left(n)) = IF n + 1 <= more + n THEN (more + n) - (n + 1) + 1 ELSE 0
      /\ \A i \in 1..((more + n) - (n + 1) + 1) : Left(n)[i] = upd.buf[(n + 1) + i - 1]
  <2>1. n + 1 \in Int /\ more + n \in Int
    BY <1>2
  <2>2. QED
    BY <1>5, <1>6, <2>1, SubSeqProperties
<1>8. Len(Left(n)) = more
  BY <1>2, <1>7
<1>9. ASSUME NEW i \in 1..more PROVE Left(n)[i] = rest[i]
  <2>1. /\ i \in 1..((more + n) - (n + 1) + 1) /\ (n + 1) + i - 1 = n + i
        /\ n + i \in 1..(upd.sent - upd.cur) /\ upd.cur + (n + i) = (upd.cur + n) + i
    BY <1>1, <1>2
  <2>2. QED
    BY <1>1, <1>4, <1>7, <2>1
<1>10. Left(n) = rest
  BY <1>3, <1>7, <1>8, <1>9, SeqEqual
<1>11. QED
  BY <1>10 DEF rest

\* The next two bytes of the buffer are the next halfword of the image.
LEMMA NextHalfword ==
  ASSUME Buffered, upd.img.len \in Nat, upd.cur % 2 = 0,
         NEW k \in Nat, k < (upd.sent - upd.cur) \div 2
  PROVE  <<upd.buf[2*k + 1], upd.buf[2*k + 2]>> = Halfword(upd.img, upd.cur \div 2 + k + 1)
<1>1. /\ upd.cur \in Nat /\ upd.sent \in Nat
      /\ 2*k + 1 \in 1..(upd.sent - upd.cur) /\ 2*k + 2 \in 1..(upd.sent - upd.cur)
  BY BufferLen
<1>2. /\ upd.buf[2*k + 1] = Byte(upd.img, upd.cur + (2*k + 1))
      /\ upd.buf[2*k + 2] = Byte(upd.img, upd.cur + (2*k + 2))
  BY <1>1, BufferLen
<1>3. /\ upd.cur + (2*k + 1) = 2 * (upd.cur \div 2 + k + 1) - 1
      /\ upd.cur + (2*k + 2) = 2 * (upd.cur \div 2 + k + 1)
  BY <1>1
<1>4. QED
  BY <1>2, <1>3 DEF Halfword

-----------------------------------------------------------------------------
(* Each step keeps the verdict true.                                       *)

\* What is known of the image of an update under way.
LEMMA ImageFacts ==
  ASSUME IInv, st = "update", mode \in {"boot", "main"}
  PROVE  /\ upd.img.len \in Nat /\ (upd.img.good => upd.img.len > 0)
         /\ mode = "boot" => upd.img.len % 4 = 0
BY ImagesAssumption DEF IInv, Control, Updating

\* Whole images in flash, and no update.
LEMMA InitVInv == Init => VInv
<1> SUFFICES ASSUME Init PROVE VInv
  OBVIOUS
<1>1. /\ mode = "main" /\ st = "command" /\ op = <<"none">> /\ tx = "none"
      /\ \E i : fw = Written(i, FwSz)
      /\ \E i : bl = Written(i, BlSz)
  BY DEF Init
<1>2. IsArea(fw, FwSz) /\ IsArea(bl, BlSz)
  BY <1>1 DEF IsArea, Written
<1>3. Streamed /\ Replaced /\ Answered /\ VerdictTrue
  BY <1>1 DEF Streamed, Replaced, Answered, VerdictTrue, Erasing, Updating
<1>4. QED
  BY <1>2, <1>3 DEF VInv

\* A start, a power cycle, or a reset of the bus takes the verdict back.
LEMMA StopsVInv ==
  ASSUME VInv, op' = <<"none">>, st' # "update", tx' = "none", UNCHANGED <<fw, bl>>
  PROVE  VInv'
<1>1. Streamed' /\ Replaced' /\ Answered' /\ VerdictTrue'
  BY DEF Streamed, Replaced, Answered, VerdictTrue, Erasing, Updating
<1>2. QED
  BY <1>1 DEF VInv, IsArea

\* A response that is no verdict, or none.
LEMMA IdleVInv ==
  ASSUME VInv, UNCHANGED <<fw, bl, mode, st, op, upd>>,
         tx' \in {tx, "none", "bad_command", "out_of_flash", "out_of_sram"}
  PROVE  VInv'
<1>1. Streamed' /\ Replaced' /\ IsArea(fw, FwSz)' /\ IsArea(bl, BlSz)'
  BY DEF VInv, Streamed, Replaced, Erasing, Writing, Updating, Buffered, Fits,
         Programmed, ErasedBelow, BlExposed, IsArea
<1>2. Answered'
  BY DEF VInv, Answered
<1>3. VerdictTrue'
  BY DEF VInv, VerdictTrue, CrcGood, Holds, Fits, Faulty
<1>4. QED
  BY <1>1, <1>2, <1>3 DEF VInv

\* Each program minds its own update.
LEMMA OtherUpdate ==
  /\ mode' = "boot" => Replaced'
  /\ mode' = "main" /\ op'[1] # "erase" => Streamed'
BY DEF Replaced, Streamed, Erasing, Updating

\* While an update runs there is no verdict yet.
LEMMA NoVerdict ==
  ASSUME VInv, st = "update" \/ op # <<"none">>
  PROVE  tx # "good" /\ (mode = "main" => tx # "fail")
BY DEF VInv, Answered

\* An empty buffer, before the first packet.
LEMMA EmptyBuffer ==
  ASSUME upd'.cur = 0, upd'.sent = 0, upd'.buf = <<>>, upd'.img.len \in Nat
  PROVE  Buffered'
BY DEF Buffered

\* An update command that is accepted: its image fits and nothing was sent.
LEMMA CommandVInv ==
  ASSUME IInv, VInv,
         \/ \E img \in MainImages : CmdUpdate(img)
         \/ \E img \in BootImages : CmdUpdateBootloader(img)
  PROVE  VInv'
<1>1. ASSUME NEW img \in MainImages, CmdUpdate(img) PROVE VInv'
  <2>1. CASE img.len % 4 # 0 \/ ~Fits(fw, img)
    BY <1>1, <2>1, IdleVInv DEF CmdUpdate
  <2>2. CASE ~(img.len % 4 # 0 \/ ~Fits(fw, img))
    <3>1. /\ op' = <<"erase", 1, "prep">> /\ upd' = [NoUpdate EXCEPT !.img = img]
          /\ mode = "boot" /\ st = "command" /\ tx = "none"
          /\ UNCHANGED <<mode, st, fw, bl, tx>> /\ Fits(fw, img)
      BY <1>1, <2>2 DEF CmdUpdate
    <3>2. upd'.img = img /\ upd'.buf = <<>>
      BY <3>1 DEF NoUpdate
    <3>3. ErasedBelow(fw, 1)
      BY FromFirstPage, FlashAssumption DEF VInv
    <3>4. Streamed'
      BY <3>1, <3>2, <3>3 DEF Streamed, Erasing, Updating, Fits, ErasedBelow
    <3>5. Answered' /\ VerdictTrue'
      BY <3>1 DEF Answered, VerdictTrue
    <3>6. QED
      BY <3>1, <3>4, <3>5, OtherUpdate DEF VInv, IsArea
  <2>3. QED
    BY <2>1, <2>2
<1>2. ASSUME NEW img \in BootImages, CmdUpdateBootloader(img) PROVE VInv'
  <2>1. CASE UNCHANGED <<st, upd>> /\ tx' \in {"bad_command", "out_of_sram"}
    BY <1>2, <2>1, IdleVInv DEF CmdUpdateBootloader
  <2>2. CASE ~(UNCHANGED <<st, upd>> /\ tx' \in {"bad_command", "out_of_sram"})
    <3>1. /\ upd' = [NoUpdate EXCEPT !.img = img] /\ tx' = "okay"
          /\ mode = "main" /\ op = <<"none">>
          /\ UNCHANGED <<mode, op, fw, bl>> /\ Fits(bl, img) /\ img.len % 4 = 0
      BY <1>2, <2>2 DEF CmdUpdateBootloader
    <3>2. /\ upd'.img = img /\ upd'.buf = <<>> /\ upd'.cur = 0 /\ upd'.sent = 0
          /\ img.len \in Nat
      BY <3>1, ImagesAssumption DEF NoUpdate
    <3>3. Buffered'
      BY <3>2, EmptyBuffer
    <3>4. Replaced'
      BY <3>1, <3>2, <3>3 DEF Replaced, BlExposed, Fits
    <3>5. Answered' /\ VerdictTrue'
      BY <3>1 DEF Answered, VerdictTrue
    <3>6. QED
      BY <3>1, <3>4, <3>5, OtherUpdate DEF VInv, IsArea
  <2>3. QED
    BY <2>1, <2>2
<1>3. QED
  BY <1>1, <1>2

\* Page by page the old firmware goes; then the update begins on erased flash.
LEMMA EraseVInv ==
  ASSUME IInv, VInv, EraseOldFirmware
  PROVE  VInv'
<1>1. /\ op[1] = "erase" /\ mode = "boot" /\ mode' = "boot" /\ st = "command"
      /\ op[2] \in Nat \ {0} /\ upd.img.len \in Nat /\ UNCHANGED <<bl, upd>>
      /\ op[3] = "prep" => upd.cur = 0 /\ upd.sent = 0
  BY ImagesAssumption DEF IInv, Control, Erasing, EraseOldFirmware
<1>2. op # <<"none">> /\ tx # "good"
  BY <1>1, NoVerdict
<1>3. IsArea(fw, FwSz) /\ FwSz \in Nat /\ IsArea(bl, BlSz)
  BY FlashAssumption DEF VInv
<1>4. op[3] = "prep" => Fits(fw, upd.img) /\ ErasedBelow(fw, op[2]) /\ upd.buf = <<>>
  BY <1>1 DEF VInv, Streamed, Erasing
<1>5. CASE op[2] <= Pages(upd.img.len \div 2)
  <2>1. /\ fw' = ErasePage(fw, op[2]) /\ op' = <<"erase", op[2] + 1, op[3]>>
        /\ UNCHANGED <<st, tx>>
    BY <1>5 DEF EraseOldFirmware, Erases
  <2>2. op'[2] = op[2] + 1 /\ op'[3] = op[3]
    BY <2>1
  <2>3. IsArea(fw, FwSz)'
    BY <1>3, <2>1, AreaKept DEF IsArea
  <2>4. op[3] = "prep" => ErasedBelow(ErasePage(fw, op[2]), op[2] + 1)
    BY <1>1, <1>3, <1>4, EraseNext
  <2>5. op[3] = "prep" => Fits(fw', upd.img)
    BY <1>3, <1>4, <2>1, AreaKept, FitsKept
  <2>6. Streamed'
    BY <1>1, <1>4, <2>1, <2>2, <2>4, <2>5 DEF Streamed, Updating, Fits, ErasedBelow
  <2>7. op' # <<"erase", 1, "failed">>
    BY <1>1, <2>2
  <2>8. Answered' /\ VerdictTrue'
    BY <1>1, <1>2, <2>1, <2>7 DEF Answered, VerdictTrue
  <2>9. QED
    BY <1>1, <1>3, <2>3, <2>6, <2>8, OtherUpdate DEF VInv, IsArea
<1>6. CASE ~(op[2] <= Pages(upd.img.len \div 2))
  <2>1. /\ op' = <<"none">> /\ UNCHANGED fw
        /\ \/ op[3] = "prep" /\ tx' = "okay"
           \/ UNCHANGED <<st, tx>>
    BY <1>6 DEF EraseOldFirmware
  <2>2. Pages(upd.img.len \div 2) \in Int /\ op[2] > Pages(upd.img.len \div 2)
    <3>1. PageSz \in Nat /\ PageSz > 0
      BY FlashAssumption
    <3>2. upd.img.len \div 2 + PageSz - 1 \in Int
      BY <1>1, <3>1
    <3>3. Pages(upd.img.len \div 2) \in Int
      BY <3>1, <3>2 DEF Pages
    <3>4. QED
      BY <1>1, <1>6, <3>3
  <2>3. op[3] = "prep" => Programmed(fw, upd.img, 0)
    <3>1. upd.img.len \div 2 \in Nat
      BY <1>1
    <3>2. QED
      BY <1>1, <1>3, <1>4, <2>2, <3>1, AllErased
  <2>4. op[3] = "prep" => Buffered'
    BY <1>1, <1>4, EmptyBuffer
  <2>5. CASE op[3] = "prep"
    <3>1. upd'.cur = 0 /\ upd'.cur \div 2 = 0 /\ upd'.cur % 2 = 0 /\ op'[1] = "none"
      BY <1>1, <2>1, <2>5
    <3>2. Streamed'
      BY <1>1, <1>4, <2>1, <2>3, <2>4, <2>5, <3>1
         DEF Streamed, Erasing, Writing, Fits, Programmed
    <3>3. QED
      BY <1>1, <1>2, <1>3, <2>1, <3>2, OtherUpdate
         DEF VInv, IsArea, Answered, VerdictTrue
  <2>6. CASE UNCHANGED <<st, tx>>
    <3>1. Streamed'
      BY <1>1, <2>1, <2>6 DEF Streamed, Erasing, Updating
    <3>2. QED
      BY <1>1, <1>2, <1>3, <2>1, <2>6, <3>1, OtherUpdate
         DEF VInv, IsArea, Answered, VerdictTrue
  <2>7. QED
    BY <2>1, <2>5, <2>6
<1>7. QED
  BY <1>5, <1>6

\* A packet of the image goes to the buffer, in either program.
LEMMA ReceiveVInv ==
  ASSUME IInv, VInv, NEW n \in 1..MaxPacket, UpdateReceive(n) \/ BlReceive(n)
  PROVE  VInv'
<1>1. /\ upd' = [upd EXCEPT !.buf = Received(n), !.sent = @ + n]
      /\ st = "update" /\ op = <<"none">> /\ tx = "none" /\ n <= upd.img.len - upd.sent
      /\ UNCHANGED <<fw, bl, st, mode, tx>> /\ mode \in {"boot", "main"}
      /\ mode = "boot" => op' = IF Len(Received(n)) >= 2 THEN <<"write", 0>> ELSE <<"none">>
      /\ mode = "main" => op' = op
  <2>1. CASE UpdateReceive(n)
    BY <2>1 DEF UpdateReceive, Arrives
  <2>2. CASE BlReceive(n)
    BY <2>2 DEF BlReceive, Arrives
  <2>3. QED
    BY <2>1, <2>2
<1>2. upd.img.len \in Nat /\ n \in Nat /\ n > 0
  BY <1>1, ImageFacts, FlashAssumption
<1>3. Buffered
  BY <1>1 DEF VInv, Streamed, Replaced, Updating
<1>4. /\ Received(n) = [i \in 1..(upd.sent + n - upd.cur) |-> Byte(upd.img, upd.cur + i)]
      /\ Len(Received(n)) = upd.sent + n - upd.cur
  BY <1>2, <1>3, ReceivedBuffer
<1>5. /\ upd'.buf = Received(n) /\ upd'.sent = upd.sent + n
      /\ upd'.cur = upd.cur /\ upd'.img = upd.img
  BY <1>1
<1>6. Buffered'
  <2>1. upd'.cur \in Nat /\ upd'.sent \in upd'.cur..upd'.img.len
    BY <1>1, <1>2, <1>3, <1>5 DEF Buffered
  <2>2. upd'.sent - upd'.cur = upd.sent + n - upd.cur
    BY <1>2, <1>3, <1>5 DEF Buffered
  <2>3. upd'.buf = [i \in 1..(upd'.sent - upd'.cur) |-> Byte(upd'.img, upd'.cur + i)]
    BY <1>4, <1>5, <2>2, Zenon
  <2>4. QED
    BY <2>1, <2>3 DEF Buffered
<1>7. Answered' /\ VerdictTrue'
  BY <1>1 DEF Answered, VerdictTrue
<1>8. CASE mode = "boot"
  <2>1. /\ Fits(fw, upd.img) /\ upd.cur % 2 = 0
        /\ Programmed(fw, upd.img, upd.cur \div 2 + 0) /\ upd.cur \in Nat
    BY <1>1, <1>3, <1>8 DEF VInv, Streamed, Updating, Writing, Buffered
  <2>2. Writing' => op'[2] = 0 /\ 0 < (upd'.sent - upd'.cur) \div 2
    <3>1. CASE Len(Received(n)) >= 2
      <4>1. op' = <<"write", 0>>
        BY <1>1, <1>8, <3>1
      <4>2. upd'.sent - upd'.cur >= 2 /\ upd'.sent \in Int /\ upd'.cur \in Int
        <5>1. upd.sent + n - upd.cur >= 2 /\ upd.sent \in Int /\ upd.cur \in Int
          BY <1>2, <1>3, <1>4, <3>1 DEF Buffered
        <5>2. QED
          BY <1>2, <1>5, <5>1
      <4>3. QED
        BY <4>1, <4>2
    <3>2. CASE ~(Len(Received(n)) >= 2)
      BY <1>1, <1>8, <3>2 DEF Writing
    <3>3. QED
      BY <3>1, <3>2
  <2>3. Programmed(fw, upd.img, upd.cur \div 2 + (IF Writing' THEN op'[2] ELSE 0))
    BY <2>1, <2>2
  <2>4. op'[1] # "erase"
    BY <1>1, <1>8
  <2>5. Streamed'
    BY <1>1, <1>5, <1>6, <2>1, <2>2, <2>3, <2>4
       DEF Streamed, Erasing, Fits, Programmed
  <2>6. QED
    BY <1>1, <1>7, <1>8, <2>5, OtherUpdate DEF VInv, IsArea
<1>9. CASE mode = "main"
  <2>1. Replaced'
    BY <1>1, <1>5, <1>6, <1>9 DEF VInv, Replaced, BlExposed, Fits
  <2>2. QED
    BY <1>1, <1>7, <1>9, <2>1, OtherUpdate DEF VInv, IsArea
<1>10. QED
  BY <1>1, <1>8, <1>9

\* Halfwords and bytes, when an even number of bytes was written before.
LEMMA Halves ==
  ASSUME NEW cur \in Nat, NEW sent \in Nat, NEW len \in Nat, NEW k \in Nat,
         cur <= sent, sent <= len, cur % 2 = 0, k < (sent - cur) \div 2,
         NEW nr, nr = 2 * ((sent - cur) \div 2)
  PROVE  /\ cur \div 2 + k \in Nat /\ cur \div 2 + k < len \div 2
         /\ 2 * (k + 1) < nr => k + 1 < (sent - cur) \div 2
OBVIOUS

\* What the flash makes of a halfword.
LEMMA OutcomeIs ==
  ASSUME NEW bytes, NEW b \in Outcomes(bytes)
  PROVE  b \in {bytes, Wrong}
BY DEF Outcomes

\* The next halfword of the image is programmed, or comes out wrong.
LEMMA WriteVInv ==
  ASSUME IInv, VInv, UpdateWrite
  PROVE  VInv'
<1> DEFINE k == op[2]
           nr == 2 * (Len(upd.buf) \div 2)
           K == upd.cur \div 2 + k
<1>1. /\ op[1] = "write" /\ mode = "boot" /\ st = "update" /\ k \in Nat
      /\ UNCHANGED <<bl, mode, st, tx>> /\ op # <<"none">>
  BY DEF IInv, Control, Writing, Updating, UpdateWrite
<1>2. upd.img.len \in Nat
  BY <1>1, ImageFacts
<1>3. /\ Fits(fw, upd.img) /\ Buffered /\ upd.cur % 2 = 0
      /\ Programmed(fw, upd.img, K) /\ k < (upd.sent - upd.cur) \div 2
      /\ IsArea(fw, FwSz) /\ FwSz \in Nat /\ IsArea(bl, BlSz)
  BY <1>1, FlashAssumption DEF VInv, Streamed, Updating, Writing
<1>4. /\ upd.cur \in Nat /\ upd.sent \in Nat /\ upd.sent >= upd.cur
      /\ upd.sent <= upd.img.len /\ Len(upd.buf) = upd.sent - upd.cur
  BY <1>2, <1>3, BufferLen DEF Buffered
<1>5. /\ \E b \in Outcomes(<<upd.buf[2*k + 1], upd.buf[2*k + 2]>>) :
           fw' = Program(fw, K + 1, b)
      /\ IF 2 * (k + 1) < nr
         THEN op' = <<"write", k + 1>> /\ UNCHANGED upd
         ELSE op' = <<"none">> /\ upd' = [upd EXCEPT !.cur = @ + nr, !.buf = Left(nr)]
  BY DEF UpdateWrite
<1>6. nr = 2 * ((upd.sent - upd.cur) \div 2)
  BY <1>4
<1>7. <<upd.buf[2*k + 1], upd.buf[2*k + 2]>> = Halfword(upd.img, K + 1)
  BY <1>1, <1>2, <1>3, NextHalfword
<1> HIDE DEF nr
<1>8. /\ K \in Nat /\ K < upd.img.len \div 2
      /\ 2 * (k + 1) < nr => k + 1 < (upd.sent - upd.cur) \div 2
      /\ ~(2 * (k + 1) < nr) => /\ nr \in 0..(upd.sent - upd.cur) /\ (upd.cur + nr) % 2 = 0
                                /\ (upd.cur + nr) \div 2 = K + 1
  <2> HIDE DEF k
  <2>1. k \in Nat /\ k < (upd.sent - upd.cur) \div 2
    BY <1>1, <1>3
  <2>2. upd.cur % 2 = 0
    BY <1>3
  <2>3. upd.cur <= upd.sent /\ upd.sent \in Nat /\ upd.cur \in Nat
    BY <1>4
  <2>4. upd.cur \div 2 + k \in Nat /\ upd.cur \div 2 + k < upd.img.len \div 2
    BY <1>2, <1>4, <1>6, <2>1, <2>2, <2>3, Halves
  <2>5. 2 * (k + 1) < nr => k + 1 < (upd.sent - upd.cur) \div 2
    BY <1>2, <1>4, <1>6, <2>1, <2>2, <2>3, Halves
  <2>6. nr \in 0..(upd.sent - upd.cur) /\ nr % 2 = 0
    BY <1>6, <2>3
  <2>7. (upd.cur + nr) % 2 = 0
    BY <2>2, <2>3, <2>6
  <2>8. ~(2 * (k + 1) < nr) => (upd.cur + nr) \div 2 = upd.cur \div 2 + k + 1
    <3>1. ~(2 * (k + 1) < nr) => nr = 2 * (k + 1)
      BY <1>6, <2>1, <2>3
    <3>2. upd.cur = 2 * (upd.cur \div 2)
      BY <2>2, <2>3
    <3>3. QED
      BY <2>1, <2>3, <3>1, <3>2
  <2>9. QED
    BY <2>4, <2>5, <2>6, <2>7, <2>8 DEF K
<1>9. upd.cur \div 2 + (k + 1) = K + 1
  BY <1>1, <1>4
<1> HIDE DEF K
<1>10. PICK b \in Outcomes(Halfword(upd.img, K + 1)) : fw' = Program(fw, K + 1, b)
  BY <1>5, <1>7
<1>11. b \in {Halfword(upd.img, K + 1), Wrong}
  BY OutcomeIs
<1>12. Programmed(fw', upd.img, K + 1)
  BY <1>2, <1>3, <1>8, <1>10, <1>11, ProgramNext
<1>13. IsArea(fw', FwSz) /\ Fits(fw', upd.img)
  <2>1. IsArea(fw', FwSz)
    BY <1>3, <1>10, AreaKept
  <2>2. QED
    BY <1>3, <2>1, FitsKept
<1>14. Answered' /\ VerdictTrue'
  <2>1. tx # "good" /\ op'[1] # "erase"
    BY <1>1, <1>5, NoVerdict
  <2>2. QED
    BY <1>1, <2>1 DEF Answered, VerdictTrue
<1>15. Streamed'
  <2>1. CASE 2 * (k + 1) < nr
    <3>1. op' = <<"write", k + 1>> /\ UNCHANGED upd
      BY <1>5, <2>1
    <3>2. Buffered'
      BY <1>3, <3>1 DEF Buffered
    <3>3. Programmed(fw', upd.img, upd.cur \div 2 + (k + 1))
      BY <1>9, <1>12
    <3>4. op'[1] = "write" /\ op'[2] = k + 1
      BY <3>1
    <3>5. QED
      BY <1>3, <1>8, <1>13, <2>1, <3>1, <3>2, <3>3, <3>4
         DEF Streamed, Erasing, Writing, Fits, Programmed
  <2>2. CASE ~(2 * (k + 1) < nr)
    <3>1. op' = <<"none">> /\ upd' = [upd EXCEPT !.cur = @ + nr, !.buf = Left(nr)]
      BY <1>5, <2>2
    <3>2. /\ upd'.cur = upd.cur + nr /\ upd'.buf = Left(nr)
          /\ upd'.sent = upd.sent /\ upd'.img = upd.img
      BY <3>1
    <3>3. Buffered'
      <4>1. Left(nr) = [i \in 1..(upd.sent - (upd.cur + nr)) |->
                                      Byte(upd.img, (upd.cur + nr) + i)]
        BY <1>2, <1>3, <1>8, <2>2, LeftBuffer
      <4>2. upd.cur + nr \in Nat /\ upd.sent \in (upd.cur + nr)..upd.img.len
        BY <1>2, <1>4, <1>8, <2>2
      <4>3. QED
        BY <3>2, <4>1, <4>2 DEF Buffered
    <3>4. upd'.cur \div 2 + 0 = K + 1 /\ upd'.cur % 2 = 0
      BY <1>8, <2>2, <3>2
    <3>5. Programmed(fw', upd.img, upd'.cur \div 2 + 0)
      BY <1>12, <3>4
    <3>6. QED
      BY <1>13, <3>1, <3>2, <3>3, <3>4, <3>5
         DEF Streamed, Erasing, Writing, Fits, Programmed
  <2>3. QED
    BY <2>1, <2>2
<1>16. QED
  BY <1>1, <1>3, <1>13, <1>14, <1>15, OtherUpdate DEF VInv, IsArea

\* All of the image was programmed: if it is not whole, the flash is faulty.
LEMMA EndVInv ==
  ASSUME IInv, VInv, UpdateEnd
  PROVE  VInv'
<1>1. /\ mode = "boot" /\ st = "update" /\ op = <<"none">> /\ tx = "none"
      /\ upd.cur >= upd.img.len /\ st' = "command" /\ UNCHANGED <<fw, bl, mode>>
      /\ upd' = [upd EXCEPT !.buf = <<>>]
  BY DEF UpdateEnd
<1>2. upd.img.len \in Nat /\ (upd.img.good => upd.img.len > 0)
  BY <1>1, ImageFacts
<1>3. /\ Fits(fw, upd.img) /\ Buffered /\ Programmed(fw, upd.img, upd.cur \div 2 + 0)
      /\ IsArea(fw, FwSz) /\ FwSz \in Nat
  BY <1>1, FlashAssumption DEF VInv, Streamed, Updating, Writing
<1>4. upd.cur = upd.img.len /\ upd.cur \div 2 + 0 = upd.img.len \div 2
  BY <1>1, <1>2, <1>3 DEF Buffered
<1>5. ~CrcGood(fw, upd.img) => ~upd.img.good \/ Faulty(fw)
  <2>1. Programmed(fw, upd.img, upd.img.len \div 2)
    BY <1>3, <1>4
  <2>2. QED
    BY <1>2, <1>3, <2>1, AllProgrammed
<1>6. upd'.img = upd.img
  BY <1>1 DEF VInv, Streamed
<1>7. \/ CrcGood(fw, upd.img) /\ tx' = "good" /\ op' = <<"none">>
      \/ ~CrcGood(fw, upd.img) /\ tx' = "fail" /\ op' = <<"erase", 1, "failed">>
  BY <1>1 DEF UpdateEnd
<1>8. Streamed' /\ Answered'
  BY <1>1, <1>7 DEF Streamed, Answered, Erasing, Updating
<1>9. VerdictTrue'
  BY <1>1, <1>5, <1>6, <1>7 DEF VerdictTrue, CrcGood, Holds, Fits, Faulty
<1>10. QED
  BY <1>1, <1>8, <1>9, OtherUpdate DEF VInv, IsArea

\* The bootloader's image was received: it is rewritten, or refused as bad.
LEMMA ReceivedVInv ==
  ASSUME IInv, VInv, BlReceived
  PROVE  VInv'
<1>1. /\ mode = "main" /\ st = "update" /\ op = <<"none">> /\ tx = "none"
      /\ Len(upd.buf) = upd.img.len /\ UNCHANGED <<fw, bl, mode, upd>>
      /\ \/ Accept /\ op' = <<"bl_erase", 1>> /\ UNCHANGED <<st, tx>>
         \/ ~Accept /\ st' = "command" /\ tx' = "fail" /\ UNCHANGED op
  BY DEF BlReceived
<1>2. upd.img.len \in Nat /\ (upd.img.good => upd.img.len > 0)
  BY <1>1, ImageFacts
<1>3. Buffered /\ upd.cur = 0 /\ Replaced
  BY <1>1 DEF VInv, Replaced
<1>4. upd.sent = upd.img.len
  BY <1>1, <1>2, <1>3, BufferLen
<1>5. CASE Accept /\ op' = <<"bl_erase", 1>> /\ UNCHANGED <<st, tx>>
  <2>1. ErasedBelow(bl, 1) /\ 1 \in 1..Pages(BlSz)
    BY FromFirstPage, FlashAssumption DEF VInv
  <2>2. op'[1] = "bl_erase" /\ op'[2] = 1 /\ upd.img.len > 0
    BY <1>5 DEF Accept
  <2>3. Replaced'
    BY <1>1, <1>3, <1>4, <1>5, <2>1, <2>2
       DEF Replaced, BlExposed, Fits, Buffered, ErasedBelow
  <2>4. Answered' /\ VerdictTrue'
    BY <1>1, <1>5 DEF Answered, VerdictTrue
  <2>5. QED
    BY <1>1, <2>2, <2>3, <2>4, OtherUpdate DEF VInv, IsArea
<1>6. CASE ~Accept /\ st' = "command" /\ tx' = "fail" /\ UNCHANGED op
  <2>1. Replaced'
    BY <1>6 DEF Replaced
  <2>2. Answered' /\ VerdictTrue'
    BY <1>1, <1>2, <1>6 DEF Answered, VerdictTrue, Accept
  <2>3. QED
    BY <1>1, <1>6, <2>1, <2>2, OtherUpdate DEF VInv, IsArea
<1>7. QED
  BY <1>1, <1>5, <1>6

\* What is known while the bootloader is rewritten.
LEMMA RewriteFacts ==
  ASSUME IInv, VInv, BlExposed
  PROVE  /\ mode = "main" /\ st = "update" /\ upd.img.good
         /\ upd.img.len \in Nat /\ upd.img.len > 0 /\ upd.img.len % 4 = 0
         /\ upd.img.len \div 2 > 0 /\ upd.img.len = 2 * (upd.img.len \div 2)
         /\ Fits(bl, upd.img) /\ Buffered /\ upd.cur = 0 /\ upd.sent = upd.img.len
         /\ tx \notin {"good", "fail"} /\ Replaced
         /\ IsArea(bl, BlSz) /\ BlSz \in Nat /\ IsArea(fw, FwSz)
<1>1. mode = "main" /\ st = "update" /\ upd.img.good
  BY DEF IInv, Control
<1>2. upd.img.len \in Nat /\ upd.img.len > 0
  BY <1>1, ImageFacts
<1>3. /\ Fits(bl, upd.img) /\ Buffered /\ upd.cur = 0 /\ upd.sent = upd.img.len
      /\ upd.img.len % 4 = 0 /\ Replaced
  BY <1>1 DEF VInv, Replaced
<1>4. upd.img.len \div 2 > 0 /\ upd.img.len = 2 * (upd.img.len \div 2)
  BY <1>2, <1>3
<1>5. tx \notin {"good", "fail"}
  BY <1>1, NoVerdict
<1>6. IsArea(bl, BlSz) /\ BlSz \in Nat /\ IsArea(fw, FwSz)
  BY FlashAssumption DEF VInv
<1>7. QED
  BY <1>1, <1>2, <1>3, <1>4, <1>5, <1>6

\* A step of the rewrite that goes on with the next operation.
LEMMA RewriteVInv ==
  ASSUME IInv, VInv, BlExposed, BlExposed', UNCHANGED <<fw, mode, st, tx>>,
         UNCHANGED upd \/ upd' = [upd EXCEPT !.retry = @ + 1],
         op'[1] = "bl_erase" => op'[2] \in 1..Pages(BlSz) /\ ErasedBelow(bl', op'[2]),
         op'[1] = "bl_write" => /\ op'[2] \in Nat /\ op'[2] < upd.img.len \div 2
                                /\ Programmed(bl', upd.img, op'[2]),
         op'[1] = "bl_verify" => Programmed(bl', upd.img, upd.img.len \div 2),
         IsArea(bl', BlSz)
  PROVE  VInv'
<1>1. /\ upd'.img = upd.img /\ upd'.cur = upd.cur
      /\ upd'.sent = upd.sent /\ upd'.buf = upd.buf
  <2>1. CASE UNCHANGED upd
    BY <2>1
  <2>2. CASE upd' = [upd EXCEPT !.retry = @ + 1]
    BY <2>2
  <2>3. QED
    BY <2>1, <2>2
<1>2. /\ mode = "main" /\ st = "update" /\ tx \notin {"good", "fail"}
      /\ upd.img.len > 0 /\ upd.img.len % 4 = 0 /\ Fits(bl, upd.img) /\ Buffered
      /\ upd.cur = 0 /\ upd.sent = upd.img.len
      /\ IsArea(bl, BlSz) /\ BlSz \in Nat /\ IsArea(fw, FwSz)
  BY RewriteFacts
<1>3. Fits(bl', upd.img)
  BY <1>2, FitsKept
<1>4. Buffered'
  BY <1>1, <1>2 DEF Buffered
<1>5. Replaced'
  BY <1>1, <1>2, <1>3, <1>4 DEF Replaced, Fits, Programmed, ErasedBelow
<1>6. op'[1] # "erase" /\ op' # <<"erase", 1, "failed">>
  BY DEF BlExposed
<1>7. Answered' /\ VerdictTrue'
  BY <1>2 DEF Answered, VerdictTrue, BlExposed
<1>8. QED
  BY <1>2, <1>5, <1>6, <1>7, OtherUpdate DEF VInv, IsArea

\* Page by page the old bootloader goes.
LEMMA EraseBootVInv ==
  ASSUME IInv, VInv, EraseOldBootloader
  PROVE  VInv'
<1>1. /\ op[1] = "bl_erase" /\ bl' = ErasePage(bl, op[2])
      /\ UNCHANGED <<fw, mode, st, tx, upd>>
      /\ op' = IF op[2] = Pages(BlSz) THEN <<"bl_write", 0>> ELSE <<"bl_erase", op[2] + 1>>
      /\ BlExposed
  BY DEF EraseOldBootloader, BlExposed
<1>2. /\ upd.img.len \in Nat /\ upd.img.len \div 2 > 0 /\ mode = "main" /\ st = "update"
      /\ Fits(bl, upd.img) /\ Replaced /\ IsArea(bl, BlSz) /\ BlSz \in Nat
  BY <1>1, RewriteFacts
<1>3. op[2] \in 1..Pages(BlSz) /\ ErasedBelow(bl, op[2])
  BY <1>1, <1>2 DEF Replaced
<1>4. Pages(BlSz) \in Int
  <2>1. PageSz \in Nat /\ PageSz > 0 /\ BlSz + PageSz - 1 \in Int
    BY <1>2, FlashAssumption
  <2>2. QED
    BY <2>1 DEF Pages
<1>5. ErasedBelow(bl', op[2] + 1) /\ op[2] \in Nat /\ op[2] + 1 \in Nat
  BY <1>1, <1>2, <1>3, <1>4, EraseNext
<1>6. IsArea(bl', BlSz) /\ Fits(bl', upd.img)
  <2>1. IsArea(bl', BlSz)
    BY <1>1, <1>2, AreaKept
  <2>2. QED
    BY <1>2, <2>1, FitsKept
<1>7. CASE op[2] = Pages(BlSz)
  <2>1. op' = <<"bl_write", 0>> /\ op'[1] = "bl_write" /\ op'[2] = 0
    BY <1>1, <1>7
  <2>2. Programmed(bl', upd.img, 0)
    <3>1. upd.img.len \div 2 <= BlSz /\ op[2] + 1 > Pages(BlSz)
      <4>1. Len(bl) = BlSz
        BY <1>2, AreaLen
      <4>2. upd.img.len <= 2 * BlSz
        BY <1>2, <4>1 DEF Fits
      <4>3. QED
        BY <1>2, <1>4, <1>7, <4>2
    <3>2. QED
      BY <1>2, <1>5, <1>6, <3>1, AllErased
  <2>3. BlExposed'
    BY <2>1 DEF BlExposed
  <2>4. QED
    BY <1>1, <1>2, <1>6, <2>1, <2>2, <2>3, RewriteVInv
<1>8. CASE op[2] # Pages(BlSz)
  <2>1. op' = <<"bl_erase", op[2] + 1>> /\ op'[1] = "bl_erase" /\ op'[2] = op[2] + 1
    BY <1>1, <1>8
  <2>2. op[2] + 1 \in 1..Pages(BlSz)
    BY <1>3, <1>4, <1>8
  <2>3. BlExposed'
    BY <2>1 DEF BlExposed
  <2>4. QED
    BY <1>1, <1>5, <1>6, <2>1, <2>2, <2>3, RewriteVInv
<1>9. QED
  BY <1>7, <1>8

\* The next halfword of the bootloader is programmed, or comes out wrong.
LEMMA WriteBootVInv ==
  ASSUME IInv, VInv, BlWrite
  PROVE  VInv'
<1> DEFINE k == op[2]
<1>1. /\ op[1] = "bl_write" /\ UNCHANGED <<fw, mode, st, tx, upd>> /\ BlExposed
      /\ \E b \in Outcomes(<<upd.buf[2*k + 1], upd.buf[2*k + 2]>>) :
           bl' = Program(bl, k + 1, b)
      /\ op' = IF 2 * (k + 1) < upd.img.len THEN <<"bl_write", k + 1>> ELSE <<"bl_verify">>
  BY DEF BlWrite, BlExposed
<1>2. /\ upd.img.len \in Nat /\ upd.img.len = 2 * (upd.img.len \div 2)
      /\ mode = "main" /\ st = "update" /\ upd.cur = 0 /\ upd.sent = upd.img.len
      /\ Fits(bl, upd.img) /\ Buffered /\ Replaced /\ IsArea(bl, BlSz) /\ BlSz \in Nat
  BY <1>1, RewriteFacts
<1>3. k \in Nat /\ k < upd.img.len \div 2 /\ Programmed(bl, upd.img, k)
  BY <1>1, <1>2 DEF Replaced
<1> HIDE DEF k
<1>4. <<upd.buf[2*k + 1], upd.buf[2*k + 2]>> = Halfword(upd.img, k + 1)
  <2>1. upd.cur % 2 = 0 /\ k < (upd.sent - upd.cur) \div 2 /\ upd.cur \div 2 + k + 1 = k + 1
    BY <1>2, <1>3
  <2>2. <<upd.buf[2*k + 1], upd.buf[2*k + 2]>> = Halfword(upd.img, upd.cur \div 2 + k + 1)
    BY <1>2, <1>3, <2>1, NextHalfword
  <2>3. QED
    BY <2>1, <2>2
<1>5. PICK b \in Outcomes(Halfword(upd.img, k + 1)) : bl' = Program(bl, k + 1, b)
  BY <1>1, <1>4
<1>6. Programmed(bl', upd.img, k + 1)
  BY <1>2, <1>3, <1>5, OutcomeIs, ProgramNext
<1>7. IsArea(bl', BlSz)
  BY <1>2, <1>5, AreaKept
<1>8. CASE 2 * (k + 1) < upd.img.len
  <2>1. op'[1] = "bl_write" /\ op'[2] = k + 1
    BY <1>1, <1>8
  <2>2. k + 1 \in Nat /\ k + 1 < upd.img.len \div 2
    BY <1>2, <1>3, <1>8
  <2>3. BlExposed'
    BY <2>1 DEF BlExposed
  <2>4. QED
    BY <1>1, <1>6, <1>7, <2>1, <2>2, <2>3, RewriteVInv
<1>9. CASE ~(2 * (k + 1) < upd.img.len)
  <2>1. op'[1] = "bl_verify"
    BY <1>1, <1>9
  <2>2. k + 1 = upd.img.len \div 2
    BY <1>2, <1>3, <1>9
  <2>3. BlExposed'
    BY <2>1 DEF BlExposed
  <2>4. QED
    BY <1>1, <1>6, <1>7, <2>1, <2>2, <2>3, RewriteVInv
<1>10. QED
  BY <1>8, <1>9

\* The check: all of the image was programmed, so if it is not whole the flash
\* is faulty, and the next attempt begins with its first page.
LEMMA VerifyVInv ==
  ASSUME IInv, VInv, BlVerify
  PROVE  VInv'
<1>1. /\ op = <<"bl_verify">> /\ op[1] = "bl_verify" /\ BlExposed /\ UNCHANGED <<fw, bl, mode>>
  BY DEF BlVerify, BlExposed
<1>2. /\ upd.img.len \in Nat /\ upd.img.len > 0 /\ mode = "main" /\ st = "update"
      /\ Fits(bl, upd.img) /\ Replaced /\ IsArea(bl, BlSz) /\ BlSz \in Nat
      /\ IsArea(fw, FwSz) /\ upd.img.good
  BY <1>1, RewriteFacts
<1>3. ~CrcGood(bl, upd.img) => Faulty(bl)
  BY <1>1, <1>2, AllProgrammed DEF Replaced
<1>4. CASE CrcGood(bl, upd.img) \/ upd.retry = 2
  <2>1. /\ op' = <<"none">> /\ st' = "command" /\ upd' = [upd EXCEPT !.buf = <<>>]
        /\ tx' = IF CrcGood(bl, upd.img) THEN "good" ELSE "fail"
    BY <1>4 DEF BlVerify
  <2>2. upd'.img = upd.img
    BY <2>1
  <2>3. Replaced' /\ Answered'
    BY <2>1 DEF Replaced, Answered
  <2>4. VerdictTrue'
    BY <1>1, <1>2, <1>3, <2>1, <2>2 DEF VerdictTrue, CrcGood, Holds, Fits, Faulty
  <2>5. QED
    BY <1>1, <1>2, <2>1, <2>3, <2>4, OtherUpdate DEF VInv, IsArea
<1>5. CASE ~(CrcGood(bl, upd.img) \/ upd.retry = 2)
  <2>1. op' = <<"bl_erase", 1>> /\ UNCHANGED <<st, tx>> /\ upd' = [upd EXCEPT !.retry = @ + 1]
    BY <1>5 DEF BlVerify
  <2>2. op'[1] = "bl_erase" /\ op'[2] = 1 /\ BlExposed'
    BY <2>1 DEF BlExposed
  <2>3. 1 \in 1..Pages(BlSz) /\ ErasedBelow(bl', 1)
    BY <1>1, <1>2, FromFirstPage DEF IsArea
  <2>4. QED
    BY <1>1, <1>2, <2>1, <2>2, <2>3, RewriteVInv
<1>6. QED
  BY <1>4, <1>5

\* Whatever happens, the verdict stays true.
LEMMA NextVInv == IInv /\ VInv /\ [Next]_vars => VInv'
<1> SUFFICES ASSUME IInv, VInv, [Next]_vars PROVE VInv'
  OBVIOUS
<1>1. CASE Firmware
  <2>1. ASSUME NEW s \in BOOLEAN, SystemReset(s) PROVE VInv'
    BY <2>1, StopsVInv DEF SystemReset, Boot
  <2>2. QED
    BY <1>1, <2>1, EraseVInv, WriteVInv, EndVInv, ReceivedVInv, EraseBootVInv,
       WriteBootVInv, VerifyVInv DEF Firmware
<1>2. CASE Packet
  BY <1>2, ReceiveVInv DEF Packet
<1>3. CASE HostTakesResponse
  BY <1>3, IdleVInv DEF HostTakesResponse
<1>4. ASSUME NEW s \in BOOLEAN, PowerCycle(s) \/ Switch(s) PROVE VInv'
  BY <1>4, StopsVInv DEF PowerCycle, Switch, Boot
<1>5. CASE SwitchToBoot
  BY <1>5, StopsVInv DEF SwitchToBoot
<1>6. CASE Reset \/ Configure
  BY <1>6, StopsVInv DEF Reset, Configure
<1>7. CASE UNCHANGED vars
  BY <1>7, IdleVInv DEF vars
<1>8. QED
  BY <1>1, <1>2, <1>3, <1>4, <1>5, <1>6, <1>7, CommandVInv DEF Next

\* The verdict is true in both programs, for packets of any sizes and flash
\* with any faults: what is written is what was received, in order and into
\* erased flash, so that only a bad image or a fault can fail the check.
THEOREM VerdictsTrue == Spec => []VerdictTrue
<1>1. Init => IInv /\ VInv
  BY InitIInv, InitVInv
<1>2. (IInv /\ VInv) /\ [Next]_vars => (IInv /\ VInv)'
  BY NextIInv, NextVInv
<1>3. IInv /\ VInv => VerdictTrue
  BY DEF VInv
<1>4. QED
  BY <1>1, <1>2, <1>3, PTL DEF Spec

-----------------------------------------------------------------------------
(* The other firmware beside the bootloader: what the LED of module Blinky *)
(* says, for every chip: for any set of bad parts, any flash size and any  *)
(* timing of the interrupts.                                               *)

CONSTANT FlashSizes
VARIABLES chip, at, phase, failed, lit, irqs, tim4, x, dma, pend, dmac

blinky == INSTANCE Blinky

-----------------------------------------------------------------------------
(* The inductive invariant.                                                *)

Counts == at \in Nat /\ at >= 1 /\ dmac \in Nat
Kinds ==
  /\ chip \in [kb : FlashSizes, bad : SUBSET blinky!Parts, spurious : BOOLEAN]
  /\ phase \in {"run", "report", "b12", "c13", "enable", "wait", "exception"}
  /\ failed \in BOOLEAN /\ lit \subseteq {"b12", "c13"} /\ irqs \in BOOLEAN
  /\ tim4 \in [on : BOOLEAN, uif : BOOLEAN, enabled : BOOLEAN] /\ x \in BOOLEAN
  /\ dma \in {"off", "busy", "done"} /\ pend \in BOOLEAN
TypeOK == Counts /\ Kinds

\* nothing can light the LED before main() is past "start", the 14th step
LitLate == lit # {} \/ tim4.enabled => at > 14

\* the parts behind main() are good as long as no test failed, or the LED is
\* lit: only the SRAM test fails under a lit LED
Passed ==
  phase # "exception" /\ (~failed \/ lit # {}) =>
    \A i \in 1..(at - 1) :
      i \in DOMAIN blinky!Order /\ blinky!Order[i] \in chip.bad =>
        blinky!Order[i] \in blinky!Absent

\* what report(FALSE) has done so far, and what keeps an interrupt from undoing it
Dark ==
  /\ phase \in {"b12", "c13"} => failed
  /\ phase = "c13" => "b12" \notin lit
  /\ failed /\ phase \notin {"b12", "c13"} => lit = {}
  /\ phase = "exception" => lit = {} /\ ~irqs

\* a transfer is one completion, and its interrupt is taken before the test ends
Transfer ==
  /\ phase \in {"enable", "wait"} => blinky!Test \in blinky!DmaTests
  /\ ~chip.spurious /\ phase # "exception" =>
       /\ phase # "wait" => ~pend /\ dma # "busy"
       /\ phase = "enable" => dmac = 0 /\ dma = "off"
       /\ phase = "wait" => \/ dma = "busy" /\ ~pend /\ dmac = 0
                            \/ dma = "done" /\ (IF pend THEN dmac = 0 ELSE dmac = 1)

\* no test of a genuine chip has gone wrong
Genuine ==
  chip.bad \cap blinky!Tested = {} /\ ~chip.spurious =>
    ~failed /\ phase \notin {"report", "b12", "c13", "exception"}

LedInv == TypeOK /\ LitLate /\ Passed /\ Dark /\ Transfer /\ Genuine

-----------------------------------------------------------------------------
(* The order of the tests.                                                 *)

\* "start" is the 14th step, and every part but the SRAM comes before it.
LEMMA OrderFacts ==
  /\ DOMAIN blinky!Order = 1..16
  /\ \A i \in 1..16 : blinky!Order[i] = "start" => i = 14
  /\ \A p \in blinky!Parts \ {"sram"} : \E i \in 1..13 : blinky!Order[i] = p
<1> DEFINE O == <<"i2c1", "i2c2", "spi1", "spi2", "tim1", "tim2", "tim3", "tim4",
           "dma1", "dma2", "dma3", "dma4", "flash", "start", "sram", "stop">>
<1>1. blinky!Order = O BY DEF blinky!Order
<1>2. DOMAIN O = 1..16 OBVIOUS
<1>3. /\ O[1] = "i2c1" /\ O[2] = "i2c2" /\ O[3] = "spi1" /\ O[4] = "spi2"
      /\ O[5] = "tim1" /\ O[6] = "tim2" /\ O[7] = "tim3" /\ O[8] = "tim4"
      /\ O[9] = "dma1" /\ O[10] = "dma2" /\ O[11] = "dma3" /\ O[12] = "dma4"
      /\ O[13] = "flash" /\ O[14] = "start" /\ O[15] = "sram" /\ O[16] = "stop"
  OBVIOUS
<1> HIDE DEF O
<1>4. \A i \in 1..16 : O[i] = "start" => i = 14 BY <1>3
<1>5. \A p \in blinky!Parts \ {"sram"} : \E i \in 1..13 : O[i] = p
  <2> SUFFICES ASSUME NEW p \in blinky!Parts \ {"sram"} PROVE \E i \in 1..13 : O[i] = p
    OBVIOUS
  <2>1. p \in {O[1], O[2], O[3], O[4], O[5], O[6], O[7], O[8], O[9], O[10],
               O[11], O[12], O[13]}
    BY <1>3 DEF blinky!Parts, blinky!Registers, blinky!DmaTests
  <2> QED BY <2>1
<1> QED BY <1>1, <1>2, <1>4, <1>5

-----------------------------------------------------------------------------
(* The invariant is inductive.                                             *)

\* Nothing is tested and nothing lit at power-on.
LEMMA InitLedInv == blinky!Init => LedInv
<1> SUFFICES ASSUME blinky!Init PROVE LedInv OBVIOUS
<1> USE DEF blinky!Init
<1>1. TypeOK
  <2>1. Counts BY DEF Counts
  <2>2. tim4 \in [on : BOOLEAN, uif : BOOLEAN,
    enabled : BOOLEAN] /\ lit \subseteq {"b12", "c13"} OBVIOUS
  <2>3. QED BY <2>1, <2>2 DEF TypeOK, Kinds
<1>2. LitLate BY DEF LitLate
<1>3. Passed BY DEF Passed
<1>4. Dark /\ Transfer /\ Genuine BY DEF Dark, Transfer, Genuine
<1> QED BY <1>1, <1>2, <1>3, <1>4 DEF LedInv

\* The counters are natural numbers.
LEMMA CountsStep == Counts /\ [blinky!Next]_(blinky!vars) => Counts'
<1> SUFFICES ASSUME Counts, [blinky!Next]_(blinky!vars) PROVE Counts' OBVIOUS
<1> USE DEF Counts
<1>1. CASE blinky!ReportFalse BY <1>1 DEF blinky!ReportFalse, blinky!PutOut, blinky!dmas
<1>2. CASE blinky!Skip BY <1>2 DEF blinky!Skip, blinky!led, blinky!dmas
<1>3. CASE blinky!RegisterTest
  BY <1>3 DEF blinky!RegisterTest, blinky!report, blinky!dmas
<1>4. CASE blinky!dma_test BY <1>4 DEF blinky!dma_test, blinky!led
<1>5. CASE blinky!DmaEnable BY <1>5 DEF blinky!DmaEnable, blinky!led
<1>6. CASE blinky!DmaCheck
  BY <1>6 DEF blinky!DmaCheck, blinky!report, blinky!led, blinky!dmas
<1>7. CASE blinky!flash_test
  BY <1>7 DEF blinky!flash_test, blinky!report, blinky!led, blinky!dmas
<1>8. CASE blinky!Start BY <1>8 DEF blinky!Start, blinky!dmas
<1>9. CASE blinky!SramFails BY <1>9 DEF blinky!SramFails, blinky!led, blinky!dmas
<1>10. CASE blinky!Stop BY <1>10 DEF blinky!Stop, blinky!led, blinky!dmas
<1>11. CASE blinky!EXC_blinky BY <1>11 DEF blinky!EXC_blinky, blinky!dmas
<1>12. CASE blinky!Overflow BY <1>12 DEF blinky!Overflow, blinky!main, blinky!dmas
<1>13. CASE blinky!IRQ_tim4 BY <1>13 DEF blinky!IRQ_tim4, blinky!main, blinky!dmas
<1>14. CASE blinky!Copied BY <1>14 DEF blinky!Copied, blinky!main, blinky!led
<1>15. CASE blinky!Spurious BY <1>15 DEF blinky!Spurious, blinky!main, blinky!led
<1>16. CASE blinky!IRQ_dma_tc BY <1>16 DEF blinky!IRQ_dma_tc, blinky!main, blinky!led
<1>17. CASE UNCHANGED blinky!vars
  BY <1>17 DEF blinky!vars, blinky!main, blinky!led, blinky!dmas
<1> QED BY <1>1, <1>2, <1>3, <1>4, <1>5, <1>6, <1>7, <1>8, <1>9, <1>10, <1>11,
          <1>12, <1>13, <1>14, <1>15, <1>16, <1>17 DEF blinky!Next, blinky!Main

\* Everything else keeps its type.
LEMMA KindsStep == Kinds /\ [blinky!Next]_(blinky!vars) => Kinds'
<1> SUFFICES ASSUME Kinds, [blinky!Next]_(blinky!vars) PROVE Kinds' OBVIOUS
<1> USE DEF Kinds
<1>1. CASE blinky!ReportFalse BY <1>1 DEF blinky!ReportFalse, blinky!PutOut, blinky!dmas
<1>2. CASE blinky!Skip BY <1>2 DEF blinky!Skip, blinky!led, blinky!dmas
<1>3. CASE blinky!RegisterTest
  BY <1>3 DEF blinky!RegisterTest, blinky!report, blinky!dmas
<1>4. CASE blinky!dma_test BY <1>4 DEF blinky!dma_test, blinky!led
<1>5. CASE blinky!DmaEnable BY <1>5 DEF blinky!DmaEnable, blinky!led
<1>6. CASE blinky!DmaCheck
  BY <1>6 DEF blinky!DmaCheck, blinky!report, blinky!led, blinky!dmas
<1>7. CASE blinky!flash_test
  BY <1>7 DEF blinky!flash_test, blinky!report, blinky!led, blinky!dmas
<1>8. CASE blinky!Start BY <1>8 DEF blinky!Start, blinky!dmas
<1>9. CASE blinky!SramFails BY <1>9 DEF blinky!SramFails, blinky!led, blinky!dmas
<1>10. CASE blinky!Stop BY <1>10 DEF blinky!Stop, blinky!led, blinky!dmas
<1>11. CASE blinky!EXC_blinky BY <1>11 DEF blinky!EXC_blinky, blinky!dmas
<1>12. CASE blinky!Overflow BY <1>12 DEF blinky!Overflow, blinky!main, blinky!dmas
<1>13. CASE blinky!IRQ_tim4 BY <1>13 DEF blinky!IRQ_tim4, blinky!main, blinky!dmas
<1>14. CASE blinky!Copied BY <1>14 DEF blinky!Copied, blinky!main, blinky!led
<1>15. CASE blinky!Spurious BY <1>15 DEF blinky!Spurious, blinky!main, blinky!led
<1>16. CASE blinky!IRQ_dma_tc BY <1>16 DEF blinky!IRQ_dma_tc, blinky!main, blinky!led
<1>17. CASE UNCHANGED blinky!vars
  BY <1>17 DEF blinky!vars, blinky!main, blinky!led, blinky!dmas
<1> QED BY <1>1, <1>2, <1>3, <1>4, <1>5, <1>6, <1>7, <1>8, <1>9, <1>10, <1>11,
          <1>12, <1>13, <1>14, <1>15, <1>16, <1>17 DEF blinky!Next, blinky!Main

\* The LED stays dark before the 14th step is done.
LEMMA LitLateStep == TypeOK /\ LitLate /\ Dark /\ [blinky!Next]_(blinky!vars) =>
  LitLate'
<1> SUFFICES ASSUME TypeOK, LitLate, Dark, [blinky!Next]_(blinky!vars)
  PROVE LitLate' OBVIOUS
<1> USE DEF TypeOK, Counts, Kinds, LitLate, Dark
<1>1. CASE blinky!ReportFalse BY <1>1 DEF blinky!ReportFalse, blinky!PutOut, blinky!dmas
<1>2. CASE blinky!Skip BY <1>2 DEF blinky!Skip, blinky!led, blinky!dmas
<1>3. CASE blinky!RegisterTest
  BY <1>3 DEF blinky!RegisterTest, blinky!report, blinky!dmas
<1>4. CASE blinky!dma_test BY <1>4 DEF blinky!dma_test, blinky!led
<1>5. CASE blinky!DmaEnable BY <1>5 DEF blinky!DmaEnable, blinky!led
<1>6. CASE blinky!DmaCheck
  BY <1>6 DEF blinky!DmaCheck, blinky!report, blinky!led, blinky!dmas
<1>7. CASE blinky!flash_test
  BY <1>7 DEF blinky!flash_test, blinky!report, blinky!led, blinky!dmas
<1>8. CASE blinky!Start BY <1>8, OrderFacts DEF blinky!Start, blinky!dmas, blinky!Test
<1>9. CASE blinky!SramFails BY <1>9 DEF blinky!SramFails, blinky!led, blinky!dmas
<1>10. CASE blinky!Stop BY <1>10 DEF blinky!Stop, blinky!led, blinky!dmas
<1>11. CASE blinky!EXC_blinky BY <1>11 DEF blinky!EXC_blinky, blinky!dmas
<1>12. CASE blinky!Overflow BY <1>12 DEF blinky!Overflow, blinky!main, blinky!dmas
<1>13. CASE blinky!IRQ_tim4 BY <1>13 DEF blinky!IRQ_tim4, blinky!main, blinky!dmas
<1>14. CASE blinky!Copied BY <1>14 DEF blinky!Copied, blinky!main, blinky!led
<1>15. CASE blinky!Spurious BY <1>15 DEF blinky!Spurious, blinky!main, blinky!led
<1>16. CASE blinky!IRQ_dma_tc BY <1>16 DEF blinky!IRQ_dma_tc, blinky!main, blinky!led
<1>17. CASE UNCHANGED blinky!vars
  BY <1>17 DEF blinky!vars, blinky!main, blinky!led, blinky!dmas
<1> QED BY <1>1, <1>2, <1>3, <1>4, <1>5, <1>6, <1>7, <1>8, <1>9, <1>10, <1>11,
          <1>12, <1>13, <1>14, <1>15, <1>16, <1>17 DEF blinky!Next, blinky!Main

\* What report(FALSE) has put out stays out.
LEMMA DarkStep == Kinds /\ Dark /\ [blinky!Next]_(blinky!vars) => Dark'
<1> SUFFICES ASSUME Kinds, Dark, [blinky!Next]_(blinky!vars) PROVE Dark' OBVIOUS
<1> USE DEF Kinds, Dark
<1>1. CASE blinky!ReportFalse BY <1>1 DEF blinky!ReportFalse, blinky!PutOut, blinky!dmas
<1>2. CASE blinky!Skip BY <1>2 DEF blinky!Skip, blinky!led, blinky!dmas
<1>3. CASE blinky!RegisterTest
  BY <1>3 DEF blinky!RegisterTest, blinky!report, blinky!dmas
<1>4. CASE blinky!dma_test BY <1>4 DEF blinky!dma_test, blinky!led
<1>5. CASE blinky!DmaEnable BY <1>5 DEF blinky!DmaEnable, blinky!led
<1>6. CASE blinky!DmaCheck
  BY <1>6 DEF blinky!DmaCheck, blinky!report, blinky!led, blinky!dmas
<1>7. CASE blinky!flash_test
  BY <1>7 DEF blinky!flash_test, blinky!report, blinky!led, blinky!dmas
<1>8. CASE blinky!Start BY <1>8 DEF blinky!Start, blinky!dmas
<1>9. CASE blinky!SramFails BY <1>9 DEF blinky!SramFails, blinky!led, blinky!dmas
<1>10. CASE blinky!Stop BY <1>10 DEF blinky!Stop, blinky!led, blinky!dmas
<1>11. CASE blinky!EXC_blinky BY <1>11 DEF blinky!EXC_blinky, blinky!dmas
<1>12. CASE blinky!Overflow BY <1>12 DEF blinky!Overflow, blinky!main, blinky!dmas
<1>13. CASE blinky!IRQ_tim4 BY <1>13 DEF blinky!IRQ_tim4, blinky!main, blinky!dmas
<1>14. CASE blinky!Copied BY <1>14 DEF blinky!Copied, blinky!main, blinky!led
<1>15. CASE blinky!Spurious BY <1>15 DEF blinky!Spurious, blinky!main, blinky!led
<1>16. CASE blinky!IRQ_dma_tc BY <1>16 DEF blinky!IRQ_dma_tc, blinky!main, blinky!led
<1>17. CASE UNCHANGED blinky!vars
  BY <1>17 DEF blinky!vars, blinky!main, blinky!led, blinky!dmas
<1> QED BY <1>1, <1>2, <1>3, <1>4, <1>5, <1>6, <1>7, <1>8, <1>9, <1>10, <1>11,
          <1>12, <1>13, <1>14, <1>15, <1>16, <1>17 DEF blinky!Next, blinky!Main

\* A transfer interrupts once unless the chip is a fake.
LEMMA TransferStep == Kinds /\ Transfer /\ [blinky!Next]_(blinky!vars) => Transfer'
<1> SUFFICES ASSUME Kinds, Transfer, [blinky!Next]_(blinky!vars) PROVE Transfer' OBVIOUS
<1> USE DEF Kinds, Transfer, blinky!Test
<1>1. CASE blinky!ReportFalse BY <1>1 DEF blinky!ReportFalse, blinky!PutOut, blinky!dmas
<1>2. CASE blinky!Skip BY <1>2 DEF blinky!Skip, blinky!led, blinky!dmas
<1>3. CASE blinky!RegisterTest
  BY <1>3 DEF blinky!RegisterTest, blinky!report, blinky!dmas
<1>4. CASE blinky!dma_test BY <1>4 DEF blinky!dma_test, blinky!led
<1>5. CASE blinky!DmaEnable BY <1>5 DEF blinky!DmaEnable, blinky!led
<1>6. CASE blinky!DmaCheck
  BY <1>6 DEF blinky!DmaCheck, blinky!report, blinky!led, blinky!dmas
<1>7. CASE blinky!flash_test
  BY <1>7 DEF blinky!flash_test, blinky!report, blinky!led, blinky!dmas
<1>8. CASE blinky!Start BY <1>8 DEF blinky!Start, blinky!dmas
<1>9. CASE blinky!SramFails BY <1>9 DEF blinky!SramFails, blinky!led, blinky!dmas
<1>10. CASE blinky!Stop BY <1>10 DEF blinky!Stop, blinky!led, blinky!dmas
<1>11. CASE blinky!EXC_blinky BY <1>11 DEF blinky!EXC_blinky, blinky!dmas
<1>12. CASE blinky!Overflow BY <1>12 DEF blinky!Overflow, blinky!main, blinky!dmas
<1>13. CASE blinky!IRQ_tim4 BY <1>13 DEF blinky!IRQ_tim4, blinky!main, blinky!dmas
<1>14. CASE blinky!Copied BY <1>14 DEF blinky!Copied, blinky!main, blinky!led
<1>15. CASE blinky!Spurious BY <1>15 DEF blinky!Spurious, blinky!main, blinky!led
<1>16. CASE blinky!IRQ_dma_tc BY <1>16 DEF blinky!IRQ_dma_tc, blinky!main, blinky!led
<1>17. CASE UNCHANGED blinky!vars
  BY <1>17 DEF blinky!vars, blinky!main, blinky!led, blinky!dmas
<1> QED BY <1>1, <1>2, <1>3, <1>4, <1>5, <1>6, <1>7, <1>8, <1>9, <1>10, <1>11,
          <1>12, <1>13, <1>14, <1>15, <1>16, <1>17 DEF blinky!Next, blinky!Main

\* The parts behind main() are good.
LEMMA PassedStep ==
  TypeOK /\ Passed /\ Dark /\ Transfer /\ [blinky!Next]_(blinky!vars) => Passed'
<1> SUFFICES ASSUME TypeOK, Passed, Dark, Transfer,
  [blinky!Next]_(blinky!vars) PROVE Passed' OBVIOUS
<1> USE DEF TypeOK, Counts, Kinds, Passed, Dark, Transfer, blinky!Test,
  blinky!Absent, blinky!Good
<1>1. CASE blinky!ReportFalse
  <2>1. CASE phase = "c13"
    <3>1. failed' BY <1>1, <2>1 DEF blinky!ReportFalse
    <3>2. lit' = lit \ {"c13"} BY <1>1, <2>1 DEF blinky!ReportFalse, blinky!PutOut
    <3>3. lit \subseteq {"c13"} BY <2>1
    <3>4. lit' = {} BY <3>2, <3>3
    <3>5. QED BY <3>1, <3>4
  <2>2. CASE phase # "c13"
    <3>1. UNCHANGED <<at, chip>> /\ phase # "exception"
      BY <1>1, <2>2 DEF blinky!ReportFalse
    <3>2. (~failed' => ~failed) /\ (lit' # {} => lit # {})
      BY <1>1, <2>2 DEF blinky!ReportFalse, blinky!PutOut
    <3>3. QED BY <3>1, <3>2
  <2>3. QED BY <2>1, <2>2
<1>2. CASE blinky!Skip BY <1>2 DEF blinky!Skip, blinky!led, blinky!dmas
<1>3. CASE blinky!RegisterTest
  BY <1>3 DEF blinky!RegisterTest, blinky!report, blinky!dmas
<1>4. CASE blinky!dma_test BY <1>4 DEF blinky!dma_test, blinky!led
<1>5. CASE blinky!DmaEnable BY <1>5 DEF blinky!DmaEnable, blinky!led
<1>6. CASE blinky!DmaCheck
  BY <1>6 DEF blinky!DmaCheck, blinky!report, blinky!led, blinky!dmas
<1>7. CASE blinky!flash_test
  BY <1>7 DEF blinky!flash_test, blinky!report, blinky!led, blinky!dmas
<1>8. CASE blinky!Start
  BY <1>8 DEF blinky!Start, blinky!dmas, blinky!Parts, blinky!Registers, blinky!DmaTests
<1>9. CASE blinky!SramFails BY <1>9 DEF blinky!SramFails, blinky!led, blinky!dmas
<1>10. CASE blinky!Stop
  BY <1>10 DEF blinky!Stop, blinky!led, blinky!dmas, blinky!Parts,
    blinky!Registers, blinky!DmaTests
<1>11. CASE blinky!EXC_blinky BY <1>11 DEF blinky!EXC_blinky, blinky!dmas
<1>12. CASE blinky!Overflow BY <1>12 DEF blinky!Overflow, blinky!main, blinky!dmas
<1>13. CASE blinky!IRQ_tim4 BY <1>13 DEF blinky!IRQ_tim4, blinky!main, blinky!dmas
<1>14. CASE blinky!Copied BY <1>14 DEF blinky!Copied, blinky!main, blinky!led
<1>15. CASE blinky!Spurious BY <1>15 DEF blinky!Spurious, blinky!main, blinky!led
<1>16. CASE blinky!IRQ_dma_tc BY <1>16 DEF blinky!IRQ_dma_tc, blinky!main, blinky!led
<1>17. CASE UNCHANGED blinky!vars
  BY <1>17 DEF blinky!vars, blinky!main, blinky!led, blinky!dmas
<1> QED BY <1>1, <1>2, <1>3, <1>4, <1>5, <1>6, <1>7, <1>8, <1>9, <1>10, <1>11,
          <1>12, <1>13, <1>14, <1>15, <1>16, <1>17 DEF blinky!Next, blinky!Main

\* Nothing goes wrong on a genuine chip.
LEMMA GenuineStep == Kinds /\ Transfer /\ Genuine /\ [blinky!Next]_(blinky!vars) =>
  Genuine'
<1> SUFFICES ASSUME Kinds, Transfer, Genuine, [blinky!Next]_(blinky!vars)
  PROVE Genuine' OBVIOUS
<1> USE DEF Kinds, Transfer, Genuine, blinky!Tested, blinky!Parts,
  blinky!Registers, blinky!DmaTests, blinky!Good, blinky!Absent
<1>1. CASE blinky!ReportFalse BY <1>1 DEF blinky!ReportFalse, blinky!PutOut, blinky!dmas
<1>2. CASE blinky!Skip BY <1>2 DEF blinky!Skip, blinky!led, blinky!dmas
<1>3. CASE blinky!RegisterTest
  BY <1>3 DEF blinky!RegisterTest, blinky!report, blinky!dmas
<1>4. CASE blinky!dma_test BY <1>4 DEF blinky!dma_test, blinky!led
<1>5. CASE blinky!DmaEnable BY <1>5 DEF blinky!DmaEnable, blinky!led
<1>6. CASE blinky!DmaCheck
  BY <1>6 DEF blinky!DmaCheck, blinky!report, blinky!led, blinky!dmas
<1>7. CASE blinky!flash_test
  BY <1>7 DEF blinky!flash_test, blinky!report, blinky!led, blinky!dmas
<1>8. CASE blinky!Start BY <1>8 DEF blinky!Start, blinky!dmas
<1>9. CASE blinky!SramFails BY <1>9 DEF blinky!SramFails, blinky!led, blinky!dmas
<1>10. CASE blinky!Stop BY <1>10 DEF blinky!Stop, blinky!led, blinky!dmas
<1>11. CASE blinky!EXC_blinky BY <1>11 DEF blinky!EXC_blinky, blinky!dmas
<1>12. CASE blinky!Overflow BY <1>12 DEF blinky!Overflow, blinky!main, blinky!dmas
<1>13. CASE blinky!IRQ_tim4 BY <1>13 DEF blinky!IRQ_tim4, blinky!main, blinky!dmas
<1>14. CASE blinky!Copied BY <1>14 DEF blinky!Copied, blinky!main, blinky!led
<1>15. CASE blinky!Spurious BY <1>15 DEF blinky!Spurious, blinky!main, blinky!led
<1>16. CASE blinky!IRQ_dma_tc BY <1>16 DEF blinky!IRQ_dma_tc, blinky!main, blinky!led
<1>17. CASE UNCHANGED blinky!vars
  BY <1>17 DEF blinky!vars, blinky!main, blinky!led, blinky!dmas
<1> QED BY <1>1, <1>2, <1>3, <1>4, <1>5, <1>6, <1>7, <1>8, <1>9, <1>10, <1>11,
          <1>12, <1>13, <1>14, <1>15, <1>16, <1>17 DEF blinky!Next, blinky!Main

-----------------------------------------------------------------------------
(* The theorems.                                                           *)

\* The invariant holds in every reachable state.
THEOREM Invariant == blinky!Spec => []LedInv
<1>1. LedInv /\ [blinky!Next]_(blinky!vars) => LedInv'
  BY CountsStep, KindsStep, LitLateStep, DarkStep, TransferStep, PassedStep, GenuineStep
     DEF LedInv, TypeOK
<1> QED BY <1>1, InitLedInv, PTL DEF blinky!Spec

\* "Extinguish the LED(s) permanently" (blinky.c): neither the TIM4 interrupt
\* nor a later test lights the LED of a chip that failed or met an exception.
THEOREM DarkForGood == blinky!Spec => []blinky!OutForGood
<1>1. LedInv => blinky!OutForGood
  BY DEF LedInv, Dark, blinky!OutForGood, blinky!Extinguished
<1> QED BY <1>1, Invariant, PTL

\* main() of blinky.c lights the LED only when every part of the chip's table,
\* bar the SRAM, has been tested and found good.
THEOREM LitVouches == blinky!Spec => []blinky!LitMeansGood
<1>1. LedInv => blinky!LitMeansGood
  <2> SUFFICES ASSUME LedInv, lit # {}, NEW p \in chip.bad, p \in blinky!Tested,
    p # "sram"
               PROVE FALSE
    BY DEF blinky!LitMeansGood
  <2>1. PICK i \in 1..13 : blinky!Order[i] = p BY OrderFacts DEF blinky!Tested
  <2>2. i \in 1..(at - 1) /\ i \in DOMAIN blinky!Order
    BY OrderFacts DEF LedInv, LitLate, TypeOK, Counts
  <2>3. blinky!Order[i] \in blinky!Absent BY <2>1, <2>2 DEF LedInv, Passed, Dark
  <2> QED BY <2>1, <2>3 DEF blinky!Tested
<1> QED BY <1>1, Invariant, PTL

\* No timing of the interrupts makes blinky.c fail a genuine chip.
THEOREM GenuineChipPasses == blinky!Spec => []blinky!GenuinePasses
<1>1. LedInv => blinky!GenuinePasses BY DEF LedInv, Genuine, blinky!GenuinePasses
<1> QED BY <1>1, Invariant, PTL
=============================================================================
