------------------------------ MODULE MCFloppy ------------------------------
(* Small instances of Floppy for TLC.                                      *)
EXTENDS Floppy

D(settle, pre, post, wd) ==
  [seek_settle |-> settle, pre_write |-> pre, post_write |-> post,
   watchdog |-> wd]

AllPins == {2, 4, 6, 10, 12, 14, 16}   \* v4 boards
FewPins == {10, 14}                    \* boards with one select and one motor
OneUnit == {0}
TwoUnits == {0, 1}

\* timing: a drive that steps outward beyond track 0, several delay settings;
\* 3 is beyond SyncMax
TimingKind == [u \in Units |-> IF u = 0 THEN "nostop" ELSE "absent"]
TimingFactory == D(1, 1, 2, 3)
TimingHost == {D(1, 1, 2, 3), D(3, 2, 1, 2)}
TimingCyls == {0, 1}
TimingStart == {[u \in Units |-> 0]}

\* drives: a flippy drive, and one that the host can select itself, on a board
\* without a motor line for it
DrivesPins == {10, 12, 14}
DrivesKind == [u \in Units |-> CASE u = 0 -> "flippy" [] u = 1 -> "normal"
                                 [] OTHER -> "absent"]
DrivesFactory == D(0, 0, 0, 1)
DrivesCyls == {-9, -8, 0}
DrivesStart == {[u \in Units |-> IF u = 0 THEN p ELSE 1] : p \in {-8, 2}}
ThreeUnits == {0, 1, 2}

\* silent: a board that can select unit 0 only; the watchdog lasts long enough
\* to be deferred
LiveKind == [u \in Units |-> "absent"]
LiveDelays == D(0, 0, 0, 2)
LiveStart == {[u \in Units |-> 0]}
=============================================================================
