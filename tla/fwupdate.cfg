SPECIFICATION FairSpec
CONSTANTS
  MainImages <- MCMainImages
  BootImages <- MCBootImages
  FwSz = 4
  BlSz = 4
  PageSz = 2
  MaxPacket = 3
  MaxStops = 2
  MaxFaults = 3
INVARIANTS VerdictTrue WildOnlyIfCut BootloaderKept
PROPERTIES Recovers
