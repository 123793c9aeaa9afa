SPECIFICATION FairSpec
CONSTANTS
  Streams <- MCStreams
  OneByte = 5
  OpLen = 3
  MinPulse = 2
  Width = 8
  Ring = 10
  UBufSz = 11
  Threshold = 9
  LowWater = 4
  Mps = 3
  Speed = 2
INVARIANTS TimeConserved FluxesFit DecodesTo InOrder Whole StaleBounded
PROPERTIES WriteEnds
