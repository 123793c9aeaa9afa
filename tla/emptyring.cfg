SPECIFICATION Spec
CONSTANTS
  Streams <- AstableFirst
  OneByte = 5
  OpLen = 3
  MinPulse = 2
  Width = 8
  Ring = 10
  UBufSz = 16
  Threshold = 6
  LowWater = 4
  Mps = 8
  Speed = 2
PROPERTIES FluxBeforeDma
