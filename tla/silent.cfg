SPECIFICATION FairSpec
CONSTANTS
  UserPins <- FewPins
  Kind <- LiveKind
  SyncMax = 0
  LastCyl = 1
  FactoryDelays <- LiveDelays
  HostDelays = {}
  HostCyls = {}
  HostUnits <- TwoUnits
  HostBuses = {1}
  HostPins = {}
  HasTestMode = TRUE
  MayFallSilent = TRUE
  EraseTicks = {0}
  StartPos <- LiveStart
  UBufSz = 1
  Mps = 2
  TxSlots = 1
PROPERTIES GateCloses SilentHostQuiesces
