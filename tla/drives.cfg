SPECIFICATION Spec
CONSTANTS
  UserPins <- DrivesPins
  Kind <- DrivesKind
  SyncMax = 1
  LastCyl = 2
  FactoryDelays <- DrivesFactory
  HostDelays = {}
  HostCyls <- DrivesCyls
  HostUnits <- ThreeUnits
  HostBuses = {0, 1, 2, 3}
  HostPins = {12}
  HasTestMode = FALSE
  MayFallSilent = FALSE
  EraseTicks = {}
  StartPos <- DrivesStart
  UBufSz = 1
  Mps = 2
  TxSlots = 1
INVARIANTS PinsMatch HeadTracked QuietWhenDisarmed
