SPECIFICATION Spec
CONSTANTS
  UserPins <- AllPins
  Kind <- DrivesKind
  SyncMax = 1
  LastCyl = 2
  FactoryDelays <- DrivesFactory
  HostDelays = {}
  HostCyls <- DrivesCyls
  HostUnits <- TwoUnits
  HostBuses = {1}
  HostPins = {}
  HasTestMode = FALSE
  MayFallSilent = FALSE
  EraseTicks = {}
  StartPos <- DrivesStart
  UBufSz = 1
  Mps = 2
  TxSlots = 1
INVARIANT DriveInfoNamed
