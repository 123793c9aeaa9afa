SPECIFICATION Spec
CONSTANTS
  UserPins <- AllPins
  Kind <- TimingKind
  SyncMax = 2
  LastCyl = 3
  FactoryDelays <- TimingFactory
  HostDelays <- TimingHost
  HostCyls <- TimingCyls
  HostUnits <- OneUnit
  HostBuses = {1}
  HostPins = {}
  HasTestMode = FALSE
  MayFallSilent = FALSE
  EraseTicks = {0, 2}
  StartPos <- TimingStart
  UBufSz = 3
  Mps = 2
  TxSlots = 1
INVARIANTS TypeOK OpDelayCovers NothingEarly NoclickAtZero GateOnlyInFlux TxGuarded
