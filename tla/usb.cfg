SPECIFICATION Spec
CONSTANTS
  Packets = {p1, p2}
  None = None
  Zlp = Zlp
  NBUF = 2
  RxNr = 4
  Fifo = 4
  Capacity = 4
  Rough = {}
  Requests <- MCRequests
  BufSz = 4
  Eager = TRUE
INVARIANTS RxAsserts TxReadyTrue DataTrue OutOnce
PROPERTIES OutPacketsArrive InPacketsArrive TransferEnds AddressAsked
