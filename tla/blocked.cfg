SPECIFICATION Spec
CONSTANTS
  Packets = {p1, p2}
  None = None
  Zlp = Zlp
  NBUF = 2
  RxNr = 4
  Fifo = 4
  Capacity = 4
  Rough = {"blocked"}
  Requests <- MCRequests
  BufSz = 4
  Eager = FALSE
INVARIANT RxAsserts
