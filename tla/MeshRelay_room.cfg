CONSTANTS
  m = m
  s = s
  t = t
  Node = {m, s, t}
  Master = {m}
  Link <- AllLinks
  Lossy = TRUE
  MAX_HOPS = 3
  RelayOriginSlot = {0}
  PendingSlot = {0, 1}
  RxDepth = 2
  MaxSeq = 2
  MaxBoots = 1
SPECIFICATION Spec
SYMMETRY Slaves
INVARIANTS
  TypeOK
  CopiesAreGenuine
  NoDuplicatePending
CHECK_DEADLOCK FALSE
