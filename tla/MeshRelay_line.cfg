CONSTANTS
  a = a
  b = b
  c = c
  d = d
  e = e
  Node = {a, b, c, d, e}
  Master = {a}
  Link <- Chain
  Lossy = FALSE
  MAX_HOPS = 3
  RelayOriginSlot = {0}
  PendingSlot = {0, 1, 2}
  RxDepth = 8
  MaxSeq = 2
  MaxBoots = 0
SPECIFICATION HFairSpec
PROPERTIES
  FloodDiesOut
  ChainIsCovered
CHECK_DEADLOCK FALSE
