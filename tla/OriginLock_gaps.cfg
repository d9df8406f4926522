CONSTANTS
  a = a
  b = b
  Master = {a, b}
  NoMac = NoMac
  Layer = {"main"}
  Subscribed = {"main"}
  NoLayer = "none"
  ClockSpan = 3
  ORIGIN_LOCK_RELEASE_MS = 0
  SeqSpan = 4
  MEDIASYNC_MAX_GAP = 1
  SyncGapsMax = 1
  MaxLate = 1
  MaxBoots = 1
SPECIFICATION Spec
SYMMETRY Masters
INVARIANTS
  TypeOK
PROPERTIES
  GapsAreReal
