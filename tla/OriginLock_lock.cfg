CONSTANTS
  a = a
  b = b
  Master = {a, b}
  NoMac = NoMac
  Layer = {"main", "bar"}
  Subscribed = {"main"}
  NoLayer = "none"
  ClockSpan = 4
  ORIGIN_LOCK_RELEASE_MS = 1
  SeqSpan = 4
  MEDIASYNC_MAX_GAP = 1
  SyncGapsMax = 1
  MaxLate = 0
  MaxBoots = 0
SPECIFICATION Spec
SYMMETRY Masters
INVARIANTS
  PinHolds
PROPERTIES
  FollowsOneMaster
  GapsAreReal
