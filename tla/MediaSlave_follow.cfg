CONSTANTS
  Frame <- OneMedia
  ClockSpan = 4
  LINK_LOST_TIMEOUT_MS = 1
  LossPolicies = {FALSE, TRUE}
  MaxBoots = 1
SPECIFICATION FairSpec
PROPERTIES
  EventuallyFollows
  SilenceIsNoticed
  PlaybackEndsInSilence
INVARIANTS
  HostAgrees
