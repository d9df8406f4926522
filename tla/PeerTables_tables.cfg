CONSTANTS
  p = p
  q = q
  r = r
  Beaconing = {p}
  Reporting = {q, r}
  MAX_SENDERS = 1
  MAX_RECEIVERS = 2
  ClockSpan = 4
  SENDER_TIMEOUT_MS = 1
  RECEIVER_TIMEOUT_MS = 0
  RECEIVER_REMOVAL_MS = 1
  Roles = {"slave", "legacy"}
SPECIFICATION FairSpec
PROPERTIES
  HeardIsShown
  MastersAreTold
INVARIANTS
  TypeOK
  EntriesHavePeers
  ListedOnce
  ListsAreRecent
