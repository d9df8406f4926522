CONSTANTS
  BlindChunks <- ShortAndLong
  AckedChunk = 100
  LastChunk = 50
  Chunks = 4
  SYSEX_BUFFER_SIZE = 300
  Misread = {349, 350, 351, 450}
  MaxFaults = 5
SPECIFICATION FairSpec
CHECK_DEADLOCK FALSE
INVARIANTS
  TypeOK
  SessionInStep
  AckedIsWritten
  ShortFramesBoot
PROPERTIES
  ImageIsWhole
  GarbageIsCaught
  AckedUpdateBoots
