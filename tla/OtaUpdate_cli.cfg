CONSTANTS
  BlindChunks <- CliChunk
  AckedChunk = 100
  LastChunk = 50
  Chunks = 3
  SYSEX_BUFFER_SIZE = 512
  Misread = {0}
  MaxFaults = 0
SPECIFICATION Spec
CHECK_DEADLOCK FALSE
INVARIANTS
  LosslessUpdateBoots
