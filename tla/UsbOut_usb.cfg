CONSTANTS
  QueuePackets = 3
  FifoPackets = 1
  FrameLength = 2
  USB_STALL_DROP = 0
SPECIFICATION Spec
INVARIANTS
  TypeOK
  LockedFramesContiguous
  NoGhostStream
