SPECIFICATION PcmSpec
CONSTANTS
  MaxLength = 5
  MaxBlock = 3
  MaxRequest = 2
  ChunkFrames = 2
  FrameBytes = 2
  MaxRead = 5
INVARIANTS
  PcmInOrder
  WriteMeansWhole
PROPERTY
  ImplementsContract
