SPECIFICATION Spec
CONSTANTS
  Files <- MCFiles
  Samples <- MCSamples
  Comments <- MCComments
  MaxBlocks = 2
  MaxEdits = 1
INVARIANTS
  MetadataMemory
  EditTellsTruth
  ReadKeepsOrder
