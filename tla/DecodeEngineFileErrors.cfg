SPECIFICATION Spec
CONSTANTS
  MaxLong = 4
  MaxLength = 3
  MaxLinks = 2
  MaxBlock = 2
  MaxOps = 2
  FileReadErrors = TRUE
INVARIANT CompleteMeansEndOfStream
