SPECIFICATION Spec
CONSTANTS
  MaxLong = 4
  MaxLength = 3
  MaxLinks = 3
  MaxBlock = 2
  MaxOps = 2
  FileReadErrors = FALSE
INVARIANTS FaultsDecideTheOutcome
PROPERTIES ImplementsContract FirstExceptionWins OperationsReturn
