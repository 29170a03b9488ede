SPECIFICATION Spec
CONSTANTS
  Length = 2
  MaxSeeks = 2
  MaxFaults = 0
  None = None
INVARIANT AcceptedSeekServed
