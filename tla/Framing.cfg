\* Payloads in pieces of any size.
SPECIFICATION Spec
CONSTANTS
  Nothing = Nothing
  HeaderSize = 4
  Sizes <- UpToFour
  MaxMessages = 3
INVARIANTS TypeOK Aligned
CHECK_DEADLOCK FALSE
