\* A message in pieces.
SPECIFICATION Spec
CONSTANTS
  Nothing = Nothing
  HeaderSize = 4
  Sizes <- JustThree
  MaxMessages = 1
INVARIANTS MessageWhole
CHECK_DEADLOCK FALSE
