\* Three dongles, a foreign device and a tty of the board; two slots, process numbers used again.
SPECIFICATION Spec
CONSTANTS
  n1 = n1  n2 = n2  n3 = n3  usb = usb  tty = tty  p1 = p1  p2 = p2  None = None
  Dongle <- ThreeDongles
  OtherUsb <- OneUsb
  OtherTty <- OneTty
  Present <- OneUsb
  Pid <- TwoPids
  MAX_DEVICE_NR = 2
  MaxPlugs = 3
INVARIANTS TypeOK Owned OneClient HandlerNeverBlocks NoClientLeft
PROPERTY KillsOwn
SYMMETRY Symmetry
CHECK_DEADLOCK FALSE
