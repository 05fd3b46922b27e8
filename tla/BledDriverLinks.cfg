\* Connection management with two handles; every wait may time out.
SPECIFICATION Spec
CONSTANTS
  m1 = m1  m2 = m2  a1 = a1   None = None
  Handle <- Handles
  Mac <- Devices
  Attribute <- OneAttribute
  Ops <- LinkOps
  MayTimeOut <- Anything
  ChannelCap = 2
  EventCap = 2
SYMMETRY Symmetry
INVARIANTS TypeOK RegisterDiscipline MirrorsLinks OneHandlePerDevice
