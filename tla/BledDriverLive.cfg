\* Liveness: every timeout possible, requests and messages without end.
SPECIFICATION FairSpec
CONSTANTS
  m1 = m1  m2 = m2  a1 = a1   None = None
  Handle <- OneHandle
  Mac <- OneDevice
  Attribute <- OneAttribute
  Ops <- LiveOps
  MayTimeOut <- Anything
  ChannelCap = 2
  EventCap = 1
PROPERTIES CommandsReturn LossNoticed
