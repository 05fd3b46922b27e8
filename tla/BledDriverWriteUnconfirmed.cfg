\* The device disconnects before it completes a write.
SPECIFICATION Spec
CONSTANTS
  m1 = m1  m2 = m2  a1 = a1   None = None
  Handle <- OneHandle
  Mac <- OneDevice
  Attribute <- OneAttribute
  Ops <- GattOps
  MayTimeOut <- Prompt
  ChannelCap = 2
  EventCap = 2
INVARIANT WriteConfirmed
