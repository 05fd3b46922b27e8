\* All kinds of commands; a connection attempt does not outlast its timeout.
SPECIFICATION Spec
CONSTANTS
  m1 = m1  m2 = m2  a1 = a1   None = None
  Handle <- Handles
  Mac <- Devices
  Attribute <- OneAttribute
  Ops <- MixedOps
  MayTimeOut <- PromptConnect
  ChannelCap = 2
  EventCap = 1
SYMMETRY Symmetry
INVARIANTS OneAnswer OwnProcedure ReplyIsForTarget ConnectSound GapProcedureOwned
PROPERTY WritesReachTarget
