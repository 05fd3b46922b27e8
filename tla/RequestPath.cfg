\* One dongle with one connection, two devices, and requests of every family one after another.
SPECIFICATION Spec
CONSTANTS
  Requests <- AllRequests
  Dongle <- OneDongle
  Handle <- OneHandle
  BGAPI_WRITE_PAYLOAD <- OneByte
  MayTimeOut <- ConnectionEvents
  EventCap = 0
INVARIANTS TypeOK ParametersLegal ArgumentsArrive ChangeReported StatusTruthful BestAccepted HeaderTellsSize
PROPERTY EveryRequestAnswered
