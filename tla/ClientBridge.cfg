\* Two commands and two events; either end may vanish at any moment.
SPECIFICATION FairSpec
CONSTANTS
  c1 = c1  c2 = c2  e1 = e1  e2 = e2  Garbage = Garbage
  Cmd <- Commands
  Evt <- Events
  MaxSent = 2
  MaxRetry = 1
INVARIANTS TypeOK CommandsCarried EventsCarried
PROPERTY ClosedEnds
