\* A request is pushed after the drain.
SPECIFICATION Spec
CONSTANTS
  w1 = w1  w2 = w2  f1 = f1  f2 = f2  r1 = r1  r2 = r2  None = None
  Worker <- OneWorker
  Fcgi <- OneThread
  Request <- TwoRequests
  Leaving <- OneWorker
INVARIANT NothingStranded
