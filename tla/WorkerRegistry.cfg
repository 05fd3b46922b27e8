\* Two workers that may leave, two FCGI threads, two requests that may share a queue.
SPECIFICATION FairSpec
CONSTANTS
  w1 = w1  w2 = w2  f1 = f1  f2 = f2  r1 = r1  r2 = r2  None = None
  Worker <- TwoWorkers
  Fcgi <- TwoThreads
  Request <- TwoRequests
  Leaving <- TwoWorkers
INVARIANTS TypeOK OneOwner StrandedOnlyLate
PROPERTIES ImplementsService RequestsAnswered
