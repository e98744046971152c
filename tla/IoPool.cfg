SPECIFICATION FairSpec
CONSTANTS
  Workers = {w1, w2}
  Callers = {c1, c2}
  Counts = {1, 5}
  Chunk = 2
  MaxJobs = 2
  MaxSpurious = 1
  NoThread = NoThread
INVARIANTS
  PoolInv
  NoStaleWorker
  NoResetUnderDrain
PROPERTIES
  ImplementsLoop
  RunReturns
