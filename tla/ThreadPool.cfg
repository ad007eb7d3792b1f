SPECIFICATION FairSpec
CONSTANTS
  Worker = {w1, w2, w3}
  Producer = {p1, p2}
  Thread = {w1, w2, w3, p1, p2}
  Capacity = 2
  notFull = not_full
  notEmpty = not_empty
  Cond = {not_full, not_empty}
INVARIANTS TasksHaveWorkers NoWorkerSleepsThroughStop
PROPERTIES OnlyOwnerStrandsProducers TasksTaken StopReturns
CHECK_DEADLOCK FALSE
