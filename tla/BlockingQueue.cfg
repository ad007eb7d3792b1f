SPECIFICATION QueueFairSpec
CONSTANTS
  Thread = {t1, t2, t3, t4}
  notEmpty_ = not_empty
  Cond = {not_empty}
  MaxLen = 3
INVARIANT ItemsHaveTakers
PROPERTY TakersServed
CHECK_DEADLOCK FALSE
