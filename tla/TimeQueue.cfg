SPECIFICATION FairSpec
CONSTANTS
  Timer = {t1, t2, t3}
  Intervals = {1, 2}
  MaxTime = 2
INVARIANTS NoLostTimer TimerInOnePlace
PROPERTIES TimersImplemented TimersRun
CHECK_DEADLOCK FALSE
