SPECIFICATION EltFairSpec
CONSTANTS
  Loop = loop_thread
  Callers = {main}
  Owner = main
  MaxCalls = 2
INVARIANTS PointerIsValid GoneMeansOver
PROPERTY DestructorReturnsOnceLooping
CHECK_DEADLOCK FALSE
