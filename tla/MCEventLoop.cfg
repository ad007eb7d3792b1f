SPECIFICATION MCSpec
CONSTANTS
  Loop = loop_thread
  Callers = {c1, c2}
  MaxCalls = 2
  MaxTotal = 3
INVARIANTS NoLostWakeup NoSleepOnQuit
PROPERTIES QueueImplemented FunctorsRun EarlyFunctorsRun QuitStopsLoop
