SPECIFICATION FairSpec
CONSTANTS
  Retry = TRUE
  MaxConnects = 2
  MaxStops = 2
INVARIANTS OneAttempt NoSocketLeak NeverForgotten StoppedMeansIdle
PROPERTY Reconnects
CHECK_DEADLOCK FALSE
