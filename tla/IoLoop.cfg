SPECIFICATION LoopSpec
CONSTANTS
  Channel = {t, s1, k1, k2}
  Accepted = {s1}
  Outgoing = {k1, k2}
  MaxPending = 2
INVARIANTS PositionsAgree CallsAreAllowed DispatchedIsServed
PROPERTIES OthersKeepTheirEntry ClosedLeavesPoller
CHECK_DEADLOCK FALSE
