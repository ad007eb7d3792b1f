SPECIFICATION LoopSpec
CONSTANTS
  Channel = {t, s1, s2}
  Accepted = {s1, s2}
  Outgoing = {}
  MaxPending = 2
INVARIANT ChannelsMapIsPairs
CHECK_DEADLOCK FALSE
