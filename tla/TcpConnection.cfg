SPECIFICATION FairSpec
CONSTANTS
  Loop = L
  Users = {u}
  UserCalls = {"send", "shutdown", "forceClose"}
  MaxCalls = 3
  Owners = {"client", "server", "threadedServer"}
INVARIANTS ClosedOnce StaysAlive NothingDangles
PROPERTIES PeerCloseHandled ForcedCloseCloses
CHECK_DEADLOCK FALSE
