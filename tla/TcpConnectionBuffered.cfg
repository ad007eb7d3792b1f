SPECIFICATION FairSpec
CONSTANTS
  Loop = L
  Users = {}
  UserCalls = {}
  MaxCalls = 1
  Owners = {"client"}
PROPERTIES BufferedIsWritten
CHECK_DEADLOCK FALSE
