SPECIFICATION FairSpec
CONSTANTS
  Workers = 1
  Serves = 2
  Commands = 2
  RoCE = FALSE
  Stubborn = {1}
  Unreachable = {1}
  Hasty = 1
  Lost = 1
  Reboots = 1
INVARIANTS
  OneLaunch
  AnnouncedIsMine
  StopIsClean
PROPERTIES
  NoTakeover
  ServeEnds
  CommandEnds
CHECK_DEADLOCK FALSE
