SPECIFICATION Spec
CONSTANTS
  Workers = 1
  Serves = 2
  Commands = 2
  RoCE = FALSE
  Stubborn = {0, 1}
  Unreachable = {}
  Hasty = 0
  Lost = 0
  Reboots = 0
INVARIANTS
  AnnouncedIsMine
CHECK_DEADLOCK FALSE
