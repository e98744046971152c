SPECIFICATION Spec
CONSTANTS
  Ranks = {r1, r2}
  Configs = {a, b}
  Keeps = {TRUE, FALSE}
  MaxBoots = 3
  MaxCrashes = 1
  MaxFailures = 1
  NoFile = NoFile
INVARIANTS
  AllOrNone
  ReusedWhenUnchanged
  KeptForLaunch
