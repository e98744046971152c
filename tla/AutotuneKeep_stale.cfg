SPECIFICATION Spec
CONSTANTS
  Ranks = {r1, r2}
  Configs = {a, b}
  Keeps = {TRUE, FALSE}
  MaxBoots = 3
  MaxCrashes = 0
  MaxFailures = 0
  NoFile = NoFile
INVARIANTS
  LoadedForLaunch
