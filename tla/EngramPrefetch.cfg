SPECIFICATION Spec
CONSTANTS
  Layers = 2
  MaxSteps = 2
  MaxErrors = 1
  MaxOthers = 1
INVARIANTS
  GatherExactWhenSmooth
  HashedExact
  NoStreamRace
