SPECIFICATION Spec
CONSTANTS
  Ranks = {r0, r1}
  Root = r0
  Drafts = 2
  MaxBs = 2
  KMin = 1
  MaxSteps = 3
INVARIANTS
  ConfidenceOfStep
  RanksAgree
  HostReadsItsStep
PROPERTY CommitsAsIfShorter
