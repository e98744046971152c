SPECIFICATION Spec
CONSTANTS
  t1 = t1
  t2 = t2
  d1 = d1
  a1 = a1
  a2 = a2
  a3 = a3
  a4 = a4
  a5 = a5
  None = None
  TargetWeights = {t1, t2}
  DraftWeights = {d1}
  Addr = {a1, a2, a3, a4, a5}
  Configurations <- ChunkedOn
  Orders <- BackendFirst
SYMMETRY Interchangeable
INVARIANT
  SwitchInstalls
