SPECIFICATION Spec
CONSTANTS
  Key = {k1, k2}
  NoKey = NoKey
  TTL = 1
  MaxTime = 3
  MaxArm = 2
  Faults = {"save"}
SYMMETRY KeySymmetry
INVARIANT HelloNeverLies
