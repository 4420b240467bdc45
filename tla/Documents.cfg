CONSTANTS
  Doc = {d1, d2}
  Session = {s1, s2}
  MaxTexts = 2
  MaxSends = 1
  MaxSteps = 4
SPECIFICATION StoredSpec
SYMMETRY Symmetric
INVARIANTS TypeOK
PROPERTIES OwnTextKept NothingLost
CHECK_DEADLOCK FALSE
