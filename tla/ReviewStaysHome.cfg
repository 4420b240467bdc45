CONSTANTS
  Doc = {d1, d2}
  Session = {s1, s2}
  MaxTexts = 2
  MaxSends = 1
  MaxSteps = 4
SPECIFICATION Spec
PROPERTY ReviewStaysHome
CHECK_DEADLOCK FALSE
