CONSTANTS
  Session = {s1, s2}
  Blank = {s2}
  MaxSubmissions = 2
  MaxSteps = 3
  MaxFaults = 1
  MaxQueue = 1
SPECIFICATION Spec
PROPERTY SwitchKeepsStreams
CHECK_DEADLOCK FALSE
