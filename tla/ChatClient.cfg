CONSTANTS
  Session = {s1, s2}
  Blank = {s2}
  MaxSubmissions = 2
  MaxSteps = 3
  MaxFaults = 2
  MaxQueue = 2
SPECIFICATION FairSpec
INVARIANTS TypeOK ShowsCurrentOnly AnswersShown StopMeansStream BackgroundHasReader QueueHasDrain
PROPERTY ComposerFreed
CHECK_DEADLOCK FALSE
