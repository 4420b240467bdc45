SPECIFICATION FairSpec
CONSTANTS
    Jobs = {j1, j2}
    Sessions = {s1}
    NoJob = NoJob
    MaxFaults = 1
INVARIANTS TypeOK NoFalseSuccess StoppedStaysStopped ToldOnce
PROPERTIES VerdictFinal EveryJobHeard
