SPECIFICATION Spec
CONSTANTS
    Jobs = {j1, j2}
    Sessions = {s1}
    NoJob = NoJob
    MaxFaults = 0
INVARIANT MarkedWhenTold
