\* Two workers, and device 1 may never answer.
SPECIFICATION FairSpec
CONSTANTS
    Workers = {w1, w2}
    NoJob = NoJob
    N = 2
    MaxCycles = 2
    Hanging = {1}
PROPERTIES
    KeepsCollecting
