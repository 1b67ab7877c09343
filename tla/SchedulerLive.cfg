\* One worker and four devices: the channel holds two closures and the worker
\* runs one, so the fourth Submit blocks.  Every device answers in the end.
SPECIFICATION FairSpec
CONSTANTS
    Workers = {w1}
    NoJob = NoJob
    N = 4
    MaxCycles = 3
    Hanging = {}
INVARIANTS
    NeverWaitsForNothing
PROPERTIES
    HeldUpRunsDown
    KeepsCollecting
    StopsAfterCancel
