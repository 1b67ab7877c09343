\* Two workers, three devices, three cycles: closures of two devices run at
\* once while the third waits, ticks arrive early and late, and a cancelled
\* call leaves closures behind for the next one to meet.
SPECIFICATION Spec
CONSTANTS
    Workers = {w1, w2}
    NoJob = NoJob
    N = 3
    MaxCycles = 3
    Hanging = {}
INVARIANTS
    TypeOK
    IInv
    WgCountsInFlight
    WaitIsBarrier
    NoConcurrentCollection
    PublishedAgrees
    AtMostOneLateJob
PROPERTIES
    StampsOnlySuccess
    CycleContract
