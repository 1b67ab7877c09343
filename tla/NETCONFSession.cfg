\* Five RPCs, as many as a collection sends, to servers of both kinds; every cut of the stream into reads, and
\* a server that may close the session at any point.
SPECIFICATION FairSpec
CONSTANTS
    N = 5
    Servers = {TRUE, FALSE}
INVARIANTS
    TypeOK
    IInv
    LagAtMostOne
    CatchesUpForGood
    NoCallHangs
PROPERTIES
    EveryCallReturns
