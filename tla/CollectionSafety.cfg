\* Three cycles with up to two bad answers anywhere in them, on every profile;
\* connections may be refused any number of times.
SPECIFICATION Spec
CONSTANTS
    Profiles <- AllProfiles
    MaxCycles = 3
    MaxFaults = 2
INVARIANTS
    TypeOK
    IInv
    OneMethodPerCycle
    UpAgreesWithSuccess
    FirstWorkingMethodWins
    StampBackedByStore
PROPERTIES
    TakesEffectAtOnce
