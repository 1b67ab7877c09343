\* One cycle in which the device answers nothing.
SPECIFICATION Spec
CONSTANTS
    Profiles <- InterfacesOnly
    MaxCycles = 2
    MaxFaults = 2
INVARIANTS
    UpMeansReachable
