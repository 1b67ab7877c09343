\* Two undisturbed cycles.
SPECIFICATION Spec
CONSTANTS
    Profiles <- InterfacesOnly
    MaxCycles = 2
    MaxFaults = 0
INVARIANTS
    CounterIsDeviceTotal
