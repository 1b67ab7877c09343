\* An NX-OS device that answers every command.
SPECIFICATION Spec
CONSTANTS
    Profiles <- CommandLineOnly
    MaxCycles = 1
    MaxFaults = 0
INVARIANTS
    NoAnswerIsFatal
