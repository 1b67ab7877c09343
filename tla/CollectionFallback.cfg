\* A switch that opens the session and answers every "| json" command with text
\* that is not JSON; four commands are sent, and ssh is next in the list.
SPECIFICATION Spec
CONSTANTS
    Profiles <- JSONThenSSH
    MaxCycles = 2
    MaxFaults = 4
INVARIANTS
    FallbackWhenUnusable
