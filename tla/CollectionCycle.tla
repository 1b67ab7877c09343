---------------------------- MODULE CollectionCycle ----------------------------
(***************************************************************************)
(* What the background collection promises, with no pool, channel or       *)
(* WaitGroup in sight: collection goes in numbered cycles; in a cycle each *)
(* configured device gets exactly one outcome; a cycle is over only when   *)
(* all have theirs, unless the program is being cancelled, in which case   *)
(* it may be cut short and its remaining outcomes come late or never.      *)
(* Module Scheduler implements this (property CycleContract there).        *)
(***************************************************************************)
EXTENDS Naturals

CONSTANTS
    N,          \* number of configured devices, named by position 1..N
    MaxCycles   \* bound on the cycles a behaviour has

VARIABLES
    phase,      \* "collecting", "idle" or "stopped"
    cycle,      \* number of the current, or of the latest, cycle
    results,    \* results[d]: the outcome of d in that cycle
    cancelled

vars == <<phase, cycle, results, cancelled>>

NoResults == [d \in 1..N |-> "none"]

Init ==
    /\ phase = "collecting"
    /\ cycle = 1
    /\ results = NoResults
    /\ cancelled = FALSE

Finish(d, o) ==
    /\ phase = "collecting" \/ cancelled
    /\ results[d] = "none"
    /\ results' = [results EXCEPT ![d] = o]
    /\ UNCHANGED <<phase, cycle, cancelled>>

End ==
    /\ phase = "collecting"
    /\ \A d \in 1..N : results[d] # "none"
    /\ phase' = "idle"
    /\ UNCHANGED <<cycle, results, cancelled>>

Cut ==
    /\ phase = "collecting"
    /\ cancelled
    /\ phase' = "idle"
    /\ UNCHANGED <<cycle, results, cancelled>>

Begin ==
    /\ phase = "idle"
    /\ cycle < MaxCycles
    /\ phase' = "collecting"
    /\ cycle' = cycle + 1
    /\ results' = NoResults
    /\ UNCHANGED cancelled

Cancel ==
    /\ cancelled' = TRUE
    /\ UNCHANGED <<phase, cycle, results>>

Stop ==
    /\ phase = "idle"
    /\ cancelled
    /\ phase' = "stopped"
    /\ UNCHANGED <<cycle, results, cancelled>>

Next ==
    \/ \E d \in 1..N, o \in {"ok", "err"} : Finish(d, o)
    \/ End \/ Cut \/ Begin \/ Cancel \/ Stop

Spec == Init /\ [][Next]_vars
=============================================================================
