---------------------------- MODULE DeviceContract -----------------------------
(***************************************************************************)
(* What the collection of a device promises, with no script, registry or   *)
(* lock in sight.  A collection tries the methods in their order.  One     *)
(* that has written anything does not fail any more, so what is written    *)
(* comes from the method that succeeds.  And a collection takes effect at  *)
(* one instant: the entry in the store and the gauges of the device change *)
(* together, or not at all but for the outcome that is reported.           *)
(* Module Collection implements this (property TakesEffectAtOnce there).   *)
(***************************************************************************)
EXTENDS Naturals, Sequences

CONSTANTS
    Names,      \* what a method may be called
    MaxCycles   \* bound on the collections of a behaviour

VARIABLES
    methods,    \* the methods of the device, fixed
    cycle,      \* number of the current or latest collection
    open,       \* whether a collection is under way
    next,       \* position of the method it is at
    written,    \* the methods that values of this collection come from
    entry,      \* the latest collection that has succeeded
    up,         \* whether the device is said to be up
    method,     \* the method it is said to be collected by
    success,    \* how its latest collection has ended
    stamp       \* its latest success

seen == <<entry, up, method, success, stamp>>
vars == <<methods, cycle, open, next, written, seen>>

Init ==
    /\ methods \in Seq(Names) \ {<<>>}
    /\ cycle = 0 /\ open = FALSE /\ next = 1 /\ written = {}
    /\ entry = [cycle |-> 0, method |-> "none", real |-> FALSE]
    /\ up = "absent" /\ method = "none" /\ success = "absent" /\ stamp = 0

Begin ==
    /\ ~open /\ cycle < MaxCycles
    /\ cycle' = cycle + 1
    /\ open' = TRUE /\ next' = 1 /\ written' = {}
    /\ UNCHANGED <<methods, seen>>

(* There is no credential for the device. *)
Refuse ==
    /\ ~open /\ cycle < MaxCycles
    /\ cycle' = cycle + 1
    /\ next' = 1 /\ written' = {}
    /\ success' = "err"
    /\ UNCHANGED <<methods, open, entry, up, method, stamp>>

Write ==
    /\ open /\ next <= Len(methods)
    /\ written' = {methods[next]}
    /\ UNCHANGED <<methods, cycle, open, next, seen>>

Fallback ==
    /\ open /\ next <= Len(methods)
    /\ written = {}
    /\ next' = next + 1
    /\ UNCHANGED <<methods, cycle, open, written, seen>>

Succeed ==
    /\ open /\ next <= Len(methods)
    /\ open' = FALSE
    /\ entry' = [cycle |-> cycle, method |-> methods[next], real |-> TRUE]
    /\ up' = "up" /\ method' = methods[next] /\ success' = "ok" /\ stamp' = cycle
    /\ UNCHANGED <<methods, cycle, next, written>>

Fail ==
    /\ open /\ next = Len(methods) + 1
    /\ open' = FALSE
    /\ up' = "down" /\ success' = "err"
    /\ UNCHANGED <<methods, cycle, next, written, entry, method, stamp>>

Next == Begin \/ Refuse \/ Write \/ Fallback \/ Succeed \/ Fail

Spec == Init /\ [][Next]_vars
=============================================================================
