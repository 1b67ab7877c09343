---------------------------- MODULE CollectionInv -----------------------------
(***************************************************************************)
(* The inductive invariant of module Collection: what the loop knows at    *)
(* each place of collectDevice.                                            *)
(***************************************************************************)
EXTENDS Collection

(* The method the loop is at works, as far as the loop can tell. *)
Working ==
    \/ pc \in {"run", "up", "method", "stamp", "dead"}
    \/ pc = "publish" /\ outcome = "ok"
    \/ Collected /\ success = "ok"

(* Every collection ends in one of two ways. *)
Over == pc \in {"publish", "stamp"} \/ Collected

PlaceInv ==
    /\ pc # "idle" => cycle > 0
    /\ Working => m <= NumMethods /\ Method \in Methods
    /\ failed = 1..(m - 1)

(* A method has written nothing while it can still fail. *)
WrittenInv ==
    /\ \A f \in Families : reg[f].cycle <= cycle
    /\ pc = "try" \/ (pc = "run" /\ k = 1) => \A f \in Families : reg[f].cycle # cycle
    /\ OneMethodPerCycle

StatusInv ==
    /\ ~config.credential => pc \in {"idle", "publish"} /\ up = "absent"
    /\ pc = "method" => up = "up"
    /\ pc = "stamp" => outcome = "ok"
    /\ pc = "stamp" \/ Collected => success = outcome
    /\ Over =>
         /\ outcome \in {"ok", "err"}
         /\ up = "up" <=> outcome = "ok"
         /\ up = "down" => m = NumMethods + 1
         /\ up = "up" => method = Method

StoreInv ==
    /\ store.cycle <= cycle
    /\ stamp <= store.cycle
    /\ pc \in {"idle", "try", "run", "dead"} \/ (pc = "publish" /\ outcome = "err") =>
         stamp = store.cycle /\ method = store.method
    /\ pc \in {"up", "method", "stamp"} \/ (pc = "publish" /\ outcome = "ok") =>
         store.cycle = cycle /\ store.method = Method

(* The inductive invariant; it implies the module's safety invariants.     *)
IInv ==
    /\ TypeOK
    /\ PlaceInv
    /\ WrittenInv
    /\ StatusInv
    /\ StoreInv
=============================================================================
