------------------------------ MODULE Collection ------------------------------
(***************************************************************************)
(* The collection of one device, cycle after cycle: collectDevice of       *)
(* internal/scheduler/scheduler.go with its fallback over the configured   *)
(* methods, a run of the method's command script, what it leaves in the    *)
(* metric registry and in the store, and the closure's report at the end.  *)
(* Devices share no state but the registry, where each has series of its   *)
(* own, so one device stands for all; module Scheduler has them together.  *)
(* Values are abstracted to where they come from: the cycle, the method    *)
(* and whether the device supplied them.                                   *)
(***************************************************************************)
EXTENDS Configuration, Naturals, FiniteSets

CONSTANTS
    Profiles,   \* configurations of the device, as they are in the file
    MaxCycles,  \* bound on the collections of a behaviour
    MaxFaults   \* bound on the failed or blank answers of a behaviour

ASSUME CollectionAssumption ==
    /\ Profiles \subseteq [type : Types \cup {""},
                           methods : Seq(STRING),
                           groups : SUBSET Groups,
                           credential : BOOLEAN]
    /\ MaxCycles \in Nat \ {0}
    /\ MaxFaults \in Nat

VARIABLES
    config,     \* the device's configuration, fixed
    cycle,      \* number of the current or latest collection
    pc,         \* where the closure is
    m,          \* the method of profile.methods the loop is at
    k,          \* the row of the script the method is at
    outcome,    \* what collectDevice returned
    reg,        \* the registry: per family the origin of its latest value
    counters,   \* the value of the counter families
    store,      \* the cache entry: the collection it holds
    up,         \* the device_up gauge
    method,     \* the collection_method gauge
    success,    \* the collection_success gauge
    stamp,      \* the last_collection gauge, a cycle number
    faults,     \* failed and blank answers so far
    reached,    \* history: the device has answered in this cycle
    failed      \* history: positions of the methods failed in this cycle

static == <<config, faults>>
gauges == <<up, method, success, stamp>>
vars == <<config, cycle, pc, m, k, outcome, reg, counters, store, up, method,
          success, stamp, faults, reached, failed>>

(* What Load has made of it. *)
profile == SetDefaults(config)

NumMethods == Len(profile.methods)
Method     == profile.methods[m]

Origin == [cycle : 0..MaxCycles, method : Methods \cup {"none"}, real : BOOLEAN]
Absent == [cycle |-> 0, method |-> "none", real |-> FALSE]

(* Every variable stays in its range; in particular the loop's index stays *)
(* within the configured methods.                                          *)
TypeOK ==
    /\ config \in Profiles
    /\ cycle \in 0..MaxCycles
    /\ pc \in {"idle", "try", "run", "up", "method", "publish", "stamp", "dead"}
    /\ m \in 1..(NumMethods + 1)
    /\ k \in Nat \ {0}
    /\ outcome \in {"none", "ok", "err"}
    /\ reg \in [Families -> Origin]
    /\ counters \in [Counters -> Nat]
    /\ store \in Origin
    /\ up \in {"absent", "up", "down"}
    /\ method \in Methods \cup {"none"}
    /\ success \in {"absent", "ok", "err"}
    /\ stamp \in 0..MaxCycles
    /\ faults \in 0..MaxFaults
    /\ reached \in BOOLEAN
    /\ failed \subseteq 1..NumMethods

Init ==
    /\ config \in Profiles
    /\ cycle = 0 /\ pc = "idle" /\ m = 1 /\ k = 1 /\ outcome = "none"
    /\ reg = [f \in Families |-> Absent]
    /\ counters = [f \in Counters |-> 0]
    /\ store = Absent
    /\ up = "absent" /\ method = "none" /\ success = "absent" /\ stamp = 0
    /\ faults = 0 /\ reached = FALSE /\ failed = {}
-----------------------------------------------------------------------------
Script ==
    CASE Method = "json"     -> JSONScript
      [] Method = "restconf" -> RESTCONFScript
      [] Method = "netconf"  -> NETCONFScript
      [] OTHER               -> SSHScript(profile.type)

(* The tests of the selection around the commands. *)
Selected == Script[k].group \in profile.groups

(* Deviation: the loop resumes with the method of the last collection. *)
BeginResumes ==
    /\ pc = "idle"
    /\ cycle < MaxCycles
    /\ cycle' = cycle + 1
    /\ k' = 1
    /\ reached' = FALSE /\ failed' = {}
    /\ IF profile.credential
         THEN pc' = "try" /\ outcome' = "none"
         ELSE pc' = "publish" /\ outcome' = "err"
    /\ UNCHANGED <<static, m, reg, counters, store, gauges>>

(* The closure starts; collectDevice looks the credential up. *)
Begin ==
    /\ pc = "idle"
    /\ cycle < MaxCycles
    /\ cycle' = cycle + 1
    /\ m' = 1 /\ k' = 1
    /\ reached' = FALSE /\ failed' = {}
    /\ IF profile.credential
         THEN pc' = "try" /\ outcome' = "none"
         ELSE pc' = "publish" /\ outcome' = "err"
    /\ UNCHANGED <<static, reg, counters, store, gauges>>

(* Deviation: the loop moves on twice. *)
MethodFailsTwice ==
    /\ pc' = "try"
    /\ m' = m + 2 /\ k' = 1
    /\ failed' = failed \cup {m}
    /\ UNCHANGED <<config, cycle, outcome, reg, counters, store, gauges>>

(* The method has returned an error: log and continue with the next one. *)
MethodFails ==
    /\ pc' = "try"
    /\ m' = m + 1 /\ k' = 1
    /\ failed' = failed \cup {m}
    /\ UNCHANGED <<config, cycle, outcome, reg, counters, store, gauges>>

(* Deviation: an unknown method ends the loop. *)
UnknownMethodBreaks ==
    /\ pc = "try" /\ m <= NumMethods
    /\ Method \notin Methods
    /\ m' = NumMethods + 1
    /\ failed' = failed \cup {m}
    /\ UNCHANGED <<static, cycle, pc, k, outcome, reg, counters, store, gauges, reached>>

UnknownMethod ==
    /\ pc = "try" /\ m <= NumMethods
    /\ Method \notin Methods
    /\ MethodFails
    /\ UNCHANGED <<faults, reached>>

(* NewClient or Connect; RESTCONF has no connection to open. *)
Open ==
    /\ pc = "try" /\ m <= NumMethods
    /\ Method \in Methods
    /\ pc' = "run"
    /\ reached' = (reached \/ Method # "restconf")
    /\ UNCHANGED <<static, cycle, m, k, outcome, reg, counters, store, gauges, failed>>

OpenFails ==
    /\ pc = "try" /\ m <= NumMethods
    /\ Method \in Methods \ {"restconf"}
    /\ MethodFails
    /\ UNCHANGED <<faults, reached>>

(* The setters of the metrics package: Set for gauges, Add of the device's *)
(* running total, which has reached one per cycle, for counters.           *)
Write(families, real) ==
    /\ reg' = [f \in Families |->
                 IF f \in families
                   THEN [cycle |-> cycle, method |-> Method,
                         real |-> real /\ f \notin NeverFilled(Method)]
                   ELSE reg[f]]
    /\ counters' = [f \in Counters |->
                      IF f \in families THEN counters[f] + cycle ELSE counters[f]]

Answered ==
    /\ pc = "run" /\ k <= Len(Script) /\ Selected
    /\ Write(Script[k].scalars \cup Script[k].labelled, TRUE)
    /\ k' = k + 1
    /\ reached' = TRUE
    /\ UNCHANGED <<static, cycle, pc, m, outcome, store, gauges, failed>>

(* The command errs, or answers without the fields looked for. *)
Effect(effect) ==
    \/ effect = "fail" /\ MethodFails
    \/ /\ effect # "fail"
       /\ IF effect = "zero" THEN Write(Script[k].scalars, FALSE) ELSE UNCHANGED <<reg, counters>>
       /\ \/ effect = "return" /\ k' = Len(Script) + 1
          \/ effect = "skipNext" /\ k' = k + 2
          \/ effect \in {"skip", "zero"} /\ k' = k + 1
       /\ UNCHANGED <<config, cycle, pc, m, outcome, store, gauges, failed>>

CommandErrs ==
    /\ pc = "run" /\ k <= Len(Script) /\ Selected
    /\ faults < MaxFaults
    /\ faults' = faults + 1
    /\ Effect(Script[k].onErr)
    /\ UNCHANGED reached

AnswerIsBlank ==
    /\ pc = "run" /\ k <= Len(Script) /\ Selected
    /\ faults < MaxFaults
    /\ faults' = faults + 1
    /\ Effect(Script[k].onBlank)
    /\ reached' = TRUE

(* A command of a group that is off is not sent. *)
SkipUnselected ==
    /\ pc = "run" /\ k <= Len(Script) /\ ~Selected
    /\ k' = k + 1
    /\ UNCHANGED <<static, cycle, pc, m, outcome, reg, counters, store, gauges, reached, failed>>

(* The interface parser that the device's type selects. *)
Listing == INSTANCE InterfaceListing

Dialect == IF profile.type \in {"nxos", "iosxe"} THEN profile.type ELSE "ios"

(* An answer the parser cannot take: over json a table that is no object,  *)
(* over ssh an interface listing with a line whose submatches the parser   *)
(* reads past their end.  No worker recovers: the panic ends the process.  *)
ParserPanics ==
    /\ pc = "run" /\ k <= Len(Script) /\ Selected
    /\ \/ Method = "json" /\ Script[k] \in UncheckedTables
       \/ /\ Method = "ssh" /\ "ifaceState" \in Script[k].labelled
          /\ Listing!CanPanic(Dialect)
    /\ pc' = "dead"
    /\ UNCHANGED <<static, cycle, m, k, outcome, reg, counters, store, gauges, reached, failed>>

(* Deviation: a success that is not stored. *)
UpdateStoreSkipped ==
    /\ pc = "run" /\ k > Len(Script)
    /\ pc' = "up"
    /\ UNCHANGED <<static, cycle, m, k, outcome, reg, counters, store, gauges, reached, failed>>

(* The method has returned nil: store.Update, SetDeviceUp and              *)
(* SetCollectionMethod, each under a lock of its own.                      *)
UpdateStore ==
    /\ pc = "run" /\ k > Len(Script)
    /\ store' = [cycle |-> cycle, method |-> Method, real |-> TRUE]
    /\ pc' = "up"
    /\ UNCHANGED <<static, cycle, m, k, outcome, reg, counters, gauges, reached, failed>>

SetUp ==
    /\ pc = "up"
    /\ up' = "up"
    /\ pc' = "method"
    /\ UNCHANGED <<static, cycle, m, k, outcome, reg, counters, store, method, success, stamp, reached, failed>>

SetMethod ==
    /\ pc = "method"
    /\ method' = Method
    /\ outcome' = "ok"
    /\ pc' = "publish"
    /\ UNCHANGED <<static, cycle, m, k, reg, counters, store, up, success, stamp, reached, failed>>

(* Deviation: device_up is only ever set, never cleared. *)
SetDownMissing ==
    /\ pc = "try" /\ m > NumMethods
    /\ outcome' = "err"
    /\ pc' = "publish"
    /\ UNCHANGED <<static, cycle, m, k, reg, counters, store, gauges, reached, failed>>

SetDown ==
    /\ pc = "try" /\ m > NumMethods
    /\ up' = "down"
    /\ outcome' = "err"
    /\ pc' = "publish"
    /\ UNCHANGED <<static, cycle, m, k, reg, counters, store, method, success, stamp, reached, failed>>

(* Deviation: every collection is stamped. *)
PublishAlwaysStamps ==
    /\ pc = "publish"
    /\ success' = outcome
    /\ pc' = "stamp"
    /\ UNCHANGED <<static, cycle, m, k, outcome, reg, counters, store, up, method, stamp, reached, failed>>

(* Back in the closure. *)
Publish ==
    /\ pc = "publish"
    /\ success' = outcome
    /\ pc' = IF outcome = "ok" THEN "stamp" ELSE "idle"
    /\ UNCHANGED <<static, cycle, m, k, outcome, reg, counters, store, up, method, stamp, reached, failed>>

Stamp ==
    /\ pc = "stamp"
    /\ stamp' = cycle
    /\ pc' = "idle"
    /\ UNCHANGED <<static, cycle, m, k, outcome, reg, counters, store, up, method, success, reached, failed>>

(* The bound on cycles is used up, or the process is gone. *)
Bounded ==
    /\ pc = "dead" \/ (pc = "idle" /\ cycle = MaxCycles)
    /\ UNCHANGED vars

Next ==
    \/ Begin \/ UnknownMethod \/ Open \/ OpenFails
    \/ SkipUnselected \/ Answered \/ AnswerIsBlank \/ CommandErrs \/ ParserPanics
    \/ UpdateStore \/ SetUp \/ SetMethod \/ SetDown
    \/ Publish \/ Stamp \/ Bounded

Spec == Init /\ [][Next]_vars

-----------------------------------------------------------------------------
Collected == pc = "idle" /\ cycle > 0

(* How a collection looks from outside when all that it is going to set is *)
(* taken for set from the moment the store is updated.                     *)
Succeeding == pc \in {"up", "method", "stamp"} \/ (pc = "publish" /\ outcome = "ok")

(* The methods that this cycle's values in the registry come from. *)
WrittenBy == {reg[f].method : f \in {g \in Families : cycle > 0 /\ reg[g].cycle = cycle}}

Contract == INSTANCE DeviceContract WITH
    Names   <- Methods \cup STRING,
    methods <- profile.methods,
    open    <- pc \in {"try", "run", "dead"},
    next    <- m,
    written <- WrittenBy,
    entry   <- store,
    up      <- IF Succeeding THEN "up" ELSE up,
    method  <- IF Succeeding THEN Method ELSE method,
    success <- IF Succeeding THEN "ok" ELSE IF pc = "publish" THEN outcome ELSE success,
    stamp   <- IF Succeeding THEN cycle ELSE stamp

(* A collection takes effect as a whole or not at all, although the store, *)
(* the three status gauges and the timestamp are set one after another,    *)
(* under a lock each and in two functions; and no method falls back once   *)
(* it has written.                                                         *)
TakesEffectAtOnce == Contract!Spec

(* What a cycle has written to the registry comes from one method, the one *)
(* the loop is at: a method that fails has written nothing before it did,  *)
(* so a fallback never mixes two providers' readings of one device.        *)
OneMethodPerCycle ==
    \A f \in Families : cycle > 0 /\ reg[f].cycle = cycle =>
        m <= NumMethods /\ reg[f].method = Method

(* device_up and collection_success agree between collections, for devices *)
(* whose credential is missing too; the two are set in different functions. *)
UpAgreesWithSuccess == Collected => (up = "up" <=> success = "ok")

(* The first method that works is used: device_up goes down only when      *)
(* every method of this cycle has failed, an unknown one included, and     *)
(* collection_method names the first that has not.                         *)
FirstWorkingMethodWins ==
    Collected =>
        /\ up = "down" => failed = 1..NumMethods
        /\ up = "up" => failed = 1..(m - 1) /\ method = Method

(* The timestamp a scrape reads is backed by a stored collection that is   *)
(* at least as new, at every instant; and a failed cycle keeps the last    *)
(* good entry, with the method gauge that belongs to it.                   *)
StampBackedByStore ==
    /\ stamp <= store.cycle
    /\ Collected => stamp = store.cycle /\ method = store.method

(* metrics.go:114, "Device reachability (1=up, 0=down)". *)
UpMeansReachable == Collected /\ up = "up" => reached

(* README.md:12, collection methods "with automatic fallback": a method    *)
(* that yields no reading at all is not the one a cycle settles for while   *)
(* the file names others after it.                                         *)
FallbackWhenUnusable ==
    Collected /\ success = "ok" /\ m < NumMethods =>
        \E f \in Families : reg[f].cycle = cycle /\ reg[f].real

(* PROJECT.md:293, "Reliable NX-OS support": no answer of a device ends the *)
(* exporter for all devices.                                               *)
NoAnswerIsFatal == pc # "dead"

(* metrics.go:173-174, cisco_interface_rx_bytes_total, "Total received     *)
(* bytes": the counter does not exceed what the device has counted.        *)
CounterIsDeviceTotal == counters["ifaceCounters"] <= cycle
=============================================================================
