-------------------------- MODULE CollectionScripts ---------------------------
(***************************************************************************)
(* The command scripts of the collection methods, as tables: one row per   *)
(* command (or HTTP request, or RPC) with the metric families its answer   *)
(* feeds and what the code does when the command fails and when it answers *)
(* without the fields looked for.  They are the bodies of collectJSON,     *)
(* collectSSH..., collectRESTCONF and collectNETCONF in                    *)
(* internal/scheduler/scheduler.go together with the Collect... calls of   *)
(* the providers, whose own error handling decides what an error does.     *)
(* A multi-command call writes its families at the command supplying them. *)
(***************************************************************************)
EXTENDS Sequences

Methods == {"json", "restconf", "netconf", "ssh"}

Groups == {"HardwareHealth", "Interfaces", "Layer2Stability", "EtherChannel",
           "Layer3Tables", "SystemMaintenance", "CapacityTrends"}

(* Counter families are Added to, all others are Set. *)
Counters == {"ifaceCounters", "stpChanges", "macMoves"}

(* The families, by the setters that write them. *)
DeviceFamilies   == {"info", "uptime", "cpu", "memory"}
Interfaces       == {"ifaceState", "ifaceCounters"}
SwitchFamilies   == {"stpBlocked", "stpChanges", "macCount", "macUtil", "macMoves", "vlans"}
TableFamilies    == {"portChannels", "arp", "routes", "fib", "adjacency"}
HardwareFamilies == {"environment", "modules", "powerRedundancy"}
UpkeepFamilies   == {"ntp", "flash", "portRatio", "transceivers", "buffers", "processes"}

Families == DeviceFamilies \cup Interfaces \cup {"optics"} \cup SwitchFamilies
              \cup TableFamilies \cup HardwareFamilies \cup UpkeepFamilies

-----------------------------------------------------------------------------
(* The scripts.  A row's onErr and onBlank say what becomes of the method: *)
(*   "fail"     the method returns an error, the next method is tried;     *)
(*   "return"   the script ends there and the method still succeeds;       *)
(*   "skip"     nothing is written, the script goes on;                    *)
(*   "skipNext" the same, and the command after this one is not sent;      *)
(*   "zero"     the error is dropped and the zero value is written.        *)
(* scalars have one series per device and are written by every call that   *)
(* gets there; labelled families have one per parsed entry, so a blank     *)
(* answer writes none.  A command that only refines a family an earlier    *)
(* one of its call supplied has that family as labelled too.               *)

Row(group, onErr, onBlank, scalars, labelled) ==
    [group |-> group, onErr |-> onErr, onBlank |-> onBlank,
     scalars |-> scalars, labelled |-> labelled]

(* The JSON provider: one operator per Collect... call, a row per command.  *)

JSONSystem    == << Row("HardwareHealth", "fail", "zero", {"info", "uptime"}, {}) >>
JSONResources == << Row("HardwareHealth", "skip", "zero", {"cpu", "memory"}, {}) >>
JSONProcesses == << Row("HardwareHealth", "skip", "skip", {}, {"processes"}) >>
JSONHardware  == << Row("HardwareHealth", "zero", "zero", {"powerRedundancy"}, {"environment", "modules"}) >>
JSONInterfaces == << Row("Interfaces", "skip", "skip", {}, Interfaces) >>
JSONOptics    == << Row("Interfaces", "skip", "skip", {}, {"optics"}) >>

(* An error of the summary command drops the detail command too. *)
JSONSTP == <<
    Row("Layer2Stability", "skipNext", "skip", {}, {"stpBlocked"}),
    Row("Layer2Stability", "skip", "skip", {}, {"stpChanges"}) >>

JSONMAC   == << Row("Layer2Stability", "zero", "zero", {"macCount", "macUtil"}, {"macMoves"}) >>
JSONVLANs == << Row("Layer2Stability", "zero", "zero", {"vlans"}, {}) >>
JSONPortChannels == << Row("EtherChannel", "skip", "skip", {}, {"portChannels"}) >>

JSONL3Tables == <<
    Row("Layer3Tables", "zero", "zero", {"arp"}, {}),
    Row("Layer3Tables", "zero", "zero", {"routes"}, {}),
    Row("Layer3Tables", "zero", "zero", {"fib"}, {}),
    Row("Layer3Tables", "zero", "zero", {"adjacency"}, {}) >>

(* The second command's uptime is never written. *)
JSONSystemInfo == <<
    Row("SystemMaintenance", "zero", "zero", {"ntp"}, {}),
    Row("SystemMaintenance", "skip", "skip", {}, {}),
    Row("SystemMaintenance", "zero", "zero", {"flash"}, {}) >>

JSONCapacity == <<
    Row("CapacityTrends", "zero", "zero", {"portRatio"}, {}),
    Row("CapacityTrends", "zero", "zero", {"transceivers"}, {"buffers"}) >>

(* Deviation: the fallible system call after one that writes. *)
JSONScriptSystemLast == JSONResources \o JSONSystem

JSONScript ==
    JSONSystem \o JSONResources \o JSONProcesses \o JSONHardware
      \o JSONInterfaces \o JSONOptics
      \o JSONSTP \o JSONMAC \o JSONVLANs
      \o JSONPortChannels \o JSONL3Tables \o JSONSystemInfo \o JSONCapacity

(* The commands of the JSON provider whose parsers take the table in the   *)
(* answer for an object without asking (value.(map[string]interface{})): a *)
(* table that is null, a list or a string makes them panic.                *)
UncheckedTables ==
    {JSONProcesses[1], JSONHardware[1], JSONInterfaces[1], JSONOptics[1], JSONMAC[1],
     JSONVLANs[1], JSONPortChannels[1], JSONSystemInfo[3], JSONCapacity[1], JSONCapacity[2]}

(* The SSH scripts: the commands are in the scheduler itself. *)

NXOSInterfaces == Row("Interfaces", "skip", "skip", {}, Interfaces)

NXOSScript == <<
    Row("HardwareHealth", "zero", "zero", {"info", "uptime"}, {}),
    Row("HardwareHealth", "skip", "skip", {}, {"info"}),
    Row("HardwareHealth", "skip", "zero", {"cpu"}, {}),
    Row("HardwareHealth", "skip", "zero", {"powerRedundancy"}, {"environment"}),
    NXOSInterfaces,
    Row("Layer2Stability", "skip", "skip", {}, {"stpBlocked"}),
    Row("Layer2Stability", "skip", "zero", {"vlans"}, {}),
    Row("Layer3Tables", "skip", "zero", {"arp"}, {}),
    Row("Layer3Tables", "skip", "zero", {"routes"}, {}),
    Row("SystemMaintenance", "skip", "zero", {"ntp"}, {}),
    Row("SystemMaintenance", "zero", "zero", {"flash"}, {}) >>

IOSXEScript == <<
    Row("HardwareHealth", "zero", "zero", {"info", "uptime"}, {}),
    Row("HardwareHealth", "skip", "skip", {}, {"info"}),
    Row("HardwareHealth", "skip", "zero", {"cpu"}, {}),
    Row("HardwareHealth", "skip", "skip", {}, {"environment"}),
    Row("Interfaces", "skip", "skip", {}, Interfaces),
    Row("Layer2Stability", "skip", "skip", {}, {"stpBlocked"}),
    Row("Layer2Stability", "skip", "zero", {"vlans"}, {}),
    Row("Layer2Stability", "zero", "zero", {"macCount"}, {}),
    Row("Layer3Tables", "skip", "zero", {"arp"}, {}),
    Row("Layer3Tables", "skip", "zero", {"routes"}, {}),
    Row("SystemMaintenance", "skip", "zero", {"ntp"}, {}),
    Row("SystemMaintenance", "skip", "zero", {"flash"}, {}) >>

IOSScript == <<
    Row("HardwareHealth", "return", "zero", {"info", "uptime"}, {}),
    Row("HardwareHealth", "skip", "zero", {"cpu"}, {}),
    Row("HardwareHealth", "skip", "skip", {}, {}),
    Row("Interfaces", "return", "skip", {}, Interfaces),
    Row("Layer2Stability", "skip", "skip", {}, {"stpBlocked"}),
    Row("Layer2Stability", "skip", "zero", {"vlans"}, {}),
    Row("Layer2Stability", "zero", "zero", {"macCount"}, {}),
    Row("Layer3Tables", "skip", "zero", {"arp"}, {}),
    Row("Layer3Tables", "skip", "zero", {"routes"}, {}),
    Row("SystemMaintenance", "skip", "zero", {"ntp"}, {}),
    Row("SystemMaintenance", "skip", "zero", {"flash"}, {}) >>

(* The RESTCONF and NETCONF providers. *)

RESTCONFSystem == <<
    Row("HardwareHealth", "fail", "fail", {"info", "uptime"}, {}),
    Row("HardwareHealth", "skip", "skip", {}, {"info"}) >>
RESTCONFResources == <<
    Row("HardwareHealth", "zero", "zero", {"cpu"}, {}),
    Row("HardwareHealth", "zero", "zero", {"memory"}, {}) >>
RESTCONFProcesses  == << Row("HardwareHealth", "skip", "skip", {}, {"processes"}) >>
RESTCONFInterfaces == << Row("Interfaces", "skip", "skip", {}, Interfaces) >>

RESTCONFScript ==
    RESTCONFSystem \o RESTCONFResources \o RESTCONFProcesses \o RESTCONFInterfaces

NETCONFSystem == << Row("HardwareHealth", "fail", "zero", {"info", "uptime"}, {}) >>
NETCONFResources == <<
    Row("HardwareHealth", "zero", "zero", {"cpu"}, {}),
    Row("HardwareHealth", "zero", "zero", {"memory"}, {}) >>

(* These two decode the reply into a structure whose root is an element of *)
(* the data, while the root of a reply is rpc-reply: decoding it errs.     *)
NETCONFProcesses  == << Row("HardwareHealth", "skip", "skip", {}, {}) >>
NETCONFInterfaces == << Row("Interfaces", "skip", "skip", {}, {}) >>

NETCONFScript ==
    NETCONFSystem \o NETCONFResources \o NETCONFProcesses \o NETCONFInterfaces

SSHScript(type) ==
    CASE type = "nxos"  -> NXOSScript
      [] type = "iosxe" -> IOSXEScript
      [] OTHER          -> IOSScript

(* Fields a provider declares and never fills. *)
NeverFilled(method) ==
    CASE method = "json" -> {"macUtil", "transceivers", "powerRedundancy"}
      [] method \in {"restconf", "netconf"} -> {"uptime"}
      [] OTHER -> {}
=============================================================================
