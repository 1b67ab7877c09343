----------------------------- MODULE MCCollection -----------------------------
(***************************************************************************)
(* Device configurations for the checks of module Collection.              *)
(***************************************************************************)
EXTENDS CollectionInv

Profile(type, methods, groups) ==
    [type |-> type, methods |-> methods, groups |-> groups, credential |-> TRUE]

(* Each script alone and behind others, settings that are left out of the  *)
(* file, a method name with no provider, a missing credential, and         *)
(* selections that leave out the commands a method can fail on.            *)
AllProfiles ==
    { Profile("nxos", <<"json", "ssh">>, Groups),
      Profile("iosxe", <<"restconf", "netconf", "ssh">>, Groups),
      Profile("", <<>>, {"HardwareHealth", "Interfaces"}),
      Profile("ios", <<"ssh">>, {}),
      Profile("ios", <<"telnet", "ssh">>, {"Interfaces"}),
      Profile("iosxe", <<"restconf", "ssh">>, {"Layer2Stability"}),
      [Profile("nxos", <<"json">>, Groups) EXCEPT !.credential = FALSE] }

(* A device that only serves interface metrics over RESTCONF. *)
InterfacesOnly == { Profile("iosxe", <<"restconf", "ssh">>, {"Interfaces"}) }

(* A device monitored over the command line. *)
CommandLineOnly == { Profile("nxos", <<"ssh">>, Groups) }

(* A device whose type has no "| json" output, and a method that would do. *)
JSONThenSSH == { Profile("iosxe", <<"json", "ssh">>, {"HardwareHealth"}) }
=============================================================================
