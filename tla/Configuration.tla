---------------------------- MODULE Configuration -----------------------------
(***************************************************************************)
(* setDefaults of internal/config/config.go, for the settings that decide  *)
(* what is collected: a device's type and methods and the selection of     *)
(* metric groups.  A selection is the set of groups that are true in it; a *)
(* group that the file leaves out and one it sets to false are the same    *)
(* here, as they are in the decoded structure.                             *)
(***************************************************************************)
EXTENDS CollectionScripts

Types == {"nxos", "iosxe", "ios", "auto"}

DefaultMethods == <<"json", "restconf", "netconf", "ssh">>

DefaultType(type) == IF type = "" THEN "auto" ELSE type

MethodsOr(methods) == IF methods = <<>> THEN DefaultMethods ELSE methods

(* Only a selection with nothing in it is replaced. *)
SelectionOr(groups) == IF groups = {} THEN Groups ELSE groups

SetDefaults(cfg) ==
    [cfg EXCEPT !.type = DefaultType(@), !.methods = MethodsOr(@), !.groups = SelectionOr(@)]
=============================================================================
