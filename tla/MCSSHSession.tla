----------------------------- MODULE MCSSHSession -----------------------------
(***************************************************************************)
(* Scripts for the checks of module SSHSession.                            *)
(***************************************************************************)
EXTENDS SSHSessionInv

(* As in collectSSHNXOS, the first command comes again at the end. *)
RepeatingScript == <<"show version", "show inventory", "show version">>

NoHashes  == {{}}
NoneOrTwo == {{}, {0, 2}}
=============================================================================
