--------------------------- MODULE NETCONFSessionInv ---------------------------
(***************************************************************************)
(* The inductive invariant of a NETCONF session: where a reader may start  *)
(* while the channel is open, and that a session in sync has no piece      *)
(* between the calls.                                                      *)
(***************************************************************************)
EXTENDS NETCONFSession

(* The calls that have returned. *)
Returned == IF phase \in {"write", "read"} THEN rpc - 1 ELSE rpc

ProgressInv ==
    /\ phase \in {"write", "read"} => rpc >= 1
    /\ phase = "read" => written = rpc
    /\ written <= rpc
    /\ phase # "read" /\ open => written = Returned
    /\ \A n \in RPCs : n > Returned => outcome[n] = "none"

(* Each call takes the message before its own to the end, or all there is, *)
(* and its own has not begun when its reader starts.                       *)
TakenInv == phase # "read" /\ open => taken >= Start(Returned)
FromInv  == phase = "read" => Start(rpc - 1) <= from /\ from <= Start(rpc)

(* Once in sync, the stream is at the start of the next reply. *)
SyncInv ==
    ~bare => \A n \in RPCs : n <= Returned /\ InSync(n) =>
        /\ phase # "read" /\ open => taken = Start(Returned + 1)
        /\ phase = "read" => from = Start(rpc)

IInv ==
    /\ TypeOK /\ ProgressInv /\ TakenInv /\ FromInv /\ SyncInv
    /\ LagAtMostOne /\ CatchesUpForGood
=============================================================================
