----------------------------- MODULE SSHSessionInv -----------------------------
(***************************************************************************)
(* The inductive invariant behind CleanUntilTimeout: as long as nothing    *)
(* has gone wrong, the reader of the current command is the only one, and  *)
(* what it holds is exactly the output since the last prompt that ended a  *)
(* command.                                                                *)
(***************************************************************************)
EXTENDS SSHSession

(* Commands behind the current one have returned, those ahead are untouched. *)
ProgressInv ==
    /\ phase = "write" => sent < cur
    /\ sent <= cur
    /\ phase \in {"write", "wait"} => cur >= 1 /\ outcome[cur] = "none"
    /\ \A c \in Commands :
        /\ c > cur => reader[c] = "none" /\ outcome[c] = "none" /\ buf[c] = {}
        /\ c < cur \/ (c = cur /\ phase \notin {"write", "wait"}) =>
              outcome[c] # "none"

(* An error means that the stream has ended, for the goroutine that saw it *)
(* and for the Execute that returned it.                                   *)
ErrorInv ==
    \A c \in Commands :
        reader[c] = "err" \/ outcome[c] = "error" => channel = "ended"

(* Where the output of the current command starts in the stream: the first *)
(* command's reader starts at the beginning.                               *)
Start0(c) == IF c = 1 THEN 0 ELSE Echo(c)

(* The positions from Start0(c) up to and without n. *)
Since(c, n) == {p \in Pieces : Start0(c) <= p /\ p < n}

(* All of it, when the reader has got its prompt. *)
GotInv ==
    \A c \in Commands :
        c = cur /\ phase \in {"write", "wait"} /\ Undisturbed(c) /\ reader[c] = "got" =>
            taken = Prompt(c) + 1 /\ buf[c] = Since(c, taken)

(* Part of it, with the prompt still to come, while it reads. *)
ReadingInv ==
    \A c \in Commands :
        c = cur /\ phase \in {"write", "wait"} /\ Undisturbed(c) /\ reader[c] = "reading"
          /\ channel # "ended" =>
            /\ Start0(c) <= taken /\ taken <= Prompt(c)
            /\ buf[c] \subseteq Pieces
            /\ buf[c] = Since(c, taken)

(* Nothing is left in the stream when an undisturbed Execute has returned. *)
IdleInv ==
    /\ cur = 0 /\ channel # "ended" => taken = 0
    /\ \A c \in Commands :
        c = cur /\ phase \notin {"write", "wait"} /\ Undisturbed(c) /\ channel # "ended" =>
            taken = Prompt(c) + 1

IInv ==
    /\ TypeOK /\ ProgressInv /\ ReadersAccounted /\ ErrorInv
    /\ GotInv /\ ReadingInv /\ IdleInv
    /\ CleanUntilTimeout
=============================================================================
