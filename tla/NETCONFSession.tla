---------------------------- MODULE NETCONFSession ----------------------------
(***************************************************************************)
(* One NETCONF session of internal/provider/netconf/netconf.go: the RPCs   *)
(* of a collection one after the other, each with a buffered reader of its *)
(* own over the subsystem's output.                                        *)
(*                                                                         *)
(* That output is one stream of messages.  Message 0 is the hello the      *)
(* server sends unasked, message n its reply to RPC n, which it starts     *)
(* when it has read the RPC.  A read may cut the stream anywhere, so       *)
(* message n has four pieces, at 4n to 4n+3: two of text, each ending a    *)
(* line, and the halves of the end marker.  The line of the marker ends    *)
(* with it, or, when the server is bare, with the first piece of the next  *)
(* message.  A server may stall, and may close the session.                *)
(***************************************************************************)
EXTENDS Integers

CONSTANTS
    N,          \* RPCs of a session
    Servers     \* the kinds of server: is it bare?

ASSUME SessionAssumption ==
    /\ N \in Nat \ {0}
    /\ Servers \subseteq BOOLEAN

RPCs == 1..N

Start(n)   == 4 * n
Mark(n)    == 4 * n + 2
End(n)     == 4 * n + 3
Message(n) == Start(n)..End(n)
Pieces     == 0..End(N)

VARIABLES
    bare,       \* the kind of server, fixed
    rpc,        \* the RPC execRPC is at, 0 before the first
    phase,      \* "idle", "write", "read", "closed"
    written,    \* the last RPC written to stdin
    printed,    \* pieces the server has sent
    taken,      \* pieces readers have taken from stdout
    from,       \* where the current reader started
    open,       \* neither side has closed the channel
    answer,     \* answer[n]: the pieces execRPC returned for RPC n
    outcome     \* outcome[n]: how it returned; "cut" is what it had got when
                \* the channel ended, returned as if it were the reply

callVars   == <<rpc, phase, written, from>>
resultVars == <<answer, outcome>>
vars == <<bare, callVars, printed, taken, open, resultVars>>

(* Every variable stays in its range; in particular a reader takes only    *)
(* what the server has sent, and the server answers only what it was asked. *)
TypeOK ==
    /\ bare \in Servers
    /\ rpc \in 0..N
    /\ phase \in {"idle", "write", "read", "closed"}
    /\ written \in 0..N
    /\ printed \in 0..(End(written) + 1)
    /\ taken \in 0..printed
    /\ from \in 0..taken
    /\ open \in BOOLEAN
    /\ answer \in [RPCs -> SUBSET Pieces]
    /\ outcome \in [RPCs -> {"none", "reply", "cut", "error"}]

(* Connect has returned: it neither reads the hello nor sends one. *)
Init ==
    /\ bare \in Servers
    /\ rpc = 0 /\ phase = "idle" /\ written = 0
    /\ printed = 0 /\ taken = 0 /\ from = 0 /\ open = TRUE
    /\ answer = [n \in RPCs |-> {}]
    /\ outcome = [n \in RPCs |-> "none"]

-----------------------------------------------------------------------------
(* execRPC.                                                                *)

(* Deviation: one RPC more than the collection sends. *)
CallPastEnd ==
    /\ phase = "idle" /\ rpc <= N
    /\ rpc' = rpc + 1
    /\ phase' = "write"
    /\ UNCHANGED <<bare, written, from, printed, taken, open, resultVars>>

Call ==
    /\ phase = "idle" /\ rpc < N
    /\ rpc' = rpc + 1
    /\ phase' = "write"
    /\ UNCHANGED <<bare, written, from, printed, taken, open, resultVars>>

(* Deviation: the RPC goes out without its end marker and is never read. *)
WriteUnmarked ==
    /\ phase = "write" /\ open
    /\ phase' = "read"
    /\ from' = taken
    /\ UNCHANGED <<bare, rpc, written, printed, taken, open, resultVars>>

(* Deviation: the reader is kept, with the lines it has returned already. *)
WriteKeepsReader ==
    /\ phase = "write" /\ open
    /\ written' = rpc
    /\ phase' = "read"
    /\ UNCHANGED <<bare, rpc, from, printed, taken, open, resultVars>>

(* The new reader starts where the last one stopped taking. *)
Write ==
    /\ phase = "write" /\ open
    /\ written' = rpc
    /\ phase' = "read"
    /\ from' = taken
    /\ UNCHANGED <<bare, rpc, printed, taken, open, resultVars>>

WriteFails ==
    /\ phase = "write" /\ ~open
    /\ outcome' = [outcome EXCEPT ![rpc] = "error"]
    /\ phase' = "idle"
    /\ UNCHANGED <<bare, rpc, written, from, printed, taken, open, answer>>

(* The piece that ends the line of message n's end marker. *)
Break(n) == IF bare THEN Start(n + 1) ELSE End(n)

(* The reader holds that line, and the marker has not been cut in two. *)
Holds(n) == from <= Mark(n) /\ Break(n) < taken

(* It is the first such line. *)
First(n) == Holds(n) /\ \A k \in 0..(n - 1) : ~Holds(k)

Ended == \E n \in 0..written : Holds(n)

(* The reader's buffer takes some of what has arrived. *)
Fill ==
    /\ phase = "read" /\ ~Ended /\ taken < printed
    /\ taken' \in (taken + 1)..printed
    /\ UNCHANGED <<bare, callVars, printed, open, resultVars>>

(* Deviation: the read loop does not stop at the marker. *)
ReturnAll ==
    /\ phase = "read" /\ Ended
    /\ answer' = [answer EXCEPT ![rpc] = from..(taken - 1)]
    /\ outcome' = [outcome EXCEPT ![rpc] = "reply"]
    /\ phase' = "idle"
    /\ UNCHANGED <<bare, rpc, written, from, printed, taken, open>>

(* The first line with an end marker ends the answer.  What the reader has *)
(* taken beyond it is lost with the reader.                                *)
Return ==
    /\ phase = "read"
    /\ \E n \in 0..written :
        /\ First(n)
        /\ answer' = [answer EXCEPT ![rpc] = from..Break(n)]
    /\ outcome' = [outcome EXCEPT ![rpc] = "reply"]
    /\ phase' = "idle"
    /\ UNCHANGED <<bare, rpc, written, from, printed, taken, open>>

(* What the reader holds up to the last line that has ended. *)
EndsLine(p) == \E n \in 0..N : p \in Start(n)..(Mark(n) - 1) \/ (p = End(n) /\ ~bare)
Complete == {p \in from..(taken - 1) : \E q \in p..(taken - 1) : EndsLine(q)}

(* Deviation: a read that finds nothing is taken for the end. *)
ReadEOFEarly ==
    /\ phase = "read" /\ ~Ended /\ taken = printed
    /\ answer' = [answer EXCEPT ![rpc] = Complete]
    /\ outcome' = [outcome EXCEPT ![rpc] = IF Complete = {} THEN "error" ELSE "cut"]
    /\ phase' = "idle"
    /\ UNCHANGED <<bare, rpc, written, from, printed, taken, open>>

(* A read error makes the complete lines the answer, if there are any. *)
ReadEOF ==
    /\ phase = "read" /\ ~Ended /\ taken = printed
    /\ ~open
    /\ answer' = [answer EXCEPT ![rpc] = Complete]
    /\ outcome' = [outcome EXCEPT ![rpc] = IF Complete = {} THEN "error" ELSE "cut"]
    /\ phase' = "idle"
    /\ UNCHANGED <<bare, rpc, written, from, printed, taken, open>>

(* The caller's deferred Close, after any number of RPCs. *)
Close ==
    /\ phase = "idle"
    /\ phase' = "closed"
    /\ open' = FALSE
    /\ UNCHANGED <<bare, rpc, written, from, printed, taken, resultVars>>

-----------------------------------------------------------------------------
(* The server.                                                             *)

Send ==
    /\ open
    /\ printed <= End(written)
    /\ printed' = printed + 1
    /\ UNCHANGED <<bare, callVars, taken, open, resultVars>>

Drop ==
    /\ open
    /\ open' = FALSE
    /\ UNCHANGED <<bare, callVars, printed, taken, resultVars>>

-----------------------------------------------------------------------------
(* A call that waits for a server that has sent all it was asked for. *)
Stuck ==
    /\ phase = "read" /\ open
    /\ ~Ended /\ taken = printed /\ printed > End(written)

(* The session is over, or hangs until the server closes it. *)
Rests == (phase = "closed" \/ Stuck) /\ UNCHANGED vars

ExecRPC == Call \/ Write \/ WriteFails \/ Fill \/ Return \/ ReadEOF

Next == ExecRPC \/ Close \/ Send \/ Drop \/ Rests

Spec == Init /\ [][Next]_vars

(* The caller's goroutine runs, and the server sends what it was asked for *)
(* unless it closes the session.                                           *)
FairSpec == Spec /\ WF_vars(ExecRPC) /\ WF_vars(Send)

-----------------------------------------------------------------------------
(* Although the hello is never read and what a reader took beyond its      *)
(* answer is dropped, an answer is never further behind than one message:  *)
(* it ends with the marker of the RPC's own reply or of the message before *)
(* that, and holds nothing of any other message.                           *)
LagAtMostOne ==
    \A n \in RPCs : outcome[n] = "reply" =>
        /\ answer[n] \subseteq Message(n - 1) \cup Message(n)
        /\ \E k \in {n - 1, n} : Break(k) \in answer[n] /\ \A p \in answer[n] : p <= Break(k)

(* A session catches up once and for all: after an RPC that got its own    *)
(* reply, each answer is the RPC's own reply, all of it and nothing else.  *)
InSync(n) == outcome[n] = "reply" /\ End(n) \in answer[n]
CatchesUpForGood ==
    ~bare => \A n, d \in RPCs : n < d /\ InSync(n) /\ outcome[d] = "reply" =>
        answer[d] = Message(d)

(* A server that ends the marker's line never leaves a call hanging: what  *)
(* earlier readers dropped is never the marker the call still needs.       *)
NoCallHangs == ~bare => ~Stuck

(* So every call to such a server returns.  With a bare one it may not.    *)
EveryCallReturns == [](~bare /\ phase = "read" => <>(phase # "read"))
=============================================================================
