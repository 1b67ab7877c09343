------------------------------ MODULE SSHSession ------------------------------
(***************************************************************************)
(* One SSH session of internal/provider/ssh/client.go: the commands of a   *)
(* script executed one after the other over one shell, a goroutine per     *)
(* command that reads the shell's output until it sees a prompt, and the   *)
(* timeout after which Execute returns and leaves its goroutine behind.    *)
(*                                                                         *)
(* The device answers the commands in the order they are written.  Its     *)
(* output is one stream in which command c has four pieces, at positions   *)
(* 4c to 4c+3: the echo of the command, two pieces of output, the prompt.  *)
(* Command 0 stands for what setupSession writes and never reads.  A read  *)
(* takes what has arrived, so it takes any number of the pieces that the   *)
(* commands written so far make the device print; reads do not overlap     *)
(* (the pipe's buffer has a lock).  That the device stalls is that no read *)
(* happens.                                                                *)
(***************************************************************************)
EXTENDS Integers, Sequences, FiniteSets

CONSTANTS
    Script,     \* the texts of the commands, in the order of execution
    HashySets,  \* sets of commands whose output may have a line that ends
                \* in '#' (0 stands for a login banner)
    MaxGiveUps  \* bound on the commands given up in a behaviour

K        == Len(Script)
Commands == 1..K

ASSUME SessionAssumption ==
    /\ Script \in Seq(STRING)
    /\ HashySets \subseteq SUBSET (0..K)
    /\ MaxGiveUps \in Nat

Echo(c)   == 4 * c
First(c)  == 4 * c + 1
Rest(c)   == 4 * c + 2
Prompt(c) == 4 * c + 3

VARIABLES
    hashy,      \* the commands that do, fixed
    cur,        \* the command Execute is at, 0 before the first
    phase,      \* "idle", "write", "wait", "closed"
    sent,       \* the last command written to stdin
    taken,      \* pieces readers have taken, oldest first
    reader,     \* reader[c]: the goroutine Execute(c) started
    buf,        \* buf[c]: the pieces in its buffer, until nobody needs them
    answer,     \* answer[c]: the pieces of output Execute(c) returned
    outcome,    \* outcome[c]: how Execute(c) returned
    channel     \* "open", "closing": ended by Close or by the device with
                \* output still buffered, "ended": all of it read

sessionVars == <<cur, phase>>
streamVars  == <<sent, taken, channel>>
readerVars  == <<reader, buf>>
resultVars  == <<answer, outcome>>
vars == <<hashy, sessionVars, streamVars, readerVars, resultVars>>

Pieces == 0..Prompt(K)

(* Every variable stays in its range; in particular no reader takes more   *)
(* than the commands written so far make the device print.                 *)
TypeOK ==
    /\ hashy \in HashySets
    /\ cur \in 0..K
    /\ phase \in {"idle", "write", "wait", "closed"}
    /\ sent \in 0..K
    /\ taken \in 0..(Prompt(sent) + 1)
    /\ reader \in [Commands -> {"none", "reading", "got", "err"}]
    /\ buf \in [Commands -> SUBSET Pieces]
    /\ answer \in [Commands -> SUBSET Pieces]
    /\ outcome \in [Commands -> {"none", "output", "error", "gaveUp"}]
    /\ channel \in {"open", "closing", "ended"}

(* setupSession has returned; what its commands print is still to come. *)
Init ==
    /\ hashy \in HashySets
    /\ cur = 0 /\ phase = "idle"
    /\ sent = 0 /\ taken = 0 /\ channel = "open"
    /\ reader = [c \in Commands |-> "none"]
    /\ buf = [c \in Commands |-> {}]
    /\ answer = [c \in Commands |-> {}]
    /\ outcome = [c \in Commands |-> "none"]

-----------------------------------------------------------------------------
(* Execute.                                                                *)

(* Deviation: one command more than the script has. *)
StartPastEnd ==
    /\ phase = "idle" /\ cur <= K
    /\ cur' = cur + 1
    /\ phase' = "write"
    /\ reader' = [reader EXCEPT ![cur + 1] = "reading"]
    /\ UNCHANGED <<hashy, streamVars, buf, resultVars>>

(* It starts the reader before it writes the command. *)
Start ==
    /\ phase = "idle" /\ cur < K
    /\ cur' = cur + 1
    /\ phase' = "write"
    /\ reader' = [reader EXCEPT ![cur + 1] = "reading"]
    /\ UNCHANGED <<hashy, streamVars, buf, resultVars>>

(* Deviation: Execute returns when the write fails. *)
WriteReturnsEarly ==
    /\ phase = "write"
    /\ phase' = IF channel = "open" THEN "wait" ELSE "idle"
    /\ sent' = IF channel = "open" THEN cur ELSE sent
    /\ outcome' = IF channel = "open" THEN outcome ELSE [outcome EXCEPT ![cur] = "error"]
    /\ UNCHANGED <<hashy, cur, taken, channel, readerVars, answer>>

Write ==
    /\ phase = "write"
    /\ phase' = "wait"
    /\ sent' = IF channel = "open" THEN cur ELSE sent
    /\ UNCHANGED <<hashy, cur, taken, channel, readerVars, resultVars>>

(* cleanOutput: the echo and the lines with a prompt or '#' are dropped. *)
Clean(pieces) == {p \in pieces : \E c \in 0..K : p \in {First(c), Rest(c)}}

ReturnOutput ==
    /\ phase = "wait" /\ reader[cur] = "got"
    /\ phase' = "idle"
    /\ answer' = [answer EXCEPT ![cur] = Clean(buf[cur])]
    /\ outcome' = [outcome EXCEPT ![cur] = "output"]
    /\ buf' = [buf EXCEPT ![cur] = {}]
    /\ UNCHANGED <<hashy, cur, streamVars, reader>>

ReturnError ==
    /\ phase = "wait" /\ reader[cur] = "err"
    /\ phase' = "idle"
    /\ outcome' = [outcome EXCEPT ![cur] = "error"]
    /\ UNCHANGED <<hashy, cur, streamVars, readerVars, answer>>

(* time.After fires or the context is cancelled: Execute returns, and the  *)
(* goroutine goes on reading.  Select may pick this with an answer ready.  *)
GiveUp ==
    /\ phase = "wait"
    /\ Cardinality({c \in Commands : outcome[c] = "gaveUp"}) < MaxGiveUps
    /\ phase' = "idle"
    /\ outcome' = [outcome EXCEPT ![cur] = "gaveUp"]
    /\ buf' = [buf EXCEPT ![cur] = IF reader[cur] = "reading" THEN @ ELSE {}]
    /\ UNCHANGED <<hashy, cur, streamVars, reader, answer>>

(* Deviation: the connection stays open. *)
CloseForgotten ==
    /\ phase = "idle"
    /\ phase' = "closed"
    /\ UNCHANGED <<hashy, cur, streamVars, readerVars, resultVars>>

(* The caller's deferred Close, after any number of commands. *)
Close ==
    /\ phase = "idle"
    /\ phase' = "closed"
    /\ channel' = IF channel = "open" THEN "closing" ELSE channel
    /\ UNCHANGED <<hashy, cur, sent, taken, readerVars, resultVars>>

-----------------------------------------------------------------------------
(* readOutput.                                                             *)

(* Deviation: a prompt alone ends the output. *)
HasEchoUnchecked(c, pieces) == c \in Commands

(* strings.Contains(s, cmd): the echo of a command with the same text. *)
HasEcho(c, pieces) == \E d \in Commands : Script[d] = Script[c] /\ Echo(d) \in pieces

(* The regular expression ".+#\s?$" on what has been read so far. *)
EndsLikePrompt(p) == \E d \in 0..K : p = Prompt(d) \/ (d \in hashy /\ p = First(d))

Waiting(c) == c = cur /\ phase \in {"write", "wait"}

(* A match ends the goroutine; if Execute has returned, its output is lost *)
(* in the channel.                                                         *)
Read(c) ==
    /\ reader[c] = "reading" /\ channel # "ended"
    /\ \E last \in taken..Prompt(sent) :
        LET read  == buf[c] \cup taken..last
            match == HasEcho(c, read) /\ EndsLikePrompt(last)
        IN  /\ taken' = last + 1
            /\ reader' = [reader EXCEPT ![c] = IF match THEN "got" ELSE @]
            /\ buf' = [buf EXCEPT ![c] = IF match /\ ~Waiting(c) THEN {} ELSE read]
    /\ UNCHANGED <<hashy, sessionVars, sent, channel, resultVars>>

(* Read returns io.EOF once what arrived before the end is used up. *)
ReadEOF(c) ==
    /\ reader[c] = "reading" /\ channel # "open"
    /\ channel' = "ended"
    /\ reader' = [reader EXCEPT ![c] = "err"]
    /\ buf' = [buf EXCEPT ![c] = {}]
    /\ UNCHANGED <<hashy, sessionVars, sent, taken, resultVars>>

-----------------------------------------------------------------------------
(* The device drops the connection. *)

Drop ==
    /\ channel = "open"
    /\ channel' = "closing"
    /\ UNCHANGED <<hashy, sessionVars, sent, taken, readerVars, resultVars>>

Terminated ==
    /\ phase = "closed" /\ \A c \in Commands : reader[c] # "reading"
    /\ UNCHANGED vars

Execute == Start \/ Write \/ ReturnOutput \/ ReturnError \/ GiveUp \/ Close

Reader(c) == Read(c) \/ ReadEOF(c)

Next == Execute \/ (\E c \in Commands : Reader(c)) \/ Drop \/ Terminated

Spec == Init /\ [][Next]_vars

(* Goroutines that can run do, and timers fire; only a closed channel makes *)
(* every read return, a device may stall.                                  *)
FairSpec ==
    /\ Spec
    /\ WF_vars(Execute)
    /\ \A c \in Commands : WF_vars(channel # "open" /\ Reader(c))

-----------------------------------------------------------------------------
(* What the shell prints for command c; the first answer comes behind the  *)
(* output of the setup commands, which nobody else reads.                  *)
Own(c)     == {First(c), Rest(c)}
Setup      == Own(0)
Expected(c) == IF c = 1 THEN Setup \cup Own(1) ELSE Own(c)

(* Nothing has gone wrong up to and including command c. *)
Undisturbed(c) == \A d \in 1..c : outcome[d] # "gaveUp" /\ d \notin hashy

(* Until a command is given up or prints a line like a prompt, each Execute *)
(* returns the whole output of its own command and no other's, however the *)
(* output is cut into chunks, although setupSession's commands are never   *)
(* read to their prompt, and when the script has the same command twice.   *)
CleanUntilTimeout ==
    \A c \in Commands :
        outcome[c] = "output" /\ Undisturbed(c) => answer[c] = Expected(c)

(* The goroutines that share the output are the current command's and      *)
(* those of the commands given up: no other command has left one behind.   *)
ReadersAccounted ==
    \A c \in Commands :
        reader[c] = "reading" =>
            \/ c = cur /\ phase \in {"write", "wait"}
            \/ outcome[c] = "gaveUp"

(* PROJECT.md:293, "Reliable NX-OS support", with scripts that go on over  *)
(* the same session after a command that failed (scheduler.go:404-405):    *)
(* what Execute returns for a command was printed by that command.         *)
AnswersAreOwn == \A c \in Commands : answer[c] \subseteq Own(c) \cup Setup

(* The goroutines left behind end with the session: none stays blocked on  *)
(* the output of a device that will never answer.                          *)
ReadersEnd == phase = "closed" ~> \A c \in Commands : reader[c] # "reading"
=============================================================================
