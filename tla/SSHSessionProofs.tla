--------------------------- MODULE SSHSessionProofs ---------------------------
(***************************************************************************)
(* Proofs about module SSHSession, for every script, every set of hashy    *)
(* commands and any number of commands given up.                           *)
(***************************************************************************)
EXTENDS SSHSessionInv, TLAPS

(* The script has a length (the calls of Execute in a collectSSH function). *)
LEMMA KNat == K \in Nat
  BY SessionAssumption DEF K

(* What the counters and functions are, in the form most steps need. *)
LEMMA Typing ==
  TypeOK => /\ cur \in Nat /\ cur <= K /\ sent \in Nat /\ taken \in Nat
            /\ hashy \subseteq 0..K
  BY KNat, SessionAssumption DEF TypeOK, Prompt

(* setupSession leaves a session in which the invariant holds. *)
LEMMA InitHolds == Init => IInv
<1> SUFFICES ASSUME Init PROVE IInv
  OBVIOUS
<1>1. TypeOK
  BY KNat DEF Init, TypeOK, Prompt
<1>2. ProgressInv /\ ErrorInv
  BY KNat DEF Init, ProgressInv, ErrorInv, Commands
<1>3. ReadersAccounted /\ CleanUntilTimeout
  BY DEF Init, ReadersAccounted, CleanUntilTimeout
<1>4. GotInv /\ ReadingInv /\ IdleInv
  BY KNat DEF Init, GotInv, ReadingInv, IdleInv, Commands
<1> QED BY <1>1, <1>2, <1>3, <1>4 DEF IInv

-----------------------------------------------------------------------------
(* The state has its type. *)
LEMMA TypeStep == TypeOK /\ ProgressInv /\ [Next]_vars => TypeOK'
<1> SUFFICES ASSUME TypeOK, ProgressInv, [Next]_vars PROVE TypeOK'
  OBVIOUS
<1> USE KNat
<1>1. CASE Start
  <2>1. cur' \in 0..K
    BY <1>1 DEF TypeOK, Start
  <2>2. reader' \in [Commands -> {"none", "reading", "got", "err"}]
    BY <1>1 DEF TypeOK, Start
  <2> QED BY <1>1, <2>1, <2>2 DEF TypeOK, Start, streamVars, resultVars
<1>2. CASE Write
  BY <1>2 DEF TypeOK, ProgressInv, Write, readerVars, resultVars, Prompt
<1>3. CASE ReturnOutput
  <2>1. Clean(buf[cur]) \subseteq buf[cur]
    BY DEF Clean
  <2>2. ASSUME cur \in Commands PROVE Clean(buf[cur]) \in SUBSET Pieces
    BY <2>1, <2>2 DEF TypeOK
  <2>3. answer' \in [Commands -> SUBSET Pieces]
    BY <1>3, <2>2 DEF TypeOK, ReturnOutput
  <2> QED BY <1>3, <2>3 DEF TypeOK, ReturnOutput, streamVars
<1>4. CASE ReturnError
  BY <1>4 DEF TypeOK, ReturnError, streamVars, readerVars
<1>5. CASE GiveUp
  BY <1>5 DEF TypeOK, GiveUp, streamVars
<1>6. CASE Close
  BY <1>6 DEF TypeOK, Close, readerVars, resultVars
<1>7. ASSUME NEW c \in Commands, Read(c) PROVE TypeOK'
  <2> PICK last \in taken..Prompt(sent) :
        LET read  == buf[c] \cup taken..last
            match == HasEcho(c, read) /\ EndsLikePrompt(last)
        IN  /\ taken' = last + 1
            /\ reader' = [reader EXCEPT ![c] = IF match THEN "got" ELSE @]
            /\ buf' = [buf EXCEPT ![c] = IF match /\ ~Waiting(c) THEN {} ELSE read]
    BY <1>7 DEF Read
  <2>1. taken..last \subseteq Pieces
    BY DEF TypeOK, Pieces, Prompt
  <2>2. taken' \in 0..(Prompt(sent) + 1)
    BY DEF TypeOK, Prompt
  <2>3. buf' \in [Commands -> SUBSET Pieces]
    BY <2>1, <1>7 DEF TypeOK
  <2>4. reader' \in [Commands -> {"none", "reading", "got", "err"}]
    BY <1>7 DEF TypeOK
  <2> QED BY <1>7, <2>2, <2>3, <2>4 DEF TypeOK, Read, sessionVars, resultVars
<1>8. ASSUME NEW c \in Commands, ReadEOF(c) PROVE TypeOK'
  BY <1>8 DEF TypeOK, ReadEOF, sessionVars, resultVars
<1>9. CASE Drop
  BY <1>9 DEF TypeOK, Drop, sessionVars, readerVars, resultVars
<1>10. CASE UNCHANGED vars
  BY <1>10 DEF TypeOK, vars, sessionVars, streamVars, readerVars, resultVars
<1> QED
  BY <1>1, <1>2, <1>3, <1>4, <1>5, <1>6, <1>7, <1>8, <1>9, <1>10
    DEF Next, Execute, Reader, Terminated

-----------------------------------------------------------------------------
(* Who is where in the script.                                             *)

(* Each Execute starts one reader and comes after the one before it. *)
LEMMA ProgressStep == TypeOK /\ ProgressInv /\ ReadersAccounted /\ [Next]_vars
                        => ProgressInv' /\ ReadersAccounted'
<1> SUFFICES ASSUME TypeOK, ProgressInv, ReadersAccounted, [Next]_vars
             PROVE  ProgressInv' /\ ReadersAccounted'
  OBVIOUS
<1> USE KNat DEF TypeOK, ProgressInv, ReadersAccounted, Commands
<1>1. CASE Start
  BY <1>1 DEF Start, streamVars, resultVars
<1>2. CASE Write
  BY <1>2 DEF Write, readerVars, resultVars
<1>3. CASE ReturnOutput
  BY <1>3 DEF ReturnOutput, streamVars
<1>4. CASE ReturnError
  BY <1>4 DEF ReturnError, streamVars, readerVars
<1>5. CASE GiveUp
  BY <1>5 DEF GiveUp, streamVars
<1>6. CASE Close
  BY <1>6 DEF Close, readerVars, resultVars
<1>7. ASSUME NEW c \in Commands, Read(c) PROVE ProgressInv' /\ ReadersAccounted'
  <2>1. /\ reader[c] = "reading" /\ c <= cur
        /\ \A d \in Commands \ {c} : reader'[d] = reader[d] /\ buf'[d] = buf[d]
    BY <1>7 DEF Read
  <2> QED BY <1>7, <2>1 DEF Read, sessionVars, resultVars
<1>8. ASSUME NEW c \in Commands, ReadEOF(c) PROVE ProgressInv' /\ ReadersAccounted'
  BY <1>8 DEF ReadEOF, sessionVars, resultVars
<1>9. CASE Drop
  BY <1>9 DEF Drop, sessionVars, readerVars, resultVars
<1>10. CASE UNCHANGED vars
  BY <1>10 DEF vars, sessionVars, streamVars, readerVars, resultVars
<1> QED
  BY <1>1, <1>2, <1>3, <1>4, <1>5, <1>6, <1>7, <1>8, <1>9, <1>10
    DEF Next, Execute, Reader, Terminated

(* A stream that has ended stays so, and only its end makes an error. *)
LEMMA ErrorStep == TypeOK /\ ErrorInv /\ [Next]_vars => ErrorInv'
<1> SUFFICES ASSUME TypeOK, ErrorInv, [Next]_vars PROVE ErrorInv'
  OBVIOUS
<1> USE KNat DEF TypeOK, ErrorInv
<1>1. CASE Start
  BY <1>1 DEF Start, streamVars, resultVars
<1>2. CASE Write
  BY <1>2 DEF Write, readerVars, resultVars
<1>3. CASE ReturnOutput
  BY <1>3 DEF ReturnOutput, streamVars
<1>4. CASE ReturnError
  BY <1>4 DEF ReturnError, streamVars, readerVars
<1>5. CASE GiveUp
  BY <1>5 DEF GiveUp, streamVars
<1>6. CASE Close
  BY <1>6 DEF Close, readerVars, resultVars
<1>7. ASSUME NEW c \in Commands, Read(c) PROVE ErrorInv'
  BY <1>7 DEF Read, sessionVars, resultVars
<1>8. ASSUME NEW c \in Commands, ReadEOF(c) PROVE ErrorInv'
  BY <1>8 DEF ReadEOF, sessionVars, resultVars
<1>9. CASE Drop
  BY <1>9 DEF Drop, sessionVars, readerVars, resultVars
<1>10. CASE UNCHANGED vars
  BY <1>10 DEF vars, sessionVars, streamVars, readerVars, resultVars
<1> QED
  BY <1>1, <1>2, <1>3, <1>4, <1>5, <1>6, <1>7, <1>8, <1>9, <1>10
    DEF Next, Execute, Reader, Terminated

-----------------------------------------------------------------------------
(* The stream.                                                             *)

(* A reader that holds the output since the last command's prompt stops at *)
(* its own prompt: it does not stop before, and does not read past it.     *)
LEMMA MatchIsOwnPrompt ==
  ASSUME TypeOK, ProgressInv, ReadingInv, cur \in Commands,
         phase \in {"write", "wait"}, Undisturbed(cur),
         reader[cur] = "reading", channel # "ended",
         NEW last \in taken..Prompt(sent)
  PROVE  /\ last \in Nat /\ last <= Prompt(cur)
         /\ buf[cur] \cup taken..last = Since(cur, last + 1)
         /\ HasEcho(cur, Since(cur, last + 1)) /\ EndsLikePrompt(last)
              <=> last = Prompt(cur)
<1> USE KNat
<1>1. /\ cur \in Nat /\ 1 <= cur /\ cur <= K /\ sent \in Nat /\ sent <= cur
      /\ taken \in Nat /\ hashy \subseteq 0..K
  BY Typing DEF Commands, ProgressInv
<1>2. last \in Nat /\ taken <= last /\ last <= Prompt(cur) /\ last \in Pieces
  BY <1>1 DEF Prompt, Pieces
<1>3. Start0(cur) <= taken /\ buf[cur] = Since(cur, taken)
  BY DEF ReadingInv
<1>4. Start0(cur) \in Nat /\ Start0(cur) <= Echo(cur) /\ (cur # 1 => Start0(cur) = Echo(cur))
  BY <1>1 DEF Start0, Echo
<1>5. buf[cur] \cup taken..last = Since(cur, last + 1)
  BY <1>1, <1>2, <1>3, <1>4 DEF Since, Pieces, Prompt
<1>6. ASSUME last = Prompt(cur)
      PROVE  HasEcho(cur, Since(cur, last + 1)) /\ EndsLikePrompt(last)
  <2>1. Echo(cur) \in Since(cur, last + 1)
    BY <1>1, <1>4, <1>6 DEF Since, Pieces, Echo, Prompt
  <2>2. cur \in 0..K
    BY <1>1
  <2> QED BY <1>6, <2>1, <2>2 DEF HasEcho, EndsLikePrompt
<1>7. ASSUME HasEcho(cur, Since(cur, last + 1)), EndsLikePrompt(last)
      PROVE  last = Prompt(cur)
  <2>1. PICK e \in Commands : Echo(e) \in Since(cur, last + 1)
    BY <1>7 DEF HasEcho
  <2>2. 4 <= Echo(e) /\ Echo(e) <= last /\ 4 <= last
    BY <1>2, <2>1 DEF Since, Echo, Commands
  <2>3. PICK d \in 0..K : last = Prompt(d) \/ (d \in hashy /\ last = First(d))
    BY <1>7 DEF EndsLikePrompt
  <2>4. d >= 1 /\ d <= cur
    BY <1>1, <1>2, <2>2, <2>3 DEF Prompt, First
  <2>5. last = Prompt(d)
    BY <1>1, <2>3, <2>4 DEF Undisturbed
  <2>6. d = cur
    BY <1>1, <1>2, <1>3, <1>4, <2>4, <2>5 DEF Prompt, Echo
  <2> QED BY <2>5, <2>6
<1> QED BY <1>2, <1>5, <1>6, <1>7

(* A reader of another command is one left behind by a command given up. *)
LEMMA StrangerMeansDisturbed ==
  ASSUME TypeOK, ProgressInv, ReadersAccounted,
         NEW c \in Commands, reader[c] = "reading",
         ~(c = cur /\ phase \in {"write", "wait"})
  PROVE  ~Undisturbed(cur) /\ cur \in Commands
<1>1. c <= cur
  BY KNat DEF ProgressInv, TypeOK, Commands
<1>2. outcome[c] = "gaveUp"
  BY DEF ReadersAccounted
<1>3. c \in 1..cur /\ cur \in Commands
  BY <1>1, Typing, KNat DEF Commands
<1> QED BY <1>2, <1>3 DEF Undisturbed

(* The output of an undisturbed command, stripped of echo and prompts. *)
LEMMA WholeOutput ==
  ASSUME NEW c \in Commands
  PROVE  Clean(Since(c, Prompt(c) + 1)) = Expected(c)
<1> USE KNat
<1>1. c \in Nat /\ 1 <= c /\ c <= K
  BY DEF Commands
<1>2. Since(c, Prompt(c) + 1) = Start0(c)..Prompt(c)
  BY <1>1 DEF Since, Pieces, Start0, Echo, Prompt
<1>3. ASSUME NEW p \in Clean(Start0(c)..Prompt(c)) PROVE p \in Expected(c)
  <2>1. PICK d \in 0..K : p = First(d) \/ p = Rest(d)
    BY DEF Clean
  <2>2. p \in Int /\ Start0(c) <= p /\ p <= Prompt(c)
    BY <1>1 DEF Clean, Start0, Echo, Prompt
  <2>3. d <= c /\ (c # 1 => d = c) /\ (c = 1 => d = 0 \/ d = 1)
    BY <1>1, <2>1, <2>2 DEF Start0, Echo, Prompt, First, Rest
  <2> QED BY <2>1, <2>3 DEF Expected, Own, Setup
<1>4. ASSUME NEW p \in Expected(c) PROVE p \in Clean(Start0(c)..Prompt(c))
  <2>1. PICK d \in 0..K : p \in {First(d), Rest(d)} /\ d <= c /\ (c # 1 => d = c)
    <3>1. c \in 0..K /\ 0 \in 0..K
      BY <1>1
    <3> QED BY <1>1, <3>1 DEF Expected, Own, Setup
  <2>2. p \in Start0(c)..Prompt(c)
    BY <1>1, <2>1 DEF Start0, Echo, Prompt, First, Rest
  <2> QED BY <2>1, <2>2 DEF Clean
<1> QED BY <1>2, <1>3, <1>4

(* A command given up stays given up. *)
LEMMA DisturbanceStays ==
  ASSUME TypeOK, ProgressInv, [Next]_vars, NEW c \in Commands, Undisturbed(c)'
  PROVE  Undisturbed(c)
<1>1. hashy' = hashy
  BY DEF Next, vars, Execute, Reader, Start, Write, ReturnOutput, ReturnError, GiveUp,
         Close, Read, ReadEOF, Drop, Terminated
<1>2. \A d \in Commands : outcome[d] = "gaveUp" => outcome'[d] = "gaveUp"
  <2>1. \/ outcome' = outcome
        \/ ReturnOutput \/ ReturnError \/ GiveUp
    BY DEF Next, vars, resultVars, Execute, Reader, Start, Write,
           Close, Read, ReadEOF, Drop, Terminated
  <2> QED BY <2>1 DEF ReturnOutput, ReturnError, GiveUp, ProgressInv, TypeOK
<1>3. \A d \in 1..c : d \in Commands
  BY KNat DEF Commands
<1> QED BY <1>1, <1>2, <1>3 DEF Undisturbed

(* What readers hold and what is left in the stream, step by step. *)
LEMMA StreamStep ==
  IInv /\ [Next]_vars => GotInv' /\ ReadingInv' /\ IdleInv' /\ CleanUntilTimeout'
<1> SUFFICES ASSUME IInv, [Next]_vars
             PROVE  GotInv' /\ ReadingInv' /\ IdleInv' /\ CleanUntilTimeout'
  OBVIOUS
<1> USE KNat DEF IInv
<1>0. /\ \A c \in Commands : Undisturbed(c)' => Undisturbed(c)
      /\ cur \in Nat /\ cur <= K /\ sent \in Nat /\ taken \in Nat
  BY DisturbanceStays, Typing
<1>1. CASE Start
  <2>1. cur + 1 \in Commands /\ cur' = cur + 1 /\ taken' = taken /\ channel' = channel
    BY <1>0, <1>1 DEF Start, Commands, streamVars
  <2>2. /\ buf' = buf /\ buf[cur + 1] = {}
        /\ reader'[cur + 1] = "reading" /\ phase' = "write"
    BY <1>1, <2>1 DEF Start, ProgressInv, TypeOK
  <2>3. ASSUME NEW c \in Commands, c = cur + 1, Undisturbed(c)', channel # "ended"
        PROVE  taken = Start0(c)
    <3>1. CASE cur = 0
      BY <2>3, <3>1 DEF IdleInv, Start0
    <3>2. CASE cur # 0
      <4>1. cur \in Commands /\ Undisturbed(cur)
        BY <1>0, <2>3, <3>2 DEF Commands, Undisturbed
      <4>2. taken = Prompt(cur) + 1
        BY <1>1, <2>3, <4>1 DEF IdleInv, Start
      <4> QED BY <1>0, <2>3, <3>2, <4>2 DEF Start0, Echo, Prompt
    <3> QED BY <3>1, <3>2
  <2>4. ASSUME NEW c \in Commands, c = cur + 1
        PROVE  /\ Start0(c) \in Nat /\ Start0(c) <= Prompt(c)
               /\ Since(c, Start0(c)) = {}
    BY <1>0, <2>4 DEF Start0, Echo, Prompt, Since, Pieces
  <2>5. ReadingInv'
    <3> SUFFICES ASSUME NEW c \in Commands, c = cur', Undisturbed(c)', channel' # "ended"
                 PROVE  /\ Start0(c) <= taken' /\ taken' <= Prompt(c)
                        /\ buf'[c] \subseteq Pieces
                        /\ buf'[c] = Since(c, taken')
      BY DEF ReadingInv
    <3>1. c = cur + 1 /\ buf'[c] = {} /\ taken' = Start0(c)
      BY <2>1, <2>2, <2>3
    <3> QED BY <2>4, <3>1
  <2>6. GotInv' /\ IdleInv'
    BY <1>0, <2>1, <2>2 DEF GotInv, IdleInv
  <2>7. CleanUntilTimeout'
    BY <1>0, <1>1 DEF CleanUntilTimeout, Start, resultVars
  <2> QED BY <2>5, <2>6, <2>7
<1>2. CASE Write
  <2>1. /\ cur' = cur /\ taken' = taken /\ channel' = channel /\ reader' = reader
        /\ buf' = buf /\ answer' = answer /\ outcome' = outcome
        /\ phase = "write" /\ phase' = "wait"
    BY <1>2 DEF Write, readerVars, resultVars
  <2>2. GotInv' /\ ReadingInv' /\ IdleInv'
    BY <1>0, <2>1 DEF GotInv, ReadingInv, IdleInv, Commands
  <2>3. CleanUntilTimeout'
    BY <1>0, <2>1 DEF CleanUntilTimeout
  <2> QED BY <2>2, <2>3
<1>3. CASE ReturnOutput
  <2>1. /\ cur' = cur /\ taken' = taken /\ channel' = channel /\ cur \in Commands
        /\ phase = "wait" /\ phase' = "idle" /\ reader[cur] = "got"
    BY <1>0, <1>3 DEF ReturnOutput, streamVars, ProgressInv, Commands
  <2>2. ASSUME Undisturbed(cur)
        PROVE  taken = Prompt(cur) + 1 /\ Clean(buf[cur]) = Expected(cur)
    BY <2>1, <2>2, WholeOutput DEF GotInv
  <2>3. GotInv' /\ ReadingInv'
    BY <2>1 DEF GotInv, ReadingInv
  <2>4. IdleInv'
    BY <1>0, <2>1, <2>2 DEF IdleInv
  <2>5. /\ \A c \in Commands \ {cur} : outcome'[c] = outcome[c] /\ answer'[c] = answer[c]
        /\ answer'[cur] = Clean(buf[cur])
    BY <1>3, <2>1 DEF ReturnOutput, TypeOK
  <2>6. CleanUntilTimeout'
    BY <1>0, <2>1, <2>2, <2>5 DEF CleanUntilTimeout
  <2> QED BY <2>3, <2>4, <2>6
<1>4. CASE ReturnError
  <2>1. /\ cur' = cur /\ taken' = taken /\ channel' = channel /\ cur \in Commands
        /\ phase' = "idle" /\ answer' = answer /\ outcome'[cur] = "error"
        /\ \A c \in Commands \ {cur} : outcome'[c] = outcome[c]
    BY <1>0, <1>4 DEF ReturnError, streamVars, ProgressInv, Commands, TypeOK
  <2>2. channel = "ended"
    BY <1>4, <2>1 DEF ReturnError, ErrorInv
  <2>3. GotInv' /\ ReadingInv' /\ IdleInv'
    BY <2>1, <2>2, <1>0 DEF GotInv, ReadingInv, IdleInv
  <2>4. CleanUntilTimeout'
    BY <1>0, <2>1 DEF CleanUntilTimeout
  <2> QED BY <2>3, <2>4
<1>5. CASE GiveUp
  <2>1. /\ cur' = cur /\ taken' = taken /\ channel' = channel /\ cur \in Commands
        /\ phase' = "idle" /\ answer' = answer /\ outcome'[cur] = "gaveUp"
        /\ \A c \in Commands \ {cur} : outcome'[c] = outcome[c]
    BY <1>0, <1>5 DEF GiveUp, streamVars, ProgressInv, Commands, TypeOK
  <2>2. ~Undisturbed(cur)'
    BY <2>1 DEF Undisturbed, Commands
  <2>3. GotInv' /\ ReadingInv' /\ IdleInv'
    BY <2>1, <2>2, <1>0 DEF GotInv, ReadingInv, IdleInv, Commands
  <2>4. CleanUntilTimeout'
    BY <1>0, <2>1 DEF CleanUntilTimeout
  <2> QED BY <2>3, <2>4
<1>6. CASE Close
  <2>1. /\ cur' = cur /\ taken' = taken /\ reader' = reader /\ buf' = buf
        /\ answer' = answer /\ outcome' = outcome
        /\ phase = "idle" /\ phase' = "closed"
        /\ channel' # "ended" => channel # "ended"
    BY <1>6 DEF Close, readerVars, resultVars
  <2>2. GotInv' /\ ReadingInv' /\ IdleInv'
    BY <1>0, <2>1 DEF GotInv, ReadingInv, IdleInv
  <2>3. CleanUntilTimeout'
    BY <1>0, <2>1 DEF CleanUntilTimeout
  <2> QED BY <2>2, <2>3
<1>7. ASSUME NEW c \in Commands, Read(c)
      PROVE  GotInv' /\ ReadingInv' /\ IdleInv' /\ CleanUntilTimeout'
  <2>1. /\ cur' = cur /\ phase' = phase /\ channel' = channel
        /\ answer' = answer /\ outcome' = outcome
        /\ reader[c] = "reading" /\ channel # "ended"
        /\ \A d \in Commands \ {c} : reader'[d] = reader[d] /\ buf'[d] = buf[d]
    BY <1>7 DEF Read, sessionVars, resultVars, TypeOK
  <2>2. CleanUntilTimeout'
    BY <1>0, <2>1 DEF CleanUntilTimeout
  <2>3. CASE ~(c = cur /\ phase \in {"write", "wait"})
    <3>1. ~Undisturbed(cur) /\ cur \in Commands
      BY <2>1, <2>3, StrangerMeansDisturbed
    <3> QED BY <1>0, <2>1, <2>2, <3>1 DEF GotInv, ReadingInv, IdleInv, Commands
  <2>4. CASE c = cur /\ phase \in {"write", "wait"}
    <3>1. IdleInv'
      BY <1>0, <2>1, <2>4 DEF IdleInv, Commands
    <3>2. ASSUME Undisturbed(c) PROVE
            \/ taken' = Prompt(c) + 1 /\ reader'[c] = "got" /\ buf'[c] = Since(c, taken')
            \/ /\ reader'[c] = "reading" /\ buf'[c] = Since(c, taken')
               /\ Start0(c) <= taken' /\ taken' <= Prompt(c)
      <4> PICK last \in taken..Prompt(sent) :
            LET read  == buf[c] \cup taken..last
                match == HasEcho(c, read) /\ EndsLikePrompt(last)
            IN  /\ taken' = last + 1
                /\ reader' = [reader EXCEPT ![c] = IF match THEN "got" ELSE @]
                /\ buf' = [buf EXCEPT ![c] = IF match /\ ~Waiting(c) THEN {} ELSE read]
        BY <1>7 DEF Read
      <4>1. /\ last \in Nat /\ last <= Prompt(c)
            /\ buf[c] \cup taken..last = Since(c, last + 1)
            /\ HasEcho(c, Since(c, last + 1)) /\ EndsLikePrompt(last)
                  <=> last = Prompt(c)
        BY <2>1, <2>4, <3>2, MatchIsOwnPrompt
      <4>2. buf'[c] = Since(c, taken') /\ taken' = last + 1
        BY <2>4, <4>1 DEF Waiting, TypeOK
      <4>3. reader'[c] = IF last = Prompt(c) THEN "got" ELSE "reading"
        BY <2>1, <4>1 DEF TypeOK
      <4>4. Start0(c) <= taken /\ taken <= last
        BY <1>0, <2>1, <2>4, <3>2 DEF ReadingInv
      <4>5. Start0(c) \in Nat /\ Prompt(c) \in Nat
        BY <1>0, <2>4 DEF Start0, Echo, Prompt
      <4> QED BY <1>0, <4>1, <4>2, <4>3, <4>4, <4>5
    <3>3. GotInv' /\ ReadingInv'
      <4>1. \A n : Since(c, n) \subseteq Pieces
        BY DEF Since
      <4> QED BY <1>0, <2>1, <2>4, <3>2, <4>1 DEF GotInv, ReadingInv
    <3> QED BY <2>2, <3>1, <3>3
  <2> QED BY <2>3, <2>4
<1>8. ASSUME NEW c \in Commands, ReadEOF(c)
      PROVE  GotInv' /\ ReadingInv' /\ IdleInv' /\ CleanUntilTimeout'
  <2>1. /\ cur' = cur /\ phase' = phase /\ channel' = "ended" /\ taken' = taken
        /\ answer' = answer /\ outcome' = outcome
        /\ \A d \in Commands \ {c} : reader'[d] = reader[d] /\ buf'[d] = buf[d]
        /\ reader'[c] = "err"
    BY <1>8 DEF ReadEOF, sessionVars, resultVars, TypeOK
  <2>2. GotInv'
    BY <1>0, <2>1 DEF GotInv
  <2>3. ReadingInv' /\ IdleInv'
    BY <2>1 DEF ReadingInv, IdleInv
  <2>4. CleanUntilTimeout'
    BY <1>0, <2>1 DEF CleanUntilTimeout
  <2> QED BY <2>2, <2>3, <2>4
<1>9. CASE Drop \/ UNCHANGED vars
  <2>1. /\ cur' = cur /\ phase' = phase /\ taken' = taken /\ reader' = reader
        /\ buf' = buf /\ answer' = answer /\ outcome' = outcome
        /\ channel' # "ended" => channel # "ended"
    BY <1>9 DEF Drop, vars, sessionVars, streamVars, readerVars, resultVars
  <2>2. GotInv' /\ ReadingInv' /\ IdleInv'
    BY <1>0, <2>1 DEF GotInv, ReadingInv, IdleInv
  <2>3. CleanUntilTimeout'
    BY <1>0, <2>1 DEF CleanUntilTimeout
  <2> QED BY <2>2, <2>3
<1> QED
  BY <1>1, <1>2, <1>3, <1>4, <1>5, <1>6, <1>7, <1>8, <1>9
    DEF Next, Execute, Reader, Terminated

-----------------------------------------------------------------------------
(* The inductive invariant holds in every reachable state. *)
THEOREM SessionInvariant == Spec => []IInv
<1>1. IInv /\ [Next]_vars => IInv'
  BY TypeStep, ProgressStep, ErrorStep, StreamStep DEF IInv
<1> QED BY <1>1, InitHolds, PTL DEF Spec

(* The session's variables and results stay in their type. *)
THEOREM SessionTypeCorrect == Spec => []TypeOK
<1>1. IInv => TypeOK
  BY DEF IInv
<1> QED BY <1>1, SessionInvariant, PTL

(* Until a command is given up or prints a line like a prompt, Execute     *)
(* returns its command's whole output and no other's (client.go, Execute   *)
(* and readOutput), for every script and however the output is cut.        *)
THEOREM CleanUntilTimeoutHolds == Spec => []CleanUntilTimeout
<1>1. IInv => CleanUntilTimeout
  BY DEF IInv
<1> QED BY <1>1, SessionInvariant, PTL

(* Only commands given up leave a goroutine behind (client.go, Execute). *)
THEOREM ReadersAccountedHolds == Spec => []ReadersAccounted
<1>1. IInv => ReadersAccounted
  BY DEF IInv
<1> QED BY <1>1, SessionInvariant, PTL
=============================================================================
