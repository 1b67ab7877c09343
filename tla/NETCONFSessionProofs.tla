------------------------- MODULE NETCONFSessionProofs -------------------------
(***************************************************************************)
(* Proofs about module NETCONFSession, for any number of RPCs and every    *)
(* kind of server.                                                         *)
(***************************************************************************)
EXTENDS NETCONFSessionInv, TLAPS

(* Connect leaves a session in which the invariant holds. *)
LEMMA InitHolds == Init => IInv
<1> SUFFICES ASSUME Init PROVE IInv
  OBVIOUS
<1> USE SessionAssumption DEF Init, RPCs
<1>1. TypeOK
  BY DEF TypeOK, End
<1>2. ProgressInv /\ TakenInv /\ FromInv
  BY DEF ProgressInv, TakenInv, FromInv, Returned, Start
<1>3. SyncInv /\ LagAtMostOne /\ CatchesUpForGood
  BY DEF SyncInv, LagAtMostOne, CatchesUpForGood, InSync
<1> QED BY <1>1, <1>2, <1>3 DEF IInv

(* What the counters are, in the form most steps need. *)
LEMMA Typing ==
  TypeOK => /\ rpc \in Nat /\ rpc <= N /\ written \in Nat /\ written <= N /\ N \in Nat
            /\ printed \in Nat /\ taken \in Nat /\ from \in Nat
            /\ printed <= 4 * written + 4 /\ taken <= printed /\ from <= taken
  BY SessionAssumption DEF TypeOK, End

(* The answer of an RPC: the first marker its reader holds is that of the  *)
(* message before its own, or of its own when the server is not bare.      *)
LEMMA AnswerBounds ==
  ASSUME TypeOK, ProgressInv, FromInv, phase = "read",
         NEW n \in 0..written, First(n)
  PROVE  /\ n \in {rpc - 1, rpc}
         /\ bare => n = rpc - 1
         /\ Start(rpc - 1) <= from /\ from <= Break(n)
         /\ Break(n) < taken /\ Break(n) <= End(rpc)
         /\ n = rpc /\ ~bare => taken = Start(rpc + 1)
  BY Typing DEF ProgressInv, FromInv, First, Holds, Break, Start, Mark, End

-----------------------------------------------------------------------------
(* The state has its type. *)
LEMMA TypeStep == TypeOK /\ ProgressInv /\ FromInv /\ [Next]_vars => TypeOK'
<1> SUFFICES ASSUME TypeOK, ProgressInv, FromInv, [Next]_vars PROVE TypeOK'
  OBVIOUS
<1> USE SessionAssumption, Typing
<1>1. CASE Call
  BY <1>1 DEF TypeOK, Call, resultVars
<1>2. CASE Write
  BY <1>2 DEF TypeOK, ProgressInv, Write, resultVars, End
<1>3. CASE WriteFails
  BY <1>3 DEF TypeOK, ProgressInv, WriteFails
<1>4. CASE Fill
  BY <1>4 DEF TypeOK, Fill, callVars, resultVars
<1>5. CASE Return
  <2>1. PICK n \in 0..written :
          First(n) /\ answer' = [answer EXCEPT ![rpc] = from..Break(n)]
    BY <1>5 DEF Return
  <2>2. from..Break(n) \in SUBSET Pieces
    <3>1. phase = "read" /\ Break(n) <= End(rpc)
      BY <1>5, <2>1, AnswerBounds DEF Return
    <3>2. Break(n) \in Int /\ Break(n) <= End(N)
      BY <3>1 DEF Break, Start, End
    <3> QED BY <3>2 DEF Pieces, End
  <2>3. answer' \in [RPCs -> SUBSET Pieces]
    BY <2>1, <2>2 DEF TypeOK
  <2> QED BY <1>5, <2>3 DEF TypeOK, Return
<1>6. CASE ReadEOF
  <2>1. Complete \in SUBSET Pieces
    BY DEF Complete, Pieces, End
  <2>2. answer' \in [RPCs -> SUBSET Pieces]
    BY <1>6, <2>1 DEF TypeOK, ReadEOF
  <2>3. outcome' \in [RPCs -> {"none", "reply", "cut", "error"}]
    BY <1>6 DEF TypeOK, ReadEOF
  <2> QED BY <1>6, <2>2, <2>3 DEF TypeOK, ReadEOF
<1>7. CASE Close
  BY <1>7 DEF TypeOK, Close, resultVars
<1>8. CASE Send
  BY <1>8 DEF TypeOK, Send, callVars, resultVars, End
<1>9. CASE Drop
  BY <1>9 DEF TypeOK, Drop, callVars, resultVars
<1>10. CASE UNCHANGED vars
  BY <1>10 DEF TypeOK, vars, callVars, resultVars
<1> QED
  BY <1>1, <1>2, <1>3, <1>4, <1>5, <1>6, <1>7, <1>8, <1>9, <1>10
    DEF Next, ExecRPC, Rests

(* Calls follow one another, and each reader starts behind the marker of   *)
(* the message two before its own and not behind its own message's start.  *)
LEMMA ProgressStep ==
  TypeOK /\ ProgressInv /\ TakenInv /\ FromInv /\ [Next]_vars
    => ProgressInv' /\ TakenInv' /\ FromInv'
<1> SUFFICES ASSUME TypeOK, ProgressInv, TakenInv, FromInv, [Next]_vars
             PROVE  ProgressInv' /\ TakenInv' /\ FromInv'
  OBVIOUS
<1> USE SessionAssumption, Typing DEF ProgressInv, TakenInv, FromInv, Returned, RPCs
<1>1. CASE Call
  BY <1>1 DEF TypeOK, Call, resultVars
<1>2. CASE Write
  BY <1>2 DEF TypeOK, Write, resultVars, Start
<1>3. CASE WriteFails
  BY <1>3 DEF TypeOK, WriteFails
<1>4. CASE Fill
  BY <1>4 DEF TypeOK, Fill, callVars, resultVars
<1>5. CASE Return
  <2>1. PICK n \in 0..written : First(n)
    BY <1>5 DEF Return
  <2>2. phase = "read" /\ Break(n) < taken /\ n \in {rpc - 1, rpc}
    BY <1>5, <2>1, AnswerBounds DEF Return
  <2>3. taken >= Start(rpc)
    BY <2>1, <2>2 DEF Break, Start, End
  <2> QED BY <1>5, <2>3 DEF TypeOK, Return
<1>6. CASE ReadEOF
  BY <1>6 DEF TypeOK, ReadEOF
<1>7. CASE Close
  BY <1>7 DEF TypeOK, Close, resultVars
<1>8. CASE Send
  BY <1>8 DEF TypeOK, Send, callVars, resultVars
<1>9. CASE Drop
  BY <1>9 DEF TypeOK, Drop, callVars, resultVars
<1>10. CASE UNCHANGED vars
  BY <1>10 DEF TypeOK, vars, callVars, resultVars
<1> QED
  BY <1>1, <1>2, <1>3, <1>4, <1>5, <1>6, <1>7, <1>8, <1>9, <1>10
    DEF Next, ExecRPC, Rests

-----------------------------------------------------------------------------
(* How far behind the answers are, and that they catch up. *)
LEMMA AnswerStep ==
  TypeOK /\ ProgressInv /\ TakenInv /\ FromInv /\ SyncInv
    /\ LagAtMostOne /\ CatchesUpForGood /\ [Next]_vars
    => SyncInv' /\ LagAtMostOne' /\ CatchesUpForGood'
<1> SUFFICES ASSUME TypeOK, ProgressInv, TakenInv, FromInv, SyncInv,
                    LagAtMostOne, CatchesUpForGood, [Next]_vars
             PROVE  SyncInv' /\ LagAtMostOne' /\ CatchesUpForGood'
  OBVIOUS
<1> USE SessionAssumption, Typing DEF Returned, RPCs
(* Steps that return nothing leave the results alone. *)
<1>0. ASSUME UNCHANGED <<bare, answer, outcome>>
      PROVE  LagAtMostOne' /\ CatchesUpForGood'
  BY <1>0 DEF LagAtMostOne, CatchesUpForGood, InSync, Break
<1>1. CASE Call
  BY <1>0, <1>1 DEF Call, resultVars, SyncInv, InSync
<1>2. CASE Write
  BY <1>0, <1>2 DEF Write, resultVars, SyncInv, InSync, ProgressInv, Start
<1>3. CASE WriteFails \/ ReadEOF
  <2>1. /\ rpc \in RPCs /\ rpc' = rpc /\ bare' = bare /\ phase' = "idle" /\ ~open'
        /\ outcome'[rpc] # "reply"
        /\ \A n \in RPCs \ {rpc} : outcome'[n] = outcome[n] /\ answer'[n] = answer[n]
    BY <1>3 DEF WriteFails, ReadEOF, ProgressInv, TypeOK
  <2>2. SyncInv'
    BY <2>1 DEF SyncInv
  <2>3. LagAtMostOne'
    BY <2>1 DEF LagAtMostOne, Break
  <2>4. CatchesUpForGood'
    BY <2>1 DEF CatchesUpForGood, InSync
  <2> QED BY <2>2, <2>3, <2>4
<1>4. CASE Fill
  BY <1>0, <1>4 DEF Fill, callVars, resultVars, SyncInv, InSync
<1>5. CASE Return
  <2>1. PICK n \in 0..written :
          First(n) /\ answer' = [answer EXCEPT ![rpc] = from..Break(n)]
    BY <1>5 DEF Return
  <2>2. /\ rpc \in RPCs /\ rpc' = rpc /\ bare' = bare /\ phase = "read" /\ phase' = "idle"
        /\ answer'[rpc] = from..Break(n) /\ taken' = taken
        /\ \A d \in RPCs \ {rpc} : outcome'[d] = outcome[d] /\ answer'[d] = answer[d]
    BY <1>5, <2>1 DEF Return, ProgressInv, TypeOK
  <2>3. /\ n \in {rpc - 1, rpc}
        /\ bare => n = rpc - 1
        /\ Start(rpc - 1) <= from /\ from <= Break(n)
        /\ Break(n) < taken /\ Break(n) <= End(rpc)
        /\ n = rpc /\ ~bare => taken = Start(rpc + 1)
    BY <2>1, <2>2, AnswerBounds
  <2>4. Break(n) \in Int /\ (Break(n))' = Break(n)
    BY <2>2 DEF Break, Start, End
  <2>5. LagAtMostOne'
    <3>1. from..Break(n) \subseteq Message(rpc - 1) \cup Message(rpc)
      BY <2>3, <2>4 DEF Message, Start, End
    <3>2. \A d \in RPCs : \A k \in {d - 1, d} : Break(k)' = Break(k)
      BY <2>2 DEF Break
    <3>3. Break(n) \in from..Break(n) /\ \A p \in from..Break(n) : p <= Break(n)
      BY <2>3, <2>4
    <3>4. ASSUME NEW d \in RPCs, outcome'[d] = "reply"
          PROVE  /\ answer'[d] \subseteq Message(d - 1) \cup Message(d)
                 /\ \E k \in {d - 1, d} :
                      Break(k)' \in answer'[d] /\ \A p \in answer'[d] : p <= Break(k)'
      <4>1. CASE d = rpc
        BY <2>2, <2>3, <2>4, <3>1, <3>3, <4>1
      <4>2. CASE d # rpc
        BY <2>2, <3>2, <3>4, <4>2 DEF LagAtMostOne
      <4> QED BY <4>1, <4>2
    <3> QED BY <3>4 DEF LagAtMostOne
  <2>6. ~bare /\ End(rpc) \in from..Break(n) => n = rpc /\ taken = Start(rpc + 1)
    BY <2>3, <2>4 DEF Break, End
  <2>7. ASSUME ~bare, NEW d \in RPCs, d < rpc, InSync(d)
        PROVE  from = Start(rpc) /\ n = rpc /\ from..Break(n) = Message(rpc) /\ taken = Start(rpc + 1)
    <3>1. from = Start(rpc)
      BY <2>2, <2>7 DEF SyncInv
    <3>2. n = rpc
      BY <2>1, <2>3, <3>1 DEF First, Holds, Start, Mark
    <3> QED BY <2>3, <2>7, <3>1, <3>2 DEF Break, Message
  <2>8. SyncInv'
    <3>1. ASSUME ~bare, NEW d \in RPCs, d <= rpc, InSync(d)'
          PROVE  taken = Start(rpc + 1)
      <4>1. CASE d = rpc
        BY <2>2, <2>6, <3>1, <4>1 DEF InSync
      <4>2. CASE d # rpc
        BY <2>2, <2>7, <3>1, <4>2 DEF InSync
      <4> QED BY <4>1, <4>2
    <3>2. Returned' = rpc
      BY <2>2
    <3> QED BY <2>2, <3>1, <3>2 DEF SyncInv
  <2>9. CatchesUpForGood'
    <3>1. \A d \in RPCs : d > rpc => outcome[d] = "none"
      BY <2>2 DEF ProgressInv
    <3> QED BY <2>2, <2>7, <3>1 DEF CatchesUpForGood, InSync
  <2> QED BY <2>5, <2>8, <2>9
<1>6. CASE Close
  BY <1>0, <1>6 DEF Close, resultVars, SyncInv, InSync
<1>7. CASE Send
  BY <1>0, <1>7 DEF Send, callVars, resultVars, SyncInv, InSync
<1>8. CASE Drop
  BY <1>0, <1>8 DEF Drop, callVars, resultVars, SyncInv, InSync
<1>9. CASE UNCHANGED vars
  BY <1>0, <1>9 DEF vars, callVars, resultVars, SyncInv, InSync
<1> QED
  BY <1>1, <1>2, <1>3, <1>4, <1>5, <1>6, <1>7, <1>8, <1>9
    DEF Next, ExecRPC, Rests

-----------------------------------------------------------------------------
(* The inductive invariant holds in every reachable state. *)
THEOREM NETCONFInvariant == Spec => []IInv
<1>1. IInv /\ [Next]_vars => IInv'
  BY TypeStep, ProgressStep, AnswerStep DEF IInv
<1> QED BY <1>1, InitHolds, PTL DEF Spec

(* The session's variables and results stay in their type. *)
THEOREM NETCONFTypeCorrect == Spec => []TypeOK
<1>1. IInv => TypeOK
  BY DEF IInv
<1> QED BY <1>1, NETCONFInvariant, PTL

(* An answer of execRPC ends with the marker of its own reply or of the    *)
(* message before it, for any number of RPCs and every cut of the stream.  *)
THEOREM LagAtMostOneHolds == Spec => []LagAtMostOne
<1>1. IInv => LagAtMostOne
  BY DEF IInv
<1> QED BY <1>1, NETCONFInvariant, PTL

(* A session with a server that ends its marker lines stays in sync. *)
THEOREM CatchesUpForGoodHolds == Spec => []CatchesUpForGood
<1>1. IInv => CatchesUpForGood
  BY DEF IInv
<1> QED BY <1>1, NETCONFInvariant, PTL

(* The call to such a server always finds a marker in what it has been     *)
(* sent, if not its own then that of the message before.                   *)
THEOREM NoCallHangsHolds == Spec => []NoCallHangs
<1>1. ASSUME TypeOK, ProgressInv, FromInv, ~bare, Stuck PROVE FALSE
  <2>1. /\ rpc >= 1 /\ written = rpc /\ from <= Start(rpc)
        /\ taken > End(rpc) /\ ~Ended
    BY <1>1, Typing DEF Stuck, ProgressInv, FromInv
  <2>2. Holds(rpc)
    BY <1>1, <2>1, Typing DEF Holds, Break, Start, Mark
  <2> QED BY <1>1, <2>1, <2>2, Typing DEF Ended
<1>2. IInv => NoCallHangs
  BY <1>1 DEF IInv, NoCallHangs
<1> QED BY <1>2, NETCONFInvariant, PTL
=============================================================================
