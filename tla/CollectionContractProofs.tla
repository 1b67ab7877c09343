----------------------- MODULE CollectionContractProofs ------------------------
(***************************************************************************)
(* Module Collection implements DeviceContract, for every set of device    *)
(* configurations and any number of cycles and faults.                     *)
(***************************************************************************)
EXTENDS CollectionProofs

-----------------------------------------------------------------------------
(* The values of a cycle are of the method the loop is at, if there are any *)
(* yet; a method that can still fail has written none.                     *)
LEMMA WrittenByFacts ==
  ASSUME IInv
  PROVE  /\ WrittenBy \in {{}, {Method}}
         /\ pc = "try" \/ (pc = "run" /\ k = 1) => WrittenBy = {}
         /\ m > NumMethods => WrittenBy = {}
<1>1. \A f \in Families : cycle > 0 /\ reg[f].cycle = cycle => m <= NumMethods /\ reg[f].method = Method
  BY DEF IInv, WrittenInv, OneMethodPerCycle
<1>2. WrittenBy \subseteq {Method} /\ (m > NumMethods => WrittenBy = {})
  BY <1>1, Ranges DEF WrittenBy, IInv
<1>3. pc = "try" \/ (pc = "run" /\ k = 1) => WrittenBy = {}
  BY DEF WrittenBy, IInv, WrittenInv
<1> QED
  BY <1>2, <1>3

(* What is written stays. *)
LEMMA WrittenByStays ==
  ASSUME reg' = reg, cycle' = cycle
  PROVE  WrittenBy' = WrittenBy
BY DEF WrittenBy

(* A row of the script adds its method, or nothing. *)
LEMMA AdvanceWrites ==
  ASSUME IInv, Advance
  PROVE  WrittenBy' \in {WrittenBy, {Method}}
<1>1. cycle' = cycle /\ config' = config /\ m' = m
  BY DEF Advance
<1>2. WrittenBy' \in {{}, {Method}}
  <2>1. \A f \in Families : cycle > 0 /\ reg'[f].cycle = cycle => reg'[f].method = Method
    BY DEF Advance, IInv, WrittenInv, OneMethodPerCycle
  <2> QED
    BY <1>1, <2>1 DEF WrittenBy
<1>3. WrittenBy' = {} => WrittenBy = {}
  <2>1. \A f \in Families : reg[f].cycle = cycle => reg'[f].cycle = cycle
    BY DEF Advance
  <2> QED
    BY <1>1, <2>1 DEF WrittenBy
<1> QED
  BY <1>2, <1>3

(* The first state is the contract's. *)
LEMMA ContractInit == Init => Contract!Init
<1> SUFFICES ASSUME Init PROVE Contract!Init
  OBVIOUS
<1> USE DEF Init
<1>1. config \in [type : Types \cup {""}, methods : Seq(STRING),
                  groups : SUBSET Groups, credential : BOOLEAN]
  BY CollectionAssumption
<1>2. profile.methods = MethodsOr(config.methods)
  BY <1>1 DEF profile, SetDefaults
<1>3. profile.methods \in Seq(Methods \cup STRING) \ {<<>>}
  <2>1. DefaultMethods \in Seq(Methods \cup STRING) /\ DefaultMethods # <<>>
    BY DEF DefaultMethods, Methods
  <2>2. config.methods \in Seq(Methods \cup STRING)
    <3>1. config.methods \in Seq(STRING)
      BY <1>1
    <3> QED
      BY ONLY <3>1
  <2> QED
    BY <1>2, <2>1, <2>2 DEF MethodsOr
<1>4. WrittenBy = {}
  BY DEF WrittenBy
<1> QED
  BY <1>3, <1>4 DEF Contract!Init, Succeeding, Absent

(* Every step is one of the contract's or leaves it alone. *)
LEMMA ContractStep == IInv /\ Outline => [Contract!Next]_(Contract!vars)
<1> SUFFICES ASSUME IInv, Outline PROVE [Contract!Next]_(Contract!vars)
  OBVIOUS
<1> USE DEF static, gauges
<1>1. /\ profile' = profile /\ NumMethods' = NumMethods /\ (m' = m => Method' = Method)
      /\ Len(profile.methods) = NumMethods
  BY ConfigFixed, Fixed DEF NumMethods
<1>2. TypeOK /\ PlaceInv /\ WrittenInv /\ StatusInv /\ StoreInv
  BY DEF IInv
<1>3. CASE Begin
  <2>1. WrittenBy' = {}
    <3>1. reg' = reg /\ cycle' = cycle + 1
      BY <1>3 DEF Begin
    <3>2. \A f \in Families : reg[f].cycle \in Nat /\ reg[f].cycle <= cycle
      BY <1>2 DEF TypeOK, Origin, WrittenInv
    <3>3. \A f \in Families : reg'[f].cycle # cycle'
      BY <1>2, <3>1, <3>2, Ranges
    <3> QED
      BY <3>3 DEF WrittenBy
  <2>2. CASE profile.credential
    <3>1. Contract!Begin
      BY <1>1, <1>3, <2>1, <2>2 DEF Begin, Contract!Begin, Contract!seen, Succeeding
    <3> QED
      BY <3>1 DEF Contract!Next
  <2>3. CASE ~profile.credential
    <3>1. Contract!Refuse
      BY <1>1, <1>3, <2>1, <2>3 DEF Begin, Contract!Refuse, Succeeding
    <3> QED
      BY <3>1 DEF Contract!Next
  <2> QED
    BY <2>2, <2>3
<1>4. CASE Fails
  <2>1. WrittenBy = {} /\ WrittenBy' = WrittenBy
    BY <1>4, WrittenByFacts, WrittenByStays DEF Fails, MethodFails
  <2>2. Contract!Fallback
    BY <1>1, <1>4, <2>1 DEF Fails, MethodFails, Contract!Fallback, Contract!seen, Succeeding
  <2> QED
    BY <2>2 DEF Contract!Next
<1>5. CASE Open
  BY <1>1, <1>5, WrittenByStays DEF Open, Contract!vars, Contract!seen, Succeeding
<1>6. CASE Advance
  <2>1. m <= NumMethods
    BY <1>2, <1>6 DEF Advance, PlaceInv, Working
  <2>2. WrittenBy' \in {WrittenBy, {Method}}
    BY <1>6, AdvanceWrites
  <2>3. CASE WrittenBy' = WrittenBy
    BY <1>1, <1>6, <2>3 DEF Advance, Contract!vars, Contract!seen, Succeeding
  <2>4. CASE WrittenBy' = {Method}
    <3>1. Contract!Write
      BY <1>1, <1>6, <2>1, <2>4 DEF Advance, Contract!Write, Contract!seen, Succeeding, Method
    <3> QED
      BY <3>1 DEF Contract!Next
  <2> QED
    BY <2>2, <2>3, <2>4
<1>7. CASE ParserPanics
  BY <1>1, <1>7, WrittenByStays DEF ParserPanics, Contract!vars, Contract!seen, Succeeding
<1>8. CASE UpdateStore
  <2>1. m <= NumMethods
    BY <1>2, <1>8 DEF UpdateStore, PlaceInv, Working
  <2>2. Contract!Succeed
    BY <1>1, <1>8, <2>1, WrittenByStays DEF UpdateStore, Contract!Succeed, Succeeding, Method
  <2> QED
    BY <2>2 DEF Contract!Next
<1>9. CASE SetUp
  BY <1>1, <1>9, WrittenByStays DEF SetUp, Contract!vars, Contract!seen, Succeeding
<1>10. CASE SetMethod
  BY <1>1, <1>2, <1>10, WrittenByStays
     DEF SetMethod, StatusInv, Contract!vars, Contract!seen, Succeeding
<1>11. CASE SetDown
  <2>1. m = NumMethods + 1
    BY <1>2, <1>11, Ranges DEF SetDown
  <2>2. Contract!Fail
    BY <1>1, <1>11, <2>1, WrittenByStays DEF SetDown, Contract!Fail, Succeeding
  <2> QED
    BY <2>2 DEF Contract!Next
<1>12. CASE Publish
  BY <1>1, <1>2, <1>12, WrittenByStays
     DEF Publish, StatusInv, Over, Contract!vars, Contract!seen, Succeeding
<1>13. CASE Stamp
  <2>1. up = "up" /\ method = Method /\ success = "ok"
    BY <1>2, <1>13 DEF Stamp, StatusInv, Over
  <2> QED
    BY <1>1, <1>13, <2>1, WrittenByStays DEF Stamp, Contract!vars, Contract!seen, Succeeding
<1>14. CASE UNCHANGED vars
  BY <1>1, <1>14, WrittenByStays DEF vars, Contract!vars, Contract!seen, Succeeding
<1> QED
  BY <1>3, <1>4, <1>5, <1>6, <1>7, <1>8, <1>9, <1>10, <1>11, <1>12, <1>13, <1>14 DEF Outline

(* A collection takes effect as a whole, at the update of the store, or    *)
(* not at all; and no method falls back once it has written.               *)
THEOREM ImplementsDeviceContract == Spec => TakesEffectAtOnce
<1>1. IInv /\ [Next]_vars => [Contract!Next]_(Contract!vars)
  BY StepOutline, ContractStep DEF IInv
<1>2. Spec => Contract!Init /\ [][Contract!Next]_(Contract!vars)
  BY <1>1, ContractInit, CollectionInvariant, PTL DEF Spec
<1> QED
  BY <1>2 DEF TakesEffectAtOnce, Contract!Spec
=============================================================================
