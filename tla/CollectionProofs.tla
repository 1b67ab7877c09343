-------------------------- MODULE CollectionProofs ----------------------------
(***************************************************************************)
(* Proofs about module Collection, for every set of device configurations  *)
(* and any number of cycles and faults.                                    *)
(***************************************************************************)
EXTENDS CollectionInv, TLAPS

-----------------------------------------------------------------------------
(* The scripts: only the first command of one can make its method fail.    *)

Effects == {"fail", "return", "skip", "skipNext", "zero"}

Fallible(row) == row.onErr = "fail" \/ row.onBlank = "fail"

GoodRows == [group : Groups, onErr : Effects, onBlank : Effects,
             scalars : SUBSET Families, labelled : SUBSET Families]

SafeRows == {row \in GoodRows : ~Fallible(row)}

FailsFirst(script) ==
    /\ script \in Seq(GoodRows)
    /\ script # <<>>
    /\ \A i \in 1..Len(script) : i > 1 => script[i] \in SafeRows

(* A row of the tables has its type. *)
LEMMA RowIsGood ==
  ASSUME NEW g \in Groups, NEW e \in Effects, NEW b \in Effects,
         NEW s \in SUBSET Families, NEW l \in SUBSET Families
  PROVE  Row(g, e, b, s, l) \in GoodRows
BY DEF Row, GoodRows

(* It is safe if it has no failing effect. *)
LEMMA RowIsSafe ==
  ASSUME NEW g \in Groups, NEW e \in Effects \ {"fail"}, NEW b \in Effects \ {"fail"},
         NEW s \in SUBSET Families, NEW l \in SUBSET Families
  PROVE  Row(g, e, b, s, l) \in SafeRows
BY RowIsGood DEF Row, SafeRows, Fallible

(* Safe rows may follow. *)
LEMMA SafeTail ==
  ASSUME NEW s, NEW t, FailsFirst(s), t \in Seq(SafeRows)
  PROVE  FailsFirst(s \o t)
<1>1. t \in Seq(GoodRows)
  BY DEF SafeRows
<1>2. s \o t \in Seq(GoodRows) /\ s \o t # <<>>
  BY <1>1 DEF FailsFirst
<1>3. ASSUME NEW i \in 1..Len(s \o t), i > 1
      PROVE  (s \o t)[i] \in SafeRows
  BY <1>1, <1>3 DEF FailsFirst
<1> QED
  BY <1>2, <1>3 DEF FailsFirst

(* The JSON script begins with its only fallible call. *)
LEMMA JSONGood == FailsFirst(JSONScript)
<1> USE DEF Effects, Groups, Families, DeviceFamilies, Interfaces, SwitchFamilies,
             TableFamilies, HardwareFamilies, UpkeepFamilies
<1>1. FailsFirst(JSONSystem)
  BY RowIsGood DEF JSONSystem, FailsFirst
<1>2. JSONResources \in Seq(SafeRows) /\ JSONProcesses \in Seq(SafeRows)
  BY RowIsSafe DEF JSONResources, JSONProcesses
<1>3. JSONHardware \in Seq(SafeRows)
  BY RowIsSafe DEF JSONHardware
<1>4. JSONInterfaces \in Seq(SafeRows) /\ JSONOptics \in Seq(SafeRows)
  BY RowIsSafe DEF JSONInterfaces, JSONOptics, Interfaces
<1>5. JSONSTP \in Seq(SafeRows)
  BY RowIsSafe DEF JSONSTP
<1>6. JSONMAC \in Seq(SafeRows) /\ JSONVLANs \in Seq(SafeRows)
  BY RowIsSafe DEF JSONMAC, JSONVLANs
<1>7. JSONPortChannels \in Seq(SafeRows) /\ JSONL3Tables \in Seq(SafeRows)
  BY RowIsSafe DEF JSONPortChannels, JSONL3Tables
<1>8. JSONSystemInfo \in Seq(SafeRows) /\ JSONCapacity \in Seq(SafeRows)
  BY RowIsSafe DEF JSONSystemInfo, JSONCapacity
<1> QED
  BY <1>1, <1>2, <1>3, <1>4, <1>5, <1>6, <1>7, <1>8, SafeTail DEF JSONScript

(* RESTCONF and NETCONF, too. *)
LEMMA RESTCONFGood == FailsFirst(RESTCONFScript)
<1> USE DEF Effects, Groups, Families, DeviceFamilies, Interfaces, SwitchFamilies,
             TableFamilies, HardwareFamilies, UpkeepFamilies
<1>1. FailsFirst(RESTCONFSystem)
  BY RowIsGood, RowIsSafe DEF RESTCONFSystem, FailsFirst, SafeRows
<1>2. RESTCONFResources \in Seq(SafeRows) /\ RESTCONFProcesses \in Seq(SafeRows)
  BY RowIsSafe DEF RESTCONFResources, RESTCONFProcesses
<1>3. RESTCONFInterfaces \in Seq(SafeRows)
  BY RowIsSafe DEF RESTCONFInterfaces, Interfaces
<1> QED
  BY <1>1, <1>2, <1>3, SafeTail DEF RESTCONFScript

LEMMA NETCONFGood == FailsFirst(NETCONFScript)
<1> USE DEF Effects, Groups, Families, DeviceFamilies, Interfaces, SwitchFamilies,
             TableFamilies, HardwareFamilies, UpkeepFamilies
<1>1. FailsFirst(NETCONFSystem)
  BY RowIsGood DEF NETCONFSystem, FailsFirst
<1>2. NETCONFResources \in Seq(SafeRows) /\ NETCONFProcesses \in Seq(SafeRows)
  BY RowIsSafe DEF NETCONFResources, NETCONFProcesses
<1>3. NETCONFInterfaces \in Seq(SafeRows)
  BY RowIsSafe DEF NETCONFInterfaces
<1> QED
  BY <1>1, <1>2, <1>3, SafeTail DEF NETCONFScript

(* Nothing in the SSH scripts is fallible. *)
LEMMA SafeScript ==
  ASSUME NEW s \in Seq(SafeRows), s # <<>> PROVE FailsFirst(s)
BY DEF FailsFirst, SafeRows

LEMMA SSHGood == ASSUME NEW type PROVE FailsFirst(SSHScript(type))
<1> USE DEF Effects, Groups, Families, DeviceFamilies, Interfaces, SwitchFamilies,
             TableFamilies, HardwareFamilies, UpkeepFamilies
<1>1. NXOSScript \in Seq(SafeRows) /\ NXOSScript # <<>>
  BY RowIsSafe DEF NXOSScript, NXOSInterfaces, Interfaces
<1>2. IOSXEScript \in Seq(SafeRows) /\ IOSXEScript # <<>>
  BY RowIsSafe DEF IOSXEScript, Interfaces
<1>3. IOSScript \in Seq(SafeRows) /\ IOSScript # <<>>
  BY RowIsSafe DEF IOSScript, Interfaces
<1> QED
  BY <1>1, <1>2, <1>3, SafeScript DEF SSHScript

(* The method's script, whatever the configuration. *)
LEMMA ScriptGood == FailsFirst(Script)
BY JSONGood, RESTCONFGood, NETCONFGood, SSHGood DEF Script

(* What a row of the script is, and when it can fail. *)
LEMMA RowFacts ==
  ASSUME k \in Nat \ {0}, k <= Len(Script)
  PROVE  /\ Len(Script) \in Nat
         /\ Script[k] \in GoodRows
         /\ Fallible(Script[k]) => k = 1
<1>1. k \in 1..Len(Script) /\ Len(Script) \in Nat /\ Script[k] \in GoodRows
  BY ScriptGood DEF FailsFirst
<1>2. k > 1 => ~Fallible(Script[k])
  BY <1>1, ScriptGood DEF FailsFirst, SafeRows
<1> QED
  BY <1>1, <1>2

(* A fallible or not, it ends somewhere. *)
LEMMA ScriptLength == Len(Script) \in Nat \ {0}
BY ScriptGood DEF FailsFirst

-----------------------------------------------------------------------------
(* What the defaults leave of a configuration. *)
LEMMA ProfileFacts ==
  ASSUME config \in Profiles
  PROVE  /\ NumMethods \in Nat
         /\ profile.credential = config.credential
         /\ config.groups # {} => profile.groups = config.groups
<1>1. config \in [type : Types \cup {""}, methods : Seq(STRING),
                  groups : SUBSET Groups, credential : BOOLEAN]
  BY CollectionAssumption
<1>2. /\ profile.methods = MethodsOr(config.methods)
      /\ profile.groups = SelectionOr(config.groups)
      /\ profile.credential = config.credential
  BY <1>1 DEF profile, SetDefaults
<1>3. Len(MethodsOr(config.methods)) \in Nat
  <2>1. Len(DefaultMethods) = 4
    BY DEF DefaultMethods
  <2>2. Len(config.methods) \in Nat
    <3>1. config.methods \in Seq(STRING)
      BY <1>1
    <3> QED
      BY ONLY <3>1
  <2>3. CASE config.methods = <<>>
    BY <2>1, <2>3 DEF MethodsOr
  <2>4. CASE config.methods # <<>>
    BY <2>2, <2>4 DEF MethodsOr
  <2> QED
    BY <2>3, <2>4
<1> QED
  BY <1>2, <1>3 DEF NumMethods, SelectionOr

(* The configuration is fixed, so what is derived from it is, too. *)
LEMMA Fixed ==
  ASSUME config' = config
  PROVE  /\ profile' = profile /\ NumMethods' = NumMethods
         /\ m' = m => Method' = Method
BY DEF profile, NumMethods, Method

(* The ranges of the numbers, in the form most steps need. *)
LEMMA Ranges ==
  ASSUME TypeOK
  PROVE  /\ NumMethods \in Nat /\ MaxCycles \in Nat /\ MaxFaults \in Nat
         /\ m \in Nat /\ 1 <= m /\ m <= NumMethods + 1
         /\ k \in Nat /\ 1 <= k
         /\ cycle \in Nat /\ cycle <= MaxCycles
         /\ stamp \in Nat /\ stamp <= MaxCycles
         /\ faults \in Nat /\ faults <= MaxFaults
         /\ failed \subseteq 1..NumMethods
<1>1. NumMethods \in Nat /\ MaxCycles \in Nat /\ MaxFaults \in Nat
  BY ProfileFacts, CollectionAssumption DEF TypeOK
<1>2. m \in 1..(NumMethods + 1) /\ k \in Nat \ {0} /\ cycle \in 0..MaxCycles
      /\ stamp \in 0..MaxCycles /\ faults \in 0..MaxFaults /\ failed \subseteq 1..NumMethods
  BY Zenon DEF TypeOK
<1> QED
  BY <1>1, <1>2

(* The setters give a family an origin in this cycle and method, or leave it. *)
LEMMA WriteFacts ==
  ASSUME TypeOK, Method \in Methods, NEW s, NEW r \in BOOLEAN, Write(s, r)
  PROVE  /\ reg' \in [Families -> Origin]
         /\ counters' \in [Counters -> Nat]
         /\ \A f \in Families :
              \/ reg'[f] = reg[f]
              \/ reg'[f].cycle = cycle /\ reg'[f].method = Method
<1>1. reg' \in [Families -> Origin]
  BY DEF TypeOK, Write, Origin
<1>2. counters' \in [Counters -> Nat]
  BY DEF TypeOK, Write
<1>3. ASSUME NEW f \in Families
      PROVE  \/ reg'[f] = reg[f]
             \/ reg'[f].cycle = cycle /\ reg'[f].method = Method
  BY DEF Write, TypeOK
<1> QED
  BY <1>1, <1>2, <1>3

(* A method can only fail before it has written, ... *)
Fails ==
    /\ pc = "try" \/ (pc = "run" /\ k = 1)
    /\ m <= NumMethods
    /\ MethodFails
    /\ faults' \in 0..MaxFaults /\ reached' \in BOOLEAN

(* ... and otherwise goes on to a later row. *)
Advance ==
    /\ pc = "run" /\ k \in Nat \ {0} /\ k' \in Nat /\ k' > k
    /\ UNCHANGED <<config, cycle, pc, m, outcome, store, gauges, failed>>
    /\ reg' \in [Families -> Origin]
    /\ counters' \in [Counters -> Nat]
    /\ \A f \in Families :
         \/ reg'[f] = reg[f]
         \/ reg'[f].cycle = cycle /\ reg'[f].method = Method
    /\ faults' \in 0..MaxFaults /\ reached' \in BOOLEAN

(* An error or a blank answer. *)
LEMMA EffectFacts ==
  ASSUME TypeOK, PlaceInv, pc = "run", k <= Len(Script), Selected,
         NEW e \in {Script[k].onErr, Script[k].onBlank}, Effect(e),
         faults' \in 0..MaxFaults, reached' \in BOOLEAN
  PROVE  Fails \/ Advance
<1>1. m <= NumMethods /\ Method \in Methods
  BY DEF PlaceInv, Working
<1>2. k \in Nat \ {0} /\ Len(Script) \in Nat /\ Script[k] \in GoodRows
  BY RowFacts DEF TypeOK
<1>3. CASE e = "fail" /\ MethodFails
  <2>1. k = 1
    BY <1>2, <1>3, RowFacts DEF Fallible
  <2> QED
    BY <1>1, <1>3, <2>1 DEF Fails
<1>4. CASE e # "fail" /\ ~MethodFails
  <2>1. k' \in Nat /\ k' > k
    <3>1. k' \in {Len(Script) + 1, k + 2, k + 1}
      BY <1>4 DEF Effect
    <3> QED
      BY <1>2, <3>1
  <2>2. UNCHANGED <<config, cycle, pc, m, outcome, store, gauges, failed>>
    BY <1>4 DEF Effect
  <2>3. CASE e = "zero"
    <3>1. Write(Script[k].scalars, FALSE)
      BY <1>4, <2>3 DEF Effect
    <3> QED
      BY <1>1, <1>2, <2>1, <2>2, <3>1, WriteFacts DEF Advance
  <2>4. CASE e # "zero"
    <3>1. UNCHANGED <<reg, counters>>
      BY <1>4, <2>4 DEF Effect
    <3> QED
      BY <1>2, <2>1, <2>2, <3>1 DEF Advance, TypeOK
  <2> QED
    BY <2>3, <2>4
<1> QED
  BY <1>3, <1>4 DEF Effect, MethodFails

-----------------------------------------------------------------------------
(* The steps, with those that run a script's rows summed up. *)
Outline ==
    \/ Begin \/ Fails \/ Open \/ Advance \/ ParserPanics
    \/ UpdateStore \/ SetUp \/ SetMethod \/ SetDown
    \/ Publish \/ Stamp \/ UNCHANGED vars

LEMMA StepOutline == TypeOK /\ PlaceInv /\ [Next]_vars => Outline
<1> SUFFICES ASSUME TypeOK, PlaceInv, [Next]_vars PROVE Outline
  OBVIOUS
<1>1. CASE UnknownMethod \/ OpenFails
  BY <1>1 DEF UnknownMethod, OpenFails, Fails, Outline, TypeOK
<1>2. CASE SkipUnselected
  <2>1. k \in Nat \ {0} /\ k' = k + 1
    BY <1>2 DEF SkipUnselected, TypeOK
  <2>2. Advance
    BY <1>2, <2>1 DEF SkipUnselected, Advance, TypeOK, static, gauges
  <2> QED
    BY <2>2 DEF Outline
<1>3. CASE Answered
  <2>1. pc = "run" /\ k <= Len(Script) /\ Selected
        /\ Write(Script[k].scalars \cup Script[k].labelled, TRUE)
    BY <1>3 DEF Answered
  <2>2. Method \in Methods
    BY <2>1 DEF PlaceInv, Working
  <2>3. k \in Nat \ {0} /\ k' = k + 1
    BY <1>3 DEF Answered, TypeOK
  <2>4. /\ reg' \in [Families -> Origin]
        /\ counters' \in [Counters -> Nat]
        /\ \A f \in Families :
             \/ reg'[f] = reg[f]
             \/ reg'[f].cycle = cycle /\ reg'[f].method = Method
    BY <2>1, <2>2, WriteFacts
  <2>5. k' \in Nat /\ k' > k
    BY <2>3
  <2>6. reached' \in BOOLEAN /\ faults' \in 0..MaxFaults
    BY <1>3 DEF Answered, TypeOK, static
  <2>7. UNCHANGED <<config, cycle, pc, m, outcome, store, gauges, failed>>
    BY <1>3 DEF Answered, static
  <2>8. Advance
    BY <2>1, <2>3, <2>4, <2>5, <2>6, <2>7 DEF Advance
  <2> QED
    BY <2>8 DEF Outline
<1>4. CASE CommandErrs \/ AnswerIsBlank
  <2>1. faults' \in 0..MaxFaults /\ reached' \in BOOLEAN
    <3>1. faults' = faults + 1 /\ faults < MaxFaults
      BY <1>4 DEF CommandErrs, AnswerIsBlank
    <3>2. faults' \in 0..MaxFaults
      BY <3>1, Ranges
    <3>3. reached' \in BOOLEAN
      BY <1>4 DEF CommandErrs, AnswerIsBlank, TypeOK
    <3> QED
      BY <3>2, <3>3
  <2>2. pc = "run" /\ k <= Len(Script) /\ Selected
        /\ (Effect(Script[k].onErr) \/ Effect(Script[k].onBlank))
    BY <1>4 DEF CommandErrs, AnswerIsBlank
  <2>3. Fails \/ Advance
    BY <2>1, <2>2, EffectFacts
  <2> QED
    BY <2>3 DEF Outline
<1> QED
  BY <1>1, <1>2, <1>3, <1>4 DEF Next, Outline, Bounded

(* The state has its type. *)
LEMMA TypeStep == TypeOK /\ PlaceInv /\ StatusInv /\ Outline => TypeOK'
<1> SUFFICES ASSUME TypeOK, PlaceInv, StatusInv, Outline PROVE TypeOK'
  OBVIOUS
<1> USE DEF static, gauges
<1>0. NumMethods \in Nat /\ NumMethods' = NumMethods
  <2>1. config' = config
    BY DEF Outline, Begin, Fails, MethodFails, Open, Advance, ParserPanics, UpdateStore,
           SetUp, SetMethod, SetDown, Publish, Stamp, vars
  <2> QED
    BY <2>1, ProfileFacts, Fixed DEF TypeOK
<1> USE <1>0
<1>1. CASE Begin
  <2>1. /\ UNCHANGED <<static, reg, counters, store, gauges>>
        /\ m' = 1 /\ k' = 1 /\ failed' = {} /\ cycle' = cycle + 1 /\ cycle < MaxCycles
    BY <1>1 DEF Begin
  <2>2. pc' \in {"try", "publish"} /\ outcome' \in {"none", "err"}
    BY <1>1 DEF Begin
  <2>3. reached' \in BOOLEAN
    BY <1>1 DEF Begin
  <2>4. cycle' \in 0..MaxCycles /\ m' \in 1..(NumMethods + 1) /\ k' \in Nat \ {0}
    BY <2>1, Ranges
  <2> QED
    BY <2>1, <2>2, <2>3, <2>4 DEF TypeOK
<1>2. CASE Fails
  <2>1. m <= NumMethods /\ m' = m + 1 /\ failed' = failed \cup {m} /\ k' = 1
    BY <1>2 DEF Fails, MethodFails
  <2>2. m \in 1..NumMethods /\ failed \subseteq 1..NumMethods
    BY <2>1, Ranges
  <2>3. m' \in 1..(NumMethods + 1)
    BY <2>1, <2>2
  <2>4. failed' \subseteq 1..NumMethods
    BY <2>1, <2>2
  <2> QED
    BY <1>2, <2>1, <2>3, <2>4 DEF TypeOK, Fails, MethodFails
<1>3. CASE Open
  BY <1>3 DEF TypeOK, Open
<1>4. CASE Advance
  <2>1. k' \in Nat \ {0}
    BY <1>4 DEF Advance
  <2>2. /\ UNCHANGED <<config, cycle, pc, m, outcome, store, gauges, failed>>
        /\ reg' \in [Families -> Origin] /\ counters' \in [Counters -> Nat]
        /\ faults' \in 0..MaxFaults /\ reached' \in BOOLEAN
    BY <1>4 DEF Advance
  <2> QED
    BY <2>1, <2>2 DEF TypeOK
<1>5. CASE ParserPanics
  BY <1>5 DEF TypeOK, ParserPanics
<1>6. CASE UpdateStore
  <2>1. Method \in Methods
    BY <1>6 DEF UpdateStore, PlaceInv, Working
  <2> QED
    BY <1>6, <2>1 DEF TypeOK, UpdateStore, Origin
<1>7. CASE SetUp
  BY <1>7 DEF TypeOK, SetUp
<1>8. CASE SetMethod
  <2>1. Method \in Methods
    BY <1>8 DEF SetMethod, PlaceInv, Working
  <2> QED
    BY <1>8, <2>1 DEF TypeOK, SetMethod
<1>9. CASE SetDown
  BY <1>9 DEF TypeOK, SetDown
<1>10. CASE Publish
  <2>1. outcome \in {"ok", "err"}
    BY <1>10 DEF Publish, StatusInv, Over
  <2> QED
    BY <1>10, <2>1 DEF TypeOK, Publish
<1>11. CASE Stamp
  BY <1>11 DEF TypeOK, Stamp
<1>12. CASE UNCHANGED vars
  BY <1>12 DEF TypeOK, vars
<1> QED
  BY <1>1, <1>2, <1>3, <1>4, <1>5, <1>6, <1>7, <1>8, <1>9, <1>10, <1>11, <1>12 DEF Outline

-----------------------------------------------------------------------------
(* A collection starts in an empty registry and ends with nothing pending. *)
LEMMA InitHolds == Init => IInv
<1> SUFFICES ASSUME Init PROVE IInv
  OBVIOUS
<1> USE DEF Init
<1>1. TypeOK
  <2>1. config \in Profiles
    OBVIOUS
  <2>2. NumMethods \in Nat
    BY <2>1, ProfileFacts
  <2>3. MaxCycles \in Nat /\ MaxFaults \in Nat
    BY CollectionAssumption
  <2>4. Absent \in Origin
    BY <2>3 DEF Absent, Origin
  <2>5. reg \in [Families -> Origin] /\ counters \in [Counters -> Nat] /\ store \in Origin
    BY <2>4
  <2>6. /\ m \in 1..(NumMethods + 1) /\ k \in Nat \ {0} /\ cycle \in 0..MaxCycles
        /\ stamp \in 0..MaxCycles /\ faults \in 0..MaxFaults
    BY <2>2, <2>3
  <2> QED
    BY <2>1, <2>5, <2>6 DEF TypeOK
<1>2. PlaceInv
  BY DEF PlaceInv, Working, Collected
<1>3. WrittenInv
  BY DEF WrittenInv, OneMethodPerCycle, Absent
<1>4. StatusInv
  BY DEF StatusInv, Over, Collected
<1>5. StoreInv
  BY DEF StoreInv, Absent
<1> QED
  BY <1>1, <1>2, <1>3, <1>4, <1>5 DEF IInv

(* No step changes the configuration. *)
LEMMA ConfigFixed == Outline => config' = config
BY DEF Outline, Begin, Fails, MethodFails, Open, Advance, ParserPanics, UpdateStore,
       SetUp, SetMethod, SetDown, Publish, Stamp, vars, static

(* Where the loop is. *)
LEMMA PlaceStep == TypeOK /\ PlaceInv /\ StatusInv /\ Outline => PlaceInv'
<1> SUFFICES ASSUME TypeOK, PlaceInv, StatusInv, Outline PROVE PlaceInv'
  OBVIOUS
<1> USE DEF static, gauges
<1>1. NumMethods' = NumMethods /\ (m' = m => Method' = Method)
  BY ConfigFixed, Fixed
<1>2. CASE Begin
  BY <1>2, Ranges DEF Begin, PlaceInv, Working, Collected
<1>3. CASE Fails
  <2>1. pc' = "try" /\ cycle' = cycle /\ pc # "idle"
    BY <1>3 DEF Fails, MethodFails
  <2>2. failed' = 1..(m' - 1)
    BY <1>3, Ranges DEF Fails, MethodFails, PlaceInv
  <2> QED
    BY <2>1, <2>2 DEF PlaceInv, Working, Collected
<1>4. CASE Open
  BY <1>1, <1>4 DEF Open, PlaceInv, Working
<1>5. CASE Advance
  BY <1>1, <1>5 DEF Advance, PlaceInv, Working, Collected
<1>6. CASE ParserPanics \/ UpdateStore \/ SetUp
  BY <1>1, <1>6 DEF ParserPanics, UpdateStore, SetUp, PlaceInv, Working, Collected
<1>7. CASE SetMethod
  BY <1>1, <1>7 DEF SetMethod, PlaceInv, Working
<1>8. CASE SetDown
  BY <1>1, <1>8 DEF SetDown, PlaceInv, Working, Collected
<1>9. CASE Publish
  BY <1>1, <1>9 DEF Publish, PlaceInv, Working, Collected
<1>10. CASE Stamp
  BY <1>1, <1>10 DEF Stamp, PlaceInv, Working, Collected
<1>11. CASE UNCHANGED vars
  BY <1>1, <1>11 DEF vars, PlaceInv, Working, Collected
<1> QED
  BY <1>2, <1>3, <1>4, <1>5, <1>6, <1>7, <1>8, <1>9, <1>10, <1>11 DEF Outline

(* What this cycle has written. *)
LEMMA WrittenStep == TypeOK /\ PlaceInv /\ WrittenInv /\ Outline => WrittenInv'
<1> SUFFICES ASSUME TypeOK, PlaceInv, WrittenInv, Outline PROVE WrittenInv'
  OBVIOUS
<1> USE DEF static, gauges
<1>1. NumMethods' = NumMethods /\ (m' = m => Method' = Method)
  BY ConfigFixed, Fixed
<1>2. CASE Begin
  <2>1. reg' = reg /\ cycle' = cycle + 1
    BY <1>2 DEF Begin
  <2>2. \A f \in Families : reg[f].cycle \in Nat /\ reg[f].cycle <= cycle
    BY DEF TypeOK, Origin, WrittenInv
  <2>3. \A f \in Families : reg'[f].cycle <= cycle' /\ reg'[f].cycle # cycle'
    BY <2>1, <2>2, Ranges
  <2> QED
    BY <2>3 DEF WrittenInv, OneMethodPerCycle
<1>3. CASE Fails
  <2>1. reg' = reg /\ cycle' = cycle
    BY <1>3 DEF Fails, MethodFails
  <2>2. \A f \in Families : reg[f].cycle # cycle
    BY <1>3 DEF Fails, WrittenInv
  <2> QED
    BY <2>1, <2>2 DEF WrittenInv, OneMethodPerCycle
<1>4. CASE Open
  BY <1>1, <1>4 DEF Open, WrittenInv, OneMethodPerCycle
<1>5. CASE Advance
  <2>1. cycle' = cycle /\ pc' = "run" /\ k' # 1 /\ m' = m
    <3>1. k' # 1
      BY <1>5, Ranges DEF Advance
    <3> QED
      BY <1>5, <3>1 DEF Advance
  <2>2. m <= NumMethods
    BY <1>5 DEF Advance, PlaceInv, Working
  <2>3. ASSUME NEW f \in Families
        PROVE  /\ reg'[f].cycle <= cycle
               /\ reg'[f].cycle = cycle => cycle = 0 \/ reg'[f].method = Method
    <3>1. CASE reg'[f] = reg[f]
      <4>1. cycle \in Nat /\ cycle # 0 => cycle > 0
        BY Ranges
      <4>2. /\ reg[f].cycle <= cycle
            /\ cycle > 0 /\ reg[f].cycle = cycle => reg[f].method = Method
        BY DEF WrittenInv, OneMethodPerCycle
      <4> QED
        BY <3>1, <4>1, <4>2, Ranges
    <3>2. CASE reg'[f].cycle = cycle /\ reg'[f].method = Method
      BY <3>2, Ranges
    <3> QED
      BY <1>5, <3>1, <3>2 DEF Advance
  <2>4. cycle > 0 => cycle # 0
    BY Ranges
  <2> QED
    BY <1>1, <2>1, <2>2, <2>3, <2>4 DEF WrittenInv, OneMethodPerCycle
<1>6. CASE ParserPanics \/ UpdateStore \/ SetUp \/ SetMethod
  BY <1>1, <1>6 DEF ParserPanics, UpdateStore, SetUp, SetMethod, WrittenInv, OneMethodPerCycle
<1>7. CASE SetDown \/ Publish \/ Stamp
  BY <1>1, <1>7 DEF SetDown, Publish, Stamp, WrittenInv, OneMethodPerCycle
<1>8. CASE UNCHANGED vars
  BY <1>1, <1>8 DEF vars, WrittenInv, OneMethodPerCycle
<1> QED
  BY <1>2, <1>3, <1>4, <1>5, <1>6, <1>7, <1>8 DEF Outline

(* What the gauges say of the outcome. *)
LEMMA StatusStep == TypeOK /\ PlaceInv /\ StatusInv /\ Outline => StatusInv'
<1> SUFFICES ASSUME TypeOK, PlaceInv, StatusInv, Outline PROVE StatusInv'
  OBVIOUS
<1> USE DEF static, gauges
<1>1. /\ NumMethods' = NumMethods /\ (m' = m => Method' = Method)
      /\ config' = config /\ profile.credential = config.credential
  BY ConfigFixed, Fixed, ProfileFacts DEF TypeOK
<1>2. CASE Begin
  <2>1. pc' = "try" \/ (pc' = "publish" /\ ~config.credential /\ outcome' = "err")
    BY <1>1, <1>2 DEF Begin
  <2>2. ~config.credential => pc' = "publish" /\ up' = "absent"
    BY <1>1, <1>2 DEF Begin, StatusInv
  <2> QED
    BY <1>1, <2>1, <2>2 DEF StatusInv, Over, Collected
<1>3. CASE Fails
  <2>1. config.credential
    BY <1>3 DEF Fails, StatusInv
  <2>2. pc' = "try"
    BY <1>3 DEF Fails, MethodFails
  <2> QED
    BY <1>1, <2>1, <2>2 DEF StatusInv, Over, Collected
<1>4. CASE Open
  BY <1>1, <1>4 DEF Open, StatusInv, Over, Collected
<1>5. CASE Advance
  BY <1>1, <1>5 DEF Advance, StatusInv, Over, Collected
<1>6. CASE ParserPanics \/ UpdateStore \/ SetUp
  BY <1>1, <1>6 DEF ParserPanics, UpdateStore, SetUp, StatusInv, Over, Collected
<1>7. CASE SetMethod
  BY <1>1, <1>7 DEF SetMethod, StatusInv, Over, Collected
<1>8. CASE SetDown
  <2>1. m = NumMethods + 1
    BY <1>8, Ranges DEF SetDown
  <2> QED
    BY <1>1, <1>8, <2>1 DEF SetDown, StatusInv, Over, Collected
<1>9. CASE Publish
  <2>1. cycle > 0 /\ Over
    BY <1>9 DEF Publish, PlaceInv, Over
  <2> QED
    BY <1>1, <1>9, <2>1 DEF Publish, StatusInv, Over, Collected
<1>10. CASE Stamp
  BY <1>1, <1>10 DEF Stamp, StatusInv, Over, Collected
<1>11. CASE UNCHANGED vars
  BY <1>1, <1>11 DEF vars, StatusInv, Over, Collected
<1> QED
  BY <1>2, <1>3, <1>4, <1>5, <1>6, <1>7, <1>8, <1>9, <1>10, <1>11 DEF Outline

(* What is stored behind the timestamp. *)
LEMMA StoreStep == TypeOK /\ PlaceInv /\ StatusInv /\ StoreInv /\ Outline => StoreInv'
<1> SUFFICES ASSUME TypeOK, PlaceInv, StatusInv, StoreInv, Outline PROVE StoreInv'
  OBVIOUS
<1> USE DEF static, gauges
<1>1. NumMethods' = NumMethods /\ (m' = m => Method' = Method)
  BY ConfigFixed, Fixed
<1>2. store.cycle \in Nat /\ cycle \in Nat /\ stamp \in Nat
  BY Ranges DEF TypeOK, Origin
<1>3. CASE Begin
  <2>1. /\ UNCHANGED <<store, stamp, method>> /\ cycle' = cycle + 1
        /\ pc = "idle" /\ (pc' = "try" \/ (pc' = "publish" /\ outcome' = "err"))
    BY <1>3 DEF Begin
  <2>2. store.cycle <= cycle'
    BY <1>2, <2>1 DEF StoreInv
  <2> QED
    BY <2>1, <2>2 DEF StoreInv
<1>4. CASE Fails
  BY <1>4 DEF Fails, MethodFails, StoreInv
<1>5. CASE Open \/ ParserPanics
  BY <1>5 DEF Open, ParserPanics, StoreInv
<1>6. CASE Advance
  BY <1>6 DEF Advance, StoreInv
<1>7. CASE UpdateStore
  <2>1. /\ store' = [cycle |-> cycle, method |-> Method, real |-> TRUE]
        /\ UNCHANGED <<cycle, stamp, m>> /\ pc' = "up" /\ pc = "run"
    BY <1>7 DEF UpdateStore
  <2>2. stamp <= cycle
    BY <1>2, <2>1 DEF StoreInv
  <2> QED
    BY <1>1, <1>2, <2>1, <2>2 DEF StoreInv
<1>8. CASE SetUp \/ SetMethod
  BY <1>1, <1>8 DEF SetUp, SetMethod, StoreInv
<1>9. CASE SetDown
  BY <1>9 DEF SetDown, StoreInv
<1>10. CASE Publish
  <2>1. outcome \in {"ok", "err"}
    BY <1>10 DEF Publish, StatusInv, Over
  <2> QED
    BY <1>1, <1>10, <2>1 DEF Publish, StoreInv
<1>11. CASE Stamp
  <2>1. method = Method
    BY <1>11 DEF Stamp, StatusInv, Over
  <2> QED
    BY <1>1, <1>2, <1>11, <2>1 DEF Stamp, StoreInv
<1>12. CASE UNCHANGED vars
  BY <1>1, <1>12 DEF vars, StoreInv
<1> QED
  BY <1>3, <1>4, <1>5, <1>6, <1>7, <1>8, <1>9, <1>10, <1>11, <1>12 DEF Outline

-----------------------------------------------------------------------------
(* The inductive invariant holds in every reachable state: for any set of  *)
(* configurations, and any number of cycles, refusals, errors and blanks.  *)
THEOREM CollectionInvariant == Spec => []IInv
<1>1. IInv /\ [Next]_vars => IInv'
  BY StepOutline, TypeStep, PlaceStep, WrittenStep, StatusStep, StoreStep DEF IInv
<1> QED
  BY InitHolds, <1>1, PTL DEF Spec

(* The collection is type-correct; its index stays within the methods. *)
THEOREM CollectionTypeCorrect == Spec => []TypeOK
<1>1. IInv => TypeOK
  BY DEF IInv
<1> QED
  BY CollectionInvariant, <1>1, PTL

(* A cycle's values come from one method: a method that fails has written  *)
(* nothing, since only the first command of a script can make it fail.     *)
THEOREM OneMethodPerCycleHolds == Spec => []OneMethodPerCycle
<1>1. IInv => OneMethodPerCycle
  BY DEF IInv, WrittenInv
<1> QED
  BY CollectionInvariant, <1>1, PTL

(* Between collections device_up and collection_success agree. *)
THEOREM UpAgreesWithSuccessHolds == Spec => []UpAgreesWithSuccess
<1>1. IInv => UpAgreesWithSuccess
  BY DEF IInv, StatusInv, Over, UpAgreesWithSuccess
<1> QED
  BY CollectionInvariant, <1>1, PTL

(* device_up is down only when every method has failed, and the method     *)
(* gauge names the first that has not.                                     *)
THEOREM FirstWorkingMethodWinsHolds == Spec => []FirstWorkingMethodWins
<1>1. IInv => FirstWorkingMethodWins
  <2> SUFFICES ASSUME IInv, Collected PROVE FirstWorkingMethodWins
    BY DEF FirstWorkingMethodWins
  <2>1. up = "down" => failed = 1..NumMethods
    BY Ranges DEF IInv, StatusInv, PlaceInv, Over
  <2>2. up = "up" => failed = 1..(m - 1) /\ method = Method
    BY DEF IInv, StatusInv, PlaceInv, Over
  <2> QED
    BY <2>1, <2>2 DEF FirstWorkingMethodWins
<1> QED
  BY CollectionInvariant, <1>1, PTL

(* The timestamp never runs ahead of the store. *)
THEOREM StampBackedByStoreHolds == Spec => []StampBackedByStore
<1>1. IInv => StampBackedByStore
  BY DEF IInv, StoreInv, StampBackedByStore, Collected
<1> QED
  BY CollectionInvariant, <1>1, PTL
=============================================================================
