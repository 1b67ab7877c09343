---------------------------- MODULE SchedulerProofs ----------------------------
(***************************************************************************)
(* Proofs about module Scheduler, for any number of devices, workers and   *)
(* cycles: the inductive invariant of module SchedulerInv holds, and with  *)
(* it the safety properties that the model checker sees on one instance.   *)
(***************************************************************************)
EXTENDS SchedulerInv, FiniteSetTheorems, TLAPS

-----------------------------------------------------------------------------
(* The number of busy workers.                                             *)

(* The busy workers can be counted. *)
LEMMA BusyFinite == IsFiniteSet(Busy) /\ Cardinality(Busy) \in Nat
<1>1. IsFiniteSet(Busy)
  BY WorkersAssumption, FS_Subset DEF Busy
<1>2. QED
  BY <1>1, FS_CardinalityType

(* A worker that takes a closure adds one to the busy ones. *)
LEMMA BusyGrows ==
  ASSUME NEW w \in Workers, NEW j, j # NoJob, busy[w] = NoJob,
         DOMAIN busy = Workers, busy' = [busy EXCEPT ![w] = j]
  PROVE  Cardinality(Busy') = Cardinality(Busy) + 1
<1>1. Busy' = Busy \cup {w} /\ w \notin Busy
  BY DEF Busy
<1>2. QED
  BY <1>1, BusyFinite, FS_AddElement

(* A worker that finishes one takes one away, and there was one to take. *)
LEMMA BusyShrinks ==
  ASSUME NEW w \in Workers, busy[w] # NoJob,
         DOMAIN busy = Workers, busy' = [busy EXCEPT ![w] = NoJob]
  PROVE  Cardinality(Busy') = Cardinality(Busy) - 1 /\ Cardinality(Busy) > 0
<1>1. Busy' = Busy \ {w} /\ w \in Busy
  BY DEF Busy
<1>2. Cardinality(Busy') = Cardinality(Busy) - 1
  BY <1>1, BusyFinite, FS_RemoveElement
<1>3. Cardinality(Busy) # 0
  BY <1>1, BusyFinite, FS_EmptySet
<1>4. QED
  BY <1>2, <1>3, BusyFinite

(* A pool whose count is zero runs nothing. *)
LEMMA NobodyBusy ==
  ASSUME Cardinality(Busy) = 0
  PROVE  Busy = {}
BY BusyFinite, FS_EmptySet
-----------------------------------------------------------------------------
(* Part one of the invariant: types, stages and the WaitGroup.             *)

(* The channel's capacity is a number. *)
LEMMA QueueCapType == QueueCap \in Nat
BY WorkersAssumption, FS_CardinalityType DEF QueueCap

(* Start leaves the pool as New made it. *)
LEMMA PoolInvInit == Init => PoolInv
<1> SUFFICES ASSUME Init PROVE PoolInv
  OBVIOUS
<1> USE SchedulerAssumption DEF Init, PoolInit
<1>1. TypeOK
  <2>1. PoolTypeOK(Job)
    <3>1. <<>> \in Seq(Job) /\ Len(<<>>) <= QueueCap
      BY QueueCapType
    <3>. QED
      BY <3>1 DEF PoolTypeOK
  <2>2. 1 \in 1..(N + 1)
    OBVIOUS
  <2>3. /\ results \in [Devices -> {"none", "ok", "err"}]
        /\ success \in [Devices -> {"absent", "ok", "err"}]
        /\ stamp \in [Devices -> Nat]
    BY DEF NoResults
  <2>4. /\ stage \in [Workers -> {"idle", "collect", "record", "publish", "stamp", "done"}]
        /\ outcome \in [Workers -> {"none", "ok", "err"}]
    OBVIOUS
  <2>5. sched \in {"check", "submit", "send", "wait", "report", "select", "stopped"}
    OBVIOUS
  <2>6. /\ next \in 1..(N + 1)
        /\ cycle \in Nat \ {0}
        /\ late \in Nat
    BY <2>2
  <2>7. ctxDone \in BOOLEAN /\ ticker \in {"none", "empty", "full"}
    OBVIOUS
  <2>. QED
    BY <2>1, <2>3, <2>4, <2>5, <2>6, <2>7 DEF TypeOK
<1>2. StageInv
  BY DEF StageInv, Running
<1>3. Busy = {}
  BY DEF Busy
<1>4. WgCountsInFlight
  BY <1>3, FS_EmptySet DEF WgCountsInFlight
<1>5. LoopInv
  BY DEF LoopInv
<1>6. QED
  BY <1>1, <1>2, <1>4, <1>5 DEF PoolInv

(* The loop's steps keep part one: Submit counts before it sends. *)
LEMMA PoolInvScheduler == PoolInv /\ SchedulerStep => PoolInv'
<1> SUFFICES ASSUME PoolInv, SchedulerStep PROVE PoolInv'
  OBVIOUS
<1> USE SchedulerAssumption DEF PoolInv, TypeOK, PoolTypeOK, LoopInv
<1>1. busy' = busy /\ stage' = stage /\ outcome' = outcome /\ success' = success /\ stamp' = stamp
  BY DEF SchedulerStep, CheckGoesOn, CheckAborts, SubmitAdds, SubmitSends, LoopEnds,
         WaitReturns, Report, SelectTick, SelectDone, Add, Send, poolVars, closureVars, gaugeVars
<1>2. Busy' = Busy /\ Cardinality(Busy) \in Nat /\ StageInv'
  BY <1>1, BusyFinite DEF Busy, StageInv, Running
<1>3. CASE CheckGoesOn
  BY <1>1, <1>2, <1>3 DEF CheckGoesOn, poolVars, WgCountsInFlight
<1>4. CASE CheckAborts
  BY <1>1, <1>2, <1>4 DEF CheckAborts, Return, poolVars, WgCountsInFlight
<1>5. CASE SubmitAdds
  BY <1>1, <1>2, <1>5 DEF SubmitAdds, Add, WgCountsInFlight
<1>6. CASE SubmitSends
  <2>1. [dev |-> next, cycle |-> cycle] \in Job
    BY <1>6 DEF SubmitSends, Job, Devices
  <2>2. jobs' \in Seq(Job) /\ Len(jobs') = Len(jobs) + 1 /\ Len(jobs') <= QueueCap
    BY <2>1, <1>6, QueueCapType DEF SubmitSends, Send
  <2>. QED
    BY <1>1, <1>2, <1>6, <2>2 DEF SubmitSends, Send, WgCountsInFlight
<1>7. CASE LoopEnds
  BY <1>1, <1>2, <1>7 DEF LoopEnds, poolVars, WgCountsInFlight
<1>8. CASE WaitReturns
  BY <1>1, <1>2, <1>8 DEF WaitReturns, poolVars, WgCountsInFlight
<1>9. CASE Report
  BY <1>1, <1>2, <1>9 DEF Report, Return, poolVars, WgCountsInFlight
<1>10. CASE SelectTick
  BY <1>1, <1>2, <1>10 DEF SelectTick, poolVars, WgCountsInFlight, NoResults
<1>11. CASE SelectDone
  BY <1>1, <1>2, <1>11 DEF SelectDone, poolVars, WgCountsInFlight
<1>12. QED
  BY <1>3, <1>4, <1>5, <1>6, <1>7, <1>8, <1>9, <1>10, <1>11 DEF SchedulerStep

(* The workers' steps keep it: Done comes once per closure. *)
LEMMA PoolInvWorker ==
  ASSUME NEW w \in Workers, PoolInv, WorkerStep(w)
  PROVE  PoolInv'
<1> USE SchedulerAssumption DEF PoolInv, TypeOK, PoolTypeOK, LoopInv, loopVars
<1>0. Cardinality(Busy) \in Nat
  BY BusyFinite
<1>1. CASE Take(w)
  <2>1. /\ busy[w] = NoJob /\ busy' = [busy EXCEPT ![w] = Head(jobs)]
        /\ jobs # <<>> /\ jobs' = Tail(jobs) /\ wg' = wg
        /\ stage' = [stage EXCEPT ![w] = "collect"]
        /\ UNCHANGED <<outcome, loopVars, results, gaugeVars, late>>
    BY <1>1 DEF Take, Receive
  <2>2. Head(jobs) \in Job /\ Head(jobs) # NoJob
    BY <2>1
  <2>3. jobs' \in Seq(Job) /\ Len(jobs') = Len(jobs) - 1 /\ Len(jobs) \in Nat
    BY <2>1
  <2>4. Cardinality(Busy') = Cardinality(Busy) + 1
    BY <2>1, <2>2, BusyGrows
  <2>5. PoolTypeOK(Job)'
    BY <2>1, <2>2, <2>3, QueueCapType
  <2>6. StageInv' /\ stage' \in [Workers -> {"idle", "collect", "record", "publish", "stamp", "done"}]
    BY <1>1, <2>1, <2>2 DEF StageInv, Running, Take
  <2>7. WgCountsInFlight'
    BY <1>0, <2>1, <2>3, <2>4 DEF WgCountsInFlight
  <2>. QED
    BY <2>1, <2>5, <2>6, <2>7 DEF gaugeVars
<1>2. CASE Finish(w)
  <2>1. /\ busy[w] # NoJob /\ busy' = [busy EXCEPT ![w] = NoJob]
        /\ jobs' = jobs /\ wg' = wg - 1
        /\ stage[w] = "done"
        /\ stage' = [stage EXCEPT ![w] = "idle"]
        /\ outcome' = [outcome EXCEPT ![w] = "none"]
        /\ UNCHANGED <<loopVars, results, gaugeVars, late>>
    BY <1>2 DEF Finish, Done
  <2>2. Cardinality(Busy') = Cardinality(Busy) - 1 /\ Cardinality(Busy) > 0
    BY <2>1, BusyShrinks
  <2>3. wg > 0 /\ Len(jobs) \in Nat
    BY <1>0, <2>2 DEF WgCountsInFlight
  <2>4. PoolTypeOK(Job)'
    BY <2>1, <2>3
  <2>5. /\ stage' \in [Workers -> {"idle", "collect", "record", "publish", "stamp", "done"}]
        /\ outcome' \in [Workers -> {"none", "ok", "err"}]
    BY <2>1
  <2>6. StageInv'
    BY <2>1 DEF StageInv, Running
  <2>7. WgCountsInFlight'
    BY <1>0, <2>1, <2>2 DEF WgCountsInFlight
  <2>. QED
    BY <2>1, <2>4, <2>5, <2>6, <2>7 DEF gaugeVars
<1>3. CASE Collect(w) \/ Record(w) \/ Publish(w) \/ Stamp(w)
  <2>1. /\ UNCHANGED <<poolVars, loopVars, late>>
        /\ stage[w] \notin {"idle", "done"} /\ busy[w] \in Job
    BY <1>3 DEF Collect, Record, Publish, Stamp, StageInv, Running
  <2>2. PoolTypeOK(Job)' /\ WgCountsInFlight'
    BY <2>1 DEF poolVars, WgCountsInFlight, Busy
  <2>3. busy[w].dev \in Devices /\ busy[w].cycle \in Nat
    BY <2>1 DEF Job
  <2>4. CASE Collect(w)
    BY <2>1, <2>2, <2>4 DEF Collect, StageInv, Running, poolVars, gaugeVars
  <2>5. CASE Record(w)
    <3>1. outcome[w] \in {"none", "ok", "err"}
      OBVIOUS
    <3>2. results' \in [Devices -> {"none", "ok", "err"}]
      BY <2>3, <2>5, <3>1 DEF Record
    <3>. QED
      BY <2>1, <2>2, <2>5, <3>2 DEF Record, StageInv, Running, poolVars, gaugeVars
  <2>6. CASE Publish(w)
    <3>1. outcome[w] \in {"ok", "err"}
      BY <2>6 DEF Publish, StageInv
    <3>2. success' \in [Devices -> {"absent", "ok", "err"}]
      BY <2>3, <2>6, <3>1 DEF Publish
    <3>. QED
      BY <2>1, <2>2, <2>6, <3>2 DEF Publish, StageInv, Running, poolVars
  <2>7. CASE Stamp(w)
    <3>1. stamp' \in [Devices -> Nat]
      BY <2>3, <2>7 DEF Stamp
    <3>. QED
      BY <2>1, <2>2, <2>7, <3>1 DEF Stamp, StageInv, Running, poolVars
  <2>. QED
    BY <1>3, <2>4, <2>5, <2>6, <2>7
<1>4. QED
  BY <1>1, <1>2, <1>3 DEF WorkerStep

(* So do the ticker and main. *)
LEMMA PoolInvOther == PoolInv /\ (Tick \/ Cancel \/ UNCHANGED vars) => PoolInv'
<1> SUFFICES ASSUME PoolInv, Tick \/ Cancel \/ UNCHANGED vars PROVE PoolInv'
  OBVIOUS
<1> USE DEF PoolInv, TypeOK, PoolTypeOK
<1>1. /\ UNCHANGED <<jobs, busy, wg, stage, outcome, sched, next, cycle, results, success, stamp, late>>
      /\ ctxDone' \in BOOLEAN /\ ticker' \in {"none", "empty", "full"}
  BY DEF Tick, Cancel, vars, poolVars, closureVars, loopVars, gaugeVars
<1>2. StageInv' /\ LoopInv' /\ WgCountsInFlight'
  BY <1>1 DEF StageInv, Running, LoopInv, WgCountsInFlight, Busy
<1>3. QED
  BY <1>1, <1>2

(* Every step keeps part one. *)
LEMMA PoolInvStep == PoolInv /\ [Next]_vars => PoolInv'
BY PoolInvScheduler, PoolInvWorker, PoolInvOther DEF Next, Quiet

(* Scheduler types are right in every behaviour; with the WaitGroup's      *)
(* account, which is what keeps its counter from going below zero.         *)
THEOREM PoolCorrect == Spec => []PoolInv
BY PoolInvInit, PoolInvStep, PTL DEF Spec

(* The scheduler's state has its type (scheduler.go, Start). *)
THEOREM TypeCorrect == Spec => []TypeOK
BY PoolCorrect, PTL DEF PoolInv

(* The WaitGroup counts what is in flight (worker.go, Submit and worker).  *)
THEOREM WgCorrect == Spec => []WgCountsInFlight
BY PoolCorrect, PTL DEF PoolInv

(* Whatever holds the loop up, a worker has a closure to run or to take:   *)
(* the channel has room for one, and what the WaitGroup counts is there.   *)
THEOREM NeverWaitsForNothingHolds == Spec => []NeverWaitsForNothing
<1>1. PoolInv => NeverWaitsForNothing
  <2> SUFFICES ASSUME PoolInv, HeldUp, Busy = {}, jobs = <<>> PROVE FALSE
    BY DEF NeverWaitsForNothing
  <2>1. Len(jobs) = 0 /\ Cardinality(Busy) = 0
    BY FS_EmptySet
  <2>2. QueueCap > 0
    <3>1. Cardinality(Workers) \in Nat /\ Cardinality(Workers) # 0
      BY WorkersAssumption, FS_CardinalityType, FS_EmptySet
    <3> QED
      BY <3>1 DEF QueueCap
  <2>3. sched = "wait" /\ wg # 0
    BY <2>1, <2>2 DEF HeldUp, Waited
  <2>4. wg = 0
    BY <2>1, <2>3 DEF PoolInv, WgCountsInFlight
  <2> QED
    BY <2>3, <2>4
<1> QED
  BY <1>1, PoolCorrect, PTL
-----------------------------------------------------------------------------
(* The hold-up runs down: Remaining is a natural number, and every step    *)
(* that the others can take while the loop is held up lowers it.           *)

Stages == {"idle", "collect", "record", "publish", "stamp", "done"}

(* The ranks are numbers from 0 to 5, in the order a closure's steps come. *)
LEMMA RankType == \A s \in Stages : Rank[s] \in 0..5
BY DEF Rank, Stages

(* A closure has five steps at most. *)
LEMMA FiveSteps ==
  /\ IsFiniteSet(1..5) /\ Cardinality(1..5) = 5
  /\ IsFiniteSet(Workers \X (1..5))
<1>1. ASSUME NEW a \in Int, NEW b \in Int
      PROVE  IsFiniteSet(a..b) /\ Cardinality(a..b) = IF a > b THEN 0 ELSE b - a + 1
  BY FS_Interval, Zenon
<1>2. IsFiniteSet(1..5) /\ Cardinality(1..5) = IF 1 > 5 THEN 0 ELSE 5 - 1 + 1
  <2>1. 1 \in Int /\ 5 \in Int
    OBVIOUS
  <2> QED
    BY <1>1, <2>1
<1>3. IsFiniteSet(Workers \X (1..5))
  BY <1>2, WorkersAssumption, FS_Product
<1> QED
  BY <1>2, <1>3

(* The steps left can be counted. *)
LEMMA StepsLeftFinite == IsFiniteSet(StepsLeft) /\ Cardinality(StepsLeft) \in Nat
<1>1. IsFiniteSet(StepsLeft)
  BY FiveSteps, FS_Subset DEF StepsLeft
<1> QED
  BY <1>1, FS_CardinalityType

(* A closure that moves on to a stage of lower rank has fewer steps left. *)
LEMMA MovingOnLeavesFewer ==
  ASSUME NEW w \in Workers, NEW s \in Stages, stage \in [Workers -> Stages],
         stage' = [stage EXCEPT ![w] = s], Rank[s] < Rank[stage[w]]
  PROVE  Cardinality(StepsLeft') < Cardinality(StepsLeft)
<1> DEFINE p == <<w, Rank[stage[w]]>>
<1>1. p \in StepsLeft /\ p \notin StepsLeft'
  <2>1. Rank[s] \in 0..5 /\ Rank[stage[w]] \in 0..5 /\ stage'[w] = s
    BY RankType
  <2> QED
    BY <2>1 DEF StepsLeft
<1>2. StepsLeft' \subseteq StepsLeft
  <2> SUFFICES ASSUME NEW v \in Workers, NEW i \in 1..5, i <= Rank[stage'[v]]
               PROVE  i <= Rank[stage[v]]
    BY DEF StepsLeft
  <2>1. CASE v = w
    BY <2>1, RankType
  <2>2. CASE v # w
    BY <2>2
  <2> QED
    BY <2>1, <2>2
<1>3. /\ Cardinality(StepsLeft') <= Cardinality(StepsLeft)
      /\ Cardinality(StepsLeft) # Cardinality(StepsLeft')
      /\ Cardinality(StepsLeft') \in Nat /\ Cardinality(StepsLeft) \in Nat
  BY <1>1, <1>2, StepsLeftFinite, FS_Subset, FS_CardinalityType
<1> QED
  BY <1>3

(* A worker that takes a closure adds the closure's five steps. *)
LEMMA TakingAddsFive ==
  ASSUME NEW w \in Workers, stage \in [Workers -> Stages],
         stage' = [stage EXCEPT ![w] = "collect"]
  PROVE  /\ Cardinality(StepsLeft') <= Cardinality(StepsLeft) + 5
         /\ Cardinality(StepsLeft') \in Nat
<1> DEFINE own == {w} \X (1..5)
<1>1. StepsLeft' \subseteq StepsLeft \cup own
  <2> SUFFICES ASSUME NEW v \in Workers, NEW i \in 1..5, v # w, i <= Rank[stage'[v]]
               PROVE  i <= Rank[stage[v]]
    BY DEF StepsLeft
  <2> QED
    OBVIOUS
<1>2. IsFiniteSet(own) /\ Cardinality(own) = 5
  <2>1. IsFiniteSet({w}) /\ Cardinality({w}) = 1
    BY FS_Singleton
  <2> QED
    BY <2>1, FiveSteps, FS_Product
<1>3. /\ IsFiniteSet(StepsLeft \cup own)
      /\ Cardinality(StepsLeft \cup own) <= Cardinality(StepsLeft) + 5
      /\ Cardinality(StepsLeft \cup own) \in Nat
  <2> HIDE DEF own
  <2>1. Cardinality(StepsLeft \cap own) \in Nat
    <3>1. IsFiniteSet(StepsLeft \cap own)
      BY StepsLeftFinite, FS_Intersection
    <3> QED
      BY <3>1, FS_CardinalityType
  <2>2. /\ IsFiniteSet(StepsLeft \cup own)
        /\ Cardinality(StepsLeft \cup own)
             = Cardinality(StepsLeft) + Cardinality(own) - Cardinality(StepsLeft \cap own)
    BY <1>2, StepsLeftFinite, FS_Union, Zenon
  <2>3. Cardinality(StepsLeft \cup own) \in Nat
    BY <2>2, FS_CardinalityType
  <2> QED
    BY <1>2, <2>1, <2>2, <2>3, StepsLeftFinite
<1>4. Cardinality(StepsLeft') <= Cardinality(StepsLeft \cup own) /\ Cardinality(StepsLeft') \in Nat
  BY <1>1, <1>3, FS_Subset, FS_CardinalityType
<1> QED
  BY <1>3, <1>4, StepsLeftFinite

(* Every step a worker takes lowers what remains, held up or not. *)
LEMMA WorkerRunsDown ==
  ASSUME PoolInv, NEW w \in Workers, WorkerStep(w)
  PROVE  Remaining' < Remaining
<1> DEFINE Rest == (IF ticker = "empty" THEN 1 ELSE 0) + (IF ctxDone THEN 0 ELSE 1)
<1>1. stage \in [Workers -> Stages] /\ Len(jobs) \in Nat /\ jobs \in Seq(Job)
  BY DEF PoolInv, TypeOK, PoolTypeOK, Stages
<1>2. Rest' = Rest /\ Rest \in Nat
  BY DEF WorkerStep, Take, Collect, Record, Publish, Stamp, Finish, loopVars
<1>3. CASE Take(w)
  <2>1. stage' = [stage EXCEPT ![w] = "collect"] /\ Len(jobs') = Len(jobs) - 1
    BY <1>1, <1>3 DEF Take, Receive
  <2>2. /\ Cardinality(StepsLeft') <= Cardinality(StepsLeft) + 5
        /\ Cardinality(StepsLeft') \in Nat
    BY <1>1, <2>1, TakingAddsFive
  <2> QED
    BY <1>1, <1>2, <2>1, <2>2, StepsLeftFinite DEF Remaining
<1>4. CASE Collect(w) \/ Record(w) \/ Publish(w) \/ Stamp(w) \/ Finish(w)
  <2>1. Len(jobs') = Len(jobs)
    BY <1>4 DEF Collect, Record, Publish, Stamp, Finish, Done, poolVars
  <2>2. PICK s \in Stages : stage' = [stage EXCEPT ![w] = s] /\ Rank[s] < Rank[stage[w]]
    BY <1>4 DEF Collect, Record, Publish, Stamp, Finish, Stages, Rank
  <2>3. Cardinality(StepsLeft') < Cardinality(StepsLeft)
    BY <1>1, <2>2, MovingOnLeavesFewer
  <2>4. Cardinality(StepsLeft') \in Nat
    <3>1. StepsLeft' \subseteq Workers \X (1..5)
      BY DEF StepsLeft
    <3> QED
      BY <3>1, FiveSteps, FS_Subset, FS_CardinalityType
  <2> QED
    BY <1>1, <1>2, <2>1, <2>3, <2>4, StepsLeftFinite DEF Remaining
<1> QED
  BY <1>3, <1>4 DEF WorkerStep

(* While the loop is held up none of its own steps is enabled. *)
LEMMA HeldUpStands == PoolInv /\ HeldUp => ~SchedulerStep
BY QueueCapType DEF PoolInv, TypeOK, PoolTypeOK, HeldUp, SchedulerStep, CheckGoesOn, CheckAborts,
   SubmitAdds, SubmitSends, Send, LoopEnds, WaitReturns, Report, SelectTick, SelectDone

(* What remains is a natural number, so it cannot be lowered for ever. *)
THEOREM RemainingIsNatural == Spec => [](Remaining \in Nat)
<1>1. PoolInv => Remaining \in Nat
  <2> SUFFICES ASSUME PoolInv PROVE Remaining \in Nat
    OBVIOUS
  <2>1. Len(jobs) \in Nat
    BY DEF PoolInv, TypeOK, PoolTypeOK
  <2> QED
    BY <2>1, StepsLeftFinite DEF Remaining
<1> QED
  BY <1>1, PoolCorrect, PTL

(* Held up by the full channel or by Wait, the loop is only ever some       *)
(* number of steps from its release: each of them lowers that number.      *)
THEOREM HeldUpRunsDownHolds == Spec => HeldUpRunsDown
<1>1. PoolInv /\ [Next]_vars => [HeldUp => Remaining' < Remaining]_vars
  <2> SUFFICES ASSUME PoolInv, Next, HeldUp, vars' # vars PROVE Remaining' < Remaining
    BY DEF vars
  <2>1. ~SchedulerStep /\ ~Quiet
    BY HeldUpStands DEF Quiet
  <2>2. CASE \E w \in Workers : WorkerStep(w)
    BY <2>2, WorkerRunsDown
  <2>3. CASE Tick \/ Cancel
    <3>1. Len(jobs) \in Nat /\ jobs' = jobs
      BY <2>3 DEF PoolInv, TypeOK, PoolTypeOK, Tick, Cancel, poolVars
    <3>2. StepsLeft' = StepsLeft
      BY <2>3 DEF Tick, Cancel, closureVars, StepsLeft
    <3> QED
      BY <2>3, <3>1, <3>2, StepsLeftFinite DEF Remaining, Tick, Cancel
  <2> QED
    BY <2>1, <2>2, <2>3 DEF Next
<1> QED
  BY <1>1, PoolCorrect, PTL DEF Spec, HeldUpRunsDown

-----------------------------------------------------------------------------
(* Part two of the invariant: what is in flight, and what it has published. *)

(* Nothing is in flight when Start's goroutine begins. *)
LEMMA CycleInvInit == Init => CycleInv
<1> SUFFICES ASSUME Init PROVE CycleInv
  OBVIOUS
<1> USE SchedulerAssumption DEF Init, PoolInit
<1>1. \A i : i \in 1..Len(jobs) => FALSE
  OBVIOUS
<1>2. Busy = {} /\ \A w \in Workers : ~Running(w) /\ stage[w] = "idle"
  BY DEF Busy, Running
<1>3. NoConcurrentCollection /\ InFlightInv
  BY <1>1, <1>2 DEF NoConcurrentCollection, InFlightInv
<1>4. ResultsInv /\ GaugesInv
  BY <1>1, <1>2 DEF ResultsInv, GaugesInv, NoResults, Devices, Recorded
<1>5. LateInv
  BY DEF LateInv
<1>6. QED
  BY <1>3, <1>4, <1>5 DEF CycleInv

(* Steps that move the loop without a closure or a device changing hands; a *)
(* call that submits nothing goes on submitting nothing.                   *)
LEMMA LoopMoves ==
  ASSUME CycleInv, N = 0 \/ (Barren => Barren'),
         UNCHANGED <<jobs, busy, stage, outcome, next, cycle, results, success, stamp>>
  PROVE  NoConcurrentCollection' /\ ResultsInv' /\ GaugesInv'
<1> USE DEF CycleInv
<1>1. Busy' = Busy
  BY DEF Busy
<1>2. NoConcurrentCollection'
  BY <1>1 DEF NoConcurrentCollection
<1>3. \A w \in Workers : Running(w)' = Running(w) /\ Recorded(w)' = Recorded(w)
  BY DEF Running, Recorded
<1>4. \A d \in Devices : Pending(d)' = Pending(d)
  BY <1>3 DEF Pending
<1>5. ResultsInv'
  BY <1>3, <1>4 DEF ResultsInv
<1>6. \A d \in Devices : stamp'[d] = cycle' => results'[d] = "ok" \/ Barren'
  BY SchedulerAssumption DEF CycleInv, GaugesInv, Devices
<1>7. GaugesInv'
  BY <1>3, <1>4, <1>6 DEF GaugesInv
<1>8. QED
  BY <1>2, <1>5, <1>7

(* And what becomes of the closures' side conditions when it moves. *)
LEMMA InFlightTypes ==
  ASSUME PoolInv
  PROVE  /\ \A i \in 1..Len(jobs) : jobs[i] \in Job
         /\ \A w \in Workers : Running(w) => busy[w] \in Job
BY DEF PoolInv, TypeOK, PoolTypeOK, Running

(* Closures in flight stay tame when only the loop moves. *)
LEMMA TameMoves ==
  ASSUME PoolInv, InFlightInv,
         UNCHANGED <<jobs, busy, next, cycle>>,
         \A j \in Job : Tame(j) => Tame(j)'
  PROVE  InFlightInv'
BY InFlightTypes DEF InFlightInv, Running

(* The loop's steps that submit nothing keep part two. *)
LEMMA CycleInvLoop ==
  ASSUME PoolInv, CycleInv,
         \/ CheckGoesOn \/ CheckAborts \/ SubmitAdds \/ LoopEnds \/ WaitReturns
         \/ Report \/ SelectDone \/ Tick \/ Cancel \/ UNCHANGED vars
  PROVE  CycleInv'
<1> USE SchedulerAssumption
<1> USE DEF CycleInv, poolVars, closureVars, loopVars, gaugeVars
<1>1. UNCHANGED <<jobs, busy, stage, outcome, next, cycle, results, success, stamp, late>>
         \/ SubmitAdds
  BY DEF CheckGoesOn, CheckAborts, LoopEnds, WaitReturns, Report, SelectDone, Tick, Cancel, vars
<1>2. UNCHANGED <<jobs, busy, stage, outcome, next, cycle, results, success, stamp, late>>
  BY <1>1 DEF SubmitAdds, Add
<1>3. NoConcurrentCollection' /\ ResultsInv' /\ GaugesInv'
  <2>1. N = 0 \/ (Barren => Barren')
    BY DEF Barren, CheckGoesOn, CheckAborts, Return, SubmitAdds, LoopEnds, WaitReturns, Report,
           SelectDone, Tick, Cancel, vars
  <2>. QED
    BY <1>2, <2>1, LoopMoves
<1>4. cycle \in Nat /\ next \in Nat /\ \A j \in Job : j.cycle \in Nat /\ j.dev \in 1..N
  BY DEF PoolInv, TypeOK, Job, Devices
<1>5. CASE CheckGoesOn
  <2>1. \A j \in Job : Tame(j) => Tame(j)'
    BY <1>2, <1>4, <1>5 DEF CheckGoesOn, Tame
  <2>2. LateInv'
    BY <1>2, <1>5 DEF CheckGoesOn, LateInv
  <2>. QED
    BY <1>2, <1>3, <2>1, <2>2, TameMoves
<1>6. CASE CheckAborts
  <2>1. \A j \in Job : Tame(j) => Tame(j)'
    BY <1>2, <1>4, <1>6 DEF CheckAborts, Return, Tame
  <2>2. LateInv'
    BY <1>2, <1>6 DEF CheckAborts, Return, LateInv
  <2>. QED
    BY <1>2, <1>3, <2>1, <2>2, TameMoves
<1>7. CASE SubmitAdds
  <2>1. \A j \in Job : Tame(j) => Tame(j)'
    BY <1>2, <1>4, <1>7 DEF SubmitAdds, Tame
  <2>2. LateInv'
    BY <1>2, <1>7 DEF SubmitAdds, LateInv
  <2>. QED
    BY <1>2, <1>3, <2>1, <2>2, TameMoves
<1>8. CASE LoopEnds
  <2>1. \A j \in Job : Tame(j) => Tame(j)'
    BY <1>2, <1>4, <1>8 DEF LoopEnds, Tame
  <2>2. LateInv'
    BY <1>2, <1>8 DEF LoopEnds, LateInv
  <2>. QED
    BY <1>2, <1>3, <2>1, <2>2, TameMoves
<1>9. CASE WaitReturns
  <2>1. Len(jobs) = 0 /\ Cardinality(Busy) = 0
    BY <1>9, BusyFinite DEF WaitReturns, Waited, PoolInv, WgCountsInFlight, TypeOK, PoolTypeOK
  <2>2. \A w \in Workers : ~Running(w)
    BY <2>1, NobodyBusy DEF Busy, Running
  <2>3. InFlightInv'
    BY <1>2, <2>1, <2>2 DEF InFlightInv, Running
  <2>4. LateInv'
    BY <1>2, <1>9 DEF WaitReturns, LateInv
  <2>. QED
    BY <1>3, <2>3, <2>4
<1>10. CASE Report
  <2>1. \A j \in Job : Tame(j) => Tame(j)'
    BY <1>10 DEF Report, Tame
  <2>2. LateInv'
    BY <1>2, <1>10 DEF Report, Return, LateInv
  <2>. QED
    BY <1>2, <1>3, <2>1, <2>2, TameMoves
<1>11. CASE SelectDone
  <2>1. \A j \in Job : Tame(j) => Tame(j)'
    BY <1>2, <1>4, <1>11 DEF SelectDone, Tame
  <2>2. LateInv'
    BY <1>2, <1>11 DEF SelectDone, LateInv
  <2>. QED
    BY <1>2, <1>3, <2>1, <2>2, TameMoves
<1>12. CASE Tick \/ Cancel \/ UNCHANGED vars
  <2>1. sched' = sched /\ (ctxDone => ctxDone')
    BY <1>12 DEF Tick, Cancel, vars
  <2>2. \A j \in Job : Tame(j) => Tame(j)'
    BY <1>2, <1>4, <2>1 DEF Tame
  <2>3. LateInv'
    BY <1>2, <2>1 DEF LateInv
  <2>. QED
    BY <1>2, <1>3, <2>2, <2>3, TameMoves
<1>13. QED
  BY <1>5, <1>6, <1>7, <1>8, <1>9, <1>10, <1>11, <1>12

(* The loop hands a closure over: it is the only one for its device. *)
LEMMA CycleInvSends ==
  ASSUME PoolInv, PoolInv', CycleInv, SubmitSends
  PROVE  CycleInv'
<1> USE SchedulerAssumption
<1> USE DEF CycleInv
<1>0. PICK new : new = [dev |-> next, cycle |-> cycle]
  OBVIOUS
<1>1. /\ sched = "send" /\ sched' = "check" /\ next' = next + 1
      /\ jobs' = Append(jobs, new)
      /\ late' = (IF ctxDone THEN late + 1 ELSE late)
      /\ UNCHANGED <<busy, stage, outcome, cycle, ctxDone, results, success, stamp>>
  BY <1>0 DEF SubmitSends, Send, closureVars, gaugeVars
<1>2. /\ cycle \in Nat \ {0} /\ next \in 1..N /\ next \in Nat /\ late \in Nat
      /\ jobs \in Seq(Job) /\ new \in Job
      /\ stamp \in [Devices -> Nat]
  BY <1>0, <1>1 DEF PoolInv, TypeOK, PoolTypeOK, LoopInv, Job, Devices
<1>3. /\ Len(jobs') = Len(jobs) + 1 /\ Len(jobs) \in Nat
      /\ \A i \in 1..Len(jobs) : jobs'[i] = jobs[i]
      /\ jobs'[Len(jobs) + 1] = new
  BY <1>1, <1>2
<1>4. Busy' = Busy /\ \A w \in Workers : Running(w)' = Running(w) /\ Recorded(w)' = Recorded(w)
  BY <1>1 DEF Busy, Running, Recorded
<1>5. \A j \in Job : Tame(j) => j.cycle = cycle /\ j.dev < next
  BY <1>1, <1>2 DEF Tame, Job
<1>6. \A j \in Job : Tame(j) => Tame(j)'
  BY <1>1, <1>2, <1>5 DEF Tame, Job, Devices
<1>7. Tame(new)'
  BY <1>0, <1>1, <1>2 DEF Tame, GaugesInv, Devices
<1>8. /\ \A i \in 1..Len(jobs) : jobs[i] \in Job /\ Tame(jobs[i])
      /\ \A w \in Workers : Running(w) => busy[w] \in Job /\ Tame(busy[w])
  BY InFlightTypes DEF InFlightInv
<1>9. InFlightInv'
  BY <1>1, <1>3, <1>4, <1>6, <1>7, <1>8 DEF InFlightInv
<1>10. NoConcurrentCollection'
  <2>1. /\ \A i \in 1..Len(jobs) : jobs[i].dev # next
        /\ \A w \in Busy : busy[w].dev # next
    <3>1. \A j \in Job : j.dev < next => j.dev # next
      BY <1>2 DEF Job, Devices
    <3>2. \A i \in 1..Len(jobs) : jobs[i].dev # next
      BY <1>5, <1>8, <3>1
    <3>3. \A w \in Busy : busy[w].dev # next
      BY <1>5, <1>8, <3>1 DEF Busy, Running
    <3>. QED
      BY <3>2, <3>3
  <2>. QED
    BY <1>0, <1>1, <1>3, <1>4, <2>1 DEF NoConcurrentCollection
<1>11. \A d \in Devices : Pending(d)' <=> Pending(d) \/ d = next
  BY <1>0, <1>1, <1>2, <1>3, <1>4 DEF Pending
<1>12. ResultsInv'
  BY <1>0, <1>1, <1>2, <1>3, <1>4, <1>11 DEF ResultsInv, Devices
<1>13. GaugesInv'
  <2>1. \A d \in Devices : d < next' /\ ~Pending(d)' => d < next /\ ~Pending(d)
    BY <1>1, <1>2, <1>11 DEF Devices
  <2>2. \A d \in Devices : d < next' /\ ~Pending(d)' =>
            success'[d] = results'[d] /\ (results'[d] = "ok" => stamp'[d] = cycle')
    BY <1>1, <2>1 DEF GaugesInv
  <2>3. ~Barren
    BY <1>1 DEF Barren
  <2>. QED
    BY <1>1, <2>2, <2>3 DEF GaugesInv
<1>14. LateInv'
  BY <1>1, <1>2 DEF LateInv
<1>15. QED
  BY <1>9, <1>10, <1>12, <1>13, <1>14

(* A new cycle: whatever is still in flight was left by a cancelled one. *)
LEMMA CycleInvTick ==
  ASSUME PoolInv, CycleInv, SelectTick
  PROVE  CycleInv'
<1> USE SchedulerAssumption
<1> USE DEF CycleInv
<1>1. /\ sched = "select" /\ sched' = "check" /\ next' = 1 /\ cycle' = cycle + 1
      /\ results' = NoResults
      /\ UNCHANGED <<jobs, busy, stage, outcome, ctxDone, success, stamp, late>>
  BY DEF SelectTick, poolVars, closureVars, gaugeVars
<1>2. cycle \in Nat \ {0} /\ stamp \in [Devices -> Nat] /\ Len(jobs) \in Nat
  BY DEF PoolInv, TypeOK, PoolTypeOK
<1>3. Busy' = Busy /\ \A w \in Workers : Running(w)' = Running(w) /\ Recorded(w)' = Recorded(w)
  BY <1>1 DEF Busy, Running, Recorded
<1>4. \A j \in Job : Tame(j) => Tame(j)' /\ j.cycle # cycle'
  BY <1>1, <1>2 DEF Tame, Job
<1>5. /\ \A i \in 1..Len(jobs) : jobs[i] \in Job /\ Tame(jobs[i])
      /\ \A w \in Workers : Running(w) => busy[w] \in Job /\ Tame(busy[w])
  BY InFlightTypes DEF InFlightInv
<1>6. InFlightInv'
  BY <1>1, <1>3, <1>4, <1>5 DEF InFlightInv
<1>7. NoConcurrentCollection'
  BY <1>1, <1>3 DEF NoConcurrentCollection
<1>8. \A w \in Workers : stage[w] # "idle" => Running(w) /\ busy[w].cycle # cycle'
  BY <1>4, <1>5 DEF PoolInv, StageInv
<1>9. ResultsInv'
  BY <1>1, <1>4, <1>5, <1>8 DEF ResultsInv, NoResults, Devices, Recorded
<1>10. GaugesInv'
  BY <1>1, <1>2, <1>8 DEF GaugesInv, Devices
<1>11. LateInv'
  BY <1>1 DEF LateInv
<1>12. QED
  BY <1>6, <1>7, <1>9, <1>10, <1>11

(* A worker takes the oldest closure: it moves, nothing is lost. *)
LEMMA CycleInvTake ==
  ASSUME PoolInv, CycleInv, NEW w \in Workers, Take(w)
  PROVE  CycleInv'
<1> USE DEF CycleInv
<1>0. PICK j : j = jobs[1]
  OBVIOUS
<1>1. /\ busy[w] = NoJob /\ stage[w] = "idle" /\ jobs # <<>>
      /\ busy' = [busy EXCEPT ![w] = j] /\ jobs' = Tail(jobs)
      /\ stage' = [stage EXCEPT ![w] = "collect"]
      /\ UNCHANGED <<outcome, sched, next, cycle, ctxDone, results, success, stamp, late>>
  BY <1>0 DEF Take, Receive, loopVars, gaugeVars, PoolInv, TypeOK, PoolTypeOK
<1>2. /\ jobs \in Seq(Job) /\ busy \in [Workers -> Job \cup {NoJob}]
      /\ DOMAIN stage = Workers /\ NoJob \notin Job
  BY SchedulerAssumption DEF PoolInv, TypeOK, PoolTypeOK
<1>3. /\ Len(jobs) \in Nat /\ Len(jobs) > 0 /\ Len(jobs') = Len(jobs) - 1
      /\ \A i \in 1..Len(jobs') : i + 1 \in 1..Len(jobs) /\ jobs'[i] = jobs[i + 1]
      /\ 1 \in 1..Len(jobs) /\ j \in Job /\ j # NoJob
  BY <1>0, <1>1, <1>2
<1>4. /\ \A v \in Workers : Running(v)' <=> Running(v) \/ v = w
      /\ \A v \in Workers : v # w => busy'[v] = busy[v] /\ stage'[v] = stage[v]
      /\ busy'[w] = j /\ stage'[w] = "collect" /\ ~Running(w)
      /\ Busy' = Busy \cup {w}
  BY <1>1, <1>2, <1>3 DEF Running, Busy
<1>5. \A i : Tame(i)' <=> Tame(i)
  BY <1>1 DEF Tame
<1>6. InFlightInv'
  BY <1>0, <1>3, <1>4, <1>5 DEF InFlightInv
<1>7. NoConcurrentCollection'
  <2>1. \A i, h \in 1..Len(jobs') : i # h => jobs'[i].dev # jobs'[h].dev
    BY <1>3 DEF NoConcurrentCollection
  <2>2. \A i \in 1..Len(jobs'), v \in Busy' : jobs'[i].dev # busy'[v].dev
    <3>. SUFFICES ASSUME NEW i \in 1..Len(jobs'), NEW v \in Busy'
                  PROVE  jobs'[i].dev # busy'[v].dev
      OBVIOUS
    <3>1. CASE v = w
      BY <1>0, <1>3, <1>4, <3>1 DEF NoConcurrentCollection
    <3>2. CASE v # w
      BY <1>3, <1>4, <3>2 DEF NoConcurrentCollection, Busy
    <3>. QED
      BY <3>1, <3>2
  <2>3. \A u, v \in Busy' : u # v => busy'[u].dev # busy'[v].dev
    BY <1>0, <1>3, <1>4 DEF NoConcurrentCollection, Busy
  <2>. QED
    BY <2>1, <2>2, <2>3 DEF NoConcurrentCollection
<1>8. \A d \in Devices : Pending(d)' <=> Pending(d)
  <2>. SUFFICES ASSUME NEW d \in Devices PROVE Pending(d)' <=> Pending(d)
    OBVIOUS
  <2>1. ASSUME Pending(d) PROVE Pending(d)'
    <3>1. CASE \E v \in Workers : Running(v) /\ busy[v].dev = d /\ busy[v].cycle = cycle
      BY <1>1, <1>4, <3>1 DEF Pending
    <3>2. CASE \E i \in 1..Len(jobs) : jobs[i].dev = d /\ jobs[i].cycle = cycle
      <4>1. PICK i \in 1..Len(jobs) : jobs[i].dev = d /\ jobs[i].cycle = cycle
        BY <3>2
      <4>2. CASE i = 1
        BY <1>0, <1>1, <1>4, <4>1, <4>2 DEF Pending
      <4>3. CASE i # 1
        <5>1. i - 1 \in 1..Len(jobs') /\ jobs'[i - 1] = jobs[i]
          BY <1>3, <4>3
        <5>. QED
          BY <1>1, <4>1, <5>1 DEF Pending
      <4>. QED
        BY <4>2, <4>3
    <3>. QED
      BY <2>1, <3>1, <3>2 DEF Pending
  <2>2. ASSUME Pending(d)' PROVE Pending(d)
    <3>1. CASE \E i \in 1..Len(jobs') : jobs'[i].dev = d /\ jobs'[i].cycle = cycle
      BY <1>3, <3>1 DEF Pending
    <3>2. CASE \E v \in Workers : Running(v)' /\ busy'[v].dev = d /\ busy'[v].cycle = cycle
      BY <1>0, <1>3, <1>4, <3>2 DEF Pending
    <3>. QED
      BY <1>1, <2>2, <3>1, <3>2 DEF Pending
  <2>. QED
    BY <2>1, <2>2
<1>9. ResultsInv'
  BY <1>0, <1>1, <1>3, <1>4, <1>8 DEF ResultsInv, Recorded
<1>10. GaugesInv'
  BY <1>1, <1>4, <1>8 DEF GaugesInv, Barren
<1>11. LateInv'
  BY <1>1 DEF LateInv
<1>12. QED
  BY <1>6, <1>7, <1>9, <1>10, <1>11

(* Facts shared by the steps inside a closure: it is in flight, for a      *)
(* device that nothing else in flight is for.                              *)
LEMMA ClosureFacts ==
  ASSUME PoolInv, CycleInv, NEW w \in Workers, stage[w] # "idle"
  PROVE  /\ Running(w) /\ w \in Busy /\ busy[w] \in Job /\ Tame(busy[w])
         /\ busy[w].dev \in Devices /\ busy[w].cycle \in Nat
         /\ \A i \in 1..Len(jobs) : jobs[i].dev # busy[w].dev
         /\ \A v \in Workers : v # w /\ Running(v) => busy[v].dev # busy[w].dev
         /\ \A v \in Workers : stage[v] # "idle" => Running(v)
<1>1. Running(w) /\ \A v \in Workers : stage[v] # "idle" => Running(v)
  BY DEF PoolInv, StageInv
<1>2. w \in Busy /\ \A v \in Workers : Running(v) => v \in Busy
  BY <1>1 DEF Busy, Running
<1>3. busy[w] \in Job /\ Tame(busy[w])
  BY <1>1, InFlightTypes DEF CycleInv, InFlightInv
<1>4. QED
  BY <1>1, <1>2, <1>3 DEF CycleInv, NoConcurrentCollection, Job

(* Steps inside a closure move no closure. *)
LEMMA ClosureStays ==
  ASSUME CycleInv, UNCHANGED <<jobs, busy, cycle>>
  PROVE  /\ NoConcurrentCollection'
         /\ \A d : Pending(d)' <=> Pending(d)
         /\ \A v \in Workers : Running(v)' <=> Running(v)
BY DEF CycleInv, NoConcurrentCollection, Pending, Running, Busy

(* collectDevice returns: the closure has its err. *)
LEMMA CycleInvCollect ==
  ASSUME PoolInv, CycleInv, NEW w \in Workers, Collect(w)
  PROVE  CycleInv'
<1> USE DEF CycleInv
<1>1. /\ stage[w] = "collect" /\ stage' = [stage EXCEPT ![w] = "record"]
      /\ \E o : outcome' = [outcome EXCEPT ![w] = o]
      /\ UNCHANGED <<jobs, busy, sched, next, cycle, ctxDone, results, success, stamp, late>>
  BY DEF Collect, poolVars, loopVars, gaugeVars
<1>2. DOMAIN stage = Workers /\ DOMAIN outcome = Workers
  BY DEF PoolInv, TypeOK
<1>3. \A v \in Workers : v # w => stage'[v] = stage[v] /\ outcome'[v] = outcome[v]
  BY <1>1, <1>2
<1>4. stage'[w] = "record"
  BY <1>1, <1>2
<1>5. InFlightInv'
  BY <1>1, ClosureStays DEF InFlightInv, Tame
<1>6. ResultsInv'
  BY <1>1, <1>3, <1>4, ClosureStays DEF ResultsInv, Recorded
<1>7. GaugesInv'
  BY <1>1, <1>3, <1>4, ClosureStays DEF GaugesInv, Barren
<1>8. LateInv'
  BY <1>1 DEF LateInv
<1>9. QED
  BY <1>1, <1>5, <1>6, <1>7, <1>8, ClosureStays

(* The results map gets the closure's entry. *)
LEMMA CycleInvRecord ==
  ASSUME PoolInv, CycleInv, NEW w \in Workers, Record(w)
  PROVE  CycleInv'
<1> USE DEF CycleInv
<1>0. PICK d : d = busy[w].dev
  OBVIOUS
<1>1. /\ stage[w] = "record" /\ stage' = [stage EXCEPT ![w] = "publish"]
      /\ results' = (IF busy[w].cycle = cycle THEN [results EXCEPT ![d] = outcome[w]]
                                              ELSE results)
      /\ UNCHANGED <<jobs, busy, outcome, sched, next, cycle, ctxDone, success, stamp, late>>
  BY <1>0 DEF Record, poolVars, loopVars, gaugeVars
<1>2. /\ DOMAIN stage = Workers /\ results \in [Devices -> {"none", "ok", "err"}]
      /\ outcome[w] \in {"ok", "err"}
      /\ cycle \in Nat /\ next \in Nat
  BY <1>1 DEF PoolInv, TypeOK, StageInv
<1>3. /\ d \in Devices /\ Running(w) /\ Tame(busy[w])
      /\ \A i \in 1..Len(jobs) : jobs[i].dev # d
      /\ \A v \in Workers : v # w /\ Running(v) => busy[v].dev # d
      /\ \A v \in Workers : stage[v] # "idle" => Running(v)
  BY <1>0, <1>1, ClosureFacts
<1>4. /\ \A v \in Workers : v # w => stage'[v] = stage[v]
      /\ stage'[w] = "publish"
  BY <1>1, <1>2
<1>5. /\ \A e \in Devices : e # d => results'[e] = results[e]
      /\ busy[w].cycle = cycle => results'[d] = outcome[w]
      /\ busy[w].cycle # cycle => results'[d] = results[d]
  BY <1>1, <1>2, <1>3
<1>6. InFlightInv'
  BY <1>1, ClosureStays DEF InFlightInv, Tame
<1>7. busy[w].cycle = cycle => d < next /\ results[d] = "none" /\ Pending(d)
  BY <1>0, <1>1, <1>3 DEF Tame, ResultsInv, Pending
<1>8. ResultsInv'
  <2>1. \A e \in Devices : e < next' => Pending(e)' \/ results'[e] # "none"
    BY <1>1, <1>2, <1>5, <1>7, ClosureStays DEF ResultsInv
  <2>2. \A e \in Devices : e >= next' => results'[e] = "none"
    BY <1>1, <1>2, <1>3, <1>5, <1>7 DEF ResultsInv, Devices
  <2>3. \A i \in 1..Len(jobs') : jobs'[i].cycle = cycle' => results'[jobs'[i].dev] = "none"
    BY <1>1, <1>3, <1>5, InFlightTypes DEF ResultsInv, Job
  <2>4. \A v \in Workers : stage'[v] \in {"collect", "record"} /\ busy'[v].cycle = cycle'
                             => results'[busy'[v].dev] = "none"
    BY <1>1, <1>3, <1>4, <1>5, InFlightTypes DEF ResultsInv, Job
  <2>5. \A v \in Workers : Recorded(v)' /\ busy'[v].cycle = cycle'
                             => results'[busy'[v].dev] = outcome'[v]
    <3>. SUFFICES ASSUME NEW v \in Workers, Recorded(v)', busy'[v].cycle = cycle'
                  PROVE  results'[busy'[v].dev] = outcome'[v]
      OBVIOUS
    <3>1. CASE v = w
      BY <1>0, <1>1, <1>5, <3>1
    <3>2. CASE v # w
      <4>1. Recorded(v) /\ Running(v)
        BY <1>3, <1>4, <3>2 DEF Recorded
      <4>2. busy[v].dev \in Devices /\ busy[v].dev # d
        BY <1>3, <3>2, <4>1, InFlightTypes DEF Job
      <4>. QED
        BY <1>1, <1>5, <4>1, <4>2 DEF ResultsInv
    <3>. QED
      BY <3>1, <3>2
  <2>. QED
    BY <2>1, <2>2, <2>3, <2>4, <2>5 DEF ResultsInv
<1>9. GaugesInv'
  <2>1. \A e \in Devices : stamp'[e] = cycle' => results'[e] = "ok" \/ Barren'
    <3>1. busy[w].cycle = cycle => ~Barren
      BY <1>2, <1>3, <1>7 DEF Barren, Devices
    <3>. QED
      BY <1>1, <1>5, <1>7, <3>1 DEF GaugesInv, Barren
  <2>2. \A e \in Devices : e < next' /\ ~Pending(e)' =>
            success'[e] = results'[e] /\ (results'[e] = "ok" => stamp'[e] = cycle')
    BY <1>1, <1>5, <1>7, ClosureStays DEF GaugesInv
  <2>. QED
    BY <1>1, <1>3, <1>4, <2>1, <2>2 DEF GaugesInv
<1>10. LateInv'
  BY <1>1 DEF LateInv
<1>11. QED
  BY <1>1, <1>6, <1>8, <1>9, <1>10, ClosureStays

(* The success gauge follows the results map. *)
LEMMA CycleInvPublish ==
  ASSUME PoolInv, CycleInv, NEW w \in Workers, Publish(w)
  PROVE  CycleInv'
<1> USE DEF CycleInv
<1>0. PICK d : d = busy[w].dev
  OBVIOUS
<1>1. /\ stage[w] = "publish"
      /\ stage' = [stage EXCEPT ![w] = IF outcome[w] = "ok" THEN "stamp" ELSE "done"]
      /\ success' = [success EXCEPT ![d] = outcome[w]]
      /\ UNCHANGED <<jobs, busy, outcome, sched, next, cycle, ctxDone, results, stamp, late>>
  BY <1>0 DEF Publish, poolVars, loopVars
<1>2. DOMAIN stage = Workers /\ DOMAIN success = Devices /\ outcome[w] \in {"ok", "err"}
  BY <1>1 DEF PoolInv, TypeOK, StageInv
<1>3. /\ d \in Devices /\ Running(w) /\ Tame(busy[w]) /\ busy[w].cycle \in Nat
      /\ \A v \in Workers : v # w /\ Running(v) => busy[v].dev # d
      /\ \A v \in Workers : stage[v] # "idle" => Running(v)
  BY <1>0, <1>1, ClosureFacts
<1>4. /\ \A v \in Workers : v # w => stage'[v] = stage[v]
      /\ stage'[w] = (IF outcome[w] = "ok" THEN "stamp" ELSE "done")
      /\ \A e \in Devices : e # d => success'[e] = success[e]
      /\ success'[d] = outcome[w]
  BY <1>1, <1>2, <1>3
<1>5. InFlightInv'
  BY <1>1, ClosureStays DEF InFlightInv, Tame
<1>6. \A v \in Workers : Recorded(v)' <=> Recorded(v)
  BY <1>1, <1>4 DEF Recorded
<1>7. ResultsInv'
  BY <1>1, <1>4, <1>6, ClosureStays DEF ResultsInv
<1>8. GaugesInv'
  <2>1. cycle \in Nat /\ next \in Nat
    BY DEF PoolInv, TypeOK
  <2>2. d < next => Pending(d)
    BY <1>0, <1>1, <1>3, <2>1 DEF Tame, Pending, Devices
  <2>3. \A e \in Devices : e < next' /\ ~Pending(e)' =>
            success'[e] = results'[e] /\ (results'[e] = "ok" => stamp'[e] = cycle')
    BY <1>1, <1>4, <2>2, ClosureStays DEF GaugesInv
  <2>4. \A v \in Workers : stage'[v] \in {"stamp", "done"}
            => success'[busy'[v].dev] = outcome'[v]
    <3>. SUFFICES ASSUME NEW v \in Workers, stage'[v] \in {"stamp", "done"}
                  PROVE  success'[busy'[v].dev] = outcome'[v]
      OBVIOUS
    <3>1. CASE v = w
      BY <1>0, <1>1, <1>4, <3>1
    <3>2. CASE v # w
      <4>1. stage[v] \in {"stamp", "done"} /\ Running(v)
        BY <1>3, <1>4, <3>2
      <4>2. busy[v].dev \in Devices /\ busy[v].dev # d
        BY <1>3, <3>2, <4>1, InFlightTypes DEF Job
      <4>. QED
        BY <1>1, <1>4, <4>1, <4>2 DEF GaugesInv
    <3>. QED
      BY <3>1, <3>2
  <2>. QED
    BY <1>1, <1>2, <1>4, <2>3, <2>4 DEF GaugesInv, Barren
<1>9. LateInv'
  BY <1>1 DEF LateInv
<1>10. QED
  BY <1>1, <1>5, <1>7, <1>8, <1>9, ClosureStays

(* The timestamp follows a success. *)
LEMMA CycleInvStamp ==
  ASSUME PoolInv, CycleInv, NEW w \in Workers, Stamp(w)
  PROVE  CycleInv'
<1> USE DEF CycleInv
<1>0. PICK d : d = busy[w].dev
  OBVIOUS
<1>1. /\ stage[w] = "stamp" /\ stage' = [stage EXCEPT ![w] = "done"]
      /\ stamp' = [stamp EXCEPT ![d] = cycle]
      /\ UNCHANGED <<jobs, busy, outcome, sched, next, cycle, ctxDone, results, success, late>>
  BY <1>0 DEF Stamp, poolVars, loopVars
<1>2. /\ DOMAIN stage = Workers /\ stamp \in [Devices -> Nat] /\ outcome[w] = "ok"
      /\ cycle \in Nat /\ next \in Nat
  BY <1>1 DEF PoolInv, TypeOK, StageInv
<1>3. /\ d \in Devices /\ Running(w) /\ Tame(busy[w]) /\ busy[w].cycle \in Nat
      /\ \A i \in 1..Len(jobs) : jobs[i].dev # d
      /\ \A v \in Workers : v # w /\ Running(v) => busy[v].dev # d
      /\ \A v \in Workers : stage[v] # "idle" => Running(v)
  BY <1>0, <1>1, ClosureFacts
<1>4. /\ \A v \in Workers : v # w => stage'[v] = stage[v]
      /\ stage'[w] = "done"
      /\ \A e \in Devices : e # d => stamp'[e] = stamp[e]
      /\ stamp'[d] = cycle
  BY <1>1, <1>2, <1>3
<1>5. InFlightInv'
  BY <1>1, ClosureStays DEF InFlightInv, Tame
<1>6. \A v \in Workers : Recorded(v)' <=> Recorded(v)
  BY <1>1, <1>4 DEF Recorded
<1>7. ResultsInv'
  BY <1>1, <1>4, <1>6, ClosureStays DEF ResultsInv
<1>8. GaugesInv'
  <2>1. busy[w].cycle = cycle => results[d] = "ok" /\ Pending(d)
    BY <1>0, <1>1, <1>2, <1>3 DEF ResultsInv, Recorded, Pending
  <2>2. busy[w].cycle # cycle => next = 1 /\ Barren
    BY <1>2, <1>3 DEF Tame, Barren
  <2>3. \A e \in Devices :
            stamp'[e] <= cycle' /\ (stamp'[e] = cycle' => results'[e] = "ok" \/ Barren')
    BY <1>1, <1>2, <1>3, <1>4, <2>1, <2>2 DEF GaugesInv, Barren
  <2>4. \A e \in Devices : e < next' /\ ~Pending(e)' =>
            success'[e] = results'[e] /\ (results'[e] = "ok" => stamp'[e] = cycle')
    BY <1>1, <1>4, <2>1, <2>2, ClosureStays DEF GaugesInv, Devices
  <2>5. \A v \in Workers : stage'[v] \in {"stamp", "done"}
            => success'[busy'[v].dev] = outcome'[v]
    BY <1>1, <1>4 DEF GaugesInv
  <2>6. \A v \in Workers : stage'[v] = "done" /\ busy'[v].cycle = cycle'
            => (outcome'[v] = "ok" => stamp'[busy'[v].dev] = cycle')
    <3>. SUFFICES ASSUME NEW v \in Workers, stage'[v] = "done",
                         busy'[v].cycle = cycle', outcome'[v] = "ok"
                  PROVE  stamp'[busy'[v].dev] = cycle'
      OBVIOUS
    <3>1. CASE v = w
      BY <1>0, <1>1, <1>4, <3>1
    <3>2. CASE v # w
      <4>1. stage[v] = "done" /\ Running(v)
        BY <1>3, <1>4, <3>2
      <4>2. busy[v].dev \in Devices /\ busy[v].dev # d
        BY <1>3, <3>2, <4>1, InFlightTypes DEF Job
      <4>. QED
        BY <1>1, <1>4, <4>1, <4>2 DEF GaugesInv
    <3>. QED
      BY <3>1, <3>2
  <2>. QED
    BY <2>3, <2>4, <2>5, <2>6 DEF GaugesInv
<1>9. LateInv'
  BY <1>1 DEF LateInv
<1>10. QED
  BY <1>1, <1>5, <1>7, <1>8, <1>9, ClosureStays

(* The closure returns: its device is no longer pending. *)
LEMMA CycleInvFinish ==
  ASSUME PoolInv, CycleInv, NEW w \in Workers, Finish(w)
  PROVE  CycleInv'
<1> USE DEF CycleInv
<1>0. PICK d : d = busy[w].dev
  OBVIOUS
<1>1. /\ stage[w] = "done" /\ stage' = [stage EXCEPT ![w] = "idle"]
      /\ outcome' = [outcome EXCEPT ![w] = "none"]
      /\ busy' = [busy EXCEPT ![w] = NoJob]
      /\ UNCHANGED <<jobs, sched, next, cycle, ctxDone, results, success, stamp, late>>
  BY DEF Finish, Done, loopVars, gaugeVars
<1>2. /\ DOMAIN stage = Workers /\ DOMAIN busy = Workers /\ DOMAIN outcome = Workers
      /\ outcome[w] \in {"ok", "err"}
  BY <1>1 DEF PoolInv, TypeOK, PoolTypeOK, StageInv
<1>3. /\ Running(w) /\ \A v \in Workers : v # w /\ Running(v) => busy[v].dev # d
      /\ \A v \in Workers : stage[v] # "idle" => Running(v)
  BY <1>0, <1>1, ClosureFacts
<1>4. /\ \A v \in Workers : v # w => /\ stage'[v] = stage[v] /\ busy'[v] = busy[v]
                                     /\ outcome'[v] = outcome[v]
      /\ stage'[w] = "idle" /\ busy'[w] = NoJob
      /\ \A v \in Workers : Running(v)' <=> Running(v) /\ v # w
      /\ Busy' = Busy \ {w}
  BY <1>1, <1>2 DEF Running, Busy
<1>5. \A j : Tame(j)' <=> Tame(j)
  BY <1>1 DEF Tame
<1>6. InFlightInv'
  BY <1>1, <1>4, <1>5 DEF InFlightInv
<1>7. NoConcurrentCollection'
  BY <1>1, <1>4 DEF NoConcurrentCollection, Busy
<1>8. \A e \in Devices : /\ Pending(e)' => Pending(e)
                         /\ Pending(e) /\ e # d => Pending(e)'
                         /\ Pending(e) /\ busy[w].cycle # cycle => Pending(e)'
  BY <1>0, <1>1, <1>4 DEF Pending
<1>9. busy[w].cycle = cycle =>
          /\ results[d] = outcome[w] /\ success[d] = outcome[w]
          /\ outcome[w] = "ok" => stamp[d] = cycle
  BY <1>0, <1>1 DEF ResultsInv, GaugesInv, Recorded
<1>10. \A v \in Workers : Recorded(v)' => Recorded(v) /\ v # w
  BY <1>1, <1>4 DEF Recorded
<1>11. ResultsInv'
  <2>1. \A e \in Devices : e < next' => Pending(e)' \/ results'[e] # "none"
    BY <1>1, <1>2, <1>8, <1>9 DEF ResultsInv
  <2>. QED
    BY <1>1, <1>4, <1>10, <2>1 DEF ResultsInv
<1>12. GaugesInv'
  <2>1. \A e \in Devices : e < next' /\ ~Pending(e)' =>
            success'[e] = results'[e] /\ (results'[e] = "ok" => stamp'[e] = cycle')
    BY <1>1, <1>8, <1>9 DEF GaugesInv
  <2>. QED
    BY <1>1, <1>3, <1>4, <2>1 DEF GaugesInv, Barren
<1>13. LateInv'
  BY <1>1 DEF LateInv
<1>14. QED
  BY <1>6, <1>7, <1>11, <1>12, <1>13

-----------------------------------------------------------------------------
(* The invariant holds in every behaviour, and so do the properties.       *)

(* Every step keeps part two. *)
LEMMA CycleInvStep == PoolInv /\ PoolInv' /\ CycleInv /\ [Next]_vars => CycleInv'
<1> SUFFICES ASSUME PoolInv, PoolInv', CycleInv, [Next]_vars PROVE CycleInv'
  OBVIOUS
<1>1. CASE SchedulerStep
  BY <1>1, CycleInvLoop, CycleInvSends, CycleInvTick DEF SchedulerStep
<1>2. CASE \E w \in Workers : WorkerStep(w)
  BY <1>2, CycleInvTake, CycleInvCollect, CycleInvRecord, CycleInvPublish,
     CycleInvStamp, CycleInvFinish DEF WorkerStep
<1>3. CASE Tick \/ Cancel \/ Quiet \/ UNCHANGED vars
  BY <1>3, CycleInvLoop DEF Quiet
<1>4. QED
  BY <1>1, <1>2, <1>3 DEF Next

(* The whole inductive invariant. *)
THEOREM Invariant == Spec => []IInv
<1>1. Init => IInv
  BY PoolInvInit, CycleInvInit DEF IInv
<1>2. IInv /\ [Next]_vars => IInv'
  BY PoolInvStep, CycleInvStep DEF IInv
<1>3. QED
  BY <1>1, <1>2, PTL DEF Spec

(* One closure per device at a time (scheduler.go, Start and runCollection). *)
THEOREM NoConcurrentCollectionHolds == Spec => []NoConcurrentCollection
BY Invariant, PTL DEF IInv, CycleInv

(* When the summary runs, every closure has returned. *)
LEMMA NothingInFlightAtReport ==
  ASSUME IInv, sched = "report"
  PROVE  /\ jobs = <<>> /\ Busy = {}
         /\ \A d \in Devices : ~Pending(d) /\ d < next
<1> USE SchedulerAssumption DEF IInv, PoolInv, CycleInv
<1>1. Len(jobs) = 0 /\ \A w \in Workers : ~Running(w)
  <2>1. \A j : ~Tame(j)
    BY DEF Tame
  <2>. QED
    BY <2>1 DEF InFlightInv, TypeOK, PoolTypeOK
<1>2. jobs = <<>> /\ Busy = {}
  BY <1>1 DEF TypeOK, PoolTypeOK, Busy, Running
<1>3. QED
  BY <1>1, <1>2 DEF LoopInv, Pending, Devices

(* The invariant makes Wait a barrier for the results map. *)
LEMMA BarrierFromInv == IInv => WaitIsBarrier
BY NothingInFlightAtReport DEF IInv, CycleInv, ResultsInv, WaitIsBarrier

(* And the gauges agree with that map. *)
LEMMA AgreesFromInv == IInv => PublishedAgrees
BY NothingInFlightAtReport DEF IInv, CycleInv, GaugesInv, Barren, PublishedAgrees

(* Wait is a barrier (scheduler.go:98): the summary behind it reads a      *)
(* complete results map that nobody writes any more.                       *)
THEOREM WaitIsBarrierHolds == Spec => []WaitIsBarrier
BY Invariant, BarrierFromInv, PTL

(* At the end of a cycle the gauges agree with its results.                *)
THEOREM PublishedAgreesHolds == Spec => []PublishedAgrees
BY Invariant, AgreesFromInv, PTL

(* Cancellation lets at most one more closure into the pool.               *)
THEOREM AtMostOneLateJobHolds == Spec => []AtMostOneLateJob
<1>1. IInv => AtMostOneLateJob
  BY DEF IInv, CycleInv, LateInv, AtMostOneLateJob
<1>2. QED
  BY <1>1, Invariant, PTL

-----------------------------------------------------------------------------
(* The last_collection gauge: only Stamp writes it, right after the closure *)
(* published its success, and no other closure for the device came between. *)
LEMMA StampStep ==
  IInv /\ [Next]_vars => \A d \in Devices : stamp'[d] # stamp[d] => success[d] = "ok"
<1> SUFFICES ASSUME IInv, [Next]_vars,
                    NEW d \in Devices, stamp'[d] # stamp[d]
             PROVE  success[d] = "ok"
  OBVIOUS
<1>1. PICK w \in Workers : Stamp(w)
  BY DEF Next, SchedulerStep, WorkerStep, CheckGoesOn, CheckAborts, SubmitAdds,
     SubmitSends, LoopEnds, WaitReturns, Report, SelectTick, SelectDone, Take, Collect,
     Record, Publish, Finish, Tick, Cancel, Quiet, vars, gaugeVars
<1>2. stage[w] = "stamp" /\ stamp' = [stamp EXCEPT ![busy[w].dev] = cycle]
  BY <1>1 DEF Stamp
<1>3. d = busy[w].dev
  BY <1>2 DEF IInv, PoolInv, TypeOK
<1>4. QED
  BY <1>2, <1>3 DEF IInv, PoolInv, StageInv, CycleInv, GaugesInv

(* A new last-collection time is that of the success on show, for any number *)
(* of devices, workers and cycles (scheduler.go:88-94).                    *)
THEOREM StampsOnlySuccessHolds == Spec => StampsOnlySuccess
<1>1. IInv /\ [Next]_vars => [\A d \in Devices : stamp'[d] # stamp[d] => success[d] = "ok"]_vars
  BY StampStep
<1>2. QED
  BY <1>1, Invariant, PTL DEF Spec, StampsOnlySuccess

-----------------------------------------------------------------------------
(* Refinement: every step is one of the cycle contract, or leaves it alone. *)

(* Refinement: the first call starts the first abstract cycle. *)
LEMMA ContractInit == Init => Contract!Init
BY DEF Init, Contract!Init, Phase, NoResults, Contract!NoResults, Devices

(* The loop's steps are End, Cut, Begin, Stop or stutters. *)
LEMMA ContractScheduler == IInv /\ SchedulerStep => [Contract!Next]_(Contract!vars)
<1> SUFFICES ASSUME IInv, SchedulerStep PROVE [Contract!Next]_(Contract!vars)
  OBVIOUS
<1> USE DEF poolVars, closureVars, gaugeVars, Phase, Contract!vars
<1>1. CASE CheckGoesOn \/ SubmitAdds \/ SubmitSends \/ LoopEnds \/ WaitReturns
  <2>1. UNCHANGED <<cycle, results, ctxDone>> /\ Phase = "collecting" /\ Phase' = "collecting"
    BY <1>1 DEF CheckGoesOn, SubmitAdds, SubmitSends, LoopEnds, WaitReturns
  <2>. QED
    BY <2>1
<1>2. CASE CheckAborts
  <2>1. Contract!Cut
    BY <1>2 DEF CheckAborts, Return, Contract!Cut
  <2>. QED
    BY <2>1 DEF Contract!Next
<1>3. CASE Report
  <2>1. \A d \in 1..N : results[d] # "none"
    BY <1>3, BarrierFromInv DEF Report, WaitIsBarrier, Devices
  <2>2. Contract!End
    BY <1>3, <2>1 DEF Report, Return, Contract!End
  <2>. QED
    BY <2>2 DEF Contract!Next
<1>4. CASE SelectTick
  <2>1. Contract!Begin
    BY <1>4 DEF SelectTick, Contract!Begin, NoResults, Contract!NoResults, Devices
  <2>. QED
    BY <2>1 DEF Contract!Next
<1>5. CASE SelectDone
  <2>1. Contract!Stop
    BY <1>5 DEF SelectDone, Contract!Stop
  <2>. QED
    BY <2>1 DEF Contract!Next
<1>6. QED
  BY <1>1, <1>2, <1>3, <1>4, <1>5 DEF SchedulerStep

(* A worker's Record is Finish, or a stutter for a cut call. *)
LEMMA ContractWorker ==
  ASSUME IInv, NEW w \in Workers, WorkerStep(w)
  PROVE  [Contract!Next]_(Contract!vars)
<1>1. UNCHANGED <<cycle, ctxDone, sched>> /\ Phase' = Phase
  BY DEF WorkerStep, Take, Collect, Record, Publish, Stamp, Finish, loopVars, Phase
<1>2. CASE UNCHANGED results
  BY <1>1, <1>2 DEF Contract!vars
<1>3. CASE Record(w) /\ busy[w].cycle = cycle
  <2>1. /\ stage[w] = "record"
        /\ results' = [results EXCEPT ![busy[w].dev] = outcome[w]]
    BY <1>3 DEF Record
  <2>2. busy[w].dev \in 1..N /\ Tame(busy[w])
    BY <2>1, ClosureFacts DEF IInv, Devices
  <2>3. results[busy[w].dev] = "none" /\ outcome[w] \in {"ok", "err"}
    BY <1>3, <2>1 DEF IInv, PoolInv, StageInv, TypeOK, CycleInv, ResultsInv
  <2>4. Phase = "collecting" \/ ctxDone
    BY <2>2 DEF Tame, Phase
  <2>5. Contract!Finish(busy[w].dev, outcome[w])
    BY <1>1, <2>1, <2>3, <2>4 DEF Contract!Finish
  <2>. QED
    BY <2>2, <2>3, <2>5 DEF Contract!Next
<1>4. QED
  BY <1>2, <1>3 DEF WorkerStep, Take, Collect, Record, Publish, Stamp, Finish

(* Every step of the scheduler is one of the contract's or a stutter. *)
LEMMA ContractStep == IInv /\ [Next]_vars => [Contract!Next]_(Contract!vars)
<1> SUFFICES ASSUME IInv, [Next]_vars PROVE [Contract!Next]_(Contract!vars)
  OBVIOUS
<1>1. CASE Tick \/ Quiet \/ UNCHANGED vars
  BY <1>1 DEF Tick, Quiet, vars, loopVars, Contract!vars, Phase
<1>2. CASE Cancel
  <2>1. Contract!Cancel
    BY <1>2 DEF Cancel, Contract!Cancel, Phase
  <2>. QED
    BY <2>1 DEF Contract!Next
<1>3. QED
  BY <1>1, <1>2, ContractScheduler, ContractWorker DEF Next

(* The loop, the pool and the ticker implement module CollectionCycle.     *)
THEOREM ImplementsCycleContract == Spec => CycleContract
<1>1. Spec => Contract!Init /\ [][Contract!Next]_(Contract!vars)
  BY ContractInit, ContractStep, Invariant, PTL DEF Spec
<1>2. QED
  BY <1>1 DEF CycleContract, Contract!Spec
=============================================================================
