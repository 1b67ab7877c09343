------------------------------- MODULE Scheduler -------------------------------
(***************************************************************************)
(* The background collection loop of internal/scheduler/scheduler.go on    *)
(* top of the worker pool: Start's goroutine, runCollection, the closures  *)
(* it submits, the ticker that starts the next cycle and the context that  *)
(* main cancels on SIGINT or SIGTERM.                                      *)
(*                                                                         *)
(* Devices are positions 1..N of cfg.Devices, in the order the loop visits *)
(* them.  A closure is a record [dev, cycle]: the device it captured and   *)
(* the call of runCollection whose results map it captured.  collectDevice *)
(* is one step here with either outcome; module Collection is the inside   *)
(* of that step.  Time passes with the calls of runCollection: the time a  *)
(* success leaves in the last_collection gauge is the number of calls      *)
(* begun when the gauge is set, which for a closure that a cancelled call  *)
(* left behind is later than the call it belongs to.                       *)
(***************************************************************************)
EXTENDS WorkerPool

CONSTANTS
    N,          \* number of configured devices
    MaxCycles,  \* bound on the calls of runCollection in a behaviour
    Hanging     \* devices for which collectDevice may never return

Devices == 1..N
Cycles  == 1..MaxCycles
Job     == [dev : Devices, cycle : Nat \ {0}]

ASSUME SchedulerAssumption ==
    /\ N \in Nat
    /\ MaxCycles \in Nat \ {0}
    /\ Hanging \subseteq Devices
    /\ NoJob \notin Job

VARIABLES
    stage,      \* stage[w]: where worker w is in its closure
    outcome,    \* outcome[w]: the closure's err, "ok" when it is nil
    sched,      \* where the scheduler goroutine is
    next,       \* the device its range loop is at; N + 1 past the end
    cycle,      \* number of runCollection calls begun
    ctxDone,    \* the context is cancelled
    ticker,     \* the ticker's channel, whose capacity is one tick
    results,    \* the results map of the current call of runCollection
    success,    \* the collection_success gauge of each device
    stamp,      \* the last_collection gauge of each device, 0 if never set
    late        \* history: closures sent to the pool after the cancellation

closureVars == <<stage, outcome>>
gaugeVars   == <<success, stamp>>
loopVars    == <<sched, next, cycle, ctxDone, ticker>>
vars == <<poolVars, closureVars, loopVars, results, gaugeVars, late>>

NoResults == [d \in Devices |-> "none"]

(* Every variable stays in its range; in particular wg never goes negative, *)
(* which panics, and the channel never holds more than its capacity.       *)
TypeOK ==
    /\ PoolTypeOK(Job)
    /\ stage \in [Workers -> {"idle", "collect", "record", "publish", "stamp", "done"}]
    /\ outcome \in [Workers -> {"none", "ok", "err"}]
    /\ sched \in {"check", "submit", "send", "wait", "report", "select", "stopped"}
    /\ next \in 1..(N + 1)
    /\ cycle \in Nat \ {0}
    /\ ctxDone \in BOOLEAN
    /\ ticker \in {"none", "empty", "full"}
    /\ results \in [Devices -> {"none", "ok", "err"}]
    /\ success \in [Devices -> {"absent", "ok", "err"}]
    /\ stamp \in [Devices -> Nat]
    /\ late \in Nat

(* Start calls runCollection before it creates the ticker. *)
Init ==
    /\ PoolInit
    /\ stage = [w \in Workers |-> "idle"]
    /\ outcome = [w \in Workers |-> "none"]
    /\ sched = "check"
    /\ next = 1
    /\ cycle = 1
    /\ ctxDone = FALSE
    /\ ticker = "none"
    /\ results = NoResults
    /\ success = [d \in Devices |-> "absent"]
    /\ stamp = [d \in Devices |-> 0]
    /\ late = 0

-----------------------------------------------------------------------------
(* The scheduler goroutine.                                                *)

(* runCollection returns: the first call is followed by time.NewTicker. *)
Return ==
    /\ sched' = "select"
    /\ ticker' = IF ticker = "none" THEN "empty" ELSE ticker

(* Deviation: the loop does not look at the context. *)
CheckIgnoresContext ==
    /\ sched = "check"
    /\ next <= N
    /\ sched' = "submit"
    /\ UNCHANGED <<poolVars, closureVars, next, cycle, ctxDone, ticker, results, gaugeVars, late>>

(* The loop's select finds the context alive and goes on to Submit. *)
CheckGoesOn ==
    /\ sched = "check"
    /\ next <= N
    /\ ~ctxDone
    /\ sched' = "submit"
    /\ UNCHANGED <<poolVars, closureVars, next, cycle, ctxDone, ticker, results, gaugeVars, late>>

(* It finds it cancelled: runCollection returns at once, without Wait. *)
CheckAborts ==
    /\ sched = "check"
    /\ next <= N
    /\ ctxDone
    /\ Return
    /\ UNCHANGED <<poolVars, closureVars, next, cycle, ctxDone, results, gaugeVars, late>>

SubmitAdds ==
    /\ sched = "submit"
    /\ Add
    /\ sched' = "send"
    /\ UNCHANGED <<closureVars, next, cycle, ctxDone, ticker, results, gaugeVars, late>>

SubmitSends ==
    /\ sched = "send"
    /\ Send([dev |-> next, cycle |-> cycle])
    /\ sched' = "check"
    /\ next' = next + 1
    /\ late' = IF ctxDone THEN late + 1 ELSE late
    /\ UNCHANGED <<closureVars, cycle, ctxDone, ticker, results, gaugeVars>>

LoopEnds ==
    /\ sched = "check"
    /\ next > N
    /\ sched' = "wait"
    /\ UNCHANGED <<poolVars, closureVars, next, cycle, ctxDone, ticker, results, gaugeVars, late>>

(* Deviation: no barrier at the end of the loop. *)
WaitReturnsAtOnce ==
    /\ sched = "wait"
    /\ sched' = "report"
    /\ UNCHANGED <<poolVars, closureVars, next, cycle, ctxDone, ticker, results, gaugeVars, late>>

WaitReturns ==
    /\ sched = "wait"
    /\ Waited
    /\ sched' = "report"
    /\ UNCHANGED <<poolVars, closureVars, next, cycle, ctxDone, ticker, results, gaugeVars, late>>

(* The summary reads the results map without its mutex. *)
Report ==
    /\ sched = "report"
    /\ Return
    /\ UNCHANGED <<poolVars, closureVars, next, cycle, ctxDone, results, gaugeVars, late>>

(* Deviation: one results map for all cycles. *)
SelectTickKeepsResults ==
    /\ sched = "select"
    /\ ticker = "full"
    /\ cycle < MaxCycles
    /\ ticker' = "empty"
    /\ sched' = "check"
    /\ next' = 1
    /\ cycle' = cycle + 1
    /\ UNCHANGED <<poolVars, closureVars, ctxDone, results, gaugeVars, late>>

(* Start's select: with both channels ready Go picks either one. *)
SelectTick ==
    /\ sched = "select"
    /\ ticker = "full"
    /\ cycle < MaxCycles
    /\ ticker' = "empty"
    /\ sched' = "check"
    /\ next' = 1
    /\ cycle' = cycle + 1
    /\ results' = NoResults
    /\ UNCHANGED <<poolVars, closureVars, ctxDone, gaugeVars, late>>

(* Deviation: Start's loop selects on the ticker alone. *)
SelectDoneMissing == FALSE

SelectDone ==
    /\ sched = "select"
    /\ ctxDone
    /\ sched' = "stopped"
    /\ ticker' = "none"
    /\ UNCHANGED <<poolVars, closureVars, next, cycle, ctxDone, results, gaugeVars, late>>

-----------------------------------------------------------------------------
(* A worker running the closure.                                           *)

Take(w) ==
    /\ stage[w] = "idle"
    /\ Receive(w)
    /\ stage' = [stage EXCEPT ![w] = "collect"]
    /\ UNCHANGED <<outcome, loopVars, results, gaugeVars, late>>

Collect(w) ==
    /\ stage[w] = "collect"
    /\ stage' = [stage EXCEPT ![w] = "record"]
    /\ \E o \in {"ok", "err"} : outcome' = [outcome EXCEPT ![w] = o]
    /\ UNCHANGED <<poolVars, loopVars, results, gaugeVars, late>>

(* results[d.Name] = err == nil.  A closure of an aborted call writes a map *)
(* nobody reads.                                                           *)
Record(w) ==
    /\ stage[w] = "record"
    /\ stage' = [stage EXCEPT ![w] = "publish"]
    /\ results' = IF busy[w].cycle = cycle
                    THEN [results EXCEPT ![busy[w].dev] = outcome[w]]
                    ELSE results
    /\ UNCHANGED <<poolVars, outcome, loopVars, gaugeVars, late>>

(* Deviation: only successes reach the collection_success gauge. *)
PublishOnlySuccess(w) ==
    /\ stage[w] = "publish"
    /\ stage' = [stage EXCEPT ![w] = IF outcome[w] = "ok" THEN "stamp" ELSE "done"]
    /\ success' = IF outcome[w] = "ok" THEN [success EXCEPT ![busy[w].dev] = "ok"] ELSE success
    /\ UNCHANGED <<poolVars, outcome, loopVars, results, stamp, late>>

(* Deviation: the timestamp is set whatever the outcome. *)
PublishThenStamp(w) ==
    /\ stage[w] = "publish"
    /\ stage' = [stage EXCEPT ![w] = "stamp"]
    /\ success' = [success EXCEPT ![busy[w].dev] = outcome[w]]
    /\ UNCHANGED <<poolVars, outcome, loopVars, results, stamp, late>>

(* Deviation: the closure collects again after a failure. *)
PublishThenRetry(w) ==
    /\ stage[w] = "publish"
    /\ stage' = [stage EXCEPT ![w] = IF outcome[w] = "ok" THEN "stamp" ELSE "collect"]
    /\ outcome' = [outcome EXCEPT ![w] = IF outcome[w] = "ok" THEN "ok" ELSE "none"]
    /\ success' = [success EXCEPT ![busy[w].dev] = outcome[w]]
    /\ UNCHANGED <<poolVars, loopVars, results, stamp, late>>

Publish(w) ==
    /\ stage[w] = "publish"
    /\ stage' = [stage EXCEPT ![w] = IF outcome[w] = "ok" THEN "stamp" ELSE "done"]
    /\ success' = [success EXCEPT ![busy[w].dev] = outcome[w]]
    /\ UNCHANGED <<poolVars, outcome, loopVars, results, stamp, late>>

(* time.Now() is read when the gauge is set, not when the device was read. *)
Stamp(w) ==
    /\ stage[w] = "stamp"
    /\ stage' = [stage EXCEPT ![w] = "done"]
    /\ stamp' = [stamp EXCEPT ![busy[w].dev] = cycle]
    /\ UNCHANGED <<poolVars, outcome, loopVars, results, success, late>>

Finish(w) ==
    /\ stage[w] = "done"
    /\ Done(w)
    /\ stage' = [stage EXCEPT ![w] = "idle"]
    /\ outcome' = [outcome EXCEPT ![w] = "none"]
    /\ UNCHANGED <<loopVars, results, gaugeVars, late>>

-----------------------------------------------------------------------------
(* The environment: the ticker fires (a tick that finds its channel full is *)
(* dropped) and main cancels the context.                                  *)

Tick ==
    /\ ticker = "empty"
    /\ ticker' = "full"
    /\ UNCHANGED <<poolVars, closureVars, sched, next, cycle, ctxDone, results, gaugeVars, late>>

Cancel ==
    /\ ~ctxDone
    /\ ctxDone' = TRUE
    /\ UNCHANGED <<poolVars, closureVars, sched, next, cycle, ticker, results, gaugeVars, late>>

(* Nothing is left to do: the loop has returned, or has used its bound of  *)
(* cycles, and the workers wait on an empty channel.                       *)
Quiet ==
    /\ sched = "stopped" \/ (sched = "select" /\ cycle = MaxCycles)
    /\ jobs = <<>> /\ Busy = {}
    /\ UNCHANGED vars

SchedulerStep ==
    \/ CheckGoesOn \/ CheckAborts \/ SubmitAdds \/ SubmitSends \/ LoopEnds
    \/ WaitReturns \/ Report \/ SelectTick \/ SelectDone

WorkerStep(w) ==
    \/ Take(w) \/ Collect(w) \/ Record(w) \/ Publish(w) \/ Stamp(w) \/ Finish(w)

Next ==
    \/ SchedulerStep
    \/ \E w \in Workers : WorkerStep(w)
    \/ Tick \/ Cancel \/ Quiet

Spec == Init /\ [][Next]_vars

(* Goroutines that can run do; a select that keeps finding the cancelled   *)
(* context ready picks it in the end; the ticker keeps ticking; a device   *)
(* outside Hanging answers, fails or times out.  Nothing makes main cancel. *)
MayHang(w) == stage[w] = "collect" /\ busy[w].dev \in Hanging

Fairness ==
    /\ WF_vars(SchedulerStep)
    /\ SF_vars(SelectDone)
    /\ \A w \in Workers : WF_vars(~MayHang(w) /\ WorkerStep(w))
    /\ WF_vars(Tick)

FairSpec == Spec /\ Fairness

-----------------------------------------------------------------------------
(* Safety.                                                                 *)

InFlight == {jobs[i] : i \in 1..Len(jobs)} \cup {busy[w] : w \in Busy}

(* The WaitGroup counts the closures buffered or running, and the one      *)
(* Submit has announced and not yet sent: it never goes negative (which    *)
(* panics) and never reaches zero early (worker.go, Submit and worker).    *)
WgCountsInFlight ==
    wg = Len(jobs) + Cardinality(Busy) + (IF sched = "send" THEN 1 ELSE 0)

(* When Wait has returned nothing runs that could still write the results  *)
(* map, and every device has its entry: the summary at scheduler.go:100-107 *)
(* may read the map without the mutex and counts all devices.              *)
WaitIsBarrier ==
    sched = "report" =>
        /\ jobs = <<>> /\ Busy = {}
        /\ \A d \in Devices : results[d] # "none"

(* A device is never collected twice at a time, whatever ticks arrive and  *)
(* however the cancelled calls leave their closures behind: two sessions   *)
(* to one switch would interleave their gauge writes and counter adds.     *)
NoConcurrentCollection ==
    /\ \A i, j \in 1..Len(jobs) : i # j => jobs[i].dev # jobs[j].dev
    /\ \A i \in 1..Len(jobs), w \in Busy : jobs[i].dev # busy[w].dev
    /\ \A v, w \in Busy : v # w => busy[v].dev # busy[w].dev

(* The loop and the pool never wait on each other: while the full channel  *)
(* or Wait holds the loop up, a worker has a closure to run or to take, so *)
(* only a device that does not answer can hold up a cycle for ever.        *)
HeldUp == (sched = "send" /\ Len(jobs) = QueueCap) \/ (sched = "wait" /\ ~Waited)
NeverWaitsForNothing == HeldUp => Busy # {} \/ jobs # <<>>

(* The steps that the closures, the ticker and main can still take without *)
(* the loop: a buffered closure has six of them, a running one as many as  *)
(* its stage has before it.                                                *)
Rank == [idle |-> 0, done |-> 1, stamp |-> 2, publish |-> 3, record |-> 4, collect |-> 5]
StepsLeft == {p \in Workers \X (1..5) : p[2] <= Rank[stage[p[1]]]}
Remaining ==
    6 * Len(jobs) + Cardinality(StepsLeft)
      + (IF ticker = "empty" THEN 1 ELSE 0) + (IF ctxDone THEN 0 ELSE 1)

(* Whatever happens while the loop is held up brings its release nearer:   *)
(* no closure re-submits itself or runs again, so a cycle is late by the   *)
(* answers of the devices before it and can never be held up by a pool     *)
(* that is busy for ever (scheduler.go:80-97 and worker.go:33-47).         *)
HeldUpRunsDown == [][HeldUp => Remaining' < Remaining]_vars

(* At the end of a cycle the gauges a scrape reads tell the same story as  *)
(* the summary: collection_success is this cycle's result, and the         *)
(* last_collection time is this cycle's exactly for the successes.         *)
PublishedAgrees ==
    sched = "report" =>
        \A d \in Devices :
            /\ success[d] = results[d]
            /\ results[d] = "ok" <=> stamp[d] = cycle

(* Submit ignores its context, but cancellation lets at most one more      *)
(* closure into the pool: the one whose check came before it.              *)
AtMostOneLateJob == late <= 1

(* A new time in last_collection is the time of the success that           *)
(* collection_success shows.  The closure sets the two gauges one after the *)
(* other, without a lock (scheduler.go:88-94), so a second closure for the *)
(* device that failed in between would leave a failed device with the time *)
(* of a success.                                                           *)
StampsOnlySuccess ==
    [][\A d \in Devices : stamp'[d] # stamp[d] => success[d] = "ok"]_vars

(* The loop, the pool and the ticker together implement the cycle contract: *)
(* one outcome per device and cycle, no cycle over before all are in.      *)
Phase ==
    CASE sched = "select"  -> "idle"
      [] sched = "stopped" -> "stopped"
      [] OTHER             -> "collecting"

Contract == INSTANCE CollectionCycle WITH phase <- Phase, cancelled <- ctxDone

CycleContract == Contract!Spec

-----------------------------------------------------------------------------
(* Liveness.                                                               *)

(* A cycle is followed by the next one for as long as nobody cancels.      *)
KeepsCollecting ==
    \A c \in 1..(MaxCycles - 1) : cycle = c ~> (cycle > c \/ ctxDone)

(* After the cancellation the loop returns and the pool drains.            *)
StopsAfterCancel == ctxDone ~> (sched = "stopped" /\ InFlight = {})
=============================================================================
