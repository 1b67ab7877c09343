----------------------------- MODULE SchedulerInv -----------------------------
(***************************************************************************)
(* The inductive invariant of module Scheduler, as the conjunction of named *)
(* parts that module SchedulerProofs uses one by one.  It speaks of         *)
(* closures by where they are: jobs[i] in the channel, busy[w] in a worker. *)
(***************************************************************************)
EXTENDS Scheduler

Running(w) == busy[w] # NoJob

(* A worker's stage, its closure and its err go together. *)
StageInv ==
    /\ \A w \in Workers : stage[w] = "idle" <=> ~Running(w)
    /\ \A w \in Workers : outcome[w] = "none" <=> stage[w] \in {"idle", "collect"}
    /\ \A w \in Workers : stage[w] = "stamp" => outcome[w] = "ok"

(* The loop submits devices of the list and waits at its end. *)
LoopInv ==
    /\ sched \in {"submit", "send"} => next <= N
    /\ sched \in {"wait", "report"} => next = N + 1

(* Part one: what the type invariant needs, for wg must not go below zero  *)
(* nor the loop past the list.                                             *)
PoolInv == TypeOK /\ StageInv /\ LoopInv /\ WgCountsInFlight

-----------------------------------------------------------------------------
Recorded(w) == stage[w] \in {"publish", "stamp", "done"}

(* A closure of the current call is for a device the loop has passed; one  *)
(* of an earlier call is there only because the context was cancelled, and *)
(* then the loop is not about to submit anything.                          *)
Tame(j) ==
    /\ j.cycle <= cycle
    /\ j.cycle = cycle => j.dev < next
    /\ j.cycle < cycle => /\ ctxDone
                          /\ sched \in {"check", "select", "stopped"}
                          /\ next = 1
    /\ sched \in {"select", "stopped"} => ctxDone
    /\ sched # "report"

InFlightInv ==
    /\ \A i \in 1..Len(jobs) : Tame(jobs[i])
    /\ \A w \in Workers : Running(w) => Tame(busy[w])

(* A device the loop has passed is still in flight or has its result. *)
Pending(d) ==
    \/ \E i \in 1..Len(jobs) : jobs[i].dev = d /\ jobs[i].cycle = cycle
    \/ \E w \in Workers : Running(w) /\ busy[w].dev = d /\ busy[w].cycle = cycle

ResultsInv ==
    /\ \A d \in Devices : d < next => Pending(d) \/ results[d] # "none"
    /\ \A d \in Devices : d >= next => results[d] = "none"
    /\ \A i \in 1..Len(jobs) : jobs[i].cycle = cycle => results[jobs[i].dev] = "none"
    /\ \A w \in Workers : stage[w] \in {"collect", "record"} /\ busy[w].cycle = cycle =>
           results[busy[w].dev] = "none"
    /\ \A w \in Workers : Recorded(w) /\ busy[w].cycle = cycle =>
           results[busy[w].dev] = outcome[w]

(* A call begun after the cancellation: it submits nothing, and is the only *)
(* kind that may find closures of an earlier call still running, which     *)
(* stamp their devices with its time.                                      *)
Barren == ctxDone /\ next = 1 /\ sched \in {"check", "select", "stopped"}

(* Gauges follow the result in the order the closure sets them. *)
GaugesInv ==
    /\ \A d \in Devices : stamp[d] <= cycle
    /\ \A d \in Devices : stamp[d] = cycle => results[d] = "ok" \/ Barren
    /\ \A d \in Devices : d < next /\ ~Pending(d) =>
           /\ success[d] = results[d]
           /\ results[d] = "ok" => stamp[d] = cycle
    /\ \A w \in Workers : stage[w] \in {"stamp", "done"} =>
           success[busy[w].dev] = outcome[w]
    /\ \A w \in Workers : stage[w] = "done" /\ busy[w].cycle = cycle =>
           (outcome[w] = "ok" => stamp[busy[w].dev] = cycle)

LateInv ==
    /\ ~ctxDone => late = 0
    /\ sched \in {"submit", "send"} => late = 0
    /\ late <= 1

(* Part two: no device is in flight twice, and what is in flight, recorded *)
(* and published fits the position of the loop.                            *)
CycleInv ==
    /\ NoConcurrentCollection
    /\ InFlightInv
    /\ ResultsInv
    /\ GaugesInv
    /\ LateInv

(* The whole: true at the start of Start's goroutine and kept by every step *)
(* of the loop, the workers, the ticker and main.                          *)
IInv == PoolInv /\ CycleInv
=============================================================================
