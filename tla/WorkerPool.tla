------------------------------ MODULE WorkerPool ------------------------------
(***************************************************************************)
(* The worker pool of internal/worker/worker.go: a fixed set of goroutines *)
(* that receive closures from one buffered channel, and a WaitGroup that   *)
(* counts the closures handed over and not yet finished.                   *)
(*                                                                         *)
(* The module gives the pool's state and one operator per step of its      *)
(* methods; a module that uses a pool EXTENDS it and says who takes those  *)
(* steps and when.  A step is one that other goroutines can interleave     *)
(* with: Submit is two of them (the Add, then the channel send that may    *)
(* block between the two) and so is one turn of a worker's loop (the       *)
(* receive, then the Done once the closure has returned).                  *)
(***************************************************************************)
EXTENDS Naturals, Sequences, FiniteSets

CONSTANTS
    Workers,    \* the goroutines New starts
    NoJob       \* what an idle worker runs

ASSUME WorkersAssumption == IsFiniteSet(Workers) /\ Workers # {}

VARIABLES
    jobs,       \* the buffered channel, oldest closure first
    busy,       \* busy[w] is the closure worker w runs, NoJob when it waits
    wg          \* the WaitGroup's counter

poolVars == <<jobs, busy, wg>>

(* make(chan func(), workers*2) *)
QueueCap == 2 * Cardinality(Workers)

PoolTypeOK(Job) ==
    /\ jobs \in Seq(Job) /\ Len(jobs) <= QueueCap
    /\ busy \in [Workers -> Job \cup {NoJob}]
    /\ wg \in Nat

Busy == {w \in Workers : busy[w] # NoJob}

-----------------------------------------------------------------------------
PoolInit ==
    /\ jobs = <<>>
    /\ busy = [w \in Workers |-> NoJob]
    /\ wg = 0

(* Deviation: Submit that does not count the closure. *)
AddForgotten == UNCHANGED poolVars

(* Submit, first half: the counter goes up before the closure is visible. *)
Add ==
    /\ wg' = wg + 1
    /\ UNCHANGED <<jobs, busy>>

(* Submit, second half: the send blocks while the buffer is full, whatever *)
(* the context passed to Submit says.                                      *)
Send(job) ==
    /\ Len(jobs) < QueueCap
    /\ jobs' = Append(jobs, job)
    /\ UNCHANGED <<busy, wg>>

(* for job := range p.jobs *)
Receive(w) ==
    /\ busy[w] = NoJob
    /\ jobs # <<>>
    /\ busy' = [busy EXCEPT ![w] = Head(jobs)]
    /\ jobs' = Tail(jobs)
    /\ UNCHANGED wg

(* Deviation: a worker that does not report the end of its closure. *)
DoneNotCounted(w) ==
    /\ busy[w] # NoJob
    /\ busy' = [busy EXCEPT ![w] = NoJob]
    /\ UNCHANGED <<jobs, wg>>

(* The closure has returned: wg.Done(), and the worker is back at its range. *)
Done(w) ==
    /\ busy[w] # NoJob
    /\ busy' = [busy EXCEPT ![w] = NoJob]
    /\ wg' = wg - 1
    /\ UNCHANGED jobs

(* Wait() returns. *)
Waited == wg = 0
=============================================================================
