# GCisco-Exporter in TLA+

A formal model of GCisco-Exporter: a Go program that collects metrics from many
Cisco switches in the background and exposes them on one Prometheus endpoint.
The modules follow the code under `internal/`, TLC checks them on small
instances, and TLAPS proves the main safety results for every value of the
constants. `PROJECT.json` lists the runs, the mapping from definitions to source
lines, the hazards and the findings.

## 1. The system

| Component | Source | State | Operations | Interacts with |
|---|---|---|---|---|
| main | `cmd/exporter/main.go` | context, HTTP server | start, cancel on SIGINT/SIGTERM, 10 s shutdown | starts the scheduler, serves the registry |
| scheduler loop | `scheduler.go` 40-108 | ticker, results map of the call | `Start`, `runCollection` | submits one closure per device, waits |
| worker pool | `worker.go` | channel of closures, WaitGroup | `New`, `Submit`, `Wait`, worker loop (`Stop` unused) | runs the closures |
| collection of a device | `scheduler.go` 110-898 | none of its own | `collectDevice`, one script per method | providers, store, collector |
| JSON provider | `provider/json` | none (the SSH client) | `Collect...`, `exec`, `parseJSON` | the SSH client |
| RESTCONF provider | `provider/restconf` | an HTTP client | `Collect...`, `doRequest` | the device |
| NETCONF provider | `provider/netconf` | an SSH session with a subsystem | `Connect`, `Collect...`, `execRPC`, `Close` | the device |
| SSH client | `provider/ssh/client.go` | a shell shared by all commands | `NewClient`, `Execute`, `Close` | a goroutine per command |
| SSH parsers | `provider/ssh/parser_*.go` | none | `Parse...` | pure functions |
| metrics collector | `metrics.go` | gauge and counter vectors | setters (`Set` or `Add`) | read by the scrape |
| cache store | `cache.go` | map of devices | `Update` (`Get`, `GetAll` unused) | written by `collectDevice` |
| configuration | `config.go` | none | `Load`, `setDefaults` | read by all |
| unused code | `capabilities`, `collector/*`, `provider/types.go`, `debugcapture.Save` | | | |

What is hard about it:

* **Concurrency.** The loop goroutine, the workers, the ticker and main's cancel
  interleave; `Submit` blocks on a bounded channel without looking at its
  context; a cancelled call of `runCollection` returns without waiting, so its
  closures meet those of a later call. Correct means: `Wait` is a barrier, no
  device is collected twice at once, the gauges agree with the results, a cycle
  follows a cycle, and a cancellation stops everything.
* **Partial failure.** Every command of a script may fail or answer nothing
  useful, and each has its own way of dealing with it. Correct means: values of
  one cycle come from one method, the first method that works is used, and the
  status gauges agree with each other and with the store.
* **Late answers.** A command that times out leaves a goroutine on the stream
  it shares with the next command. Correct means: what `Execute` returns for a
  command is that command's output, and no goroutine outlives the session.
* **Framing.** The NETCONF session leaves the server's hello unread and makes a
  buffered reader per RPC, so a reply is read one exchange late and part of a
  message may go with an old reader. Correct means: an answer is one message, the
  lag does not grow, and no call waits for what will not come.
* **Answers cut short.** A read that ends in a '#' of the output ends the answer
  there, and nothing tells the parsers. Correct means: what is read of it is part
  of what the whole would have given.
* **Totals and values.** Counters that are added to, parsers that index
  submatches, JSON found by counting braces, tags paired by their order.
* **Selection.** Which groups are on decides which commands are sent, in six
  scripts that each test the selection on their own, and with that which failures
  a method can meet at all.

## 2. Modules

```
CollectionCycle            what a cycle promises (abstract)
      ^ implemented by
WorkerPool <- Scheduler <- SchedulerInv <- SchedulerProofs
                  | the step Collect, opened up
CollectionScripts <- Configuration <- Collection <- CollectionInv <- CollectionProofs, MCCollection
                  |           |   |                     ^- CollectionContractProofs
                  |           |   implements DeviceContract (abstract)
                  |           InterfaceListing: whether a parser can panic
                  | a command of a script, opened up
SSHSession <- SSHSessionInv <- SSHSessionProofs, MCSSHSession
                  | an RPC of a script, opened up
NETCONFSession <- NETCONFSessionInv <- NETCONFSessionProofs
                  | an answer, opened up
InterfaceListing, TableParsers, JSONText, XMLText <- Parsers <- ParsersProofs
                                            RecursionLemmas <-'
```

**WorkerPool** (`worker.go`): the channel `jobs`, what each worker runs (`busy`)
and the WaitGroup's counter `wg`. `Submit` is two steps, `Add` and `Send`, since
the send blocks while the channel is full; a turn of a worker's loop is
`Receive`, the closure, `Done`. The module has the steps; whoever uses a pool
says when they happen. The mutex of `Submit` is not modelled: one goroutine
calls it.

**Scheduler** (`scheduler.go` 40-108): `sched` says where the loop goroutine is
("check" is the select at the top of the range loop, "submit" and "send" the two
halves of `Submit`, "wait", "report" the summary, "select" the ticker loop).
`stage[w]` says where worker `w` is in the closure: `collectDevice` (one step,
either outcome), the results map, the success gauge, the timestamp. A closure is
a record of its device and its call. The results map of a call that was aborted
is dropped, as nobody reads it. Time is the number of the latest call begun: the
timestamp a success leaves is that of the moment it is set, as `time.Now()` is, so
a closure of an aborted call that is late stamps its device with the time of the
call begun since. `Tick` and `Cancel` are the environment.

**CollectionCycle** is the contract: outcomes are recorded one per device and
cycle, a cycle ends only when all are in or the context is cancelled, and the
next begins with an empty map. `Scheduler!CycleContract` instantiates it with
`phase <- Phase`, `cancelled <- ctxDone`; pool, queue, WaitGroup, gauges and
ticker are hidden.

**CollectionScripts** holds the command scripts as tables, a row per command:
the metric families its answer feeds and what the code does when the command
errs or answers without the fields (fail the method, end the script, skip, skip
the next command too, or write zeros).

**Configuration** (`setDefaults` of `config.go`): what the file leaves out of a
device's type and methods and of the selection is filled in. A selection is the
set of groups that are true, as the decoded structure has it: a group left out
and one set to false are the same.

**Collection** (`collectDevice`, a script, the report in the closure): one
device over several cycles. `config` is the configuration as the file has it,
`profile` what `setDefaults` makes of it. `m` is the loop over
`CollectionMethods`, `k` the row; a row of a group that is off is passed over
(`SkipUnselected`). `reg` remembers for each family of metrics where its latest
value came from: the cycle, the method, and whether the device supplied it.
Counters accumulate; the device's own total is one more per cycle.
`ParserPanics` is the out-of-range index of `ParseNXOSInterfaces`, enabled where
`InterfaceListing` finds an expression with fewer groups than the code reads, and
the unchecked type assertion on a table of a JSON answer, for the commands in
`UncheckedTables`, whatever the type of the device.
Devices share only the registry, where each has its own series, so one device
stands for all.

**DeviceContract** is what the collection of a device promises: methods are
tried in their order, one that has written does not fall back, and the entry in
the store, the gauges and the timestamp change together. `Collection!Contract`
instantiates it: from the update of the store on, the gauges the closure is
still going to set are taken for set (`Succeeding`), so the contract's `Succeed`
is `UpdateStore` and its `Fail` is `SetDown`; scripts, rows, faults and counters
are hidden. A closure the process has died in is one that never ends.

**SSHSession** (`client.go`): the shell's output is one stream of numbered
pieces, four per command (echo, two of output, prompt), and a read takes any
number of those the written commands produce. `Execute` is `Start`, `Write`, and
one of `ReturnOutput`, `ReturnError`, `GiveUp`; the reader goroutine of command
`c` is `Read(c)` and `ReadEOF(c)`. What a match of the prompt expression and
`strings.Contains` can see is `EndsLikePrompt` and `HasEcho`. Commands in
`hashy` print a line that ends in '#'. The shell is taken to echo commands, as
`readOutput` needs it to.

**NETCONFSession** (`netconf.go` 35-118): the subsystem's output is one stream
of messages, the hello and then a reply per RPC, of four pieces each: two of
text and the halves of the end marker. `Fill` takes any number of what has
arrived into the current reader's buffer, `Return` ends the answer at the first
line with a marker and drops the rest of the buffer, `ReadEOF` returns the
complete lines there are when the channel has ended (outcome "cut"). A `bare`
server sends no newline after the marker, so that its line ends with the first
piece of the next message.

**InterfaceListing** (the three `Parse...Interfaces`): a listing is a sequence of
header and counter lines; per dialect, `Patterns` has each expression's groups,
the last submatch the code reads and the fields it sets; `Recognised` is the
expression that cuts the blocks. A counter line has the set of expressions it
matches, two for the MTU line of IOS. The value of a counter is the line it came
from. `Parse` is what the parser returns where it does not panic (`Panics`).
**TableParsers**: the VLAN table, the file systems, the uptime with its cases in
their order. **JSONText**: the brace count of `parseJSON`, beside the object as
JSON delimits it. **XMLText**: `parseXMLFields` on sequences of tags, texts, white
space between tags (a value "" that uses up a part of the reply) and end markers
that stay in a reply (a ">" that is the end of no tag). A ">" in a text is left
out: servers write it as an entity.
**Parsers** generates every answer of bounded length, by a line, a character or
a token at a time, so that the state before a step is the answer after it, cut.
**RecursionLemmas** holds facts about numbers, recursive functions and sums that
**ParsersProofs** needs; it has no part of the program.

Operators commented "Deviation" are plausible wrong versions of the definition
that follows them; `PROJECT.json` lists, for each property, the one that breaks
it. They are not part of any specification.

## 3. What is checked

Constants and what the bounds are for; every passing run explores its whole
state space.

| Run | Instance | Shows |
|---|---|---|
| `scheduler_safety` | 2 workers, 3 devices, 3 cycles (397,909 states) | `WgCountsInFlight`, `WaitIsBarrier`, `NoConcurrentCollection`, `PublishedAgrees`, `AtMostOneLateJob`, `StampsOnlySuccess`, the inductive invariant, the refinement of the cycle contract |
| `scheduler_live` | 1 worker, 4 devices, 3 cycles (213,747 states), so that the channel fills | `NeverWaitsForNothing`, `HeldUpRunsDown`, `KeepsCollecting`, `StopsAfterCancel` |
| `scheduler_hung` | 2 workers, device 1 may hang | violates `KeepsCollecting` |
| `collection_safety` | 7 configurations, 3 cycles, 2 bad answers (232,359 states) | `OneMethodPerCycle`, `UpAgreesWithSuccess`, `FirstWorkingMethodWins`, `StampBackedByStore`, the inductive invariant, the refinement of the device contract |
| `collection_reachable`, `collection_fallback`, `collection_counter`, `collection_fatal` | one configuration each | violate `UpMeansReachable`, `FallbackWhenUnusable`, `CounterIsDeviceTotal`, `NoAnswerIsFatal` |
| `ssh_session` | 3 commands, two with the same text, 1 timeout (452,814 states) | `CleanUntilTimeout`, `ReadersAccounted`, `ReadersEnd`, the inductive invariant |
| `ssh_late_answer` | the same without prompt-like lines | violates `AnswersAreOwn` |
| `netconf_session` | 5 RPCs, both kinds of server (31,197 states) | `LagAtMostOne`, `CatchesUpForGood`, `NoCallHangs`, `EveryCallReturns`, the inductive invariant |
| `parsers` | listings and tables of 4 lines, 3 parts of an uptime, 7 characters of JSON, 7 tokens of XML (906,795 states) | `ListingReadsSections`, `CutListingIsPrefix`, `CutTableIsLess`, `UptimeInSeconds`, `ObjectFoundIfBalanced`, `NumbersAreLeaves` |

Bounds. Three devices on two workers have two closures running and one waiting;
a cancelled call and the call a waiting tick then starts need two cycles, and
the third puts a complete cycle, with gauges to overwrite, before them. One worker and four devices are the least
with a full channel (two closures) that blocks `Submit` while one runs. Two bad
answers can hit two commands of one method or two methods of one cycle; refused
connections are not bounded. Seven configurations have every script at least
once, first or as a fallback, settings left out of the file, a method name
without provider, a missing credential, and selections that leave out the
commands a method can fail on. The device of `collection_fallback` has the
methods json and ssh and one group, whose four commands all get an answer that is
not JSON. Three commands are enough for a late answer to pass over a
command to the next; the repeated text is that of `show version`, which the
NX-OS scripts send twice. Five RPCs are what a NETCONF collection
sends (one for the system, two for resources, one each for processes and
interfaces), and a session that has caught up has others left. Listings
of four lines have two interfaces with a counter each, or one between two
others; seven tokens are a nested element beside a leaf, or two leaves after
the lost beginning of a reply; seven characters are an object with a brace in a
string. `MaxCycles`, `MaxFaults`, `MaxGiveUps`, `N` of NETCONFSession and the
lengths `MaxLines`, `MaxParts`, `MaxTokens`, `MaxCharacters` are the bounds in
guards.

Fairness. `scheduler_live` assumes that a goroutine that can run does (weak
fairness of the loop and of each worker), that the ticker keeps ticking, and
that Go's select, which picks at random among the ready channels, picks the
cancelled context in the end (strong fairness of `SelectDone`). Nothing assumes
that main cancels. A worker inside a device in `Hanging` has no fairness: that is
what a read without deadline means. `ssh_session` assumes that `Execute` goes on
(its timer fires) and that reads on a closed channel return; a device may stall
for ever. `netconf_session` assumes that the caller's goroutine runs and that the
server sends what it was asked for unless the session is closed; without the
latter nothing bounds a read, which is what `scheduler_hung` shows. A bare
server is outside of `NoCallHangs` and `EveryCallReturns`: there a call can hang.

No run turns deadlock checking off. The steps `Quiet`, `Bounded`, `Terminated`
and `Rests` are the states in which the system may rest.

## 4. What the violations say

Each is a place where the code does not do what the repository says;
`PROJECT.json` has the lines.

1. *One silent device stops all* (`scheduler_hung`): NETCONF reads have no
   deadline, `Wait` has no bound.
2. *Up without an answer* (`collection_reachable`): RESTCONF's interface errors
   are only logged.
3. *No fallback on unusable answers* (`collection_fallback`): text that is not
   JSON is data with a nil error. A device with the methods json and ssh that
   answers every `| json` command so ends in success by json, with zeros.
4. *Counters of totals* (`collection_counter`): `Add` of an absolute total.
5. *A fatal answer* (`collection_fatal`): a parser's index beyond its submatches,
   in a goroutine that does not recover. The unchecked type assertions of the
   JSON provider are other ways to the same end; the run has an SSH device.
6. *Another command's output* (`ssh_late_answer`): the reader a timeout leaves
   behind.

## 5. What is proved

The theorems hold for every value of the constants that the assumptions allow: a
finite nonempty set of workers, any number of devices, configurations, cycles,
faults, commands, timeouts and RPCs, and answers of every length. No proof depends on how large a bound is.

**Scheduler.** `NoConcurrentCollection` alone is not inductive: why no closure of
an earlier call is in flight when a call submits is a matter of how that earlier
call ended. The invariant `IInv` of `SchedulerInv` has these parts:

* `PoolInv`: types, the stage of each worker fits what it runs, and `wg` counts
  the closures in flight. `Wait` returning then means an empty pool, and `Wait`
  or a full channel holding the loop up means one that is not
  (`NeverWaitsForNothing`, the absence of a deadlock between loop and pool for
  any number of workers). Together with types it also gives `HeldUpRunsDown`:
  `Remaining`, six for each closure in the channel and the steps before each
  worker's stage for the one it runs, is a natural number that every step lowers
  while the loop is held up. So a hold-up ends after at most that many steps, or
  everyone who could act has stopped: a device that never answers.
* `LoopInv`: where the loop's position and the ticker can be.
* `InFlightInv` with `Tame`: a closure in flight is one of the current call, for
  a device the loop has passed, or one of the call that the cancellation cut
  short, after which no further call can submit past its first check.
* `ResultsInv`, `GaugesInv`: for a device with nothing pending the map, the
  success gauge and the timestamp agree; for one whose closure is under way they
  agree as far as it has come. Only in a call begun after the cancellation
  (`Barren`), which submits nothing, can a timestamp of its time belong to a
  closure of another.
* `LateInv`: what was sent after the cancellation.

From it follow `Invariant`, the theorem of each safety property, the action
property `StampsOnlySuccessHolds` (whoever is about to stamp has set the success
gauge, and no other closure of that device is in flight) and `ImplementsCycleContract`: `Record` of the
current call maps to `Finish`, `Report` to `End`, `CheckAborts` to `Cut`, and
the rest to stutters. The proof has one step per action.

**SSHSession.** `CleanUntilTimeout` rests on `IInv` of `SSHSessionInv`: as long as
nothing has gone wrong, the pieces a reader holds are exactly those from its
command's echo (from 0 for the first) to the position of the stream, so the
prompt it matches is its own (`MatchIsOwnPrompt`): no earlier prompt can follow
the echo, and when a command repeats an earlier text that echo has been taken
by its own reader. `StrangerMeansDisturbed` says that a reader of another
command exists only after a timeout. `ReadersAccounted` comes from `ProgressInv`.

**Collection.** `OneMethodPerCycle` is a matter of how the scripts are laid out:
in each, a command whose failure fails the method comes before every command
that writes. `FailsFirst` says so of a script as a sequence, and `JSONGood`,
`RESTCONFGood`, `NETCONFGood` and `SSHGood` prove it of the six, row by row. The actions that run a row are then
summed up as two steps, `Fails` and `Advance` (`StepOutline`), so that each part
of `IInv` has one step per entry of `Outline`: `PlaceInv` (where the loop is:
`failed` are the methods before `m`), `WrittenInv` (a method that can still fail
has written nothing), `StatusInv` and `StoreInv` (how far the gauges and the store
have come at each place). A script with a fallible row behind one that writes
has no `...Good` lemma.

`ImplementsDeviceContract` goes over the same outline: `Begin` maps to the
contract's `Begin` or `Refuse`, `Fails` to `Fallback` (with `WrittenBy` empty, by
`WrittenInv`), `Advance` to `Write` or a stutter, `UpdateStore` and `SetDown` to
`Succeed` and `Fail`, the rest to stutters, for which `StatusInv` says that what
was taken for set has the value that is set.

**NETCONFSession.** `LagAtMostOne` rests on where a reader may start (`FromInv`):
each call takes the message before its own to the end before it returns, so the
next starts no earlier than the message after; and a marker that a dropped
buffer has cut in two is none (`Holds`). `SyncInv` says that a session in sync
has no piece left between two calls, hence `CatchesUpForGood`. `NoCallHangs`
comes from `FromInv`: a reader starts no later than its own reply does, so it
gets that reply's marker whole.

**Parsers.** The theorems are about answers of every length, whatever the bounds,
sizes and element names. `TypeOK` of `ParsersProofs` says what the answers
consist of, and `WellFormed` that every text of a reply stands between the tags
of one element; both are invariants of how answers grow, an assumption about the
input, and only lemmas here. What the code computes
from an answer is recursion over it:

* The induction theorems of the library take an operator as a parameter and
  cannot be used. `RecursionLemmas` has induction over an interval and over the
  subsets of a finite set with the property given as a set (`IntervalInduction`,
  `SubsetInduction`), both from the library's fact that strict inclusion among
  finite subsets is well-founded. From these follow that `Min` and `Max` are what
  they should be, that a recursive definition over an interval defines a function
  (`RecursionDefines`), and that the library's sum over a set, which takes
  elements by CHOOSE, exists, is unique, may take the elements in any order and
  grows with the set (`SumExists`, `SumIsUnique`, `SumTakesAny`, `SumGrows`).
* `NumbersAreLeaves`: by induction over the rounds of `parseXMLFields`, all that
  is in the result so far are leaves (`LeavesRead`). A pair whose value is a
  number has one token between the first ">" of what remains, which must end a
  tag, and a closing tag,
  and `WellFormed` makes that token's neighbours the tags of one element
  (`ReadPairFindsLeaf`).
* `ObjectFoundIfBalanced`: the loop's depth is the nesting of the object plus the
  excess of its strings, at every character (`DepthIsNestingAndExcess`), and the
  nesting is positive up to the object's end (`NestingIsPositive`).
* `ListingReadsSections`, `CutListingIsPrefix`: what a block is when the next
  header is the next match (`BlockProperties`), that the last setter of a field
  wins (`LastSetter`), and that a line at the end is in no block but the last
  (`LineLeavesBlock`).
* `UptimeInSeconds`: each unit falls into its own case in each dialect
  (`UnitsAreRead`), and equal weights have equal sums. `CutTableIsLess`: sums,
  maxima and counts grow with the answer (`UptimeGrows`, `FlashGrows`,
  `VLANsGrow`); for the file systems, a utilization is a percentage
  (`UtilizationsProperties`).

Only model-checked: the liveness properties `KeepsCollecting`,
`StopsAfterCancel`, `ReadersEnd` and `EveryCallReturns` (fairness and ENABLED are
beyond the prover; `NeverWaitsForNothing`, `HeldUpRunsDown` and `NoCallHangs` are
the part of them that is safety: a worker can always act, and acting leads
somewhere), and that the violations are reachable.

## 6. Not modelled

* YAML, flags, HTTP and TLS, the text of commands and RPCs, logging, debug
  capture, and the code nothing calls (`capabilities`, `collector/*`,
  `provider/types.go`, `cache.Get`, `worker.Stop`).
* The scrape as an action, and series per label value: the model keeps one value
  per family, so it does not show series that are never removed. Properties of
  the registry are invariants: they hold whenever a scrape comes.
* Duplicate device names, a negative worker count, an interval that `NewTicker`
  rejects; the last two end the program as it starts.
* Parsers that take single matches (version, inventory, CPU, environment, STP,
  MAC, ARP, routes, NTP), field readers of the JSON provider, `xml.Unmarshal`;
  in Collection each is an answer with or without the fields looked for.
* What the selection promises is no property of any run, and on two points the
  code disagrees with `metric.example.yaml`. Its lines 3-4 say "All metric
  categories are enabled by default. Set any category to false to disable its
  collection": `setDefaults` (`config.go:113`) turns a selection with no group
  into one with all, so a file with every category set to false collects
  everything, and so does a file that only sets one to false, since the groups it
  leaves out are false as well. Its lines 47-49 list the device uptime under system maintenance,
  while every script writes it with the hardware health (`scheduler.go:172`), so
  setting that group to false takes the uptime away and setting the documented one
  to false does not. The first is `SelectionOr`, the second the rows of the
  scripts, as the code has them; each is seen by reading one definition, so no
  run is spent on it.
* A ">" inside the text of a NETCONF reply, and a reply cut inside a tag.
* The text of the RPC that `getSubtree` sends, whose `get` element is never
  closed. What a server makes of it is an answer like any other.
* Panics other than those of `ParseNXOSInterfaces` and of the unchecked type
  assertions of the JSON provider.

## 7. Plan

The order is that of importance; the first eight are done.

1. Scheduler and pool, their contract and its proof.
2. Collection of a device with its scripts.
3. The SSH session and its proof.
4. The NETCONF session and its proof.
5. Proofs about Collection, for any number of cycles.
6. Configuration, applied to what is collected.
7. Parsers: interface listings, tables, braces, XML fields.
8. Proofs about the parsers, for answers of every length; the device contract.
9. Scrape and shutdown: a scrape that interleaves with the setters, the series
   of device info, main leaving with closures in flight.
10. The readers of single matches, where a match can be another's text.
