# TLA+ verification of go-joker

go-joker is an interpreter for a Lisp close to Clojure, written in Go. Evaluation
itself is sequential; what makes the program hard to get right is that several
goroutines evaluate code at once - `future`, `pmap`, `go` blocks, agents, channels,
delays, pods, the notebook and HTTP servers - over state shared between them. This
directory holds TLA+ models of that concurrent runtime, the TLC configurations that
check them, and proofs of their central properties with TLAPS.

Paths below are relative to the repository; `kernel` stands for
`core/runtime_kernel.go`, the file of some 21 000 lines that holds most of the
runtime and is divided by `// ---- name.go ----` headers.

Contents: [inventory](#1-inventory) - [modules](#2-modules) - [models and
code](#3-models-and-code) - [runs](#4-runs) - [disagreements](#5-disagreements-between-code-and-documents) -
[fairness](#6-fairness) - [proofs](#7-proofs) - [limits](#8-what-is-not-shown) -
[plan](#9-plan).

## 1. Inventory

The first nine components are modelled, wholly or in part. The hazards of each, with the
line where each bites, are listed in `PROJECT.json`.

| Component | State | Operations | Hard behaviour | What makes it correct |
|---|---|---|---|---|
| Channels (`core/runtime/channel.go`) | a Go channel, `closeMu`, `isClosed` | `Send`, `Receive`, `Close`, `IsClosed`; `>!`, `<!`, `close!` | `Send` checks the flag and sends later, with a recovered panic in between; close races sends, receives and other closes | the verdict of `Send` is the fate of its value; nothing duplicated or left behind; close is final, runs once and releases everyone |
| `alts!`, `timeout` (kernel 20246, 20404) | none of its own: several channels at once | `procAlts`: an `IsClosed` loop, then `reflect.Select` | a call parked on several channels; close between the loop and the select; mixed puts and takes | one port commits, and the answer names it; a closed put port is refused; `nil` only when drained; a time-out ends it |
| Atoms (`core/runtime/atom.go`, kernel 19165-19310) | value and revision under a mutex; validator and watches in a side table under another | `swap!`, `reset!`, `compare-and-set!`, `set-validator!`, `add-watch`, `remove-watch` | user code runs with no lock held between two critical sections; validator and value change under different locks; watches throw | no lost update, updates are atomic, watches hear of updates and only of them, swaps make progress |
| Agents (`core/runtime/agent.go`) | a bounded queue, a goroutine, value and error under a mutex | `send`, `await`, deref, `agent-error` | an action runs with the mutex held and may call agents; actions throw or panic; `await` rides the queue | the value is the history of the successful actions in order; `await` is a barrier; every call returns |
| Delays (`core/types/delay.go`) | value, two flags, and a channel closed and made anew at each failure | `force`, `realized?` | waiters of a force that throws must run the body themselves; `realized?` reads without the mutex | one body at a time, one value, no double close, waiters are released |
| Goroutine states, `pmap`, `pcalls`, futures (`core/runtime/goroutine.go`, `concurrency_helpers.go`) | registry of interpreter states by goroutine, an atomic counter as fast path; the two channels of `RunParallel` | register, unregister, look up; run in parallel and join | lookups without the lock while others come and go; order of deferred calls; panics in workers | a goroutine finds its own state; a join returns, and leaves nothing running, unwritten or unreported |
| Pods (`std/pods`) | the pending table, a bounded channel per request, a router goroutine, the pipes of a process | load, invoke with timeout, unregister, shutdown | time-out against last answer; a pod that dies or falls silent; one router for all requests | callers get their own answers and all of them, always return, leave nothing pending; the router moves on |
| core.async combinators (kernel 20584-21172) | a goroutine each; maps of taps, topics and subscribers under a mutex | `pipe`, `merge`, `split`, `map<`, `filter<`, `onto-chan`, `mult`/`tap`, `pub`/`sub`, `put!`, `take!` | slow or closed consumers hold back a distributor; taps and subscribers change while a value is being distributed; ends of several sources | who is connected gets the whole stream; who left hears no more; the end reaches all; only a channel nobody takes from stops it |
| Notebook server (`internal/notebook/notebook.go`) | cells and their dependencies under `nbMu`; a file; snapshots; an evaluation lock | edit, evaluate, save, snapshot, restore, restart | a save that is interrupted between its copy and its write; a restore that writes the file before it takes the lock; snapshots named by the second; names and ids that are not unique | what was saved last can be recovered; memory and file agree when nothing is under way; requests are answered; edits are local; cycles are found and dependents covered |
| go blocks (kernel 18590) | a result channel of capacity one | `go` | a body that panics with something else than an Error | the channel is closed, with one value at most |
| Promises and futures (`core/runtime/pending.go`) | a value, a flag, a channel | deliver, deref with time-out, `realized?` | two delivers; time-out against deliver | one value for ever |
| HTTP, SSE, WebSocket (`std/http`) | servers, streams, hubs | start, stop, stream, on-open/-message/-close | disconnect against send; handlers that panic | on-close follows on-open; a stream ends when its channel or its client does |
| File watcher (`std/os/watch_native.go`) | a table of files, a channel, a goroutine | watch, cancel | cancel against a send in progress | cancel returns and nothing is sent after |
| Execution tiers (kernel 13700 ff., `core/ir*`, `core/wasm*`) | caches of compiled functions | try a faster tier, fall back | a tier that gives up half way | every effect once, the result of the plain evaluator |
| Tail calls (`core/tail_call_runtime.go`) | the pending call of the trampoline | `recur`, tail calls | nested calls and errors inside a trampoline | the result of plain calls |
| Errors and call stacks (`core/error_frame_runtime.go`) | the frames of an interpreter state | push, pop, clone | frames popped by plain calls, skipped by panics | balanced after a catch |
| Namespaces and vars (kernel 15080-15557) | a table under a read-write lock, mappings, libraries | find, ensure, refer, load | look-ups under two acquisitions of the lock | one namespace per name |
| Protocols, hierarchies (kernel 15613-16900) | dispatch tables, a derivation graph | `extend`, `derive`, `underive` | transitive relations under removal | the graph is what the derivations say |
| Collections, transients (`core/types`) | immutable but for transients | `conj`, `assoc`, `persistent!` | edits after `persistent!`, sharing | the persistent value does not change |
| Sequences, transducers | lazily realised cells | `seq`, `reduce`, chunking | realisation by several goroutines | each cell realised to one value |
| Reader | none | text to forms | none that interleaves | round trip |
| Logging, std wrappers, command line, generated data | little or none | - | - | - |

How they interact: everything that evaluates code first registers an interpreter
state for its goroutine (goroutine states); `go`, futures, `pmap` and all combinators
do so, and communicate through channels. `alts!` bypasses the methods of `Channel`
and hands the underlying Go channels to `reflect.Select`. Agents and atoms call
user functions, which may use any of the others. Pods and the HTTP server call
back into the interpreter from goroutines of their own. The watcher and `timeout`
are producers on ordinary channels.

## 2. Modules

| Module | Role |
|---|---|
| `ChannelSpec`, `AtomSpec` | abstract specifications: what a channel and an atom promise, with no lock, parked sender, retry or side table |
| `Channel` | one channel, with its refinement of `ChannelSpec` |
| `Alts` | several channels, `alts!`, `>!`, `<!`, close, `timeout`: composes channels, with `Close` as the one visible step that `Channel` shows it to be |
| `Atom` | one atom with validator and watches, with its refinement of `AtomSpec` |
| `Agent` | several agents that may use one another |
| `Delay` | one delay |
| `Parallel` | the registry of goroutine states, one `RunParallel`, futures and combinator goroutines around it |
| `Pods` | one pod: its callers, its router and the external process |
| `Combinators` | one combinator of any kind, its source and its consumers, over channels as `Channel` shows them to be |
| `Notebook` | the requests of the notebook server over memory, file and snapshots, with the clients they wait for, crashes, and reads and writes that fail |
| `NotebookCells` | the list of cells under the edits that `Notebook` treats as atomic sections |
| `NotebookDeps` | what is computed from the names and dependencies of these cells: cycles, and the cells downstream of a name |
| `MCAlts`, `MCAtom`, `MCAgent`, `MCPods`, `MCCombinators`, `MCNotebook`, `MCNotebookCells` | operators for TLC: menus of calls, capacities, topics, handlers; and the one property of a violation run that belongs to no model. `Channel`, `Delay` and `Parallel` need none |
| `ChannelProofs`, `AltsProofs`, `AtomProofs`, `AgentProofs`, `DelayParallelProofs`, `PodsProofs`, `CombinatorsProofs`, `NotebookProofs` | theorems and their proofs, by component. `DelayParallelProofs` and `NotebookProofs` extend two models each, so `Init`, `Next`, `Spec` and `TypeOK` carry the prefix `Delay` in `Delay` and `Cells` in `NotebookCells` |

Conventions. Definitions marked `Mutant of X` stand just before `X` and are never
part of a specification: they are the plausible bugs against which each property is
tested (`PROJECT.json`, "mutants"). Variables commented as history (`delivered`,
`log`, `sent`, `effect`, `since`, ...) are written and never read by actions.
`CHECK_DEADLOCK FALSE` appears in every configuration, with its reason: calls are
finite in number and the program stops after them; that callers do not get stuck
before is said by the liveness properties.

## 3. Models and code

`PROJECT.json`, "map", gives the lines of every definition. In short:

**Channel.** One call of `Send` per message. `SendCheck` is the test of `isClosed`
under `closeMu`; `SendPut`/`SendPanics` are the Go send that follows with no lock
held, `recover` included. The Go channel is `queue`: its first `Cap` entries are
buffered, the others belong to parked senders. `CloseFlag` and `CloseChan` are the
two writes of `Close` under the mutex; a `Close` between them is what `Send` can
overtake. `ReceiveDone` is the cancellation branch of `Receive`'s select.

**Alts.** `Begin` chooses the ports, `CheckPort` is one turn of the `IsClosed` loop,
the `Select...` actions are the outcomes of one `reflect.Select`: which case is
ready, what it does to a parked partner, parking when none is ready. Plain puts and
takes are calls with a single port; they differ from `alts!` in what a put on a closed
channel becomes (`PutOnClosed`): `Channel.Send` recovers, `procAlts` does not. A put may carry the
error of a `FutureResult`, which its taker raises (`Delivery`).
`Close` is one action, since the channel model shows that only `close(ch)` is visible.

**Atom.** Every critical section of the atom's mutex is an action (`SwapRead`,
`SwapCommit`, `ResetCommit`, `CasRead`, `CasCommit`), every one of the side table
is another (`Validate`, `Snapshot`, `ValidatorTest`/`ValidatorInstall`, `AddWatch`,
`RemoveWatch`), and what runs in between is user code: a swap function is a function
of the value that may throw, a validator is a set of values, a watch may throw.

**Agent.** `stage` is the place of an agent's goroutine in `processLoop`: idle, a job
taken, the mutex held, inside a call made by the action. `Send` and `AwaitSend` wait
for room in the queue; the action of a job succeeds, throws an Error, panics, or
makes one call of its own first; an `await` is a sentinel job.

**Delay.** `Enter` is the critical section at the top of `Force`'s loop. `Publish` is
the one after a success. After a failure, `FailClose` and `FailRenew` are the close
and the replacement of `done`, two steps with the mutex held, because
`IsRealized` looks without it. That read is a data race: the prober sees the current
channel or any earlier one.

**Parallel.** `Register`/`Unregister` are the locked updates of the registry, with its
atomic counter `spawned`; `LookFast` and `LookSlow` are the two halves of
`currentGRT`. A worker of `RunParallel` passes through body, cleanup, panic report
and done report, in the order its deferred calls run; `Collect` and `Answer` are the
caller. Futures unregister after completion; combinator goroutines never do.

**Pods.** The process is external: it may say anything of its menu about a request it
read, in any order (`Say`), fall mute, by closing its stdout or by writing what does not decode
(`Mute`: either ends the router while the pod lives and is written to), and die (`Die`). `RouterRead` looks a message's request up and deletes
the entry of a last message; `RouterSend` waits for room (and loses the message when
the channel was closed); `RouterClose`, `RouterEnd` close channels. The callers are
`InvokeBegin`, `Request`, `InvokeReceive`, `ReceiveClosed`, `Timeout`, `Unregister`,
and for load-pod `DescribeReceive`, `InstallNamespaces` (which may fail) and `Shutdown`.

**Combinators.** All combinators share one goroutine: receive (`Receive`, `ReceiveEnd`),
choose the channels (`RouteTaps`, `RouteByTopic`), send to one after the other
(`SendTaken`, `SendRefused`), close at the end (`RouteEnd`, `CloseNext`). They differ in
what is wired when they are made (`Wiring`, one operator per combinator), in what they
close (`Ending`), and in the table of a `mult` or a `pub`, which `TapChannel`, `Untap`, `Sub`,
`Unsub` and so on change between any two of these steps. `merge` has two such
goroutines and `MergeClose` waits for both. A channel is what `Channel` shows it to be:
a send ends when the value is taken or the channel is closed, which for a slow channel may
be never. The `close?` of `tap` and `sub` is stored and never read, so the model has none.

**Notebook.** A request takes its locks (`Begin...`, `Enter`, `EnterRead`), waits for the body its
client sends (`Receive`, `Reject`), changes the memory, and then
saves in the steps of `saveCurrent`: `ReadOld`, `OpenSnapshot` and `CopyOld` are
`writeSnapshot`, `Truncate` and `Write` the two halves of `os.WriteFile` in `Save`.
`SnapshotFails` and `SaveFails` are its error paths, from either half; `ReadFails` is the error of
`os.ReadFile` that `writeSnapshot` takes for a file that is not there. `Reply` writes the answer, which
the client has to take; the locks are held until then, but by `/api/save` and a restore not while they
read: these read before they lock. `BeginRestore` enters at
`Truncate` with no lock held, and `LoadRestored` takes `nbMu` only afterwards. A notebook is
the set of changes it holds. `Crash` loses the memory and the requests; the next
process loads the file, or starts anew when it does not decode.

**NotebookCells**, **NotebookDeps.** The edits (`AddCell`, `insertCellAfter`, `deleteCell`, `applyReorder`,
`applySourceUpdate`) on a list of cells with an id, a name or none, and dependencies;
in `NotebookDeps` `DependencyCycles` with its depth-first search in any order of the names, and `Downstream`
with its sweeps, as operators, compared with reachability in every state. Loops are recursive functions of the
number of rounds: the calls of `visit` are `Visit` for one name (`Close` when it is done with it, `Descend` into what it depends
on) and `Walk` over all, the sweeps are `Sweeps`.

## 4. Runs

| Run | States | Shows |
|---|---|---|
| `channel` | 21 357 | three sends, two receivers (one cancellable), two closes, capacity one |
| `alts` | 280 570 | three calls out of seven kinds, one put with an error, over an unbuffered, a buffered and a time-out channel |
| `alts_panic` | violation | see section 5 |
| `atom` | 606 367 | three calls out of eight kinds, two watches, one of them throwing |
| `agent` | 518 283 | two clients, two calls each, two agents, queue of two |
| `delay` | ~15 000 | three forces, two probes, every combination of outcomes |
| `parallel` | 57 888 | three workers, one future, one combinator goroutine |
| `pods` | 410 866 | load-pod and two invokes, four messages, channel of one |
| `combinators` | 657 395 | thirteen kinds of combinator, three channels, three values, three changes |
| `notebook` | 725 057 | three requests out of five kinds, two seconds, one crash, one failing read or write |
| `notebook_restore` | violation | see section 5 |
| `notebook_cells` | 136 501 | all lists of up to three cells with three names |

Properties, by module (the formula and a statement in words stand together in the
module; each has a mutant that TLC refutes):

* `Channel`: `CloseRunsOnce`, `VerdictMatchesFate`, `KeepsPromise` (refinement of
  `ChannelSpec`), `CloseReleases` (liveness).
* `Alts`: `OneCommit`, `ClosedIsRefused` (action property), `TimeoutReturns` (liveness).
* `Atom`: `OnlyRacesInvalidate`, `WatchesHearUpdates`, `KeepsPromise` (refinement of
  `AtomSpec`), `CallsReturn` (liveness, retries included).
* `Agent`: `ValueIsHistory`, `AwaitIsBarrier` (action property), `CallsReturn` (liveness).
* `Delay`: `OneBody`, `DoneIsOpen`, `OneValue`, `RealizedOnceProduced`, `ForcesEnd`
  (liveness).
* `Parallel`: `StateIsOwn`, `JoinIsComplete`, `JoinReturns` (liveness).
* `Pods`: `AnswersAreOwn`, `ReturnedLeavesNothing`, `SuccessMeansDone`,
  `InvokeReturns` and `RouterMoves` (liveness).
* `Combinators`: `EachGetsItsStream`, `NothingAfterLeaving`, `OnlySlowOnesStopIt` and
  `EndIsHeard` (liveness).
* `Notebook`: `LastSavedIsKept`, `FileIsMemory`, `RequestsAnswered` (liveness).
* `NotebookCells`: `EditsAreLocal` (action property); `NotebookDeps`: `CyclesAreFound`,
  `DownstreamIsReach`, in the same run.

Every module has one `TypeOK`. It is an invariant of the runs of `Alts`, `Combinators` and
`NotebookCells`, where it includes something the code could get wrong (a buffer within its
capacity, no channel twice among the taps, no id twice); of the others it is only a theorem. `NoDuplicates`, `ClosedMeansDrained` and `CloseIsFinal` of `Channel`
and `NoLostUpdate` of `Atom` are theorems too; in the runs they follow from `KeepsPromise`. Theorems only are
also `NoneForgotten` (`Pods`), `NoneWaitsInVain` (`Delay`), `ReportsAreOwed` (`Parallel`), `AwaitIsOwed` (`Agent`),
`LocksComeFree` (`Notebook`), `ParkedForAReason` (`Channel`), `UpdatesOnce` and `RetriesArePaid` (`Atom`) and `NoneMissesTheEnd`
(`Combinators`): what the liveness properties of these modules rest on.

### Bounds

* *Channel*: with capacity one and three sends there is one buffered value, one
  parked sender and one still on its way, so every mixture of "buffered / parked /
  between check and put" meets a close. The proofs cover every capacity, zero too.
* *Alts*: capacities zero and one; three calls are a parked one, the one that wakes
  it and one that competes. Time-out channels and ordinary ones are closed by the
  same action; only the former must be.
* *Atom*: values 0..2 with an increment modulo 3 let a value come back (the case a
  comparison of values instead of revisions would miss); three calls are two that race and
  one that interferes with both. The proofs cover every number of calls and values.
* *Agent*: a queue of two instead of 256 makes the full queue reachable; calls per
  client are bounded by `Budget` = 2. The menu of the passing run has no cycle of waits (an
  action that waits for its own agent): those deadlock in the code.
* *Delay*, *Parallel*: no numeric bound; each goroutine forces, or runs, once. The
  proofs cover every number of them.
* *Pods*: a channel of one instead of eight makes the full channel reachable with
  two messages; `MaxSaid` = 4 lets one invoke be answered in full while the other's
  channel is full and a message of it is in the router's hand.

* *Combinators*: three values are one before, one during and one after a change of the
  table; three changes are joining, leaving and joining again. Two of the three channels
  are slow, one of them may be closed by its consumer, so a distributor meets every order of
  slow, closed and willing channels. `Alt` is slow and `Out` is not: a `split` can stop on one side.
* *Notebook*: three requests are a save, one that follows it in the same or another
  second, and a restore or a second save that overlaps either. `Handlers` gives each request the kinds it
  may call: one evaluates or saves, one does anything but evaluate, one evaluates, saves or restores, so that every
  kind meets a save, an evaluation and a restore. `Seconds` = 1 gives two
  names of snapshots, so one can be reused; `Crashes` = 1 and `Faults` = 1 let a read or write that fails be
  followed by a crash. One request may evaluate cells that never end, and one may have a client that stalls. The proofs cover any number of all these.
* *NotebookCells*: three cells are enough for a cycle of three, a self-cycle beside
  another, two cells of one name, and a sweep that has to be repeated. An id above
  `MaxCells` is not given out, which cuts off nothing but longer lives of the same lists.

No run uses symmetry, because nearly all of them check liveness.

## 5. Disagreements between code and documents

| Run | Property | The code | The document |
|---|---|---|---|
| `alts_panic` | `PutsNeverPanic` | a channel closed between the `IsClosed` loop and `reflect.Select`, or while the call is parked, makes `alts!` panic | kernel 20446: a put on a closed channel returns false; `docs/WEB_RUNTIME_AND_NAMESPACES.md:203` |
| `notebook_restore` | `OverwrittenIsKept` | a restore overwrites the notebook without a snapshot of it | `docs/NOTEBOOKS.md:40`: before overwriting an existing notebook, the server writes a recovery snapshot |

Each counterexample is a behaviour of the same module whose other properties hold.

Other places where the code does not do what a document says, which the models follow
and no run is about:

* `Close` wakes parked senders, whose values are lost and whose verdict is false; the
  docstring of `close!` (`core/data/core.joke:4521`) says blocked puts remain blocked until a taker
  releases them. `CloseReleases` and `CloseOnce` of `ChannelSpec` state what the code does.
* Of the cells that depend on a name, `/api/evaluate-downstream` evaluates one of each name: `Downstream`
  (`internal/notebook/notebook.go:1469`) passes over a cell whose name it has seen, and a cell without a name, as every cell is that
  `/api/cell` makes, has the empty one. `docs/NOTEBOOKS.md:277` says it is for evaluating the cells that depend on the named
  cell, of which two without a name are an ordinary case. `DownstreamIsReach` demands of dependents with a name
  of their own that they be evaluated, and of the others only that what is evaluated be a dependent.
* `writeSnapshot` takes an error of reading the notebook for a notebook that is not there
  (`internal/notebook/notebook.go:1034`): the save goes on and overwrites it with no snapshot, where `docs/NOTEBOOKS.md:40` says that one
  is written before. If that save is interrupted the last one is lost; `LastSavedIsKept` names this exception (`ReadFails`, `Wipe`).
* `send` blocks while the queue of the agent is full, for ever when the sender is an action
  of that agent; the comment at kernel 20517 says it returns immediately.
* `realized?` answers true in the moment a failed force closes `done`; its docstring
  (`core/data/core.joke:4170`) says true if a value has been produced. `RealizedOnceProduced` is the other direction, which holds.
* The goroutines of combinators end without unregistering their interpreter state; the
  comment at kernel 15345 says of `unregisterGoroutineRT` "called once at goroutine exit".
* A `promise-chan` is a plain channel of capacity one: once its value is taken it accepts a
  second one.

## 6. Fairness

The Go scheduler runs every runnable goroutine, and Go's mutexes and channels serve
waiters in the end. Hence weak fairness for each goroutine's next step, taken as a
disjunction of its actions (`CallStep`, `Step`, `ForceStep`, `Advance`, `Router`) so that no
particular outcome of a choice is forced. Beyond that:

* nothing makes a caller call: `Begin`, `ReceiveCall`, the start of a `Send` or
  `Close`, a client's call carry no fairness;
* the goroutine of `(timeout ms)` wakes from `time.Sleep`, and the timer of a pod's
  invoke fires: fairness of `CloseChannel` on time-out channels and of `Timeout`;
* user code ends: swap functions, watches, validators, actions and bodies are
  finite. For workers of `pmap` this is strong fairness of "the body returns or panics", since
  a body may look up its state any number of times in between;
* a pod promises nothing: `Say`, `Mute` and `Die` are never fair;
* a combinator's source gives a value or closes, and a channel that is not slow takes what
  it is sent; nothing makes a slow channel take or anyone tap, untap or close. That a send to a closed
  channel fails is fair, for slow ones too;
* a handler of the notebook runs on, but not while it evaluates cells that never end, nor while it waits for a client
  that has stalled (`Stuck`). Such waits last for ever in the code: `save-sources`, `reorder` and the evaluations read the body of the
  request with `nbMu` held (`notebook.go:643`, 738, 774, 822, 850), nearly all handlers write their answer under it,
  and the server has no time-outs (`notebook.go:512`). One stalled client of these therefore leaves all other
  requests unanswered, and `RequestsAnswered` excepts the behaviours in which one stays stuck. Requests, crashes, faults and the clock carry
  no fairness.

## 7. Proofs

All proofs hold for every value of the constants under the one named assumption
or two of the module (`ChannelAssumption`, `AtomAssumption`, `AgentAssumption`, ...: kinds and disjointness of the constants, finiteness of the
workers), which TLC evaluates in the runs. The theorems speak of `Spec`, without fairness.

Liveness itself is beyond the prover, but what it rests on is not. For every module with a liveness
property but `Alts` a theorem says that whoever waits or tries again has a reason to: `ParkedForAReason` (`Channel`), `RetriesArePaid` (`Atom`), `AwaitIsOwed` (`Agent`), `NoneWaitsInVain` (`Delay`), `ReportsAreOwed` (`Parallel`), `NoneForgotten`
(`Pods`), `NoneMissesTheEnd` (`Combinators`), `LocksComeFree` (`Notebook`). What is left to fairness, and to TLC, is that
those it waits for move.

**ChannelProofs** - `TypeCorrect`, `CloseOnceCorrect`, `VerdictCorrect`,
`NoDuplicatesCorrect`, `ClosedMeansDrainedCorrect`, `CloseIsFinalCorrect`, `ParkedForAReasonCorrect` and `PromiseKept`,
the refinement of `ChannelSpec`. None of
the properties is inductive alone: the verdict of a send depends on its position in
the queue, so `QueueInv` says that a call is parked exactly when its value is in
the queue behind the first `Cap` entries, that what is received or queued came from a
call that is accepted or parked, and that no closed channel has parked entries. That close
runs once needs `LockInv`: whoever is between the two writes holds the mutex, and the
flag and `close(ch)` differ only while somebody does. `ParkedForAReason` follows from the two. Lemmas on `Append`, `Tail` and `SubSeq` say position by
position what the steps do to the queue. In the refinement the items of the abstract channel are
the entries the buffer holds: a parked `Send` becomes visible when its value moves up, and
of `Close` only `close(ch)` is a step of the abstract channel.

**AltsProofs** - `TypeCorrect`, `OneCommitCorrect`, `ClosedIsRefusedCorrect`, for any channels,
capacities and menus of calls. A parked call may be woken through any of its ports by a step on
another call. That none is parked while one of its ports is ready (`NoLostWakeup`) is what Go promises of its channels; it is part of the
invariant because it is why a parked taker that a
close wakes with `nil` finds the buffer empty (`NilIsEnd`), and why a value put into a buffer
overtakes no parked taker. `Where` says that the value of a call is on a channel exactly
when the call answered that it put it there, `Once` that it is in one place of the buffer or
with one taker; `Fresh`, that who has not returned has no verdict, which two calls that meet need.
One lemma per action; `OneCommit` counts with the library's facts on cardinalities.

**AtomProofs** - `TypeCorrect`, `NoLostUpdateCorrect`, `OnlyRacesInvalidateCorrect`,
`WatchesHearUpdatesCorrect`, `UpdatesOnceCorrect`, `RetriesArePaidCorrect` and `PromiseKept`, the refinement of `AtomSpec` for all instances. `ChainInv` adds to the
chain of changes what a swap knows between read and commit: if the revision is
still the one it read, so is the value. `RaceInv` adds that no noted length
exceeds the log, and what a call about to commit (or a validator about to be
installed) knows of its test. `CallInv` ties the place of a call to its
effect, from which each concrete step maps to one abstract step or a stutter. `HearInv`, for the
watches, follows one call: before its change it told nobody; while it tells, the watches it told and those it
still has to tell include all that were there before its change and stay; a call that returned told all of them,
and one that raised came to a watch that throws. A step that adds no such watch matters to the call that takes it
only (`OthersHear`). `OnceInv` says that the revision is the number of changes and that the log has one change of a call at most, its
effect (`StepChanges`: a step is a commit or leaves the log alone). A swap that starts again finds another revision, hence
a change made since it read; by `UpdatesOnce` that change is not its own, for it has made none.

**DelayParallelProofs**, about Delay - `DelayTypeCorrect`, `OneBodyCorrect`, `DoneIsOpenCorrect`,
`OneValueCorrect`, `RealizedOnceProducedCorrect`. `DelayInv` says who may hold the mutex
between steps, that whoever is in the body raised `forcing` and is alone, that exactly the
channels before `done` are closed, and `done` itself only once a value is delivered or it is
about to be replaced; hence even a stale read by `realized?` finds a closed channel
once a value was produced. `NoneWaitsInVainCorrect` adds `WaitInv`: no force waits for a channel
made after `done`, and while the one it waits for is open, `forcing` is raised, so that somebody is in the body.

**DelayParallelProofs**, about Parallel - `TypeCorrect`, `StateIsOwnCorrect`, `JoinIsCompleteCorrect`, `ReportsAreOwedCorrect`.
`IInv` counts: the registry's counter is the cardinality of the registry (so a
registered goroutine never meets a zero counter), collected plus waiting reports are
the exited workers, reported panics are the failed workers past their report. When
as many reports as workers were collected, all have exited (`AllExited`), and
conversely a worker that runs keeps the caller waiting (`Waits`), which is why no
failure can come after the answer, and why `RunParallel` is always owed the reports it waits for.

**AgentProofs** - `TypeCorrect`, `AwaitIsBarrierCorrect`, `ValueIsHistoryCorrect`, `AwaitIsOwedCorrect`. `Mirror` says that the goroutine's
job in hand and its queue are, entry by entry, the end of what was ever sent to the agent;
so the place of a job in that history tells whether it is over. `Pending` says that a sentinel
which has not been run is the one its caller waits for, and `Signalled` that whoever was
signalled has everything before its mark behind it. `Owed`, for `AwaitIsOwed`, is the converse: the sentinel of an await
stands right behind its mark in what was sent, and until it has been signalled it is not over. `Types` bounds the queue by its capacity.
`ValueIsHistory` compares value and error with a filter of the whole history, written as the recursive function
`Picked`; `Made` states it of the jobs that are done, which are the first ever sent, and `Acts` says which
actions may be making a call. That the filter grows by what is done
next (`PickedAppend`) is an induction over its length, which is made with sets: a set of naturals that is
not empty has a least element (`LeastNat`), which the library's theorem that the proper subsets of finite sets are
well founded gives.

**PodsProofs** - `TypeCorrect`, `ReturnedLeavesNothingCorrect`, `SuccessMeansDoneCorrect`, `AnswersAreOwnCorrect`,
`NoneForgottenCorrect`.
`Order`: the pod speaks only of requests that were made, and invokes follow a load that
succeeded. `Entries`: a channel that is closed, or that the router is about to close,
has no entry in the table. `Success`: while an invoke waits it has met no error, and if its channel
is closed, a last message came last or the router has ended. `FlowInv`, for `AnswersAreOwn`: what the pod said
about a request begins with what came to its caller or its channel; while the channel is open, what the
router holds for it comes next; and while the entry is in the table, the rest is exactly what is still unread
about it in the pipe (`About`: the places of its messages among all others). `NoneForgotten` is inductive with these:
an entry leaves the table only with a message in the router's hand that is the last one, or for good with its channel closed.

**CombinatorsProofs** - `TypeCorrect`, `EachGetsItsStreamCorrect`, `NothingAfterLeavingCorrect`, `NoneMissesTheEndCorrect`, for all
combinators at once: of their `Wiring` the proof uses that nobody is wired twice, and the other cases by kind are
those of the actions. The assumption `KindsAssumption` says that `Kinds` are combinators there are.
`EachGetsItsStream` speaks of a receiver's whole history, so it needs `Delivered` (what a channel got was received
before what the distributor has in hand for it, hence the order, and no repetition), `Hands` (of the channels a
value has still to go to, those that left did so when it was already received; none is twice in that list but for
`pub`), `Tables` (who asked is who is in the table, for all but `pub` once) and `Open` (before the end of the source only
consumers close channels, so nobody else is refused). `Due` is the claim of one channel to one value, `Stream`
that every claim is met or under way. `NothingAfterLeaving` is inductive with these, and so is `NoneMissesTheEnd`: who leaves asks no more, and who comes back after the end has a later mark.

**NotebookProofs**, about Notebook - `TypeCorrect`, `LastSavedIsKeptCorrect`, `FileIsMemoryCorrect`, `LocksComeFreeCorrect`.
`LocksHeld` says which places of a request hold which lock, for writing or for reading, hence that at most one request is
between `Enter` and its answer, and none reads then; a restore holds none until it changes the memory. `Copied` says that what the holder
of `nbMu` read stays in the file until it starts the snapshot and is in the snapshot from
`CopyOld` on; `Kept`, that a whole file is what was saved last and that while it is not whole a snapshot
has it, unless a restore or a save that could not read the file wiped it (`spoiled`); `Agree`, that without `drift` memory and file differ only while somebody is on the way from one
to the other. `EvalHeld`, for the other lock, says that it is held exactly while an evaluation is under way; `StepEnds`
goes through the ways a request can end and finds that each gives it back.

**NotebookProofs**, about NotebookCells - `CellsTypeCorrect`, `EditsAreLocalCorrect`. That no id is there
twice is inductive: the next id exceeds the largest one (`NextFacts`), and every edit keeps each cell's id
(`InsertFacts` and `RemoveFacts` say so position by position). A reorder
names as many ids as there are cells and none twice, so it is a permutation: an injection of a finite set
into itself reaches all of it. `EditsAreLocal` compares the lists without one cell; `OthersConcat`, that the
list without a cell is made part by part, shows it for lists that differ in one place.

**NotebookProofs**, about NotebookDeps - `CyclesAreFoundCorrect`, `DownstreamIsReachCorrect`: two algorithms against
their definitions, for every list of cells the edits can make. Each loop is a recursive function; that there is
one with the equations the code suggests (`LoopExists`), and what all its values share (`LoopTypes`), is proved once.
For the sweeps, `Right` says that the names marked so far depend on the given one and that each has one cell, which
every `Mark` keeps; a sweep that changes something adds a name of a cell (`SweepCounts`), so there are no more of them
than cells (`SweepsStop`); and a sweep that changes nothing has marked a set closed under dependence (`StillIsAll`), which holds
all dependents. For the search, a call for `n` with the stack a path to `n` through the names under visit (`Ready`) leaves only true cycles
(`Sound`), and while it has found none everything it has visited depends on visited names only and is free of cycles (`Settled`, `Complete`;
`Done` is what one call promises). The depth the recursion needs is the number of names not under visit, and the induction is on that
number (`WalkDone`). `TourFinds` starts the search from every name, in any order.

## 8. What is not shown

* Only model-checked: all liveness (`CloseReleases`, `TimeoutReturns`, `CallsReturn`, `ForcesEnd`, `JoinReturns`,
  `InvokeReturns`, `RouterMoves`, `OnlySlowOnesStopIt`, `EndIsHeard`, `RequestsAnswered`): liveness under fairness and
  `ENABLED` are beyond the prover. So are the library's induction theorems, which take an operator as a parameter;
  where a proof needs an induction (`Picked`, `Without`, `Others`, the loops of `NotebookDeps`) it is made with least
  elements of sets of naturals or of finite sets.
* Data: values are abstract, `nil` is not distinguished from other values in channels,
  messages of pods are reduced to "error" and "last". Printing, parsing, error texts and
  stack traces are left out.
* The end of the process (a panic no one recovers) is modelled only as an
  outcome where a property is about it (`alts!`).
* Memory leaks (the side table of atoms) and real time. A timer may fire at any
  moment.
* Combinators: `put!`, `take!`, `reduce` and `into`; functions of the user that panic or call
  back into the same `pub` (its mutex is held while it asks for a topic); a `nil` put by `alts!`, which
  every combinator takes for the end of its source.
* Notebook: the EDN format, kinds and outputs of cells, the evaluation itself, the list of snapshots and the status of
  runs (which take no lock of the notebook). Dependencies on the empty name, which a marked cell without a name would meet. Notebooks
  with two cells of one id, which `/api/save` or a file may bring. A save that finds a half-written file copies that half over a snapshot of the
  same second; the history variables `spoiled` and `drift` name the cases `LastSavedIsKept` and
  `FileIsMemory` leave out, and section 5 is about the one a document excludes.
* Pods: every message is read with a decoder of its own (`std/pods/bencode_native.go:38`); the model takes it to read that
  message and nothing behind it, which depends on a library outside the repository. The pipe to the process is never full, although the code writes to it before
  its timer starts; the registry of several pods is not modelled. `RouterMoves` leaves
  out last messages and the description: a last message for a full channel whose
  caller gave up blocks the router, and no document promises otherwise.
* Two steps that the code makes one after the other under a mutex are one in the models where nothing the properties speak of lies between:
  the close of an await's channel and the release of its agent (`Signal`), the value of a delay and the close of `done` (`Publish`).
* `alts!`: that no call sleeps while one of its ports is ready is Go's doing, not `procAlts`'; it is assumed as the semantics of
  `reflect.Select`.
* Agents whose actions wait for each other in a circle deadlock in the code; `CallsReturn` is checked of acyclic uses.
* Delays: `Deliver` and `Await` of `DelayPromise`, which nothing calls; a body that
  forces its own delay waits for itself.
* Components with the status `not_modelled` in `PROJECT.json`, with their reasons:
  wrappers of Go libraries, the reader, generated data and the command line for good,
  the others by the plan below.

## 9. Plan

In order of importance; each step is a module, its run and its mutants.

1. `Promise` with futures and go blocks: one value, time-outs, cancellation.
2. `Tiers`: an abstract program with effects run by tiers that may give up, as a
   refinement of the plain evaluator; tail calls and call frames with it.
3. `Hierarchy` and `Transient`: pure operators against reference definitions over
   bounded inputs; transients as a refinement of persistent values.
4. `Namespaces`, the HTTP streams, the watcher.
5. Proofs: with each of these, starting with `Promise`.

The number of runs is kept small: new modules get one passing run each that merges
safety and liveness, and the narrower violation runs make room where needed.
