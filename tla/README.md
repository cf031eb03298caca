# Verification of the Dirtybird Go miner

TLA+ models, TLC runs and TLAPS proofs for this repository: a CPU miner for
DERO that receives jobs over a websocket (getwork), grinds AstroBWTv3 hashes
on one worker per thread and sends the shares it finds back.

## The system

| Component | State it keeps | Operations | Talks to |
|---|---|---|---|
| shared job state (`internal/miner/state.go`) | blob, jobid, target under `mu`; atomics `epoch`, `active`; counters | `SetJob`, `Job`, `Epoch`, `Active`, `Invalidate` | written by the client's goroutine, read by workers, writer, status and stats |
| workers (`internal/miner/worker.go`) | a job snapshot, a nonce, a local hash count | `Run` | snapshot `State`, send to the submit channel |
| getwork client (`internal/getwork/client.go`) | socket, backoff, counters | `Run`, `connectAndServe`, `discardStaleSubmits`, the writer goroutine | `OnJob`, `OnDisconnect`, `SubmitValid` callbacks; drains the submit channel |
| DNS fallback (`internal/getwork/dns.go`) | none | `resolveHost`, `dialContextDNSFallback` | called by the websocket dialer |
| engine (`pkg/engine/engine.go`) | context, WaitGroup, `done`, hashrate window, log throttle | `Start`, `onJob`, `Stop`, `Stats`, `sampleLoop` | owns state, client and workers |
| CLI (`main.go`, `status.go`, `bench.go`, `selftest.go`) | options, status window | `resolve`, `run`, `statusLoop`, setup, benchmarks | the same parts as the engine, without a join at exit |
| config (`internal/config`) | config.json | `Load`, `Save` | read by the CLI at start, written by setup |
| console (`internal/console`) | the live row and its mutex | `Logf`, `Status` | every goroutine that logs |
| affinity (`internal/miner/affinity_*.go`) | none | `PinOrder`, `linuxPinOrder`, `pCoreFirstOrder` | used once per worker |
| difficulty (`internal/miner/difficulty.go`) | none | `ComputeTarget`, `MeetsTarget` | `SetJob`, workers |
| AstroBWTv3 (`internal/astrobwt`) | per-worker scratch | `Hash`, `HashPair`, the v114 descriptor suffix array, SAIS, batched SHA-256 | workers |
| reference hash (`internal/refpow`) | none | `AstroBWTv3` | tests of `internal/astrobwt` |
| test server (`pkg/fakegetwork`) | connections, submissions, `closed` | `Start`, `Close`, `handle` | tests of engine and embedding hosts |
| benchmark daemon (`tools/fakegetwork`) | jobs sent, current job per connection | `handle` | benchmarking |
| scripts, packaging, CI | none | shell, PowerShell, YAML | not part of the program |

### What is hard

* **Interleavings.** `epoch` and `active` are read without the lock that guards
  the job; the check before a submit, the channel send, the writer's check and
  the socket write are four separate steps; a session can end, redial and
  deliver new work between any two of them.
* **Failure.** The link can drop silently, a write can time out, the daemon can
  send frames that are not jobs, or a version this miner cannot mine.
* **Ordering.** Shares of several workers and several jobs share one channel.
* **Termination.** `Stop` waits for goroutines that block in a read, a select, a
  timer or a sleep; the reader waits for the writer.
* **Limits.** The channel has 16 slots; counters are flushed in batches of 16.

## Modules

| Module | Models |
|---|---|
| `MinerState` | `State`: `SetJob` and `Invalidate` as the steps an unlocked reader can tell apart, `Job()` |
| `Worker` | `Run`, one process per thread, single and pair mode, and the submit channel |
| `GetworkClient` | `Client.Run`, `connectAndServe` (the reader) and the writer goroutine, with the callbacks of the engine |
| `Engine` | the composition: workers, client, writer, the environment, `Stop` and `done`; its properties and its inductive invariant |
| `ShareRelay` | the abstract promise to the daemon, which `Engine` implements |
| `EngineProofs` | the theorems about `Engine` |
| `Induction` | what the proofs need of natural numbers, finite sums, division and sequences: induction by least counterexample, `SumChanges`, and that the algorithms of `Sorting` sort |
| `MCEngine` | the TLC instance: what the server may push, thread symmetry |
| `EngineStats` | `Engine.Stats`, `running`, `sampleLoop` and the hashrate window, against the stores of `SetJob`, the link and the end of the goroutines |
| `EngineStatsProofs` | the theorems about `EngineStats` |
| `StatusRow` | the live row of the CLI: `statusLoop`, `throttledLogf`, `Console.Logf` and `Console.Status`, against the client's log lines |
| `HostDial` | `resolveHost` and `dialContextDNSFallback`, in seconds of the handshake's deadline |
| `HostDialProofs` | the theorems about `HostDial` |
| `FakeGetwork` | the test server: handlers, readers and concurrent `Close` calls |
| `FakeGetworkProofs` | the theorems about `FakeGetwork` |
| `BenchDaemon` | the benchmark daemon's handler, its reader and the counters they share |
| `BenchDaemonProofs` | the theorems about `BenchDaemon` |
| `RefOps` | the 256 operations of the reference hash's switch (`internal/refpow`), and its inner loop |
| `BranchyOps` | the same operations as the miner's switch writes them |
| `PureOps` | the miner's generated kernel (`pureop_gen.go`) and the rule of its generator |
| `Lut` | package initialisation: which operation fills which row of the tables; the inner loop that uses them, and what it is compared with |
| `Difficulty` | `ComputeTarget` and `MeetsTarget`, in any base and number of digits |
| `Affinity` | the orders in which CPUs are given to workers, on the three platforms |
| `Launch` | from `main` to the first judged hash: settings, self-test, pinning, first job; `--setup` as a second process; the kernel taking CPUs away. Extends `Affinity` and `Difficulty` |
| `Startup` | the composition of `Lut` and `Launch`: package initialisation, then `main`; the properties of the tables |
| `MCLaunch` | the TLC instance of `Startup`: arguments, files, machines, the bytes and windows the tables are compared on |
| `LaunchProofs` | the theorems about `Startup` and its parts: `Launch`, `Difficulty`, `Affinity`, `Lut` |
| `BranchyStage` | the loop of the hash, the template markers it records and the group flags built from them |
| `Sorting` | the algorithms it sorts by (insertion, heap, merging), with the comparison as a set of pairs |
| `DescriptorSort` | the v1.14 descriptor suffix array: emit, sort, merge, and the fallback to SAIS |
| `ShaPair` | the two-way SHA-256: which blocks reach the compression function |
| `HashPipeline` | the composition of the three, in buffers that an earlier hash has used |
| `MCHashPipeline` | the TLC instance of `HashPipeline` |
| `HashPipelineProofs` | the theorems about `BranchyStage`, `ShaPair` and `DescriptorSort` in the pipeline |

### How state and actions correspond to the code

`blob`, `jobid` and `target` are one value, `job`: `SetJob` compares and writes
the three together. A push is a record of what `SetJob`'s validation looks at,
and `Validate` keeps its order. `SetJob` is four steps (write under the lock,
`epoch.Add`, `active.Store` and unlock, the mirrored counters) and `Invalidate`
two, because `Active()` and `Epoch()` can be read between them; `Job()` waits
for the lock. `SetJob` and `Invalidate` are only called by the client's
goroutine, so one program counter (`spc`) is enough.

A worker's loop condition and its check before a submit are two steps each (one
per atomic read), the channel send and `Submitted.Add` are two more. The hash is
the environment's choice of which lanes meet the target. The writer's
`SubmitValid` is two reads, `WriteJSON` a third step that may fail at any time.
`conn` is `"lost"` from the moment the reader is bound to get an error: a reset,
a frame that does not decode or 20 s of silence.

Variables of an inner scope are reset when the scope ends (`LoopBodyEnds`,
`Join`). `installed`, `session`, `wire`, `written`, `hashes` and `late` are
history variables: no guard of a modelled step reads them, except the
bounds `MaxHashes`, `MaxEpoch` and `MaxSessions`.

`EngineStats` represents a mirrored counter by the number of the push it comes
from, so that older and newer can be told apart; one `ClientStore` step is one
atomic store of `SetJob`, one `StatsLoad` step one load of `Stats`. The workers
are one process because only their sum is read. A call keeps the time it has read
(`at`) while it waits for `e.mu`. `floor`, `samples`, `waited` (the seconds between
the two) and `last` are history.

`StatusRow` keeps of the screen whether the status row is the last thing written
(`Logf` clears it, `Paint` draws it) and of time the seconds since the last
forwarded rejection (`age`, up to the throttle's interval). A tick of
`statusLoop` is three atomic reads and a paint, each a step.

`HostDial` is sequential: a lookup or a dial is one step that takes `d` seconds
within what the code's context leaves it; what takes all of it has failed. A nil
error is `"nil"`.

In `FakeGetwork` every section under `Server.mu` is one step and `cbMu`, which is
held across the caller's `OnSubmit`, is a variable. `opts` is the part of
`Options` that the handler branches on. In `BenchDaemon` a push is three steps
(mint, write, store), because a miner can answer between the last two. `sent` is
what was written to each connection, and so what a miner can answer with; `wrong`
(verdicts that the lag between write and store does not explain) is history.

`Launch` is two processes and the kernel. `world` is what the process finds
(arguments, file, machine, difficulty) and never changes after `ParseFlags`;
`file`, `online` and `mask` are the config file, the CPUs the kernel grants and
the affinity mask of the thread that runs `PinOrder`. A save is two steps,
because `os.WriteFile` truncates before it writes, and either may fail; the other
process may load the file in between. `Preflight` tries one CPU per step, so that
a CPU can go between two tries. `contents` (every whole content the file has had)
and `late` (the CPUs of the order that went after they were tried) are history.
`coreOf` and `classOf` of a machine are the truth the kernel's files describe or misdescribe; only
`Truthful` (the description is right) and `CoresFirst` read them. The CPUs of a list
are sorted by rank (`Ascending`), and the cores of Windows by `InsertionSort` of
`Sorting`, which is the algorithm `pCoreFirstOrder` writes out. `Blank` is the empty string, which a flag or a key of the
file may hold; `Absent` is a key that is not there. A target and a hash are
functions from places to digits, as the code has arrays of bytes, and
`MeetsTarget` looks for the first place where they differ.

An operation of the branchy stage is a row of four byte steps plus what it does
beyond bytes (reverse, `lhash`, the cipher's key), written once per operation from
each of the three sources; `OpRow`, `RefRow` and `pureOp` are independent tables.
`FillRow` is one iteration of `init`'s loop, and the implementations are compared
on the operation it has just dealt with. A row of `opLUT` is kept as the number
of the operation that fills it; the 256 bytes of the row follow from `pureOp`.
`Startup` lets `main` begin when the last row is filled.

In `BranchyStage` the bytes of a chunk are left open: whether RC4 fires in a try
and whether the last byte lets the loop end are choices. `Prepare` chooses the
bytes when the sort first reads them, with one stale byte for what an earlier hash
left behind the data, and starts the arena and the records empty whatever they
held. Every chunk is thus any sequence of letters, a superset of what the
operations can produce. A marker is put together as in the code: `Mark` shifts
and ors (`Or` is Go's `|`), so a count that does not fit spills into the chunk number. A record is `[key, at, count]`; a run is emitted in one
step, column by column as the code does, and a key is merged in one step
(`GroupOrder`, with a case per branch of the code). `emitFullGroupRunTwo` is the
generic emission with the two tests it has of its own (`SameKeys`). A loop of the
code is a recursive function of the same iterations; a pass of the radix sort is
said by what a pass does, a stable sort by one byte. In `ShaPair` a byte of a
block is symbolic, `<<lane, position>>` or padding, and a state is the sequence
of blocks it took in, so that a digest is right exactly when its blocks are.

Definitions commented "A variant of X" are not part of the model: each is X
with a plausible bug, used to show that the property it breaks can fail.

## Runs

| Run | Instance | Shows |
|---|---|---|
| `engine_two_threads` | 2 threads, 1-slot channel, 1 job, 2 sessions, 2 hashes, epochs up to 4 | `OwnSession`, `ShareAccounting`, `NoWorkWithoutSession`, `WireEpochsOrdered`, `ImplementsRelay`, `QuietAfterDone` |
| `engine_pair` | 1 thread in pair mode, 2 jobs, 1 session, 4 hashes | `ShareCarriesItsWork`, `HashesInstalledWork`, `HashAccounting`, `OneLateShare` |
| `engine_liveness` | 1 thread, 1 job, 2 sessions | `StopReturns`, `LostLinkRedials`, `StaleJobLeft`, `JobPickedUp` |
| `stats_counters` | two-point window, 1 push, 1 flushed batch, 2 s, any number of `Stats` calls | `FinalWhenStopped`, `FieldsAreFresh`, `RateIsWide` |
| `stats_snapshot` | 1 push | counterexample to `StatsIsSnapshot` |
| `status_row` | throttle of 2 s | `StaleRowGoes` |
| `status_row_erased` | throttle of 2 s | counterexample to `SuppressedRowIsGone` |
| `host_dial` | the code's timeouts, 3 resolvers, answers of up to 2 addresses | `ResolversFit`, `FailureIsReported` |
| `fake_close` | 2 connections, 2 frames in all, 1 `Close`, with and without `JobEvery` | `QuietAfterClose`, `CallbacksFollowSubmissions`, `CloseReturns`, `HandlerEnds` |
| `bench_daemon` | 2 connections, 3 jobs, 2 submissions | `SubmitsAccounted`, `VerdictsLagOneJob` |
| `startup` | all 256 operations; 4 threads at most, 2 digits of base 4, machines of 3 to 6 CPUs | `MinerMatchesReference`, `PureSetIsCurrent`, `MinesWholeSettings`, `SetupIsHonoured`, `PinsAllOrNone`, `CoresFirst`, `TargetIsDefinition` |
| `hash_pipeline` | chunks of 3 bytes over 2 letters, up to 12 bytes | `ExactSuffixArray`, `RecordsAreSorted`, `NeverDeclines`, `FlagsFollowTemplates`, `PairIsTwoDigests` |

Bounds of the engine. Two sessions let a share outlive its session; three published epochs
let a job be replaced, withdrawn and come back; two threads race for one slot
of the channel; two hashes (four in pair mode) are one winning share per
thread (two pairs). A worker past `MaxHashes` keeps iterating without counting
or winning, so the bound hides no control flow.

Other bounds. One push is enough for a `Stats` call to overlap `SetJob`, to
precede it or to follow it; with two window slots the sampler wraps around
within two seconds, and a call can wait for `e.mu` across a tick and find a younger
point than the one it should have compared with. A throttle of two seconds has a
repeat inside the interval and one outside. Two connections are what a mutex between readers needs, and
one `Close` takes a connection in each of its states; two frames are two callbacks
of one connection, which have an order, or one of each connection, which must not
run at once; a pass of one job makes
every wait of the handler but the pause inside a pass, which waits as the pause
between passes does. Two connections and three jobs let a share of a dead session
meet a new job of its own session and of another.

Bounds of the tables and the start. The byte operations are checked at full width: every
operation, every byte, four values of the second operand and five windows, one of
them wrapping, one empty. The arguments are not all combinations but three groups:
settings over files of every shape (missing, torn, each key absent, blank or
given) without pinning; benchmarks; pinning with every number of workers on twelve
Linux machines, six of them with sibling files that are unreadable, malformed or
contradictory, two Windows machines (hybrid and without topology) and another
platform. A setup run overlaps all of them. Four workers fill or
overfill each machine; nine and the blank count meet the limit, and the machine
of six CPUs meets it by `NumCPU`. Two digits of base 4 have a comparison decided by
either digit and one that ties throughout, and every difficulty up to the limit.

Bounds of the hash. The constants of the code are scaled together: a chunk of 256
bytes to 3 (the length of a key, so that keys cross a chunk boundary and do
not), 260 to 277 tries to 2 to 5, and the limits so that each is met: data of
12 bytes is four full groups, where runs of one, two, three (insertion) and four
groups (heap) and a partial group occur; a group of records is one record, only
literals, two runs or more; literals of one byte reach the closed form; a count
of 4 overflows its marker. Two letters give every pattern of equal and unequal
bytes, of repeats and of ties. Blocks of 8 bytes with a length field of 4 have
messages whose end mark needs a second block, and lanes of unequal numbers of
blocks. The arena holds 15 positions and a run 5 groups, the least that
`CapacityAssumption` asks for; four positions an earlier hash left behind would
already be too many, which is what `NeverDeclines` is about. SAIS is reached by the
other choice of `useV114`.
Deadlock is not checked in `startup` and `hash_pipeline`: they end when a hash is
judged or digested.

Fairness. `FairSpec` assumes that the Go scheduler eventually runs every
goroutine that can run (weak fairness per worker, client, writer and closer) and
that a worker waiting for `State.mu` eventually gets it (strong fairness:
`sync.Mutex` hands the lock to a waiter it has starved for 1 ms). Nothing is
assumed of the server, the link or the caller. In `StatusRow` the clock
advances, `statusLoop` ticks, and a read returns: it has a deadline. In
`FakeGetwork` goroutines that can run do; a mutex is not withheld for ever
(`CallbackBegin`), and a handler's `select` that finds its reader done again and
again takes that case some time (strong fairness: Go chooses among ready cases
at random). A client need not do anything, and a write may stay blocked until
the socket is closed.

## Disagreements between text and code

* `stats_snapshot`: `pkg/engine/engine.go:304` promises "an atomic snapshot".
  The counters are loaded one by one while `SetJob` stores them one by one, after
  it has released `State.mu`: a result can mix two pushes. What does hold is
  `FieldsAreFresh`.
* `status_row_erased`: `main.go:475-477` argues that a suppressed row is always
  erased by a log line. It can be painted after that line, or the line can be
  suppressed by the throttle; the row then stays until the next line. What does
  hold is `StaleRowGoes`.

Met while modelling, without a run of their own:

* `internal/getwork/dns.go:87-88` says "each address is tried until one
  connects". An address that never answers uses up the handshake's deadline, and
  the loop ends with the rest untried.
* `pkg/fakegetwork/fakegetwork.go:131` says that `Close` closes every upgraded
  connection and waits for the handlers. A handler between `Upgrade` and `track`
  is known to nobody yet. It does no harm, by `QuietAfterClose`.
* An explicit `-t 0` cannot be told from no `-t` and is overridden by the file
  (`main.go`, `resolve`; in the model `Pick` with the blank 0).
* With difficulty 0 `MeetsTarget` would accept the all-zero hash, although
  `internal/miner/difficulty.go:16` says that nothing passes. `SetJob` refuses
  difficulty 0 first (`FirstJob`'s guard).
* The markers give the second template one group late unless RC4 fires in the
  first try (`TemplateStarts` says so), and a template of 128 chunks or more
  overflows its count. Neither matters to the result, by `SortsTheSuffixes`: the
  sort is exact for every set of flags, only its speed depends on them.
* `pkg/engine/engine.go:113-114` says that pinning "is all-or-nothing for the
  worker set". On Linux each CPU is tried once (`affinity_linux.go:57-67`): one that
  goes after its own try, be it in the middle of the trial, leaves its worker
  unpinned and the others pinned. `PinsAllOrNone` says exactly which workers those
  are.
* `tools/fakegetwork/main.go:93` says that `stale` counts "submissions for a jobid
  this connection is not issuing". An answer that comes between the write
  of a job and the store of it (lines 223-228) is judged by the job before: the new
  job counts as stale, the replaced one as live. `VerdictsLagOneJob` bounds the lag.
* A hashrate may span less than the window: `Stats` reads the clock before it waits
  for `e.mu` (`engine.go:308-312`), and the sampler goes on while it waits.
  `RateIsWide` takes the wait into account.
* On Windows the order may contain CPUs outside the affinity mask of the process;
  such a worker stays unpinned while others are pinned. `PinsAllOrNone` is about
  Linux, where the code tries the order first.

## Proofs

`EngineProofs` proves, for every set of threads, jobs and pushes, every channel
capacity and every bound: `TypeCorrect`, `SharesStayInTheirSession`,
`SharesCarryTheirWork`, `OnlyInstalledWorkIsHashed`, `OutageIdlesWorkers`,
`AtMostOneLateShare`, `WireOrder`, `StopIsFinal` and the refinement
`EngineImplementsRelay`. They rest on `WorkAssumption`, `WorkerAssumption` and
`ClientAssumption` (types of the constants, `InitialBackoff <= MaxBackoff`).

None of the properties is inductive. `IInv` adds where every goroutine is
(`ControlInv`: the lock, the State call in progress, the writer's life span),
what the snapshot shows (`JobInv`: a live job is the work of the latest epoch,
installed by this session; without a live job the latest epoch has no work),
what a worker's snapshot may be (`WorkerInv`) and what the writer has already
established (`WriterInv`: between the two reads of `SubmitValid` the latest
epoch is this session's; a share about to be written is at least as new as all
written ones). The argument for `OwnSession`: `Active()` was true while the
writer ran, so the latest epoch is this session's; the reader cannot leave the
session before the writer is done, so an epoch equal to the share's is too.

Two more of its theorems are about accounts. `SharesAreConserved` (the property
`ShareAccounting`): finitely many workers stand between a send and its
`Submitted.Add`, and each step moves a share from one place of the sum to
another. `DrainEnd` needs `ControlInv`: no writer holds a share while the channel
is drained. `HashesAreConserved` (the property `HashAccounting`): the sum of the
workers' local counts is a fold over the threads, and `SumChanges` says what one
worker's step does to it; the set of threads must be finite (`ThreadsAssumption`).

`Induction` is what stands in for the library's induction theorems, whose operator
parameters the provers cannot instantiate: every set of naturals that is not empty
has a least element (`LeastNat`, proved once from well-foundedness), and each
recursive function is characterised by its own least counterexample
(`RecursionExists`, `SumIs`, and `RecursionWithin`, whose steps also hand on a
property). It assumes nothing about the model.

`EngineStatsProofs` proves, for every window length and every bound:
`StatsTypeCorrect`, `StoppedResultIsFinal`, `ResultIsFresh` and
`RateSpansWindow`, from `StatsAssumption` (a window has at least one point). The
invariant relates the call in progress to what moves under it: counters stored
so far are the latest push's and the rest at most one older (`MirrorInv`), every
load is at least as recent as the last push complete before the call
(`CallInv`), a call that found the engine stopped has only loaded values that
cannot change any more, because done comes after the last writer (`FinalInv`),
and ticks are strictly later than the points before them, so two recorded
points are at least as many seconds apart as slots of the ring (`WindowInv`).
`RateInv` adds the call's own clock: what a rate spans and what the call has waited
cover the ring (`RingIsWide` and `PointsLag` are its two facts about the points).

`HostDialProofs` proves, for any number of addresses in an answer
(`AddrsAssumption`): `DialTypeCorrect`, `ResolversAlwaysFit` and
`FailuresAreReported`. The invariant bounds the time by the lookups asked
(`TimeInv`: while nobody cancels, `now` is at most `lookupTimeout` times their
number, and three of them leave room before `handshakeTimeout`), and follows the
first error (`ErrInv`: it is the system resolver's from the moment that one
failed).

`BenchDaemonProofs` proves, for any set of connections and any number of jobs and
submissions: `DaemonTypeCorrect`, `EverySubmissionIsCounted` and
`VerdictsAreOfTheSession` (the property `VerdictsLagOneJob`). The invariant says of
each connection that its current job is the last one written to it, or, between the
write of a job and the store of it, the one written before (`PushInv`, one
`PushInvOf` per connection, and `OthersKeep` for the connections a step leaves
alone); and that finitely many submissions are in the readers' hands (`CountInv`),
so that taking one and judging one change the sum by nothing.

`FakeGetworkProofs` proves, from `ServerAssumption`, for any set of connections,
any number of goroutines that call `Close` and a pass of any length:
`ServerTypeCorrect` and `CloseLeavesQuiet`. The WaitGroup counts exactly the
handlers between `track` and `Done` (`CountInv`), a running reader has a handler
that has yet to wait for it (`ReaderInv`), and nobody is tracked any more once
`closed` is set, so the count a `Close` has seen at zero stays there
(`CloseInv`). `CallbacksAreOrdered` (the property `CallbacksFollowSubmissions`)
adds that a connection's callbacks lag its submissions by exactly the one its
reader holds between `addSubmission`'s two locks (`OrderInv`), and by nothing else,
and that a reader which runs `OnSubmit` holds `cbMu`, so that only one does
(`LockInv`); a connection's part of a sequence is a fold, and `OfAppend` says what appending does
to it.

`LaunchProofs` proves, for any set of worlds (arguments, files, machines,
difficulties), any answers at `--setup` and any limit on threads:
`SettingsAreWhole` (`MinesWholeSettings`), `SetupDoesWhatIsTyped`
(`SetupIsHonoured`), `PinningIsWhole` (`PinsAllOrNone`) and `TargetIsRight`
(`TargetIsDefinition`), from `SettingsAssumption` and `WorldsAssumption` (types; what
is typed is not blank; a file of settings is neither missing nor torn) and
`DigitsAssumption`. `ConfInv` follows where the settings came from while the file is
truncated and rewritten under the miner. `SetupInv` follows what setup has read and
typed until it is saved. `PinInv` says that the CPUs tried so far are online or
in `late`, not both (`GoneAreLate`), and that outside the trial the thread has its
mask back; that the order has enough CPUs to try is `pinOrderForThreads`. `TargetJudges` is about the
operators alone: the digits of a quotient decide `MeetsTarget` as the quotient does
(the places above the first difference agree, and the places below cannot make up for
it), and n <= Limit \div d is n * d <= Limit. `StartupRunsLaunch` says that the whole
process, package initialisation included, implements `Launch`, so each of these
theorems is also one about `StartupSpec`, the specification the run checks.

It also proves `PinsCoresFirst` (`CoresFirst`). `CoresInv` says of an order, from the
moment it exists, what `CoresFirst` says once workers run; fewer CPUs online make that
no harder (`CoresKept`), and `WantedIsGood` is the step that makes an order. All three
platforms come down to lists of CPUs that have none in common and are not empty
(`Apart`): `FirstsThenRests` joins them to an order without repetition, and when the
lists are the cores, a core's second CPU stands behind the first of every core
(`SecondIsLate`). On Linux `ListedAre` shows that sibling files which pass the code's
two tests give such lists, whatever else is in them, and that otherwise all CPUs are
taken in order; on Windows `InsertionSortIs` puts the classes in order and loses no
core. `WorldsAssumption` adds, for Windows only, that the kernel lists each CPU once
(`ListsEachOnce`), which the code relies on without a test; `Truthful` is a premise of
the property, not an assumption, so files that lie are in the theorem.

Of the tables it proves `MinerIsReference` (`MinerMatchesReference`), `PureSetIsExact`
(`PureSetIsCurrent`) and, beyond what any run can enumerate, `TablesAreRight`: for every
byte, every second operand, every window and every chunk of bytes. `LutInv` says that the
operations up to the loop variable have a row that holds them when they are pure and none
otherwise, and that as many rows are taken as there are pure operations below
(`PureBelow`, 149 of all 256, so no row is missing or left free). A pure operation does
not read `s[pos2]` (`PureIsPure`), so the loop that changes the chunk in place, byte after
byte, is the map of its row (`PureLoopIs`), which is what lets a table stand for the
switch. The three written tables are compared row by row (`RowsAgree`, `PureOps0Are`
and its fifteen companions).
`SampleAssumption` (the sample consists of bytes) is only needed to read the run's
property off `TablesMatch`.

`HashPipelineProofs` proves, for any width, numbers of tries and marker size
(`StageAssumption`): `FlagsAreTemplates` (`FlagsFollowTemplates`). `MarkInv` relates
the markers already written to the tries RC4 fired in, and `LoopInv` the template
still open to the last of them; a marker whose count fits is read back as the group
where its chunks end (`BoundaryIs`), and `StartsGrow` has the one exception the code
makes (`tries > 1`). For any block size and any lengths (`BlockAssumption`,
`PairAssumption`) it proves `PairDigests`, a fact about the operators: the blocks the
two lanes take in together, then alone, then in `sha256Finish` join to those of each
lane's own padded message, the spill of the length into a second block included; and
from it `PairsAreDigested` (`PairIsTwoDigests`).

Its other half proves that the descriptor sort sorts: `SortsTheSuffixes`
(`ExactSuffixArray`), `RecordsAreRight` (`RecordsAreSorted`) and `NeverGivesUp`
(`NeverDeclines`), for any bytes (`AlphabetAssumption`: they are numbers), any
length, width and flags, and any of the limits at which the code changes its
algorithm (25 groups, 32 literals, 17 literals). `CapacityAssumption` is the code's
`arenaIndexCount` and `stage4MaxGroupRun`: 131072 positions and 512 groups, for at
most 277 chunks of 256 bytes. The flags do not occur in the proof, so where the
templates begin only decides the speed. `SortInv` has one part per stage:

* `DataOK`: four zeros follow the data, so a key that reaches past the end is less
  than one that goes on (`LesserKeyFirst`), and suffixes with equal keys are compared
  behind them (`AfterEqualKeys`). By `SuffixesInOrder` the comparison is a linear order.
* `Emitting`: the records hold every position of the groups so far once, those of a
  record have its key and their suffixes ascend (`Kept`), and the arena holds no more
  positions than have been emitted. The step is `RunEmitted`: the last column is sorted
  by whole suffixes, each column before it by one byte, stably, from the order of the
  next (`ColumnInduced`; `ColumnKept` when the byte is the same everywhere), and equal
  keys stand together because the column is sorted (`ColumnAppended`).
* `Writing`: what is written is sorted, what is recorded are exactly the other
  positions, and every key written is less than every key recorded. `RadixSorts` has
  the three stable passes end in the order of the keys; `GroupSorts` has each way to
  merge a key end in the order of its suffixes, the closed form for one repeated byte
  included (`InRun`: the byte that ends a run decides all of its comparisons).
* `AllSorted`: nothing recorded is left, so as many positions are written as there are.

What the algorithms of `Sorting` return is in `Induction`, for sequences of any length:
`InsertionSortIs` (stable, under a comparison with ties), `HeapSorts` and
`MergeAllSorts`.

Only model-checked are the liveness properties, because fairness and `ENABLED` are out
of the prover's reach: `StopReturns`, `LostLinkRedials`, `StaleJobLeft`, `JobPickedUp`,
`CloseReturns`, `HandlerEnds` and `StaleRowGoes`. Every invariant and every action
property of the runs is proved.

## Not modelled

* Assembly kernels: hand-scheduled vector code whose portable Go versions are
  modelled where they carry control flow (`ShaPair`).
* The ciphers and hash functions (salsa20, RC4, xxhash, FNV, SipHash, SHA-256's
  compression): the bytes they give are a choice of the environment.
* SAIS (`sais.go`, `sais2.go`): the Go library's code; it stands as what it
  promises, the sorted suffixes, in `SortBySAIS`. Its correctness is not shown: of the
  two backends the theorems say something only about the descriptor sort.
* The unrolled copies and the 8-byte compares of the descriptor sort: the model
  compares and copies byte by byte.
* The TLS and websocket libraries (only their errors are modelled, as `LinkLost`,
  `DialFail` and `WriteFail`).
* Of the CLI: `--dry-run`, `--version`, profiling, the check of `--sa`, the
  characters an endpoint may have, the hashrate window and the colour tiers of
  `status.go`, the text of log lines.
* Scripts, packaging and CI: not part of the running program.

## Plan

Done: the engine (state, workers, client, composition, refinement, proofs),
statistics, the status row, name resolution, the two getwork servers, the start
(operation tables, settings, pinning, difficulty) and the hash (markers,
descriptor sort, paired digest).

Next, in this order:

1. `Hashrate`: the CLI's window (`main.go`) and the tiers of `status.go`.
2. `TimedLink`: the read deadline, the backoff and the submit deadline in seconds.
   Property: a dead link idles the workers within the read timeout.
