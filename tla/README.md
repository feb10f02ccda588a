# ChaosLabs verification project

TLA+ models of the ChaosLabs control plane and agent, with TLC configurations
and TLAPS proofs. Every definition is translated from the source; PROJECT.json
("map") names the lines it stands for. This file says what the system consists
of, what is modelled and how, what the checks and the proofs show, what the
models found, and what is left.

## 1. Inventory

ChaosLabs injects faults into hosts. A **controller** accepts experiments over
HTTP and posts them to **agents**; an agent runs the fault (tc/netem, stress-ng,
cgroups, kill). Beside this path the controller carries an event pipeline
(JetStream streams, a writer into MongoDB, replay, export, notifications), and a
**dashboard** talks to its API. The **CLI** does not: it is a tool that checks and
compares the files an export has left.

| Part | State | Operations | Talks to |
|---|---|---|---|
| NetemManager, `agent/netem.go` | interfaces, experiments, root qdiscs; kernel qdiscs, filters, IFBs | Apply, ApplyWithFilter, ApplyIngress, Revert, RevertAll, Export/ImportState, TTL timers, cleanup routine | `tc`, `ip` |
| CgroupManager, `agent/cgroups.go` | experiments; kernel directories, limits, processes | CreateCgroup, AddProcess, DestroyCgroup, Export/ImportState, TTL timers, cleanup routine | cgroupfs |
| Scheduler, `agent/scheduler.go` | operations, timing wheels, statistics | ScheduleOperation, CancelOperation, Stop, Shutdown, ticker, one goroutine per run | handlers of its callers |
| Agent `/inject`, `agent/main.go`, `agent/experiments.go` | none but its goroutines; the root qdisc of eth0 | simulateInjection per experiment type | controller, `tc`, `stress-ng` |
| Experiment handlers, `controller/handlers.go` | experimentList in memory | /start, /stop, /experiments; one goroutine per experiment, one post per agent | agents |
| API middleware, `controller/middleware.go` | rate limiters | validation, rate limit and its clean-up, ETag of the list | clients |
| EventBus, `controller/eventbus.go` | JetStream streams and consumers | Publish, Subscribe, consumeMessages | JetStream |
| WriterService, `controller/writer_service.go` | processed IDs | one handler per stream | EventBus, MongoDB |
| ReplayService, `controller/replay_service.go` | replay jobs | StartReplay, CancelReplay, CleanupReplayJobs, Stop; one goroutine per job | JetStream, MongoDB |
| ExportService, `controller/export_service.go`, `storage.go` | export jobs by ID; chunks and manifests on disk | CreateExportJob, one goroutine per job, DownloadChunkHandler with ranges | MongoDB, disk |
| Export tool, `cli/main.go` | none | verify, check-files, diff, info | the files of an export |
| EnhancedNotifierService, `controller/enhanced_notifier_service.go` | namespaces, rooms, clients and their bounded channels, under three levels of locks | JoinNamespaceRoom, BroadcastToNamespaceRoom, GetNamespaceStats, updateBackpressureMetrics | clients |
| DiffEmitEngine, `controller/diff_emit_engine.go` | last state and version per key | ComputeDiff, performCleanup, Reset | whoever reads the results |
| HealthChecker, `controller/health.go` | status and LastCheck per dependency | a ticker, a goroutine and a timeout per check, GetReadinessStatus | dependencies |
| useWebSocket, `dashboard-v2/src/hooks` | socket, timers | connect, disconnect, reconnect | notifier |

`main.go` creates the health checker only; the export service, the notifier and the
diff engine (which has tests) are written and not wired in yet. They are modelled
from their own code, with callers that may do whatever their methods allow.

Section 7 lists what is left out.

**What is hard here.** Timers, cleanup routines and callers end the same
experiment in any order, and each decides under the lock but acts after
releasing it, or the reverse. Most effects are commands that can fail between
two updates of a record. A restart forgets timers and an import restores records
without them. One root qdisc is shared by independent goroutines. Posts are lost.
Slots of a timing wheel come round before the operations in them are due. Jobs
are changed by goroutines while they are listed and cleaned up. Idle state
(limiters, jobs, diff states) is removed while something still depends on it.
Chunks are written one by one, to a disk that fails and by a process that stops.
A broadcast to a full client waits, with other broadcasts and joins around it.
Timeouts nest: probes of two seconds within checks of three, checks within the
ticks of a ticker.

**What correctness means.**

- NetemManager: the records agree with each other and with the kernel; removing
  one experiment leaves the faults of the rest in force, and caps no looser than the
  loosest of theirs; a fault with a TTL ends.
- CgroupManager: a directory that limits something has a record, so somebody will
  remove it; a recorded cgroup with a TTL ends.
- Scheduler: an operation is in one place, runs no more often than its interval,
  and `Stop` returns and is final; nothing scheduled is lost.
- Control plane: agents run no more than was asked for, never earlier, and
  overlapping injections clean up after themselves.
- Middleware: forgetting an idle client never gives it an extra burst; a cached
  list is stale for a bounded time.
- Events: what is acknowledged is stored; a replay stays in its range, is listed
  while it works, and ends.
- Exports: a manifest that can be read describes files that are there and verify;
  what completed can be read back, whole or resumed; the tool compares it rightly or
  refuses it; no job is left behind.
- Diffs: a reader of all results whose version matches has the state the engine took,
  as long as nobody changes a submitted map.
- Health: healthy means up a bounded time ago; checks do not overlap; a controller
  whose critical dependencies work becomes ready in time.
- Notifier: a client gets what was sent to its rooms, in each sender's
  order; nobody waits for ever to join.

The hazards behind these statements are listed at their lines in PROJECT.json.

## 2. Modules

| Module | Models | How state and actions correspond |
|---|---|---|
| `Netem` | `agent/netem.go` | `interfaces`, `experiments`, `rootQdiscs` are the manager's maps; `root`, `netem`, `ifb` are the kernel's side. One action per method, executed under its lock; the cleanup routine is split where the code unlocks (scan, then one revert per identifier). Commands may fail where `CommandsMayFail`. |
| `FaultService` | what the manager promises | `active` faults per resource and the `impaired` resources; a resource with an active fault is impaired. |
| `NetemProofs` | theorems about `Netem` | |
| `Cgroups` | `agent/cgroups.go` | `experiments` is the manager's map; `dir`, `limits`, `cgroup` are cgroupfs and the place of each process. Killing, removing, creating and writing may fail, `MaxFailures` times. |
| `CgroupsProofs` | theorems about `Cgroups` | |
| `Scheduler` | `agent/scheduler.go` | Wheels as slots of operations, a current slot per wheel, the operations map, the goroutine of each run between its lock sections, statistics, `Stop`. |
| `SchedulerProofs` | theorems about `Scheduler` | |
| `Dispatch` | `controller/handlers.go`, validator | `/start`, the goroutine that waits for the start time, and the posts, which are delivered or lost. |
| `Injection` | agent `/inject` | Goroutines by stage, the shared root qdisc of each agent, failing `tc`, an agent that kills itself. |
| `ControlPlane` | the two together | A post of `Dispatch` is an injection of `Injection`; one clock; a restart of the controller. |
| `ExperimentService` | what the control plane promises whoever asks for experiments | The experiments `asked` for, the `faults` they became, by experiment and copy, and the `impaired` agents. A network fault that begins may impair nothing, since the agent only logs a failing `tc qdisc add`. Time passes; how requests wait, travel and get lost is left open. |
| `ControlPlaneProofs` | theorems about `ControlPlane`, and so about `Dispatch` and `Injection` in it | |
| `Admission` | `controller/middleware.go` | Token buckets per key and role with the clean-up, and the experiment list behind a time-based ETag. |
| `EventBus` | `controller/eventbus.go` | A stream: what was published and what was discarded at its limits. |
| `Writer` | `writer_service.go`, consumeMessages | Deliveries of a consumer on `EventBus`, handlers, acknowledgements that may be lost, restarts. |
| `Replay` | `replay_service.go` | The map of jobs, the jobs, their goroutines and callbacks step by step on `EventBus`. Sequence numbers are unsigned, `Width` bits wide. |
| `ReplayProofs` | theorems about `Replay` | |
| `Verifier` | `cli/main.go` | Operators and recursive functions over chunks and manifests as the tool reads them: the Merkle tree, the signature, checksums, records cut at chunk ends, the index of records and their comparison. |
| `Exports` | `export_service.go`, `storage.go` | `jobsByID` (the map), `exports`, the jobs themselves with the place of their goroutine, `chunkFiles` and `manifests`; one action per phase and one per chunk, each of which the storage may fail. `Verifier` reads what is stored. Downloads keep what a client has so far. |
| `DiffEmit` | `diff_emit_engine.go` | `stateStore` is the engine's map, whose data are the callers' maps and may change under it (`CallerChanges`). Nothing in the code reads the results; `reader` is what somebody has who gets all of them, in order. |
| `Health` | `health.go` | Ages instead of times: since the tick, since each LastCheck, of the running check and its probe. Endpoints go up, down or hang at any instant. |
| `ControllerProofs` | theorems about `Admission`, `Health` and `Exports` with `Verifier`, which share no state | |
| `Notifier` | `enhanced_notifier_service.go` | A thread is "at" the lock it is about to take; rooms, filters and channels are the namespace's. |
| `RealtimeProofs` | theorems about `DiffEmit` and `Notifier`, which share no state | |
| `DataLemmas` | lemmas about numbers, sums over finite sets and recursive functions, for the proofs above | |
| `MCServices` | five services in one run | `service` chooses one at the start and never changes; the others keep their initial states. |
| `MCLifetimes` | `Cgroups` and `Replay` in one run | `component` chooses one at the start and never changes. |
| other `MC*` | | Values of the constants for TLC. Nothing else. |

Data is abstracted to what a property can tell apart: a netem configuration is a
few bounded parameters, a cgroup configuration the limits that are written, an
event its type and ID. Wording, logs, metrics and traces are left out. The
definitions marked external in the map are `tc`, `ip`, the kernel, JetStream,
MongoDB, the clock, Go's locks, the endpoints that are probed and the clients,
modelled from how the code uses them. A hash is what it is a hash of: two differ
when their inputs do.

## 3. Runs

Each run asks one question.

| Run | Checks | Shows |
|---|---|---|
| `netem_all` | `TypeOK`, `IngressInForce`, `TTLEnforced` | With every operation, failing commands, restarts and imports, every recorded ingress fault is redirected, and an experiment with a TTL is removed in the end. |
| `netem_egress` | `BeliefMatchesKernel`, `ImpairedWhileActive`, `RemainingInForce` | For callers of Apply, Revert and RevertAll only, the manager is right about whether netem is on an interface, whatever fails. After a removal that tc carried out, the impairments of the others (delay, jitter, loss and the like) are at least what they asked for, their caps (rate and limit) are there but only as tight as the loosest of them, since `mergeConfigs` takes the largest, and nothing goes beyond what one of them asked for. |
| `netem_service` | `ImplementsFaultService`, `ImpairmentEnds` | With working commands and identifiers that stay on their interface, the manager implements `FaultService`; with TTLs no impairment is for ever. |
| `lifetimes`, cgroups | `TypeOK`, `RecordsMatchKernel`, `TTLEnforced` | Through failed kills, removals and re-creates, records and kernel agree; no recorded cgroup with a TTL stays, although an import arms no timer. |
| `scheduler` | `TypeOK`, `SingleFlight`, `RunsKeepInterval`, `StatsExact`, `PanicOnlyWhenLate`, `StopIsFinal`, `StopTerminates` | Until something is cancelled no operation is in two places or runs too often and the counters of runs and of active operations are exact; only a late operation panics; Stop returns, and nothing starts afterwards. |
| `control_plane` | `TypeOK`, `InjectionsMatchRequest`, `FaultHasOwner`, `ImplementsExperimentService`, `FaultsRemoved` | The whole implements `ExperimentService`; agents run what was asked for, not more and not earlier; overlapping injections leave no fault unless `tc` fails or the agent dies, wherever adding one fails. |
| `services`, middleware | `RateBound`, `ListLagBelowMinute` | Removing idle limiters never lets a client exceed its rate; the ETag hides a new experiment for less than a minute. |
| `services`, exports | `ManifestSound`, `StatusTellsOutcome`, `DownloadResumes`, `DiffExact` | A manifest that loads passes the tool's own checks, a job whose goroutine has returned says that it failed or is all there, a download resumed with a range has every byte once, and `diff` refuses an export exactly when a chunk cuts one of its records or its data are no NDJSON, and finds exactly the records that differ between two that it loads. Jobs that share an ID are excepted (section 6). |
| `services`, diffs | `ReaderInSync` | A reader of all results that has the version of the stored state has the data it was stored with, through changes too small to be sent and clean-ups; keys whose last result compared a map its caller had changed are excepted. |
| `services`, health | `StatusInTime`, `CheckIsExact` | A status is at most an interval, a tick and a timeout old, no older check overwrites it, and readiness is reached; a check of endpoints that did not change tells the truth as far as its timeout lets it. |
| `services`, notifier | `InOrder`, `JoinsEnd` | Buffers keep each sender's order although broadcasts drop and append at once, and a join ends even while a broadcast waits for a client that never reads. |
| `lifetimes`, replay | `ReplayTypeOK`, `ReplayInRange`, `ListedWhileReplaying`, `EveryJobEnds` | Jobs that are cancelled, cleaned up or replaced by one of the same second stay in their range, remain listed while they replay, and all end. |
| `netem_filtered_missing` | `FilteredHasNetem`, violated | Finding 1 below. |
| `scheduler_dropped` | `NeverDropped`, violated | Finding 2. |
| `validated_unknown` | `ValidatedIsKnown`, violated | Finding 3. |
| `writer_loses` | `AckedIsStored`, violated | Finding 4. |
| `diff_threshold` | `LagBelowThreshold`, violated | Finding 5. |

Each property of a passing run has a mutant in PROJECT.json: a plausible slip in
the code under which the property is violated.

### Bounds

- `netem_all`: one identifier, one interface, two applies. Two applies of one
  identifier are what a stale timer or a stale scan needs; two cleaners, because
  each import starts one more. Several identifiers and interfaces are covered by
  the theorems.
- `netem_egress`: three identifiers on two interfaces with three configurations, so
  that removing one leaves two that differ: two impair, under rates of which one is
  tighter, and one is capped by its limit alone; symmetric identifiers.
- `netem_service`: two identifiers on two interfaces, three applies, so that
  faults overlap and an identifier is used again.
- `lifetimes`: the agent's cgroups and the controller's replays, which share nothing; a
  behaviour is one of either, as in `services`.
  - cgroups: one identifier, one process beside the agent, two creates, two cleaners,
    one failure: a create over a live cgroup, a stale timer, a stale scan and the agent
    in a group of its own making all occur. Several identifiers, and the identifier
    `"test"`, which is also the name of the scratch group, are covered by the theorems.
  - replay: two messages in a stream that discards, two jobs, two seconds, 3-bit
    sequence numbers, so that a reversed range wraps; one range of one event and one
    that is reversed and is a dry run.
- `scheduler`: two wheels, two operations, a clock of five; delays in the past and
  at the edge of the first wheel, with and without jitter that pushes them into the
  second; the wheels turn at least once.
- `control_plane`: two agents, two requests, four posts, so that injections of one
  request and of two overlap on one agent. `agent_count` above the number of
  endpoints occurs (posts wrap around). The clock of the controller counts to one, which
  tells a delayed start from an immediate one; a fault of no duration and one of
  duration one overlap.
- `services`: five services that share no state. Run together their states would
  multiply and no property could tell; a behaviour is one of a single service, so
  they add. Each property is about one service and holds trivially in the others.
  - middleware: one key in two roles with different limits, a burst of two, four
    requests that pass, so that a bucket is emptied, idle, forgotten and emptied
    again. The limiters of different pairs do not interact.
  - exports: two jobs in two seconds, so that they share a second or not. Of three
    records, one longer than the others, requests export two in two whole chunks,
    two in three chunks that cut a record and end with a short one, one in one
    chunk, nothing, and in a format that is refused. Writes fail anywhere and the
    controller restarts anywhere. One file is downloaded; the others are the same
    to a client.
  - diffs: two keys with room for one after a clean-up, three states stored, callers
    that change what they submitted, five states whose distances lie on both sides of
    the threshold, one pair that differs in an ignored field only, one that changes the
    kind of a value.
  - health: agents at three endpoints and the database, a ticker of 4, intervals of 5
    and 6 (due at the second tick; like 15 s at a ticker of 10, neither is a multiple),
    timeouts of 3 and probes of 2, so that a second hung probe is cut short by the
    check and the third is not reached. Ages up to 14 are told apart; the longest a
    property needs is 13.
  - notifier: a client of high and one of low priority, two rooms of which one may
    exist, one place in it, buffers of two, two broadcasters with two messages each
    (so that one can take the place another made), one joiner, one reader of the
    statistics. A join holds the lock of the service to its end, so a second joiner
    would wait for the first; any number is covered by the theorems.
- `diff_threshold`: one key, states of four fields that change one after the other, a
  threshold of one half: the numbers of the test it quotes.

`CHECK_DEADLOCK FALSE` appears where a bounded clock or a bounded number of calls
lets the model stop; `lifetimes` and `writer_loses` never stop and check for
deadlock.

### Fairness

Nothing is assumed of a caller. What is assumed is that Go runs runnable goroutines. Where
one run has several services, the fair steps of a service that was not chosen are disabled
or change nothing, so that fairness demands nothing of them:

- Netem: time passes, an armed timer fires, a cleanup routine goes on ticking.
- Cgroups: the clock, and the first cleanup routine only. A timer that never fires
  would not matter to `TTLEnforced`.
- Scheduler: the ticker's goroutine sees the cancelled context, handlers return,
  goroutines proceed. `Stop` waits for handlers, so without returning handlers it
  would not terminate, in the code either.
- ControlPlane: time and the goroutines of the agents. Nothing of the controller:
  `http.Post` is used without a timeout and may hang.
- Notifier: threads run, and a lock that is free again and again is given to a joiner
  that waits (strong fairness; Go's mutexes turn to a starving waiter after a
  millisecond). Nothing of the readers of channels: `JoinsEnd` must not depend on a
  client that reads.
- Replay: the goroutine of each job. Its requests end with an answer or an error
  (the JetStream client gives a context without a deadline its default timeout) and
  `time.After` fires.

## 4. Proofs

`NetemProofs` holds, for every value of the constants that satisfies the named
assumptions of `Netem` (parameters and TTLs are natural numbers, `None` is no
record, at least one cleaner):

- **TypeCorrect**: `Spec => []TypeOK`. Besides the types it bounds the merged
  parameters by those asked for, which needs the lemmas on the merge of a set of
  configurations.
- **RecordsSound**: `Spec => [](ExperimentInterfaceKnown /\ IngressInForce)`.
  Neither is inductive: `ImportState` brings back what `ExportState` saved, so the
  same must hold of the saved state. `RecordsInv` adds `SavedKnown` and
  `SavedIngress` for this. The kernel's redirections only grow, which carries
  `SavedIngress` over the steps between.
- **BeliefSound**: for `EgressSpec` (callers of Apply, Revert, RevertAll; timers
  and cleanup; any command may fail), `BeliefMatchesKernel` and
  `ImpairedWhileActive` always hold. They are inductive together with `TypeOK`
  (`EgressInv`): a revert may delete the qdisc only if no experiment is left, and
  that is known from the records.
- **NetemImplementsFaultService**: `DisciplinedSpec`, with `CommandsMayFail` false,
  implements `FaultService` under the mapping in `Netem`: initial states map to
  initial states and every step maps to a step or a stutter. The steps need
  `EgressInv` and `NoLeftover`: an interface with netem has an active experiment,
  which is what working commands and disciplined identifiers buy.

- **RemainingStayInForce**: `EgressSpec => RemainingInForce`, an action property. A step that
  takes some experiments off an interface, leaves others and changes its parameters is
  a `Revert` that reached tc; the merged configuration covers each it was merged from
  (`MergeCovers`), and what is passed to tc of it covers what is passed of them
  (`ArgsCover`: a jitter counts only under a delay, and the merged delay is no smaller).
  For delay, loss and the other impairments this is what "in force" means. For rate and
  limit it is not: larger is weaker, and `mergeConfigs` (`netem.go:595-600`) takes the
  largest, so the property says only that a remaining cap does not disappear. In the
  other direction every parameter is one of a remaining experiment (`MergeAttained`,
  `ArgsBelow`), so nothing of the removed one is left, and a cap is no looser than the
  loosest that was asked for.
- **IngressAlwaysInForce**, **StaysImpaired**: the two parts of the above that runs
  check by name.

TLC checks the inductive invariants' parts in `netem_all` and `netem_egress`.

`ControllerProofs`, on `Admission`, for every set of keys and roles, all rates and every clean-up period
after which an idle bucket is full (`IdleRefillsAssumption`; the code's ten minutes
and bursts of a few requests satisfy it):

- **AdmissionTypes**, from `TypeInv`, which adds that a bucket was never looked at in
  the future.
- **ListIsCurrent**: what a client has cached holds every experiment listed in an
  earlier minute than that of its last question. `ListInv` adds that the ETag of a
  cached list is that of the minute it was last asked for.
- **RateIsBounded**: in every window there are at most a burst of requests and what the
  rate yields in the time between. Alone this is not inductive.
  `RateInv` says of every pair and every `i`: the tokens there are now, and the
  requests since the `i`-th, are within a burst and the yield up to now (`Paid`). A request
  moves one from the first to the second, time adds to both sides, and a limiter that
  is removed held a full burst, as its successor does: that is where the assumption is
  used, and the place where the code could go wrong.

`ControllerProofs`, on `Health`, for all dependencies, endpoints and intervals, under `HealthAssumption`
(timeouts shorter than the ticker's period): **HealthTypes**, **NoOverlap**,
**HealthyIsRecent** and **ReadyIsReached** (together **StatusesInTime**), from one invariant `HealthInv`. It ties the age
of a running check to the time since the tick that started it, which is what makes a
check end before the next tick, and bounds the age of a status of a dependency with
no check running by its interval and the phase of the ticker. **ChecksAreExact** adds what a check
has found out so far (`ChecksProbed`): as long as no endpoint changes, none of those
probed is up, and the time of the check is a probe's timeout for each of them that hangs
and the time of the present probe. So a check that times out has met too many that
hang, in front of any that is up. An answer and the timeout can come at one instant,
and then either may be first; the property leaves that instant open.

`ControllerProofs`, on `Exports`, for every data source, size of a chunk, set of requests, number
of jobs and second of the clock (`ExportsAssumption`, `VerifierAssumption`): **ExportsTypes**,
**ManifestsAreSound**, **StatusesTellOutcome**, **DownloadsResume** and **DiffsAreExact**.

- First the data. The readers of the source, the chunks, the Merkle tree of the service
  and that of the tool are recursive functions. Each is what its rule says
  (`Iterates` of `DataLemmas`), the two trees are built by one rule and agree on every
  list of chunks, and the chunks put together are the data for every length
  of it, the short last chunk included.
- `ExportInv` says of every job whose ID is its own what the storage has of it at each
  step (`ExportOf`): its first chunks while it stores, all of them before the manifest,
  and a manifest that is whole only with all of them. It also says who may own a
  file (`FilesOwned`), since a job is alone with its ID only if no earlier one left
  files under it. A step of one job leaves the files of the other IDs alone. A restart
  stops every goroutine where it is: a file cut off is a manifest that is not whole, or a chunk
  no whole manifest lists.
- `DownloadInv` says that a client has a prefix of a chunk of an export that has completed.
  A range request from the end of that prefix is then satisfiable unless it is the whole
  chunk, and its answer is the rest.
- `DataInv`, beside `ExportInv`, follows the data: a job that has fetched has the records its
  filters let through, read at some second of the clock, and from then on a job has them in
  its format; it never changes either. What `diff` does with the chunks is a chain of
  lemmas. `formatData` prints whole lines (`FormatIsWhole`), so a chunk begins with a record
  unless the one before it ends within one (`ChunkLoads`). Hence the tool loads all the
  chunks exactly when all the text is NDJSON and no chunk but the last ends within a
  record (`LoadsWhatReads`; `LinesPerChunk`); a CSV or Parquet export satisfies this only
  if it is empty (`OtherFormats`). Of what loads, the lines of a chunk that begin a record give the records (`LoadMembers`); over
  all chunks, which together are the data, that is every record once more, wherever the
  data are cut, because the beginning of a record is in one chunk only (`ManifestRecords`).
  The index has each record under its ID (`IndexOfRecords`), and two indexes of records of
  one source differ where the filters do and, `created_at` aside, nowhere else
  (`ComparedReads`). This needs records that have an ID, and no two the same
  (`VerifierAssumption`), as the source gives them (`"exp-%d"`): the tool falls back on a
  generated key for records without one, and that key is not unique.

`RealtimeProofs`, on `Notifier`, for any number of clients, rooms, joiners and broadcasters:

- **NotifierTypes**: who is about to enter a room, or sends to one, has a room that is
  there; rooms never go away.
- **LocksNeverDeadlock**: the part of `JoinsEnd` that is not fairness. A join holds the lock of the
  service to its end, so one that is past it is alone (`InsideAlone`, inductive with the types);
  then, wherever a lock is held or wanted, some thread's next step waits for nobody
  (`NobodyStuck`): whoever holds a lock is a reader of statistics, a broadcast that copies its
  list, or the one join, which waits for such a broadcast only. That a broadcast held up by
  a full buffer is not among them is what makes it true. Not checked by a run.
- **DeliveredInOrder**: `OrderInv` says that the messages of a broadcaster in any buffer
  are numbered upwards and not above its current one, that one it is still sending
  to a client is not in that client's buffer yet, and that it sends to members
  only.

`RealtimeProofs`, on `DiffEmit`, for all keys and data (`InputsAssumption` says only that data are functions
and values records), every threshold and every bound on what a clean-up keeps:
**ReaderStaysInSync** and **DiffTypes**.
The lemmas on the diff itself come first: applied to the state it was computed from it
gives exactly the new state, for fields that come and go, values whose kind changes
and nested values. `SyncInv` then adds that a reader is never ahead of the engine (`NotAhead`); without it a
reader might have a version the engine has yet to reach, with other data. The engine
compares with the map it holds, which its caller may have changed since its hash was
taken. Such a result misleads the reader, and the property leaves the key out until it is
stored afresh; for every other key the map is what was hashed when it is compared, which
is what the induction needs.

`SchedulerProofs`, for wheels of any number and sizes, any operations, delays,
intervals and jitters (`WheelAssumption`):

- **StopIsForGood**: once `Stop` has returned there is neither a ticker nor a goroutine,
  and only the ticker starts any.
- **OneGoroutineEach** and **IntervalIsKept**, from `FlightInv`: until something is
  cancelled an operation is in one slot of one wheel, or one goroutine has it, or it is
  gone. So a tick, which collects slots of several wheels, finds it at most once. For
  the interval the invariant keeps an account of time: what the runs so far took at
  least, counted from the creation, is not later than the next run. A cancellation
  breaks the first part (section 6), and both properties end there.
- **SchedulerTypes**, from `TypeInv`, which holds after cancellations too. A slot within its wheel
  is the hard part: the size of a wheel is a product over those below it (`WheelSizes`).
- **PanicNeedsLateness**: an operation that is not late by a slot or more always has a slot
  (`LateByASlot`), so that only a late one panics.
- **StatsAreExact**: the runs that began are those in their handlers and those counted, as sums
  over all operations, of which a tick changes several summands and a return one; and
  `ActiveOperations` is the number of registered operations until something is
  cancelled, which needs `FlightInv` (a run that ends unregisters its operation once).

`ControlPlaneProofs`, for any agents and endpoints, any requests and any number of them
(`RequestsAssumption`, `EndpointsAssumption`): **ControlPlaneTypes**,
**FaultsHaveOwners** and **InjectionsAsAsked**, from one invariant `Inv` of the composition. `DispatchInv`
says what the controller keeps: posts are left to make only while they are
made, and not before the start time. `PostedOnce` connects the two sides: every injection at
an agent comes of one post of one copy of a request, made to the agent the copy goes
to, and that post is not made again. With it the injections of a request on an agent are
at most the rounds the copies make over the endpoints, which is a statement about
cardinalities and division (`Rounds`). `FaultHasOwner` is inductive beside them: a qdisc that is on eth0
belongs to a goroutine that sleeps, unless tc failed there or the agent died. Each
action of an agent is a lemma about `Injection` alone; `Separately` puts the two sides
together.

**ControlPlaneImplementsService**: `Spec => ImplementsExperimentService`. The mapping of
`ControlPlane` shows clients the phase of each injection (reached, on, over) for the stage of its
goroutine, and an agent as impaired when some netem is on its eth0. A request accepted is
`Ask`, a post that arrives is `Reach`, the steps of a goroutine are `Begin`, `Pass`, `End`, and
one that hits the agent itself is `Die`; the controller's own steps, lost posts and restarts
are not seen. Where the proof needs the invariant: `Reach` may happen once for each copy
(`PostedOnce`), only for copies asked for and not before the start (`PostsWhilePosting`), and
`End` of a network fault is of one that sleeps, which `StagesFit` says (only network faults
sleep, and only sleepers have time left). What the abstract module makes plain is what is
*not* promised: the first of overlapping network faults to end ends the impairment, and an
accepted experiment may become no fault at all; and a network fault whose `tc qdisc add`
fails counts as on and impairs nothing, on an eth0 without netem as under another fault
(`experiments.go:123`), and nobody is told.

`CgroupsProofs`, for any identifiers, processes, limits and numbers of failures, where no
experiment has the name the model gives to the places outside all groups
(`GroupsAssumption`): **CgroupTypes** and **RecordsStayTrue**. The
two properties are inductive together (`CgroupsInv`), where the types say that a process
is in a group that exists. Each system operation is a lemma about the kernel as a value
(directories, limits, places), and one step changes one group of it. That limits once
written are unchanged by writing them again (`LimitsIdempotent`) makes what a create
has just recorded agree with the kernel; identifiers become suspect where the code
breaks the agreement, and the proof shows that it breaks it nowhere else. A caller may
add any process to a group, the agent itself included (a pid of 0 is the writer).

`ReplayProofs`, for any streams, ranges, clocks and numbers of jobs: **ReplayTypes**,
**StaysInRange**, **StaysListed** and **NeverCompletes**. `ReplayInv` bounds what a job has counted by the part of
its range that lies behind it, which is what survives a consumer that outlives its job;
of a reversed range the callback sees nothing, so nothing counts against a total that
has wrapped around. A job that nobody cancelled and that has not ended is "pending" or
"running", so that no clean-up takes it, and if its ID names another job, that one
was started later. That no job becomes "completed" (`NeverCompletes`) needs more than
`ReplayInv`: past the `select` no status is "running" any more (`NoneCompleted`), a
cancellation that comes between two steps of the goroutine included.

The theorems of `ControllerProofs` and `RealtimeProofs` are
about the specification of the service alone (`AdmissionSpec`, `HealthSpec`, `ExportSpec`,
`NotifierSpec`, `DiffSpec`); the run's behaviours of that service satisfy it.

`DataLemmas` holds what several of these proofs need. The library states induction for an
operator, which the provers cannot instantiate; it is used here for the set of the
numbers with a property (`InductionUpTo`, `SubsetInduction`), from the fact that a
nonempty set of numbers has a least element. Sums over a finite set (`SumsExist`, `SumOfOne`,
`SumOfAddition`) and recursive functions (`Iterates`) come from it.

Only model-checked:

- every liveness property (`TTLEnforced` of both managers, `ImpairmentEnds`,
  `StopTerminates`, `FaultsRemoved`, `EveryJobEnds`, `JoinsEnd`): fairness and ENABLED are
  beyond the prover;
- the findings, which are violations.

## 5. Findings

1. **A filtered fault after a revert does nothing** (`netem.go:731`). `Revert`
   deletes the netem qdisc but leaves `HasNetem` set, so the next
   `ApplyWithFilter` skips "First ensure we have a netem qdisc" and records a fault
   that is not in force.
2. **The scheduler drops operations** (`scheduler.go:182`). A slot that is reached
   is emptied, including operations not due yet, and slots are counted from the
   start of the wheel and not from `currentSlot`. Nothing "cascades".
3. **Validated experiments are unknown to agents** (`middleware.go:107`). The
   validator wants `network_latency`, the agent and the API document
   `network-latency`: what passes is ignored and what would work is refused.
4. **Events are acknowledged and not stored** (`writer_service.go:114`,
   `eventbus.go:287`). The handlers parse a map printed with `%v` as JSON, which
   fails, and the deferred `Ack` acknowledges anyway.
5. **Small changes add up unsent** (`diff_emit_engine.go:216`). A state below the
   threshold is stored although it is not sent, and the next change is compared with it.
   `TestDiffEmitEngine_Threshold` (`namespace_backpressure_test.go:224-239`) expects
   "Changes at threshold should be emitted" of a state with two of four fields changed
   since the last one sent; the code sees one of four and sends nothing.

## 6. Behaviour worth knowing

The models have these behaviours because the code does, unless a sentence says that
they are outside the models. The properties above are stated so that they hold beside
them. Most are described nowhere; the following texts of the repository say otherwise:

- `agent/scheduler_test.go:124-133` expects a repeating operation with a count to be
  removed after that many runs: `RepeatCount` is never copied to `MaxRuns`.
- `agent/scheduler_test.go:164-171` expects that a cancelled operation does not run:
  `CancelOperation` leaves it in its slot, and the ticker starts it if its time comes.
- `controller/HTTP_CONFIGURATION.md:16`, `:55-58` and `:125-133` describe retries of
  requests to agents with a growing delay: `handlers.go:183-191` posts once. That a
  delivered request is not repeated (`InjectionsMatchRequest`,
  `ImplementsExperimentService`) rests on this; a retry after an answer that got lost
  would break it, and is the mutant of the latter.
- `controller/HTTP_CONFIGURATION.md:109-115` describes limits of 1000 requests per second
  per address: `middleware.go:187-202` and `:285-314` keep one limiter per API key (all
  callers without one share "anonymous") and role, of 1000, 100 or 50 by role.
- `controller/middleware_test.go:203-205` and `:221-223` (`TestHealthEndpoints`) expect
  200 from `/healthz` and `/readyz` of a checker just created: until the first check
  its critical dependencies are "unknown" and it is not ready. `ReadyInTime`, a part
  of `StatusInTime`, is about the time after that.
- `controller/export_service.go:619` calls job IDs unique: those of one second are equal.
- `cli/README.md:11` and `:62` promise CSV, Parquet and a comparison of any two
  exports: `diff` reads NDJSON only and refuses an export a chunk of which cuts a record.
- `controller/namespace_backpressure_test.go:387-399` changes a map it has submitted and
  expects the change to be found: the engine compares the map with itself.

*NetemManager.* The cleanup routine reverts by identifier after unlocking, so its
verdict may hit a newer experiment of that name. TTL timers are never stopped: the
timer of a reverted experiment ends a later one of the same identifier early.
`ImportState` arms no timers and starts one more cleanup routine. `Revert` leaves
`CurrentConfig` as it was. A refused `Apply` leaves the record of its interface, so
`RevertAll` deletes a root qdisc that was never the manager's. Reverting an ingress
fault leaves the redirection. Applying an active identifier to another interface
overwrites its record and nothing removes the first fault: the properties of
`netem_egress` do not see it, since the interface stays recorded with a netem that it
has, and `netem_service` leaves such callers out. A remaining experiment's tighter cap
is not enforced while a looser one is active.

*CgroupManager.* `AddProcess` takes any pid, and 0 or its own moves the agent.
The support check (`validateCgroupsV2`) writes 0 to `cgroup.procs`, which moves the
agent into `chaoslabs/test`; an experiment called "test" would limit the agent and
destroying it would kill the agent. A failed create over a live cgroup removes it or
leaves it with half of the new limits. A create keeps the old limits of fields that
are not set. `CPUMax` overrides `CPUQuota` in `cpu.max`. `NetworkClass` is not used.
Timers and scans are stale as in NetemManager.

*Scheduler.* `CancelOperation` shortens only its local copy of a slot's slice: the
cancelled operation may still run and its neighbour run twice. Cancelling during a
run decrements `ActiveOperations` twice. `MaxRuns` is never set from `RepeatCount`.
A negative delay, from a `RunAt` in the past or a handler slower than its
interval, panics.

*Control plane.* Experiments that wait for their start time are lost when the
controller restarts. A failed post is not repeated. Overlapping network injections
share the root qdisc: the second is silently not installed, and the first to end
removes it for both.

*Events and replay.* Consumers ask for new messages only, so what is published while
the writer is down is never seen. Event IDs are not given to the server for its
duplicate detection. A replay job never becomes "completed" (`NeverCompletes`). `CancelReplay` does not
stop the goroutine, and the status becomes "timeout" later; such jobs are never
cleaned up. A job that has just failed has a zero `EndTime` and may be cleaned up at
once. Two jobs on one range in one second share an ID. `Stop` waits for a group
nothing was added to. A reversed range wraps around.

*Exports.* The random part of a job's ID is constant, so jobs created in one second
share it: the second replaces the first in the map, takes its status updates and
mixes its files with its own, and the first can stay "processing". `TotalRecords` counts
chunks. `Error` also carries messages of progress. `ExpiresAt` is not looked at. After a
restart a completed export cannot be reached. `bytes=-n` returns the first n+1 bytes.
`GetExportJob` returns the job its goroutine goes on writing (outside the model: no
property tells the two reads apart). Chunks are cut at bytes, so `diff` refuses an
export of several chunks where a record is cut; CSV and Parquet exports cannot be
loaded by it; two empty exports are "DIFFERENT" with similarity 0.

*Diffs.* `Reset` replaces the locked mutex and unlocks the new one, which ends the
process. A slow drift, each step below the threshold, is never emitted. Versions
start at 1 again after a clean-up. The reader of the model gets every result, so it gets
the full state sent then; one that lost it could take a diff of the new numbering for one
of the old, and would have to number deliveries itself. Keys in
use whose state does not change are evicted first. The stored state is the caller's
map: a caller that changes it and submits it again has it compared with itself, so that
its changes are in no result.

*Health.* Nothing is healthy in the first interval. Effective periods are multiples of
the ticker's. Two endpoints that hang use up the timeout of a check and hide a third that
answers. The database's check always succeeds. `GetHealthStatus` and
`GetReadinessStatus` return the map itself, which is encoded after unlocking while
checks write to it (outside the model).

*Notifier.* `MaxClientsTotal` is compared with a table nothing fills. Filters given
when joining one room apply to the client's messages of all rooms. A client that is a member already is refused by a full room. Between the
full channel and the drop, a reader can empty it: then the message for a client of
high priority is given up. A message dropped for a client of normal priority is not
counted. Nothing registers clients or drains their channels, so that the broadcast to
one of high priority waits for ever; it holds no lock by then.

## 7. What is not modelled, and the plan

Not modelled, with the reason:

- **useWebSocket** and the dashboard's pages: when effects run is decided by React, and
  what a socket does by the browser; src/ contains neither.
- **preflight and doctor**: one-shot probes that print a report. `agent/preflight.go` does
  not parse as Go; there is nothing to be faithful to but its intent.
- **Schema and migrations, TimeSeriesManager**: database commands in sequence; their
  effect is MongoDB's, and what is stored is a variable of the models that use it.
- **health_enhanced.go**: returns sample figures.
- **Observability, benchmark**: no behaviour depends on them.
- `downloadExport` and `info` of the CLI: they print. (The file does not compile:
  `downloadExport` declares arguments as bool and is given strings.)
- Of the notifier: rate limiters, merging, compression, Redis and the clean-ups, which
  are stubs.
- Of EventBus: `ReplayEvents` (no caller) and the dead letter queue (nothing is published
  to it); of Replay, the copies of the statistics written without a lock.

Work done, in order: the managers of the agent, the path from a request to a fault, the
scheduler, the middleware, events, writer and replay; then exports with the tool that
reads them, diffs, health checks and the notifier. With these every component whose
source carries state and can be read as a program has a module.

Every invariant and every action property a passing run checks is a theorem, and so are both
refinements. The types of the five services of `MCServices` are theorems only
(`AdmissionTypes`, `ExportsTypes`, `DiffTypes`, `HealthTypes`, `NotifierTypes`). What is worth
proving next: more invariants that support the liveness properties, as `LocksNeverDeadlock` does
for `JoinsEnd` (a timer or a scan is always there for a fault with a TTL; a job that works has
a goroutine), of which only the last step needs fairness, and an abstract specification of exports (a request becomes data that can be
read back, or a failure).

## 8. Running it

    tlc -workers 2 -config NetemAll.cfg MCNetem
    tlc -workers 2 -config Services.cfg MCServices
    tlapm NetemProofs.tla

and likewise the other configurations, each with the module PROJECT.json names, and the
other modules of proofs. `services` takes about two minutes and `lifetimes` about two and
a half, most of it for the liveness properties; the other runs are shorter.
