# Formal models of SimCity AI Mayor

The program plays a city game on an Android device: it takes screenshots over
adb, reads them, decides on one tap at a time, makes it, and looks again. Beside
that loop stands a layout pipeline, which searches for a better arrangement of
the city, orders the changes into a plan, and carries the plan out against a live
map. This directory holds TLA+ models of both, TLC configurations that check
them on small instances, and TLAPS proofs for all instances.

Source paths are relative to `src/src/simcity_ai_mayor/` unless they name
`README.md` or `docs/`, which are the repository's. Each definition that models
code is listed with its lines in `PROJECT.json`, under `map`.

    tlc -config MCCommandQueue.cfg MCCommandQueue.tla     # a run
    tlapm CommandQueue_proofs.tla                         # the proofs of a module

All figures below are for these configurations. A run takes between a second and a
minute with four workers.

## 1. Inventory

### The automatic loop

| Component | State | Operations | What makes it correct |
|---|---|---|---|
| Command queue, `device/command_queue.py` | FIFO queue, `unfinished` count, cancel and closed flags, sequence numbers, one future per command, a worker thread | `submit`, `request_cancel`, `clear_cancel`, `drain`, `close`, `_run` | writes are serial and in order; `drain()` means that nothing can still reach the device; the worker does not die |
| Orchestrator, `runtime/orchestrator.py` | the frame, the proposal, the blocked-storage flag, the count of loop errors | `run_once`, `run`, `run_for` | a timed-out write is over before the next look; every write is counted; a stop is obeyed; evidence is earned |
| Planner and policy, `planner/v0.py`, `core/v0_policy.py` | none of its own; charges and releases quota | `plan`, `before_write`, `verify` | nothing is started that the quota or the warehouse does not allow |
| Quota store, `storage/quota_store.py`, `storage/session_store.py` | persistent count per session | `record_output`, `release_output` | never less than what was started |
| Keeper, `executor/keeper.py` | none | `evaluate` | premium, risky and too frequent actions are denied, and denial ends |
| Runtime metrics, `runtime/metrics.py` | event window, cooldowns, acceptance tracker, time of the last save | `record_action`, `rate_window`, `start_action_cooldown`, `record_*`, `mark_*`, `flush`, `close` | the windows hold for the taps; evidence is saved and never erased |
| Session store, `storage/session_store.py` | SQLite: session, quota, evidence, lease row | transactions | one owner per device; crash recovery |
| Storage validation, `vision/storage_validation.py` | baseline, expected collect, fused confidence | `read`, `expect_delta`, `clear_expectation` | true readings are believed, implausible ones are not, and trust returns |
| Emergency stop, `runtime/emergency_stop.py` | an event, a flag file, a watcher thread | `check`, `trigger`, `start_watchers`, `close` | the stop is latched, and ends the run |
| Application, `runtime/app.py`, with `device/adb.py` at the start | what it has made and must close | `run_app`, `main` | whatever fails at the start or is interrupted, the lease is given back, after the last write |
| Readers, configuration, phase 1 probe | | | outside the models, see section 8 |

Three threads meet here. The main thread plans and waits for futures. The worker
thread executes commands. The emergency-stop watcher sets an event that the main
thread looks at before each step that could write; a hotkey thread may do so too. A
fourth party is the game itself, which the player may operate at the same time, and a
fifth a second process on the same device, which only the lease keeps out. The
main thread calls everything synchronously; it shares with the worker only the
queue and the futures, and with the watcher only the event.

Hard behaviours: a future that times out while its function is running; Ctrl-C in
the middle of that timeout's handling, of the start or of the shutdown; a frame that is stale, covered or
unrecognised just after a tap that worked; a crash between the charge of the quota
and the tap; a database that fails after the tap; time that passes between a
decision, its tap and its sample.

### The layout pipeline

| Component | State | Operations | What makes it correct |
|---|---|---|---|
| City map, `city/map_model.py` | size, blocked cells, roads, buildings | `can_place`, `candidate_origins`, `move_building`, `road_access`, validation on construction | nothing overlaps or leaves the grid |
| Layout search, `layout/joint_optimizer.py`, `optimizer.py`, `road_optimizer.py` | a working copy, the round | relocation, repair of road access, removal of roads | roads stay connected, nobody loses access |
| Construction planner, `layout/construction.py` | steps and dependencies | `build` | the steps can be executed in their order |
| Staging solver, `layout/staging.py` | plan so far, what is unresolved | `resolve` | circles are opened or given up; each step can be executed |
| Construction executor, `layout/execution.py` | expected map, report | `run` | the report claims only what a scan has shown |
| Identity reconciler, `city/identity.py` | none | `reconcile` | a building keeps its identity |
| Map scan and merge, `vision/map_scanner.py`, `map_detectors.py`, `map_merge.py`, `map_app.py` | the detections of a tile, the merged map | `scan`, `detect`, `merge` | the map is what the tiles show together, in whatever order |
| Scorer, map files | | | outside the models, see section 8 |

The scan turns screenshots into a city map, the input of the search. The search hands its map to the planner, the planner its steps to the solver, and
the solver its plan to the executor, which alternates between one action and one
scan. So far the solver and the executor are called by the tests only: the
executor's adapter, which would operate the game, is not in the repository.

Hard behaviours: a dependency that is missing from the plan; circles of moves that
wait for each other; an action that returns without effect, or raises after it; a
scan that fails; a player who builds between two steps; tiles that overlap, cut a
building in two, or show a building differently.

## 2. Modules

Each module with a name of the form `MCx` gives the constants of module `x` their
values. `x_proofs` holds the theorems about `x`.

| Module | Models | Composition |
|---|---|---|
| `SerialWriter` | the abstract promise of the command queue | |
| `CommandQueue` | `device/command_queue.py`, statement by statement wherever another thread can come between | implements `SerialWriter` |
| `WriterSession` | the main thread's use of the queue in the loop (`orchestrator.py:213-335, 436-489, 529-563`) | extends `CommandQueue` |
| `AppRun` | a run of the program from start to exit (`app.py:46-196`), with the watcher, the lease and Ctrl-C | extends `WriterSession` |
| `V0Loop` | `run_once()`/`run()`, planner, policy, quota, tracker, stop, game, player | uses the queue as `WriterSession` shows it to be |
| `RateGate` | the Keeper over the event windows and cooldowns | relies on `WritesAreRecorded` of `V0Loop` |
| `StorageGate` | the temporal validation of the warehouse counter, with the collect part of the loop | |
| `MetricsLease` | acquire, load, renew, save, release of several processes | |
| `MapScan` | scan of the tiles and their merge | uses `CityGrid` |
| `CityGrid` | `city/map_model.py`: the operators on maps | |
| `LayoutSearch` | the joint search | extends `CityGrid` |
| `ConstructionPlan` | planner and staging solver | extends `LayoutSearch` |
| `ConstructionSite` | executor, live city, adapter, player | extends `ConstructionPlan` |

### CommandQueue and SerialWriter

`submit()` is four actions (test of `_closed`, sequence number, `put`, refusal),
because only the number is taken under the lock. The worker's loop is cut at
`get`, the tests of the future and of the cancel flag, the test of the order,
`set_running_or_notify_cancel`, the call, its settling and `task_done`. `close()` is
three actions and `clear_cancel()` two. `future` follows `concurrent.futures`
(external), including the `InvalidStateError` that ends the thread when a future is
cancelled behind the worker's back. `puts` and `place` are history: they say where
in the queue a command was put.

`SerialWriter` says that accepted commands begin one at a time, each at most once,
in the order in which they were accepted, or end without having begun. Under the
refinement mapping `PhaseOf` a command executes while the worker is inside its
function; `ImplementsSerialWriter` is that implementation.

### WriterSession

The main thread of the loop, at the points `idle`, `planning` and `cleared` (the two
checks of the emergency stop passed), `submitting`, `waiting`, `expired`, `cancelling`,
`draining`, `reopening`, `recording`, and those of the Ctrl-C handler: `interrupted`,
`flushing`, and `unwinding` when the Ctrl-C strikes inside the timeout path and its
`finally` still runs `clear_cancel()`. Every step of it that touches the queue is an
action of `CommandQueue`, so that `AppSpec` implements the queue's specification, which
is proved. The drain is the queue's `unfinished = 0`. `halted` is history: a stop, a Ctrl-C or the
error limit has cancelled the writer for good.

### AppRun

`stage` is where `run_app()` is: seven steps of the start, each of which may raise into
the `finally` clause, the loop, and the five steps of the `finally` clause. `made` is
what the clause finds to close. The loop's steps are those of `WriterSession`, joined with the stop
(`latched`), the deadline (`expired`) and the exit status. `PressCtrlC` may strike at any
point, `MaxPresses` times: in the start it leads to the `finally` clause, in the loop to the
handler or, outside the `try` of `run()`, out of the loop, in the handler and in the clause out
of it. Every call of the store may raise, in `metrics.close()` as in the handler. `cause`
(history) is what may have left the lease's row, or a running write (`"handler"`), behind.

### V0Loop

`pc` is where `run_once()` is; each early return and each `except` is an action of
its own, and `run()` around it counts the errors that escape. `tap` and `effect` are
the write in hand: the game changes when the tap hits (`Hit`) and not when the
future says so. `reserved` is the persistent count, `started` (history) what the
game really started in this session, `owed` (history) a write without a sample that no failing
store explains. `Stops` is the
end that the emergency stop makes, whose own tick may raise. A rule for the state COLLECTED may
match an idle factory; the planner does nothing with it.
`Environment` is the set of behaviours of the surroundings:

| Member | Meaning |
|---|---|
| `player` | the player clears the warehouse by hand |
| `stale` | a frame fails the freshness test |
| `lag` | the frame shows the state before the tap |
| `ambiguous` | the screen or the factory is not recognised |
| `popup` | the screen is covered, or changes by itself |
| `fastfinish` | an item is finished before the fresh frame after its tap |
| `interrupt` | Ctrl-C |
| `crash` | the process dies, and is started again |
| `storefail` | a transaction of the store raises |

Timeouts, failing observations and missed taps are always possible.

### RateGate

The event window is a sequence of samples with ages. `Approve`, `Tap` and `Record`
are separate and time may pass between them, as the retry mark is computed before
the write and the sample stamped after it. The order of `Keeper.evaluate` is kept.
`taps` is history: when the device was really touched.

### StorageGate

`Observe` takes a frame and runs the validator's `read()` on it; `Collect` or
`Skip` is the planner's decision, `Collect` announcing the change; `TapEnds` is the
write. Its `Environment` has frames
that show nothing (`none`), that are read with little confidence (`low`) or with one
that needs a second reading (`weak`), or that are late (`lag`), taps that are `missed`,
and a player who `adds`, `clears` and `expands`. `Misreadings` are the counts a frame may be
misread as, with a confidence that alone does not suffice. `clean` is history: nothing has
happened that the reader has no way to explain. So is `behind`: how many items the last frame does
not show, as it was late (`ReadLate`) or the player has added some since; after a misreading by a
reader that was not `clean` it is more than the margin.

### MetricsLease

Every transaction is one action, at the granularity at which the code begins and
commits. `Gone` is the owner recorded by a process that has died; the next one has a
new `owner_id`. `missed` is history: the last renewal did not reach the store.

### MapScan

A screenshot is a part of a city that stays as it is. `Look` is what the detectors match in a
tile: every building that is wholly shown, possibly one more beside it with a lower
score, and the cells. `Slip` is an error of theirs, on a building or on a cell. `SortOut` is the greedy suppression of
overlapping matches, best first. `Scanned` makes the tile's `CityMap`, whose validation
may raise. The merge goes tile by tile and building by building, as the code does.
The id of a building is its template's prefix and its place, and is left out.

### The layout modules

A city is a record of the set of roads and the place of each building. The search
accepts any change that the code's tests permit: scores only choose among those.
`ReworkRoads` begins a rework of the roads, and `RepairAccess` is one turn of the loop in
`_repair_missing_access`: `unrepaired` are the buildings still to be looked at, in the
order of the map. Steps of a plan are named as the code names them, so that its order by
name is the model's order by tuple. The plan is built step by step, since the solver's
loop may not end. `drafts` are the maps that the steps make of the given one, one after
the other: the code replays the plan's prefix (`_replay_prefix`) whenever it needs the
last of them, and `Replays` says that the replay does not raise (`Replayable`: moves are tested
as the executor tests them, roads only by the validation of `CityMap`). That the executor can take
every step is `Executes`. The queue of the
topological order is not kept as such: `Order` takes the step that was freed before all
others (`FreedBefore`). `Act` may have its effect or not, and raise or not; the `Verify` after it
reconciles the scan with the expected map. `blind` (history) counts the actions that
were performed since the known city was last like the live one. The steps the
solver appends while it turns without progress are left out (`PutAside`), so that the
endless loop is a finite cycle of states.

## 3. Runs

| Run | Instance | States | Shows |
|---|---|---|---|
| `queue` | 2 threads, 3 commands, queue of 2 | 269,616 | `DrainedIsSettled`, `IInv`, `ImplementsSerialWriter` |
| `session` (`MCAppRun`) | 1 thread, 2 commands, queue of 2, 2 loop errors, 2 presses of Ctrl-C | 492,778 | `NoLateWrite`, `WorkerSurvives`, `HaltedStaysCancelled`, `LeaseCoversWrites`, `LeaseGivenBack`, `EndsWhenTold` |
| `loop_quota` | warehouse of 3, margin 1, reserve 1, cap 2, 2 loop errors, 1 item of each kind of evidence; exact readings with everything of `player`, `stale`, `interrupt`, `crash`, `storefail` | 3,159,296 | `SessionCapHolds`, `CollectsWhatItStarts`, `QuotaInv`, `EvidenceIsEarned` |
| `loop_stop` | warehouse of 2, cap 1; all behaviours but `crash` and `player`; fair | 205,344 | `OneWriteAfterLatch`, `WritesAreRecorded`, `OnlyTapTransitions`, `EvidenceIsEarned`, `StopsWhenAsked`; finding 5 |
| `loop_ambiguous` | as `loop_quota`, only `ambiguous` | violated | `SessionCapHolds` fails, finding 1 |
| `rate_gate` | 2 actions; windows 1, 4, 4; cooldown 2; 2 per minute, 2 retries; breaker from 4 samples above 3/10 | 282,922 | `RateCap`, `RetryCap`, `WindowsInv`, `GateReopens` |
| `storage_gate` | capacities 3 and 4, margin 1, fusing over 2 frames, all behaviours, misread as any count up to 5 of 5 | 26,159 | `TrueReadingsAccepted`, `CollectFits`, `TrustReturns` |
| `storage_clear` | the same, the player only clears | violated | `ManualClearRecovers` fails, finding 2 |
| `lease` | 2 processes, lease 8, interval 2, gap 2, failing transactions, crashes | 70,962 | `OneOwner`, `NeverErased`, `EvidenceIsSaved` |
| `construction` | grid of 4 by 2; three buildings of one cell, two of them alike and movable; three cities; 2 rounds; connectors up to 2; 2 changes by the player | 216,860 | `TargetIsSound`, `PlanExecutesOffRoads`, `CompleteIsTarget`, `OneStepBlind`, `ServedAllAlong`, `SiteInv`, `SimpleCyclesEnd`; finding 3 |
| `staging_hang` | grid of 6 by 2, a villa of two cells and two houses, 1 round | violated | `PlanEnds` fails, finding 4 |
| `map_scan` | map of 3 by 2; templates of one cell (two) and of two; two cities; three ways to tile; 2 slips | 125,065 | `MergeIsUnion`, `ExactScanIsCity` |

The runs `session`, `lease` and `map_scan` also check the module's type
invariant; that of `StorageGate` is proved (`GateTypes`). In `queue` it is part of `IInv`, in `loop_quota` of `QuotaInv`, in `rate_gate` of
`WindowsInv`, in `construction` of `SiteInv`: these four are the inductive invariants of
section 5. A run shows that such an invariant holds on the instance; that it is inductive, for
all instances, is what the proof adds.

### Bounds, and why they are enough

- `queue`: `MaxSize` 2 with three commands reaches the full queue, a gap in
  the numbers after a refusal, a command behind one that is running, and one behind
  that. Two threads are what reordering between number and `put` needs. Every command
  is submitted once, so the counters are bounded without a guard. A run in which
  everything is submitted has nothing left to do, and deadlock is not an error here;
  in every other run it is.
- `session`: two commands are a write that times out, or is interrupted, and one that comes after
  it. Two presses are a Ctrl-C and another one in its handler or in the shutdown.
  Two loop errors reach both the retry and the limit.
- `loop_*`: with a cap of 2 the last admissible production and the first one refused are
  both reached, and a release between two charges. Warehouse, reserve and margin make
  room for the free, the nearly full and the full warehouse. `Enough` is the number of
  times each piece of evidence is wanted (three in the code); one suffices, as counts
  above it are not distinguished. `MaxLoopErrors` 2 reaches both the retry and the
  abort. The two runs divide the behaviours between them: `loop_quota` has exact readings, since its
  first claim is false with ambiguous ones (finding 1), `loop_stop` those that mislead.
  `EvidenceIsEarned` is asked of both: a recovery needs the player, and what a crash loses needs the
  restart, while a tap that only seems to have worked needs a late or covered frame. All together
  are too many states; the theorem `EvidenceEarned` has no such bound. A warehouse of 2 with margin 1
  is free, nearly full and full as well; `loop_quota` has one of 3, in which two items fit.
- `rate_gate`: windows of 1 and 4 ticks against a cooldown of 2 allow a tap before, in
  and after each; ages beyond `Retention` are pruned, as in the code, so time needs no
  bound.
- `storage_gate`: two capacities are one enlargement. A warehouse of 3 or 4 with margin
  1 has a counter that is free, at the margin, and full.
- `lease`: a lease of 8 is exactly `Interval + 3 * Gap`, the least that the assumption allows
  (with 7, `OneOwner` fails): it expires after a crash, after failed
  renewals, and not otherwise. `MaxEvidence` 1 suffices to see evidence erased.
- `construction`: on eight cells the search finds exchanges of two houses (circles),
  detours over connectors and removals. `MaxChanges` bounds the player's changes and
  `MaxRounds`, `MaxConnector` are the code's own parameters.
- `map_scan`: one pair of tiles overlaps in a column and cuts the villa of one of the cities, one
  list of three tiles has the villa cut in one and whole in another, one has a tile beyond the
  map. A slip in each of two tiles is what a disagreement between them needs.

## 4. Fairness

| Module | Assumed | Why |
|---|---|---|
| `AppRun` | weak: the worker | every adb call has a timeout (`adb.py:84-109`), so a command's function returns or raises |
| | weak: the main thread, the watcher | they are scheduled; nothing is assumed of the deadline, the operator or the store |
| `V0Loop` (`FairSpec`) | weak: main thread, writer | as above; nothing is assumed of game, player, latch or deadline |
| `RateGate` | weak: time | the clock runs; nothing is assumed of the loop |
| `StorageGate` | weak: frame, decision, end of the tap | the loop runs |
| | strong: a frame read with confidence | of frames taken for ever, some are readable |
| `MetricsLease` | weak: time, loading, metrics calls, release | each cycle calls metrics several times |
| | strong: renewal, refusal, save | the database does not fail for ever |
| `ConstructionSite` | weak: solver, executor | the calls return |

`EndsWhenTold`, `StopsWhenAsked`, `GateReopens`, `TrustReturns`, `EvidenceIsSaved` and
`SimpleCyclesEnd` are the liveness properties these assumptions serve.

## 5. Proofs

Every safety property that a passing run checks is a theorem, and so is every action
property. The theorems hold for all values of the constants that satisfy the `ASSUME` of the
module, named in each: `QueueAssumption`, `SessionAssumption`, `AppAssumption`,
`LoopAssumption`, `RateAssumption`, `GateAssumption`, `LeaseAssumption`, `MapAssumption`,
`CitiesAreMaps` and, for `ConstructionSite`, `GridAssumption`, `SearchAssumption` and
`SiteAssumption`. Apart from the numbers' signs and the order of windows and capacities they
say: the given map is one that `CityMap` accepts (`SearchAssumption`), the city that is scanned
is one too (`CitiesAreMaps`), buildings with one fingerprint have one size and are movable
together (`SiteAssumption`), and how long a process may be held up (`LeaseAssumption`, section 7).

| Invariant | Module | Says what the property does not |
|---|---|---|
| `IInv` | `CommandQueue` | where each accepted command is, and what is owed for it |
| `AppInv`, `ProcessInv` | `AppRun` | what the main thread still waits for; from where `finally` is reached |
| `LoopInv`, `EarnedInv`, `QuotaInv` | `V0Loop` | what the frames still tell; which reservation covers the write |
| `CapInv`, `RetryInv` (`WindowsInv`) | `RateGate` | which sample counts for which tap; which failures are marked |
| `GateInv` | `StorageGate` | how far the counter may be from the baseline |
| `LeaseInv` | `MetricsLease` | how much of the lease is left at each step |
| `ScanInv`, `SeesTheCity` | `MapScan` | what has been taken so far; that nothing shown is lost |
| `SiteInv` | `ConstructionSite` | the map after each step of the plan, and which of them is known |

### CommandQueue_proofs: any commands, threads and queue size

`Invariant`: `Spec => []IInv`, and from it `TypeCorrect`, `DrainIsComplete`
(`DrainedIsSettled`) and `CompletesInOrder` (`CompletionOrder`).
`QueueIsSerialWriter`: the implementation of `SerialWriter`.

That `unfinished = 0` settles every future does not follow from itself: one has to
know where each accepted command is. `IInv` says that it is in the queue at the place
its `put` gave it (`InQueue`, `Behind`), in the worker's hand with a future that fits
the worker's place in `_run` (`InHand`), or settled; and that `task_done()` is owed
for the first two (`Accounting`). `CompletionOrder` needs besides that a command the
worker is about to execute has a number above the last completed one (`Ordered`).

### AppRun_proofs: any commands, queue size, error limit and number of Ctrl-C

- `AppUsesQueue`: `AppSpec => Spec`, the queue's specification. With it `IInv` holds of the program,
  and `AppWritesSerially` (`ImplementsSerialWriter`) follows from `QueueIsSerialWriter`.
- `AppInvariant`: `AppSpec => []AppInv`, and from it `NoWriteIsLate` (`NoLateWrite`), `WorkerLives`
  (`WorkerSurvives`), `HaltHolds` (`HaltedStaysCancelled`) and `LeaseCovers` (`LeaseCoversWrites`).
- `LeaseReturns` (`LeaseGivenBack`) and, with `AppInvariant`, `AppTypes` (`AppTypeOK`), from
  `ProcessInv` and `ErrorsInv`: a held lease without a cause is always at a stage from which the
  `finally` clause gets to `metrics.close()` (`OnItsWay`), since the metrics are made after the queue (`MadeInOrder`).

That no write is late is an argument over both threads. `OnlyJob`: besides the
command of the cycle none is alive, and where the main thread plans none at all. It is
kept by the drain, because `unfinished = 0` settles every accepted command (`IInv`). That the
worker survives needs more than that: it meets a future that was cancelled behind its back
only if it gave the command up, either because the queue is cancelled, and then the
main thread has cancelled the future already or is leaving (`Cancelled`, `WorkerSafe`), or
because the number is out of order, and a waiting command's is not (`Numbers`). `Around` says that
when the loop has been left nothing is under way, unless a handler of Ctrl-C was itself cut short.

### V0Loop_proofs: any warehouse, reserve, margin, cap and error limit

`LoopInvariant` (`LoopInv`) holds in every environment: the types, and what the loop holds at
each point (`Phases`, `Plans`).

- `EarnedInvariant`: `EarnedInv` in every environment, and from it `EvidenceEarned` (`EvidenceIsEarned`),
  `TransitionsOfTaps` (`OnlyTapTransitions`) and `LoopDoesNotBlockItself` (`CollectsWhatItStarts`).
  Frames may be late, covered or not recognised, the process may crash, the player clear. What makes
  evidence sound nevertheless is `StillTrue`: since the frame the cycle planned on, only its own tap
  can have filled the warehouse or left the idle state. `Proves` is the same for the fresh frame, and a
  PASS needs both.
- `QuotaInvariant` and `SessionCap`: `Spec` with `ExactReadings` (no ambiguous,
  late or covered frames, no production that ends unseen) implies `[]QuotaInv`, and so
  `SessionCapHolds`. The cap alone is not inductive. A release is
  safe only if the reservation given back was not used, hence `Production`: from the
  charge on, either the effect has happened, and then the factory shows it, or
  `started < reserved`. The assumption is needed: `loop_ambiguous` is the counterexample
  without it.
- `StopsAfterOneWrite`: `OneWriteAfterLatch` in every environment, by `LatchInv`: after
  the first such write none waits and the loop is not about to submit one.
- `EveryWriteIsRecorded`: `WritesAreRecorded` in every environment, by `RecordInv`: a production
  that is verified has its reservation, so that nothing but the store can raise before the sample.

### RateGate_proofs: any actions, windows, retention, cooldown and limits

- `CapInvariant` and `AtMostSoManyTaps` (`RateCap`). The Keeper counts samples, which are younger than
  their taps, so a tap may leave the window of a minute while its sample is still in it, and never the
  other way round. `TapsAreCounted` pairs them from the latest backwards: the k-th latest
  recorded tap is at least as old as the k-th latest sample. The window is pruned by age from
  the front, which keeps the pairs because both windows are `InOrder`.
- `RetryInvariant` and `NotTooOftenInARow` (`RetryCap`). The code counts marked samples and the property
  counts failures. `SecondIsMarked` relates them: in a run of failures within the retention only the first
  can be unmarked, so a run has at most one more failure than marks (`MarksAreFew`). That the first one
  is forgotten when it is too old only removes the unmarked one.
- `RateTypes` (`RateTypeOK`).

### StorageGate_proofs: any capacities, margin, thresholds and surroundings

`GateTypes`, `NeverBlindWithoutCause` (`TrueReadingsAccepted`), `CollectAlwaysFits`
(`CollectFits`), all from `GateInv`, for any set of misreadings as well. Its core is `Explained`: as long as nothing
unexplained has happened the true counter is the baseline, or one above it after an
announced collect that hit, or below a full baseline. `NearlyRight` says that the
reading a decision rests on is too low by no more than the items the frame left out (`behind`),
which the margin covers as long as they are no more than it. A misread frame is trusted only if it
repeats the baseline, as another count starts its confidence anew and one frame is not `Enough`.

### MetricsLease_proofs: any processes, lease, interval and gap

`LeaseTypes`, `LeaseIsExclusive` (`OneOwner`) and `EvidenceOnlyGrows` (`NeverErased`), from
`LeaseInv`. `EnoughLeft` bounds from below how much of the lease is left to a process at each
point: acquiring, loading and the first call of the metrics may each take `Gap`, and the first
renewal comes at the call after the interval. The sum is the assumption
`Interval + 3 * Gap <= Lease`. That saved evidence is never
erased then follows from `KnowsSaved`: the owner has loaded all that is saved.

### MapScan_proofs: any map, tiles, templates and cities, and any slips

`MapWellFormed` (`ScanTypeOK`) and `OrderDoesNotMatter` (`MergeIsUnion`), from `ScanInv`. Its core is
that the accepted buildings are those of the tiles merged so far (`Taken`), although the
code drops a detection when there is one of the same prefix and footprint: then the two are equal.
In the other direction, when the merge gives up then two of all the detections overlap, in
whichever tiles they are.

`TilesAreExact` and `ExactScanSucceeds` (`SeesTheCity`, `ExactScanIsCity`) are about detectors without
slips. While the matches of a tile are sorted out, every building it shows is either kept or
still to be looked at, and whatever matched beside one overlaps it: the building has the
better score, so it comes first and the other is dropped, and no building is ever dropped, as two
buildings of a city do not overlap. That the city is a map is the assumption `CitiesAreMaps`.

### ConstructionSite_proofs: any map, any layout the search may find, any adapter and player

`SiteInvariant` is `Spec => []SiteInv`. It has four parts, each on top of the one before.

- `SearchInvariant` and `SoundTarget` (`TargetIsSound`). Validity and road access are kept change by
  change. Connected roads stay connected when a connector is added because each of its cells is
  joined to the next one, up to the last, which touches a road (`WayConnects`): of the cells
  that are on one side of a division the one with the largest index leads across (`Last`, by
  well-founded induction on a fixed set).
- `PlanInv`, the plan and its drafts. `DraftsFollow` says in closed form what the steps before
  the i-th make of the map, its roads and the places of the buildings that were moved. This is what a
  recursive replay could not be proved to yield; as a variable that grows with the plan each
  draft follows from the last one.
- `PlanRuns`: unless a building is to stand on a road, and as long as none is left aside, every step can be
  applied to the draft before it. A move finds its place free, because all who
  stood there have moved (`DependsOn`) and nobody else wants it; a new road likewise. A removal waits
  for all of them, so its road is still there.
- `Working` and `RoadsKnown`: the map known is the draft of the steps done, and what was done
  could be applied.

From it: `SiteTypes` (`SiteTypeOK`); `CompleteMeansTarget` (`CompleteIsTarget`), since a plan without unresolved steps has the
target as its last draft (`AllPlanned`); `ServedThroughout` (`ServedAllAlong`), since removals come last: until
then every draft has all the old roads, and from then on all the new ones and every
building at its place (`ServedOn`); `PlansExecuteOffRoads` (`PlanExecutesOffRoads`). The last one has two
halves. Without `ReusesRoad` it is `PlanRuns`. With it the plan is never COMPLETE, because the move onto
the road comes before its removal (`NeverOnRoads`): finding 3 is a theorem, for every such layout.

`NoticedAtTheNextScan` (`OneStepBlind`) follows from `BlindInv` (`BlindInvariant`), which uses nothing about the plan.

### Only model-checked

What is left to TLC is liveness, which is beyond the prover with fairness and ENABLED:
`EndsWhenTold`, `StopsWhenAsked`, `GateReopens`, `TrustReturns`, `EvidenceIsSaved` and `SimpleCyclesEnd`.
TLC checks these on the instances of section 3 only. The three
violations, `loop_ambiguous`, `storage_clear` and `staging_hang`, are counterexamples and need no proof.

## 6. Findings

1. **The quota can under-count** (`loop_ambiguous`, `planner/v0.py:191-197`).
   `verify()` releases the reservation on every FAIL. If the fresh frame after a tap that
   did start the item reads UNKNOWN, or a popup hides the factory, the transition is FAIL
   and the reservation is given back: one production is not counted. `v0.py:180-181`,
   `quota_store.py:9-11` and `README.md:219` say that ambiguous outcomes stay charged.
2. **A manual clear in two steps is never believed** (`storage_clear`,
   `vision/storage_validation.py:124`). A fall is accepted from a full baseline only.
   When the player empties a full warehouse in two steps and a frame is read in between,
   the first fall becomes the baseline and the second is rejected, for ever:
   `allow_manual_rebase_once()` has no caller. `README.md:205, 353` promise recovery.
3. **A plan that moves a building onto a road before it is removed**
   (seen in `construction`, `layout/construction.py:129`). Removals wait for all moves,
   and no move waits for a removal. If a later round of the search moves a building to
   where an earlier one removed a road, the plan is refused by the map: the solver
   raises, or the executor stops with PRECONDITION_FAILED. `construction.py:126-127`
   calls the order safe. `PlanExecutesOffRoads` says that this is the only cause
   (`ReusesRoad`), and `PlansExecuteOffRoads` proves it of every layout; without that case TLC shows
   the plan that fails.
4. **The staging solver may never return** (`staging_hang`, `layout/staging.py:105`).
   The cell on which the pivot stands is itself a candidate, at distance 0. When putting
   the pivot aside cannot help, it is moved onto its own cell again and again.
   `SimpleCyclesEnd` describes circles for which the solver does end: no unfinished
   road in them, nobody waits for two, no two wait for the same. A circle with an
   unfinished road turns as well, where `docs/MAP_LAYOUT_PIPELINE.md:196` promises
   `unresolved_steps`.
5. **The acceptance gate asks for transitions that are never recorded** (`OnlyTapTransitions`,
   checked in `loop_stop`; `runtime/orchestrator.py:635`). Only the transition of a
   verified tap is recorded, from the frames around it. Of the four that
   `core/acceptance.py:7-12` requires, PRODUCING to COMPLETED_COLLECTABLE and COLLECTED
   to IDLE cannot occur there, so the gate of `README.md:351` cannot be passed.

## 7. Limits of what is claimed

- `WritesAreRecorded` is false when a save or `release_output` raises after the tap:
  `run_once()` is left before `record_action()`. `RateCap` and `RetryCap` are stated for
  writes that are recorded, and for one process: the windows are not persisted.
- `MetricsLease` assumes in `Tick` that no process is held up for more than `Gap` between two steps,
  with `Interval + 3 * Gap <= Lease`. The code checks only `lease_seconds >
  persist_interval_seconds` (`metrics.py:89`); with the defaults of 120 s and 30 s the
  assumption is a gap of at most 30 s. Without it a process suspended between renewal and
  save can overwrite what its successor has saved, as the save does not look at the
  lease.
- `LeaseCoversWrites` names the Ctrl-C that strikes in the handler of another one and cuts its drain
  short: it leads through the shutdown to the release while an adb call may still be running, since
  `close()` waits five seconds for the worker and goes on.
- `LeaseGivenBack` names when the row of the lease does stay behind until it expires: loading the evidence
  raised after the lease was taken, the release itself raised, or Ctrl-C struck in the `finally` clause.
- `EndsWhenTold` names the Ctrl-C that does not end the process: its handler raises in its own
  bookkeeping inside `run_once()`, becomes a loop error, and the loop goes on with a
  cancelled writer.
- `CommandQueue` allows a `submit()` to put its command behind the end marker of
  `close()`. Its future is then never settled; nothing is claimed of it. In
  `AppRun` the thread that submits is the one that closes.
- `V0Loop` has one recipe, and all tap coordinates configured. The Keeper is a free
  choice (`RateGate` has it) and so is what a frame shows within `Environment`. Back-off
  delays are left out: they only pass time.
- `CollectFits` is for as many items as the margin is for: a late collect, or what the player adds
  between the frame and the tap. More than that, or a margin of 0 with one, fills the warehouse.
- `StorageGate`'s misreadings have a confidence below the threshold each. `CollectFits` speaks of one
  by a reader that has not lost track. Two equal misreadings are trusted, also with rejected
  frames in between, as the confidences are kept while the baseline is.
- `MapScan` assumes (`Covered`, for `ExactScanIsCity` only) that the tiles leave out nothing: a cell on no tile
  counts as free in the code. A cell that one tile shows as road and another as blocked is both in
  the merged map, and `CityMap` does not object.
- Nothing is claimed about the connection of roads between the steps of a plan: no
  document asks for it.
- `WritesAreRecorded` excuses the write after which the store fails: an exception between it and
  `record_action()` leaves `run_once()`, and no sample is made.
- In `V0Loop` the handler of Ctrl-C does not raise; in `AppRun` it does, with what follows from it.
- `MapScan` takes the prefix of a building's id for its template. Two prefixes that differ only after
  an `@` would be one to `map_merge.py:90`.
- Two buildings of one kind that the player exchanges keep each other's identity
  (`identity.py:85`). The properties compare cities up to such an exchange (`Alike`).
- `reset_session()`, `reset_acceptance()`, `EmergencyStop.reset()` and
  `allow_manual_rebase_once()` have no caller and are left out.

## 8. Not modelled

| Component | Why |
|---|---|
| `layout/scorer.py` | arithmetic on weights; the search models permit any choice |
| `vision/readers.py`, `similarity.py` | template matching and OCR; what they may return is input to the models |
| the image comparison, calibration and configuration in `vision/map_*.py` | as the readers; parsing without state |
| the subprocess calls of `device/adb.py` | their timeouts justify the fairness of the worker; start-up and recovery are in `AppRun` |
| `runtime/config.py`, `city/map_io.py`, `layout/app.py` | parsing and validation of files, sequential and without state |
| `phase1/probe.py` | a diagnostic script |

## 9. Plan

What was planned and is done, in the order of importance:

1. The writer: `SerialWriter`, `CommandQueue`, `WriterSession`, `AppRun`.
2. The loop: `V0Loop`, with the quota, the stop, the samples and the evidence.
3. The gates: `RateGate`, `StorageGate`.
4. The lease: `MetricsLease`.
5. The layout pipeline: `CityGrid`, `LayoutSearch`, `ConstructionPlan`, `ConstructionSite`.
6. The map scan: `MapScan`.

All of them are proved but for their liveness.

Left:

7. Models: the acceptance report as an operator against a reference definition;
   `reset_session()`, should it ever get a caller; the scores of the search.
8. Proofs: that the way through the pipeline is one of abstract specifications, as `SerialWriter` is
   for the queue: a lease of one owner for `MetricsLease`, an executor whose report is the
   last scan for `ConstructionSite`.
