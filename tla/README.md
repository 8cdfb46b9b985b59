# A verification project for LoadSim

LoadSim is a load generator for containers: it holds a CPU usage and an amount of
memory that follow a profile. This directory holds TLA+ models of its logic, the
configurations that TLC checks them with, and proofs for TLAPS.

Paths below are relative to `src/`; `memload.go:202` is a line of
`internal/memload/memload.go`, and so on.

## 1. Inventory

| Component | State | Operations | Interacts with |
| --- | --- | --- | --- |
| memory engine, `internal/memload` | target, held, overhead, peakHeld, touches (atomics), the list of chunks under `mu` | `SetTarget`, `Stats`, `Run` (sample, reconcile, releaseDue, touchAll, releaseAll) | the runner, the kernel's RSS, Go's collector |
| CPU engine, `internal/cpuload` | target, duty, scale, actual (atomics) | `SetTarget`, `Stats`, `Run` (control goroutine, pool of workers), `SuggestWorkers` | the runner, CPU time accounted by the kernel |
| runner, `internal/runner` | ready, finished, snapshot (atomics); loop locals; the engines' channel | `Run`, `Snapshot`, `Ready` | both engines, profile, HTTP server, signals |
| process, `cmd/loadsim` | contexts, `srvErr` | the choice of a command, `cmdRun` | configuration, runner, server |
| HTTP server, `internal/server` | listener, error channel | `Run`, `/healthz`, `/readyz`, `/`, `/status`, `/plan`, `/config`, metrics | runner (snapshot and profile), clients |
| profile, `internal/profile` | compiled phases; per random curve: seeded, lastTick, value, generator | `Build`, `Eval`, `PeakCPU`, the curves | runner and plan both evaluate it |
| phase DSL, `internal/profile/dsl.go` | none | `ParsePhaseDSL` | configuration, `Build` |
| plan, `internal/plan` | none | `Render`: sample every column, draw | profile |
| configuration, `internal/config` | `Config`: plain keys, pointers to optional booleans | six sources in order, `Apply`, `Compile` | profile, resources, units, and the options of both engines |
| resources, `internal/resources` | `Info`: request, limit, machine; source of each | `Detect` (cgroup, environment, overrides), throttling statistics | configuration |
| units, `internal/units` | none | parse, format, `Resolve` | configuration, profile |
| presets, logging, status, metrics | data and text | | |

What is hard, and for each component what makes it correct:

- **Memory engine.** Two goroutines share a list under a mutex and copies of its
  size outside it; the engine measures RSS, which contains memory it dropped a
  moment ago; cancellation can come in the middle of a growth. Correct means: never
  more than a target asked for (a container sized to its target would be killed),
  what is published is what is held, a stop-the-world release only when earned, a
  genuine drop is returned, the feedback settles, and a cancelled engine is empty.
- **CPU engine.** `updateDuty()` is three unlocked atomic steps and runs in two
  goroutines; the closed loop compares a measurement with a target that may have
  changed since; the scale winds up under throttling; pool and control goroutine
  start and end in any order. Correct means: convergence, honest saturation, no
  correction that survives a rest, and a `Run` that waits for exactly its goroutines.
- **Runner, process and server.** Readiness, initialisation, end of profile,
  `exit_after` and signals coincide; the server can fail, and its clients can hang.
  Correct means: no load before or after its time, load off before exit, an end for
  whoever was told to end.
- **Profile.** Evaluated at irregular times; boundaries between phases and passes;
  random curves keep state and are evaluated by the runner and by every chart
  without a lock. Correct means: phases tile the time line in order, values stay
  within the peak that sized the pool, and a run is reproducible.
- **Phase DSL.** Fields in any order, some without a key, each overwriting what an
  earlier one said. Correct means: a text says what the same phases in YAML say.
- **Plan chart.** Columns stand for slices of time. Correct means: every phase is
  seen, where it is; the peak can be read off; the marker stands under the phase
  the run is in.
- **Configuration and resources.** Six sources that clear each other's keys, and
  seven places a limit can come from. Correct means: the strongest source wins,
  nothing is lost silently, every number is what its stated source says.
- **Compile and units.** Percentages of bases that may be unknown, options in which 0
  means "unlimited" or "default", truncation to bytes. Correct means: a target
  remains a target, a missing warning means there is nothing to warn of, and no
  option arrives at an engine as its opposite.

Nothing is persisted, so there is no crash recovery; a crash is only an end.
`PROJECT.json` lists the hazards one by one, with their lines.

## 2. Modules

| Module | Models | Correspondence |
| --- | --- | --- |
| `MemEngine` | `memload.go` | one action per stretch of `Run` between two accesses to shared state: `Sample`, `Plan` (up to `Lock`), `StartGrowing`, `NewChunk`, `DropSurplus`, `StoreHeld`, `RaisePeak`, then `KeepPages` or `ForceRelease`; `TouchDue`, `TouchAll`; `SeeDone`, `ReleaseAll`, `ZeroHeld`. The runner's are `SetTarget` and, as `LockChunks`, `CountChunks`, `LoadHeld`, `Stats`, which contends with the engine for the mutex (`mu` names its owner). `Cancel`, `Clock`, `Collect` are the environment. RSS is a footprint plus chunks plus dropped chunks not yet returned (`garbage`) |
| `Holding` | what the memory engine promises | abstract: what was asked for, how many chunks are held, what is reported, told to end, ended. `MemEngine` implements it (`Promise`), with the history `asked` for what the runner ever set |
| `CpuControl` | arithmetic of `cpuload.go` | `DutyOf`, `Corrected`, `SaturatedAt`, `SuggestWorkers` in integers: a core is `Core` units, scale 1.0 is `One` |
| `CpuFeedback` | the closed loop | `SetTarget`, `Throttle`, `Control` (a whole tick); usage is what the pool burns under a limit plus background, and a sample may lie anywhere in the interval's range |
| `CpuEngine` | the goroutines | every atomic load and store is a step: `SetLoadTarget`/`SetLoadScale`/`SetStoreDuty` against `Control…`, the worker's slice as `Check`, `LoadDuty`, `Burned`, `Slept`; `Add`, `Go`, `Exit`, `Return` are `Run` and the wait group, a counter |
| `Runner` | `runner.go`, `main.go`, `server.go` | `Presets` and `Dispatch` choose, refuse or print; then the loop's iteration as `Observe`, `OpenGate`, `SetCPU`, `SetMemory`, `Publish`, `Leave`/`Stay`, `Wake`/`SeeDone`; then `Drain`, `Stop`, `Exit`; the server's goroutines beside it; the listener may fail when it binds (`Listen`) or later (`AcceptFails`) |
| `Lifecycle` | what a run promises | abstract: init, running, draining, gone, and whether load is on. `Runner` implements it: `L` is its instance, with `phase` and `load` the refinement mapping |
| `PhaseSpec` | `dsl.go`, `profile.go` | operators: `ParseSegmentShorthand`, `ParsePhaseDSL` down to each field, `Build` down to each segment. A parser is an operator to the set of its one result, empty for an error |
| `Profile` | `profile.go`, `curve.go` | `Compile`, `Eval`, `Sample`, `Values`, `Peak`; `Advance` is the runner asking at a later time |
| `PlanChart` | `plan.go` | extends `Profile`: `Window`, `SampleTime`, `Band`, `Cell`, `PhaseBar`, `Marker`, `TickStep`, the functions of `Render` |
| `RandomCurve` | `sampleEachPeriod`, jitter, `plan.Render` | every access to the curve's state is a step, by the callers "runner" and "plan" |
| `Config` | `config.go`, `flags.go` | `LoadPreset`, `LoadFile`, `LoadInline`, `Apply`, `Compile`/`Reject`; a `heap` for the optional booleans, since YAML writes through pointers. Texts and documents become phases through `PhaseSpec` |
| `Units` | `units.go` | operators: `ParseQuantity`, `ParsePercentBase`, `Resolve`, in thousandths of a core, of a byte and of a base |
| `Resources` | `resources.go`, `cgroup.go` | extends `Units`; one action per source: `Environment`, `Cgroup`, `Overrides`, then `DropEstimate`/`KeepRequest` |
| `Compile` | `Config.Compile`, `New` of both engines | extends `Resources`: `Parse`, `DetectNext`, `FindPeaks`, `CompileEngines`/`Reject`. The pool is sized by an instance of `CpuControl`; the part of `Compile` that makes the profile is in `Config` |
| `X_proofs` | | theorems about `X`, for `MemEngine`, `CpuEngine`, `Runner`, `Profile`, `RandomCurve`, `Compile` and `Config`; section 5 |
| `SetInduction` | | lemmas the proofs share: induction, recursion along a sequence, greatest elements, sequences put one behind the other |

`MC_X` extends `X` with the finite sets its configurations use. Definitions marked
`\* mutant` are deliberately wrong versions of the definition that follows them:
replacing the one by the other must make the property named in `PROJECT.json` fail,
which shows that the property says something about that code.

`CpuEngine` and `CpuFeedback` both extend `CpuControl`, one for the interleavings
with few values, the other for the numbers with whole steps. `Runner` sees the
engines only as goroutines that end some time after their context; that they do is
`CpuEngine!Returns` and `MemEngine!EventuallyDrained`. `Runner` implements `Lifecycle`
and `MemEngine` implements `Holding`, each as an `INSTANCE` with a refinement mapping.

## 3. Runs

Each run has the name of its configuration file. Runs that pass:

| Run | Shows | Bounds |
| --- | --- | --- |
| `MemEngine` | consistency, mutex and high-water mark (`IInv`, the inductive invariant of the proofs), never more than was asked for, earned releases, and statistics that count a list that is published; a genuine drop is returned even if Go never collects, a cancellation drains, and with a fair collector resident memory settles within a chunk of the target; implements `Holding` | chunk 4, step 2 chunks, threshold 2 chunks, targets 5 and 20 (a small one that is no multiple of a chunk, and a drop of more than the threshold), three changes |
| `CpuFeedback` | converges, gives up at full duty and reports it, the suggested pool reaches every target | three targets, three limits, three backgrounds, three events, in thousandths of a core |
| `CpuEngine` | the counter of the wait group exact at every step of starting and ending, at most one burn after the end, duty settles, rests at zero with a scale of 1, `Run` returns | two workers and the control goroutine, feedback on, targets 0 and 3 of 4, samples far below and above, two changes |
| `Runner` | no load during init, exact readiness, orderly end, an end for a reason and nothing started without one, an end for whoever was told to end; implements `Lifecycle` | every command with every single thing wrong in its command line; four configurations of a run: ready delay above and below init delay, ended by profile, `exit_after`, both or a signal only, with and without server; time to 6, one request in flight |
| `Profile` | tiling, order, peak, finality of the end; a chart that shows the phases, the load and the moment | up to three phases, repetitions, every periodic curve, ramps, a jitter; 16 units of time in gaps of up to 5: two passes of most profiles. Charts of 6 columns, 3 rows and 3 samples a column, so that a phase is longer or shorter than a column, over the window of `Render`, a short and a long one |
| `RandomCurve` | the runner alone: reproducible, resampled each period; with a racing chart: every call returns | a pass of two periods, three periods in gaps of up to 2, one chart, with and without loop and jitter |
| `Config` | which profile runs, layering of loop, jitter and the optional booleans, profiles that can be played; the compact syntax means what its fields say | every combination of the interacting keys over the five sources and the defaults, with a misspelt key, a curve there is none of, a flag that is empty or blank; every chunk of up to three fields out of 16, of four out of the 7 that interact, and pairs of chunks |
| `Resources` | honest sources, consistent estimates, order; targets remain targets, warnings are complete, options fit the engines | every combination of values given or not, cgroup v1, v2, partial, none, detection on and off, for CPU and for memory; texts that the two parsers of the environment read differently; every combination of the options that interact, with limits, requests and machine known or not. `Kilo` is 9 and `Kibi` 10, near each other as 1000 and 1024 are, for numbers that fit TLC's 32 bits |

The bounds are small because the hazards need few actors and few events: two
goroutines and one update each for a lost update; a rise, a drop and another rise
around the threshold for the high-water mark; a signal before, during and after each
step of the loop; every pair of sources for a precedence. Bounds are constants
(`MaxSets`, `MaxTouches`, `MaxEvents`, `MaxTime`, `MaxInFlight`, `MaxElapsed`,
`MaxGap`, `MaxPeriods`, `MaxPlans`, `MaxDraws`); a bound ends a run of inputs and
does not otherwise change what the program does. `CHECK_DEADLOCK FALSE` is given
where the engine or the process ends (`MemEngine`, `CpuEngine`, `Runner`), the
configuration has been compiled or refused (`Config`, `Resources`),
or time has run to its bound (`Profile`, `RandomCurve`). In `CpuFeedback`, which
controls for ever, deadlock is checked.

Of the sources, `Config` leaves out what is given and says nothing (`phases: []` in a
document, a shorthand without any field): the key is set, so it clears what a weaker
source gave, and precedence would have to be stated about nothing.

Runs that find a violation: each checks a sentence of the repository that the code
does not keep.

| Run | Sentence | What happens |
| --- | --- | --- |
| `MemEngine_oscillates` | "a target that merely oscillates never triggers one" (`memload.go:215`, test at `memload_test.go:126`) | with compensation, the default, dropped chunks still resident count as overhead, held shrinks by more than the target did, and a release is forced. The test runs without compensation |
| `Profile_frozen` | "driven by *elapsed time within the phase*" (`DESIGN.md:126`) | an open-ended last phase that follows phases of some length is sampled at time 0 for ever, so a periodic curve stands still |
| `RandomCurve_watched` | "so a run is reproducible" (`DESIGN.md:130`) | the chart at `/plan` evaluates the runner's own curves and advances them |
| `Resources_weight` | "not a meaningful request, so drop implausibly small values" of the default weight (`cgroup.go:113`) | a weight of 100 becomes 2597 shares, 2.5 cores, and is kept |

### Disagreements without a run of their own

Other places where a text and the code differ. The models follow the code, and the
premises of the properties leave these cases out, each in the property's comment:

- A snapshot is the state "at one instant" (`status.go:14`): `Stats()` counts the chunks
  under the mutex and loads the published bytes after it, behind a collection of
  statistics that stops the world, and a reconcile in between makes the two disagree.
  `CountsPublished` is about the count.
- `PeakCPU` is "the largest CPU target the profile can reach" (`profile.go:323`): a
  jitter at the upper end of a segment exceeds it. `WithinPeak` is about phases without.
- Random curves "resample once per period" (`DESIGN.md:128`): in the second pass of a
  loop the clock is behind `lastTick`, and nothing is drawn. `ResampledEachPeriod` is
  about the first pass.
- The seed makes a run reproducible, jitters included (`PROFILES.md:248`,
  `KUBERNETES.md:160`): a jitter is drawn at every tick from the curve's generator, so
  that after a delayed tick the curve gets other draws than without the delay.
  `Reproducible` is about segments without jitter.
- The compact syntax has its fields in any order (`dsl.go:14-19`), and a jitter "applies
  noise to both resources in this phase" (`profile.go:180`): the field `jitter` writes
  into both segments, and a segment after it takes it away. `CompactMeansYAML` leaves
  out a segment after a jitter.
- "MaxStep caps allocation per reconcile tick ... Empty means unlimited"
  (`config.go:120`): `resources.memory.limit: 50%` is accepted as half a byte
  (`config.go:282-288`), and a `max_step` of 50% of it is 0, unlimited. A CPU limit of
  50% is half a core in the same way. `EnginesFit` is about steps that come to a byte
  (`ComesTo`).
- `MaxStepBytes` "caps how much memory may be allocated in one reconcile tick"
  (`memload.go:44`): a step below a chunk is raised to a chunk (`StepCap`).
- "Apply immediately so a ramp follows the profile" (`cpuload.go:99`): a control tick
  that loaded the previous target can store its duty last. `DutySettles` says that a
  later tick repairs it.
- "gives up honestly" (`DESIGN.md:64-66`): the clamp of the scale at 4 stops below
  full duty with a pool of more than four times the target, and saturation is never
  reported. `GivesUpWithinScale` is about the others.
- `loadsim_cpu_saturated` is 1 "when the target is out of reach" (`METRICS.md:72`): a
  target equal to the pool's size is reached, and reported as saturated.
- `/readyz` is "503 until `startup.ready_delay` has passed, then 200"
  (`METRICS.md:18`): it also waits for the initialisation, and for the tick that
  notices. `ReadinessHonest` states what it does wait for.
- `/healthz` is "always 200 while the process runs" (`METRICS.md:17`): if the address
  cannot be bound, or the listener fails later, the runner goes on without endpoints
  and the error is read only at its end.
- "Only the last phase may omit its duration, which means hold forever"
  (`config.go:63`): with `hold_last` off it is never entered, the profile finishes.
- "Phase transitions are always logged" (`CONFIGURATION.md:193`): the loop compares
  names (`runner.go:158`), so a phase that a late tick skips and the next copy of a
  phase with the same name are not.
- `case "help", "-h", "--help"` (`main.go:64`): a first argument with a dash is never
  taken for a command, so `-h` is a flag, for which `Parse` returns `ErrHelp`: the
  usage goes to stderr and the status is 1. `FaultsOf` has it among the flags that do
  not parse.
- A word without a key is the duration "if it parses as one" (`dsl.go:59-60`): a phase
  that is to be called `60` or `1d` has that duration and no name.
- A pool "cannot reach" the peak is warned of by comparing with the machine
  (`config.go:434`), but sized by `max_procs` (`config.go:360`): a peak in between is out
  of reach without a warning. `Unwarned` is about pools that nobody sized.
- The soft limit is 90% of the memory limit (`config.go:411`), the warning begins at 95%
  (`config.go:444`): with a peak between the two Go's collector works against the load
  without a pause, and nothing says so.
- The page at `/plan` marks the elapsed time on a chart of two passes of a loop
  (`server.go:143`): from the third pass on, or behind the window of a profile that
  holds, there is no marker. `AxisTrue` is about the markers there are.
- A typed `--cpu` replaces the phase list (`CONFIGURATION.md:28`): not if
  `LOADSIM_PHASES` is set. `StrongestRuns` demands a warning then.
- Explicit configuration comes before the environment (`CONFIGURATION.md:279`):
  `LOADSIM_MEMORY_LIMIT` is the environment form of `--memory-limit` too, and replaces
  the file's limit. `Override` in `Resources` has that order.

## 4. Fairness

Only what Go and the operating system give:

- Goroutines that can run do, and timers and tickers fire: weak fairness of each
  goroutine's steps (`Tick`, `Control`, `Worker`, `Loop`, `Server`, `Value`, `Clock`).
- A `select` with several ready cases picks one at random, so `ctx.Done()` is not
  passed over for ever although a tick may be ready each time: strong fairness of
  the branch that sees it (`SeeDone` of the memory engine and of the runner,
  `ControlDone`, `WorkerDone`).
- A Go mutex is not kept from a goroutine that waits for it, however often another one
  takes it: `sync.Mutex` hands it over to a waiter after a millisecond. Hence strong
  fairness of the engine's `Lock` against a runner that keeps asking for `Stats`, which
  itself need not ask, but finishes a call (`WF_vars(Stats)`).
- An engine ends after its context (`EndEngine`), as the engines' modules show.
- The Go collector is not fair in `MemEngine!Spec`. Only `TargetReached` needs a
  collector that eventually collects and has it as its premise, `WF_vars(Collect)`.
- Nothing is assumed of clients, signals, the profile's targets or throttling.

## 5. Proofs

TLAPS proves the theorems below for every value of the constants that the named
assumptions of the modules allow; TLC evaluates those assumptions in the runs. They say
what the code's types and its parsing give: sizes, times and targets are natural
numbers, divisors are positive, a profile is a sequence of phases with segments that
parsed, a machine has whole CPUs (`CaseAssumption`), a core and the scale 1.0 are so
many units that the clamps of the scale are integers (`OneAssumption`), durations and
counts are numbers and an empty text configures nothing (`ParserAssumption`); a chart
has at least six samples (`SamplesAssumption`; a single column has 12, `plan.go:57`), and
of the distances of its labels each is at most three times the one
before (`StepsAssumption`), as in the list of `tickStep`. What `ListsAssumption` and
`SourcesAssumption` leave out is in section 3.

Every module has an inductive invariant `IInv` that joins what the runs check with what
makes it inductive: one lemma for each part or for each action, then `Invariant`
(`Spec => []IInv`), from which the other theorems follow.

**`MemEngine_proofs`**: `TypeCorrect`, `HeldCorrect`, `SnapshotCorrect`, `GrowthCorrect`,
`AllocationCorrect`, `PeakCorrect`, `ReleaseCorrect`, and the safety part of `Holding`
(`HoldingCorrect`). `IInv` adds

- `PlanBounded`: the target is one that was asked for (or 0), and what a tick has
  decided to hold is bounded by some target, not only what it already holds.
  `AllocationBounded` needs it because growth trusts a decision made earlier from a
  target that may have changed since.
- `ListEmptied`: between the two halves of `releaseAll()` the list is empty, so that
  zeroing `held` restores `HeldMatchesChunks`, and that happens only after a
  cancellation.

`SnapshotCorrect` is what the mutex is for, and `MutexScope` the part of the invariant it
rests on: the runner can lock only when the engine is outside its critical section, so
the list it counts is one whose size has been published (`HeldMatchesChunks`), not one
half grown. It does not say that the bytes loaded later are those of that list: they
need not be (section 3).

The lemmas on the helpers carry the arithmetic: `WantBounds` (rounding to a chunk is
within half a chunk), `StepCapBounds` (a capped step is positive and within the
surplus), `FewerBounded` (dropping chunks keeps the bound). `ReleaseCorrect` is an action
property: only `ForceRelease` sets the clock of the last release back, and
`PeakIsHighWater` turns its guard, which is about the engine's `peakHeld`, into a
statement about the true high-water mark. `HoldingCorrect` maps every step to a step of
`Holding` or a stutter: `NewChunk` is a `Grow`, for which `PlanBounded` names the target
that allows it; the two halves of `releaseAll()` are a `Drop` and the `End`.

**`CpuEngine_proofs`**: `WaitGroupCorrect` and `ShutdownPrompt`, for any number of workers.
The wait group is a counter, which one step raises before another one starts the
goroutine. `WaitGroupExact` says that it is the cardinality of the set of the goroutines
alive, plus the one counted in and not yet started, so that each start and each exit
needs the effect on that cardinality (`AliveFinite`, `AliveStep`), and a `Done` cannot
make it negative (`CountedOnce`); `PlaceOK` and `SpawnPlace` say where each
goroutine can be, and `LatePlace` that one which has begun a burn after the cancellation
is not at `load`, the only place another burn comes from. `DutyWithin` and
`CorrectedWithin` bound the control law for every gain, noise and resolution: the duty is
within a core and the scale within its clamps, whatever was measured.

**`Runner_proofs`**: `InitWithoutLoad`, `ReadinessCorrect`, `OrderlyEndCorrect`, `EndCorrect`,
and the safety part of `Lifecycle` (`LifecycleCorrect`). What is needed beyond the
properties: what has been started, cancelled and received at each place of the main
goroutine (`Places`); that tokens in the channel and tokens received are as many as
engines have ended (`MessagesCounted`), without which a `Drain` could count one engine
twice; that the context of `cmdRun` stops only for a signal or at the end (`Stopped`); that
an iteration works with one `uptime` that has been (`TimeBehind`, `GatePassed`, `GoalsSet`),
although clock, server and signals go on meanwhile; and why `Run` returned (`ReasonKept`).

**`Profile_proofs`**: `TilingCorrect`, `PeakCorrect`, `PhasesInOrderCorrect` and
`EndIsFinalCorrect`, for any phases, repetitions, curves and gaps between evaluations.
`IInv` is small, the position is what `Eval` gives for the elapsed time; the work is in
`Eval` itself. `StartsRecursion` gives the recursion of the starts, `CutAtStarts` that
exactly one phase contains an instant, `PassesOf` that passes and the time within them
add up, `EvalPosition` the three cases of a position; `EvalInOrder` compares two instants,
and `ValuesWithin` and `PeakOverAll` bound every curve, ramps included, by its two ends.

`ChartCorrect` is about the chart (`ChartFaithful`), for every width, height, number of
samples and window. A column is a slice of the window, and `SampleInSlice` and
`MarkerPlaced` say that its samples and the moment it marks lie in the slice. A phase
that is no shorter than the distance of two samples has one (`SampleHits`, a multiple of the
distance in every interval of that length), so it is seen (`PhaseSeen`), and
`EvalInOrder` puts what a column shows on the right side of a bar (`PhaseBarred`). The
second pass repeats the first because the samples half a window later are exactly one pass
later (`LoopShownTwice`). `BandsCorrect` follows from the rounding of a band to rows,
`LabelsFew` from the distances: the next one would leave fewer than six labels, and is
at most three times as long.

**`RandomCurve_proofs`**: `ReproducibleCorrect` and `ResampledCorrect`, for the runner alone
in the first pass, which is their premise: with a chart the first is false, as
`RandomCurve_watched` shows. `ByItself` says what the runner has loaded at each place and
how far the curve is ahead of the last value returned; the theorems about `last'` need
that the catch-up loop ends in the period it was asked for (`ReturnAhead`).

**`Compile_proofs`**: `SourceCorrect`, `EstimateCorrect`, `OrderCorrect` and `UnwarnedCorrect`.
`IInv` follows the detection step by step: `Detection` and `Configuration` say which source
has had its say at each place, `WithinNode` and `WithinLimit` what an estimate has been
compared with so far (with the limit only in the last step, since an override can
lower it later), and `Computed` that peaks, options and warnings are those of the final
numbers. `PoolReaches` is the arithmetic of `SuggestWorkers`, `WithinLimitOf` that of
percentages truncated to a byte.

`StillRunsCorrect` and `EnginesCorrect` are about numbers that must not vanish. A product of
a percentage and a base is cut off to thousandths in the model (the code cuts bytes off
too), so the theorems have the least size for which that cannot make a 0 as a premise:
`ComesTo` is a thousandth for a target and a byte for a step. `ResolvedPart` is the one
lemma on that product, `AbsoluteBytes` that a quantity with a unit of bytes, if not 0, is at
least a byte: the number of a text is whole (`TextAssumption`), so the half of a byte that
the code would accept as a `max_step`, and cut off to 0, is left out. `EnginesCorrect` completes `EngineAssumptionsCorrect` (`AssumptionsMet`:
the constants that the engines' own modules assume) with `StepRemains`: a step that was asked
for does not arrive as 0, which means "unlimited".

**`Config_proofs`**: `LayeredCorrect`, `StrongestCorrect`, `PlayableCorrect` and
`CompactCorrect`. `Addresses`
says that each optional boolean has a cell of its own until `apply()`, which is why
decoding a document through a pointer cannot write another key; `Read` gives each key at
each place what the sources so far say, with `phases` and the shorthands clearing each
other; `Shorthands` and `Result` that what is configured was parsed and what runs was
accepted. `LayeredInv` and `StrongestInv` turn `Read` into statements about the strongest
source (`GivenIs`, `ByRank`). `PlayableInv` needs the types of everything the compact
syntax reads, field by field (`TextType`), and that `Build` keeps the order of phases
when it repeats them (`BuiltInOrder`, from `FlattenPlaces`).

`CompactCorrect` is for chunks of any length. `ChunkFold` turns the fold of
`ParsePhaseChunk` into a recursion along the fields, and `Means` is the invariant of that
recursion: after `k` fields, each part of the phase is what the last field about it tells
(`Tells`), the jitter of a segment is the last one as long as none was overwritten, and a
bare duration has replaced nothing but zero. `FieldRead` is what one field changes, for each
key, `MeansNext` the step and `MeansChunk` the induction; `ChunkAsYAML` compares the phase
with the mapping, and `SameBuilt` says that `Build` sees no difference.

**`SetInduction`** holds lemmas about numbers and sequences that the others rest on; they
are tools, and say nothing about LoadSim. The library's induction takes an operator
as a parameter, which the provers cannot instantiate; for a set of numbers it can be
stated without one (`SetInduction`). From it follow that a recursion along a sequence has
a solution (`RecursionExists`), that a finite set of numbers has a greatest and a least
element (`MaxIsGreatest`, `MinIsLeast`), and where the elements of sequences put one
behind the other are (`FlattenPlaces`).

Not proved, and why:

- Every liveness property, with the convergence in `CpuFeedback` and the settling in
  `MemEngine`: fairness and `ENABLED` are outside the prover. `ImplementsHolding` and
  `ImplementsLifecycle` have a liveness part too; their safety parts are proved.
- The properties of `CpuFeedback` are all of this kind; what is proved about the closed
  loop are the bounds of a single correction (`CorrectedWithin`, `DutyWithin`) and of the
  pool (`PoolReaches`).

So every invariant and every action property of the runs is a theorem, and what remains
model-checked only is what must eventually happen. The premises of the theorems are those
of the properties, in section 3.

## 6. Not modelled

- **Text**: how characters make a number, a field or a YAML mapping, the layout of
  charts, pages, metrics and logs. `PhaseSpec` and `Units` begin with texts that are
  split already. The numbers in them are whole ones. The larger and the longer suffixes of memory (`Gi`, `Ti`, `kib`, `MB`)
  are read by the statement that reads the modelled ones.
- **Exponents** of curves, and decoding a segment written as a mapping: they set
  fields that `BuildSegment` passes on.
- **Reading files**: a file that cannot be read, or an unknown preset, is refused like
  a document with an unknown key.
- **Smooth curves** (sine, easing, exponential, logarithmic): TLA+ has no real
  functions. They take the place of `linear` in the evaluation that is modelled.
- **Memory the kernel takes away**: resident memory is never below what is held, so the
  corner in which a sample of 0 is taken for "no sample yet" (`memload.go:207`) is not
  reached.
- **The directories of a cgroup** in which a file is looked for (`cgroupPaths`) are one.
- **Floating point**: the models count in integers fine enough for the properties
  (a thousandth of a core, a 1024th of the scale) and tolerate their rounding.
- **Go's data race on a curve's generator** is modelled as any interleaving of its
  loads and stores; `math/rand` can also panic there, which is not.
- **Presets** are data. **Throttling statistics** and the CPU engine's moving
  average only feed displays.
- `/readyz` is never withdrawn, so it answers 200 during the drain: no text says
  otherwise, and the model has it as the code does.
- Hazards without a property in `PROJECT.json` say why they have none.

## 7. Plan

Done: every component with logic of its own, with `Holding` and `Lifecycle` as the
abstract specifications, and proofs about seven modules.

Next, in this order:

1. `Runner` composed with the engines' own specifications in place of `EndEngine`,
   so that targets, drains and snapshots are those of the real engines.
2. A ranking function for `CpuFeedback` (the distance of the scale from the one that
   makes the usage the target), whose decrease in a tick can be proved although the
   convergence that follows from it cannot.
