----------------------------- MODULE MemEngine -----------------------------
(***************************************************************************)
(* The memory load engine (internal/memload/memload.go): one goroutine     *)
(* reconciles a list of equally sized chunks with a target that another    *)
(* goroutine, the runner, stores into an atomic.                           *)
(*                                                                         *)
(* Three parties share the state: the engine goroutine (Run), the runner   *)
(* (SetTarget and Stats) and, outside the repository, the garbage          *)
(* collector, which decides when a dropped chunk stops being resident.     *)
(* The chunk list is guarded by the mutex mu, for which both goroutines    *)
(* compete; held, overhead, peakHeld and the target are atomics, each      *)
(* loaded and stored on its own.                                           *)
(*                                                                         *)
(* A chunk list is abstracted to its length and memory to whole units;     *)
(* fill patterns and page touching do not change any of the properties.    *)
(***************************************************************************)
EXTENDS Integers

CONSTANTS
  ChunkSize,         \* options.ChunkSize, in memory units
  MaxStepBytes,      \* options.MaxStepBytes, 0 = unlimited
  ReleaseThreshold,  \* options.ReleaseThresholdBytes
  ReleaseInterval,   \* options.ReleaseInterval, in units of the clock
  Compensate,        \* options.Compensate
  RSSReadable,       \* whether /proc/self/statm can be read on this platform
  Footprint,         \* resident memory of the process outside the chunks
  Targets,           \* the targets the runner may ask for
  MaxSets,           \* bound: how often the runner changes its target
  MaxTouches         \* bound: how many touch passes are counted

ASSUME ChunkAssumption     == ChunkSize \in Nat \ {0}
ASSUME StepAssumption      == MaxStepBytes \in Nat
ASSUME ThresholdAssumption == ReleaseThreshold \in Nat \ {0}
ASSUME IntervalAssumption  == ReleaseInterval \in Nat \ {0}
ASSUME FlagAssumption      == Compensate \in BOOLEAN /\ RSSReadable \in BOOLEAN
ASSUME FootprintAssumption == Footprint \in Nat
ASSUME TargetAssumption    == Targets \subseteq Nat
ASSUME BoundAssumption     == MaxSets \in Nat /\ MaxTouches \in Nat

VARIABLES
  target,        \* targetBits: the resident memory asked for
  held,          \* held: bytes the engine says it holds
  overhead,      \* overheadBits: smoothed resident memory outside the chunks
  peakHeld,      \* peakHeld: high-water mark since the last forced release
  touches,       \* touches: completed touch passes
  chunks,        \* len(e.chunks), guarded by mu
  mu,            \* the goroutine that holds the mutex, or "free"
  pc,            \* where the engine goroutine is
  want,          \* reconcile's local: the number of chunks to hold
  toAdd,         \* reconcile's local: chunks still to be allocated
  at,            \* where the runner is inside Stats()
  counted,       \* Stats()'s local chunks; 0 outside
  sinceRelease,  \* time.Since(lastRelease), saturated at ReleaseInterval
  cancelled,     \* ctx.Done() is closed
  garbage,       \* dropped chunks that are still resident (Go runtime)
  sets,          \* bound: target changes so far
  asked,         \* history: the targets asked for so far
  high,          \* history: highest value of held since the last release
  forced         \* history: has a release ever been forced

runVars     == <<target, sets, asked, cancelled>>
statsVars   == <<at, counted>>
engineVars  == <<pc, want, toAdd>>
atomVars    == <<held, overhead, peakHeld, touches>>
listVars    == <<chunks, mu, garbage>>
releaseVars == <<sinceRelease, high, forced>>
vars == <<runVars, statsVars, engineVars, atomVars, listVars, releaseVars>>

PCs == {"select", "sampled", "lock", "growing", "store", "due", "touch",
        "release", "zero", "done"}

Larger(a, b)  == IF a >= b THEN a ELSE b
Smaller(a, b) == IF a <= b THEN a ELSE b

(***************************************************************************)
(* Pure parts of the engine.                                               *)
(***************************************************************************)

\* Memory of the process the kernel counts as resident.
Resident == Footprint + (chunks + garbage) * ChunkSize

\* sample(): the resident memory the engine does not account for.
UnheldMutant == Resident                       \* mutant: held not subtracted
Unheld == Larger(Resident - held, 0)

\* reconcile(): the size of the chunk list, to be published in held.
ListBytes == chunks * ChunkSize

\* The exponential average of sample(), alpha = 0.2, rounded to the nearest
\* unit; an estimate of zero counts as "no estimate yet".
Smoothed(prev, now) == IF prev = 0 THEN now ELSE (4 * prev + now + 2) \div 5

\* reconcile(): the memory to hold, never negative, without what the
\* runtime already uses.
ToHoldAdding(t, over) == IF Compensate THEN t + over ELSE t       \* mutant
ToHold(t, over) == Larger(IF Compensate THEN t - over ELSE t, 0)

\* math.Round(target / ChunkSize), halves rounded up.
WantChunks(t, over) == (2 * ToHold(t, over) + ChunkSize) \div (2 * ChunkSize)

\* reconcile(): how many of the missing chunks one tick may allocate. A step
\* smaller than a chunk still allocates one.
StepCap(missing) ==
  IF MaxStepBytes = 0
  THEN missing
  ELSE Smaller(missing, Larger(MaxStepBytes \div ChunkSize, 1))

-----------------------------------------------------------------------------
Init ==
  /\ target = 0 /\ held = 0 /\ overhead = 0 /\ peakHeld = 0 /\ touches = 0
  /\ chunks = 0 /\ mu = "free"
  /\ at = "idle" /\ counted = 0
  /\ pc = "select" /\ want = 0 /\ toAdd = 0
  /\ sinceRelease = 0 /\ cancelled = FALSE /\ garbage = 0
  /\ sets = 0 /\ asked = {0} /\ high = 0 /\ forced = FALSE

(***************************************************************************)
(* The runner.                                                             *)
(***************************************************************************)

SetTarget(bytes) ==
  /\ at = "idle"
  /\ sets < MaxSets
  /\ target' = bytes
  /\ sets' = sets + 1
  /\ asked' = asked \cup {bytes}
  /\ UNCHANGED <<cancelled, statsVars, engineVars, atomVars, listVars,
                 releaseVars>>

\* Stats(), once per iteration: the chunks are counted under the mutex ...
CountUnlocked ==                                \* mutant: no lock around len
  /\ at = "idle"
  /\ counted' = chunks
  /\ at' = "counted"
  /\ UNCHANGED <<runVars, engineVars, atomVars, listVars, releaseVars>>

LockChunks ==
  /\ at = "idle" /\ mu = "free"
  /\ mu' = "runner"
  /\ at' = "counting"
  /\ UNCHANGED <<runVars, counted, engineVars, atomVars, chunks, garbage,
                 releaseVars>>

CountChunks ==
  /\ at = "counting"
  /\ counted' = chunks
  /\ mu' = "free"
  /\ at' = "counted"
  /\ UNCHANGED <<runVars, engineVars, atomVars, chunks, garbage, releaseVars>>

\* ... and the published bytes are loaded after it is released, behind a
\* collection of runtime statistics that stops the world.
LoadHeld ==
  /\ at = "counted"
  /\ at' = "idle" /\ counted' = 0
  /\ UNCHANGED <<runVars, engineVars, atomVars, listVars, releaseVars>>

(***************************************************************************)
(* The engine goroutine.                                                   *)
(***************************************************************************)

\* case <-tick.C: sample() estimates the resident memory that is not held.
Sample ==
  /\ pc = "select"
  /\ overhead' = IF RSSReadable
                 THEN Smoothed(overhead, Unheld)
                 ELSE overhead
  /\ pc' = "sampled"
  /\ UNCHANGED <<runVars, statsVars, want, toAdd, held, peakHeld, touches,
                 listVars, releaseVars>>

\* reconcile() computes its goal before it asks for the mutex.
Plan ==
  /\ pc = "sampled"
  /\ want' = WantChunks(target, overhead)
  /\ pc' = "lock"
  /\ UNCHANGED <<runVars, statsVars, toAdd, atomVars, listVars, releaseVars>>

\* want > len(e.chunks): the mutex stays locked while chunks are allocated.
StartGrowing ==
  /\ pc = "lock" /\ mu = "free"
  /\ want > chunks
  /\ mu' = "engine"
  /\ toAdd' = StepCap(want - chunks)
  /\ pc' = "growing"
  /\ UNCHANGED <<runVars, statsVars, want, atomVars, chunks, garbage,
                 releaseVars>>

\* newChunk(): one chunk is allocated and faulted in, in fresh memory or in
\* that of a dropped chunk the collector has freed but not yet returned.
NewChunk ==
  /\ pc = "growing"
  /\ toAdd > 0
  /\ chunks' = chunks + 1
  /\ toAdd' = toAdd - 1
  /\ pc' = IF toAdd = 1 THEN "store" ELSE "growing"
  /\ garbage' \in {garbage, Larger(garbage - 1, 0)}
  /\ UNCHANGED <<runVars, statsVars, want, atomVars, mu, releaseVars>>

\* want <= len(e.chunks): the surplus, if any, is dropped from the end. The
\* pages stay resident until the collector or a forced release returns them.
DropSurplus ==
  /\ pc = "lock" /\ mu = "free"
  /\ want <= chunks
  /\ mu' = "engine"
  /\ chunks' = want
  /\ garbage' = garbage + (chunks - want)
  /\ pc' = "store"
  /\ UNCHANGED <<runVars, statsVars, want, toAdd, atomVars, releaseVars>>

StoreWanted ==                                  \* mutant: the goal is published
  /\ pc = "store"
  /\ held' = want * ChunkSize
  /\ mu' = "free"
  /\ high' = Larger(high, held')
  /\ pc' = "due"
  /\ UNCHANGED <<runVars, statsVars, want, toAdd, overhead, peakHeld, touches,
                 chunks, garbage, sinceRelease, forced>>

\* The end of reconcile(): held is published and the mutex released.
StoreHeld ==
  /\ pc = "store"
  /\ held' = ListBytes
  /\ mu' = "free"
  /\ high' = Larger(high, held')
  /\ pc' = "due"
  /\ UNCHANGED <<runVars, statsVars, want, toAdd, overhead, peakHeld, touches,
                 chunks, garbage, sinceRelease, forced>>

\* releaseDue(): held has reached its high-water mark again.
RaisePeakForgotten ==                           \* mutant: peakHeld not stored
  /\ pc = "due"
  /\ held >= peakHeld
  /\ pc' = "select"
  /\ UNCHANGED <<runVars, statsVars, want, toAdd, atomVars, listVars,
                 releaseVars>>

RaisePeak ==
  /\ pc = "due"
  /\ held >= peakHeld
  /\ peakHeld' = held
  /\ pc' = "select"
  /\ UNCHANGED <<runVars, statsVars, want, toAdd, held, overhead, touches,
                 listVars, releaseVars>>

\* releaseDue() and the rate limit of Run, for held < peakHeld.
AnyShrinkDue == sinceRelease >= ReleaseInterval  \* mutant: no threshold
ReleaseDue ==
  /\ peakHeld - held >= ReleaseThreshold
  /\ sinceRelease >= ReleaseInterval

KeepPagesLowering ==                            \* mutant: peak follows held
  /\ pc = "due"
  /\ held < peakHeld
  /\ ~ReleaseDue
  /\ peakHeld' = held
  /\ pc' = "select"
  /\ UNCHANGED <<runVars, statsVars, want, toAdd, held, overhead, touches,
                 listVars, releaseVars>>

KeepPages ==
  /\ pc = "due"
  /\ held < peakHeld
  /\ ~ReleaseDue
  /\ pc' = "select"
  /\ UNCHANGED <<runVars, statsVars, want, toAdd, atomVars, listVars,
                 releaseVars>>

\* debug.FreeOSMemory(): every dropped chunk stops being resident.
ForceRelease ==
  /\ pc = "due"
  /\ held < peakHeld
  /\ ReleaseDue
  /\ garbage' = 0
  /\ sinceRelease' = 0
  /\ peakHeld' = held
  /\ high' = held
  /\ forced' = TRUE
  /\ pc' = "select"
  /\ UNCHANGED <<runVars, statsVars, want, toAdd, held, overhead, touches,
                 chunks, mu>>

\* case <-touchTick: touchAll() rewrites every chunk under the mutex.
TouchDue ==
  /\ pc = "select"
  /\ touches < MaxTouches
  /\ pc' = "touch"
  /\ UNCHANGED <<runVars, statsVars, want, toAdd, atomVars, listVars,
                 releaseVars>>

TouchAll ==
  /\ pc = "touch" /\ mu = "free"
  /\ touches' = touches + 1
  /\ pc' = "select"
  /\ UNCHANGED <<runVars, statsVars, want, toAdd, held, overhead, peakHeld,
                 listVars, releaseVars>>

\* case <-ctx.Done()
SeeDone ==
  /\ pc = "select"
  /\ cancelled
  /\ pc' = "release"
  /\ UNCHANGED <<runVars, statsVars, want, toAdd, atomVars, listVars,
                 releaseVars>>

\* releaseAll() empties the list under the mutex ...
ReleaseAll ==
  /\ pc = "release" /\ mu = "free"
  /\ garbage' = garbage + chunks
  /\ chunks' = 0
  /\ pc' = "zero"
  /\ UNCHANGED <<runVars, statsVars, want, toAdd, atomVars, mu, releaseVars>>

\* ... and publishes that, and returns the pages, after unlocking it.
ZeroHeldForgotten ==                            \* mutant: held not stored
  /\ pc = "zero"
  /\ garbage' = 0
  /\ pc' = "done"
  /\ UNCHANGED <<runVars, statsVars, want, toAdd, atomVars, chunks, mu,
                 releaseVars>>

ZeroHeld ==
  /\ pc = "zero"
  /\ held' = 0
  /\ garbage' = 0
  /\ pc' = "done"
  /\ UNCHANGED <<runVars, statsVars, want, toAdd, overhead, peakHeld, touches,
                 chunks, mu, releaseVars>>

(***************************************************************************)
(* The environment: the context, the clock and the garbage collector.      *)
(***************************************************************************)

Cancel ==
  /\ ~cancelled
  /\ cancelled' = TRUE
  /\ UNCHANGED <<target, sets, asked, statsVars, engineVars, atomVars,
                 listVars, releaseVars>>

\* Time passes; beyond the interval it makes no difference.
Clock ==
  /\ sinceRelease < ReleaseInterval
  /\ sinceRelease' = sinceRelease + 1
  /\ UNCHANGED <<runVars, statsVars, engineVars, atomVars, listVars, high,
                 forced>>

\* The Go runtime returns the pages of some dropped chunks on its own.
Collect ==
  /\ garbage > 0
  /\ garbage' \in 0 .. garbage - 1
  /\ UNCHANGED <<runVars, statsVars, engineVars, atomVars, chunks, mu,
                 releaseVars>>

-----------------------------------------------------------------------------
Stats == CountChunks \/ LoadHeld

Runner == (\E bytes \in Targets : SetTarget(bytes)) \/ LockChunks \/ Stats

\* The steps of the engine that begin with e.mu.Lock().
Lock == StartGrowing \/ DropSurplus \/ TouchAll \/ ReleaseAll

\* The steps that only wait for their turn or for the next tick.
Tick == \/ Sample \/ Plan
        \/ NewChunk \/ StoreHeld
        \/ RaisePeak \/ KeepPages \/ ForceRelease
        \/ ZeroHeld

Engine == Tick \/ Lock \/ TouchDue \/ SeeDone

Next == Runner \/ Engine \/ Cancel \/ Clock \/ Collect

\* The ticker keeps firing and time passes. A select with several ready cases
\* picks one at random, so ctx.Done() is not passed over for ever; and a Go
\* mutex is not taken for ever from a goroutine that waits for it, however often
\* the runner counts. Nobody has to ask for Stats(), but a call is executed.
EngineFairness == /\ WF_vars(Tick) /\ SF_vars(Lock) /\ SF_vars(SeeDone)
                  /\ WF_vars(Stats)
                  /\ WF_vars(Clock)

\* Nothing is promised of the garbage collector.
Spec == Init /\ [][Next]_vars /\ EngineFairness
-----------------------------------------------------------------------------
(***************************************************************************)
(* Safety.                                                                 *)
(***************************************************************************)

\* Every variable stays in its domain (the integer types of Engine).
TypeOK ==
  /\ target \in Nat /\ held \in Nat /\ overhead \in Nat /\ peakHeld \in Nat
  /\ touches \in Nat /\ chunks \in Nat /\ garbage \in Nat
  /\ mu \in {"free", "engine", "runner"}
  /\ at \in {"idle", "counting", "counted"} /\ counted \in Nat
  /\ cancelled \in BOOLEAN /\ forced \in BOOLEAN
  /\ pc \in PCs /\ want \in Nat /\ toAdd \in Nat
  /\ sinceRelease \in 0 .. ReleaseInterval
  /\ sets \in 0 .. MaxSets /\ asked \subseteq Nat /\ high \in Nat

\* Each goroutine holds the mutex exactly in its critical section: reconcile()
\* while it changes the list and publishes its size, Stats() while it counts
\* (memload.go:136-138, 245-246, 306-320).
MutexScope == /\ mu = "engine" <=> pc \in {"growing", "store"}
              /\ mu = "runner" <=> at = "counting"

\* Outside a reconcile and the final release, held is the size of the chunk
\* list: sample() and releaseDue() never work with a stale figure.
HeldMatchesChunks ==
  pc \notin {"growing", "store", "zero"} => held = chunks * ChunkSize

\* Growing never goes past what the tick decided to hold, although it runs in
\* capped steps (memload.go:249-262).
NoOvershoot == /\ pc = "growing" => chunks + toAdd <= want /\ toAdd > 0
               /\ pc = "store"   => chunks <= want

\* n chunks are at most t memory units, rounded to a chunk.
BoundedBy(n, t) == 2 * (n * ChunkSize) <= 2 * t + ChunkSize

\* The engine never allocates more than some target it has been asked for up
\* to now, rounded to a chunk: what it holds cannot outgrow the profile's peak
\* and get the container killed, whatever the overhead estimate does.
AllocationBounded == \E t \in asked : BoundedBy(chunks, t)

\* peakHeld is the high-water mark of held since the last forced release
\* (memload.go:79, 215-227): exactly when releaseDue() is over, and never
\* above it before.
PeakIsHighWater ==
  /\ pc \notin {"due", "zero", "done"} => peakHeld = high
  /\ pc = "due" => high = Larger(peakHeld, held)

\* The inductive invariant behind them: the target is one that was asked for,
\* what a tick has decided to hold is bounded like what it holds, and the list
\* that releaseAll() emptied stays empty until held is zeroed.
PlanBounded ==
  /\ target \in asked /\ 0 \in asked
  /\ pc \in {"lock", "growing", "store"} => \E t \in asked : BoundedBy(want, t)

ListEmptied == /\ pc = "release" => cancelled
               /\ pc = "zero" => chunks = 0 /\ cancelled

IInv == /\ TypeOK /\ MutexScope /\ HeldMatchesChunks /\ NoOvershoot
        /\ PeakIsHighWater /\ PlanBounded /\ ListEmptied /\ AllocationBounded

\* Only a net shrink of the threshold below the high-water mark, and only an
\* interval after the previous one, earns a forced release: it stops the world
\* and would cost the process its CPU target (memload.go:50-57, 178-181).
ForcedReleaseEarned ==
  [][sinceRelease' < sinceRelease => /\ high - held >= ReleaseThreshold
                                     /\ sinceRelease = ReleaseInterval]_vars

\* "A target that merely oscillates never triggers" a forced release
\* (memload.go:215-218): while the targets differ by less than the threshold,
\* by more than the rounding to chunks, no release is forced.
OscillationNeverForces ==
  (\A s, t \in Targets : s - t + ChunkSize < ReleaseThreshold) => ~forced

\* Stats() counts a list the engine has published as a whole, never one it is
\* growing or has not published yet, however the two race for the mutex. Only
\* releaseAll() publishes after it has unlocked (memload.go:136-138, 317-321).
CountsPublished ==
  [][at # "counted" /\ at' = "counted" =>
       held = counted' * ChunkSize \/ pc = "zero"]_vars

(***************************************************************************)
(* Liveness.                                                               *)
(***************************************************************************)

\* The resident memory the engine is asked for; without the compensation the
\* target counts the held bytes only.
Goal == IF Compensate /\ RSSReadable THEN Larger(target, Footprint)
                                     ELSE Footprint + target

\* Once the target no longer changes, resident memory settles within one chunk
\* of it, whatever was dropped, forced or estimated on the way: the feedback
\* through the overhead estimate does not hunt (memload.go:192-213, 229-243).
\* Alone of all properties it needs a collector that returns what is
\* unreachable in the end.
TargetReached ==
  WF_vars(Collect) =>
  <>[](cancelled \/ (/\ Resident - Goal <= ChunkSize
                     /\ Goal - Resident <= ChunkSize))

\* A genuine ramp down gets its pages returned even if the collector never
\* does it: held cannot stay far below its high-water mark.
GenuineDropReturned ==
  (high - held >= ReleaseThreshold)
    ~> (high - held < ReleaseThreshold \/ cancelled)

\* After a cancellation Run returns with everything released and the mutex
\* free, even when the cancellation came in the middle of a growth.
EventuallyDrained ==
  <>[](cancelled => pc = "done" /\ mu # "engine" /\ held = 0
                    /\ chunks + garbage = 0)

(***************************************************************************)
(* The engine implements Holding.                                          *)
(***************************************************************************)

Promise == INSTANCE Holding
  WITH Chunk <- ChunkSize, holds <- chunks, reported <- held,
       told <- cancelled, ended <- pc = "done", asked <- asked

\* What the runner may rely on, whatever the engine does inside: every step is
\* one of Holding, or does not show there.
ImplementsHolding == Promise!Spec

\* The part of it that is proved.
HoldsAsPromised == Promise!Init /\ [][Promise!Next]_(Promise!vars)
=============================================================================
