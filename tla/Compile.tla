------------------------------ MODULE Compile ------------------------------
(***************************************************************************)
(* Config.Compile(): from a configuration to what the engines are started  *)
(* with. The percent base and the resources are parsed, Detect() runs, the *)
(* peaks of the profile are resolved, the options of both engines derived  *)
(* and normalised by their New(), and the warnings of a run collected.     *)
(* How the profile comes about is in Config.                               *)
(***************************************************************************)
EXTENDS Resources

CONSTANT
  Cases  \* what may be configured in what surroundings: [given, written]

\* The machine has whole CPUs, and a profile finitely many segments, of which
\* both ends were parsed when it was read.
ASSUME CaseAssumption ==
  \A case \in Cases :
    /\ \A k \in Keys : case.given.plain[k] \in Nat
    /\ \A file \in DOMAIN case.given.cgroup : case.given.cgroup[file] \in Nat
    /\ \A kind \in Kinds : case.given.node[kind] \in Nat /\ IsFiniteSet(case.written[kind])
    /\ \A kind \in Kinds : \A text \in case.written[kind] : ParseQuantity(kind, text) # {}
    /\ case.given.node.cpu % 1000 = 0
    /\ \A key \in {"workers", "max_procs", "fraction"} : case.written[key] \in Int
    /\ \A i \in DOMAIN case.written.intervals : case.written.intervals[i] \in Int
    /\ DOMAIN case.written.intervals = {"slice", "control_interval", "interval",
                                        "release_interval"}

\* The pool is sized by CpuControl.
Control == INSTANCE CpuControl WITH
             Core <- 1000, One <- 4, PoolSize <- 1, Feedback <- TRUE,
             GainInverse <- 2, Noise <- 0

VARIABLES
  written,   \* the configuration: the ends of the profile's segments (cpu, memory,
             \* sets of texts) and the keys of percent_base, engine and logging
  peak,      \* PeakCPUCores and PeakMemoryBytes
  options,   \* CPUEngine and MemEngine, as New() completes them
  warnings   \* Compiled.Warnings

vars == <<given, info, sources, pc, written, peak, options, warnings>>

compileVars == <<written, peak, options, warnings>>

Init ==
  /\ \E case \in Cases : given = case.given /\ written = case.written
  /\ DetectInit
  /\ pc = "parse"
  /\ peak = [k \in Kinds |-> 0]
  /\ options = <<>>
  /\ warnings = {}

-----------------------------------------------------------------------------
(***************************************************************************)
(* What is configured.                                                     *)
(***************************************************************************)

\* Everything that is parsed before the resources are looked for.
Parses ==
  /\ ParsePercentBase(written.percent_base) \in {{b} : b \in Bases}
  /\ \A k \in Keys : ParseQuantity(KindOf(k), Written(k)) # {}

\* The words that Compile() knows for an option; the first one is the default.
Words ==
  [work |-> <<"int", "float", "sqrt">>, fill |-> <<"random", "zero">>,
   format |-> <<"text", "json">>]

KnownWord(key) ==
  written[key] = "" \/ \E i \in DOMAIN Words[key] : Words[key][i] = written[key]

Word(key) == IF written[key] = "" THEN Words[key][1] ELSE written[key]

\* 4Ki, for a chunk_size that must be absolute.
MinChunk == 4000 * Kibi
DefaultChunk == 4000 * Kibi * Kibi

ChunkValid ==
  written.chunk_size # "" =>
    \E q \in ParseQuantity("memory", written.chunk_size) :
      q.base = "absolute" /\ q.amount >= MinChunk

OptionsValid ==
  /\ \A key \in DOMAIN Words : KnownWord(key)
  /\ ChunkValid
  /\ \A key \in {"max_step", "release_threshold"} :
       ParseQuantity("memory", written[key]) # {}

Parse ==
  /\ pc = "parse"
  /\ Parses
  /\ pc' = IF given.detect THEN "environment" ELSE "overrides"
  /\ UNCHANGED <<given, info, sources, compileVars>>

(***************************************************************************)
(* The peaks of the profile.                                               *)
(***************************************************************************)

\* CPUBases and MemBases.
BasesOf(kind) ==
  [limit   |-> info[IF kind = "cpu" THEN "cpu_limit" ELSE "memory_limit"],
   request |-> info[IF kind = "cpu" THEN "cpu_request" ELSE "memory_request"],
   node    |-> given.node[kind],
   default |-> CHOOSE b \in Bases : b \in ParsePercentBase(written.percent_base)]

Resolved(kind, text) == Resolve(Quantity(kind, text), BasesOf(kind))

\* PeakCPU(), PeakMemory(): over both ends of every segment, and at least 0.
FindPeaks ==
  /\ pc = "known"
  /\ peak' = [k \in Kinds |-> Max({0} \cup {Resolved(k, text) : text \in written[k]})]
  /\ pc' = "engines"
  /\ UNCHANGED <<given, info, sources, written, options, warnings>>

(***************************************************************************)
(* The options of the engines.                                             *)
(***************************************************************************)

\* max_procs replaces GOMAXPROCS, which is the number of CPUs otherwise.
Procs == IF written.max_procs > 0 THEN written.max_procs ELSE given.node.cpu \div 1000

Workers ==
  IF written.workers > 0 THEN written.workers
  ELSE Control!SuggestWorkers(peak["cpu"], Procs)

\* Whole bytes: int64() drops the rest.
WholeBytes(text) ==
  LET v == Resolved("memory", text)
  IN IF v < 0 THEN -(1000 * (-v \div 1000)) ELSE 1000 * (v \div 1000)

\* A soft limit needs a limit; a fraction, here a percentage, that is not
\* above 0 is the default one.
SoftLimit ==
  IF written.soft_limit /\ info["memory_limit"] > 0
  THEN (info["memory_limit"] * (IF written.fraction > 0 THEN written.fraction ELSE 90)) \div 100
  ELSE 0

\* What the New() of the engines makes of an option that is not above 0.
OrDefaultNegative(v, default) ==                \* mutant: 0 is kept
  IF v >= 0 THEN v ELSE default
OrDefault(v, default) == IF v > 0 THEN v ELSE default

\* The tunables in milliseconds: the intervals of the tickers and the slice.
Intervals == [slice |-> 50, control_interval |-> 500, interval |-> 200,
              release_interval |-> 2000]

Options ==
  [workers |-> Workers, work |-> Word("work"), fill |-> Word("fill"),
   chunk |-> IF written.chunk_size = "" THEN DefaultChunk
             ELSE WholeBytes(written.chunk_size),
   max_step |-> WholeBytes(written.max_step),
   threshold |-> OrDefault(WholeBytes(written.release_threshold), 32000 * Kibi * Kibi),
   soft_limit |-> SoftLimit,
   intervals |-> [i \in DOMAIN Intervals |-> OrDefault(written.intervals[i], Intervals[i])]]

(***************************************************************************)
(* The warnings.                                                           *)
(***************************************************************************)

\* A tolerance of a thousandth of the CPU limit, and a margin of a twentieth
\* below the memory limit.
Throttled(limit) == limit > 0 /\ 1000 * peak["cpu"] > 1001 * limit
Killed(limit)    == limit > 0 /\ 20 * peak["memory"] > 19 * limit

WarningsOfRequests ==                           \* mutant: of the wrong base
  (IF peak["cpu"] > given.node.cpu THEN {"unreachable"} ELSE {})
  \cup (IF Throttled(BasesOf("cpu").request) THEN {"throttled"} ELSE {})
  \cup (IF Killed(BasesOf("memory").request) THEN {"killed"} ELSE {})
  \cup (IF \A k \in Kinds : peak[k] = 0 THEN {"idle"} ELSE {})
Warnings ==
  (IF peak["cpu"] > given.node.cpu THEN {"unreachable"} ELSE {})
  \cup (IF Throttled(BasesOf("cpu").limit) THEN {"throttled"} ELSE {})
  \cup (IF Killed(BasesOf("memory").limit) THEN {"killed"} ELSE {})
  \cup (IF \A k \in Kinds : peak[k] = 0 THEN {"idle"} ELSE {})

CompileEngines ==
  /\ pc = "engines"
  /\ OptionsValid
  /\ options' = Options
  /\ warnings' = Warnings
  /\ pc' = "compiled"
  /\ UNCHANGED <<given, info, sources, written, peak>>

Reject ==
  /\ \/ pc = "parse" /\ ~Parses
     \/ pc = "engines" /\ ~OptionsValid
  /\ pc' = "rejected"
  /\ UNCHANGED <<given, info, sources, compileVars>>

Next ==
  \/ Parse
  \/ DetectNext /\ UNCHANGED compileVars
  \/ FindPeaks
  \/ CompileEngines
  \/ Reject

Spec == Init /\ [][Next]_vars /\ WF_vars(Next)

-----------------------------------------------------------------------------
\* There is something to resolve a quantity of this kind with.
Resolvable(kind, q) == q.base = "absolute" \/ \E b \in Bases : BasesOf(kind)[b] > 0

BaseMeant(kind, q) == IF q.base = "default" THEN BasesOf(kind).default ELSE q.base

\* A percentage of whatever is known comes to so many thousandths, of a core or
\* of a byte. Products are cut off after thousandths here, and in the code bytes
\* are cut off after whole ones.
ComesTo(kind, q, least) ==
  q.base # "absolute" =>
    \A b \in Bases : BasesOf(kind)[b] > 0 => q.amount * BasesOf(kind)[b] >= 1000 * least

\* "Unknown bases degrade gracefully instead of erroring so that a profile
\* written against limits still runs in a pod with no limits set"
\* (units.go:64-66): whatever was discovered, a target above 0 remains one as
\* long as anything is known, at its size if its own base is; and a run that
\* has nothing to do is warned about, and no other.
StillRuns ==
  pc = "compiled" =>
    LET ends == UNION {{<<k, Quantity(k, text)>> : text \in written[k]} : k \in Kinds}
        asks(e) == e[2].amount > 0 /\ Resolvable(e[1], e[2])
    IN /\ \A e \in ends :
            LET kind == e[1]  q == e[2]
            IN q.base # "absolute" /\ q.amount > 0 =>
                 LET base == BasesOf(kind)[BaseMeant(kind, q)]
                 IN /\ Resolvable(kind, q) /\ ComesTo(kind, q, 1) => peak[kind] > 0
                    /\ base > 0 => 1000 * peak[kind] >= q.amount * base - 999
       /\ (\A e \in ends : asks(e) => ComesTo(e[1], e[2], 1))
            => ("idle" \in warnings <=> \A e \in ends : ~asks(e))

\* A warning is missing only where there is nothing to warn of: unless the pool
\* or GOMAXPROCS was set by hand, it reaches the peak; the peak stays within
\* the CPU limit and below the memory limit; and a profile of percentages of
\* limits that are known, up to 95%, is never warned of, wherever the limits
\* were found.
Unwarned ==
  pc = "compiled" =>
    LET limit == [k \in Kinds |-> BasesOf(k).limit]
        fits(k) == limit[k] > 0 /\ \A text \in written[k] :
                     /\ Quantity(k, text).amount <= 950
                     /\ BaseMeant(k, Quantity(k, text)) = "limit"
    IN /\ "unreachable" \notin warnings /\ written.workers <= 0 /\ written.max_procs <= 0
            => 1000 * options.workers >= peak["cpu"]
       /\ "throttled" \notin warnings /\ limit["cpu"] > 0
            => peak["cpu"] <= limit["cpu"] + limit["cpu"] \div 1000
       /\ "killed" \notin warnings /\ limit["memory"] > 0 => peak["memory"] < limit["memory"]
       /\ fits("cpu") => "throttled" \notin warnings
       /\ fits("memory") => "killed" \notin warnings

\* The engines get what they assume: a worker, a chunk of at least 4Ki, a
\* threshold, no interval a ticker would panic on, and a soft limit below the
\* memory limit and only with one.
AssumptionsMet ==
  /\ options.workers >= 1 /\ options.chunk >= MinChunk /\ options.threshold > 0
  /\ \A i \in DOMAIN Intervals : options.intervals[i] > 0
  /\ written.fraction <= 100 => options.soft_limit <= info["memory_limit"]
  /\ options.soft_limit > 0 => written.soft_limit

\* No option turns into its opposite on the way: 0 means "unlimited" for
\* max_step, so one that was asked for is never 0, unless the resources it
\* refers to are unknown, or so few that it is not a byte (as when a limit was
\* written as a percentage, of which Compile() takes the number,
\* config.go:256-285).
StepKept ==
  LET step == Quantity("memory", written.max_step)
  IN step.amount > 0 /\ Resolvable("memory", step) /\ ComesTo("memory", step, 1000)
       => options.max_step > 0

\* What Compile() hands to the engines is what their code relies on.
EnginesFit == pc = "compiled" => AssumptionsMet /\ StepKept
=============================================================================
