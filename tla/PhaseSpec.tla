------------------------------ MODULE PhaseSpec ------------------------------
(***************************************************************************)
(* From what a user writes to the phases of a profile (internal/profile):  *)
(* the shorthand of a segment, the compact syntax of --phases, and Build().*)
(*                                                                         *)
(* A text is split already: a list of phases is a sequence of chunks, a    *)
(* chunk a sequence of fields, a field a key (in its canonical form, "" for*)
(* a positional field) and a value. Durations, fractions, counts, curves   *)
(* and quantities are names; the constants say which of them can be parsed.*)
(* A parser returns the set of its one result, and {} for an error.        *)
(***************************************************************************)
EXTENDS Integers, Sequences, SequencesExt, FiniteSetsExt, TLC

CONSTANTS
  DurationOf,  \* ParseDuration(): seconds, by text; the empty text is 0
  FractionOf,  \* ParseFraction()
  CountOf,     \* strconv.Atoi()
  CurveOf,     \* ParseCurve(): the aliases; the empty text is linear
  Segments,    \* the parts of a segment: its ends, its curve and its period
  Quantities   \* the texts that ParseCPU() and ParseBytes() accept, by kind

Kinds == {"cpu", "memory"}

\* What a parser whose domain is that of f makes of a text.
Parse(f, text) == IF text \in DOMAIN f THEN {f[text]} ELSE {}

\* The one result of a parser that has not failed.
Parsed(results) == CHOOSE r \in results : TRUE

\* SegmentSpec and PhaseSpec with nothing configured, and IsZero().
NoSegment == [from |-> "", to |-> "", curve |-> "", period |-> 0,
              duty |-> 0, jitter |-> ""]
NoPhase   == [name |-> "", duration |-> 0, cpu |-> NoSegment,
              memory |-> NoSegment, jitter |-> "", repeat |-> 0]

IsPhaseSpec(spec) == /\ DOMAIN spec = DOMAIN NoPhase
                     /\ spec.duration \in Int /\ spec.repeat \in Int

IsZero(seg) == seg.from = "" /\ seg.to = "" /\ seg.curve = ""

(***************************************************************************)
(* ParseSegmentShorthand(): "to", "from -> to", and either "@curve/period".*)
(***************************************************************************)
ParseSegmentShorthand(text) ==
  LET parts == Segments[text]
  IN {[from |-> parts.ends[1], to |-> Last(parts.ends), curve |-> parts.curve,
       period |-> d, duty |-> 0, jitter |-> ""] :
        d \in IF parts.curve \in DOMAIN CurveOf
              THEN Parse(DurationOf, parts.period) ELSE {}}

\* Durations and counts are numbers, and an empty text configures nothing.
ASSUME ParserAssumption ==
  /\ DurationOf \in [DOMAIN DurationOf -> Int] /\ CountOf \in [DOMAIN CountOf -> Int]
  /\ "" \in DOMAIN DurationOf /\ DurationOf[""] = 0
  /\ ParseSegmentShorthand("") = {NoSegment}

(***************************************************************************)
(* ParsePhaseDSL().                                                        *)
(***************************************************************************)

\* A positional field is the duration, or else, as the first one, the name.
Positional(spec, i, word) ==
  IF word = "" THEN {spec}
  ELSE IF word \in DOMAIN DurationOf /\ spec.duration = 0
  THEN {[spec EXCEPT !.duration = DurationOf[word]]}
  ELSE IF i = 1 /\ spec.name = "" THEN {[spec EXCEPT !.name = word]}
  ELSE {}

JitteredOne(spec, value) ==                     \* mutant: the CPU only
  [spec EXCEPT !.cpu.jitter = value]
\* "jitter" writes into both segments, which a segment after it overwrites.
Jittered(spec, value) ==
  [spec EXCEPT !.cpu.jitter = value, !.memory.jitter = value]

ReadField(spec, i, f) ==
  CASE f.key = ""         -> Positional(spec, i, f.value)
    [] f.key = "name"     -> {[spec EXCEPT !.name = f.value]}
    [] f.key = "duration" -> {[spec EXCEPT !.duration = d] : d \in Parse(DurationOf, f.value)}
    [] f.key = "repeat"   -> {[spec EXCEPT !.repeat = n] :
                                n \in {m \in Parse(CountOf, f.value) : m >= 1}}
    [] f.key = "jitter"   -> {Jittered(spec, f.value)}
    [] f.key \in Kinds    -> {[spec EXCEPT ![f.key] = seg] :
                                seg \in ParseSegmentShorthand(f.value)}
    [] OTHER              -> {}

ParsePhaseChunk(chunk) ==
  FoldLeftDomain(LAMBDA specs, i : UNION {ReadField(s, i, chunk[i]) : s \in specs},
                 {NoPhase}, chunk)

\* Blank chunks are skipped; a text of nothing else is an error, unless it is
\* blank itself.
NotBlank(text) ==
  FlattenSeq([i \in DOMAIN text |-> IF text[i] = <<>> THEN <<>> ELSE <<text[i]>>])

ParsePhaseDSL(text) ==
  LET chunks == NotBlank(text)
  IN IF text = <<>> THEN {<<>>}
     ELSE IF chunks = <<>> \/ \E c \in Range(chunks) : ParsePhaseChunk(c) = {} THEN {}
     ELSE {[i \in DOMAIN chunks |-> Parsed(ParsePhaseChunk(chunks[i]))]}

(***************************************************************************)
(* Build().                                                                *)
(***************************************************************************)

\* A missing end is the other one; without a curve, equal ends are a step. The
\* duty of a square wave is a percentage here.
BuildSegment(kind, seg, default) ==
  LET from == IF seg.from = "" THEN seg.to ELSE seg.from
      to   == IF seg.to = "" THEN seg.from ELSE seg.to
      name == IF seg.curve # "" THEN seg.curve
              ELSE IF from = to THEN "step" ELSE "linear"
  IN IF {from, to} \subseteq Quantities[kind] /\ name \in DOMAIN CurveOf
        /\ seg.duty \in 0 .. 100
     THEN {[from |-> from, to |-> to, curve |-> CurveOf[name],
            period |-> seg.period, duty |-> seg.duty, jitter |-> j] :
             j \in IF seg.jitter = "" THEN {default} ELSE Parse(FractionOf, seg.jitter)}
     ELSE {}

\* A jitter of the phase is the default of its segments.
WithPhaseJitter(spec, kind) ==
  IF spec[kind].jitter = "" THEN [spec[kind] EXCEPT !.jitter = spec.jitter]
  ELSE spec[kind]

PhaseName(spec, i, rep) ==
  (IF spec.name = "" THEN "phase-" \o ToString(i) ELSE spec.name)
  \o (IF spec.repeat > 1 THEN "-" \o ToString(rep) ELSE "")

BuildPhase(spec, i, rep, default) ==
  {[name |-> PhaseName(spec, i, rep), duration |-> spec.duration, cpu |-> c, memory |-> m] :
     c \in IF spec.duration < 0 THEN {}
           ELSE BuildSegment("cpu", WithPhaseJitter(spec, "cpu"), default),
     m \in BuildSegment("memory", WithPhaseJitter(spec, "memory"), default)}

\* Every phase as often as it is to be repeated; a profile has at least one.
Build(specs, default) ==
  LET phases == FlattenSeq([i \in DOMAIN specs |->
                  [r \in 1 .. Max({1, specs[i].repeat}) |->
                    BuildPhase(specs[i], i, r, default)]])
  IN IF phases = <<>> \/ {} \in Range(phases) THEN {}
     ELSE {[i \in DOMAIN phases |-> Parsed(phases[i])]}
=============================================================================
