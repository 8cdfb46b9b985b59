------------------------------- MODULE Config -------------------------------
(***************************************************************************)
(* How a configuration comes about (internal/config): the defaults, a      *)
(* preset, a file and inline YAML are decoded one over the other, then the *)
(* environment and the flags are applied, and the result is compiled or    *)
(* rejected.                                                               *)
(*                                                                         *)
(* A source is a function from the keys it sets to their values. A target  *)
(* of the shorthand is a name of PhaseSpec, and so is a list of phases in a*)
(* document; the environment and the flags give the compact syntax, whose  *)
(* text belongs to the sources. The optional booleans are pointers:        *)
(* decoding a document writes through them.                                *)
(***************************************************************************)
EXTENDS PhaseSpec

CONSTANTS
  Sources,    \* what may be configured: [preset, file, inline, env, flag, text]
  Lists       \* the lists of phases in documents: sequences of PhaseSpecs

PlainKeys == {"phases", "cpu", "memory", "loop", "jitter"}
BoolKeys  == {"hold_last", "soft_limit"}
Keys      == PlainKeys \cup BoolKeys

\* The sources in order of precedence.
Order == <<"default", "preset", "file", "inline", "env", "flag">>

Unset == ""        \* nothing configured
Empty == "empty"   \* a flag given as "--name="
Blank == "blank"   \* "--phases=' '": not empty, but no phases either

\* A shorthand that configures something, unlike a blank one, "->" or "@".
Says(text) ==
  text \in DOMAIN Segments /\ \A seg \in ParseSegmentShorthand(text) : ~IsZero(seg)

ASSUME ListsAssumption ==
  /\ DOMAIN Lists \cap {Unset, Blank, "text"} = {}
  /\ \A l \in DOMAIN Lists : /\ Lists[l] \in Seq(Range(Lists[l])) \ {<<>>}
                             /\ \A spec \in Range(Lists[l]) : IsPhaseSpec(spec)

\* The phases of a document are a list, those of a variable or a flag a text.
\* A variable that is blank counts as none; of flags, a list of phases may be
\* blank, and any may be empty. Lists and shorthands that are given say
\* something: one that does not would clear what a weaker source gives.
ASSUME SourcesAssumption ==
  \A s \in Sources :
    /\ \A l \in {"preset", "file", "inline"} :
         /\ "phases" \in DOMAIN s[l] => s[l]["phases"] \in DOMAIN Lists
         /\ \A k \in Kinds \cap DOMAIN s[l] : Says(s[l][k])
    /\ \A l \in {"env", "flag"} :
         /\ "phases" \in DOMAIN s[l] => s[l]["phases"] \in {"text", Blank, Empty}
         /\ \A k \in DOMAIN s[l] \ {"phases"} : s[l][k] # Blank
         /\ \A k \in Kinds \cap DOMAIN s[l] : s[l][k] = Empty \/ Says(s[l][k])
    /\ \A k \in DOMAIN s.env : s.env[k] \notin {Empty, Blank}
    /\ s.text \in Seq(Seq([key : STRING, value : STRING])) \ {<<>>}

VARIABLES
  src,       \* what each source sets
  plain,     \* the values of PlainKeys in cfg
  ptr,       \* the addresses of BoolKeys in cfg
  heap,      \* the booleans at these addresses
  pc,        \* where Load() and Compile() are
  compiled   \* the result of Compile()

vars == <<src, plain, ptr, heap, pc, compiled>>

-----------------------------------------------------------------------------
\* Default(): ptrBool() gives each optional boolean a copy of its own.
SharedAddress(k) == <<"default", "all">>        \* mutant: one copy for all
DefaultAddress(k) == <<"default", k>>

Init ==
  /\ src \in Sources
  /\ plain = [k \in PlainKeys |-> IF k = "loop" THEN "false" ELSE Unset]
  /\ ptr = [k \in BoolKeys |-> DefaultAddress(k)]
  /\ heap = [a \in {DefaultAddress(k) : k \in BoolKeys} |-> "true"]
  /\ pc = "preset"
  /\ compiled = <<>>

(***************************************************************************)
(* Load().                                                                 *)
(***************************************************************************)

\* SegmentSpec and PhaseSpec of what is configured.
Segment(text) == Parsed(ParseSegmentShorthand(text))

SpecsOf(list) ==
  CASE list \in {Unset, Blank} -> <<>>
    [] list = "text"           -> Parsed(ParsePhaseDSL(src.text))
    [] OTHER                   -> Lists[list]

\* mergeYAML(): an unknown key or a segment that cannot be parsed is an error,
\* a key that is present wins, one that is absent keeps its value.
MergeYAML(doc, next) ==
  /\ IF DOMAIN doc \subseteq Keys
        /\ \A k \in Kinds \cap DOMAIN doc : ParseSegmentShorthand(doc[k]) # {}
     THEN /\ plain' = [k \in PlainKeys |->
                         IF k \in DOMAIN doc THEN doc[k] ELSE plain[k]]
          /\ heap' = [a \in DOMAIN heap |->
                        LET written == {k \in BoolKeys \cap DOMAIN doc : ptr[k] = a}
                        IN IF written = {} THEN heap[a]
                           ELSE doc[CHOOSE k \in written : TRUE]]
          /\ pc' = next
     ELSE pc' = "rejected" /\ UNCHANGED <<plain, heap>>
  /\ UNCHANGED <<src, ptr, compiled>>

LoadPreset == pc = "preset" /\ MergeYAML(src.preset, "file")
LoadFile   == pc = "file" /\ MergeYAML(src.file, "inline")
LoadInline == pc = "inline" /\ MergeYAML(src.inline, "apply")

\* ApplyEnv(): an explicit flag, even an empty one, hides its variable.
Overridden(k) ==
  IF k \in DOMAIN src.flag THEN src.flag[k]
  ELSE IF k \in DOMAIN src.env THEN src.env[k] ELSE Empty

Has(k) == Overridden(k) # Empty

\* apply(): phases replace a shorthand that was configured before, and a
\* shorthand replaces phases, unless both are given here.
KeptByApply(k) ==                           \* mutant: nothing is replaced
  plain[k]
Kept(k) ==
  CASE k = "phases" /\ ~Has("phases") /\ (Has("cpu") \/ Has("memory")) -> Unset
    [] k \in {"cpu", "memory"} /\ Has("phases") -> Unset
    [] OTHER -> plain[k]

\* Every value given here can be parsed.
FlagsParse ==
  /\ Has("phases") /\ Overridden("phases") # Blank => ParsePhaseDSL(src.text) # {}
  /\ \A k \in Kinds : Has(k) => ParseSegmentShorthand(Overridden(k)) # {}
  /\ \A k \in BoolKeys \cup {"loop"} : Has(k) => Overridden(k) \in {"true", "false"}

Apply ==
  /\ pc = "apply"
  /\ FlagsParse
  /\ plain' = [k \in PlainKeys |-> IF Has(k) THEN Overridden(k) ELSE Kept(k)]
  /\ ptr' = [k \in BoolKeys |-> IF Has(k) THEN <<"flag", k>> ELSE ptr[k]]
  /\ heap' = [a \in DOMAIN heap \cup {<<"flag", k>> : k \in BoolKeys} |->
                IF \E k \in BoolKeys : Has(k) /\ a = <<"flag", k>>
                THEN Overridden(a[2])
                ELSE IF a \in DOMAIN heap THEN heap[a] ELSE "true"]
  /\ pc' = "compile"
  /\ UNCHANGED <<src, compiled>>

(***************************************************************************)
(* Compile().                                                              *)
(***************************************************************************)

Shorthand == \E k \in Kinds : ~IsZero(Segment(plain[k]))
Listed    == SpecsOf(plain["phases"]) # <<>>

\* The shorthand is one open-ended phase.
Phases == IF Listed THEN plain["phases"] ELSE "shorthand"
Specs  == IF Listed THEN SpecsOf(plain["phases"])
          ELSE <<[NoPhase EXCEPT !.name = "main", !.cpu = Segment(plain["cpu"]),
                                 !.memory = Segment(plain["memory"])]>>

\* The profile that Build() makes with the default jitter, if it makes one.
Profiles == UNION {Build(Specs, j) : j \in Parse(FractionOf, plain["jitter"])}

OpenEnded(profile) == Last(profile).duration = 0
Loop == plain["loop"] = "true"

\* Only the last phase may omit its duration, and no phase of a loop, unless
\* it is the only one.
AcceptedAnyLoop ==                          \* mutant: the loop is not checked
  /\ Listed \/ Shorthand
  /\ \A i \in 1 .. Len(Specs) - 1 : Specs[i].duration > 0
  /\ Profiles # {}
Accepted ==
  /\ Listed \/ Shorthand
  /\ \A i \in 1 .. Len(Specs) - 1 : Specs[i].duration > 0
  /\ Profiles # {}
  /\ \A p \in Profiles : Loop /\ OpenEnded(p) => Len(p) = 1

Warnings(profile) ==
  (IF Listed /\ Shorthand THEN {"shorthand ignored"} ELSE {})
  \cup (IF Loop /\ OpenEnded(profile) THEN {"loop ignored"} ELSE {})

Compile ==
  /\ pc = "compile"
  /\ Accepted
  /\ \E p \in Profiles :
       compiled' = [phases |-> Phases, profile |-> p,
                    loop |-> Loop /\ ~(OpenEnded(p) /\ Len(p) = 1),
                    optional |-> [k \in BoolKeys |-> heap[ptr[k]]],
                    warnings |-> Warnings(p)]
  /\ pc' = "running"
  /\ UNCHANGED <<src, plain, ptr, heap>>

Reject ==
  /\ \/ pc = "apply" /\ ~FlagsParse
     \/ pc = "compile" /\ ~Accepted
  /\ pc' = "rejected"
  /\ UNCHANGED <<src, plain, ptr, heap, compiled>>

Next == LoadPreset \/ LoadFile \/ LoadInline \/ Apply \/ Compile \/ Reject

Spec == Init /\ [][Next]_vars /\ WF_vars(Next)

-----------------------------------------------------------------------------
\* Whether a source gives a key a value.
Gives(l, k) ==
  CASE l = "default" -> k \in BoolKeys \cup {"loop", "jitter"}
    [] l = "flag"    -> k \in DOMAIN src.flag /\ src.flag[k] \notin {Empty, Blank}
    [] l = "env"     -> k \in DOMAIN src.env /\ k \notin DOMAIN src.flag
    [] OTHER         -> k \in DOMAIN src[l]

\* The rank of the strongest source that gives one of the keys.
Strongest(keys) ==
  Max({0} \cup {r \in DOMAIN Order : \E k \in keys : Gives(Order[r], k)})

Given(k) == LET l == Order[Strongest({k})]
            IN IF l # "default" THEN src[l][k]
                ELSE CASE k = "loop" -> "false"
                       [] k \in BoolKeys -> "true"
                       [] OTHER -> Unset

\* "Each layer only overrides the keys it actually sets": an option has the
\* value of the strongest source that sets it, and no option changes because
\* another one was set (CONFIGURATION.md:19-24, config.go:164-168).
Layered ==
  pc = "running" =>
    /\ \A k \in BoolKeys : compiled.optional[k] = Given(k)
    /\ \A k \in {"loop", "jitter"} : plain[k] = Given(k)

\* The strongest source decides between phases and a shorthand: a shorthand
\* that is stronger runs, or the run says that it does not; one from the
\* environment or the command line runs in the place of any phases of a
\* preset, of the file or of inline YAML; and phases that are at least as
\* strong as any shorthand run, and are those of the strongest source.
StrongestRuns ==
  LET shorthand == Strongest({"cpu", "memory"})
      phases    == Strongest({"phases"})
  IN pc = "running" =>
       /\ shorthand > phases =>
            compiled.phases = "shorthand" \/ "shorthand ignored" \in compiled.warnings
       /\ shorthand > 4 /\ phases <= 4 => compiled.phases = "shorthand"
       /\ phases >= shorthand => compiled.phases = Given("phases")

\* A profile that runs can be played: no phase lasts less than nothing, one
\* without a duration is followed by none that has one, so that Eval() gets to
\* every phase, and the pass of a loop takes time and ends in a phase that
\* ends, so that the first one begins again.
Playable ==
  pc = "running" =>
    LET d == [i \in DOMAIN compiled.profile |-> compiled.profile[i].duration]
    IN /\ \A i \in DOMAIN d : d[i] >= 0 /\ (d[i] = 0 => \A j \in i .. Len(d) : d[j] = 0)
       /\ compiled.loop => Last(d) > 0

-----------------------------------------------------------------------------
(***************************************************************************)
(* What a chunk of the compact syntax says, read without an order.         *)
(***************************************************************************)

IsDuration(f) == f.key = "duration" \/ (f.key = "" /\ f.value \in DOMAIN DurationOf \ {""})

\* The fields that say something about one thing, and the last of these.
With(chunk, key) == {i \in DOMAIN chunk : chunk[i].key = key}
Named(chunk)     == With(chunk, "name")
                      \cup {i \in With(chunk, "") : i = 1 /\ ~IsDuration(chunk[i])}
Durations(chunk) == {i \in DOMAIN chunk : IsDuration(chunk[i])}
Bare(chunk)      == With(chunk, "") \cap Durations(chunk)

LastSaid(chunk, places) == IF places = {} THEN "" ELSE chunk[Max(places)].value

\* The same phase as a mapping of YAML.
AsYAML(chunk) ==
  LET times == With(chunk, "repeat")
  IN [name     |-> LastSaid(chunk, Named(chunk)),
      duration |-> DurationOf[LastSaid(chunk, Durations(chunk))],
      cpu      |-> Segment(LastSaid(chunk, With(chunk, "cpu"))),
      memory   |-> Segment(LastSaid(chunk, With(chunk, "memory"))),
      jitter   |-> LastSaid(chunk, With(chunk, "jitter")),
      repeat   |-> IF times = {} THEN 0 ELSE CountOf[LastSaid(chunk, times)]]

\* A segment comes after a jitter, and overwrites it.
JitterOverwritten(chunk) ==
  \E i, j \in DOMAIN chunk : i < j /\ chunk[i].key = "jitter" /\ chunk[j].key \in Kinds

\* "A complete profile can be expressed without a config file" (dsl.go:9-11):
\* the compact syntax makes the same profile as the phases it spells out would
\* in a document, whatever the order and the repetition of its fields, as long
\* as no segment follows a jitter; and no duration is dropped for another one
\* that has no key either.
CompactMeansYAML ==
  pc = "running" /\ compiled.phases = "text" =>
    LET chunks == NotBlank(src.text)
    IN /\ (\A c \in Range(chunks) : ~JitterOverwritten(c)) =>
            compiled.profile \in Build([i \in DOMAIN chunks |-> AsYAML(chunks[i])],
                                      FractionOf[plain["jitter"]])
       /\ \A c \in Range(chunks) :
            With(c, "duration") = {} =>
              \A i, j \in Bare(c) : i < j => DurationOf[c[i].value] = 0
=============================================================================
