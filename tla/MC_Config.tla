------------------------------ MODULE MC_Config ------------------------------
(***************************************************************************)
(* The sources of configuration for TLC: every combination of the keys     *)
(* that interact, for the profile and for the optional booleans, and every *)
(* short text of the compact syntax.                                       *)
(***************************************************************************)
EXTENDS Config

\* The partial functions that give each key one of its values.
Documents(values) ==
  UNION {{f \in [S -> UNION {values[k] : k \in S}] : \A k \in S : f[k] \in values[k]} :
           S \in SUBSET DOMAIN values}

Booleans == {"true", "false"}

MC_DurationOf == "" :> 0 @@ "60s" :> 60 @@ "0s" :> 0 @@ "-1s" :> -1
MC_FractionOf == "" :> 0 @@ "5%" :> 5 @@ "8%" :> 8
MC_CountOf    == "2" :> 2 @@ "0" :> 0
MC_CurveOf    == "" :> "linear" @@ "step" :> "step" @@ "linear" :> "linear" @@ "wave" :> "sine"
MC_Quantities == [cpu |-> {"", "10%", "1"}, memory |-> {"", "10%", "64Mi"}]

Parts(ends, curve, period) == [ends |-> ends, curve |-> curve, period |-> period]

\* A constant, a ramp, a one-sided ramp, a wave, a quantity for the memory
\* only, and a curve there is none of.
MC_Segments ==
  "" :> Parts(<<"">>, "", "") @@ "10%" :> Parts(<<"10%">>, "", "")
  @@ "10%->1" :> Parts(<<"10%", "1">>, "", "")
  @@ "->10%@wave/60s" :> Parts(<<"", "10%">>, "wave", "60s")
  @@ "64Mi" :> Parts(<<"64Mi">>, "", "") @@ "1@nope" :> Parts(<<"1">>, "nope", "")

Phase(name, d) == [NoPhase EXCEPT !.name = name, !.duration = d, !.cpu = Segment("10%")]

\* "broken" leaves the duration of its first phase out, "hold" holds for ever,
\* "twice" repeats such a phase, with a jitter of its own.
MC_Lists ==
  [spiky |-> <<Phase("a", 1), Phase("b", 0)>>, steps |-> <<Phase("a", 1), Phase("b", 1)>>,
   broken |-> <<Phase("a", 0), Phase("b", 1)>>, hold |-> <<Phase("", 0)>>,
   twice |-> <<[Phase("a", 0) EXCEPT !.repeat = 2, !.jitter = "8%"]>>]

Field(key, value) == [key |-> key, value |-> value]

\* Two phases, the second one open-ended.
PlainText == << <<Field("", "a"), Field("", "60s"), Field("cpu", "10%")>>,
                <<Field("memory", "10%")>> >>

\* Phases and shorthand of every source. "typo" is a key there is none of.
MC_Profiles ==
  [preset : Documents([phases |-> {"spiky"}, loop |-> {"true"}]),
   file   : Documents([phases |-> {"steps", "broken"}, cpu |-> {"10%"},
                       loop |-> Booleans]),
   inline : Documents([phases |-> {"hold"}, memory |-> {"64Mi"}])
              \cup {[typo |-> "inline"], [cpu |-> "1@nope"], [phases |-> "twice"]},
   env    : Documents([phases |-> {"text"}, cpu |-> {"10%->1"}]),
   flag   : Documents([phases |-> {"text", Blank}, cpu |-> {"10%", Empty},
                       loop |-> {"false"}]),
   text   : {PlainText}]

\* The booleans and the jitter, with a shorthand for the configuration to be
\* complete.
MC_Options ==
  LET documents == Documents([hold_last |-> Booleans, soft_limit |-> Booleans])
      flags     == Documents([hold_last |-> Booleans \cup {"maybe"}, jitter |-> {"5%"}])
  IN [preset : {[cpu |-> "10%"]}, file : documents, inline : documents,
      env : flags, flag : flags, text : {PlainText}]

\* The compact syntax: chunks of every field there is, up to three of them,
\* longer ones of the fields that interact, and two chunks.
MC_Fields ==
  {Field("", w) : w \in {"a", "60s", "0s", ""}} \cup {Field("name", "b")}
  \cup {Field("duration", d) : d \in {"60s", "-1s", "long"}}
  \cup {Field("cpu", c) : c \in {"10%->1", "64Mi", "1@nope", ""}}
  \cup {Field("memory", "->10%@wave/60s"), Field("typo", "a")}
  \cup {Field("repeat", n) : n \in {"2", "0"}} \cup {Field("jitter", j) : j \in {"5%", "much"}}

MC_Core ==
  {Field("", "60s"), Field("duration", "0s"), Field("cpu", "10%->1"),
   Field("memory", "64Mi"), Field("jitter", "5%"), Field("jitter", "8%"), Field("repeat", "2")}

MC_Texts ==
  {<<c>> : c \in UNION {[1 .. n -> MC_Fields] : n \in 0 .. 3}}
  \cup {<<c>> : c \in UNION {[1 .. n -> MC_Core] : n \in {4}}}
  \cup {<<c, <<>>, d>> : c, d \in [1 .. 2 -> MC_Core]}

MC_Compact ==
  [preset : {[jitter |-> "8%"]}, file : {<<>>}, inline : {<<>>}, env : {<<>>},
   flag : {[phases |-> "text"]}, text : MC_Texts]

MC_Sources == MC_Profiles \cup MC_Options \cup MC_Compact
=============================================================================
