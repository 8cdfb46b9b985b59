--------------------------- MODULE Compile_proofs ---------------------------
(***************************************************************************)
(* Proofs about Compile, and Resources and Units within it, for every      *)
(* configuration in every surrounding: any texts, whatever they are made   *)
(* of, any environment, cgroup and machine.                                *)
(***************************************************************************)
EXTENDS Compile, SetInduction, FiniteSetTheorems

(***************************************************************************)
(* The inductive invariant.                                                *)
(***************************************************************************)
Known    == {"known", "engines", "compiled"}
Places   == {"parse", "environment", "cgroup", "overrides", "recheck", "rejected"} \cup Known
Sources  == {NoSource, "config", "env:plain", "env:suffixed"} \cup Quotas \cup Limits \cup Estimates

TypeOK ==
  /\ \E case \in Cases : given = case.given /\ written = case.written
  /\ info \in [Keys -> Nat]
  /\ sources \in [Keys -> Sources]
  /\ pc \in Places
  /\ peak \in [Kinds -> Nat]

\* What is not a quantity is rejected before anything is looked for.
Parsed == pc \notin {"parse", "rejected"} => Parses

\* An estimate was compared with the machine when it was found, and with the
\* limit once that is known.
WithinNode ==
  sources["cpu_request"] \in Estimates => info["cpu_request"] <= given.node.cpu

WithinLimit ==
  pc \in Known /\ sources["cpu_request"] \in Estimates /\ info["cpu_limit"] > 0
    => info["cpu_request"] <= info["cpu_limit"]

\* What the environment gave, and that no limit of the cgroup was missed.
EnvironmentKept(k) ==
  given.plain[k] > 0 => info[k] = given.plain[k] /\ sources[k] = "env:plain"

CgroupAsked(k) ==
  info[k] = 0 => /\ k = "cpu_limit" => CgroupQuota.value = 0
                 /\ k = "memory_limit" => CgroupMemory.value = 0

Detection ==
  given.detect =>
    \A k \in Keys :
      /\ pc \in {"cgroup", "overrides"} => EnvironmentKept(k)
      /\ pc = "overrides" => CgroupAsked(k)

\* The configuration has had its say, over what was detected.
Configuration ==
  pc \in {"recheck"} \cup Known =>
    \A k \in Keys :
      /\ Override(k) > 0 => info[k] = Override(k) /\ sources[k] = "config"
      /\ Override(k) <= 0 /\ given.detect => EnvironmentKept(k) /\ CgroupAsked(k)

\* What was computed is still what would be computed.
Peaks == [k \in Kinds |-> Max({0} \cup {Resolved(k, text) : text \in written[k]})]

Computed ==
  /\ pc \in {"engines", "compiled"} => peak = Peaks
  /\ pc = "compiled" => OptionsValid /\ options = Options /\ warnings = Warnings

IInv ==
  /\ TypeOK /\ Parsed
  /\ SourceHonest /\ WithinNode /\ WithinLimit
  /\ Detection /\ Configuration /\ Computed

(***************************************************************************)
(* Quantities.                                                             *)
(***************************************************************************)

\* The products of the factors of memory are natural numbers, of whole bytes.
LEMMA UnitFactors ==
  ASSUME NEW kind \in Kinds, NEW u \in DOMAIN UnitOf(kind)
  PROVE  /\ UnitOf(kind)[u] \in Nat \ {0}
         /\ kind = "memory" => UnitOf(kind)[u] >= 1000
<1>. DEFINE kilo == 1000 * Kilo
            mega == 1000 * Kilo * Kilo
            kibi == 1000 * Kibi
            mebi == 1000 * Kibi * Kibi
<1>1. /\ kilo \in Nat \ {0} /\ mega \in Nat \ {0} /\ kibi \in Nat \ {0} /\ mebi \in Nat \ {0}
      /\ kilo >= 1000 /\ mega >= 1000 /\ kibi >= 1000 /\ mebi >= 1000
  <2>1. \A a, b \in Nat \ {0} : a * b \in Nat \ {0} /\ a * b >= a
    OBVIOUS
  <2>2. kilo \in Nat \ {0} /\ kilo >= 1000 /\ kibi \in Nat \ {0} /\ kibi >= 1000
    BY FactorAssumption DEF FactorAssumption
  <2>3. mega = kilo * Kilo /\ mebi = kibi * Kibi
    OBVIOUS
  <2>. HIDE DEF kilo, mega, kibi, mebi
  <2>4. mega \in Nat \ {0} /\ mega >= kilo /\ mebi \in Nat \ {0} /\ mebi >= kibi
    BY <2>1, <2>2, <2>3, FactorAssumption DEF FactorAssumption
  <2>. QED  BY <2>2, <2>4
<1>. HIDE DEF kilo, mega, kibi, mebi
<1>2. CASE kind = "cpu"
  <2>. DEFINE names == MilliUnits \cup {"", "c", "core", "cores"}
  <2>1. UnitOf(kind) = [w \in names |-> IF w \in MilliUnits THEN 1 ELSE 1000]
    BY <1>2 DEF UnitOf
  <2>. HIDE DEF names
  <2>2. u \in names
    BY <2>1
  <2>3. UnitOf(kind)[u] = IF u \in MilliUnits THEN 1 ELSE 1000
    BY <2>1, <2>2
  <2>. QED  BY <1>2, <2>3
<1>3. CASE kind = "memory"
  <2>1. UnitOf(kind) = [w \in {"", "k", "m", "Ki", "Mi"} |->
                          CASE w = ""   -> 1000
                            [] w = "k"  -> kilo
                            [] w = "m"  -> mega
                            [] w = "Ki" -> kibi
                            [] w = "Mi" -> mebi]
    BY <1>3 DEF UnitOf, kilo, mega, kibi, mebi
  <2>2. u \in {"", "k", "m", "Ki", "Mi"}
    BY <2>1
  <2>3. UnitOf(kind)[u] = CASE u = ""   -> 1000
                            [] u = "k"  -> kilo
                            [] u = "m"  -> mega
                            [] u = "Ki" -> kibi
                            [] u = "Mi" -> mebi
    BY <2>1, <2>2, Zenon
  <2>4. UnitOf(kind)[u] \in {1000, kilo, mega, kibi, mebi}
    <3>1. CASE u = ""
      BY <2>3, <3>1
    <3>2. CASE u = "k"
      BY <2>3, <3>2
    <3>3. CASE u = "m"
      BY <2>3, <3>3
    <3>4. CASE u = "Ki"
      BY <2>3, <3>4
    <3>5. CASE u = "Mi"
      BY <2>3, <3>5
    <3>. QED  BY <2>2, <3>1, <3>2, <3>3, <3>4, <3>5
  <2>. QED  BY <1>1, <2>4
<1>. QED  BY <1>2, <1>3 DEF Kinds

\* A text that is a quantity has a number, of a known base.
LEMMA QuantityNumber ==
  ASSUME NEW kind \in Kinds, NEW text, ParseQuantity(kind, text) # {}
  PROVE  /\ Quantity(kind, text) \in ParseQuantity(kind, text)
         /\ Quantity(kind, text).amount \in Int
         /\ Quantity(kind, text).base \in Bases \cup {"default", "absolute"}
         /\ text = "" \/ Texts[text].unit # "%" => Quantity(kind, text).amount \in Nat
<1>. DEFINE q == Quantity(kind, text)
            t == Texts[text]
<1>1. q \in ParseQuantity(kind, text)
  BY DEF Quantity
<1>. HIDE DEF q
<1>2. CASE text = ""
  <2>1. q = NoQuantity
    BY <1>1, <1>2 DEF ParseQuantity
  <2>. QED  BY <1>1, <2>1 DEF NoQuantity, q
<1>3. CASE text # "" /\ text \notin DOMAIN Texts
  BY <1>1, <1>3 DEF ParseQuantity
<1>4. CASE text # "" /\ text \in DOMAIN Texts /\ t.unit = "%"
  <2>1. PICK w \in {t.base} \cap DOMAIN BaseOf : q = [amount |-> 10 * t.number, base |-> BaseOf[w]]
    BY <1>1, <1>4 DEF ParseQuantity
  <2>2. BaseOf[w] \in DOMAIN WordsOf
    BY <2>1 DEF BaseOf
  <2>3. BaseOf[w] \in Bases \cup {"default", "absolute"}
    BY <2>2 DEF WordsOf, Bases
  <2>4. t.number \in Int
    BY <1>4, TextAssumption DEF TextAssumption
  <2>5. q.amount = 10 * t.number /\ q.base = BaseOf[w]
    BY <2>1
  <2>6. q.amount \in Int
    <3>. HIDE DEF t
    <3>. QED  BY <2>4, <2>5
  <2>. QED  BY <1>1, <1>4, <2>3, <2>5, <2>6 DEF q
<1>5. CASE text # "" /\ text \in DOMAIN Texts /\ t.unit # "%"
  <2>1. PICK u \in {v \in {t.unit} \cap DOMAIN UnitOf(kind) : t.number >= 0} :
           q = [amount |-> t.number * UnitOf(kind)[u], base |-> "absolute"]
    BY <1>1, <1>5 DEF ParseQuantity
  <2>2. t.number \in Nat
    <3>1. t.number \in Int /\ t.number >= 0
      BY <1>5, <2>1, TextAssumption DEF TextAssumption
    <3>. HIDE DEF t
    <3>. QED  BY <3>1
  <2>. DEFINE f == UnitOf(kind)[u]
  <2>3. f \in Nat
    BY <2>1, UnitFactors
  <2>. HIDE DEF f
  <2>4. t.number * f \in Nat
    <3>. HIDE DEF t
    <3>. QED  BY <2>2, <2>3
  <2>5. q.amount = t.number * f /\ q.base = "absolute"
    BY <2>1 DEF f
  <2>6. q.amount \in Nat /\ q.amount \in Int
    BY <2>4, <2>5
  <2>. QED  BY <1>1, <2>5, <2>6 DEF q
<1>. QED  BY <1>2, <1>3, <1>4, <1>5

\* An absolute quantity of memory that is not 0 is at least a byte.
LEMMA AbsoluteBytes ==
  ASSUME NEW text, ParseQuantity("memory", text) # {},
         Quantity("memory", text).base = "absolute", Quantity("memory", text).amount > 0
  PROVE  Quantity("memory", text).amount >= 1000
<1>. DEFINE q == Quantity("memory", text)
            t == Texts[text]
<1>1. q \in ParseQuantity("memory", text)
  BY DEF Quantity
<1>2. q.base = "absolute" /\ q.amount > 0
  OBVIOUS
<1>. HIDE DEF q
<1>3. CASE text = ""
  <2>1. q = NoQuantity
    BY <1>1, <1>3 DEF ParseQuantity
  <2>. QED  BY <1>2, <2>1 DEF NoQuantity
<1>4. CASE text # "" /\ text \notin DOMAIN Texts
  BY <1>1, <1>4 DEF ParseQuantity
<1>5. CASE text # "" /\ text \in DOMAIN Texts /\ t.unit = "%"
  <2>1. PICK w \in {t.base} \cap DOMAIN BaseOf : q = [amount |-> 10 * t.number, base |-> BaseOf[w]]
    BY <1>1, <1>5 DEF ParseQuantity
  <2>2. BaseOf[w] \in DOMAIN WordsOf
    BY <2>1 DEF BaseOf
  <2>3. BaseOf[w] # "absolute"
    BY <2>2 DEF WordsOf
  <2>. QED  BY <1>2, <2>1, <2>3
<1>6. CASE text # "" /\ text \in DOMAIN Texts /\ t.unit # "%"
  <2>1. PICK u \in {v \in {t.unit} \cap DOMAIN UnitOf("memory") : t.number >= 0} :
           q = [amount |-> t.number * UnitOf("memory")[u], base |-> "absolute"]
    BY <1>1, <1>6 DEF ParseQuantity
  <2>. DEFINE f == UnitOf("memory")[u]
              n == t.number
  <2>2. f \in Nat \ {0} /\ f >= 1000
    BY <2>1, UnitFactors DEF Kinds
  <2>3. n \in Int /\ n >= 0
    BY <1>6, <2>1, TextAssumption DEF TextAssumption
  <2>4. q.amount = n * f
    BY <2>1
  <2>. HIDE DEF f, n
  <2>5. n # 0
    <3>1. 0 * f = 0
      BY <2>2
    <3>. QED  BY <1>2, <2>4, <3>1
  <2>6. n * f >= f /\ n * f \in Nat
    BY <2>2, <2>3, <2>5
  <2>. QED  BY <2>2, <2>4, <2>6 DEF q
<1>. QED  BY <1>3, <1>4, <1>5, <1>6 DEF q

\* Every key is of one of the two kinds.
LEMMA KeyKinds == \A k \in Keys : KindOf(k) \in Kinds
  BY DEF KindOf, Kinds

\* What is taken from the environment is a natural number.
LEMMA SuffixedNumber ==
  ASSUME NEW k \in Keys PROVE Suffixed(k) \in Nat
<1>. DEFINE kind == KindOf(k)
            text == given.suffixed[k]
            t == Texts[text]
            taken == /\ text \in DOMAIN Texts
                     /\ t.number > 0
                     /\ t.unit \in IF kind = "cpu" THEN {"", "m"} ELSE DOMAIN UnitOf("memory")
<1>1. kind \in Kinds
  BY KeyKinds
<1>. HIDE DEF kind, text
<1>2. Suffixed(k) = Detected(kind, text)
  BY DEF Suffixed, kind, text
<1>3. CASE taken
  <2>1. t.number > 0 /\ text \in DOMAIN Texts
    BY <1>3, Zenon
  <2>2. t.unit \in DOMAIN UnitOf(kind) /\ t.unit # "%"
    <3>1. CASE kind = "cpu"
      <4>1. t.unit \in {"", "m"}
        BY <1>3, <3>1
      <4>. QED  BY <3>1, <4>1 DEF UnitOf, MilliUnits
    <3>2. CASE kind = "memory"
      <4>1. t.unit \in DOMAIN UnitOf("memory")
        BY <1>3, <3>2
      <4>2. DOMAIN UnitOf("memory") = {"", "k", "m", "Ki", "Mi"}
        BY DEF UnitOf
      <4>. QED  BY <3>2, <4>1, <4>2
    <3>. QED  BY <1>1, <3>1, <3>2 DEF Kinds
  <2>3. t.number >= 0
    <3>1. t.number \in Int
      BY <2>1, TextAssumption DEF TextAssumption
    <3>. HIDE DEF t
    <3>. QED  BY <2>1, <3>1
  <2>4. ParseQuantity(kind, text) # {}
    <3>1. CASE text = ""
      BY <3>1 DEF ParseQuantity
    <3>2. CASE text # ""
      <4>. DEFINE q == [amount |-> t.number * UnitOf(kind)[t.unit], base |-> "absolute"]
      <4>1. q \in ParseQuantity(kind, text)
        BY <2>1, <2>2, <2>3, <3>2 DEF ParseQuantity
      <4>. QED  BY <4>1
    <3>. QED  BY <3>1, <3>2
  <2>5. Quantity(kind, text).amount \in Nat
    BY <1>1, <2>2, <2>4, QuantityNumber
  <2>6. Suffixed(k) = Quantity(kind, text).amount
    BY <1>2, <1>3 DEF Detected
  <2>. QED  BY <2>5, <2>6
<1>4. CASE ~taken
  <2>1. Detected(kind, text) = IF taken THEN Quantity(kind, text).amount ELSE 0
    BY DEF Detected
  <2>. HIDE DEF taken
  <2>. QED  BY <1>2, <1>4, <2>1
<1>. QED  BY <1>3, <1>4

\* The number of an override that was parsed.
LEMMA OverrideNumber ==
  ASSUME Parses, NEW k \in Keys PROVE Override(k) \in Int
<1>1. ParseQuantity(KindOf(k), Written(k)) # {}
  BY DEF Parses
<1>. QED  BY <1>1, KeyKinds, QuantityNumber DEF Override

(***************************************************************************)
(* The cgroup.                                                             *)
(***************************************************************************)

\* The surroundings of a case have numbers.
LEMMA Surroundings ==
  ASSUME TypeOK
  PROVE  /\ \A k \in Keys : given.plain[k] \in Nat
         /\ \A file \in DOMAIN given.cgroup : given.cgroup[file] \in Nat
         /\ \A kind \in Kinds : given.node[kind] \in Nat /\ IsFiniteSet(written[kind])
         /\ given.node.cpu \in Nat /\ given.node.cpu % 1000 = 0
         /\ \A kind \in Kinds : \A text \in written[kind] : ParseQuantity(kind, text) # {}
<1>1. PICK case \in Cases : given = case.given /\ written = case.written
  BY DEF TypeOK
<1>2. given.node.cpu = given.node["cpu"] /\ "cpu" \in Kinds
  BY DEF Kinds
<1>. QED  BY <1>1, <1>2, CaseAssumption DEF CaseAssumption

\* Each number of the cgroup comes from a file of its own kind, and none from
\* none.
LEMMA CgroupNumbers ==
  ASSUME TypeOK
  PROVE  /\ CgroupQuota.value \in Nat /\ CgroupMemory.value \in Nat /\ CgroupShares.value \in Nat
         /\ CgroupQuota.value > 0 => CgroupQuota.source \in Quotas
         /\ CgroupMemory.value > 0 => CgroupMemory.source \in Limits
         /\ CgroupShares.value > 0 => CgroupShares.source \in Estimates
<1>1. ASSUME NEW one, NEW other
      PROVE  /\ Number(ReadFirst(one, other)).value \in Nat
             /\ Number(ReadFirst(one, other)).value > 0
                  => Number(ReadFirst(one, other)).source \in {one, other}
  <2>. DEFINE file == ReadFirst(one, other)
              none == file = "" \/ ~Readable(file) \/ given.cgroup[file] = 0
  <2>1. Number(file) = IF none THEN [value |-> 0, source |-> NoSource]
                       ELSE [value |-> given.cgroup[file], source |-> file]
    BY DEF Number
  <2>2. ~none => file # "" /\ Readable(file)
    BY Zenon
  <2>3. Readable(file) => given.cgroup[file] \in Nat
    BY Surroundings DEF Readable
  <2>4. file \in {one, other, ""}
    BY DEF ReadFirst
  <2>5. ~none => file \in {one, other}
    BY <2>2, <2>4
  <2>. HIDE DEF none, file
  <2>6. Number(file).value \in Nat /\ (Number(file).value > 0 => Number(file).source \in {one, other})
    <3>1. CASE none
      BY <2>1, <3>1
    <3>2. CASE ~none
      <4>1. Number(file) = [value |-> given.cgroup[file], source |-> file]
        BY <2>1, <3>2, Zenon
      <4>2. given.cgroup[file] \in Nat /\ file \in {one, other}
        BY <2>2, <2>3, <2>5, <3>2, Zenon
      <4>3. Number(file).value \in Nat /\ Number(file).source = file
        BY <4>1, <4>2
      <4>. QED  BY <4>2, <4>3
    <3>. QED  BY <3>1, <3>2
  <2>. QED  BY <2>6 DEF file
<1>2. ASSUME NEW s \in Int PROVE CoresOfShares(s) \in Int
  BY DEF CoresOfShares
<1>3. ASSUME NEW w \in Nat PROVE SharesOfWeight(w) \in Int
  BY DEF SharesOfWeight
<1>4. CgroupShares.value \in Nat /\ (CgroupShares.value > 0 => CgroupShares.source \in Estimates)
  <2>. DEFINE weighed == Readable("cpu.weight") /\ Readable("cpu.max")
              cores   == IF weighed
                         THEN CoresOfShares(SharesOfWeight(given.cgroup["cpu.weight"]))
                         ELSE IF Readable("cpu.shares")
                         THEN CoresOfShares(given.cgroup["cpu.shares"]) ELSE 0
              file    == IF weighed THEN "cpu.weight" ELSE "cpu.shares"
  <2>1. cores \in Int
    <3>1. Readable("cpu.weight") => given.cgroup["cpu.weight"] \in Nat
      BY Surroundings DEF Readable
    <3>2. Readable("cpu.shares") => given.cgroup["cpu.shares"] \in Int
      BY Surroundings DEF Readable
    <3>. QED  BY <1>2, <1>3, <3>1, <3>2
  <2>2. CgroupShares = IF cores < 10 THEN [value |-> 0, source |-> NoSource]
                       ELSE [value |-> cores, source |-> file]
    BY DEF CgroupShares
  <2>3. file \in Estimates
    BY DEF Estimates
  <2>. HIDE DEF cores, file
  <2>4. CASE cores < 10
    BY <2>2, <2>4
  <2>5. CASE ~(cores < 10)
    BY <2>1, <2>2, <2>3, <2>5
  <2>. QED  BY <2>4, <2>5
<1>. QED  BY <1>1, <1>4 DEF CgroupQuota, CgroupMemory, Quotas, Limits

\* Nothing changes what there is to discover.
LEMMA SameSurroundings ==
  ASSUME given' = given
  PROVE  /\ \A k \in Keys : Override(k)' = Override(k) /\ Suffixed(k)' = Suffixed(k)
         /\ CgroupQuota' = CgroupQuota /\ CgroupMemory' = CgroupMemory
         /\ CgroupShares' = CgroupShares
  BY DEF Override, Written, Suffixed, CgroupQuota, CgroupMemory, CgroupShares,
         Number, ReadFirst, Readable

\* What was parsed remains parsed.
LEMMA SameParsing ==
  ASSUME given' = given, written' = written, Parses
  PROVE  Parses'
<1>1. \A k \in Keys : Written(k)' = Written(k)
  BY DEF Written
<1>2. \A k \in Keys : ParseQuantity(KindOf(k), Written(k)') # {}
  BY <1>1 DEF Parses
<1>3. ParsePercentBase(written'.percent_base) \in {{b} : b \in Bases}
  BY DEF Parses
<1>. QED  BY <1>2, <1>3 DEF Parses

\* What each of the sources says.
LEMMA WhatSourcesSay ==
  ASSUME NEW k
  PROVE  /\ Override(k) \in Says("config", k)
         /\ given.plain[k] \in Says("env:plain", k)
         /\ Suffixed(k) \in Says("env:suffixed", k)
         /\ \A s \in Estimates : CgroupShares.value \in Says(s, k)
         /\ \A s \in Quotas : CgroupQuota.value \in Says(s, k)
         /\ \A s \in Limits : CgroupMemory.value \in Says(s, k)
         /\ 0 \in Says(NoSource, k)
<1>1. \A s \in Estimates : s \notin {"config", "env:plain", "env:suffixed"}
  BY DEF Estimates
<1>2. \A s \in Quotas : s \notin {"config", "env:plain", "env:suffixed"} \cup Estimates
  BY DEF Estimates, Quotas
<1>3. \A s \in Limits : s \notin {"config", "env:plain", "env:suffixed"} \cup Estimates \cup Quotas
  BY DEF Estimates, Quotas, Limits
<1>4. NoSource \notin {"config", "env:plain", "env:suffixed"} \cup Estimates \cup Quotas \cup Limits
  BY DEF Estimates, Quotas, Limits, NoSource
<1>. QED  BY <1>1, <1>2, <1>3, <1>4 DEF Says

\* A source goes on saying what it says.
LEMMA SameSays ==
  ASSUME given' = given, NEW k \in Keys
  PROVE  Says(sources[k], k)' = Says(sources'[k], k)
<1>1. /\ Override(k)' = Override(k) /\ Suffixed(k)' = Suffixed(k)
      /\ CgroupQuota' = CgroupQuota /\ CgroupMemory' = CgroupMemory
      /\ CgroupShares' = CgroupShares
  BY SameSurroundings
<1>. QED  BY <1>1 DEF Says

\* The sources differ, and only estimates are estimates.
LEMMA SourcesDiffer ==
  /\ \A s \in Quotas \cup Limits \cup {NoSource, "config", "env:plain", "env:suffixed"} :
       s \notin Estimates
  /\ \A s \in Quotas \cup Limits \cup Estimates \cup {"config", "env:plain", "env:suffixed"} :
       s # NoSource
  BY DEF Quotas, Limits, Estimates, NoSource

-----------------------------------------------------------------------------
(***************************************************************************)
(* The steps of Detect().                                                  *)
(***************************************************************************)
\* At first nothing is known, and has no source.
LEMMA InitInv == Init => IInv
<1>. SUFFICES ASSUME Init PROVE IInv
  OBVIOUS
<1>. USE DEF Init, DetectInit
<1>1. TypeOK
  BY DEF TypeOK, Sources, Places, Keys, Kinds
<1>2. SourceHonest
  BY WhatSourcesSay DEF SourceHonest
<1>3. Parsed /\ WithinLimit /\ Detection /\ Configuration /\ Computed
  BY DEF Parsed, WithinLimit, Detection, Configuration, Computed, Known
<1>4. WithinNode
  BY SourcesDiffer DEF WithinNode, Keys
<1>. QED  BY <1>1, <1>2, <1>3, <1>4 DEF IInv

\* The environment is asked first, and nothing was known.
LEMMA EnvironmentInv ==
  ASSUME IInv, Environment, UNCHANGED compileVars
  PROVE  IInv'
<1>. USE DEF IInv, compileVars
<1>1. /\ pc = "environment" /\ pc' = "cgroup"
      /\ given' = given /\ written' = written /\ peak' = peak
  BY DEF Environment
<1>2. \A k \in Keys : given.plain[k] \in Nat /\ Suffixed(k) \in Nat
  BY Surroundings, SuffixedNumber
<1>3. ASSUME NEW k \in Keys
      PROVE  \/ /\ given.plain[k] > 0
                /\ info'[k] = given.plain[k] /\ sources'[k] = "env:plain"
             \/ /\ given.plain[k] = 0 /\ Suffixed(k) > 0
                /\ info'[k] = Suffixed(k) /\ sources'[k] = "env:suffixed"
             \/ /\ given.plain[k] = 0 /\ info'[k] = 0 /\ sources'[k] = NoSource
  BY <1>2 DEF Environment
<1>4. TypeOK'
  <2>1. info' \in [Keys -> Nat] /\ sources' \in [Keys -> Sources]
    BY <1>2 DEF Environment, Sources
  <2>. QED  BY <1>1, <2>1 DEF TypeOK, Places
<1>5. SourceHonest'
  <2>1. ASSUME NEW k \in Keys
        PROVE  /\ info'[k] \in Says(sources[k], k)'
               /\ (info'[k] = 0) = (sources'[k] = NoSource)
    <3>1. info'[k] \in Says(sources'[k], k)
      BY <1>3, WhatSourcesSay
    <3>2. (info'[k] = 0) = (sources'[k] = NoSource)
      BY <1>2, <1>3, SourcesDiffer
    <3>. QED  BY <1>1, <3>1, <3>2, SameSays
  <2>. QED  BY <2>1 DEF SourceHonest
<1>6. WithinNode'
  BY <1>3, SourcesDiffer DEF WithinNode, Keys
<1>7. Detection'
  BY <1>1, <1>3 DEF Detection, EnvironmentKept
<1>8. Parsed'
  BY <1>1, SameParsing DEF Parsed
<1>9. WithinLimit' /\ Configuration' /\ Computed'
  BY <1>1 DEF WithinLimit, Configuration, Computed, Known
<1>. QED  BY <1>4, <1>5, <1>6, <1>7, <1>8, <1>9

\* The cgroup fills in what the environment left open.
LEMMA CgroupInv ==
  ASSUME IInv, Cgroup, UNCHANGED compileVars
  PROVE  IInv'
<1>. USE DEF IInv, compileVars
<1>. DEFINE limit == IF Fill("cpu_limit", CgroupQuota) THEN CgroupQuota.value
                     ELSE info["cpu_limit"]
            none  == [value |-> 0, source |-> NoSource]
            found == [k \in Keys |->
                        CASE k = "cpu_limit"    -> CgroupQuota
                          [] k = "memory_limit" -> CgroupMemory
                          [] k = "cpu_request" /\ EstimateFits(CgroupShares.value, limit)
                                                -> CgroupShares
                          [] OTHER              -> none]
<1>1. /\ pc = "cgroup" /\ pc' = "overrides"
      /\ given' = given /\ written' = written /\ peak' = peak
      /\ info' = [k \in Keys |-> IF Fill(k, found[k]) THEN found[k].value ELSE info[k]]
      /\ sources' = [k \in Keys |-> IF Fill(k, found[k]) THEN found[k].source ELSE sources[k]]
  BY DEF Cgroup
<1>2. info \in [Keys -> Nat] /\ sources \in [Keys -> Sources]
  BY DEF TypeOK
<1>3. ASSUME NEW k \in Keys
      PROVE  \/ k = "cpu_limit" /\ found[k] = CgroupQuota
             \/ k = "memory_limit" /\ found[k] = CgroupMemory
             \/ /\ k = "cpu_request" /\ found[k] = CgroupShares
                /\ EstimateFits(CgroupShares.value, limit)
             \/ k \notin {"cpu_limit", "memory_limit"} /\ found[k] = none
  BY DEF Keys
<1>. HIDE DEF found, limit
<1>4. ASSUME NEW k \in Keys
      PROVE  \/ /\ found[k].value \in Nat \ {0}
                /\ info[k] = 0 /\ info'[k] = found[k].value
                /\ sources'[k] = found[k].source
                /\ \/ k = "cpu_limit" /\ found[k] = CgroupQuota
                   \/ k = "memory_limit" /\ found[k] = CgroupMemory
                   \/ /\ k = "cpu_request" /\ found[k] = CgroupShares
                      /\ EstimateFits(CgroupShares.value, limit)
             \/ /\ info'[k] = info[k] /\ sources'[k] = sources[k]
                /\ info[k] = 0 => /\ k = "cpu_limit" => CgroupQuota.value = 0
                                  /\ k = "memory_limit" => CgroupMemory.value = 0
  <2>1. found[k].value \in Nat
    BY <1>3, CgroupNumbers
  <2>2. CASE Fill(k, found[k])
    <3>1. info'[k] = found[k].value /\ sources'[k] = found[k].source
      BY <1>1, <2>2
    <3>2. info[k] = 0 /\ found[k].value > 0
      BY <2>2 DEF Fill
    <3>3. found[k].value \in Nat \ {0}
      BY <2>1, <3>2
    <3>4. found[k] # none
      BY <3>3
    <3>. HIDE DEF none
    <3>5. \/ k = "cpu_limit" /\ found[k] = CgroupQuota
          \/ k = "memory_limit" /\ found[k] = CgroupMemory
          \/ /\ k = "cpu_request" /\ found[k] = CgroupShares
             /\ EstimateFits(CgroupShares.value, limit)
      BY <1>3, <3>4, Zenon
    <3>. QED  BY <3>1, <3>2, <3>3, <3>5, Zenon
  <2>3. CASE ~Fill(k, found[k])
    <3>1. info'[k] = info[k] /\ sources'[k] = sources[k]
      BY <1>1, <2>3
    <3>2. info[k] = 0 => found[k].value = 0
      BY <2>1, <2>3 DEF Fill
    <3>3. info[k] = 0 => /\ k = "cpu_limit" => CgroupQuota.value = 0
                         /\ k = "memory_limit" => CgroupMemory.value = 0
      BY <1>3, <3>2
    <3>. QED  BY <3>1, <3>3, Zenon
  <2>. QED  BY <2>2, <2>3, Zenon
<1>5. ASSUME NEW k \in Keys
      PROVE  /\ info'[k] \in Nat /\ sources'[k] \in Sources
             /\ info'[k] \in Says(sources'[k], k)
             /\ (info'[k] = 0) = (sources'[k] = NoSource)
  <2>1. CASE info'[k] = info[k] /\ sources'[k] = sources[k]
    BY <1>2, <2>1 DEF SourceHonest
  <2>2. CASE /\ info'[k] = found[k].value /\ sources'[k] = found[k].source
             /\ found[k].value \in Nat \ {0}
             /\ found[k] \in {CgroupQuota, CgroupMemory, CgroupShares}
    <3>1. \/ found[k].source \in Quotas /\ found[k].value = CgroupQuota.value
          \/ found[k].source \in Limits /\ found[k].value = CgroupMemory.value
          \/ found[k].source \in Estimates /\ found[k].value = CgroupShares.value
      BY <2>2, CgroupNumbers
    <3>2. found[k].value \in Says(found[k].source, k)
      BY <3>1, WhatSourcesSay
    <3>3. found[k].source # NoSource
      BY <3>1, SourcesDiffer
    <3>4. info'[k] \in Says(sources'[k], k) /\ sources'[k] # NoSource
      BY <2>2, <3>2, <3>3
    <3>. QED  BY <2>2, <3>1, <3>4 DEF Sources
  <2>. QED  BY <1>4, <2>1, <2>2
<1>6. TypeOK'
  <2>1. info' \in [Keys -> Nat] /\ sources' \in [Keys -> Sources]
    BY <1>1, <1>5
  <2>. QED  BY <1>1, <2>1 DEF TypeOK, Places
<1>7. SourceHonest'
  BY <1>1, <1>5, SameSays DEF SourceHonest
<1>8. WithinNode'
  <2>1. "cpu_request" \in Keys
    BY DEF Keys
  <2>2. \/ info'["cpu_request"] = CgroupShares.value /\ CgroupShares.value <= given.node.cpu
        \/ info'["cpu_request"] = info["cpu_request"] /\ sources'["cpu_request"] = sources["cpu_request"]
    BY <1>4, <2>1 DEF EstimateFits
  <2>. QED  BY <1>1, <2>2 DEF WithinNode
<1>9. Detection'
  <2>1. ASSUME given.detect, NEW k \in Keys
        PROVE  EnvironmentKept(k)' /\ CgroupAsked(k)'
    <3>1. EnvironmentKept(k)
      BY <1>1, <2>1 DEF Detection
    <3>2. EnvironmentKept(k)'
      <4>1. given.plain[k] \in Nat
        BY Surroundings
      <4>. QED  BY <1>1, <1>4, <3>1, <4>1 DEF EnvironmentKept
    <3>3. CgroupAsked(k)'
      <4>1. info'[k] = 0 => /\ k = "cpu_limit" => CgroupQuota.value = 0
                            /\ k = "memory_limit" => CgroupMemory.value = 0
        BY <1>4
      <4>2. CgroupQuota' = CgroupQuota /\ CgroupMemory' = CgroupMemory
        BY <1>1, SameSurroundings
      <4>. QED  BY <4>1, <4>2 DEF CgroupAsked
    <3>. QED  BY <3>2, <3>3
  <2>. QED  BY <1>1, <2>1 DEF Detection
<1>10. Parsed'
  BY <1>1, SameParsing DEF Parsed
<1>11. WithinLimit' /\ Configuration' /\ Computed'
  BY <1>1 DEF WithinLimit, Configuration, Computed, Known
<1>. QED  BY <1>6, <1>7, <1>8, <1>9, <1>10, <1>11

\* The configuration replaces what was found.
LEMMA OverridesInv ==
  ASSUME IInv, Overrides, UNCHANGED compileVars
  PROVE  IInv'
<1>. USE DEF IInv, compileVars
<1>1. /\ pc = "overrides" /\ pc' = "recheck"
      /\ given' = given /\ written' = written /\ peak' = peak
      /\ info' = [k \in Keys |-> IF Override(k) > 0 THEN Override(k) ELSE info[k]]
      /\ sources' = [k \in Keys |-> IF Override(k) > 0 THEN "config" ELSE sources[k]]
  BY DEF Overrides
<1>2. info \in [Keys -> Nat] /\ sources \in [Keys -> Sources]
  BY DEF TypeOK
<1>3. \A k \in Keys : Override(k) \in Int
  BY <1>1, OverrideNumber DEF Parsed
<1>4. ASSUME NEW k \in Keys
      PROVE  \/ /\ Override(k) \in Nat \ {0}
                /\ info'[k] = Override(k) /\ sources'[k] = "config"
             \/ /\ Override(k) <= 0
                /\ info'[k] = info[k] /\ sources'[k] = sources[k]
  BY <1>1, <1>3
<1>5. ASSUME NEW k \in Keys
      PROVE  /\ info'[k] \in Nat /\ sources'[k] \in Sources
             /\ info'[k] \in Says(sources'[k], k)
             /\ (info'[k] = 0) = (sources'[k] = NoSource)
  <2>1. CASE info'[k] = info[k] /\ sources'[k] = sources[k]
    BY <1>2, <2>1 DEF SourceHonest
  <2>2. CASE info'[k] = Override(k) /\ sources'[k] = "config" /\ Override(k) \in Nat \ {0}
    BY <2>2, WhatSourcesSay, SourcesDiffer DEF Sources
  <2>. QED  BY <1>4, <2>1, <2>2
<1>6. TypeOK'
  <2>1. info' \in [Keys -> Nat] /\ sources' \in [Keys -> Sources]
    BY <1>1, <1>5
  <2>. QED  BY <1>1, <2>1 DEF TypeOK, Places
<1>7. SourceHonest'
  BY <1>1, <1>5, SameSays DEF SourceHonest
<1>8. WithinNode'
  <2>1. "cpu_request" \in Keys
    BY DEF Keys
  <2>. QED  BY <1>1, <1>4, <2>1, SourcesDiffer DEF WithinNode
<1>9. Configuration'
  <2>1. ASSUME NEW k \in Keys
        PROVE  /\ Override(k)' > 0 => info'[k] = Override(k)' /\ sources'[k] = "config"
               /\ Override(k)' <= 0 /\ given'.detect => EnvironmentKept(k)' /\ CgroupAsked(k)'
    <3>1. Override(k)' = Override(k) /\ Override(k) \in Int
      BY <1>1, <1>3, SameSurroundings
    <3>2. Override(k) > 0 => info'[k] = Override(k) /\ sources'[k] = "config"
      BY <1>1
    <3>3. ASSUME Override(k) <= 0, given.detect
          PROVE  EnvironmentKept(k)' /\ CgroupAsked(k)'
      <4>1. info'[k] = info[k] /\ sources'[k] = sources[k]
        BY <1>4, <3>1, <3>3
      <4>2. EnvironmentKept(k) /\ CgroupAsked(k)
        BY <1>1, <3>3 DEF Detection
      <4>3. CgroupQuota' = CgroupQuota /\ CgroupMemory' = CgroupMemory
        BY <1>1, SameSurroundings
      <4>. QED  BY <1>1, <4>1, <4>2, <4>3 DEF EnvironmentKept, CgroupAsked
    <3>. QED  BY <1>1, <3>1, <3>2, <3>3
  <2>. QED  BY <2>1 DEF Configuration
<1>10. Parsed'
  BY <1>1, SameParsing DEF Parsed
<1>11. WithinLimit' /\ Detection' /\ Computed'
  BY <1>1 DEF WithinLimit, Detection, Computed, Known
<1>. QED  BY <1>6, <1>7, <1>8, <1>9, <1>10, <1>11

\* An estimate that contradicts the limit was not given by the environment, or
\* the configuration, and is dropped with its source.
LEMMA DropEstimateInv ==
  ASSUME IInv, DropEstimate, UNCHANGED compileVars
  PROVE  IInv'
<1>. USE DEF IInv, compileVars
<1>1. /\ pc = "recheck" /\ pc' = "known"
      /\ given' = given /\ written' = written /\ peak' = peak
      /\ info' = [info EXCEPT !["cpu_request"] = 0]
      /\ sources' = [sources EXCEPT !["cpu_request"] = NoSource]
      /\ sources["cpu_request"] \in Estimates
  BY DEF DropEstimate, Forgotten, Contradicts
<1>2. info \in [Keys -> Nat] /\ sources \in [Keys -> Sources] /\ "cpu_request" \in Keys
  BY DEF TypeOK, Keys
<1>3. ASSUME NEW k \in Keys
      PROVE  IF k = "cpu_request" THEN info'[k] = 0 /\ sources'[k] = NoSource
             ELSE info'[k] = info[k] /\ sources'[k] = sources[k]
  BY <1>1, <1>2
<1>4. TypeOK'
  <2>1. info' \in [Keys -> Nat] /\ sources' \in [Keys -> Sources]
    BY <1>1, <1>2 DEF Sources
  <2>. QED  BY <1>1, <2>1 DEF TypeOK, Places, Known
<1>5. SourceHonest'
  <2>1. ASSUME NEW k \in Keys
        PROVE  /\ info'[k] \in Says(sources'[k], k)
               /\ (info'[k] = 0) = (sources'[k] = NoSource)
    <3>1. CASE k = "cpu_request"
      BY <1>3, <3>1, WhatSourcesSay
    <3>2. CASE k # "cpu_request"
      BY <1>3, <3>2 DEF SourceHonest
    <3>. QED  BY <3>1, <3>2
  <2>. QED  BY <1>1, <2>1, SameSays DEF SourceHonest
<1>6. WithinNode' /\ WithinLimit'
  BY <1>2, <1>3, SourcesDiffer DEF WithinNode, WithinLimit
<1>7. Configuration'
  <2>1. ASSUME NEW k \in Keys
        PROVE  /\ Override(k)' > 0 => info'[k] = Override(k)' /\ sources'[k] = "config"
               /\ Override(k)' <= 0 /\ given'.detect => EnvironmentKept(k)' /\ CgroupAsked(k)'
    <3>1. Override(k)' = Override(k) /\ CgroupQuota' = CgroupQuota /\ CgroupMemory' = CgroupMemory
      BY <1>1, SameSurroundings
    <3>2. /\ Override(k) > 0 => info[k] = Override(k) /\ sources[k] = "config"
          /\ Override(k) <= 0 /\ given.detect => EnvironmentKept(k) /\ CgroupAsked(k)
      BY <1>1 DEF Configuration
    <3>3. CASE k = "cpu_request"
      <4>1. sources[k] \notin {"config", "env:plain"}
        BY <1>1, <3>3, SourcesDiffer
      <4>2. ~(Override(k) > 0)
        BY <3>2, <4>1
      <4>3. Override(k) <= 0 /\ given.detect => ~(given.plain[k] > 0)
        BY <3>2, <4>1 DEF EnvironmentKept
      <4>. QED  BY <1>1, <3>1, <3>3, <4>2, <4>3 DEF EnvironmentKept, CgroupAsked
    <3>4. CASE k # "cpu_request"
      <4>1. info'[k] = info[k] /\ sources'[k] = sources[k]
        BY <1>3, <3>4
      <4>. QED  BY <1>1, <3>1, <3>2, <4>1 DEF EnvironmentKept, CgroupAsked
    <3>. QED  BY <3>3, <3>4
  <2>. QED  BY <2>1 DEF Configuration
<1>8. Parsed'
  BY <1>1, SameParsing DEF Parsed
<1>9. Detection' /\ Computed'
  BY <1>1 DEF Detection, Computed
<1>. QED  BY <1>4, <1>5, <1>6, <1>7, <1>8, <1>9

-----------------------------------------------------------------------------
(***************************************************************************)
(* The steps of Compile().                                                 *)
(***************************************************************************)

\* What remains true when no number changes.
LEMMA SameInfo ==
  ASSUME IInv, UNCHANGED <<given, info, sources, written>>
  PROVE  /\ Parses => Parses'
         /\ SourceHonest' /\ WithinNode'
         /\ \A k \in Keys : /\ Override(k)' = Override(k)
                            /\ EnvironmentKept(k)' = EnvironmentKept(k)
                            /\ CgroupAsked(k)' = CgroupAsked(k)
<1>1. given' = given /\ info' = info /\ sources' = sources /\ written' = written
  OBVIOUS
<1>2. SourceHonest'
  BY <1>1, SameSays DEF IInv, SourceHonest
<1>3. WithinNode'
  BY <1>1 DEF IInv, WithinNode
<1>4. ASSUME NEW k \in Keys
      PROVE  /\ Override(k)' = Override(k)
             /\ EnvironmentKept(k)' = EnvironmentKept(k)
             /\ CgroupAsked(k)' = CgroupAsked(k)
  <2>1. /\ Override(k)' = Override(k)
        /\ CgroupQuota' = CgroupQuota /\ CgroupMemory' = CgroupMemory
    BY <1>1, SameSurroundings
  <2>. QED  BY <1>1, <2>1 DEF EnvironmentKept, CgroupAsked
<1>. QED  BY <1>1, <1>2, <1>3, <1>4, SameParsing

\* Parsing begins the detection, or goes on to the configuration without it.
LEMMA ParseInv ==
  ASSUME IInv, Parse PROVE IInv'
<1>. USE DEF IInv, compileVars
<1>1. /\ pc = "parse" /\ Parses
      /\ pc' \in {"environment", "overrides"} /\ (given.detect => pc' = "environment")
      /\ given' = given /\ written' = written /\ peak' = peak
      /\ info' = info /\ sources' = sources
  BY DEF Parse
<1>2. Parsed' /\ SourceHonest' /\ WithinNode'
  BY <1>1, SameInfo DEF Parsed
<1>3. TypeOK'
  BY <1>1 DEF TypeOK, Places
<1>4. Detection' /\ Configuration' /\ Computed' /\ WithinLimit'
  BY <1>1 DEF Detection, Configuration, Computed, WithinLimit, Known
<1>. QED  BY <1>2, <1>3, <1>4

\* A configuration can only be rejected as it is.
LEMMA RejectInv ==
  ASSUME IInv, Reject PROVE IInv'
<1>. USE DEF IInv, compileVars
<1>1. /\ pc' = "rejected"
      /\ given' = given /\ written' = written /\ peak' = peak
      /\ info' = info /\ sources' = sources
  BY DEF Reject
<1>2. Parsed' /\ SourceHonest' /\ WithinNode'
  BY <1>1, SameInfo DEF Parsed
<1>3. TypeOK'
  BY <1>1 DEF TypeOK, Places
<1>4. Detection' /\ Configuration' /\ Computed' /\ WithinLimit'
  BY <1>1 DEF Detection, Configuration, Computed, WithinLimit, Known
<1>. QED  BY <1>2, <1>3, <1>4

\* The request is kept where nothing contradicts it.
LEMMA KeepRequestInv ==
  ASSUME IInv, KeepRequest, UNCHANGED compileVars
  PROVE  IInv'
<1>. USE DEF IInv, compileVars
<1>1. /\ pc = "recheck" /\ pc' = "known" /\ ~Contradicts
      /\ given' = given /\ written' = written /\ peak' = peak
      /\ info' = info /\ sources' = sources
  BY DEF KeepRequest
<1>2. Parsed' /\ SourceHonest' /\ WithinNode'
  BY <1>1, SameInfo DEF Parsed
<1>3. TypeOK'
  BY <1>1 DEF TypeOK, Places, Known
<1>4. WithinLimit'
  <2>1. info["cpu_request"] \in Nat /\ info["cpu_limit"] \in Nat
    BY DEF TypeOK, Keys
  <2>. QED  BY <1>1, <2>1 DEF WithinLimit, Contradicts
<1>5. Configuration'
  BY <1>1, SameInfo DEF Configuration
<1>6. Detection' /\ Computed'
  BY <1>1 DEF Detection, Computed
<1>. QED  BY <1>2, <1>3, <1>4, <1>5, <1>6

\* The bases of a percentage are numbers, and a word stands for one of them.
LEMMA BaseNumbers ==
  ASSUME TypeOK, Parses, NEW kind \in Kinds
  PROVE  /\ \A b \in Bases : BasesOf(kind)[b] \in Nat
         /\ BasesOf(kind).default \in Bases
<1>. DEFINE bases == BasesOf(kind)
<1>1. \A b \in Bases : bases[b] \in Nat
  <2>1. info \in [Keys -> Nat] /\ given.node[kind] \in Nat
    BY Surroundings DEF TypeOK
  <2>2. bases.limit \in Nat /\ bases.request \in Nat /\ bases.node \in Nat
    BY <2>1 DEF Keys, BasesOf
  <2>3. bases["limit"] = bases.limit /\ bases["request"] = bases.request /\ bases["node"] = bases.node
    OBVIOUS
  <2>. HIDE DEF bases
  <2>. QED  BY <2>2, <2>3 DEF Bases
<1>2. bases.default \in Bases
  <2>1. \E b \in Bases : b \in ParsePercentBase(written.percent_base)
    BY DEF Parses
  <2>. QED  BY <2>1 DEF BasesOf
<1>. QED  BY <1>1, <1>2

\* What a percentage is resolved to: a part of its own base if that is known, of
\* another one if not, and nothing only if no base is known at all.
LEMMA ResolvedPart ==
  ASSUME TypeOK, Parses, NEW kind \in Kinds,
         NEW text, ParseQuantity(kind, text) # {}, Quantity(kind, text).base # "absolute"
  PROVE  LET q == Quantity(kind, text)
             part(b) == Resolved(kind, text) = (q.amount * BasesOf(kind)[b]) \div 1000
         IN /\ BaseMeant(kind, q) \in Bases
            /\ ~Resolvable(kind, q) => Resolved(kind, text) = 0
            /\ Resolvable(kind, q) => \E b \in Bases : BasesOf(kind)[b] > 0 /\ part(b)
            /\ BasesOf(kind)[BaseMeant(kind, q)] > 0 => part(BaseMeant(kind, q))
<1>. DEFINE q == Quantity(kind, text)
            bases == BasesOf(kind)
            base == IF q.base = "default" THEN bases.default ELSE q.base
            order == Fallback(base)
            known == {i \in DOMAIN order : bases[order[i]] > 0}
            first == order[Min(known)]
            part(b) == Resolved(kind, text) = (q.amount * bases[b]) \div 1000
<1>1. base \in Bases /\ base = BaseMeant(kind, q)
  BY QuantityNumber, BaseNumbers DEF BaseMeant
<1>2. Resolvable(kind, q) <=> \E b \in Bases : bases[b] > 0
  BY DEF Resolvable
<1>3. Resolved(kind, text) = IF known = {} THEN 0 ELSE (q.amount * bases[first]) \div 1000
  <2>1. Resolved(kind, text) = Resolve(q, bases)
    BY DEF Resolved
  <2>2. q.base # "absolute"
    OBVIOUS
  <2>. HIDE DEF q, bases
  <2>. QED  BY <2>1, <2>2 DEF Resolve
<1>. HIDE DEF q, bases, base
<1>4. /\ DOMAIN order = 1 .. 3 /\ order[1] = base
      /\ \A i \in 1 .. 3 : order[i] \in Bases
      /\ \A b \in Bases : \E i \in 1 .. 3 : order[i] = b
  <2>1. CASE base = "limit"
    BY <2>1 DEF Fallback, Bases
  <2>2. CASE base = "request"
    BY <2>2 DEF Fallback, Bases
  <2>3. CASE base = "node"
    BY <2>3 DEF Fallback, Bases
  <2>. QED  BY <1>1, <2>1, <2>2, <2>3 DEF Bases
<1>. HIDE DEF order
<1>5. known # {} <=> \E b \in Bases : bases[b] > 0
  BY <1>4
<1>6. known \in SUBSET Nat /\ \A i \in known : 1 <= i /\ order[i] \in Bases /\ bases[order[i]] > 0
  BY <1>4
<1>7. ASSUME known # {} PROVE Min(known) \in known /\ \A i \in known : Min(known) <= i
  <2>. HIDE DEF known
  <2>1. \E m \in known : \A n \in known : m <= n
    BY <1>6, <1>7, LeastNatural
  <2>. QED  BY <2>1 DEF Min
<1>8. bases[base] > 0 => 1 \in known
  BY <1>4
<1>. HIDE DEF known
<1>9. ASSUME known # {} PROVE \E b \in Bases : bases[b] > 0 /\ part(b)
  <2>1. first \in Bases /\ bases[first] > 0
    BY <1>6, <1>7, <1>9
  <2>. HIDE DEF first
  <2>2. part(first)
    BY <1>3, <1>9
  <2>. HIDE DEF part
  <2>. QED  BY <2>1, <2>2
<1>10. ASSUME bases[base] > 0 PROVE part(base)
  <2>. DEFINE m == Min(known)
  <2>1. m = 1
    <3>1. 1 \in known /\ m \in known /\ m <= 1
      BY <1>7, <1>8, <1>10
    <3>2. m \in Nat /\ 1 <= m
      BY <1>6, <3>1
    <3>. HIDE DEF m
    <3>. QED  BY <3>1, <3>2
  <2>2. first = base
    BY <1>4, <2>1
  <2>. HIDE DEF first
  <2>. QED  BY <1>3, <1>8, <1>10, <2>2
<1>. QED  BY <1>1, <1>2, <1>3, <1>5, <1>9, <1>10 DEF q, bases

\* What a quantity is resolved to is a number.
LEMMA ResolvedNumber ==
  ASSUME TypeOK, Parses,
         NEW kind \in Kinds, NEW text, ParseQuantity(kind, text) # {}
  PROVE  Resolved(kind, text) \in Int
<1>. DEFINE q == Quantity(kind, text)
<1>1. q.amount \in Int
  BY QuantityNumber
<1>2. CASE q.base = "absolute"
  BY <1>1, <1>2 DEF Resolved, Resolve
<1>3. CASE q.base # "absolute"
  <2>1. \/ Resolved(kind, text) = 0
        \/ \E b \in Bases : Resolved(kind, text) = (q.amount * BasesOf(kind)[b]) \div 1000
    BY <1>3, ResolvedPart
  <2>2. ASSUME NEW b \in Bases PROVE (q.amount * BasesOf(kind)[b]) \div 1000 \in Int
    <3>. DEFINE known == BasesOf(kind)[b]
                product == q.amount * known
    <3>1. known \in Nat
      BY BaseNumbers
    <3>. HIDE DEF q, known
    <3>2. product \in Int
      BY <1>1, <3>1
    <3>. HIDE DEF product
    <3>3. product \div 1000 \in Int
      BY <3>2
    <3>. QED  BY <3>3 DEF product, known
  <2>. QED  BY <2>1, <2>2
<1>. QED  BY <1>2, <1>3

\* The peak is the greatest of what the segments come to, and never below 0.
LEMMA PeakGreatest ==
  ASSUME TypeOK, Parses, NEW kind \in Kinds,
         NEW p, p = Max({0} \cup {Resolved(kind, text) : text \in written[kind]})
  PROVE  /\ p \in Nat
         /\ p = 0 \/ \E text \in written[kind] : p = Resolved(kind, text)
         /\ \A text \in written[kind] : Resolved(kind, text) <= p
<1>. DEFINE T == {0} \cup {Resolved(kind, text) : text \in written[kind]}
            f == [text \in written[kind] |-> Resolved(kind, text)]
<1>1. f \in [written[kind] -> Int] /\ IsFiniteSet(written[kind])
  <2>1. \A text \in written[kind] : ParseQuantity(kind, text) # {}
    BY Surroundings
  <2>2. \A text \in written[kind] : Resolved(kind, text) \in Int
    BY <2>1, ResolvedNumber
  <2>3. IsFiniteSet(written[kind])
    BY Surroundings
  <2>. QED  BY <2>2, <2>3
<1>2. PICK m \in Nat : /\ m = 0 \/ \E text \in written[kind] : m = f[text]
                       /\ \A text \in written[kind] : f[text] <= m
  <2>. HIDE DEF f
  <2>. QED  BY <1>1, GreatestValue
<1>3. \A text \in written[kind] : f[text] = Resolved(kind, text)
  OBVIOUS
<1>. HIDE DEF f
<1>4. m \in T /\ \A n \in T : m >= n
  BY <1>2, <1>3
<1>5. T \subseteq Int
  BY <1>1, <1>3
<1>6. p \in T /\ \A n \in T : p >= n
  <2>. HIDE DEF T
  <2>1. p = Max(T)
    BY DEF T
  <2>. QED  BY <1>4, <2>1 DEF Max
<1>7. p = m
  BY <1>4, <1>5, <1>6
<1>. QED  BY <1>2, <1>3, <1>7

\* Numbers that stay give the same results.
LEMMA SameResolved ==
  ASSUME UNCHANGED <<given, info, written>>
  PROVE  \A kind, text : Resolved(kind, text)' = Resolved(kind, text)
  BY DEF Resolved, BasesOf

\* So do the peaks,
LEMMA SamePeaks ==
  ASSUME UNCHANGED <<given, info, written>>
  PROVE  Peaks' = Peaks
<1>1. \A kind, text : Resolved(kind, text)' = Resolved(kind, text)
  BY SameResolved
<1>2. written' = written
  OBVIOUS
<1>. QED  BY <1>1, <1>2 DEF Peaks

\* and the options and the warnings.
LEMMA SameOptions ==
  ASSUME UNCHANGED <<given, info, written, peak>>
  PROVE  /\ OptionsValid => OptionsValid'
         /\ Options' = Options /\ Warnings' = Warnings
<1>1. OptionsValid => OptionsValid'
  BY DEF OptionsValid, KnownWord, ChunkValid
<1>2. Options' = Options
  BY DEF Options, Workers, Procs, Word, WholeBytes, Resolved, BasesOf, SoftLimit
<1>3. Warnings' = Warnings
  BY DEF Warnings, Throttled, Killed, BasesOf
<1>. QED  BY <1>1, <1>2, <1>3

\* The peaks are computed from the numbers that were found.
LEMMA FindPeaksInv ==
  ASSUME IInv, FindPeaks PROVE IInv'
<1>. USE DEF IInv
<1>1. /\ pc = "known" /\ pc' = "engines"
      /\ given' = given /\ written' = written
      /\ info' = info /\ sources' = sources
      /\ peak' = Peaks
  BY DEF FindPeaks, Peaks
<1>2. Parsed' /\ SourceHonest' /\ WithinNode'
  BY <1>1, SameInfo DEF Parsed
<1>3. TypeOK'
  <2>1. Parses
    BY <1>1 DEF Parsed
  <2>2. \A k \in Kinds : Peaks[k] \in Nat
    BY <2>1, PeakGreatest DEF Peaks
  <2>3. Peaks = [k \in Kinds |-> Peaks[k]]
    BY DEF Peaks
  <2>4. peak' \in [Kinds -> Nat]
    BY <1>1, <2>2, <2>3
  <2>. QED  BY <1>1, <2>4 DEF TypeOK, Places, Known
<1>4. WithinLimit'
  BY <1>1 DEF WithinLimit, Known
<1>5. Configuration'
  BY <1>1, SameInfo DEF Configuration, Known
<1>6. Computed'
  <2>1. Peaks' = Peaks
    BY <1>1, SamePeaks
  <2>. QED  BY <1>1, <2>1 DEF Computed
<1>7. Detection'
  BY <1>1 DEF Detection
<1>. QED  BY <1>2, <1>3, <1>4, <1>5, <1>6, <1>7

\* The options and the warnings are computed from the peaks.
LEMMA CompileEnginesInv ==
  ASSUME IInv, CompileEngines PROVE IInv'
<1>. USE DEF IInv
<1>1. /\ pc = "engines" /\ pc' = "compiled"
      /\ given' = given /\ written' = written /\ peak' = peak
      /\ info' = info /\ sources' = sources
      /\ OptionsValid /\ options' = Options /\ warnings' = Warnings
  BY DEF CompileEngines
<1>2. Parsed' /\ SourceHonest' /\ WithinNode'
  BY <1>1, SameInfo DEF Parsed
<1>3. TypeOK'
  BY <1>1 DEF TypeOK, Places, Known
<1>4. WithinLimit'
  BY <1>1 DEF WithinLimit, Known
<1>5. Configuration'
  BY <1>1, SameInfo DEF Configuration, Known
<1>6. Computed'
  <2>1. Peaks' = Peaks /\ peak = Peaks
    BY <1>1, SamePeaks DEF Computed
  <2>2. /\ OptionsValid => OptionsValid'
        /\ Options' = Options /\ Warnings' = Warnings
    BY <1>1, SameOptions
  <2>. QED  BY <1>1, <2>1, <2>2 DEF Computed
<1>7. Detection'
  BY <1>1 DEF Detection
<1>. QED  BY <1>2, <1>3, <1>4, <1>5, <1>6, <1>7

\* Nothing changes once the configuration is compiled.
LEMMA StutterInv ==
  ASSUME IInv, UNCHANGED vars PROVE IInv'
<1>. USE DEF IInv
<1>1. /\ pc' = pc
      /\ given' = given /\ written' = written /\ peak' = peak
      /\ info' = info /\ sources' = sources
      /\ options' = options /\ warnings' = warnings
  BY DEF vars
<1>2. Parsed' /\ SourceHonest' /\ WithinNode'
  BY <1>1, SameInfo DEF Parsed
<1>3. TypeOK' /\ WithinLimit'
  BY <1>1 DEF TypeOK, WithinLimit
<1>4. Configuration' /\ Detection'
  BY <1>1, SameInfo DEF Configuration, Detection
<1>5. Computed'
  <2>1. Peaks' = Peaks
    BY <1>1, SamePeaks
  <2>2. /\ OptionsValid => OptionsValid'
        /\ Options' = Options /\ Warnings' = Warnings
    BY <1>1, SameOptions
  <2>. QED  BY <1>1, <2>1, <2>2 DEF Computed
<1>. QED  BY <1>2, <1>3, <1>4, <1>5

-----------------------------------------------------------------------------
(***************************************************************************)
(* The theorems.                                                           *)
(***************************************************************************)

\* The inductive invariant of Compile(): what is known comes from the source it
\* names, in the order of discovery, estimates are within what they were
\* compared with, and peaks and options are those of the final numbers.
THEOREM Invariant == Spec => []IInv
<1>1. ASSUME IInv, [Next]_vars PROVE IInv'
  <2>1. CASE Parse
    BY <1>1, <2>1, ParseInv
  <2>2. CASE DetectNext /\ UNCHANGED compileVars
    BY <1>1, <2>2, EnvironmentInv, CgroupInv, OverridesInv, DropEstimateInv, KeepRequestInv
       DEF DetectNext
  <2>3. CASE FindPeaks
    BY <1>1, <2>3, FindPeaksInv
  <2>4. CASE CompileEngines
    BY <1>1, <2>4, CompileEnginesInv
  <2>5. CASE Reject
    BY <1>1, <2>5, RejectInv
  <2>6. CASE UNCHANGED vars
    BY <1>1, <2>6, StutterInv
  <2>. QED  BY <1>1, <2>1, <2>2, <2>3, <2>4, <2>5, <2>6 DEF Next
<1>. QED  BY <1>1, InitInv, PTL DEF Spec

\* Every number that is known is what its source says, and every source has a
\* number (Info.Sources, resources.go:30-32).
THEOREM SourceCorrect == Spec => []SourceHonest
<1>1. IInv => SourceHonest
  BY DEF IInv
<1>. QED  BY <1>1, Invariant, PTL

\* An estimated request is within the limit, wherever that came from and however
\* late, and within the machine (resources.go:86-93, 110-117).
THEOREM EstimateCorrect == Spec => []EstimateConsistent
<1>1. IInv => EstimateConsistent
  BY DEF IInv, EstimateConsistent, WithinNode, WithinLimit, Settled, Known
<1>. QED  BY <1>1, Invariant, PTL

\* What was configured is not changed by what was detected, nor the environment
\* by the cgroup, and no limit that anything gives is missed (Detect()).
THEOREM OrderCorrect == Spec => []InOrder
<1>1. ASSUME IInv, Settled PROVE InOrder
  <2>1. ASSUME NEW k \in Keys
        PROVE  /\ Override(k) > 0 => info[k] = Override(k)
               /\ Override(k) <= 0 /\ given.detect => EnvironmentKept(k) /\ CgroupAsked(k)
    BY <1>1 DEF IInv, Configuration, Settled, Known
  <2>2. ASSUME NEW k \in Keys, Override(k) = 0, given.detect
        PROVE  /\ given.plain[k] > 0 => info[k] = given.plain[k]
               /\ info[k] = 0 => /\ given.plain[k] = 0
                                 /\ k = "cpu_limit" => CgroupQuota.value = 0
                                 /\ k = "memory_limit" => CgroupMemory.value = 0
    <3>1. given.plain[k] \in Nat
      BY <1>1, Surroundings DEF IInv
    <3>. QED  BY <2>1, <2>2, <3>1 DEF EnvironmentKept, CgroupAsked
  <2>. QED  BY <2>1, <2>2 DEF InOrder
<1>2. IInv => InOrder
  BY <1>1 DEF InOrder
<1>. QED  BY <1>2, Invariant, PTL

-----------------------------------------------------------------------------
(***************************************************************************)
(* The warnings.                                                           *)
(***************************************************************************)

\* A pool that is not configured reaches any peak the machine has CPUs for.
LEMMA PoolReaches ==
  ASSUME NEW p \in Nat, NEW cpus \in Nat, cpus % 1000 = 0, p <= cpus
  PROVE  1000 * Control!SuggestWorkers(p, cpus \div 1000) >= p
<1>. DEFINE procs == cpus \div 1000
            wanted == (5 * p + 3999) \div 4000
<1>1. procs \in Nat /\ cpus = 1000 * procs
  OBVIOUS
<1>2. wanted \in Nat /\ 4000 * wanted >= 5 * p
  OBVIOUS
<1>3. Control!SuggestWorkers(p, procs) =
        Control!Clamp(wanted, 1, IF procs < 1 THEN 1 ELSE procs)
  BY DEF Control!SuggestWorkers
<1>. HIDE DEF procs, wanted
<1>4. 1000 * Control!SuggestWorkers(p, procs) >= p
  BY <1>1, <1>2, <1>3 DEF Control!Clamp
<1>. QED  BY <1>4 DEF procs

\* A target of up to 95% of a limit that is known stays within 95% of it.
LEMMA WithinLimitOf ==
  ASSUME TypeOK, Parses, NEW kind \in Kinds, NEW text \in written[kind],
         Quantity(kind, text).amount <= 950,
         BaseMeant(kind, Quantity(kind, text)) = "limit",
         BasesOf(kind).limit > 0
  PROVE  1000 * Resolved(kind, text) <= 950 * BasesOf(kind).limit
<1>. DEFINE q == Quantity(kind, text)
            limit == BasesOf(kind).limit
            product == q.amount * limit
<1>1. q.amount \in Int /\ q.amount <= 950 /\ ParseQuantity(kind, text) # {}
  BY Surroundings, QuantityNumber
<1>2. limit \in Nat /\ limit = BasesOf(kind)["limit"]
  <2>1. info \in [Keys -> Nat]
    BY DEF TypeOK
  <2>. QED  BY <2>1 DEF BasesOf, Keys
<1>3. BaseMeant(kind, q) = "limit" /\ q.base # "absolute"
  BY DEF BaseMeant
<1>4. Resolved(kind, text) = product \div 1000
  BY <1>1, <1>2, <1>3, ResolvedPart
<1>. HIDE DEF q, limit
<1>5. product \in Int /\ product <= 950 * limit
  BY <1>1, <1>2
<1>. HIDE DEF product
<1>6. 1000 * Resolved(kind, text) <= 950 * limit
  BY <1>2, <1>4, <1>5
<1>. QED  BY <1>6 DEF limit

\* When every target of a kind is within 95% of a known limit, so is the peak.
LEMMA PeakWithinLimit ==
  ASSUME TypeOK, Parses, NEW kind \in Kinds, peak[kind] = Peaks[kind],
         BasesOf(kind).limit > 0, BasesOf(kind).limit \in Nat,
         \A text \in written[kind] :
           /\ Quantity(kind, text).amount <= 950
           /\ BaseMeant(kind, Quantity(kind, text)) = "limit"
  PROVE  1000 * peak[kind] <= 950 * BasesOf(kind).limit
<1>1. \/ peak[kind] = 0
      \/ \E text \in written[kind] : peak[kind] = Resolved(kind, text)
  BY PeakGreatest DEF Peaks
<1>2. CASE peak[kind] = 0
  BY <1>2
<1>3. CASE \E text \in written[kind] : peak[kind] = Resolved(kind, text)
  BY <1>3, WithinLimitOf
<1>. QED  BY <1>1, <1>2, <1>3

\* A warning is missing only where there is nothing to warn of (Compile()): the
\* pool reaches the peak unless it was set by hand, the peak is within the limits,
\* and a profile of percentages of known limits, up to 95%, is never warned of.
THEOREM UnwarnedCorrect == Spec => []Unwarned
<1>1. ASSUME IInv, pc = "compiled" PROVE Unwarned
  <2>. DEFINE limit == [k \in Kinds |-> BasesOf(k).limit]
              fits(k) == limit[k] > 0 /\ \A text \in written[k] :
                           /\ Quantity(k, text).amount <= 950
                           /\ BaseMeant(k, Quantity(k, text)) = "limit"
  <2>1. TypeOK /\ Parses /\ peak = Peaks /\ options = Options /\ warnings = Warnings
    BY <1>1 DEF IInv, Parsed, Computed
  <2>2. peak["cpu"] \in Nat /\ peak["memory"] \in Nat /\ "cpu" \in Kinds /\ "memory" \in Kinds
    BY <2>1 DEF TypeOK, Kinds
  <2>3. /\ limit["cpu"] = BasesOf("cpu").limit /\ limit["memory"] = BasesOf("memory").limit
        /\ limit["cpu"] \in Nat /\ limit["memory"] \in Nat
    BY <2>1 DEF TypeOK, Keys, Kinds, BasesOf
  <2>4. /\ "unreachable" \in warnings <=> peak["cpu"] > given.node.cpu
        /\ "throttled" \in warnings <=> Throttled(limit["cpu"])
        /\ "killed" \in warnings <=> Killed(limit["memory"])
    BY <2>1, <2>3 DEF Warnings
  <2>5. ASSUME fits("cpu") PROVE 1000 * peak["cpu"] <= 950 * limit["cpu"]
    BY <2>1, <2>2, <2>3, <2>5, PeakWithinLimit
  <2>6. ASSUME fits("memory") PROVE 1000 * peak["memory"] <= 950 * limit["memory"]
    BY <2>1, <2>2, <2>3, <2>6, PeakWithinLimit
  <2>7. fits("cpu") => limit["cpu"] > 0
    OBVIOUS
  <2>8. ASSUME "unreachable" \notin warnings, written.workers <= 0, written.max_procs <= 0
        PROVE  1000 * options.workers >= peak["cpu"]
    <3>1. given.node.cpu \in Nat /\ given.node.cpu % 1000 = 0
      BY <2>1, Surroundings
    <3>2. written.workers \in Int /\ written.max_procs \in Int
      <4>1. PICK case \in Cases : written = case.written
        BY <2>1 DEF TypeOK
      <4>2. case.written["workers"] \in Int /\ case.written["max_procs"] \in Int
        BY CaseAssumption DEF CaseAssumption
      <4>. QED  BY <4>1, <4>2
    <3>3. options.workers = Control!SuggestWorkers(peak["cpu"], given.node.cpu \div 1000)
      <4>1. Options.workers = Workers
        BY DEF Options
      <4>2. options.workers = Workers
        BY <2>1, <4>1
      <4>. QED  BY <2>8, <3>2, <4>2 DEF Workers, Procs
    <3>4. peak["cpu"] <= given.node.cpu
      BY <2>2, <2>4, <2>8, <3>1
    <3>. QED  BY <2>2, <3>1, <3>3, <3>4, PoolReaches
  <2>. HIDE DEF limit, fits
  <2>9. ASSUME "throttled" \notin warnings, limit["cpu"] > 0
        PROVE  peak["cpu"] <= limit["cpu"] + limit["cpu"] \div 1000
    BY <2>2, <2>3, <2>4, <2>9 DEF Throttled
  <2>10. ASSUME "killed" \notin warnings, limit["memory"] > 0
         PROVE  peak["memory"] < limit["memory"]
    BY <2>2, <2>3, <2>4, <2>10 DEF Killed
  <2>11. fits("cpu") => "throttled" \notin warnings
    BY <2>2, <2>3, <2>4, <2>5 DEF Throttled
  <2>12. fits("memory") => "killed" \notin warnings
    BY <2>2, <2>3, <2>4, <2>6 DEF Killed
  <2>. QED  BY <2>8, <2>9, <2>10, <2>11, <2>12 DEF Unwarned, limit, fits
<1>2. IInv => Unwarned
  BY <1>1 DEF Unwarned
<1>. QED  BY <1>2, Invariant, PTL

\* A target above 0 remains one where anything is known that it comes to
\* something of, and at its size where its own base is.
LEMMA TargetKept ==
  ASSUME TypeOK, Parses, NEW kind \in Kinds, NEW text, ParseQuantity(kind, text) # {}
  PROVE  LET q == Quantity(kind, text)
             r == Resolved(kind, text)
         IN /\ q.amount <= 0 \/ ~Resolvable(kind, q) => r <= 0
            /\ q.base = "absolute" => r = q.amount
            /\ q.base # "absolute" /\ Resolvable(kind, q) =>
                 \A least \in Nat : ComesTo(kind, q, least) => r >= least
            /\ LET base == BasesOf(kind)[BaseMeant(kind, q)]
               IN q.base # "absolute" /\ base > 0 => 1000 * r >= q.amount * base - 999
<1>. DEFINE q == Quantity(kind, text)
            r == Resolved(kind, text)
            base == BasesOf(kind)[BaseMeant(kind, q)]
<1>1. q.amount \in Int
  BY QuantityNumber
<1>2. CASE q.base = "absolute"
  <2>1. r = q.amount
    BY <1>2 DEF Resolved, Resolve
  <2>2. Resolvable(kind, q)
    BY <1>2 DEF Resolvable
  <2>. HIDE DEF q, r
  <2>3. q.amount <= 0 \/ ~Resolvable(kind, q) => r <= 0
    BY <2>1, <2>2
  <2>. QED  BY <1>2, <2>1, <2>3 DEF q, r
<1>3. CASE q.base # "absolute"
  <2>1. ASSUME NEW b \in Bases, r = (q.amount * BasesOf(kind)[b]) \div 1000
        PROVE  /\ q.amount <= 0 => r <= 0
               /\ \A l \in Int : q.amount * BasesOf(kind)[b] >= 1000 * l => r >= l
               /\ 1000 * r >= q.amount * BasesOf(kind)[b] - 999
    <3>. DEFINE n == BasesOf(kind)[b]
                a == q.amount
                product == a * n
    <3>1. n \in Nat /\ a \in Int /\ r = product \div 1000
      BY <1>1, <2>1, BaseNumbers
    <3>. HIDE DEF n, a, r
    <3>2. product \in Int /\ (a <= 0 => product <= 0)
      BY <3>1
    <3>. HIDE DEF product
    <3>3. a <= 0 => r <= 0
      BY <3>1, <3>2
    <3>4. \A l \in Int : product >= 1000 * l => r >= l
      BY <3>1, <3>2
    <3>5. 1000 * r >= product - 999
      BY <3>1, <3>2
    <3>. QED  BY <3>3, <3>4, <3>5 DEF n, a, product
  <2>2. /\ BaseMeant(kind, q) \in Bases
        /\ ~Resolvable(kind, q) => r = 0
        /\ Resolvable(kind, q) =>
             \E b \in Bases : /\ BasesOf(kind)[b] > 0
                              /\ r = (q.amount * BasesOf(kind)[b]) \div 1000
        /\ base > 0 => r = (q.amount * base) \div 1000
    BY <1>3, ResolvedPart
  <2>. HIDE DEF q, r
  <2>3. q.amount <= 0 \/ ~Resolvable(kind, q) => r <= 0
    BY <2>1, <2>2
  <2>4. ASSUME Resolvable(kind, q), NEW least \in Nat, ComesTo(kind, q, least)
        PROVE  r >= least
    <3>1. PICK b \in Bases : /\ BasesOf(kind)[b] > 0
                             /\ r = (q.amount * BasesOf(kind)[b]) \div 1000
      BY <2>2, <2>4
    <3>2. q.amount * BasesOf(kind)[b] >= 1000 * least
      BY <1>3, <2>4, <3>1 DEF ComesTo
    <3>. QED  BY <2>1, <3>1, <3>2
  <2>5. base > 0 => 1000 * r >= q.amount * base - 999
    BY <2>1, <2>2
  <2>. QED  BY <1>3, <2>3, <2>4, <2>5 DEF q, r
<1>. QED  BY <1>2, <1>3

\* A profile still runs in whatever was discovered (Resolve(), units.go:64-90):
\* no target above 0 is lost while anything is known, none is smaller than asked
\* for if its base is known, and exactly a run without any load is warned of.
THEOREM StillRunsCorrect == Spec => []StillRuns
<1>1. ASSUME IInv, pc = "compiled" PROVE StillRuns
  <2>. DEFINE ends == UNION {{<<k, Quantity(k, text)>> : text \in written[k]} : k \in Kinds}
              asks(e) == e[2].amount > 0 /\ Resolvable(e[1], e[2])
  <2>1. TypeOK /\ Parses /\ peak = Peaks /\ warnings = Warnings
    BY <1>1 DEF IInv, Parsed, Computed
  <2>2. \A k \in Kinds :
          /\ peak[k] \in Nat
          /\ peak[k] = 0 \/ \E text \in written[k] : peak[k] = Resolved(k, text)
          /\ \A text \in written[k] : Resolved(k, text) <= peak[k] /\ Resolved(k, text) \in Int
    <3>1. ASSUME NEW k \in Kinds
          PROVE  /\ peak[k] \in Nat
                 /\ peak[k] = 0 \/ \E text \in written[k] : peak[k] = Resolved(k, text)
                 /\ \A text \in written[k] : Resolved(k, text) <= peak[k]
      <4>1. peak[k] = Max({0} \cup {Resolved(k, text) : text \in written[k]})
        BY <2>1 DEF Peaks
      <4>. QED  BY <2>1, <4>1, PeakGreatest
    <3>2. \A k \in Kinds : \A text \in written[k] : Resolved(k, text) \in Int
      BY <2>1, Surroundings, ResolvedNumber
    <3>. QED  BY <3>1, <3>2
  <2>3. ASSUME NEW e \in ends
        PROVE  \E kind \in Kinds : \E text \in written[kind] :
                 e[1] = kind /\ e[2] = Quantity(kind, text)
    OBVIOUS
  <2>4. ASSUME NEW kind \in Kinds, NEW text \in written[kind]
        PROVE  <<kind, Quantity(kind, text)>> \in ends
    OBVIOUS
  <2>. HIDE DEF ends
  <2>5. ASSUME NEW e \in ends, e[2].base # "absolute", e[2].amount > 0
        PROVE  LET base == BasesOf(e[1])[BaseMeant(e[1], e[2])]
               IN /\ Resolvable(e[1], e[2]) /\ ComesTo(e[1], e[2], 1) => peak[e[1]] > 0
                  /\ base > 0 => 1000 * peak[e[1]] >= e[2].amount * base - 999
    <3>1. PICK kind \in Kinds : \E text \in written[kind] :
            e[1] = kind /\ e[2] = Quantity(kind, text)
      BY <2>3
    <3>2. PICK text \in written[kind] : e[1] = kind /\ e[2] = Quantity(kind, text)
      BY <3>1
    <3>. DEFINE q == Quantity(kind, text)
                r == Resolved(kind, text)
                base == BasesOf(kind)[BaseMeant(kind, q)]
    <3>3. r <= peak[kind] /\ r \in Int /\ peak[kind] \in Nat
      BY <2>2
    <3>4. /\ Resolvable(kind, q) /\ ComesTo(kind, q, 1) => r >= 1
          /\ base > 0 => 1000 * r >= q.amount * base - 999
      BY <2>1, <2>5, <3>2, Surroundings, TargetKept
    <3>5. base \in Nat /\ q.amount \in Int
      <4>1. ParseQuantity(kind, text) # {} /\ q.base # "absolute"
        BY <2>1, <2>5, <3>2, Surroundings
      <4>2. BaseMeant(kind, q) \in Bases
        BY <2>1, <4>1, ResolvedPart
      <4>. QED  BY <2>1, <4>1, <4>2, QuantityNumber, BaseNumbers
    <3>. DEFINE product == q.amount * base
                top == peak[kind]
    <3>6. product \in Int
      <4>. HIDE DEF q, base
      <4>. QED  BY <3>5
    <3>. HIDE DEF r, product, top, base
    <3>7. top \in Nat /\ r <= top /\ r \in Int
      BY <3>3 DEF top
    <3>8. Resolvable(kind, q) /\ ComesTo(kind, q, 1) => top > 0
      BY <3>4, <3>7
    <3>9. base > 0 => 1000 * top >= product - 999
      BY <3>4, <3>6, <3>7 DEF product
    <3>. QED  BY <3>2, <3>8, <3>9 DEF top, product, base
  <2>6. "idle" \in warnings <=> \A k \in Kinds : peak[k] = 0
    BY <2>1 DEF Warnings
  <2>7. ASSUME \A e \in ends : ~asks(e) PROVE "idle" \in warnings
    <3>1. ASSUME NEW k \in Kinds, peak[k] # 0 PROVE FALSE
      <4>1. PICK text \in written[k] : peak[k] = Resolved(k, text)
        BY <2>2, <3>1
      <4>. DEFINE e == <<k, Quantity(k, text)>>
      <4>2. ~asks(e)
        BY <2>4, <2>7
      <4>3. Quantity(k, text).amount \in Int /\ ParseQuantity(k, text) # {}
        BY <2>1, Surroundings, QuantityNumber
      <4>4. Quantity(k, text).amount <= 0 \/ ~Resolvable(k, Quantity(k, text))
        BY <4>2, <4>3
      <4>5. Resolved(k, text) <= 0
        BY <2>1, <4>3, <4>4, TargetKept
      <4>. QED  BY <2>2, <3>1, <4>1, <4>5
    <3>. QED  BY <2>6, <3>1
  <2>8. ASSUME NEW e \in ends, asks(e), ComesTo(e[1], e[2], 1)
        PROVE  "idle" \notin warnings
    <3>1. PICK kind \in Kinds : \E text \in written[kind] :
            e[1] = kind /\ e[2] = Quantity(kind, text)
      BY <2>3
    <3>2. PICK text \in written[kind] : e[1] = kind /\ e[2] = Quantity(kind, text)
      BY <3>1
    <3>. DEFINE q == Quantity(kind, text)
                r == Resolved(kind, text)
    <3>3. r <= peak[kind] /\ r \in Int /\ peak[kind] \in Nat
      BY <2>2
    <3>4. ParseQuantity(kind, text) # {} /\ q.amount \in Int
      BY <2>1, Surroundings, QuantityNumber
    <3>5. q.amount > 0 /\ Resolvable(kind, q) /\ ComesTo(kind, q, 1)
      BY <2>8, <3>2
    <3>6. /\ q.base = "absolute" => r = q.amount
          /\ q.base # "absolute" => r >= 1
      BY <2>1, <3>4, <3>5, TargetKept
    <3>7. peak[kind] > 0
      <4>. HIDE DEF q, r
      <4>. QED  BY <3>3, <3>4, <3>5, <3>6
    <3>. QED  BY <2>6, <3>7
  <2>. HIDE DEF asks
  <2>9. (\A e \in ends : asks(e) => ComesTo(e[1], e[2], 1))
          => ("idle" \in warnings <=> \A e \in ends : ~asks(e))
    BY <2>7, <2>8
  <2>. QED  BY <2>5, <2>9 DEF StillRuns, ends, asks
<1>2. IInv => StillRuns
  BY <1>1 DEF StillRuns
<1>. QED  BY <1>2, Invariant, PTL

-----------------------------------------------------------------------------
(***************************************************************************)
(* The options of the engines.                                             *)
(***************************************************************************)

\* A text is at most one quantity.
LEMMA OneQuantity ==
  ASSUME NEW kind \in Kinds, NEW text, NEW q \in ParseQuantity(kind, text)
  PROVE  Quantity(kind, text) = q
<1>. DEFINE c == Quantity(kind, text)
            t == Texts[text]
<1>1. c \in ParseQuantity(kind, text)
  BY QuantityNumber
<1>. HIDE DEF c
<1>2. CASE text = ""
  BY <1>1, <1>2 DEF ParseQuantity, c
<1>3. CASE text # "" /\ text \notin DOMAIN Texts
  BY <1>3 DEF ParseQuantity
<1>4. CASE text # "" /\ text \in DOMAIN Texts /\ t.unit = "%"
  <2>1. \A e \in ParseQuantity(kind, text) :
          e = [amount |-> 10 * t.number, base |-> BaseOf[t.base]]
    BY <1>4 DEF ParseQuantity
  <2>. QED  BY <1>1, <2>1 DEF c
<1>5. CASE text # "" /\ text \in DOMAIN Texts /\ t.unit # "%"
  <2>1. \A e \in ParseQuantity(kind, text) :
          e = [amount |-> t.number * UnitOf(kind)[t.unit], base |-> "absolute"]
    BY <1>5 DEF ParseQuantity
  <2>. QED  BY <1>1, <2>1 DEF c
<1>. QED  BY <1>2, <1>3, <1>4, <1>5

\* A chunk size that was accepted is at least 4Ki, in whole bytes.
LEMMA ChunkSize ==
  ASSUME ChunkValid
  PROVE  Options.chunk \in Int /\ Options.chunk >= MinChunk
<1>. DEFINE text == written.chunk_size
            v == Resolved("memory", text)
<1>1. Options.chunk = IF text = "" THEN DefaultChunk ELSE WholeBytes(text)
  BY DEF Options
<1>2. Kibi \in Nat \ {0} /\ MinChunk \in Nat
  BY FactorAssumption DEF FactorAssumption, MinChunk
<1>3. CASE text = ""
  <2>. DEFINE c == 4000 * Kibi
  <2>1. c \in Nat \ {0} /\ MinChunk = c /\ DefaultChunk = c * Kibi
    BY <1>2 DEF MinChunk, DefaultChunk
  <2>. HIDE DEF c
  <2>2. PICK d \in Nat : Kibi = d + 1
    <3>1. Kibi - 1 \in Nat /\ Kibi = (Kibi - 1) + 1
      BY <1>2
    <3>. QED  BY <3>1
  <2>3. c * d \in Nat /\ c * Kibi = c * d + c
    BY <2>1, <2>2
  <2>4. DefaultChunk \in Int /\ DefaultChunk >= MinChunk
    BY <2>1, <2>3
  <2>. QED  BY <1>1, <1>3, <2>4
<1>4. CASE text # ""
  <2>1. PICK q \in ParseQuantity("memory", text) : q.base = "absolute" /\ q.amount >= MinChunk
    BY <1>4 DEF ChunkValid
  <2>2. Quantity("memory", text) = q /\ q.amount \in Int
    BY <2>1, OneQuantity, QuantityNumber DEF Kinds
  <2>3. v = q.amount
    BY <2>1, <2>2 DEF Resolved, Resolve
  <2>4. Options.chunk = IF v < 0 THEN -(1000 * (-v \div 1000)) ELSE 1000 * (v \div 1000)
    BY <1>1, <1>4 DEF WholeBytes
  <2>5. v \in Int /\ v >= 4000 * Kibi
    BY <2>1, <2>2, <2>3 DEF MinChunk
  <2>. HIDE DEF v
  <2>6. Options.chunk = 1000 * (v \div 1000)
    BY <1>2, <2>4, <2>5
  <2>7. Options.chunk \in Int /\ Options.chunk >= 4000 * Kibi
    BY <1>2, <2>5, <2>6
  <2>. QED  BY <2>7 DEF MinChunk
<1>. QED  BY <1>3, <1>4

\* The engines get what their code relies on (Compile(), and the New() of both
\* engines): a worker, a chunk of at least 4Ki, a threshold, intervals a ticker
\* accepts, and a soft limit below the memory limit and only with one.
THEOREM EngineAssumptionsCorrect == Spec => [](pc = "compiled" => AssumptionsMet)
<1>1. ASSUME IInv, pc = "compiled" PROVE AssumptionsMet
  <2>1. TypeOK /\ OptionsValid /\ options = Options
    BY <1>1 DEF IInv, Computed
  <2>2. options.chunk >= MinChunk
    BY <2>1, ChunkSize DEF OptionsValid
  <2>3. PICK case \in Cases : given = case.given /\ written = case.written
    BY <2>1 DEF TypeOK
  <2>4. /\ written.workers \in Int /\ written.max_procs \in Int /\ written.fraction \in Int
        /\ given.node.cpu \in Nat
        /\ info["memory_limit"] \in Nat /\ peak["cpu"] \in Nat
    <3>1. /\ case.written["workers"] \in Int /\ case.written["max_procs"] \in Int
          /\ case.written["fraction"] \in Int
      BY CaseAssumption DEF CaseAssumption
    <3>. QED  BY <2>1, <2>3, <3>1, Surroundings DEF TypeOK, Keys, Kinds
  <2>5. options.workers >= 1
    <3>1. options.workers = Workers
      <4>1. Options.workers = Workers
        BY DEF Options
      <4>. QED  BY <2>1, <4>1
    <3>2. Procs \in Int
      BY <2>4 DEF Procs
    <3>3. Control!SuggestWorkers(peak["cpu"], Procs) >= 1
      BY <2>4, <3>2 DEF Control!SuggestWorkers, Control!Clamp
    <3>. QED  BY <2>4, <3>1, <3>3 DEF Workers
  <2>6. options.threshold > 0
    <3>1. Options.threshold = OrDefault(WholeBytes(written.release_threshold), 32000 * Kibi * Kibi)
      BY DEF Options
    <3>2. 32000 * Kibi * Kibi > 0
      BY FactorAssumption DEF FactorAssumption
    <3>. QED  BY <2>1, <3>1, <3>2 DEF OrDefault
  <2>7. ASSUME NEW i \in DOMAIN Intervals PROVE options.intervals[i] > 0
    <3>1. Options.intervals = [j \in DOMAIN Intervals |-> OrDefault(written.intervals[j], Intervals[j])]
      BY DEF Options
    <3>2. Intervals[i] > 0
      BY DEF Intervals
    <3>. QED  BY <2>1, <3>1, <3>2 DEF OrDefault
  <2>8. options.soft_limit = SoftLimit
    <3>1. Options.soft_limit = SoftLimit
      BY DEF Options
    <3>. QED  BY <2>1, <3>1
  <2>9. ASSUME written.fraction <= 100 PROVE options.soft_limit <= info["memory_limit"]
    <3>. DEFINE limit == info["memory_limit"]
                part  == IF written.fraction > 0 THEN written.fraction ELSE 90
                product == limit * part
    <3>1. part \in 0 .. 100 /\ limit \in Nat
      BY <2>4, <2>9
    <3>2. SoftLimit = IF written.soft_limit /\ limit > 0 THEN product \div 100 ELSE 0
      BY DEF SoftLimit
    <3>. HIDE DEF limit, part
    <3>3. product \in Nat /\ product <= 100 * limit
      BY <3>1
    <3>. HIDE DEF product
    <3>4. SoftLimit <= limit
      BY <3>1, <3>2, <3>3
    <3>. QED  BY <2>8, <3>4 DEF limit
  <2>10. options.soft_limit > 0 => written.soft_limit
    BY <2>8 DEF SoftLimit
  <2>. QED  BY <2>2, <2>5, <2>6, <2>7, <2>9, <2>10 DEF AssumptionsMet
<1>2. IInv => (pc = "compiled" => AssumptionsMet)
  BY <1>1
<1>. QED  BY <1>2, Invariant, PTL

LEMMA StepOption == Options.max_step = WholeBytes(written.max_step)
  BY DEF Options

\* A step that is at least a byte is not cut off to 0.
LEMMA StepRemains ==
  ASSUME TypeOK, Parses, OptionsValid, options = Options
  PROVE  StepKept
<1>. DEFINE text == written.max_step
            step == Quantity("memory", text)
            v == Resolved("memory", text)
<1>1. SUFFICES ASSUME step.amount > 0, Resolvable("memory", step), ComesTo("memory", step, 1000)
               PROVE  options.max_step > 0
  BY DEF StepKept
<1>2. ParseQuantity("memory", text) # {} /\ "memory" \in Kinds
  <2>1. ParseQuantity("memory", written["max_step"]) # {} /\ text = written["max_step"]
    BY DEF OptionsValid
  <2>. QED  BY <2>1 DEF Kinds
<1>3. v \in Int /\ v >= 1000
  <2>1. step.base = "absolute" => step.amount >= 1000
    BY <1>1, <1>2, AbsoluteBytes
  <2>2. /\ step.base = "absolute" => v = step.amount
        /\ step.base # "absolute" => v >= 1000
    BY <1>1, <1>2, TargetKept
  <2>3. v \in Int
    BY <1>2, ResolvedNumber
  <2>. QED  BY <2>1, <2>2, <2>3
<1>4. options.max_step = IF v < 0 THEN -(1000 * (-v \div 1000)) ELSE 1000 * (v \div 1000)
  <2>1. options.max_step = WholeBytes(text)
    BY StepOption
  <2>. QED  BY <2>1 DEF WholeBytes
<1>. HIDE DEF v
<1>. QED  BY <1>3, <1>4

\* What Compile() hands to the engines is what their code relies on, and a step
\* that was asked for does not become "unlimited".
THEOREM EnginesCorrect == Spec => []EnginesFit
<1>1. ASSUME IInv, pc = "compiled" PROVE StepKept
  BY <1>1, StepRemains DEF IInv, Parsed, Computed
<1>2. IInv => (pc = "compiled" => StepKept)
  BY <1>1
<1>3. (pc = "compiled" => AssumptionsMet) /\ (pc = "compiled" => StepKept) => EnginesFit
  BY DEF EnginesFit
<1>. QED  BY <1>2, <1>3, Invariant, EngineAssumptionsCorrect, PTL
=============================================================================
