------------------------------ MODULE Resources ------------------------------
(***************************************************************************)
(* How the container's CPU and memory are discovered (internal/resources): *)
(* Detect() asks the environment, then the cgroup, then the configuration, *)
(* and drops an estimated request that contradicts the limit.              *)
(*                                                                         *)
(* Numbers are those of Units, and 0 is "unknown". The cgroup is the       *)
(* function from the files that can be read to their numbers, a quota or a *)
(* limit of "max" (or below 0, in v1) being 0.                             *)
(***************************************************************************)
EXTENDS Units

Keys == {"cpu_request", "cpu_limit", "memory_request", "memory_limit"}

KindOf(k) == IF k \in {"cpu_request", "cpu_limit"} THEN "cpu" ELSE "memory"

\* A source of the cgroup is named by its file. That of weight or shares is
\* an estimate.
Quotas    == {"cpu.max", "cpu.cfs_quota_us"}
Limits    == {"memory.max", "memory.limit_in_bytes"}
Estimates == {"cpu.weight", "cpu.shares"}

NoSource == ""

VARIABLES
  given,     \* what can be discovered. By key: the texts of resources.* in a
             \* document (file), --cpu-limit (flag), LOADSIM_CPU_LIMIT (suffixed)
             \* and the like, and the number in LOADSIM_CPU_LIMIT_MILLI (plain);
             \* the cgroup; the machine (node); and whether to detect (detect)
  info,      \* the numbers in Info
  sources,   \* Info.Sources, NoSource for a key that it does not have
  pc         \* where Compile() is

detectVars == <<given, info, sources, pc>>

DetectInit ==
  /\ info = [k \in Keys |-> 0]
  /\ sources = [k \in Keys |-> NoSource]

-----------------------------------------------------------------------------
(***************************************************************************)
(* Detect(): the environment.                                              *)
(***************************************************************************)

\* parseCoreString(), parseByteString(): an absolute number above 0, or none.
\* Of the units of CPU only "m" is known here.
Detected(kind, text) ==
  IF /\ text \in DOMAIN Texts
     /\ Texts[text].number > 0
     /\ Texts[text].unit \in IF kind = "cpu" THEN {"", "m"} ELSE DOMAIN UnitOf("memory")
  THEN Quantity(kind, text).amount ELSE 0

Suffixed(k) == Detected(KindOf(k), given.suffixed[k])

\* envMillicores(), envBytes()
Environment ==
  /\ pc = "environment"
  /\ info' = [k \in Keys |-> IF given.plain[k] > 0 THEN given.plain[k] ELSE Suffixed(k)]
  /\ sources' = [k \in Keys |-> IF given.plain[k] > 0 THEN "env:plain"
                                ELSE IF Suffixed(k) > 0 THEN "env:suffixed"
                                ELSE NoSource]
  /\ pc' = "cgroup"
  /\ UNCHANGED given

(***************************************************************************)
(* Detect(): the cgroup.                                                   *)
(***************************************************************************)

Readable(file) == file \in DOMAIN given.cgroup

\* The first of the files that can be read, and "" if there is none.
ReadFirst(one, other) ==
  IF Readable(one) THEN one ELSE IF Readable(other) THEN other ELSE ""

\* A number of the cgroup with its source; an unlimited one has neither.
Number(file) ==
  IF file = "" \/ ~Readable(file) \/ given.cgroup[file] = 0
  THEN [value |-> 0, source |-> NoSource]
  ELSE [value |-> given.cgroup[file], source |-> file]

CgroupQuota  == Number(ReadFirst("cpu.max", "cpu.cfs_quota_us"))
CgroupMemory == Number(ReadFirst("memory.max", "memory.limit_in_bytes"))

\* cpu.weight counts in v2 only, and 1024 shares are a core.
SharesOfWeight(w) == (((w - 1) * 262142) \div 9999) + 2
CoresOfShares(s)  == (s * 1000) \div 1024

CgroupShares ==
  LET weighed == Readable("cpu.weight") /\ Readable("cpu.max")
      cores   == IF weighed THEN CoresOfShares(SharesOfWeight(given.cgroup["cpu.weight"]))
                 ELSE IF Readable("cpu.shares")
                 THEN CoresOfShares(given.cgroup["cpu.shares"])
                 ELSE 0
  IN IF cores < 10 THEN [value |-> 0, source |-> NoSource]
     ELSE [value  |-> cores,
           source |-> IF weighed THEN "cpu.weight" ELSE "cpu.shares"]

FillAlways(k, found) == found.value > 0         \* mutant: the cgroup first
Fill(k, found) == info[k] = 0 /\ found.value > 0

EstimateFits(cores, limit) ==
  /\ limit = 0 \/ cores <= limit
  /\ cores <= given.node.cpu

\* The request is checked against the limit that has just been filled in.
Cgroup ==
  LET limit == IF Fill("cpu_limit", CgroupQuota) THEN CgroupQuota.value
               ELSE info["cpu_limit"]
      found == [k \in Keys |->
                  CASE k = "cpu_limit"    -> CgroupQuota
                    [] k = "memory_limit" -> CgroupMemory
                    [] k = "cpu_request" /\ EstimateFits(CgroupShares.value, limit)
                                          -> CgroupShares
                    [] OTHER              -> [value |-> 0, source |-> NoSource]]
  IN /\ pc = "cgroup"
     /\ info' = [k \in Keys |-> IF Fill(k, found[k]) THEN found[k].value ELSE info[k]]
     /\ sources' = [k \in Keys |->
                      IF Fill(k, found[k]) THEN found[k].source ELSE sources[k]]
     /\ pc' = "overrides"
     /\ UNCHANGED given

(***************************************************************************)
(* Detect(): the configuration, and the last word on the estimate.         *)
(***************************************************************************)

\* Load() takes LOADSIM_CPU_LIMIT for the flag --cpu-limit, and either of
\* them replaces what the documents say.
Written(k) == IF given.flag[k] # "" THEN given.flag[k]
              ELSE IF given.suffixed[k] # "" THEN given.suffixed[k]
              ELSE given.file[k]

\* Compile() keeps the number of the quantity only, whatever its base.
Override(k) == Quantity(KindOf(k), Written(k)).amount

Overrides ==
  /\ pc = "overrides"
  /\ info' = [k \in Keys |-> IF Override(k) > 0 THEN Override(k) ELSE info[k]]
  /\ sources' = [k \in Keys |-> IF Override(k) > 0 THEN "config" ELSE sources[k]]
  /\ pc' = "recheck"
  /\ UNCHANGED given

ContradictsNever == FALSE                       \* mutant: never checked again
Contradicts ==
  /\ sources["cpu_request"] \in Estimates
  /\ info["cpu_limit"] > 0
  /\ info["cpu_request"] > info["cpu_limit"]

ForgottenNumber(s) == s                         \* mutant: the source remains
Forgotten(s) == [s EXCEPT !["cpu_request"] = NoSource]

DropEstimate ==
  /\ pc = "recheck"
  /\ Contradicts
  /\ info' = [info EXCEPT !["cpu_request"] = 0]
  /\ sources' = Forgotten(sources)
  /\ pc' = "known"
  /\ UNCHANGED given

KeepRequest ==
  /\ pc = "recheck"
  /\ ~Contradicts
  /\ pc' = "known"
  /\ UNCHANGED <<given, info, sources>>

DetectNext == Environment \/ Cgroup \/ Overrides \/ DropEstimate \/ KeepRequest

-----------------------------------------------------------------------------
Settled == pc \in {"known", "compiled"}

\* What a source says of a key.
Says(source, k) ==
  CASE source = "config"       -> {Override(k)}
    [] source = "env:plain"    -> {given.plain[k]}
    [] source = "env:suffixed" -> {Suffixed(k)}
    [] source \in Estimates    -> {CgroupShares.value}
    [] source \in Quotas       -> {CgroupQuota.value}
    [] source \in Limits       -> {CgroupMemory.value}
    [] OTHER                   -> {0}

\* Every number is known exactly when it has a source, and is what that source
\* says: /status explains every target (resources.go:30-32).
SourceHonest ==
  \A k \in Keys : info[k] \in Says(sources[k], k)
                  /\ (info[k] = 0) = (sources[k] = NoSource)

\* An estimated request is within the limit, wherever the limit came from and
\* however late, and within the machine (resources.go:86-93, 110-117).
EstimateConsistent ==
  Settled /\ sources["cpu_request"] \in Estimates
    => /\ info["cpu_limit"] > 0 => info["cpu_request"] <= info["cpu_limit"]
       /\ info["cpu_request"] <= given.node.cpu

\* Discovery has an order: what was configured is not changed by what was
\* detected, the environment is not changed by the cgroup, and a limit that
\* anything gives is known.
InOrder ==
  Settled =>
    \A k \in Keys :
      /\ Override(k) > 0 => info[k] = Override(k)
      /\ Override(k) = 0 /\ given.detect /\ given.plain[k] > 0 => info[k] = given.plain[k]
      /\ Override(k) = 0 /\ given.detect /\ info[k] = 0 =>
           /\ given.plain[k] = 0
           /\ k = "cpu_limit" => CgroupQuota.value = 0
           /\ k = "memory_limit" => CgroupMemory.value = 0

\* "cpu.weight defaults to 100 (~2 shares) when no request is set; that is not
\* a meaningful request" (cgroup.go:113-114): so no request comes from it.
DefaultWeightIsNoRequest ==
  Settled /\ Readable("cpu.weight") /\ given.cgroup["cpu.weight"] = 100
    => sources["cpu_request"] # "cpu.weight"
=============================================================================
