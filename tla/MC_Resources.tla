----------------------------- MODULE MC_Resources -----------------------------
(***************************************************************************)
(* What TLC lets Compile() find: every combination of the sources of the   *)
(* CPU, or of the memory, on cgroups of either version and of none; and    *)
(* every combination of engine options that interact, in surroundings that *)
(* know much and little.                                                   *)
(***************************************************************************)
EXTENDS Compile, TLC

Text(number, unit, base) == [number |-> number, unit |-> unit, base |-> base]

MC_Texts ==
  "250m" :> Text(250, "m", "") @@ "2cores" :> Text(2, "cores", "")
  @@ "4" :> Text(4, "", "") @@ "3c" :> Text(3, "c", "") @@ "750m" :> Text(750, "m", "")
  @@ "500m" :> Text(500, "m", "") @@ "-1" :> Text(-1, "", "") @@ "0" :> Text(0, "", "")
  @@ "2Ki" :> Text(2, "Ki", "") @@ "8Ki" :> Text(8, "Ki", "") @@ "4Ki" :> Text(4, "Ki", "")
  @@ "9k" :> Text(9, "k", "") @@ "1Mi" :> Text(1, "Mi", "") @@ "5Xi" :> Text(5, "Xi", "")
  @@ "50%" :> Text(50, "%", "") @@ "95%lim" :> Text(95, "%", "lim")
  @@ "120%" :> Text(120, "%", "") @@ "150%req" :> Text(150, "%", "req")
  @@ "100%node" :> Text(100, "%", "node") @@ "10%pod" :> Text(10, "%", "pod")
  @@ "-10%" :> Text(-10, "%", "")

\* Two keys of one kind, each of them given or not.
Pair(request, limit, rs, ls, none) ==
  {(request :> r) @@ (limit :> l) @@ [k \in Keys |-> none] : r \in rs, l \in ls}
CPU(rs, ls)    == Pair("cpu_request", "cpu_limit", rs \cup {""}, ls \cup {""}, "")
Memory(rs, ls) == Pair("memory_request", "memory_limit", rs \cup {""}, ls \cup {""}, "")

Nothing == [k \in Keys |-> ""]
Unknown == [k \in Keys |-> 0]

MC_CPU ==
  [file : CPU({"250m"}, {"2cores"}), flag : CPU({"4"}, {"3c"}),
   suffixed : CPU({"750m"}, {"500m"}),
   plain : Pair("cpu_request", "cpu_limit", {0, 100}, {0, 1000}, 0),
   cgroup :
     {<<>>} \cup {"cpu.max" :> q @@ "cpu.weight" :> w : q \in {0, 1500}, w \in {1, 39, 100}}
            \cup {"cpu.cfs_quota_us" :> q @@ "cpu.shares" :> s :
                    q \in {0, 1500}, s \in {2, 1024}}
            \cup {"cpu.weight" :> 39 @@ "cpu.shares" :> 2048},
   node : {[cpu |-> n, memory |-> 0] : n \in {2000, 4000}},
   detect : BOOLEAN]

\* Texts the two parsers of the environment read differently, or not at all.
MC_OddCPU ==
  [file : CPU({}, {"50%", "10%pod"}), flag : {Nothing} \cup CPU({}, {"-1"}),
   suffixed : CPU({}, {"3c", "50%", "-10%", "huge"}),
   plain : {Unknown}, cgroup : {<<>>, "cpu.max" :> 1500},
   node : {[cpu |-> 2000, memory |-> 0]}, detect : BOOLEAN]

MC_Memory ==
  [file : Memory({"2Ki"}, {"8Ki"}), flag : Memory({"4Ki"}, {"9k"}),
   suffixed : Memory({"2Ki"}, {"50%", "5Xi"}),
   plain : Pair("memory_request", "memory_limit", {0, 50000}, {0, 110000}, 0),
   cgroup : {<<>>} \cup {"memory.max" :> l : l \in {0, 120000}}
                   \cup {"memory.limit_in_bytes" :> l : l \in {0, 120000}},
   node : {[cpu |-> 2000, memory |-> n] : n \in {0, 640000}},
   detect : BOOLEAN]

\* Known and unknown limits and requests, and a limit read from a percentage.
MC_Few ==
  [file : {Nothing} \cup Pair("cpu_limit", "memory_limit", {"500m", "4", "50%"}, {"8Ki", "50%"}, "")
             \cup Pair("cpu_request", "memory_request", {"500m"}, {"8Ki"}, ""),
   flag : {Nothing}, suffixed : {Nothing}, plain : {Unknown}, cgroup : {<<>>},
   node : {[cpu |-> 2000, memory |-> n] : n \in {0, 640000}}, detect : {FALSE}]

Plain ==
  [percent_base |-> "", cpu |-> {"50%"}, memory |-> {"120%", "0"}, workers |-> 0,
   max_procs |-> 0, work |-> "int", fill |-> "", format |-> "json", chunk_size |-> "4Ki",
   max_step |-> "", release_threshold |-> "1Mi", soft_limit |-> TRUE, fraction |-> 90,
   intervals |-> Intervals]

\* The keys that make the peaks, those of the CPU engine, of the memory engine.
MC_Peaks ==
  {[Plain EXCEPT !.percent_base = b, !.cpu = {c, "0"}, !.memory = {m}] :
     b \in {"", "req", "total", "pod", "limit"},
     c \in {"50%", "95%lim", "150%req", "100%node", "3c", "0", "-10%", "4"},
     m \in {"95%lim", "120%", "150%req", "8Ki", "0", "100%node"}}

MC_CPUOptions ==
  {[Plain EXCEPT !.cpu = {c}, !.workers = w, !.max_procs = p, !.work = k, !.format = f] :
     c \in {"50%", "2cores"}, w \in {-1, 0, 3}, p \in {-1, 0, 1, 4},
     k \in {"", "sqrt", "nop"}, f \in {"", "text", "xml"}}

MC_MemOptions ==
  {[Plain EXCEPT !.chunk_size = c, !.max_step = s, !.release_threshold = t] :
     c \in {"", "4Ki", "2Ki", "50%", "5Xi"}, s \in {"", "50%", "2Ki", "-10%", "-1"},
     t \in {"", "150%req", "0", "-10%", "huge"}}
  \cup {[Plain EXCEPT !.fill = f, !.soft_limit = b, !.fraction = p,
                      !.intervals = [i \in DOMAIN Intervals |-> n]] :
          f \in {"zero", "ones"}, b \in BOOLEAN, p \in {-1, 0, 50, 120}, n \in {-1, 0, 1}}

Case(givens, writtens) == [given : givens, written : writtens]

MC_Cases ==
  Case(MC_CPU \cup MC_OddCPU \cup MC_Memory, {Plain})
  \cup Case(MC_Few, MC_Peaks \cup MC_CPUOptions \cup MC_MemOptions)
=============================================================================
