---------------------------- MODULE Config_proofs ----------------------------
(***************************************************************************)
(* Proofs about Config, for every set of sources, lists of phases, texts   *)
(* of the compact syntax, and parsers.                                     *)
(***************************************************************************)
EXTENDS Config, SetInduction

(***************************************************************************)
(* The inductive invariant: what each key has been given so far.           *)
(***************************************************************************)

Value(k) == IF k \in BoolKeys THEN heap[ptr[k]] ELSE plain[k]

\* A document over what there was.
Over(doc, k, below) == IF k \in DOMAIN doc THEN doc[k] ELSE below

Default(k)    == IF k = "loop" THEN "false" ELSE IF k \in BoolKeys THEN "true" ELSE Unset
FromPreset(k) == Over(src.preset, k, Default(k))
FromFile(k)   == Over(src.file, k, FromPreset(k))
FromInline(k) == Over(src.inline, k, FromFile(k))

\* A flag or a variable over the documents, as apply() has it.
Cleared(k) == \/ k = "phases" /\ (Has("cpu") \/ Has("memory"))
              \/ k \in Kinds /\ Has("phases")
Applied(k) == IF Has(k) THEN Overridden(k) ELSE IF Cleared(k) THEN Unset ELSE FromInline(k)

Reading == pc \in {"preset", "file", "inline", "apply"}

TypeOK ==
  /\ src \in Sources
  /\ pc \in {"preset", "file", "inline", "apply", "compile", "running", "rejected"}

\* Until apply() replaces a pointer, each option has an address of its own.
Addresses ==
  Reading => /\ ptr = [k \in BoolKeys |-> DefaultAddress(k)]
             /\ DOMAIN heap = {DefaultAddress(k) : k \in BoolKeys}

Read ==
  /\ pc = "preset" => \A k \in Keys : Value(k) = Default(k)
  /\ pc = "file" => \A k \in Keys : Value(k) = FromPreset(k)
  /\ pc = "inline" => \A k \in Keys : Value(k) = FromFile(k)
  /\ pc = "apply" => \A k \in Keys : Value(k) = FromInline(k)
  /\ pc \in {"compile", "running"} => FlagsParse /\ \A k \in Keys : Value(k) = Applied(k)

\* A shorthand that is configured has been parsed, and says something.
Shorthands ==
  \A k \in Kinds :
    plain[k] = Unset \/ (Says(plain[k]) /\ ParseSegmentShorthand(plain[k]) # {})

Result ==
  pc = "running" =>
    /\ Accepted
    /\ \E p \in Profiles :
         compiled = [phases |-> Phases, profile |-> p,
                     loop |-> Loop /\ ~(OpenEnded(p) /\ Len(p) = 1),
                     optional |-> [k \in BoolKeys |-> heap[ptr[k]]],
                     warnings |-> Warnings(p)]

IInv == TypeOK /\ Addresses /\ Read /\ Shorthands /\ Result

\* At the beginning every key has its default.
LEMMA InitInv == Init => IInv
<1>. SUFFICES ASSUME Init PROVE IInv
  OBVIOUS
<1>1. TypeOK /\ Addresses /\ Result
  BY DEF Init, TypeOK, Addresses, Result
<1>2. ASSUME NEW k \in Keys PROVE Value(k) = Default(k)
  <2>1. CASE k \in BoolKeys
    <3>1. ptr[k] = DefaultAddress(k) /\ ptr[k] \in {DefaultAddress(j) : j \in BoolKeys}
      BY <2>1 DEF Init
    <3>2. heap[ptr[k]] = "true"
      BY <3>1 DEF Init
    <3>. QED  BY <2>1, <3>2 DEF Value, Default, BoolKeys
  <2>2. CASE k \notin BoolKeys
    BY <2>2 DEF Init, Value, Default, Keys
  <2>. QED  BY <2>1, <2>2
<1>3. Read
  BY <1>2 DEF Init, Read
<1>4. Shorthands
  BY DEF Init, Shorthands, Kinds, PlainKeys
<1>. QED  BY <1>1, <1>3, <1>4 DEF IInv

\* What mergeYAML() makes of the keys: it writes through the pointer of an
\* option, which is the option's own.
LEMMA Merged ==
  ASSUME NEW doc, NEW next, Reading, Addresses, MergeYAML(doc, next)
  PROVE  /\ src' = src /\ ptr' = ptr
         /\ \/ pc' = "rejected" /\ plain' = plain
            \/ /\ pc' = next
               /\ DOMAIN heap' = DOMAIN heap
               /\ \A k \in Keys : Value(k)' = Over(doc, k, Value(k))
               /\ \A k \in Kinds : \/ plain'[k] = plain[k]
                                   \/ /\ k \in DOMAIN doc /\ plain'[k] = doc[k]
                                      /\ ParseSegmentShorthand(doc[k]) # {}
<1>1. src' = src /\ ptr' = ptr
  BY DEF MergeYAML
<1>2. CASE ~(/\ DOMAIN doc \subseteq Keys
             /\ \A k \in Kinds \cap DOMAIN doc : ParseSegmentShorthand(doc[k]) # {})
  BY <1>1, <1>2 DEF MergeYAML
<1>3. CASE /\ DOMAIN doc \subseteq Keys
           /\ \A k \in Kinds \cap DOMAIN doc : ParseSegmentShorthand(doc[k]) # {}
  <2>1. /\ pc' = next
        /\ plain' = [k \in PlainKeys |-> IF k \in DOMAIN doc THEN doc[k] ELSE plain[k]]
        /\ heap' = [a \in DOMAIN heap |->
                      LET written == {k \in BoolKeys \cap DOMAIN doc : ptr[k] = a}
                      IN IF written = {} THEN heap[a]
                         ELSE doc[CHOOSE k \in written : TRUE]]
    BY <1>3 DEF MergeYAML
  <2>2. ASSUME NEW k \in Keys PROVE Value(k)' = Over(doc, k, Value(k))
    <3>1. CASE k \in BoolKeys
      <4>. DEFINE a == ptr[k]
                  written == {j \in BoolKeys \cap DOMAIN doc : ptr[j] = a}
      <4>1. \A j \in BoolKeys : ptr[j] = <<"default", j>>
        BY DEF Addresses, DefaultAddress
      <4>2. a \in DOMAIN heap
        BY <3>1 DEF Addresses
      <4>3. heap'[a] = IF written = {} THEN heap[a] ELSE doc[CHOOSE j \in written : TRUE]
        BY <2>1, <4>2
      <4>4. \A j \in written : j = k
        BY <3>1, <4>1
      <4>5. k \in DOMAIN doc <=> k \in written
        BY <3>1
      <4>. HIDE DEF written, a
      <4>6. heap'[a] = IF k \in DOMAIN doc THEN doc[k] ELSE heap[a]
        <5>1. CASE k \in DOMAIN doc
          <6>1. (CHOOSE j \in written : TRUE) = k /\ written # {}
            BY <4>4, <4>5, <5>1
          <6>. QED  BY <4>3, <5>1, <6>1
        <5>2. CASE k \notin DOMAIN doc
          BY <4>3, <4>4, <4>5, <5>2
        <5>. QED  BY <5>1, <5>2
      <4>. QED  BY <1>1, <3>1, <4>6 DEF Value, Over, a
    <3>2. CASE k \notin BoolKeys
      BY <2>1, <3>2 DEF Value, Over, Keys
    <3>. QED  BY <3>1, <3>2
  <2>3. DOMAIN heap' = DOMAIN heap
    BY <2>1
  <2>4. ASSUME NEW k \in Kinds
        PROVE  \/ plain'[k] = plain[k]
               \/ /\ k \in DOMAIN doc /\ plain'[k] = doc[k]
                  /\ ParseSegmentShorthand(doc[k]) # {}
    BY <1>3, <2>1 DEF Kinds, PlainKeys
  <2>. QED  BY <1>1, <2>1, <2>2, <2>3, <2>4
<1>. QED  BY <1>2, <1>3

\* What depends on the sources only is not changed by a step.
LEMMA SameSources ==
  ASSUME src' = src
  PROVE  /\ \A k : /\ FromPreset(k)' = FromPreset(k) /\ FromFile(k)' = FromFile(k)
                   /\ FromInline(k)' = FromInline(k) /\ Applied(k)' = Applied(k)
         /\ FlagsParse' = FlagsParse
<1>1. \A k : Overridden(k)' = Overridden(k) /\ Has(k)' = Has(k)
  BY DEF Overridden, Has
<1>2. \A k : /\ FromPreset(k)' = FromPreset(k) /\ FromFile(k)' = FromFile(k)
             /\ FromInline(k)' = FromInline(k)
  BY DEF FromPreset, FromFile, FromInline
<1>3. \A k : Applied(k)' = Applied(k)
  BY <1>1, <1>2, Zenon DEF Applied, Cleared
<1>4. FlagsParse' = FlagsParse
  BY <1>1 DEF FlagsParse
<1>. QED  BY <1>2, <1>3, <1>4

\* Load(): one document over the ones before it.
LEMMA DocumentInv ==
  ASSUME IInv, NEW doc, NEW now, NEW next, pc = now, MergeYAML(doc, next),
         \/ now = "preset" /\ next = "file" /\ doc = src.preset
         \/ now = "file" /\ next = "inline" /\ doc = src.file
         \/ now = "inline" /\ next = "apply" /\ doc = src.inline
  PROVE  IInv'
<1>1. Reading
  BY DEF Reading
<1>2. /\ src' = src /\ ptr' = ptr
      /\ \/ pc' = "rejected" /\ plain' = plain
         \/ /\ pc' = next
            /\ DOMAIN heap' = DOMAIN heap
            /\ \A k \in Keys : Value(k)' = Over(doc, k, Value(k))
            /\ \A k \in Kinds : \/ plain'[k] = plain[k]
                                \/ /\ k \in DOMAIN doc /\ plain'[k] = doc[k]
                                   /\ ParseSegmentShorthand(doc[k]) # {}
  BY <1>1, Merged DEF IInv
<1>3. TypeOK'
  BY <1>2 DEF IInv, TypeOK
<1>4. Addresses'
  BY <1>1, <1>2 DEF IInv, Addresses, Reading
<1>5. Read'
  <2>1. CASE pc' = "rejected"
    BY <2>1 DEF Read
  <2>2. CASE pc' = next
    <3>1. \A k \in Keys : Value(k)' = Over(doc, k, Value(k))
      BY <1>2, <2>2
    <3>2. \A k : /\ FromPreset(k)' = FromPreset(k) /\ FromFile(k)' = FromFile(k)
                 /\ FromInline(k)' = FromInline(k)
      BY <1>2, SameSources
    <3>3. CASE now = "preset" /\ next = "file" /\ doc = src.preset
      BY <2>2, <3>1, <3>2, <3>3 DEF IInv, Read, FromPreset
    <3>4. CASE now = "file" /\ next = "inline" /\ doc = src.file
      BY <2>2, <3>1, <3>2, <3>4 DEF IInv, Read, FromFile
    <3>5. CASE now = "inline" /\ next = "apply" /\ doc = src.inline
      BY <2>2, <3>1, <3>2, <3>5 DEF IInv, Read, FromInline
    <3>. QED  BY <3>3, <3>4, <3>5
  <2>. QED  BY <1>2, <2>1, <2>2
<1>6. Shorthands'
  <2>1. \A k \in Kinds \cap DOMAIN doc : Says(doc[k])
    BY SourcesAssumption DEF SourcesAssumption, IInv, TypeOK
  <2>2. ASSUME NEW k \in Kinds
        PROVE  \/ plain'[k] = plain[k]
               \/ Says(plain'[k]) /\ ParseSegmentShorthand(plain'[k]) # {}
    BY <1>2, <2>1
  <2>. QED  BY <2>2 DEF IInv, Shorthands
<1>7. Result'
  BY <1>2 DEF Result
<1>. QED  BY <1>3, <1>4, <1>5, <1>6, <1>7 DEF IInv

\* What a variable or a flag can give.
LEMMA OverriddenSays ==
  ASSUME src \in Sources
  PROVE  /\ Overridden("phases") \in {"text", Blank, Empty}
         /\ \A k \in Kinds : Has(k) => Says(Overridden(k))
<1>1. \A l \in {"env", "flag"} :
        /\ "phases" \in DOMAIN src[l] => src[l]["phases"] \in {"text", Blank, Empty}
        /\ \A k \in Kinds \cap DOMAIN src[l] : src[l][k] = Empty \/ Says(src[l][k])
  BY SourcesAssumption DEF SourcesAssumption
<1>2. Overridden("phases") \in {"text", Blank, Empty}
  BY <1>1 DEF Overridden
<1>3. ASSUME NEW k \in Kinds, Has(k) PROVE Says(Overridden(k))
  BY <1>1, <1>3 DEF Has, Overridden
<1>. QED  BY <1>2, <1>3

\* Load(): the variables and the flags over the documents.
LEMMA ApplyInv == IInv /\ Apply => IInv'
<1>. SUFFICES ASSUME IInv, Apply PROVE IInv'
  OBVIOUS
<1>1. /\ pc = "apply" /\ FlagsParse /\ pc' = "compile" /\ src' = src
      /\ plain' = [k \in PlainKeys |-> IF Has(k) THEN Overridden(k) ELSE Kept(k)]
      /\ ptr' = [k \in BoolKeys |-> IF Has(k) THEN <<"flag", k>> ELSE ptr[k]]
      /\ heap' = [a \in DOMAIN heap \cup {<<"flag", k>> : k \in BoolKeys} |->
                    IF \E k \in BoolKeys : Has(k) /\ a = <<"flag", k>>
                    THEN Overridden(a[2])
                    ELSE IF a \in DOMAIN heap THEN heap[a] ELSE "true"]
  BY DEF Apply
<1>2. /\ ptr = [k \in BoolKeys |-> DefaultAddress(k)]
      /\ DOMAIN heap = {DefaultAddress(k) : k \in BoolKeys}
      /\ \A k \in Keys : Value(k) = FromInline(k)
  BY <1>1 DEF IInv, Addresses, Reading, Read
<1>3. TypeOK' /\ Addresses' /\ Result'
  BY <1>1 DEF IInv, TypeOK, Addresses, Reading, Result
<1>4. ASSUME NEW k \in Keys PROVE Value(k)' = Applied(k)
  <2>1. CASE k \in BoolKeys
    <3>1. ~Cleared(k)
      BY <2>1 DEF Cleared, BoolKeys, Kinds
    <3>2. CASE Has(k)
      <4>. DEFINE a == <<"flag", k>>
      <4>1. ptr'[k] = a /\ a[2] = k
        BY <1>1, <2>1, <3>2
      <4>2. a \in DOMAIN heap \cup {<<"flag", j>> : j \in BoolKeys}
        BY <2>1
      <4>3. \E j \in BoolKeys : Has(j) /\ a = <<"flag", j>>
        BY <2>1, <3>2
      <4>. HIDE DEF a
      <4>4. heap'[a] = Overridden(a[2])
        BY <1>1, <4>2, <4>3
      <4>. QED  BY <2>1, <3>2, <4>1, <4>4 DEF Value, Applied
    <3>3. CASE ~Has(k)
      <4>. DEFINE a == <<"default", k>>
      <4>1. ptr'[k] = a /\ ptr[k] = a
        BY <1>1, <1>2, <2>1, <3>3 DEF DefaultAddress
      <4>2. a \in DOMAIN heap
        BY <1>2, <2>1 DEF DefaultAddress
      <4>3. ~\E j \in BoolKeys : Has(j) /\ a = <<"flag", j>>
        OBVIOUS
      <4>. HIDE DEF a
      <4>4. heap'[a] = heap[a]
        BY <1>1, <4>2, <4>3
      <4>. QED  BY <1>2, <2>1, <3>1, <3>3, <4>1, <4>4 DEF Value, Applied
    <3>. QED  BY <3>2, <3>3
  <2>2. CASE k \notin BoolKeys
    <3>1. plain'[k] = IF Has(k) THEN Overridden(k) ELSE Kept(k)
      BY <1>1, <2>2 DEF Keys
    <3>2. plain[k] = FromInline(k)
      BY <1>2, <2>2 DEF Value
    <3>3. ~Has(k) => Kept(k) = IF Cleared(k) THEN Unset ELSE plain[k]
      BY DEF Kept, Cleared, Kinds
    <3>. QED  BY <2>2, <3>1, <3>2, <3>3 DEF Value, Applied
  <2>. QED  BY <2>1, <2>2
<1>5. Read'
  <2>1. FlagsParse' /\ \A k : Applied(k)' = Applied(k)
    BY <1>1, SameSources
  <2>. QED  BY <1>1, <1>4, <2>1 DEF Read
<1>6. Shorthands'
  <2>1. ASSUME NEW k \in Kinds, plain'[k] # Unset
        PROVE  Says(plain'[k]) /\ ParseSegmentShorthand(plain'[k]) # {}
    <3>1. plain'[k] = IF Has(k) THEN Overridden(k) ELSE Kept(k)
      BY <1>1 DEF Kinds, PlainKeys
    <3>2. CASE Has(k)
      BY <1>1, <3>1, <3>2, OverriddenSays DEF IInv, TypeOK, FlagsParse
    <3>3. CASE ~Has(k)
      BY <2>1, <3>1, <3>3 DEF IInv, Shorthands, Kept, Kinds
    <3>. QED  BY <3>2, <3>3
  <2>. QED  BY <2>1 DEF Shorthands
<1>. QED  BY <1>3, <1>5, <1>6 DEF IInv

\* What depends on the sources and the keys is not changed by Compile().
LEMMA SameConfiguration ==
  ASSUME UNCHANGED <<src, plain, ptr, heap>>
  PROVE  /\ \A k : Value(k)' = Value(k)
         /\ Shorthands' = Shorthands /\ Accepted' = Accepted /\ Profiles' = Profiles
         /\ Phases' = Phases /\ Loop' = Loop
         /\ \A p : Warnings(p)' = Warnings(p)
<1>1. \A k : Value(k)' = Value(k)
  BY DEF Value
<1>2. Shorthands' = Shorthands /\ Loop' = Loop /\ Shorthand' = Shorthand
  BY DEF Shorthands, Loop, Shorthand
<1>3. SpecsOf(plain["phases"])' = SpecsOf(plain["phases"])
  BY DEF SpecsOf
<1>4. Listed' = Listed /\ Phases' = Phases
  BY <1>3 DEF Listed, Phases
<1>5. Specs' = Specs
  BY <1>3, <1>4 DEF Specs
<1>6. Profiles' = Profiles
  BY <1>5 DEF Profiles
<1>7. Accepted' = Accepted
  BY <1>2, <1>4, <1>5, <1>6 DEF Accepted
<1>8. \A p : Warnings(p)' = Warnings(p)
  BY <1>2, <1>4 DEF Warnings
<1>. QED  BY <1>1, <1>2, <1>4, <1>6, <1>7, <1>8

\* Compile() writes down what it has accepted.
LEMMA CompileInv == IInv /\ Compile => IInv'
<1>. SUFFICES ASSUME IInv, Compile PROVE IInv'
  OBVIOUS
<1>1. pc = "compile" /\ pc' = "running" /\ Accepted /\ UNCHANGED <<src, plain, ptr, heap>>
  BY DEF Compile
<1>2. PICK p \in Profiles :
        compiled' = [phases |-> Phases, profile |-> p,
                     loop |-> Loop /\ ~(OpenEnded(p) /\ Len(p) = 1),
                     optional |-> [k \in BoolKeys |-> heap[ptr[k]]],
                     warnings |-> Warnings(p)]
  BY DEF Compile
<1>3. /\ Accepted' /\ Profiles' = Profiles /\ Phases' = Phases /\ Loop' = Loop
      /\ \A q : Warnings(q)' = Warnings(q)
      /\ \A k : Value(k)' = Value(k)
      /\ Shorthands'
  BY <1>1, SameConfiguration DEF IInv
<1>4. Result'
  BY <1>1, <1>2, <1>3 DEF Result
<1>5. Read'
  <2>1. FlagsParse' = FlagsParse /\ \A k : Applied(k)' = Applied(k)
    BY <1>1, SameSources
  <2>. QED  BY <1>1, <1>3, <2>1 DEF IInv, Read
<1>6. TypeOK' /\ Addresses'
  BY <1>1 DEF IInv, TypeOK, Addresses, Reading
<1>. QED  BY <1>3, <1>4, <1>5, <1>6 DEF IInv

\* Nothing is changed by a rejection.
LEMMA RejectInv == IInv /\ Reject => IInv'
<1>. SUFFICES ASSUME IInv, Reject PROVE IInv'
  OBVIOUS
<1>1. pc' = "rejected" /\ UNCHANGED <<src, plain, ptr, heap>>
  BY DEF Reject
<1>2. Shorthands'
  BY <1>1, SameConfiguration DEF IInv
<1>. QED
  BY <1>1, <1>2 DEF IInv, TypeOK, Addresses, Reading, Read, Result

\* Nor is anything by a step that does nothing.
LEMMA StutterInv == IInv /\ UNCHANGED vars => IInv'
<1>. SUFFICES ASSUME IInv, UNCHANGED vars PROVE IInv'
  OBVIOUS
<1>1. UNCHANGED <<src, plain, ptr, heap>> /\ pc' = pc /\ compiled' = compiled
  BY DEF vars
<1>2. /\ \A k : Value(k)' = Value(k)
      /\ Shorthands' = Shorthands /\ Accepted' = Accepted /\ Profiles' = Profiles
      /\ Phases' = Phases /\ Loop' = Loop
      /\ \A p : Warnings(p)' = Warnings(p)
  BY <1>1, SameConfiguration
<1>3. /\ \A k : /\ FromPreset(k)' = FromPreset(k) /\ FromFile(k)' = FromFile(k)
                /\ FromInline(k)' = FromInline(k) /\ Applied(k)' = Applied(k)
      /\ FlagsParse' = FlagsParse
  BY <1>1, SameSources
<1>4. Read'
  BY <1>1, <1>2, <1>3 DEF IInv, Read
<1>5. Result'
  BY <1>1, <1>2 DEF IInv, Result
<1>6. TypeOK' /\ Addresses'
  BY <1>1 DEF IInv, TypeOK, Addresses, Reading
<1>. QED  BY <1>2, <1>4, <1>5, <1>6 DEF IInv

\* The invariant holds, whatever the sources: at every place of Load() and
\* Compile() a key has what the sources so far have given it.
THEOREM Invariant == Spec => []IInv
<1>1. IInv /\ [Next]_vars => IInv'
  <2>. SUFFICES ASSUME IInv, [Next]_vars PROVE IInv'
    OBVIOUS
  <2>1. CASE LoadPreset
    BY <2>1, DocumentInv DEF LoadPreset
  <2>2. CASE LoadFile
    BY <2>2, DocumentInv DEF LoadFile
  <2>3. CASE LoadInline
    BY <2>3, DocumentInv DEF LoadInline
  <2>4. CASE Apply
    BY <2>4, ApplyInv
  <2>5. CASE Compile
    BY <2>5, CompileInv
  <2>6. CASE Reject
    BY <2>6, RejectInv
  <2>7. CASE UNCHANGED vars
    BY <2>7, StutterInv
  <2>. QED  BY <2>1, <2>2, <2>3, <2>4, <2>5, <2>6, <2>7 DEF Next
<1>. QED  BY InitInv, <1>1, PTL DEF Spec

(***************************************************************************)
(* The strongest source.                                                   *)
(***************************************************************************)

\* Strongest() is the rank of a source that gives one of the keys, if there is
\* one, and no stronger source gives any.
LEMMA StrongestIs ==
  ASSUME NEW keys
  PROVE  /\ Strongest(keys) \in 0 .. 6
         /\ Strongest(keys) # 0 => \E k \in keys : Gives(Order[Strongest(keys)], k)
         /\ \A r \in 1 .. 6 : r > Strongest(keys) => \A k \in keys : ~Gives(Order[r], k)
<1>. DEFINE T == {0} \cup {r \in DOMAIN Order : \E k \in keys : Gives(Order[r], k)}
<1>1. DOMAIN Order = 1 .. 6
  BY DEF Order
<1>2. T \in SUBSET Nat /\ T # {} /\ \A r \in T : r <= 6
  BY <1>1
<1>3. \A r : r \in T <=> r = 0 \/ (r \in 1 .. 6 /\ \E k \in keys : Gives(Order[r], k))
  BY <1>1
<1>4. Strongest(keys) = Max(T)
  BY DEF Strongest
<1>. HIDE DEF T
<1>5. Max(T) \in T /\ \A r \in T : r <= Max(T)
  BY <1>2, MaxIsGreatest
<1>. QED  BY <1>3, <1>4, <1>5

\* The sources by their ranks.
LEMMA ByRank ==
  ASSUME NEW k
  PROVE  /\ Gives(Order[1], k) <=> k \in BoolKeys \cup {"loop", "jitter"}
         /\ Gives(Order[2], k) <=> k \in DOMAIN src.preset
         /\ Gives(Order[3], k) <=> k \in DOMAIN src.file
         /\ Gives(Order[4], k) <=> k \in DOMAIN src.inline
         /\ Gives(Order[5], k) <=> k \in DOMAIN src.env /\ k \notin DOMAIN src.flag
         /\ Gives(Order[6], k) <=> k \in DOMAIN src.flag /\ src.flag[k] \notin {Empty, Blank}
  BY DEF Gives, Order

\* Of a variable or a flag: a key has a value unless neither gives it one, but
\* for phases that a flag leaves blank.
LEMMA HasByRank ==
  ASSUME src \in Sources, NEW k
  PROVE  /\ Gives(Order[6], k) => Has(k) /\ Overridden(k) = src.flag[k]
         /\ Gives(Order[5], k) => Has(k) /\ Overridden(k) = src.env[k]
         /\ ~Gives(Order[5], k) /\ ~Gives(Order[6], k) =>
              ~Has(k) \/ (k = "phases" /\ Overridden(k) = Blank)
<1>1. /\ \A j \in DOMAIN src.env : src.env[j] \notin {Empty, Blank}
      /\ \A j \in DOMAIN src.flag \ {"phases"} : src.flag[j] # Blank
  BY SourcesAssumption DEF SourcesAssumption
<1>. QED  BY <1>1, ByRank DEF Has, Overridden

\* A key that a document gives has its value from the strongest document.
LEMMA DocumentsByRank ==
  ASSUME NEW k
  PROVE  /\ Gives(Order[4], k) => FromInline(k) = src.inline[k]
         /\ ~Gives(Order[4], k) /\ Gives(Order[3], k) => FromInline(k) = src.file[k]
         /\ ~Gives(Order[4], k) /\ ~Gives(Order[3], k) /\ Gives(Order[2], k) =>
              FromInline(k) = src.preset[k]
         /\ ~Gives(Order[4], k) /\ ~Gives(Order[3], k) /\ ~Gives(Order[2], k) =>
              FromInline(k) = Default(k)
  BY ByRank DEF FromInline, FromFile, FromPreset, Over

\* What the strongest source gives one key.
LEMMA GivenIs ==
  ASSUME src \in Sources, NEW k, Strongest({k}) # 0
  PROVE  /\ Strongest({k}) \in {5, 6} => Has(k) /\ Given(k) = Overridden(k)
         /\ Strongest({k}) \in 1 .. 4 =>
              /\ ~Has(k) \/ (k = "phases" /\ Overridden(k) = Blank)
              /\ Given(k) = FromInline(k)
<1>. DEFINE r == Strongest({k})
<1>1. r \in 1 .. 6 /\ Gives(Order[r], k) /\ \A q \in 1 .. 6 : q > r => ~Gives(Order[q], k)
  BY StrongestIs
<1>2. Given(k) = IF Order[r] # "default" THEN src[Order[r]][k] ELSE Default(k)
  BY DEF Given, Default, BoolKeys
<1>. HIDE DEF r
<1>3. CASE r = 6
  BY <1>1, <1>2, <1>3, HasByRank DEF Order, r
<1>4. CASE r = 5
  BY <1>1, <1>2, <1>4, HasByRank DEF Order, r
<1>5. CASE r \in 1 .. 4
  <2>1. ~Has(k) \/ (k = "phases" /\ Overridden(k) = Blank)
    BY <1>1, <1>5, HasByRank
  <2>2. r = 4 => Given(k) = FromInline(k)
    BY <1>1, <1>2, DocumentsByRank DEF Order
  <2>3. r = 3 => Given(k) = FromInline(k)
    BY <1>1, <1>2, DocumentsByRank DEF Order
  <2>4. r = 2 => Given(k) = FromInline(k)
    BY <1>1, <1>2, DocumentsByRank DEF Order
  <2>5. r = 1 => Given(k) = FromInline(k)
    BY <1>1, <1>2, DocumentsByRank DEF Order
  <2>6. Given(k) = FromInline(k)
    BY <1>5, <2>2, <2>3, <2>4, <2>5
  <2>. QED  BY <1>5, <2>1, <2>6 DEF r
<1>. QED  BY <1>1, <1>3, <1>4, <1>5 DEF r

\* A key that is neither a shorthand nor phases has what it was given.
LEMMA LayeredInv == IInv => Layered
<1>. SUFFICES ASSUME IInv, pc = "running" PROVE
       /\ \A k \in BoolKeys : compiled.optional[k] = Given(k)
       /\ \A k \in {"loop", "jitter"} : plain[k] = Given(k)
  BY DEF Layered
<1>1. ASSUME NEW k \in BoolKeys \cup {"loop", "jitter"} PROVE Value(k) = Given(k)
  <2>1. k \in Keys /\ ~Cleared(k) /\ k # "phases"
    BY DEF BoolKeys, Keys, PlainKeys, Cleared, Kinds
  <2>2. Value(k) = Applied(k)
    BY <2>1 DEF IInv, Read
  <2>3. Strongest({k}) \in 1 .. 6
    BY StrongestIs, ByRank
  <2>4. src \in Sources
    BY DEF IInv, TypeOK
  <2>5. Applied(k) = Given(k)
    BY <2>1, <2>3, <2>4, GivenIs DEF Applied
  <2>. QED  BY <2>2, <2>5
<1>2. ASSUME NEW k \in BoolKeys PROVE compiled.optional[k] = Given(k)
  <2>1. compiled.optional = [j \in BoolKeys |-> heap[ptr[j]]]
    BY DEF IInv, Result
  <2>. QED  BY <1>1, <2>1 DEF Value
<1>3. ASSUME NEW k \in {"loop", "jitter"} PROVE plain[k] = Given(k)
  BY <1>1 DEF Value, BoolKeys
<1>. QED  BY <1>2, <1>3

\* For any sources: each optional boolean, loop and jitter have the value of the
\* strongest source that sets them, and no source changes an option that it does
\* not set, although documents are decoded through shared pointers.
THEOREM LayeredCorrect == Spec => []Layered
  BY Invariant, LayeredInv, PTL

(***************************************************************************)
(* Phases or a shorthand.                                                  *)
(***************************************************************************)

\* The chunks of a text that are not blank are chunks.
LEMMA ChunksType ==
  ASSUME NEW S, NEW text \in Seq(Seq(S))
  PROVE  NotBlank(text) \in Seq(Seq(S))
<1>. DEFINE part(i) == IF text[i] = <<>> THEN <<>> ELSE <<text[i]>>
            parts == [i \in DOMAIN text |-> part(i)]
<1>1. parts \in Seq(Seq(Seq(S)))
  <2>1. DOMAIN text = 1 .. Len(text) /\ Len(text) \in Nat
    BY LenProperties
  <2>2. ASSUME NEW i \in 1 .. Len(text) PROVE part(i) \in Seq(Seq(S))
    <3>1. text[i] \in Seq(S)
      BY <2>1, ElementOfSeq
    <3>2. <<>> \in Seq(Seq(S)) /\ <<text[i]>> \in Seq(Seq(S))
      BY <3>1, EmptySeq
    <3>. QED  BY <3>2
  <2>. HIDE DEF part
  <2>. QED  BY <2>1, <2>2
<1>2. NotBlank(text) = FlattenSeq(parts)
  BY DEF NotBlank
<1>. HIDE DEF parts
<1>. QED  BY <1>1, <1>2, FlattenPlaces

\* A list of phases that was parsed from a text that is not blank has phases.
LEMMA TextHasPhases ==
  ASSUME NEW S, NEW text \in Seq(Seq(S)) \ {<<>>}, ParsePhaseDSL(text) # {}
  PROVE  Parsed(ParsePhaseDSL(text)) # <<>>
<1>. DEFINE chunks == NotBlank(text)
            specs == [i \in DOMAIN chunks |-> Parsed(ParsePhaseChunk(chunks[i]))]
<1>1. chunks \in Seq(Seq(S))
  BY ChunksType
<1>2. chunks # <<>> /\ ParsePhaseDSL(text) = {specs}
  BY DEF ParsePhaseDSL
<1>3. Parsed({specs}) = specs
  BY DEF Parsed
<1>. HIDE DEF chunks
<1>4. Len(chunks) # 0 /\ Len(chunks) \in Nat /\ DOMAIN chunks = 1 .. Len(chunks)
  BY <1>1, <1>2, EmptySeq
<1>5. DOMAIN specs = DOMAIN chunks
  OBVIOUS
<1>. HIDE DEF specs
<1>6. 1 \in DOMAIN specs
  BY <1>4, <1>5
<1>. QED  BY <1>2, <1>3, <1>6

\* An empty text is no shorthand.
LEMMA UnsetSaysNothing == ~Says(Unset) /\ IsZero(Segment(Unset))
<1>1. ParseSegmentShorthand(Unset) = {NoSegment} /\ IsZero(NoSegment)
  BY ParserAssumption DEF ParserAssumption, Unset, NoSegment, IsZero
<1>. QED  BY <1>1 DEF Says, Segment, Parsed

\* The phases that Compile() finds are a list of a document or the text.
LEMMA PhasesSet ==
  ASSUME IInv, pc \in {"compile", "running"}
  PROVE  /\ \A k \in PlainKeys : plain[k] = Applied(k)
         /\ plain["phases"] \in DOMAIN Lists \cup {"text", Blank, Unset}
         /\ plain["phases"] = "text" => ParsePhaseDSL(src.text) # {}
         /\ src.text \in Seq(Seq([key : STRING, value : STRING])) \ {<<>>}
<1>1. src \in Sources /\ FlagsParse /\ \A k \in Keys : Value(k) = Applied(k)
  BY DEF IInv, TypeOK, Read
<1>2. ASSUME NEW k \in PlainKeys PROVE plain[k] = Applied(k)
  BY <1>1 DEF Value, PlainKeys, BoolKeys, Keys
<1>3. plain["phases"] = Applied("phases")
  BY <1>2 DEF PlainKeys
<1>4. Overridden("phases") \in {"text", Blank, Empty}
  BY <1>1, OverriddenSays
<1>5. FromInline("phases") \in DOMAIN Lists \cup {Unset}
  <2>1. \A l \in {"preset", "file", "inline"} :
          "phases" \in DOMAIN src[l] => src[l]["phases"] \in DOMAIN Lists
    BY <1>1, SourcesAssumption DEF SourcesAssumption
  <2>. QED  BY <2>1 DEF FromInline, FromFile, FromPreset, Over, Default, BoolKeys
<1>6. plain["phases"] \in DOMAIN Lists \cup {"text", Blank, Unset}
  BY <1>3, <1>4, <1>5 DEF Applied, Has
<1>7. ASSUME plain["phases"] = "text" PROVE ParsePhaseDSL(src.text) # {}
  <2>1. "text" \notin DOMAIN Lists \cup {Unset}
    BY ListsAssumption DEF ListsAssumption, Unset
  <2>2. Has("phases") /\ Overridden("phases") = "text"
    BY <1>3, <1>5, <1>7, <2>1 DEF Applied
  <2>. QED  BY <1>1, <2>2 DEF FlagsParse, Blank
<1>8. src.text \in Seq(Seq([key : STRING, value : STRING])) \ {<<>>}
  BY <1>1, SourcesAssumption DEF SourcesAssumption
<1>. QED  BY <1>2, <1>6, <1>7, <1>8

\* What Compile() looks at: there is a shorthand if a target is set, and there
\* are phases if they are set and not blank.
LEMMA Configured ==
  ASSUME IInv, pc \in {"compile", "running"}
  PROVE  /\ Shorthand <=> \E k \in Kinds : plain[k] # Unset
         /\ Listed <=> plain["phases"] \notin {Unset, Blank}
         /\ \A k \in PlainKeys : plain[k] = Applied(k)
<1>1. ASSUME NEW k \in Kinds PROVE IsZero(Segment(plain[k])) <=> plain[k] = Unset
  <2>1. CASE plain[k] = Unset
    BY <2>1, UnsetSaysNothing
  <2>2. CASE plain[k] # Unset
    <3>1. Says(plain[k]) /\ ParseSegmentShorthand(plain[k]) # {}
      BY <2>2 DEF IInv, Shorthands
    <3>2. Segment(plain[k]) \in ParseSegmentShorthand(plain[k])
      BY <3>1 DEF Segment, Parsed
    <3>. QED  BY <2>2, <3>1, <3>2 DEF Says
  <2>. QED  BY <2>1, <2>2
<1>2. Listed <=> plain["phases"] \notin {Unset, Blank}
  <2>1. plain["phases"] \in {Unset, Blank} => SpecsOf(plain["phases"]) = <<>>
    BY DEF SpecsOf, Unset, Blank
  <2>2. ASSUME plain["phases"] = "text" PROVE SpecsOf(plain["phases"]) # <<>>
    BY <2>2, PhasesSet, TextHasPhases DEF SpecsOf, Unset, Blank
  <2>3. ASSUME plain["phases"] \in DOMAIN Lists PROVE SpecsOf(plain["phases"]) # <<>>
    BY <2>3, ListsAssumption DEF ListsAssumption, SpecsOf
  <2>. QED  BY <2>1, <2>2, <2>3, PhasesSet DEF Listed
<1>. QED  BY <1>1, <1>2, PhasesSet DEF Shorthand

\* A target that a source gives is set, unless phases replace it.
LEMMA ShorthandGiven ==
  ASSUME src \in Sources, NEW k \in Kinds
  PROVE  /\ FromInline(k) = Unset <=> \A r \in 2 .. 4 : ~Gives(Order[r], k)
         /\ (Gives(Order[5], k) \/ Gives(Order[6], k)) <=> Has(k)
         /\ Has(k) => Overridden(k) # Unset
<1>1. \A l \in {"preset", "file", "inline"} : k \in DOMAIN src[l] => src[l][k] # Unset
  BY SourcesAssumption, UnsetSaysNothing DEF SourcesAssumption
<1>2. Default(k) = Unset /\ k # "phases"
  BY DEF Default, Kinds, BoolKeys
<1>3. FromInline(k) = Unset <=> ~Gives(Order[2], k) /\ ~Gives(Order[3], k) /\ ~Gives(Order[4], k)
  BY <1>1, <1>2, ByRank, DocumentsByRank
<1>4. (\A r \in 2 .. 4 : ~Gives(Order[r], k)) <=>
        ~Gives(Order[2], k) /\ ~Gives(Order[3], k) /\ ~Gives(Order[4], k)
  OBVIOUS
<1>5. Has(k) => Overridden(k) # Unset
  BY OverriddenSays, UnsetSaysNothing
<1>6. (Gives(Order[5], k) \/ Gives(Order[6], k)) <=> Has(k)
  BY <1>2, HasByRank
<1>. QED  BY <1>3, <1>4, <1>5, <1>6

\* The places where either runs: a shorthand replaces weaker phases, or warns
\* that it does not; one of apply() replaces those of documents; and phases
\* replace a shorthand that is not stronger.
LEMMA StrongestInv == IInv => StrongestRuns
<1>. DEFINE shorthand == Strongest({"cpu", "memory"})
            phases == Strongest({"phases"})
<1>. SUFFICES ASSUME IInv, pc = "running"
              PROVE  /\ shorthand > phases =>
                          \/ compiled.phases = "shorthand"
                          \/ "shorthand ignored" \in compiled.warnings
                     /\ shorthand > 4 /\ phases <= 4 => compiled.phases = "shorthand"
                     /\ phases >= shorthand => compiled.phases = Given("phases")
  BY DEF StrongestRuns
<1>1. src \in Sources
  BY DEF IInv, TypeOK
<1>2. /\ Shorthand <=> \E k \in Kinds : plain[k] # Unset
      /\ Listed <=> plain["phases"] \notin {Unset, Blank}
      /\ plain["phases"] = Applied("phases")
      /\ \A k \in Kinds : plain[k] = Applied(k)
  <2>1. \A k \in PlainKeys : plain[k] = Applied(k)
    BY Configured
  <2>. QED  BY <2>1, Configured DEF PlainKeys, Kinds
<1>3. /\ compiled.phases = IF Listed THEN plain["phases"] ELSE "shorthand"
      /\ Listed /\ Shorthand => "shorthand ignored" \in compiled.warnings
      /\ Listed \/ Shorthand
  <2>1. PICK p \in Profiles : /\ compiled.phases = Phases
                              /\ compiled.warnings = Warnings(p)
    BY DEF IInv, Result
  <2>2. Listed /\ Shorthand => "shorthand ignored" \in Warnings(p)
    BY DEF Warnings
  <2>3. Phases = IF Listed THEN plain["phases"] ELSE "shorthand"
    BY DEF Phases
  <2>4. Listed \/ Shorthand
    BY DEF IInv, Result, Accepted
  <2>. QED  BY <2>1, <2>2, <2>3, <2>4
<1>4. /\ shorthand \in 0 .. 6
      /\ shorthand # 0 => \E k \in Kinds : Gives(Order[shorthand], k)
      /\ \A r \in 1 .. 6 : r > shorthand => \A k \in Kinds : ~Gives(Order[r], k)
  BY StrongestIs DEF Kinds
<1>5. /\ phases \in 0 .. 6
      /\ \A r \in 1 .. 6 : r > phases => ~Gives(Order[r], "phases")
      /\ phases # 0 => Gives(Order[phases], "phases")
  BY StrongestIs
<1>6. ~Gives(Order[1], "phases") /\ \A k \in Kinds : ~Gives(Order[1], k)
  BY ByRank DEF BoolKeys, Kinds
<1>7. \A k \in Kinds : /\ FromInline(k) = Unset <=> \A r \in 2 .. 4 : ~Gives(Order[r], k)
                       /\ (Gives(Order[5], k) \/ Gives(Order[6], k)) <=> Has(k)
                       /\ Has(k) => Overridden(k) # Unset
  BY <1>1, ShorthandGiven
<1>8. /\ phases \in {5, 6} => Has("phases") /\ Given("phases") = Overridden("phases")
      /\ phases \in 1 .. 4 => /\ ~Has("phases") \/ Overridden("phases") = Blank
                              /\ Given("phases") = FromInline("phases")
      /\ phases = 0 => ~Has("phases") \/ Overridden("phases") = Blank
  <2>1. phases = 0 => ~Has("phases") \/ Overridden("phases") = Blank
    BY <1>1, <1>5, HasByRank
  <2>. QED  BY <1>1, <2>1, GivenIs
<1>. HIDE DEF shorthand, phases
<1>9. shorthand > 4 <=> \E k \in Kinds : Has(k)
  BY <1>4, <1>7
<1>10. phases <= 4 /\ Has("phases") => ~Listed
  BY <1>2, <1>5, <1>8 DEF Applied
<1>11. shorthand > 4 /\ phases <= 4 => ~Listed
  <2>1. shorthand > 4 => Cleared("phases")
    BY <1>9 DEF Cleared, Kinds
  <2>. QED  BY <1>2, <1>10, <2>1 DEF Applied
<1>12. ASSUME shorthand > phases, Listed PROVE Shorthand
  <2>1. PICK k \in Kinds : Gives(Order[shorthand], k)
    BY <1>4, <1>5, <1>12
  <2>2. CASE shorthand > 4
    <3>1. Has(k)
      <4>1. shorthand = 5 \/ shorthand = 6
        BY <1>4, <2>2
      <4>. QED  BY <1>7, <2>1, <4>1
    <3>. QED  BY <1>2, <1>7, <3>1 DEF Applied
  <2>3. CASE shorthand <= 4
    <3>1. ~Has("phases") /\ ~Has(k)
      BY <1>4, <1>5, <1>9, <1>10, <1>12, <2>3
    <3>2. shorthand \in 2 .. 4
      BY <1>4, <1>5, <1>6, <1>12, <2>1, <2>3
    <3>3. FromInline(k) # Unset
      BY <1>7, <2>1, <3>2
    <3>4. ~Cleared(k)
      BY <3>1 DEF Cleared, Kinds
    <3>. QED  BY <1>2, <3>1, <3>3, <3>4 DEF Applied
  <2>. QED  BY <1>4, <2>2, <2>3
<1>13. ASSUME phases >= shorthand
       PROVE  Listed /\ plain["phases"] = Given("phases")
  <2>1. CASE phases \in {5, 6}
    <3>1. plain["phases"] = Overridden("phases") /\ Has("phases")
      BY <1>2, <1>8, <2>1 DEF Applied
    <3>2. Overridden("phases") = "text"
      <4>1. Overridden("phases") \in {"text", Blank, Empty}
        BY <1>1, OverriddenSays
      <4>2. Overridden("phases") # Blank
        <5>1. phases = 6 => src.flag["phases"] # Blank
          BY <1>5, ByRank
        <5>2. phases = 5 => src.env["phases"] # Blank
          <6>1. \A k \in DOMAIN src.env : src.env[k] \notin {Empty, Blank}
            BY <1>1, SourcesAssumption DEF SourcesAssumption
          <6>. QED  BY <1>5, <6>1, ByRank
        <5>. QED  BY <1>1, <1>5, <2>1, <5>1, <5>2, HasByRank
      <4>. QED  BY <3>1, <4>1, <4>2 DEF Has
    <3>. QED  BY <1>2, <1>8, <2>1, <3>1, <3>2 DEF Unset, Blank
  <2>2. CASE phases \notin {5, 6}
    <3>1. phases <= 4 /\ shorthand <= 4
      BY <1>4, <1>5, <1>13, <2>2
    <3>2. \A k \in Kinds : ~Has(k)
      BY <1>4, <1>9, <3>1
    <3>3. ~Cleared("phases")
      BY <3>2 DEF Cleared, Kinds
    <3>4. CASE Has("phases")
      <4>1. ~Listed
        BY <1>10, <3>1, <3>4
      <4>2. \A k \in Kinds : plain[k] = Unset
        BY <1>2, <3>2, <3>4 DEF Applied, Cleared
      <4>. QED  BY <1>2, <1>3, <4>1, <4>2
    <3>5. CASE ~Has("phases")
      <4>1. plain["phases"] = FromInline("phases")
        BY <1>2, <3>3, <3>5 DEF Applied
      <4>2. CASE phases = 0
        <5>1. shorthand = 0
          BY <1>4, <1>13, <4>2
        <5>2. \A k \in Kinds : FromInline(k) = Unset
          BY <1>4, <1>7, <5>1
        <5>3. \A k \in Kinds : plain[k] = Unset
          BY <1>2, <3>2, <5>2 DEF Applied
        <5>4. FromInline("phases") = Unset
          <6>1. FromInline("phases") = Default("phases")
            BY <1>5, <4>2, DocumentsByRank
          <6>. QED  BY <6>1 DEF Default, BoolKeys
        <5>. QED  BY <1>2, <1>3, <4>1, <5>3, <5>4
      <4>3. CASE phases # 0
        <5>1. phases \in 2 .. 4
          BY <1>5, <1>6, <3>1, <4>3
        <5>2. FromInline("phases") \in DOMAIN Lists
          <6>1. \A l \in {"preset", "file", "inline"} :
                  "phases" \in DOMAIN src[l] => src[l]["phases"] \in DOMAIN Lists
            BY <1>1, SourcesAssumption DEF SourcesAssumption
          <6>2. Gives(Order[2], "phases") \/ Gives(Order[3], "phases")
                  \/ Gives(Order[4], "phases")
            BY <1>5, <4>3, <5>1
          <6>. QED  BY <6>1, <6>2, ByRank DEF FromInline, FromFile, FromPreset, Over
        <5>3. FromInline("phases") \notin {Unset, Blank}
          BY <5>2, ListsAssumption DEF ListsAssumption
        <5>. QED  BY <1>2, <1>8, <4>1, <5>1, <5>3
      <4>. QED  BY <4>2, <4>3
    <3>. QED  BY <3>4, <3>5
  <2>. QED  BY <2>1, <2>2
<1>. QED  BY <1>3, <1>11, <1>12, <1>13

\* For any sources: the strongest one decides between phases and a shorthand,
\* or the run says that it does not.
THEOREM StrongestCorrect == Spec => []StrongestRuns
  BY Invariant, StrongestInv, PTL

(***************************************************************************)
(* The types of phases, however they are written.                          *)
(***************************************************************************)

\* Each field of the compact syntax leaves a phase one.
LEMMA ReadFieldType ==
  ASSUME NEW spec, IsPhaseSpec(spec), NEW i, NEW f, NEW read \in ReadField(spec, i, f)
  PROVE  IsPhaseSpec(read)
<1>1. /\ DOMAIN spec = {"name", "duration", "cpu", "memory", "jitter", "repeat"}
      /\ spec.duration \in Int /\ spec.repeat \in Int
      /\ \A r : IsPhaseSpec(r) <=> /\ DOMAIN r = DOMAIN spec
                                   /\ r.duration \in Int /\ r.repeat \in Int
  BY DEF IsPhaseSpec, NoPhase
<1>2. /\ \A text \in DOMAIN DurationOf : DurationOf[text] \in Int
      /\ \A text \in DOMAIN CountOf : CountOf[text] \in Int
  BY ParserAssumption DEF ParserAssumption
<1>3. CASE f.key = ""
  <2>1. read \in Positional(spec, i, f.value)
    BY <1>3 DEF ReadField, Kinds
  <2>. QED  BY <1>1, <1>2, <2>1 DEF Positional
<1>4. CASE f.key = "name"
  <2>1. read = [spec EXCEPT !.name = f.value]
    BY <1>4 DEF ReadField, Kinds
  <2>. QED  BY <1>1, <2>1
<1>5. CASE f.key = "duration"
  <2>1. PICK d \in Parse(DurationOf, f.value) : read = [spec EXCEPT !.duration = d]
    BY <1>5 DEF ReadField, Kinds
  <2>. QED  BY <1>1, <1>2, <2>1 DEF Parse
<1>6. CASE f.key = "repeat"
  <2>1. PICK n \in Parse(CountOf, f.value) : read = [spec EXCEPT !.repeat = n]
    BY <1>6 DEF ReadField, Kinds
  <2>. QED  BY <1>1, <1>2, <2>1 DEF Parse
<1>7. CASE f.key = "jitter"
  <2>1. read = Jittered(spec, f.value)
    BY <1>7 DEF ReadField, Kinds
  <2>. DEFINE cpu == [spec.cpu EXCEPT !.jitter = f.value]
              memory == [spec.memory EXCEPT !.jitter = f.value]
  <2>2. Jittered(spec, f.value) = [[spec EXCEPT !.cpu = cpu] EXCEPT !.memory = memory]
    BY <1>1 DEF Jittered
  <2>. HIDE DEF cpu, memory
  <2>. QED  BY <1>1, <2>1, <2>2
<1>8. CASE f.key \in Kinds
  <2>1. PICK seg : read = [spec EXCEPT ![f.key] = seg]
    BY <1>8 DEF ReadField, Kinds
  <2>. QED  BY <1>1, <1>8, <2>1 DEF Kinds
<1>9. f.key \in {"", "name", "duration", "repeat", "jitter"} \cup Kinds
  BY DEF ReadField
<1>. QED  BY <1>3, <1>4, <1>5, <1>6, <1>7, <1>8, <1>9

\* A chunk is read field by field, from the first to the last.
LEMMA ChunkFold ==
  ASSUME NEW S, NEW chunk \in Seq(S)
  PROVE  \E after :
           /\ after[0] = {NoPhase} /\ after[Len(chunk)] = ParsePhaseChunk(chunk)
           /\ \A i \in 0 .. Len(chunk) - 1 :
                after[i + 1] = UNION {ReadField(q, i + 1, chunk[i + 1]) : q \in after[i]}
<1>. DEFINE index == [i \in DOMAIN chunk |-> i]
            n == Len(chunk)
            body(read, s) ==
              IF s = {} THEN {NoPhase}
              ELSE UNION {ReadField(q, index[Max(s)], chunk[index[Max(s)]]) :
                            q \in read[s \ {Max(s)}]}
            P(read, t) == read = [s \in SUBSET t |-> body(read, s)]
            Q(read, k) == DOMAIN read = SUBSET (1 .. k)
                          /\ \A s \in SUBSET (1 .. k) : read[s] = body(read, s)
<1>1. n \in Nat /\ DOMAIN index = 1 .. n
  BY LenProperties
<1>2. ParsePhaseChunk(chunk) = (CHOOSE read : P(read, DOMAIN index))[DOMAIN index]
  BY DEF ParsePhaseChunk, FoldLeftDomain, FoldLeft, MapThenFoldSet
<1>3. ASSUME NEW k \in Nat, NEW s \in SUBSET (1 .. k), s # {}
      PROVE  Max(s) \in s /\ \A i \in s : i <= Max(s)
  <2>1. s \in SUBSET Nat /\ \A i \in s : i <= k
    BY <1>3
  <2>. QED  BY <1>3, <2>1, MaxIsGreatest
<1>4. \A k \in Nat : \E read : Q(read, k)
  <2>. DEFINE T == {k \in Nat : \E read : Q(read, k)}
  <2>1. 0 \in T
    <3>. DEFINE read == [s \in SUBSET (1 .. 0) |-> {NoPhase}]
    <3>1. \A s \in SUBSET (1 .. 0) : s = {}
      OBVIOUS
    <3>2. Q(read, 0)
      BY <3>1
    <3>. HIDE DEF Q, read
    <3>. QED  BY <3>2
  <2>2. ASSUME NEW k \in Nat, k \in T PROVE k + 1 \in T
    <3>1. PICK read : Q(read, k)
      BY <2>2
    <3>. DEFINE next == [s \in SUBSET (1 .. k + 1) |->
                           IF k + 1 \in s THEN body(read, s) ELSE read[s]]
    <3>2. \A s \in SUBSET (1 .. k) : s \in SUBSET (1 .. k + 1) /\ k + 1 \notin s
      OBVIOUS
    <3>3. \A s \in SUBSET (1 .. k) : next[s] = read[s]
      <4>. HIDE DEF body
      <4>. QED  BY <3>2
    <3>4. ASSUME NEW s \in SUBSET (1 .. k + 1) PROVE next[s] = body(next, s)
      <4>1. next[s] = IF k + 1 \in s THEN body(read, s) ELSE read[s]
        BY Zenon
      <4>2. s # {} => Max(s) \in s /\ s \ {Max(s)} \in SUBSET (1 .. k)
        <5>1. k + 1 \in Nat
          OBVIOUS
        <5>2. SUFFICES ASSUME s # {} PROVE Max(s) \in s /\ s \ {Max(s)} \in SUBSET (1 .. k)
          OBVIOUS
        <5>3. Max(s) \in s /\ \A i \in s : i <= Max(s)
          BY <1>3, <5>1, <5>2
        <5>4. ASSUME NEW i \in s, i # Max(s) PROVE i \in 1 .. k
          <6>1. i \in 1 .. k + 1 /\ Max(s) \in 1 .. k + 1 /\ i <= Max(s)
            BY <5>3
          <6>. QED  BY <5>4, <6>1
        <5>. QED  BY <5>3, <5>4
      <4>3. s # {} => next[s \ {Max(s)}] = read[s \ {Max(s)}]
        BY <3>3, <4>2
      <4>. HIDE DEF next
      <4>4. body(next, s) = body(read, s)
        BY <4>3
      <4>5. k + 1 \notin s => read[s] = body(read, s)
        <5>1. k + 1 \notin s => s \in SUBSET (1 .. k)
          OBVIOUS
        <5>. HIDE DEF body
        <5>. QED  BY <3>1, <5>1
      <4>. HIDE DEF body
      <4>. QED  BY <4>1, <4>4, <4>5
    <3>5. DOMAIN next = SUBSET (1 .. k + 1)
      OBVIOUS
    <3>. HIDE DEF next, body
    <3>6. Q(next, k + 1)
      BY <3>4, <3>5
    <3>. HIDE DEF Q
    <3>. QED  BY <3>6
  <2>. HIDE DEF T
  <2>3. Nat \subseteq T
    BY <2>1, <2>2, SetInduction
  <2>. HIDE DEF Q
  <2>. QED  BY <2>3 DEF T
<1>5. \E read : P(read, 1 .. n)
  <2>1. PICK read : Q(read, n)
    <3>. HIDE DEF Q
    <3>. QED  BY <1>1, <1>4
  <2>. DEFINE copy == [s \in SUBSET (1 .. n) |-> read[s]]
  <2>. HIDE DEF body
  <2>2. \A s \in SUBSET (1 .. n) : copy[s] = read[s] /\ copy[s \ {Max(s)}] = read[s \ {Max(s)}]
    OBVIOUS
  <2>3. ASSUME NEW s \in SUBSET (1 .. n) PROVE body(copy, s) = body(read, s)
    <3>. HIDE DEF copy
    <3>. QED  BY <2>2 DEF body
  <2>4. P(copy, 1 .. n)
    BY <2>1, <2>3
  <2>. HIDE DEF P, copy
  <2>. QED  BY <2>4
<1>. DEFINE read == CHOOSE r : P(r, 1 .. n)
<1>6. P(read, 1 .. n)
  <2>. HIDE DEF P
  <2>. QED  BY <1>5
<1>7. ParsePhaseChunk(chunk) = read[1 .. n]
  <2>. HIDE DEF P
  <2>. QED  BY <1>1, <1>2
<1>. HIDE DEF read
<1>8. \A s \in SUBSET (1 .. n) : read[s] = body(read, s)
  <2>. HIDE DEF body
  <2>. QED  BY <1>6
<1>9. read[1 .. 0] = {NoPhase}
  <2>1. 1 .. 0 = {} /\ {} \in SUBSET (1 .. n)
    OBVIOUS
  <2>. QED  BY <1>8, <2>1
<1>10. ASSUME NEW i \in 0 .. n - 1
       PROVE  read[1 .. i + 1] = UNION {ReadField(q, i + 1, chunk[i + 1]) : q \in read[1 .. i]}
  <2>. DEFINE s == 1 .. i + 1
  <2>1. i \in Nat /\ i + 1 \in Nat /\ i + 1 \in 1 .. n
    BY <1>1
  <2>2. s \in SUBSET (1 .. n) /\ s # {} /\ s \in SUBSET (1 .. i + 1) /\ i + 1 \in s
    <3>1. n \in Nat
      BY <1>1
    <3>. HIDE DEF n
    <3>2. i + 1 \in s /\ \A j \in s : j \in 1 .. n
      BY <2>1, <3>1
    <3>. QED  BY <3>2
  <2>3. Max(s) \in s /\ \A j \in s : j <= Max(s)
    <3>. HIDE DEF s
    <3>. QED  BY <1>3, <2>1, <2>2
  <2>4. Max(s) = i + 1 /\ s \ {Max(s)} = 1 .. i
    BY <2>1, <2>3
  <2>5. index[i + 1] = i + 1
    BY <1>1, <2>1
  <2>. HIDE DEF s, index
  <2>6. read[s] = UNION {ReadField(q, index[Max(s)], chunk[index[Max(s)]]) :
                            q \in read[s \ {Max(s)}]}
    BY <1>8, <2>2
  <2>7. ASSUME NEW q
        PROVE  q \in read[s] <=> \E b \in read[1 .. i] : q \in ReadField(b, i + 1, chunk[i + 1])
    BY <2>4, <2>5, <2>6
  <2>. QED  BY <2>7 DEF s
<1>. HIDE DEF body, P, Q, index
<1>. DEFINE after == [k \in 0 .. n |-> read[1 .. k]]
<1>11. after[0] = read[1 .. 0] /\ after[n] = read[1 .. n]
       /\ \A i \in 0 .. n - 1 : after[i] = read[1 .. i] /\ after[i + 1] = read[1 .. i + 1]
  <2>1. n \in Nat
    BY <1>1
  <2>. HIDE DEF n
  <2>. QED  BY <2>1
<1>. HIDE DEF after
<1>12. after[0] = {NoPhase} /\ after[n] = ParsePhaseChunk(chunk)
  BY <1>7, <1>9, <1>11
<1>13. ASSUME NEW i \in 0 .. n - 1
       PROVE  after[i + 1] = UNION {ReadField(q, i + 1, chunk[i + 1]) : q \in after[i]}
  <2>1. after[i] = read[1 .. i] /\ after[i + 1] = read[1 .. i + 1]
    BY <1>11
  <2>. QED  BY <1>10, <2>1
<1>. QED  BY <1>12, <1>13

\* Each field that is read leaves a phase a phase.
LEMMA ChunkType ==
  ASSUME NEW S, NEW chunk \in Seq(S), NEW spec \in ParsePhaseChunk(chunk)
  PROVE  IsPhaseSpec(spec)
<1>. DEFINE n == Len(chunk)
<1>1. PICK after :
        /\ after[0] = {NoPhase} /\ after[n] = ParsePhaseChunk(chunk)
        /\ \A i \in 0 .. n - 1 :
             after[i + 1] = UNION {ReadField(q, i + 1, chunk[i + 1]) : q \in after[i]}
  BY ChunkFold
<1>. DEFINE T == {i \in Nat : i <= n => \A q \in after[i] : IsPhaseSpec(q)}
<1>2. n \in Nat
  BY LenProperties
<1>. HIDE DEF n
<1>3. 0 \in T
  <2>1. IsPhaseSpec(NoPhase)
    BY DEF IsPhaseSpec, NoPhase
  <2>. QED  BY <1>1, <2>1
<1>4. ASSUME NEW i \in Nat, i \in T PROVE i + 1 \in T
  <2>1. SUFFICES ASSUME i + 1 <= n, NEW q \in after[i + 1] PROVE IsPhaseSpec(q)
    OBVIOUS
  <2>2. i \in 0 .. n - 1
    BY <1>2, <2>1
  <2>3. after[i + 1] = UNION {ReadField(p, i + 1, chunk[i + 1]) : p \in after[i]}
    BY <1>1, <2>2
  <2>4. PICK before \in after[i] : q \in ReadField(before, i + 1, chunk[i + 1])
    BY <2>1, <2>3
  <2>. QED  BY <1>2, <1>4, <2>2, <2>4, ReadFieldType
<1>. HIDE DEF T
<1>5. n \in T
  BY <1>2, <1>3, <1>4, SetInduction
<1>. QED  BY <1>1, <1>5 DEF T

\* The compact syntax is a list of phases.
LEMMA TextType ==
  ASSUME NEW S, NEW text \in Seq(Seq(S)), ParsePhaseDSL(text) # {}
  PROVE  LET specs == Parsed(ParsePhaseDSL(text))
         IN specs \in Seq(Range(specs)) /\ \A i \in 1 .. Len(specs) : IsPhaseSpec(specs[i])
<1>. DEFINE chunks == NotBlank(text)
            specs == [i \in DOMAIN chunks |-> Parsed(ParsePhaseChunk(chunks[i]))]
<1>1. CASE text = <<>>
  <2>1. Parsed(ParsePhaseDSL(text)) = <<>>
    BY <1>1 DEF ParsePhaseDSL, Parsed
  <2>. QED  BY <2>1, EmptySeq
<1>2. CASE text # <<>>
  <2>1. chunks \in Seq(Seq(S))
    BY ChunksType
  <2>2. ParsePhaseDSL(text) = {specs} /\ \A c \in Range(chunks) : ParsePhaseChunk(c) # {}
    BY <1>2 DEF ParsePhaseDSL
  <2>3. Parsed(ParsePhaseDSL(text)) = specs
    BY <2>2 DEF Parsed
  <2>. HIDE DEF chunks
  <2>4. DOMAIN chunks = 1 .. Len(chunks) /\ Len(chunks) \in Nat
    BY <2>1, LenProperties
  <2>5. ASSUME NEW i \in 1 .. Len(chunks) PROVE IsPhaseSpec(specs[i])
    <3>1. chunks[i] \in Seq(S) /\ chunks[i] \in Range(chunks)
      BY <2>1, <2>4, ElementOfSeq DEF Range
    <3>2. specs[i] \in ParsePhaseChunk(chunks[i])
      BY <2>2, <2>4, <3>1 DEF Parsed
    <3>. QED  BY <3>1, <3>2, ChunkType
  <2>6. specs \in Seq(Range(specs)) /\ Len(specs) = Len(chunks)
    <3>1. \A i \in 1 .. Len(chunks) : specs[i] \in Range(specs)
      BY <2>4 DEF Range
    <3>2. specs = [i \in 1 .. Len(chunks) |-> specs[i]]
      BY <2>4
    <3>. HIDE DEF specs
    <3>. QED  BY <2>4, <3>1, <3>2
  <2>. HIDE DEF specs
  <2>. QED  BY <2>3, <2>5, <2>6
<1>. QED  BY <1>1, <1>2

(***************************************************************************)
(* Playing a profile that was built.                                       *)
(***************************************************************************)

\* The phases of a profile come from the configured ones, in order, and last as
\* long as these.
LEMMA BuiltInOrder ==
  ASSUME NEW S, NEW specs \in Seq(S), \A i \in 1 .. Len(specs) : IsPhaseSpec(specs[i]),
         NEW default, NEW profile \in Build(specs, default)
  PROVE  /\ profile # <<>> /\ Len(profile) \in Nat \ {0}
         /\ DOMAIN profile = 1 .. Len(profile)
         /\ \E place \in [1 .. Len(profile) -> 1 .. Len(specs)] :
              /\ \A m \in 1 .. Len(profile) :
                   /\ profile[m].duration = specs[place[m]].duration
                   /\ profile[m].duration \in Nat
              /\ \A m, o \in 1 .. Len(profile) : m <= o => place[m] <= place[o]
<1>. DEFINE n == Len(specs)
            times(i) == Max({1, specs[i].repeat})
            copies(i) == [r \in 1 .. times(i) |-> BuildPhase(specs[i], i, r, default)]
            all == [i \in DOMAIN specs |-> copies(i)]
            phases == FlattenSeq(all)
            A == {BuildPhase(specs[i], i, r, default) : i \in 1 .. n, r \in Nat}
<1>1. DOMAIN specs = 1 .. n /\ n \in Nat
  BY LenProperties
<1>2. ASSUME NEW i \in 1 .. n
      PROVE  /\ copies(i) \in Seq(A)
             /\ \A r \in 1 .. Len(copies(i)) : copies(i)[r] = BuildPhase(specs[i], i, r, default)
  <2>1. times(i) \in Nat
    <3>1. specs[i].repeat \in Int
      BY DEF IsPhaseSpec
    <3>. QED  BY <3>1, MaxOfTwo
  <2>. HIDE DEF times
  <2>2. \A r \in 1 .. times(i) : BuildPhase(specs[i], i, r, default) \in A
    BY <2>1
  <2>. HIDE DEF A
  <2>. QED  BY <2>1, <2>2
<1>. HIDE DEF copies, A
<1>3. all \in Seq(Seq(A)) /\ Len(all) = n /\ \A i \in 1 .. n : all[i] = copies(i)
  BY <1>1, <1>2
<1>4. /\ Build(specs, default) =
           IF phases = <<>> \/ {} \in Range(phases) THEN {}
           ELSE {[i \in DOMAIN phases |-> Parsed(phases[i])]}
  BY DEF Build, copies
<1>. HIDE DEF all, phases
<1>5. phases \in Seq(A) /\ \E place : ComesFrom(all, phases, place)
  BY <1>3, FlattenPlaces DEF phases
<1>6. DOMAIN phases = 1 .. Len(phases) /\ Len(phases) \in Nat
  BY <1>5, LenProperties
<1>7. /\ phases # <<>> /\ {} \notin Range(phases)
      /\ profile = [i \in DOMAIN phases |-> Parsed(phases[i])]
  BY <1>4
<1>8. Len(profile) = Len(phases) /\ DOMAIN profile = 1 .. Len(profile)
  BY <1>6, <1>7
<1>9. Len(profile) # 0
  BY <1>5, <1>7, <1>8, EmptySeq
<1>10. PICK place : ComesFrom(all, phases, place)
  BY <1>5
<1>11. ASSUME NEW m \in 1 .. Len(profile)
       PROVE  /\ profile[m].duration = specs[place[m]].duration
              /\ profile[m].duration \in Nat
  <2>1. place[m] \in 1 .. n /\ \E r \in 1 .. Len(all[place[m]]) : phases[m] = all[place[m]][r]
    BY <1>3, <1>8, <1>10 DEF ComesFrom
  <2>2. PICK r : phases[m] = BuildPhase(specs[place[m]], place[m], r, default)
    BY <1>2, <1>3, <2>1
  <2>3. profile[m] \in phases[m]
    BY <1>6, <1>7, <1>8 DEF Parsed, Range
  <2>4. specs[place[m]].duration \in Int
    BY <2>1 DEF IsPhaseSpec
  <2>5. /\ profile[m].duration = specs[place[m]].duration
        /\ ~(specs[place[m]].duration < 0)
    BY <2>2, <2>3 DEF BuildPhase
  <2>. QED  BY <2>4, <2>5
<1>12. /\ place \in [1 .. Len(profile) -> 1 .. n]
       /\ \A m, o \in 1 .. Len(profile) : m <= o => place[m] <= place[o]
  BY <1>3, <1>8, <1>10 DEF ComesFrom
<1>13. profile # <<>>
  BY <1>8, <1>9
<1>. QED  BY <1>6, <1>8, <1>9, <1>11, <1>12, <1>13

\* What Compile() builds a profile from is a list of phases.
LEMMA SpecsType ==
  ASSUME IInv, pc = "running"
  PROVE  Specs \in Seq(Range(Specs)) /\ \A i \in 1 .. Len(Specs) : IsPhaseSpec(Specs[i])
<1>1. CASE Listed
  <2>1. Specs = SpecsOf(plain["phases"]) /\ plain["phases"] \notin {Unset, Blank}
    BY <1>1, Configured DEF Specs
  <2>2. CASE plain["phases"] = "text"
    <3>1. Specs = Parsed(ParsePhaseDSL(src.text))
      BY <2>1, <2>2 DEF SpecsOf
    <3>. QED  BY <2>2, <3>1, PhasesSet, TextType
  <2>3. CASE plain["phases"] \in DOMAIN Lists
    <3>1. Specs = Lists[plain["phases"]]
      BY <2>1, <2>3, ListsAssumption DEF SpecsOf, ListsAssumption
    <3>2. /\ Specs \in Seq(Range(Specs))
          /\ \A spec \in Range(Specs) : IsPhaseSpec(spec)
      BY <2>3, <3>1, ListsAssumption DEF ListsAssumption
    <3>3. \A i \in 1 .. Len(Specs) : Specs[i] \in Range(Specs)
      BY <3>2, ElementOfSeq
    <3>. QED  BY <3>2, <3>3
  <2>. QED  BY <2>1, <2>2, <2>3, PhasesSet
<1>2. CASE ~Listed
  <2>. DEFINE spec == [NoPhase EXCEPT !.name = "main", !.cpu = Segment(plain["cpu"]),
                                      !.memory = Segment(plain["memory"])]
  <2>1. Specs = <<spec>>
    BY <1>2 DEF Specs
  <2>2. IsPhaseSpec(spec)
    BY DEF IsPhaseSpec, NoPhase
  <2>. HIDE DEF spec
  <2>3. Len(<<spec>>) = 1 /\ <<spec>>[1] = spec /\ DOMAIN <<spec>> = 1 .. 1
    OBVIOUS
  <2>4. Range(<<spec>>) = {spec}
    BY <2>3 DEF Range
  <2>5. <<spec>> \in Seq({spec})
    OBVIOUS
  <2>6. \A i \in 1 .. Len(<<spec>>) : <<spec>>[i] = spec
    BY <2>3
  <2>. QED  BY <2>1, <2>2, <2>4, <2>5, <2>6
<1>. QED  BY <1>1, <1>2

\* Compile() lets no profile pass that has an end before its end.
LEMMA PlayableInv == IInv => Playable
<1>. SUFFICES ASSUME IInv, pc = "running" PROVE Playable
  BY DEF Playable
<1>. DEFINE d == [i \in DOMAIN compiled.profile |-> compiled.profile[i].duration]
<1>1. PICK p \in Profiles : /\ compiled.profile = p
                            /\ compiled.loop = (Loop /\ ~(OpenEnded(p) /\ Len(p) = 1))
  BY DEF IInv, Result
<1>2. /\ \A i \in 1 .. Len(Specs) - 1 : Specs[i].duration > 0
      /\ Loop /\ OpenEnded(p) => Len(p) = 1
  BY DEF IInv, Result, Accepted
<1>3. PICK j : p \in Build(Specs, j)
  BY DEF Profiles
<1>4. Specs \in Seq(Range(Specs)) /\ \A i \in 1 .. Len(Specs) : IsPhaseSpec(Specs[i])
  BY SpecsType
<1>5. Len(Specs) \in Nat
  BY <1>4, LenProperties
<1>6. /\ Len(p) \in Nat \ {0} /\ DOMAIN p = 1 .. Len(p)
      /\ \E place \in [1 .. Len(p) -> 1 .. Len(Specs)] :
           /\ \A m \in 1 .. Len(p) : /\ p[m].duration = Specs[place[m]].duration
                                     /\ p[m].duration \in Nat
           /\ \A m, o \in 1 .. Len(p) : m <= o => place[m] <= place[o]
  BY <1>3, <1>4, BuiltInOrder
<1>7. PICK place \in [1 .. Len(p) -> 1 .. Len(Specs)] :
        /\ \A m \in 1 .. Len(p) : /\ p[m].duration = Specs[place[m]].duration
                                  /\ p[m].duration \in Nat
        /\ \A m, o \in 1 .. Len(p) : m <= o => place[m] <= place[o]
  BY <1>6
<1>8. DOMAIN d = 1 .. Len(p) /\ Len(d) = Len(p) /\ \A i \in 1 .. Len(p) : d[i] = p[i].duration
  BY <1>1, <1>6
<1>. HIDE DEF d
<1>9. \A i \in DOMAIN d : d[i] \in Nat
  BY <1>7, <1>8
<1>10. ASSUME NEW i \in DOMAIN d, d[i] = 0, NEW m \in i .. Len(d) PROVE d[m] = 0
  <2>1. i \in 1 .. Len(p) /\ m \in 1 .. Len(p) /\ i <= m
    BY <1>6, <1>8, <1>10
  <2>2. place[i] \in 1 .. Len(Specs) /\ place[m] \in 1 .. Len(Specs) /\ place[i] <= place[m]
    BY <1>7, <2>1
  <2>3. ~(Specs[place[i]].duration > 0)
    <3>1. Specs[place[i]].duration = 0
      BY <1>7, <1>8, <1>10, <2>1
    <3>. QED  BY <3>1
  <2>4. place[i] = Len(Specs)
    BY <1>2, <1>5, <2>2, <2>3
  <2>5. place[m] = place[i]
    BY <1>5, <2>2, <2>4
  <2>. QED  BY <1>7, <1>8, <1>10, <2>1, <2>5
<1>11. compiled.loop => Last(d) > 0
  <2>1. Last(d) = d[Len(p)] /\ d[Len(p)] = Last(p).duration /\ Last(d) \in Nat
    BY <1>6, <1>8, <1>9 DEF Last
  <2>2. compiled.loop => ~OpenEnded(p)
    BY <1>1, <1>2
  <2>. QED  BY <2>1, <2>2 DEF OpenEnded
<1>12. \A i \in DOMAIN d : d[i] >= 0
  BY <1>9
<1>. QED  BY <1>10, <1>11, <1>12 DEF Playable, d

\* For any sources: a profile that is accepted can be played to its end, and a
\* loop comes round, in whatever syntax the phases were written.
THEOREM PlayableCorrect == Spec => []Playable
  BY Invariant, PlayableInv, PTL

(***************************************************************************)
(* The compact syntax and the mapping it spells out.                       *)
(***************************************************************************)

\* What the last of the places up to k tells, or that none is there.
Tells(places, k, none, told, said) ==
  \/ (\A i \in places : i > k) /\ said = none
  \/ \E m \in places : /\ m <= k /\ said = told[m]
                       /\ \A i \in places : i <= k => i <= m

\* A field more is one of the places, or tells nothing.
LEMMA TellsNext ==
  ASSUME NEW n \in Nat, NEW places \in SUBSET (1 .. n), NEW k \in Nat,
         NEW none, NEW told, NEW said, Tells(places, k, none, told, said)
  PROVE  /\ k + 1 \in places => Tells(places, k + 1, none, told, told[k + 1])
         /\ k + 1 \notin places => Tells(places, k + 1, none, told, said)
<1>1. \A i \in places : i \in Nat
  OBVIOUS
<1>2. ASSUME k + 1 \in places PROVE Tells(places, k + 1, none, told, told[k + 1])
  BY <1>1, <1>2 DEF Tells
<1>3. ASSUME k + 1 \notin places PROVE Tells(places, k + 1, none, told, said)
  <2>1. \A i \in places : i # k + 1
    BY <1>3
  <2>2. \A i \in places : i <= k + 1 <=> i <= k
    BY <1>1, <2>1
  <2>3. CASE (\A i \in places : i > k) /\ said = none
    BY <1>1, <2>1, <2>3 DEF Tells
  <2>4. CASE \E m \in places : /\ m <= k /\ said = told[m]
                               /\ \A i \in places : i <= k => i <= m
    BY <2>2, <2>4 DEF Tells
  <2>. QED  BY <2>3, <2>4 DEF Tells
<1>. QED  BY <1>2, <1>3

\* Nothing is told before the first field.
LEMMA TellsNothing ==
  ASSUME NEW n \in Nat, NEW places \in SUBSET (1 .. n), NEW none, NEW told
  PROVE  /\ Tells(places, 0, none, told, none)
         /\ \A said : Tells(places, 0, none, told, said) => said = none
<1>1. \A i \in places : i \in Nat /\ i > 0
  OBVIOUS
<1>. QED  BY <1>1 DEF Tells

\* In the end it is what the last of the places tells, if there is one.
LastTold(chunk, places, none, told, said) ==
  \/ said = none /\ LastSaid(chunk, places) = "" /\ places = {}
  \/ \E m \in places : said = told[m] /\ LastSaid(chunk, places) = chunk[m].value

LEMMA TellsLast ==
  ASSUME NEW n \in Nat, NEW places \in SUBSET (1 .. n),
         NEW none, NEW told, NEW said, Tells(places, n, none, told, said), NEW chunk
  PROVE  LastTold(chunk, places, none, told, said)
<1>. DEFINE last == Max(places)
<1>1. \A i \in places : i \in Nat /\ i <= n /\ ~(i > n)
  OBVIOUS
<1>2. LastSaid(chunk, places) = IF places = {} THEN "" ELSE chunk[last].value
  BY DEF LastSaid
<1>3. CASE places = {}
  BY <1>2, <1>3 DEF Tells, LastTold
<1>4. CASE places # {}
  <2>1. places \in SUBSET Nat
    BY <1>1
  <2>2. last \in places /\ \A i \in places : i <= last
    BY <1>1, <1>4, <2>1, MaxIsGreatest
  <2>. HIDE DEF last
  <2>3. PICK m \in places : said = told[m] /\ \A i \in places : i <= m
    BY <1>1, <1>4 DEF Tells
  <2>4. m = last
    BY <1>1, <2>2, <2>3
  <2>. QED  BY <1>2, <1>4, <2>3, <2>4 DEF LastTold
<1>. QED  BY <1>3, <1>4

\* A positional field is the duration or the name, or says nothing.
LEMMA PositionalRead ==
  ASSUME NEW spec, NEW i, NEW f, f.key = "", NEW read \in ReadField(spec, i, f)
  PROVE  \/ f.value = "" /\ read = spec
         \/ /\ IsDuration(f) /\ spec.duration = 0
            /\ read = [spec EXCEPT !.duration = DurationOf[f.value]]
         \/ /\ i = 1 /\ f.value # "" /\ spec.name = ""
            /\ read = [spec EXCEPT !.name = f.value]
            /\ spec.duration = 0 => ~IsDuration(f)
<1>1. read \in Positional(spec, i, f.value)
  BY DEF ReadField, Kinds
<1>2. IsDuration(f) <=> f.value \in DOMAIN DurationOf /\ f.value # ""
  BY DEF IsDuration
<1>. QED  BY <1>1, <1>2 DEF Positional

\* A segment that can be parsed has no jitter, and is the one of its text.
LEMMA SegmentRead ==
  ASSUME NEW text, NEW seg \in ParseSegmentShorthand(text)
  PROVE  /\ seg = Segment(text) /\ "jitter" \in DOMAIN seg /\ seg.jitter = ""
         /\ \A jitter, next : [[seg EXCEPT !.jitter = jitter] EXCEPT !.jitter = next]
                                = [seg EXCEPT !.jitter = next]
         /\ [seg EXCEPT !.jitter = ""] = seg
<1>. DEFINE parts == Segments[text]
            ds == IF parts.curve \in DOMAIN CurveOf THEN Parse(DurationOf, parts.period) ELSE {}
            of(d) == [from |-> parts.ends[1], to |-> Last(parts.ends), curve |-> parts.curve,
                      period |-> d, duty |-> 0, jitter |-> ""]
<1>1. ParseSegmentShorthand(text) = {of(d) : d \in ds}
  BY DEF ParseSegmentShorthand
<1>2. PICK d \in ds : seg = of(d)
  <2>. HIDE DEF of, ds
  <2>. QED  BY <1>1
<1>3. \A e \in ds : e = d
  BY DEF Parse
<1>. HIDE DEF ds
<1>4. \A other \in ParseSegmentShorthand(text) : other = seg
  <2>. HIDE DEF of
  <2>. QED  BY <1>1, <1>2, <1>3
<1>5. seg = Segment(text)
  BY <1>4 DEF Segment, Parsed
<1>6. seg.jitter = "" /\ "jitter" \in DOMAIN seg
  BY <1>2
<1>7. seg = [x \in DOMAIN seg |-> seg[x]]
  BY <1>2
<1>. HIDE DEF of
<1>8. ASSUME NEW jitter, NEW next
      PROVE  [[seg EXCEPT !.jitter = jitter] EXCEPT !.jitter = next]
               = [seg EXCEPT !.jitter = next]
  BY <1>6
<1>9. [seg EXCEPT !.jitter = ""] = seg
  BY <1>6, <1>7
<1>. QED  BY <1>5, <1>6, <1>8, <1>9

\* Whether a field, the i-th one of its chunk, names the phase.
IsName(i, f) == f.key = "name" \/ (f.key = "" /\ i = 1 /\ ~IsDuration(f))

\* What one field changes: the one thing that it says something about.
Changed(spec, i, f, read) ==
  /\ read.jitter = spec.jitter
  /\ read.name = IF IsName(i, f) THEN f.value ELSE spec.name
  /\ read.duration = IF IsDuration(f) THEN DurationOf[f.value] ELSE spec.duration
  /\ read.repeat = IF f.key = "repeat" THEN CountOf[f.value] ELSE spec.repeat
  /\ \A kind \in Kinds :
       /\ f.key = kind => read[kind] \in ParseSegmentShorthand(f.value)
       /\ f.key = "jitter" => read[kind] = [spec[kind] EXCEPT !.jitter = f.value]
       /\ f.key \notin {kind, "jitter"} => read[kind] = spec[kind]
  /\ f.key = "" /\ IsDuration(f) => spec.duration = 0

LEMMA FieldRead ==
  ASSUME NEW spec, IsPhaseSpec(spec), NEW i, NEW f, NEW read \in ReadField(spec, i, f),
         i = 1 => spec.name = "" /\ spec.duration = 0
  PROVE  Changed(spec, i, f, read)
<1>1. DOMAIN spec = {"name", "duration", "cpu", "memory", "jitter", "repeat"}
  BY DEF IsPhaseSpec, NoPhase
<1>2. CASE f.key = ""
  <2>1. CASE f.value = "" /\ read = spec
    <3>1. ~IsDuration(f)
      BY <1>2, <2>1 DEF IsDuration
    <3>. QED  BY <1>2, <2>1, <3>1 DEF Changed, IsName, Kinds
  <2>2. CASE /\ IsDuration(f) /\ spec.duration = 0
             /\ read = [spec EXCEPT !.duration = DurationOf[f.value]]
    BY <1>1, <1>2, <2>2 DEF Changed, IsName, Kinds
  <2>3. CASE /\ i = 1 /\ f.value # "" /\ spec.name = ""
             /\ read = [spec EXCEPT !.name = f.value]
             /\ spec.duration = 0 => ~IsDuration(f)
    BY <1>1, <1>2, <2>3 DEF Changed, IsName, Kinds
  <2>. QED  BY <1>2, <2>1, <2>2, <2>3, PositionalRead
<1>3. CASE f.key = "name"
  <2>1. read = [spec EXCEPT !.name = f.value]
    BY <1>3 DEF ReadField, Kinds
  <2>2. IsName(i, f) /\ ~IsDuration(f)
    BY <1>3 DEF IsName, IsDuration
  <2>. QED  BY <1>1, <1>3, <2>1, <2>2 DEF Changed, Kinds
<1>4. CASE f.key = "duration"
  <2>1. PICK d \in Parse(DurationOf, f.value) : read = [spec EXCEPT !.duration = d]
    BY <1>4 DEF ReadField, Kinds
  <2>2. ~IsName(i, f) /\ IsDuration(f) /\ d = DurationOf[f.value]
    BY <1>4, <2>1 DEF IsName, IsDuration, Parse
  <2>. QED  BY <1>1, <1>4, <2>1, <2>2 DEF Changed, Kinds
<1>5. CASE f.key = "repeat"
  <2>1. PICK n \in Parse(CountOf, f.value) : read = [spec EXCEPT !.repeat = n]
    BY <1>5 DEF ReadField, Kinds
  <2>2. ~IsName(i, f) /\ ~IsDuration(f) /\ n = CountOf[f.value]
    BY <1>5, <2>1 DEF IsName, IsDuration, Parse
  <2>. QED  BY <1>1, <1>5, <2>1, <2>2 DEF Changed, Kinds
<1>6. CASE f.key = "jitter"
  <2>. DEFINE cpu == [spec.cpu EXCEPT !.jitter = f.value]
              memory == [spec.memory EXCEPT !.jitter = f.value]
  <2>1. read = [[spec EXCEPT !.cpu = cpu] EXCEPT !.memory = memory]
    <3>1. read = Jittered(spec, f.value)
      BY <1>6 DEF ReadField, Kinds
    <3>. QED  BY <1>1, <3>1 DEF Jittered
  <2>2. ~IsName(i, f) /\ ~IsDuration(f)
    BY <1>6 DEF IsName, IsDuration
  <2>3. read.cpu = cpu /\ read.memory = memory
    <3>. HIDE DEF cpu, memory
    <3>. QED  BY <1>1, <2>1
  <2>4. /\ read.jitter = spec.jitter /\ read.name = spec.name
        /\ read.duration = spec.duration /\ read.repeat = spec.repeat
    <3>. HIDE DEF cpu, memory
    <3>. QED  BY <1>1, <2>1
  <2>. QED  BY <1>6, <2>2, <2>3, <2>4 DEF Changed, Kinds
<1>7. CASE f.key \in Kinds
  <2>1. PICK seg \in ParseSegmentShorthand(f.value) : read = [spec EXCEPT ![f.key] = seg]
    BY <1>7 DEF ReadField, Kinds
  <2>2. ~IsName(i, f) /\ ~IsDuration(f)
    BY <1>7 DEF IsName, IsDuration, Kinds
  <2>3. CASE f.key = "cpu"
    BY <1>1, <2>1, <2>2, <2>3 DEF Changed, Kinds
  <2>4. CASE f.key = "memory"
    BY <1>1, <2>1, <2>2, <2>4 DEF Changed, Kinds
  <2>. QED  BY <1>7, <2>3, <2>4 DEF Kinds
<1>8. f.key \in {"", "name", "duration", "repeat", "jitter"} \cup Kinds
  BY DEF ReadField
<1>. QED  BY <1>2, <1>3, <1>4, <1>5, <1>6, <1>7, <1>8

\* What the fields tell, by their places.
Values(chunk)  == [i \in DOMAIN chunk |-> chunk[i].value]
Lengths(chunk) == [i \in DOMAIN chunk |-> DurationOf[chunk[i].value]]
Counts(chunk)  == [i \in DOMAIN chunk |-> CountOf[chunk[i].value]]
Targets(chunk) == [i \in DOMAIN chunk |-> Segment(chunk[i].value)]

\* The target of one resource after k fields.
TargetRead(chunk, k, kind, spec) ==
  \E seg, jitter, text :
    /\ Tells(With(chunk, kind), k, NoSegment, Targets(chunk), seg)
    /\ Tells(With(chunk, "jitter"), k, "", Values(chunk), jitter)
    /\ seg \in ParseSegmentShorthand(text)
    /\ spec[kind] = [seg EXCEPT !.jitter = jitter]

\* A bare duration replaces none but zero.
NoneDropped(chunk, k) ==
  (\A i \in With(chunk, "duration") : i > k) =>
    \A i, j \in Bare(chunk) : i < j /\ j <= k => Lengths(chunk)[i] = 0

\* What a phase is after k fields of its chunk.
Means(chunk, k, spec) ==
  /\ IsPhaseSpec(spec) /\ spec.jitter = ""
  /\ Tells(Named(chunk), k, "", Values(chunk), spec.name)
  /\ Tells(Durations(chunk), k, 0, Lengths(chunk), spec.duration)
  /\ Tells(With(chunk, "repeat"), k, 0, Counts(chunk), spec.repeat)
  /\ ~JitterOverwritten(chunk) => \A kind \in Kinds : TargetRead(chunk, k, kind, spec)
  /\ NoneDropped(chunk, k)

\* The fields that say something are fields.
LEMMA Places ==
  ASSUME NEW S, NEW chunk \in Seq(S)
  PROVE  /\ Len(chunk) \in Nat /\ DOMAIN chunk = 1 .. Len(chunk)
         /\ Named(chunk) \in SUBSET (1 .. Len(chunk))
         /\ Durations(chunk) \in SUBSET (1 .. Len(chunk))
         /\ \A key : With(chunk, key) \in SUBSET (1 .. Len(chunk))
         /\ \A i \in DOMAIN chunk :
              /\ i \in Named(chunk) <=> IsName(i, chunk[i])
              /\ i \in Durations(chunk) <=> IsDuration(chunk[i])
              /\ \A key : i \in With(chunk, key) <=> chunk[i].key = key
              /\ i \in Bare(chunk) <=> chunk[i].key = "" /\ IsDuration(chunk[i])
<1>1. Len(chunk) \in Nat /\ DOMAIN chunk = 1 .. Len(chunk)
  BY LenProperties
<1>2. \A key : With(chunk, key) \in SUBSET DOMAIN chunk
  BY DEF With
<1>3. Named(chunk) \in SUBSET DOMAIN chunk /\ Durations(chunk) \in SUBSET DOMAIN chunk
  BY DEF Named, Durations, With
<1>4. ASSUME NEW i \in DOMAIN chunk
      PROVE  /\ i \in Durations(chunk) <=> IsDuration(chunk[i])
             /\ \A key : i \in With(chunk, key) <=> chunk[i].key = key
  BY DEF Durations, With
<1>5. ASSUME NEW i \in DOMAIN chunk
      PROVE  /\ i \in Named(chunk) <=> IsName(i, chunk[i])
             /\ i \in Bare(chunk) <=> chunk[i].key = "" /\ IsDuration(chunk[i])
  BY <1>4 DEF Named, Bare, IsName
<1>. QED  BY <1>1, <1>2, <1>3, <1>4, <1>5

\* Before the first field it is nothing.
LEMMA MeansNothing ==
  ASSUME NEW S, NEW chunk \in Seq(S)
  PROVE  Means(chunk, 0, NoPhase)
<1>. DEFINE n == Len(chunk)
<1>1. n \in Nat /\ Named(chunk) \in SUBSET (1 .. n) /\ Durations(chunk) \in SUBSET (1 .. n)
      /\ \A key : With(chunk, key) \in SUBSET (1 .. n)
  BY Places
<1>. HIDE DEF n
<1>2. /\ IsPhaseSpec(NoPhase) /\ NoPhase.jitter = "" /\ NoPhase.name = ""
      /\ NoPhase.duration = 0 /\ NoPhase.repeat = 0
      /\ \A kind \in Kinds : NoPhase[kind] = NoSegment
  BY DEF IsPhaseSpec, NoPhase, Kinds
<1>3. ASSUME NEW kind \in Kinds PROVE TargetRead(chunk, 0, kind, NoPhase)
  <2>1. NoSegment \in ParseSegmentShorthand("")
    BY ParserAssumption DEF ParserAssumption
  <2>2. [NoSegment EXCEPT !.jitter = ""] = NoSegment
    BY <2>1, SegmentRead
  <2>3. /\ Tells(With(chunk, kind), 0, NoSegment, Targets(chunk), NoSegment)
        /\ Tells(With(chunk, "jitter"), 0, "", Values(chunk), "")
    BY <1>1, TellsNothing
  <2>4. NoPhase[kind] = [NoSegment EXCEPT !.jitter = ""]
    BY <1>2, <2>2
  <2>. QED  BY <2>1, <2>3, <2>4 DEF TargetRead
<1>4. NoneDropped(chunk, 0)
  <2>1. \A j \in Bare(chunk) : j \in 1 .. n
    BY <1>1 DEF Bare
  <2>2. \A j \in Bare(chunk) : ~(j <= 0)
    BY <2>1
  <2>. QED  BY <2>2 DEF NoneDropped
<1>5. /\ Tells(Named(chunk), 0, "", Values(chunk), "")
      /\ Tells(Durations(chunk), 0, 0, Lengths(chunk), 0)
      /\ Tells(With(chunk, "repeat"), 0, 0, Counts(chunk), 0)
  BY <1>1, TellsNothing
<1>. QED  BY <1>2, <1>3, <1>4, <1>5 DEF Means

\* A field more adds what it says to one thing, and leaves the others.
LEMMA MeansNext ==
  ASSUME NEW S, NEW chunk \in Seq(S), NEW k \in 0 .. Len(chunk) - 1,
         NEW spec, Means(chunk, k, spec), NEW read \in ReadField(spec, k + 1, chunk[k + 1])
  PROVE  Means(chunk, k + 1, read)
<1>. DEFINE n == Len(chunk)
            f == chunk[k + 1]
<1>1. /\ n \in Nat /\ DOMAIN chunk = 1 .. n
      /\ Named(chunk) \in SUBSET (1 .. n) /\ Durations(chunk) \in SUBSET (1 .. n)
      /\ \A key : With(chunk, key) \in SUBSET (1 .. n)
      /\ \A i \in DOMAIN chunk :
           /\ i \in Named(chunk) <=> IsName(i, chunk[i])
           /\ i \in Durations(chunk) <=> IsDuration(chunk[i])
           /\ \A key : i \in With(chunk, key) <=> chunk[i].key = key
           /\ i \in Bare(chunk) <=> chunk[i].key = "" /\ IsDuration(chunk[i])
  BY Places
<1>2. k \in Nat /\ k + 1 \in DOMAIN chunk
  <2>1. n \in Nat /\ k \in 0 .. n - 1
    BY <1>1
  <2>. HIDE DEF n
  <2>2. k \in Nat /\ k + 1 \in 1 .. n
    BY <2>1
  <2>. QED  BY <1>1, <2>2
<1>3. /\ k + 1 \in Named(chunk) <=> IsName(k + 1, f)
      /\ k + 1 \in Durations(chunk) <=> IsDuration(f)
      /\ \A key : k + 1 \in With(chunk, key) <=> f.key = key
      /\ k + 1 \in Bare(chunk) <=> f.key = "" /\ IsDuration(f)
      /\ Values(chunk)[k + 1] = f.value /\ Lengths(chunk)[k + 1] = DurationOf[f.value]
      /\ Counts(chunk)[k + 1] = CountOf[f.value] /\ Targets(chunk)[k + 1] = Segment(f.value)
  BY <1>1, <1>2 DEF Values, Lengths, Counts, Targets
<1>. HIDE DEF n, f
<1>4. /\ IsPhaseSpec(spec) /\ spec.jitter = ""
      /\ Tells(Named(chunk), k, "", Values(chunk), spec.name)
      /\ Tells(Durations(chunk), k, 0, Lengths(chunk), spec.duration)
      /\ Tells(With(chunk, "repeat"), k, 0, Counts(chunk), spec.repeat)
      /\ ~JitterOverwritten(chunk) => \A kind \in Kinds : TargetRead(chunk, k, kind, spec)
      /\ NoneDropped(chunk, k)
  BY DEF Means
<1>5. k + 1 = 1 => spec.name = "" /\ spec.duration = 0
  <2>1. ASSUME k = 0 PROVE spec.name = "" /\ spec.duration = 0
    <3>1. /\ Tells(Named(chunk), 0, "", Values(chunk), spec.name)
          /\ Tells(Durations(chunk), 0, 0, Lengths(chunk), spec.duration)
      BY <1>4, <2>1
    <3>. QED  BY <1>1, <3>1, TellsNothing
  <2>2. k + 1 = 1 => k = 0
    BY <1>2
  <2>. QED  BY <2>1, <2>2
<1>6. Changed(spec, k + 1, f, read)
  <2>. DEFINE i == k + 1
  <2>1. /\ IsPhaseSpec(spec) /\ read \in ReadField(spec, i, f)
        /\ i = 1 => spec.name = "" /\ spec.duration = 0
    BY <1>4, <1>5 DEF f
  <2>. HIDE DEF i
  <2>2. Changed(spec, i, f, read)
    BY <2>1, FieldRead
  <2>. QED  BY <2>2 DEF i
<1>7. IsPhaseSpec(read)
  BY <1>4, ReadFieldType
<1>8. Tells(Named(chunk), k + 1, "", Values(chunk), read.name)
  <2>1. /\ k + 1 \in Named(chunk) =>
             Tells(Named(chunk), k + 1, "", Values(chunk), Values(chunk)[k + 1])
        /\ k + 1 \notin Named(chunk) =>
             Tells(Named(chunk), k + 1, "", Values(chunk), spec.name)
    BY <1>1, <1>2, <1>4, TellsNext
  <2>. QED  BY <1>3, <1>6, <2>1 DEF Changed
<1>9. Tells(Durations(chunk), k + 1, 0, Lengths(chunk), read.duration)
  <2>1. /\ k + 1 \in Durations(chunk) =>
             Tells(Durations(chunk), k + 1, 0, Lengths(chunk), Lengths(chunk)[k + 1])
        /\ k + 1 \notin Durations(chunk) =>
             Tells(Durations(chunk), k + 1, 0, Lengths(chunk), spec.duration)
    BY <1>1, <1>2, <1>4, TellsNext
  <2>. QED  BY <1>3, <1>6, <2>1 DEF Changed
<1>10. Tells(With(chunk, "repeat"), k + 1, 0, Counts(chunk), read.repeat)
  <2>. DEFINE places == With(chunk, "repeat")
  <2>1. places \in SUBSET (1 .. n) /\ Tells(places, k, 0, Counts(chunk), spec.repeat)
        /\ (k + 1 \in places <=> f.key = "repeat")
    BY <1>1, <1>3, <1>4
  <2>. HIDE DEF places
  <2>2. /\ k + 1 \in places => Tells(places, k + 1, 0, Counts(chunk), Counts(chunk)[k + 1])
        /\ k + 1 \notin places => Tells(places, k + 1, 0, Counts(chunk), spec.repeat)
    BY <1>1, <1>2, <2>1, TellsNext
  <2>3. Tells(places, k + 1, 0, Counts(chunk), read.repeat)
    BY <1>3, <1>6, <2>1, <2>2 DEF Changed
  <2>. QED  BY <2>3 DEF places
<1>11. ASSUME ~JitterOverwritten(chunk), NEW kind \in Kinds
       PROVE  TargetRead(chunk, k + 1, kind, read)
  <2>. DEFINE targets == With(chunk, kind)
              jitters == With(chunk, "jitter")
  <2>1. PICK seg, jitter, text :
          /\ Tells(targets, k, NoSegment, Targets(chunk), seg)
          /\ Tells(jitters, k, "", Values(chunk), jitter)
          /\ seg \in ParseSegmentShorthand(text)
          /\ spec[kind] = [seg EXCEPT !.jitter = jitter]
    BY <1>4, <1>11 DEF TargetRead
  <2>2. /\ targets \in SUBSET (1 .. n) /\ jitters \in SUBSET (1 .. n)
        /\ k + 1 \in targets <=> f.key = kind
        /\ k + 1 \in jitters <=> f.key = "jitter"
        /\ f.key = "jitter" => f.key # kind
    <3>1. "jitter" # kind
      BY DEF Kinds
    <3>. QED  BY <1>1, <1>3, <3>1
  <2>3. ASSUME f.key = kind, NEW i \in jitters PROVE i > k
    <3>1. i \in DOMAIN chunk /\ i \in 1 .. n /\ chunk[i].key = "jitter"
      BY <1>1, <2>2
    <3>2. ~(i < k + 1)
      BY <1>2, <1>11, <2>3, <3>1 DEF JitterOverwritten, f
    <3>3. i # k + 1
      BY <2>2, <2>3
    <3>. QED  BY <1>2, <3>1, <3>2, <3>3
  <2>. HIDE DEF targets, jitters
  <2>4. /\ k + 1 \in targets =>
             Tells(targets, k + 1, NoSegment, Targets(chunk), Targets(chunk)[k + 1])
        /\ k + 1 \notin targets => Tells(targets, k + 1, NoSegment, Targets(chunk), seg)
        /\ k + 1 \in jitters => Tells(jitters, k + 1, "", Values(chunk), Values(chunk)[k + 1])
        /\ k + 1 \notin jitters => Tells(jitters, k + 1, "", Values(chunk), jitter)
    BY <1>1, <1>2, <2>1, <2>2, TellsNext
  <2>5. CASE f.key = kind
    <3>1. read[kind] \in ParseSegmentShorthand(f.value)
      BY <1>6, <2>5 DEF Changed
    <3>2. read[kind] = Segment(f.value) /\ read[kind] = [read[kind] EXCEPT !.jitter = ""]
      BY <3>1, SegmentRead
    <3>3. jitter = ""
      <4>1. \A i \in jitters : i \in 1 .. n /\ i > k
        BY <2>2, <2>3, <2>5
      <4>2. \A i \in jitters : ~(i <= k)
        BY <1>2, <4>1
      <4>. QED  BY <2>1, <4>2 DEF Tells
    <3>4. /\ Tells(targets, k + 1, NoSegment, Targets(chunk), read[kind])
          /\ Tells(jitters, k + 1, "", Values(chunk), "")
      BY <1>3, <2>2, <2>4, <2>5, <3>2, <3>3
    <3>. QED  BY <3>1, <3>2, <3>4 DEF TargetRead, targets, jitters
  <2>6. CASE f.key = "jitter"
    <3>1. read[kind] = [[seg EXCEPT !.jitter = jitter] EXCEPT !.jitter = f.value]
      BY <1>6, <2>1, <2>6 DEF Changed
    <3>2. read[kind] = [seg EXCEPT !.jitter = f.value]
      BY <2>1, <3>1, SegmentRead
    <3>3. /\ Tells(targets, k + 1, NoSegment, Targets(chunk), seg)
          /\ Tells(jitters, k + 1, "", Values(chunk), f.value)
      BY <1>3, <2>2, <2>4, <2>6
    <3>. QED  BY <2>1, <3>2, <3>3 DEF TargetRead, targets, jitters
  <2>7. CASE f.key \notin {kind, "jitter"}
    <3>1. read[kind] = spec[kind]
      BY <1>6, <2>7 DEF Changed
    <3>2. /\ Tells(targets, k + 1, NoSegment, Targets(chunk), seg)
          /\ Tells(jitters, k + 1, "", Values(chunk), jitter)
      BY <2>2, <2>4, <2>7
    <3>. QED  BY <2>1, <3>1, <3>2 DEF TargetRead, targets, jitters
  <2>. QED  BY <2>5, <2>6, <2>7
<1>12. NoneDropped(chunk, k + 1)
  <2>1. SUFFICES ASSUME \A i \in With(chunk, "duration") : i > k + 1,
                        NEW i \in Bare(chunk), NEW j \in Bare(chunk), i < j, j <= k + 1
                 PROVE  Lengths(chunk)[i] = 0
    BY DEF NoneDropped
  <2>2. \A m \in With(chunk, "duration") : m \in 1 .. n /\ m > k
    <3>1. With(chunk, "duration") \in SUBSET (1 .. n)
      BY <1>1
    <3>. QED  BY <1>2, <2>1, <3>1
  <2>3. Bare(chunk) \in SUBSET (1 .. n) /\ Bare(chunk) \subseteq Durations(chunk)
    BY <1>1 DEF Bare
  <2>4. \A x, y \in Bare(chunk) : x < y /\ y <= k => Lengths(chunk)[x] = 0
    BY <1>4, <2>2 DEF NoneDropped
  <2>5. CASE j <= k
    BY <2>1, <2>4, <2>5
  <2>6. CASE j = k + 1
    <3>1. spec.duration = 0
      BY <1>3, <1>6, <2>6 DEF Changed
    <3>2. i \in Durations(chunk) /\ i <= k /\ i \in 1 .. n
      BY <1>2, <2>1, <2>3, <2>6
    <3>3. PICK m \in Durations(chunk) :
            /\ m <= k /\ spec.duration = Lengths(chunk)[m]
            /\ \A x \in Durations(chunk) : x <= k => x <= m
      <4>1. i \in Durations(chunk) /\ ~(i > k)
        BY <1>2, <3>2
      <4>. QED  BY <1>4, <4>1 DEF Tells
    <3>4. m \in 1 .. n /\ i <= m
      BY <1>1, <3>2, <3>3
    <3>5. CASE m = i
      BY <3>1, <3>3, <3>5
    <3>6. CASE m # i
      <4>1. chunk[m].key # "duration"
        <5>1. m \notin With(chunk, "duration")
          BY <1>2, <2>2, <3>3, <3>4
        <5>. QED  BY <1>1, <3>4, <5>1
      <4>2. chunk[m].key = "" /\ IsDuration(chunk[m])
        <5>1. IsDuration(chunk[m])
          BY <1>1, <3>3, <3>4
        <5>. QED  BY <4>1, <5>1 DEF IsDuration
      <4>3. m \in Bare(chunk)
        BY <1>1, <3>4, <4>2
      <4>. QED  BY <2>4, <3>3, <3>4, <3>6, <4>3, <3>2
    <3>. QED  BY <3>5, <3>6
  <2>7. j \in 1 .. n
    BY <2>3
  <2>. QED  BY <1>2, <2>1, <2>5, <2>6, <2>7
<1>13. read.jitter = ""
  BY <1>4, <1>6 DEF Changed
<1>. QED  BY <1>13, <1>7, <1>8, <1>9, <1>10, <1>11, <1>12 DEF Means

\* A phase of the compact syntax is what all the fields of its chunk say.
LEMMA MeansChunk ==
  ASSUME NEW S, NEW chunk \in Seq(S), NEW spec \in ParsePhaseChunk(chunk)
  PROVE  Means(chunk, Len(chunk), spec)
<1>. DEFINE n == Len(chunk)
<1>1. PICK after :
        /\ after[0] = {NoPhase} /\ after[n] = ParsePhaseChunk(chunk)
        /\ \A i \in 0 .. n - 1 :
             after[i + 1] = UNION {ReadField(q, i + 1, chunk[i + 1]) : q \in after[i]}
  BY ChunkFold
<1>. DEFINE T == {i \in Nat : i <= n => \A q \in after[i] : Means(chunk, i, q)}
<1>2. n \in Nat
  BY LenProperties
<1>3. 0 \in T
  <2>1. Means(chunk, 0, NoPhase)
    BY MeansNothing
  <2>. QED  BY <1>1, <2>1
<1>4. ASSUME NEW i \in Nat, i \in T PROVE i + 1 \in T
  <2>1. SUFFICES ASSUME i + 1 <= n, NEW q \in after[i + 1] PROVE Means(chunk, i + 1, q)
    OBVIOUS
  <2>2. i \in 0 .. n - 1
    BY <1>2, <2>1
  <2>3. after[i + 1] = UNION {ReadField(p, i + 1, chunk[i + 1]) : p \in after[i]}
    BY <1>1, <2>2
  <2>4. PICK before \in after[i] : q \in ReadField(before, i + 1, chunk[i + 1])
    BY <2>1, <2>3
  <2>5. Means(chunk, i, before)
    BY <1>2, <1>4, <2>2
  <2>. QED  BY <2>2, <2>4, <2>5, MeansNext
<1>. HIDE DEF T
<1>5. n \in T
  BY <1>2, <1>3, <1>4, SetInduction
<1>. QED  BY <1>1, <1>2, <1>5 DEF T

\* The mapping of a chunk makes the same phase, if no segment follows a jitter.
SamePhase(a, b) ==
  /\ a.name = b.name /\ a.duration = b.duration /\ a.repeat = b.repeat
  /\ WithPhaseJitter(a, "cpu") = WithPhaseJitter(b, "cpu")
  /\ WithPhaseJitter(a, "memory") = WithPhaseJitter(b, "memory")

LEMMA ChunkAsYAML ==
  ASSUME NEW S, NEW chunk \in Seq(S), NEW spec \in ParsePhaseChunk(chunk),
         ~JitterOverwritten(chunk)
  PROVE  SamePhase(spec, AsYAML(chunk))
<1>. DEFINE n == Len(chunk)
            yaml == AsYAML(chunk)
            repeats == With(chunk, "repeat")
            jitters == With(chunk, "jitter")
<1>1. /\ n \in Nat /\ DOMAIN chunk = 1 .. n
      /\ Named(chunk) \in SUBSET (1 .. n) /\ Durations(chunk) \in SUBSET (1 .. n)
      /\ repeats \in SUBSET (1 .. n) /\ jitters \in SUBSET (1 .. n)
      /\ \A kind \in Kinds : With(chunk, kind) \in SUBSET (1 .. n)
  BY Places
<1>2. /\ spec.jitter = ""
      /\ Tells(Named(chunk), n, "", Values(chunk), spec.name)
      /\ Tells(Durations(chunk), n, 0, Lengths(chunk), spec.duration)
      /\ Tells(repeats, n, 0, Counts(chunk), spec.repeat)
      /\ \A kind \in Kinds : TargetRead(chunk, n, kind, spec)
  BY MeansChunk DEF Means
<1>3. /\ yaml.name = LastSaid(chunk, Named(chunk))
      /\ yaml.duration = DurationOf[LastSaid(chunk, Durations(chunk))]
      /\ yaml.repeat = IF repeats = {} THEN 0 ELSE CountOf[LastSaid(chunk, repeats)]
      /\ yaml.jitter = LastSaid(chunk, jitters)
      /\ \A kind \in Kinds : yaml[kind] = Segment(LastSaid(chunk, With(chunk, kind)))
  BY DEF AsYAML, Kinds
<1>. HIDE DEF n, yaml, repeats, jitters
<1>4. \A i \in 1 .. n :
        /\ Values(chunk)[i] = chunk[i].value /\ Lengths(chunk)[i] = DurationOf[chunk[i].value]
        /\ Counts(chunk)[i] = CountOf[chunk[i].value]
        /\ Targets(chunk)[i] = Segment(chunk[i].value)
  BY <1>1 DEF Values, Lengths, Counts, Targets
<1>6. spec.name = yaml.name
  <2>1. LastTold(chunk, Named(chunk), "", Values(chunk), spec.name)
    BY <1>1, <1>2, TellsLast
  <2>. QED  BY <1>1, <1>3, <1>4, <2>1 DEF LastTold
<1>7. spec.duration = yaml.duration
  <2>1. LastTold(chunk, Durations(chunk), 0, Lengths(chunk), spec.duration)
    BY <1>1, <1>2, TellsLast
  <2>2. DurationOf[""] = 0
    BY ParserAssumption DEF ParserAssumption
  <2>. QED  BY <1>1, <1>3, <1>4, <2>1, <2>2 DEF LastTold
<1>8. spec.repeat = yaml.repeat
  <2>1. LastTold(chunk, repeats, 0, Counts(chunk), spec.repeat)
    BY <1>1, <1>2, TellsLast
  <2>. QED  BY <1>1, <1>3, <1>4, <2>1 DEF LastTold
<1>9. ASSUME NEW kind \in Kinds PROVE WithPhaseJitter(spec, kind) = WithPhaseJitter(yaml, kind)
  <2>. DEFINE targets == With(chunk, kind)
  <2>1. PICK seg, jitter, text :
          /\ Tells(targets, n, NoSegment, Targets(chunk), seg)
          /\ Tells(jitters, n, "", Values(chunk), jitter)
          /\ seg \in ParseSegmentShorthand(text)
          /\ spec[kind] = [seg EXCEPT !.jitter = jitter]
    BY <1>2 DEF TargetRead, jitters
  <2>2. targets \in SUBSET (1 .. n) /\ yaml[kind] = Segment(LastSaid(chunk, targets))
    BY <1>1, <1>3
  <2>. HIDE DEF targets
  <2>3. yaml[kind] = seg
    <3>1. NoSegment = Segment("")
      BY ParserAssumption, SegmentRead DEF ParserAssumption
    <3>2. LastTold(chunk, targets, NoSegment, Targets(chunk), seg)
      BY <1>1, <2>1, <2>2, TellsLast
    <3>. QED  BY <1>4, <2>2, <3>1, <3>2 DEF LastTold
  <2>4. yaml.jitter = jitter
    <3>1. LastTold(chunk, jitters, "", Values(chunk), jitter)
      BY <1>1, <2>1, TellsLast
    <3>. QED  BY <1>1, <1>3, <1>4, <3>1 DEF LastTold
  <2>5. seg.jitter = "" /\ [seg EXCEPT !.jitter = ""] = seg
    BY <2>1, SegmentRead
  <2>6. spec[kind].jitter = jitter
    <3>1. "jitter" \in DOMAIN seg
      BY <2>1, SegmentRead
    <3>. QED  BY <2>1, <3>1
  <2>7. WithPhaseJitter(yaml, kind) = spec[kind]
    BY <2>1, <2>3, <2>4, <2>5 DEF WithPhaseJitter
  <2>8. WithPhaseJitter(spec, kind) = spec[kind]
    BY <1>2, <2>1, <2>5, <2>6 DEF WithPhaseJitter
  <2>. QED  BY <2>7, <2>8
<1>10. "cpu" \in Kinds /\ "memory" \in Kinds
  BY DEF Kinds
<1>11. SamePhase(spec, yaml)
  BY <1>6, <1>7, <1>8, <1>9, <1>10 DEF SamePhase
<1>. QED  BY <1>11 DEF yaml

\* What Build() makes depends on nothing else.
LEMMA SameBuilt ==
  ASSUME NEW specs, NEW others, DOMAIN others = DOMAIN specs, NEW default,
         \A i \in DOMAIN specs : SamePhase(specs[i], others[i])
  PROVE  Build(specs, default) = Build(others, default)
<1>. DEFINE copies(list, i) == [r \in 1 .. Max({1, list[i].repeat}) |->
                                  BuildPhase(list[i], i, r, default)]
            all(list) == [i \in DOMAIN list |-> copies(list, i)]
<1>1. ASSUME NEW i \in DOMAIN specs PROVE copies(specs, i) = copies(others, i)
  <2>. DEFINE a == specs[i]
              b == others[i]
  <2>1. SamePhase(a, b)
    OBVIOUS
  <2>. HIDE DEF a, b
  <2>2. a.repeat = b.repeat /\ a.name = b.name /\ a.duration = b.duration
        /\ WithPhaseJitter(a, "cpu") = WithPhaseJitter(b, "cpu")
        /\ WithPhaseJitter(a, "memory") = WithPhaseJitter(b, "memory")
    BY <2>1 DEF SamePhase
  <2>3. ASSUME NEW r PROVE BuildPhase(a, i, r, default) = BuildPhase(b, i, r, default)
    <3>1. PhaseName(a, i, r) = PhaseName(b, i, r)
      BY <2>2, Zenon DEF PhaseName
    <3>. DEFINE cpus(x) == IF x.duration < 0 THEN {}
                           ELSE BuildSegment("cpu", WithPhaseJitter(x, "cpu"), default)
                memories(x) == BuildSegment("memory", WithPhaseJitter(x, "memory"), default)
    <3>2. cpus(a) = cpus(b) /\ memories(a) = memories(b)
      BY <2>2
    <3>3. \A x : BuildPhase(x, i, r, default) =
                   {[name |-> PhaseName(x, i, r), duration |-> x.duration,
                     cpu |-> c, memory |-> m] : c \in cpus(x), m \in memories(x)}
      BY DEF BuildPhase
    <3>. HIDE DEF cpus, memories
    <3>4. ASSUME NEW q
          PROVE  q \in BuildPhase(a, i, r, default) <=> q \in BuildPhase(b, i, r, default)
      BY <2>2, <3>1, <3>2, <3>3
    <3>. QED  BY <3>3, <3>4
  <2>4. [r \in 1 .. Max({1, a.repeat}) |-> BuildPhase(a, i, r, default)]
          = [r \in 1 .. Max({1, b.repeat}) |-> BuildPhase(b, i, r, default)]
    BY <2>2, <2>3
  <2>. QED  BY <2>4 DEF a, b
<1>. HIDE DEF copies
<1>2. all(specs) = all(others)
  BY <1>1
<1>3. \A list : Build(list, default) =
                  LET phases == FlattenSeq(all(list))
                  IN IF phases = <<>> \/ {} \in Range(phases) THEN {}
                     ELSE {[i \in DOMAIN phases |-> Parsed(phases[i])]}
  BY DEF Build, copies
<1>. HIDE DEF all
<1>. QED  BY <1>2, <1>3

\* The places of a profile of the compact syntax: its chunks and their mappings.
LEMMA CompactInv == IInv => CompactMeansYAML
<1>. DEFINE chunks == NotBlank(src.text)
            yaml == [i \in DOMAIN chunks |-> AsYAML(chunks[i])]
            S == [key : STRING, value : STRING]
<1>. SUFFICES ASSUME IInv, pc = "running", compiled.phases = "text"
              PROVE  /\ (\A c \in Range(chunks) : ~JitterOverwritten(c)) =>
                          compiled.profile \in Build(yaml, FractionOf[plain["jitter"]])
                     /\ \A c \in Range(chunks) :
                          With(c, "duration") = {} =>
                            \A i, j \in Bare(c) : i < j => DurationOf[c[i].value] = 0
  BY DEF CompactMeansYAML
<1>1. /\ plain["phases"] \in DOMAIN Lists \cup {"text", Blank, Unset}
      /\ plain["phases"] = "text" => ParsePhaseDSL(src.text) # {}
      /\ src.text \in Seq(Seq(S)) /\ src.text # <<>>
  BY PhasesSet
<1>2. PICK p \in Profiles : compiled.phases = Phases /\ compiled.profile = p
  BY DEF IInv, Result
<1>3. Listed /\ plain["phases"] = "text"
  BY <1>2 DEF Phases
<1>4. /\ ParsePhaseDSL(src.text) = {[i \in DOMAIN chunks |-> Parsed(ParsePhaseChunk(chunks[i]))]}
      /\ \A c \in Range(chunks) : ParsePhaseChunk(c) # {}
  BY <1>1, <1>3 DEF ParsePhaseDSL
<1>5. Specs = [i \in DOMAIN chunks |-> Parsed(ParsePhaseChunk(chunks[i]))]
  <2>1. Specs = Parsed(ParsePhaseDSL(src.text))
    BY <1>3 DEF Specs, SpecsOf, Unset, Blank
  <2>. QED  BY <1>4, <2>1 DEF Parsed
<1>6. p \in Build(Specs, FractionOf[plain["jitter"]])
  BY <1>2 DEF Profiles, Parse
<1>7. chunks \in Seq(Seq(S))
  BY <1>1, ChunksType
<1>. HIDE DEF chunks, S
<1>8. ASSUME NEW c \in Range(chunks)
      PROVE  c \in Seq(S) /\ Parsed(ParsePhaseChunk(c)) \in ParsePhaseChunk(c)
  <2>1. PICK i \in DOMAIN chunks : c = chunks[i]
    BY DEF Range
  <2>2. i \in 1 .. Len(chunks)
    BY <1>7, <2>1, LenProperties
  <2>3. c \in Seq(S)
    BY <1>7, <2>1, <2>2, ElementOfSeq
  <2>. QED  BY <1>4, <2>3 DEF Parsed
<1>9. ASSUME \A c \in Range(chunks) : ~JitterOverwritten(c)
      PROVE  compiled.profile \in Build(yaml, FractionOf[plain["jitter"]])
  <2>1. ASSUME NEW i \in DOMAIN chunks PROVE SamePhase(Specs[i], yaml[i])
    <3>1. chunks[i] \in Range(chunks)
      BY DEF Range
    <3>2. Specs[i] = Parsed(ParsePhaseChunk(chunks[i])) /\ yaml[i] = AsYAML(chunks[i])
      BY <1>5
    <3>. QED  BY <1>8, <1>9, <3>1, <3>2, ChunkAsYAML
  <2>2. DOMAIN yaml = DOMAIN Specs /\ DOMAIN Specs = DOMAIN chunks
    BY <1>5
  <2>. HIDE DEF yaml
  <2>3. Build(Specs, FractionOf[plain["jitter"]]) = Build(yaml, FractionOf[plain["jitter"]])
    BY <2>1, <2>2, SameBuilt
  <2>. QED  BY <1>2, <1>6, <2>3
<1>10. ASSUME NEW c \in Range(chunks), With(c, "duration") = {},
              NEW i \in Bare(c), NEW j \in Bare(c), i < j
       PROVE  DurationOf[c[i].value] = 0
  <2>. DEFINE n == Len(c)
  <2>1. NoneDropped(c, n)
    BY <1>8, MeansChunk DEF Means
  <2>2. i \in DOMAIN c /\ DOMAIN c = 1 .. n /\ j \in 1 .. n /\ n \in Nat
    <3>1. i \in DOMAIN c /\ j \in DOMAIN c
      BY DEF Bare, Durations
    <3>2. c \in Seq(S)
      BY <1>8
    <3>. QED  BY <3>1, <3>2, LenProperties
  <2>. HIDE DEF n
  <2>3. j <= n /\ Lengths(c)[i] = DurationOf[c[i].value]
    BY <2>2 DEF Lengths
  <2>. QED  BY <1>10, <2>1, <2>3 DEF NoneDropped
<1>. QED  BY <1>9, <1>10

\* For any sources and texts: a profile of the compact syntax is the one of the
\* phases that it spells out, unless a segment follows a jitter; and it drops no
\* duration for another one.
THEOREM CompactCorrect == Spec => []CompactMeansYAML
  BY Invariant, CompactInv, PTL
=============================================================================
