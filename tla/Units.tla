------------------------------- MODULE Units -------------------------------
(***************************************************************************)
(* Quantities of CPU and memory (internal/units): absolute ones and        *)
(* percentages of a base, which Resolve() turns into numbers.              *)
(*                                                                         *)
(* A text is a name; Texts says how it is made up. Numbers are thousandths:*)
(* of a core, of a byte, and of the base a percentage refers to. A parser  *)
(* returns the set of its one result, and {} for an error.                 *)
(***************************************************************************)
EXTENDS Integers, Sequences, FiniteSetsExt

CONSTANTS
  Texts,  \* [number, unit, base] of every text that begins with a number
  Kilo,   \* the factor between decimal units of memory, 1000 in the code
  Kibi    \* the factor between binary ones, 1024 in the code

ASSUME TextAssumption   == \A text \in DOMAIN Texts : Texts[text].number \in Int
ASSUME FactorAssumption == Kilo \in Nat \ {0} /\ Kibi \in Nat \ {0}

Kinds == {"cpu", "memory"}
Bases == {"limit", "request", "node"}

\* Units of the two kinds: an "m" is a thousandth of a core, and a megabyte.
MilliUnits == {"m", "milli", "millicores"}
UnitOf(kind) ==
  IF kind = "cpu"
  THEN [u \in MilliUnits \cup {"", "c", "core", "cores"} |-> IF u \in MilliUnits THEN 1 ELSE 1000]
  ELSE [u \in {"", "k", "m", "Ki", "Mi"} |->
          CASE u = ""   -> 1000
            [] u = "k"  -> 1000 * Kilo
            [] u = "m"  -> 1000 * Kilo * Kilo
            [] u = "Ki" -> 1000 * Kibi
            [] u = "Mi" -> 1000 * Kibi * Kibi]

\* parseBase(): what may follow the percent sign.
WordsOf ==
  [default |-> {""}, limit |-> {"l", "lim", "limit", "limits"},
   request |-> {"r", "req", "request", "requests"},
   node |-> {"n", "node", "t", "total", "machine", "host", "capacity"}]

BaseOf == [w \in UNION {WordsOf[b] : b \in DOMAIN WordsOf} |->
             CHOOSE b \in DOMAIN WordsOf : w \in WordsOf[b]]

\* ParseCPU(), ParseBytes(). No text is no quantity; only an absolute quantity
\* must not be negative.
NoQuantity == [amount |-> 0, base |-> "absolute"]

ParseQuantity(kind, text) ==
  LET t == Texts[text]
  IN IF text = "" THEN {NoQuantity}
     ELSE IF text \notin DOMAIN Texts THEN {}
     ELSE IF t.unit = "%"
     THEN {[amount |-> 10 * t.number, base |-> BaseOf[w]] : w \in {t.base} \cap DOMAIN BaseOf}
     ELSE {[amount |-> t.number * UnitOf(kind)[u], base |-> "absolute"] :
             u \in {v \in {t.unit} \cap DOMAIN UnitOf(kind) : t.number >= 0}}

Quantity(kind, text) == CHOOSE q \in ParseQuantity(kind, text) : TRUE

\* ParsePercentBase(): no word is the limit.
ParsePercentBase(word) ==
  IF word = "" THEN {"limit"}
  ELSE {BaseOf[w] : w \in {word} \cap DOMAIN BaseOf}

\* Resolve(): of the base that was asked for, or of the next that is known.
FallbackWithin(b) ==                            \* mutant: not to the machine
  CASE b = "limit"   -> <<"limit", "request">>
    [] b = "request" -> <<"request", "limit">>
    [] b = "node"    -> <<"node", "limit", "request">>
Fallback(b) ==
  CASE b = "limit"   -> <<"limit", "request", "node">>
    [] b = "request" -> <<"request", "limit", "node">>
    [] b = "node"    -> <<"node", "limit", "request">>

Resolve(q, bases) ==
  LET base  == IF q.base = "default" THEN bases.default ELSE q.base
      order == Fallback(base)
      known == {i \in DOMAIN order : bases[order[i]] > 0}
  IN IF q.base = "absolute" THEN q.amount
     ELSE IF known = {} THEN 0
     ELSE (q.amount * bases[order[Min(known)]]) \div 1000
=============================================================================
