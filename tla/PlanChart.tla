------------------------------ MODULE PlanChart ------------------------------
(***************************************************************************)
(* The chart of a profile (internal/plan), which "loadsim plan" prints     *)
(* before a run and the page at /plan while it goes on: columns that each  *)
(* summarise a slice of a window of time, a bar with the beginnings of the *)
(* phases, and a marker at the elapsed time. A pure function of a profile  *)
(* that Profile evaluates.                                                 *)
(***************************************************************************)
EXTENDS Profile

CONSTANTS
  Width,       \* columns
  Height,      \* rows
  SubSamples,  \* evaluations for each column, 12 in the code
  OpenWindow,  \* the window of a profile without any length, 10 minutes
  NiceSteps,   \* distances of the labels of the time axis, in growing order
  Windows      \* the values of --window to consider; 0 leaves it to Render()

ASSUME ChartAssumption   == {Width, Height, SubSamples, OpenWindow} \subseteq Nat \ {0}
\* Enough evaluations to look behind the last change, into the last quarter.
ASSUME SamplesAssumption == SubSamples * Width >= 6
ASSUME WindowsAssumption == Windows \subseteq Nat
\* No nice distance is more than three times the one before.
ASSUME StepsAssumption   ==
  /\ NiceSteps \in Seq(Nat \ {0}) \ {<<>>}
  /\ \A i \in 1 .. Len(NiceSteps) - 1 :
       NiceSteps[i] < NiceSteps[i + 1] /\ NiceSteps[i + 1] <= 3 * NiceSteps[i]

\* Two passes of a loop; a third more of a profile that goes on.
WindowOfPass(p, asked) ==                       \* mutant: one pass of anything
  IF asked > 0 THEN asked ELSE IF Total(p) = 0 THEN OpenWindow ELSE Total(p)
Window(p, asked) ==
  LET pass == IF Total(p) = 0 THEN OpenWindow ELSE Total(p)
  IN IF asked > 0 THEN asked
     ELSE IF p.loop THEN 2 * pass
     ELSE IF OpenEnded(p.phases) THEN (4 * pass) \div 3
     ELSE pass

\* When the sample k of column i is taken.
SampleTimeOfColumn(w, i, k) == (w * i) \div Width  \* mutant: point sampling
SampleTime(w, i, k) == (w * (SubSamples * i + k)) \div (SubSamples * Width)

\* The targets a column is made of, and its band.
Samples(p, w, i) ==
  UNION {Eval(p, SampleTime(w, i, k)) : k \in 0 .. SubSamples - 1}

Band(p, w, i) ==
  LET values == {t.value : t \in Samples(p, w, i)}
  IN [min |-> Min(values), max |-> Max(values)]

\* chart(): "#" below the minimum of a column, "-" up to its maximum.
Cell(band, top, row) ==
  IF band.min * Height >= top * (row + 1) THEN "#"
  ELSE IF band.max * Height > top * row THEN "-" ELSE " "

\* The column of an instant, for the bar of the phases and for the marker.
ColumnOf(w, time) == (time * Width) \div w

\* phaseBar(): the phases up to the first open-ended one, where they begin.
Barred(p) ==
  {i \in DOMAIN p.phases : \A j \in 1 .. i - 1 : p.phases[j].duration > 0}
PhaseBar(p, w) ==
  {[index |-> i, column |-> ColumnOf(w, StartOf(p, i))] :
     i \in {j \in Barred(p) : ColumnOf(w, StartOf(p, j)) < Width}}

\* axis(): the marker and the labels.
Marker(w, time) == {ColumnOf(w, time)} \cap 0 .. Width - 1

\* tickStep(): the largest nice distance that gives six labels or more.
TickStep(w) ==
  LET nice == {s \in Range(NiceSteps) : s <= w \div 6}
  IN IF nice = {} THEN w ELSE Max(nice)
Labels(w) == {t \in 0 .. w : t % TickStep(w) = 0}

-----------------------------------------------------------------------------
IndicesSeen(p, w, c) == {t.index : t \in Samples(p, w, c)}

\* Every phase within the window that is no shorter than a sub-sample is seen,
\* and in the first pass nowhere but between its bar and the next one; the two
\* passes of a loop look the same; and what is held in the end can be seen. (Of
\* an open-ended phase that is to be repeated, Eval() only reaches the last copy,
\* while the bar has the name of the first.)
PhasesShown(p, asked) ==
  LET w       == Window(p, asked)
      columns == 0 .. Width - 1
      seen    == [c \in columns |-> IndicesSeen(p, w, c)]
      end(i)  == IF p.phases[i].duration = 0 THEN w ELSE Min({w, StartOf(p, i + 1)})
  IN /\ \A i \in Barred(p) :
          SubSamples * Width * (end(i) - StartOf(p, i)) >= w
            => LET shown == IF p.phases[i].duration > 0 THEN i ELSE Len(p.phases)
               IN \E c \in columns : shown \in seen[c]
     /\ \A bar \in PhaseBar(p, w), c \in columns :
          \A t \in Samples(p, w, c) :
            t.iteration = 0 =>
              /\ c < bar.column => t.index < bar.index
              /\ c > bar.column => t.index >= bar.index
     /\ asked = 0 /\ p.loop /\ Width % 2 = 0 =>
          \A c \in 0 .. (Width \div 2) - 1 : seen[c] = seen[c + (Width \div 2)]
     /\ asked = 0 /\ OpenEnded(p.phases) /\ w > Total(p) =>
          \E i \in seen[Width - 1] : p.phases[i].duration = 0

\* The peak of the window reaches the top row, a column is blank exactly if it
\* is without load, and no mark has a gap below it.
BandsDrawn(p, asked) ==
  LET w     == Window(p, asked)
      bands == [c \in 0 .. Width - 1 |-> Band(p, w, c)]
      top   == Max({bands[c].max : c \in DOMAIN bands})
      drawn(c, r) == Cell(bands[c], top, r) # " "
  IN top > 0 =>
       /\ \E c \in DOMAIN bands : drawn(c, Height - 1)
       /\ \A c \in DOMAIN bands :
            /\ drawn(c, 0) <=> bands[c].max > 0
            /\ \A r \in 1 .. Height - 1 : drawn(c, r) => drawn(c, r - 1)

\* The axis has some labels, but not too many, as long as the window is not many
\* times the largest distance; and where there is a marker, the phase that the
\* run is in lies between the first sample of its column and that of the next.
AxisTrue(p, asked) ==
  LET w == Window(p, asked)
      NotAfter(s, t) == s.iteration < t.iteration
                          \/ (s.iteration = t.iteration /\ s.index <= t.index)
  IN /\ w < 19 * Last(NiceSteps) => Cardinality(Labels(w)) \in 2 .. 19
     /\ \A c \in Marker(w, elapsed) :
          /\ \A t \in Eval(p, SampleTime(w, c, 0)) : NotAfter(t, at)
          /\ \A t \in Eval(p, SampleTime(w, c + 1, 0)) : NotAfter(at, t)

\* "Short spikes are easy to miss with point sampling, so every column is
\* summarised" (plan.go:57-59), and the chart is there to check a profile
\* before it is deployed and to inspect it while it runs (plan.go:1-3): it
\* shows the phases where they are, the load they ask for, and the moment.
\* What is drawn does not depend on the moment, but for the marker.
ChartFaithful ==
  \A asked \in Windows :
    /\ elapsed = 0 => PhasesShown(profile, asked) /\ BandsDrawn(profile, asked)
    /\ AxisTrue(profile, asked)
=============================================================================
