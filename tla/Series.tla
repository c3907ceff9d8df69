------------------------------- MODULE Series -------------------------------
(***************************************************************************)
(* The sample rings of icecc-model/src/history.rs: what is kept, what a    *)
(* graph of a given width shows of it, and which way it is heading.        *)
(*                                                                         *)
(* A sample is a number, or Gap where nothing was measured (NaN).  What a  *)
(* column shows is the mean of the measured samples behind it, so a column *)
(* is modelled by the set of their positions.                              *)
(***************************************************************************)
EXTENDS Integers, Sequences, FiniteSets, FiniteSetsExt, Functions

CONSTANTS
  Gap,        \* a sample that could not be taken
  TrendMin,   \* measured samples a trend takes, 6 in trend
  MinDelta    \* twice the change worth calling a trend (trend takes 1.5 for the queue)

ASSUME GapAssumption == Gap \notin Nat
\* A third of the samples is one at least, and no change is no trend.
ASSUME TrendAssumption == TrendMin \in Nat /\ TrendMin >= 3 /\ MinDelta \in Nat \ {0}

Clip(x, low, high) == Max({low, Min({x, high})})

\* History::push
PushSample(s, v, size) == IF Len(s) = size THEN Append(Tail(s), v) ELSE Append(s, v)

-----------------------------------------------------------------------------
(* History::stretched: a fixed time axis. *)

\* Mutant: every column is earned by the first sample.
Earned_All(have, width, size) == width

\* How many of the columns have history behind them: width * have / size, rounded.
Earned(have, width, size) == Clip((2 * width * have + size) \div (2 * size), 1, width)

\* The samples behind column i of columns, counted from 0.
Bucket(i, columns, have) ==
  LET start == (i * have) \div columns
      end   == Min({Max({((i + 1) * have) \div columns, start + 1}), have})
  IN start + 1 .. end

-----------------------------------------------------------------------------
(* History::window: the newest samples, one a column while they fit. *)

\* floor and ceil of a product in floating point: at a whole number the product
\* may come out a little to either side of it.
Floors(n, d) == IF n % d = 0 /\ n > 0 THEN {n \div d, n \div d - 1} ELSE {n \div d}
Ceils(n, d)  == IF n % d = 0 THEN {n \div d, n \div d + 1} ELSE {n \div d + 1}

\* Mutant: a bucket is as many whole samples as fit.
WindowBuckets_Whole(i, width, have) ==
  {start + 1 .. start + have \div width : start \in Floors(i * have, width)}

\* The samples from start to end, one at least, of those there are.
Taken(start, end, have) == start + 1 .. Min({Max({Min({end, have}), start + 1}), have})

\* The sets of samples bucket i may come out as.
WindowBuckets(i, width, have) ==
  {Taken(start, end, have) :
     start \in Floors(i * have, width), end \in Ceils((i + 1) * have, width)}

\* What column c may show of have samples.
WindowColumns(c, width, have) ==
  CASE have < width /\ c <= width - have -> {{}}
    [] have < width /\ c > width - have  -> {{c - (width - have)}}
    [] have >= width                     -> WindowBuckets(c - 1, width, have)

-----------------------------------------------------------------------------
(* History::trend *)

\* The positions of the samples that were taken.
Measured(s) == {k \in DOMAIN s : s[k] # Gap}

Total(s, B) == SumFunctionOnSet(s, B)

\* The first n of a set of positions, and the last n.
Oldest(m, n) == {k \in m : Cardinality({j \in m : j < k}) < n}
Newest(m, n) == {k \in m : Cardinality({j \in m : j > k}) < n}

\* The newest third against the oldest; both means have the same divisor.
Trend(s) ==
  LET m == Measured(s)
      third == Cardinality(m) \div 3
      old == Total(s, Oldest(m, third))
      new == Total(s, Newest(m, third))
      change == IF new > old THEN new - old ELSE old - new
  IN IF Cardinality(m) < TrendMin \/ 2 * change < MinDelta * third THEN "Steady"
     ELSE IF new > old THEN "Rising" ELSE "Falling"

-----------------------------------------------------------------------------
(* What is drawn: graph.rs and widgets.rs.  The scaling is exact here; in floating *)
(* point a dot or a glyph may be one off where a value is on the edge of two.      *)

CELL_COLS == 2   \* dots of a braille character
CELL_ROWS == 4
SPARKS    == 8   \* block glyphs, the lowest for a zero

\* The mean behind a column: a sum and how many were measured, or none.
Mean(s, B) ==
  LET measured == {k \in B : s[k] # Gap}
  IN [sum |-> Total(s, measured), n |-> Cardinality(measured)]

\* The columns of stretched: blank ones before those that are earned.
Stretched(s, width, size) ==
  LET columns == Earned(Len(s), width, size)
      blank   == width - columns
  IN [x \in 1 .. width |->
        Mean(s, IF s = <<>> \/ x <= blank THEN {} ELSE Bucket(x - blank - 1, columns, Len(s)))]

\* What a series without a maximum of its own is scaled to.
Peak(s) == Max({1} \cup {s[k] : k \in Measured(s)})

\* How many dots of a column are filled: one at least, none for a gap.
Level(mean, max, dots) ==
  IF mean.n = 0 THEN 0
  ELSE LET full == mean.n * max
       IN Clip((2 * Min({mean.sum, full}) * dots + full) \div (2 * full), 1, dots)

\* area: the dots by column and row, filled upward; row 0 is the top one.
Area(values, max, rows) ==
  LET dots == rows * CELL_ROWS
  IN UNION {{x} \X (dots - Level(values[x], max, dots) .. dots - 1) : x \in DOMAIN values}

\* sparkline: 0 is a blank, 1 the glyph for a zero.
Glyph(mean, max) ==
  IF mean.n = 0 THEN 0
  ELSE IF mean.sum = 0 THEN 1
  ELSE LET full == mean.n * max
           scaled == (Min({mean.sum, full}) * (SPARKS - 1) + full - 1) \div full
       IN 1 + Clip(scaled, 1, SPARKS - 1)

=============================================================================
