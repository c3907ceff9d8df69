---------------------------- MODULE ScreenProofs ----------------------------
(***************************************************************************)
(* What is painted, for every terminal, every cluster and every order of   *)
(* keys, updates, paints and changes of size.                              *)
(*                                                                         *)
(* Three parts: what the arithmetic of the layout gives for every          *)
(* terminal, every number of nodes and every name; what App promises for   *)
(* every size of the list; and what the two give together on a terminal    *)
(* whose size changes and over a table that scrolls.                       *)
(***************************************************************************)
EXTENDS Screen, Sums, SequenceTheorems

-----------------------------------------------------------------------------
(* Saturating arithmetic. *)

\* A saturating difference is a natural number.
LEMMA LessIsNat == \A a, b \in Nat : Less(a, b) \in Nat /\ (Less(a, b) = 0 \/ Less(a, b) + b = a)
  BY DEF Less

-----------------------------------------------------------------------------
(* The band and the table. *)

\* The height of the band is a number of lines.
LEMMA BandType ==
  ASSUME NEW total \in Nat, NEW count \in Nat
  PROVE  BandHeight(total, count) \in Nat
BY DEF BandHeight, BandWith, BandFloor, Less, Smaller, SERIES_ROWS_TALL, SERIES_ROWS_LARGE,
       SERIES_ROWS_MAX, SEPARATOR_ROWS

\* Every row the band takes past its floor is one the table did not want; with
\* no band to speak of, or at its floor, the table still has two rows.
THEOREM TableKeepsPriority ==
  ASSUME NEW total \in Nat, total >= 6, NEW count \in Nat
  PROVE  /\ TableRows(total, count) \in Nat \ {0}
         /\ total >= 12 => TableRows(total, count) >= Smaller(count + 1, 2)
         /\ BandHeight(total, count) > BandWith(BandFloor(total), total) =>
              TableRows(total, count) > count
<1>1. CASE total < 12
  BY <1>1 DEF TableRows, TableHeight, BandHeight, BandWith, BandFloor, Less,
     SERIES_ROWS_TALL, SERIES_ROWS_LARGE, SEPARATOR_ROWS
<1>2. CASE total >= 12 /\ total < 24
  BY <1>2 DEF TableRows, TableHeight, BandHeight, BandWith, BandFloor, Less, Smaller,
     SERIES_ROWS_TALL, SERIES_ROWS_LARGE, SEPARATOR_ROWS
<1>3. CASE total >= 24 /\ total < 40
  BY <1>3 DEF TableRows, TableHeight, BandHeight, BandWith, BandFloor, Less, Smaller,
     SERIES_ROWS_TALL, SERIES_ROWS_LARGE, SERIES_ROWS_MAX, SEPARATOR_ROWS
<1>4. CASE total >= 40
  BY <1>4 DEF TableRows, TableHeight, BandHeight, BandWith, BandFloor, Less, Smaller,
     SERIES_ROWS_TALL, SERIES_ROWS_LARGE, SERIES_ROWS_MAX, SEPARATOR_ROWS
<1>5. QED
  BY <1>1, <1>2, <1>3, <1>4

\* A band that is not compact is high enough for three series and two rules.
LEMMA TallBand ==
  ASSUME NEW total \in Nat, NEW count \in Nat, BandHeight(total, count) > 5
  PROVE  BandHeight(total, count) - 2 >= 3 * SERIES_ROWS_TALL + SEPARATOR_ROWS
BY DEF BandHeight, BandWith, BandFloor, Less, Smaller, SERIES_ROWS_TALL,
       SERIES_ROWS_LARGE, SERIES_ROWS_MAX, SEPARATOR_ROWS

\* The three series share what is inside the frame, and each has two rows.
LEMMA SeriesShare ==
  ASSUME NEW inner \in Nat, inner >= 3 * SERIES_ROWS_TALL
  PROVE  LET rows == SeriesRows(inner)
         IN /\ rows.side \in Nat /\ rows.side >= 2 /\ rows.jobs \in Nat /\ rows.jobs >= 2
            /\ rows.jobs + 2 * rows.side = inner
BY DEF SeriesRows, Within, Less, Smaller, Larger, SERIES_ROWS_TALL, SERIES_ROWS_LARGE

\* What a line of the band is for.
Names == {"jobs", "queue", "rate", "blank"}

\* A series' lines, all alike.
LEMMA ConstantSeq ==
  ASSUME NEW n \in Nat, NEW s \in [1 .. n -> Names]
  PROVE  s \in Seq(Names) /\ Len(s) = n
<1>1. s \in Seq(Names)
  BY SeqDef
<1>2. Len(s) \in Nat /\ DOMAIN s = 1 .. Len(s)
  BY <1>1, LenProperties
<1>3. 1 .. Len(s) = 1 .. n
  BY <1>2
<1>4. \A i \in Nat : (1 <= i /\ i <= Len(s)) <=> (1 <= i /\ i <= n)
  <2> TAKE i \in Nat
  <2>1. i \in 1 .. Len(s) <=> i \in 1 .. n
    BY <1>3
  <2>2. QED
    BY <2>1, <1>2
<1>5. Len(s) <= n /\ n <= Len(s)
  BY <1>2, <1>4
<1>6. QED
  BY <1>1, <1>2, <1>5

\* The band fills its frame, and a rule is drawn over every blank line and over
\* no other.
THEOREM BandFillsItsFrame ==
  ASSUME NEW height \in Nat, height >= 3 * SERIES_ROWS_TALL + SEPARATOR_ROWS
  PROVE  LET lines == BandLines(height)
         IN /\ Len(lines) = height
            /\ \A k \in DOMAIN lines : lines[k] = "blank" <=> k - 1 \in Rules(height)
<1> DEFINE rows == SeriesRows(height - SEPARATOR_ROWS)
           jobs == rows.jobs
           side == rows.side
           J == [k \in 1 .. jobs |-> "jobs"]
           Q == [k \in 1 .. side |-> "queue"]
           R == [k \in 1 .. side |-> "rate"]
           B == <<"blank">>
           top    == J \o B
           middle == top \o Q
           lower  == middle \o B
<1>0. BandLines(height) = lower \o R /\ Rules(height) = {jobs, jobs + 1 + side}
  BY DEF BandLines, Rules
<1>1. /\ side \in Nat /\ jobs \in Nat /\ jobs + 2 * side = height - SEPARATOR_ROWS
      /\ side >= 2 /\ jobs >= 2
  <2>1. height - SEPARATOR_ROWS \in Nat /\ height - SEPARATOR_ROWS >= 3 * SERIES_ROWS_TALL
    BY DEF SEPARATOR_ROWS, SERIES_ROWS_TALL
  <2>2. QED
    BY <2>1, SeriesShare
<1> HIDE DEF rows, jobs, side
<1>2. /\ J \in [1 .. jobs -> Names] /\ \A i \in 1 .. jobs : J[i] = "jobs"
      /\ Q \in [1 .. side -> Names] /\ \A i \in 1 .. side : Q[i] = "queue"
      /\ R \in [1 .. side -> Names] /\ \A i \in 1 .. side : R[i] = "rate"
  BY DEF Names
<1>3. B \in [1 .. 1 -> Names] /\ B[1] = "blank"
  BY DEF Names
<1> HIDE DEF J, Q, R, B
<1>4. /\ J \in Seq(Names) /\ Len(J) = jobs
      /\ Q \in Seq(Names) /\ Len(Q) = side
      /\ R \in Seq(Names) /\ Len(R) = side
      /\ B \in Seq(Names) /\ Len(B) = 1
  BY <1>1, <1>2, <1>3, ConstantSeq
<1>5. /\ jobs \in Nat /\ side \in Nat /\ 1 \in Nat /\ jobs + 1 \in Nat
      /\ jobs + 1 + side \in Nat /\ jobs + 2 + side \in Nat
  BY <1>1
<1>6. /\ top \in Seq(Names) /\ Len(top) = jobs + 1
      /\ \A k \in 1 .. jobs + 1 : top[k] = IF k = jobs + 1 THEN "blank" ELSE "jobs"
  <2>1. /\ top \in Seq(Names) /\ Len(top) = jobs + 1
        /\ \A k \in 1 .. jobs + 1 :
             top[k] = IF k <= jobs THEN J[k] ELSE B[k - jobs]
    <3>1. /\ J \o B \in Seq(Names)
          /\ Len(J \o B) = Len(J) + Len(B)
          /\ \A i \in 1 .. Len(J) + Len(B) :
               (J \o B)[i] = IF i <= Len(J) THEN J[i] ELSE B[i - Len(J)]
      BY <1>4, ConcatProperties, Zenon
    <3>2. QED
      BY <3>1, <1>4, <1>5
  <2>2. QED
    BY <1>1, <1>2, <1>3, <2>1
<1> HIDE DEF top
<1>7. /\ middle \in Seq(Names) /\ Len(middle) = jobs + 1 + side
      /\ \A k \in 1 .. jobs + 1 + side :
           middle[k] = IF k <= jobs + 1 THEN top[k] ELSE "queue"
  <2>1. /\ middle \in Seq(Names) /\ Len(middle) = jobs + 1 + side
        /\ \A k \in 1 .. jobs + 1 + side :
             middle[k] = IF k <= jobs + 1 THEN top[k] ELSE Q[k - (jobs + 1)]
    <3>1. /\ top \o Q \in Seq(Names)
          /\ Len(top \o Q) = Len(top) + Len(Q)
          /\ \A i \in 1 .. Len(top) + Len(Q) :
               (top \o Q)[i] = IF i <= Len(top) THEN top[i] ELSE Q[i - Len(top)]
      <4>1. top \in Seq(Names) /\ Q \in Seq(Names)
        BY <1>6, <1>4
      <4>2. QED
        BY <4>1, ConcatProperties, Zenon
    <3>2. QED
      BY <3>1, <1>6, <1>4, <1>5
  <2>2. ASSUME NEW k \in 1 .. jobs + 1 + side, k > jobs + 1
        PROVE  k - (jobs + 1) \in 1 .. side
    BY <1>1, <2>2
  <2>3. QED
    BY <1>1, <1>2, <2>1, <2>2
<1> HIDE DEF middle
<1>8. /\ lower \in Seq(Names) /\ Len(lower) = jobs + 2 + side
      /\ \A k \in 1 .. jobs + 2 + side :
           lower[k] = IF k = jobs + 2 + side THEN "blank" ELSE middle[k]
  <2>1. /\ lower \in Seq(Names) /\ Len(lower) = jobs + 1 + side + 1
        /\ \A k \in 1 .. jobs + 1 + side + 1 :
             lower[k] = IF k <= jobs + 1 + side THEN middle[k]
                        ELSE B[k - (jobs + 1 + side)]
    <3>1. /\ middle \o B \in Seq(Names)
          /\ Len(middle \o B) = Len(middle) + Len(B)
          /\ \A i \in 1 .. Len(middle) + Len(B) :
               (middle \o B)[i] = IF i <= Len(middle) THEN middle[i] ELSE B[i - Len(middle)]
      BY <1>7, <1>4, ConcatProperties, Zenon
    <3>2. QED
      BY <3>1, <1>7, <1>4, <1>5
  <2>2. QED
    BY <1>1, <1>3, <2>1
<1> HIDE DEF lower
<1>9. /\ Len(BandLines(height)) = jobs + 2 + 2 * side
      /\ DOMAIN BandLines(height) = 1 .. jobs + 2 + 2 * side
      /\ \A k \in 1 .. jobs + 2 + 2 * side :
           BandLines(height)[k] = IF k <= jobs + 2 + side THEN lower[k] ELSE "rate"
  <2>1. /\ BandLines(height) \in Seq(Names)
        /\ Len(BandLines(height)) = jobs + 2 + side + side
        /\ \A k \in 1 .. jobs + 2 + side + side :
             BandLines(height)[k] =
               IF k <= jobs + 2 + side THEN lower[k]
               ELSE R[k - (jobs + 2 + side)]
    <3>1. /\ lower \o R \in Seq(Names)
          /\ Len(lower \o R) = Len(lower) + Len(R)
          /\ \A i \in 1 .. Len(lower) + Len(R) :
               (lower \o R)[i] = IF i <= Len(lower) THEN lower[i] ELSE R[i - Len(lower)]
      BY <1>8, <1>4, ConcatProperties, Zenon
    <3>2. QED
      BY <3>1, <1>0, <1>8, <1>4, <1>5
  <2>2. ASSUME NEW k \in 1 .. jobs + 2 + 2 * side, k > jobs + 2 + side
        PROVE  k - (jobs + 2 + side) \in 1 .. side
    BY <1>1, <2>2
  <2>3. DOMAIN BandLines(height) = 1 .. Len(BandLines(height))
    BY <2>1, LenProperties
  <2>4. QED
    BY <1>1, <1>2, <2>1, <2>2, <2>3
<1>10. Len(BandLines(height)) = height
  BY <1>1, <1>9 DEF SEPARATOR_ROWS
<1>11. ASSUME NEW k \in 1 .. jobs + 2 + 2 * side
       PROVE  BandLines(height)[k] = "blank" <=> k - 1 \in Rules(height)
  <2>1. CASE k <= jobs + 1
    <3>1. BandLines(height)[k] = IF k = jobs + 1 THEN "blank" ELSE "jobs"
      BY <2>1, <1>1, <1>6, <1>7, <1>8, <1>9
    <3>2. QED
      BY <2>1, <3>1, <1>1, <1>0
  <2>2. CASE k > jobs + 1 /\ k <= jobs + 2 + side
    <3>1. BandLines(height)[k] = IF k = jobs + 2 + side THEN "blank" ELSE "queue"
      BY <2>2, <1>1, <1>7, <1>8, <1>9
    <3>2. QED
      BY <2>2, <3>1, <1>1, <1>0
  <2>3. CASE k > jobs + 2 + side
    <3>1. BandLines(height)[k] = "rate"
      BY <2>3, <1>1, <1>9
    <3>2. QED
      BY <2>3, <3>1, <1>1, <1>0
  <2>4. QED
    BY <1>1, <2>1, <2>2, <2>3
<1>12. QED
  BY <1>9, <1>10, <1>11

-----------------------------------------------------------------------------
(* The columns and the cells. *)

\* Widening the names takes at most half of what is spare.
LEMMA WidenFits ==
  ASSUME NEW width \in Nat, NEW longest \in Nat
  PROVE  /\ Spare(width) \in Nat
         /\ Widen(width, longest) \in Nat
         /\ 2 * Widen(width, longest) <= Spare(width)
<1>1. Spare(width) \in Nat
  BY DEF Spare, Breakpoint, Fixed, Shown, Less, COUNT_WIDTH, JOBS_WIDTH, RATE_WIDTH
<1>2. CASE width < 108
  BY <1>1, <1>2 DEF Widen
<1>3. CASE width >= 108
  <2> DEFINE wanted == Smaller(longest + BADGE_ROOM + EXPAND_MARK, NAME_MAX)
             most   == Smaller(Spare(width), Less(wanted, Breakpoint(width).name))
             half   == Spare(width) \div 2
  <2>1. wanted \in Nat /\ Breakpoint(width).name \in Nat
    BY <1>3 DEF Smaller, BADGE_ROOM, EXPAND_MARK, NAME_MAX, Breakpoint
  <2>2. half \in Nat /\ 2 * half <= Spare(width)
    BY <1>1
  <2>3. Widen(width, longest) = Smaller(most, half)
    BY <1>3 DEF Widen
  <2>4. most \in Nat
    BY <1>1, <2>1 DEF Smaller, Less
  <2> HIDE DEF most, half, wanted
  <2>5. Smaller(most, half) \in Nat /\ Smaller(most, half) <= half
    BY <2>2, <2>4 DEF Smaller
  <2>6. QED
    BY <1>1, <2>2, <2>3, <2>5
<1>4. QED
  BY <1>2, <1>3

\* What the columns need is never more than there is: on a terminal of 25 cells
\* or more the row is within its frame whatever the longest name is, and one of
\* 108 or more always has a column for what is compiled.
THEOREM ColumnsFit ==
  ASSUME NEW width \in Nat, width >= 25, NEW longest \in Nat
  PROVE  LET c == Columns(width, longest)
         IN /\ TableWidth(c) <= width
            /\ c.name \in Nat /\ c.name >= 12
            /\ c.files \in Nat /\ c.files <= MAX_FILES
            /\ width >= 108 => c.files >= MIN_FILES
<1> DEFINE b == Breakpoint(width)
           x == Widen(width, longest)
           left == Spare(width) - x
           files == IF left >= MIN_FILES THEN Smaller(left, MAX_FILES) ELSE 0
           c == Columns(width, longest)
<1>1. /\ Spare(width) \in Nat /\ x \in Nat /\ 2 * x <= Spare(width)
  BY WidenFits
<1>2. /\ b.name \in Nat /\ b.name >= 12 /\ Fixed(b) \in Nat
      /\ Fixed(b) + 3 <= width
      /\ Spare(width) > 0 => Spare(width) + Fixed(b) + 6 = width
      /\ width >= 108 => Spare(width) >= 2 * MIN_FILES
  BY DEF Spare, Breakpoint, Fixed, Shown, Less, COUNT_WIDTH, JOBS_WIDTH, RATE_WIDTH, MIN_FILES
<1>3. /\ c.name = b.name + x /\ c.files = files
      /\ Fixed(c) = Fixed(b) + x
  BY <1>1, <1>2 DEF Columns, Breakpoint, Fixed, Shown, COUNT_WIDTH, JOBS_WIDTH, RATE_WIDTH
<1>4. /\ files \in Nat /\ files <= MAX_FILES /\ files <= left
      /\ left >= MIN_FILES => files >= MIN_FILES
  BY <1>1 DEF Smaller, MIN_FILES, MAX_FILES
<1>5. TableWidth(c) = 2 + Fixed(b) + x + 1 + Shown(files > 0, 1 + files)
  BY <1>1, <1>2, <1>3, <1>4 DEF TableWidth
<1> HIDE DEF b, x, files, c
<1>6. TableWidth(c) <= width
  BY <1>1, <1>2, <1>4, <1>5 DEF Shown
<1>7. width >= 108 => left >= MIN_FILES
  BY <1>1, <1>2 DEF MIN_FILES
<1>8. QED
  BY <1>1, <1>2, <1>3, <1>4, <1>6, <1>7 DEF c

\* A name gives way to its badge and never disappears behind it.
THEOREM NameFits ==
  ASSUME NEW width \in Nat, width >= 12, NEW length \in Nat \ {0},
         NEW noAck \in BOOLEAN, NEW localOnly \in BOOLEAN
  PROVE  LET badge == Badge(noAck, localOnly)
         IN /\ NameCell(length, badge, width) <= width
            /\ NameCell(length, badge, width) > EXPAND_MARK + badge
BY DEF NameCell, Badge, Elide, Less, Smaller, EXPAND_MARK

-----------------------------------------------------------------------------
(* Bars and figures. *)

\* What is divided by the same number keeps its order.
LEMMA DivInOrder ==
  ASSUME NEW a \in Nat, NEW b \in Nat, a <= b, NEW d \in Nat \ {0}
  PROVE  /\ a \div d \in Nat /\ b \div d \in Nat
         /\ a \div d <= b \div d
<1> DEFINE p == a \div d
           q == b \div d
<1>1. p \in Nat /\ p * d <= a /\ a < (p + 1) * d
  OBVIOUS
<1>2. q \in Nat /\ q * d <= b /\ b < (q + 1) * d
  OBVIOUS
<1> HIDE DEF p, q
<1>3. ASSUME q < p PROVE FALSE
  <2>1. (q + 1) * d <= p * d
    BY <1>1, <1>2, <1>3
  <2> QED BY <1>1, <1>2, <2>1
<1>4. p <= q
  BY <1>1, <1>2, <1>3
<1> QED BY <1>1, <1>2, <1>4 DEF p, q

\* A node that runs more has no shorter bar than one that runs less.
LEMMA BarsInOrder ==
  ASSUME NEW a \in Nat, NEW b \in Nat, a <= b, NEW max \in Nat \ {0}, NEW width \in {6, 8, 10, 12}
  PROVE  BarSplit(a, max, width)[1] <= BarSplit(b, max, width)[1]
<1> DEFINE Of(used) == 2 * (Smaller(used, max) * 2 * width) + max
           F(used) == Filled(used, max, width)
           C(used) == (F(used) + 1) \div 2
<1>1. Of(a) \in Nat /\ Of(b) \in Nat /\ Of(a) <= Of(b)
  BY DEF Smaller
<1>2. F(a) = Of(a) \div (2 * max) /\ F(b) = Of(b) \div (2 * max)
  BY DEF Filled
<1> HIDE DEF Of, F
<1>3. F(a) \in Nat /\ F(b) \in Nat /\ F(a) <= F(b)
  BY <1>1, <1>2, DivInOrder
<1>4. C(a) \in Nat /\ C(b) \in Nat /\ C(a) <= C(b)
  BY <1>3
<1>5. /\ BarSplit(a, max, width)[1] = Smaller(C(a), width)
      /\ BarSplit(b, max, width)[1] = Smaller(C(b), width)
  BY DEF BarSplit, F
<1> HIDE DEF C
<1> QED BY <1>4, <1>5 DEF Smaller

\* How many numbers there are up to one.
LEMMA CountUpTo ==
  ASSUME NEW n \in Nat
  PROVE  IsFiniteSet(1 .. n) /\ Cardinality(1 .. n) = n
<1>1. /\ IsFiniteSet(1 .. n)
      /\ Cardinality(1 .. n) = IF 1 > n THEN 0 ELSE n - 1 + 1
  BY FS_Interval
<1> QED BY <1>1

\* No figure has more than ten digits.
LEMMA DigitsType ==
  ASSUME NEW n \in Nat
  PROVE  Digits(n) \in 1 .. 10
<1> DEFINE K == {k \in 1 .. 10 : LEAST[k] <= n}
<1>1. DOMAIN LEAST = 1 .. 10
  BY DEF LEAST
<1>2. IsFiniteSet(1 .. 10) /\ Cardinality(1 .. 10) = 10
  BY CountUpTo
<1>3. K \subseteq 1 .. 10
  OBVIOUS
<1>4. Digits(n) = Larger(1, Cardinality(K))
  BY <1>1 DEF Digits
<1> HIDE DEF K
<1>5. Cardinality(K) \in Nat /\ Cardinality(K) <= 10
  BY <1>2, <1>3, FS_Subset, FS_CardinalityType
<1> QED BY <1>4, <1>5 DEF Larger

\* The job that runs longest is named within its column, with the count behind it.
LEMMA FilesAreIn ==
  ASSUME NEW length \in Nat, NEW others \in Int, NEW width \in Nat, width >= MIN_FILES
  PROVE  FilesCell(length, others, width) <= width
<1> DEFINE more == Shown(others > 0, 2 + Digits(others))
           room == Less(width, more)
           name == IF length = 0 THEN Elide(NAME_NOT_SEEN, room) ELSE PathTail(length, room)
<1>1. more \in Nat /\ more <= 12
  <2>1. CASE others > 0
    <3>1. Digits(others) \in 1 .. 10
      BY <2>1, DigitsType
    <3> QED BY <2>1, <3>1 DEF Shown
  <2>2. CASE ~(others > 0)
    BY <2>2 DEF Shown
  <2> QED BY <2>1, <2>2
<1>2. FilesCell(length, others, width) = name + more
  BY DEF FilesCell
<1> HIDE DEF more
<1>3. room \in Nat /\ room + more = width
  BY <1>1 DEF Less, MIN_FILES
<1> HIDE DEF room
<1>4. name \in Nat /\ name <= room
  BY <1>3 DEF Elide, PathTail, Smaller, NAME_NOT_SEEN
<1> QED BY <1>1, <1>2, <1>3, <1>4

\* A name of any length takes no room from the text behind it where eight letters do
\* not.
LEMMA JobLineFits ==
  ASSUME NEW length \in Nat \ {0}, NEW client \in Nat, NEW width \in Int,
         JobLine(8, client, 0) <= width
  PROVE  JobLine(length, client, width) <= width
BY DEF JobLine, Elide, Smaller, Larger, Less, Shown

-----------------------------------------------------------------------------
(* The detail view. *)

\* However far it is scrolled, the pane starts at a line there is and the last
\* line is within reach.
LEMMA PaneReachesEnd ==
  ASSUME NEW lines \in Nat \ {0}, NEW total \in Nat, NEW down \in Nat,
         down <= MaxScroll(lines, total)
  PROVE  /\ MaxScroll(lines, total) \in Nat /\ DetailRows(total) \in Nat \ {0}
         /\ TopLine(down, lines, total) = down
         /\ down < lines
         /\ MaxScroll(lines, total) + DetailRows(total) >= lines
         /\ down + DetailRows(total) <= Larger(lines, DetailRows(total))
<1>1. DetailRows(total) \in Nat \ {0}
  BY DEF DetailRows, Larger, Less
<1>2. /\ MaxScroll(lines, total) \in Nat
      /\ lines > DetailRows(total) => MaxScroll(lines, total) + DetailRows(total) = lines
      /\ lines <= DetailRows(total) => MaxScroll(lines, total) = 0
  BY <1>1 DEF MaxScroll, Less
<1>3. QED
  BY <1>1, <1>2 DEF TopLine, Smaller, Larger

USE RowAssumption, ScrollAssumption

-----------------------------------------------------------------------------
(* The quit prompt. *)

\* An update can only take a highlight away.
LEMMA UpdateBehindPrompt ==
  ASSUME PromptOverBareScreen, Update
  PROVE  PromptOverBareScreen'
<1>1. confirmQuit' = confirmQuit /\ help' = help
  BY DEF Update
<1>2. ASSUME selected = NoHost, ~detail PROVE selected' = NoHost /\ ~detail'
  BY <1>2 DEF Update, Prune
<1>3. QED
  BY <1>1, <1>2 DEF PromptOverBareScreen

\* The prompt swallows what is not an answer; without it, only the last step out
\* raises it.
LEMMA KeyBehindPrompt ==
  ASSUME PromptOverBareScreen, NEW key \in Keys, OnKey(key)
  PROVE  PromptOverBareScreen'
<1>1. CASE confirmQuit
  <2>1. AtPrompt(key)
    BY <1>1 DEF OnKey
  <2>2. confirmQuit' = FALSE \/ confirmQuit' = confirmQuit
    BY <2>1 DEF AtPrompt
  <2>3. UNCHANGED <<help, detail, selected>>
    BY <2>1 DEF AtPrompt
  <2>4. QED
    BY <2>2, <2>3 DEF PromptOverBareScreen
<1>2. CASE ~confirmQuit
  <2>1. CASE Unwind
    <3>1. \/ confirmQuit' = confirmQuit
          \/ ~help /\ ~detail /\ selected = NoHost /\ UNCHANGED <<help, detail, selected>>
      BY <2>1, Zenon DEF Unwind
    <3>2. QED
      BY <1>2, <3>1 DEF PromptOverBareScreen
  <2>2. CASE ~Unwind
    <3>1. confirmQuit' = confirmQuit
      BY <1>2, <2>2 DEF OnKey, ForceQuit, Refresh, ToggleHelp, ScrollDetail, Ignored,
         CloseDetail, MoveSelection, SetSort, OpenDetail, screen
    <3>2. QED
      BY <1>2, <3>1 DEF PromptOverBareScreen
  <2>3. QED
    BY <2>1, <2>2
<1>3. QED
  BY <1>1, <1>2

\* The quit prompt is only ever up over a screen with nothing left to back out
\* of, and nothing opens behind it.
THEOREM PromptIsLast == Spec => []PromptOverBareScreen
<1>1. Init => PromptOverBareScreen
  BY DEF Init, PromptOverBareScreen
<1>2. ASSUME PromptOverBareScreen, [Next]_vars PROVE PromptOverBareScreen'
  <2>1. CASE Update
    BY <1>2, <2>1, UpdateBehindPrompt
  <2>2. ASSUME NEW key \in Keys, OnKey(key) PROVE PromptOverBareScreen'
    BY <1>2, <2>2, KeyBehindPrompt
  <2>3. CASE Tick \/ Resize
    BY <1>2, <2>3 DEF Tick, Resize, screen, PromptOverBareScreen
  <2>4. CASE Paint
    BY <1>2, <2>4 DEF Paint, PromptOverBareScreen
  <2>5. CASE UNCHANGED vars
    BY <1>2, <2>5 DEF vars, screen, PromptOverBareScreen
  <2>6. QED
    BY <1>2, <2>1, <2>2, <2>3, <2>4, <2>5 DEF Next
<1>3. QED
  BY <1>1, <1>2, PTL DEF Spec

-----------------------------------------------------------------------------
(* Painting. *)

\* A key either marks the screen or leaves it as it was.
LEMMA KeyMarks ==
  ASSUME NEW key \in Keys, OnKey(key), nodes = {} => selected = NoHost,
         {dirty, detail} \subseteq BOOLEAN
  PROVE  dirty' = TRUE \/ (screen' = screen /\ dirty' = dirty)
<1>1. CASE confirmQuit
  BY <1>1 DEF OnKey, AtPrompt, Marked, screen, cluster
<1>2. CASE ~confirmQuit
  <2>1. CASE Unwind \/ Refresh \/ ToggleHelp \/ CloseDetail \/ SetSort(SortFor(key))
             \/ ScrollDetail(Delta(key))
    BY <2>1 DEF Unwind, Refresh, ToggleHelp, CloseDetail, SetSort, ScrollDetail, Marked
  <2>2. CASE ForceQuit \/ Ignored
    BY <2>2 DEF ForceQuit, Ignored
  <2>3. CASE MoveSelection(Delta(key))
    <3>1. CASE nodes = {}
      <4>1. selected = NoHost
        BY <3>1
      <4>2. QED
        BY <2>3, <3>1, <4>1 DEF MoveSelection, screen, cluster
    <3>2. CASE nodes # {}
      BY <2>3, <3>2 DEF MoveSelection
    <3>3. QED
      BY <3>1, <3>2
  <2>4. CASE ~detail /\ OpenDetail
    <3> DEFINE s == IF selected = NoHost /\ nodes # {} THEN Target(1) ELSE selected
    <3>1. CASE s # NoHost
      BY <2>4, <3>1 DEF OpenDetail
    <3>2. CASE s = NoHost
      <4>1. selected' = NoHost /\ detail' = FALSE /\ scroll' = scroll /\ dirty' = dirty
        BY <2>4, <3>2 DEF OpenDetail
      <4>2. selected = NoHost
        BY <3>2
      <4>3. detail = FALSE
        BY <2>4
      <4>4. UNCHANGED <<cluster, sort, help, confirmQuit>>
        BY <2>4 DEF OpenDetail
      <4>5. QED
        BY <4>1, <4>2, <4>3, <4>4 DEF screen, cluster
    <3>3. QED
      BY <3>1, <3>2
  <2>5. QED
    BY <1>2, <2>1, <2>2, <2>3, <2>4 DEF OnKey
<1>3. QED
  BY <1>1, <1>2

\* Nothing visible changes without a paint being due.
THEOREM EverythingIsPainted == Spec => []NothingUnpainted
<1> DEFINE Inv == /\ NothingUnpainted
                  /\ nodes = {} => selected = NoHost
                  /\ {dirty, detail} \subseteq BOOLEAN
<1>1. Init => Inv
  BY DEF Init, NothingUnpainted
<1>2. Inv /\ [Next]_vars => Inv'
  <2> SUFFICES ASSUME Inv, [Next]_vars PROVE Inv'
    OBVIOUS
  <2>1. CASE Update /\ Outdates
    <3>1. dirty' = TRUE
      BY <2>1 DEF Update, Marked
    <3>2. detail' \in BOOLEAN
      BY <2>1 DEF Update, Prune
    <3>3. nodes' = {} => selected' = NoHost
      BY <2>1 DEF Update, Prune
    <3>4. QED
      BY <3>1, <3>2, <3>3 DEF NothingUnpainted
  <2>2. ASSUME NEW key \in Keys, OnKey(key), Outdates PROVE Inv'
    <3>1. dirty' = TRUE \/ (screen' = screen /\ dirty' = dirty)
      BY <2>2, KeyMarks
    <3>2. NothingUnpainted' /\ dirty' \in BOOLEAN
      BY <2>2, <3>1 DEF Outdates, NothingUnpainted
    <3>3. nodes' = nodes
      BY <2>2 DEF OnKey, AtPrompt, ForceQuit, Unwind, Refresh, ToggleHelp,
         ScrollDetail, Ignored, CloseDetail, MoveSelection, SetSort, OpenDetail,
         screen, cluster
    <3>4. detail' \in BOOLEAN
      BY <2>2 DEF OnKey, AtPrompt, ForceQuit, Unwind, Refresh, ToggleHelp,
         ScrollDetail, Ignored, CloseDetail, MoveSelection, SetSort, OpenDetail,
         screen
    <3>5. nodes = {} => selected' = NoHost
      BY <2>2 DEF OnKey, AtPrompt, ForceQuit, Unwind, Refresh, ToggleHelp,
         ScrollDetail, Ignored, CloseDetail, MoveSelection, SetSort, OpenDetail,
         screen
    <3>6. QED
      BY <3>2, <3>3, <3>4, <3>5
  <2>3. CASE (Tick \/ Resize) /\ Outdates
    BY <2>3 DEF Tick, Resize, Marked, screen, NothingUnpainted
  <2>4. CASE Paint
    <3>1. dirty' \in BOOLEAN /\ stale' = FALSE
      BY <2>4 DEF Paint
    <3>2. UNCHANGED <<nodes, selected, detail>>
      BY <2>4 DEF Paint, cluster
    <3>3. QED
      BY <3>1, <3>2 DEF NothingUnpainted
  <2>5. CASE UNCHANGED vars
    BY <2>5 DEF vars, screen, NothingUnpainted
  <2>6. QED
    BY <2>1, <2>2, <2>3, <2>4, <2>5 DEF Next
<1>3. Inv => NothingUnpainted
  OBVIOUS
<1> HIDE DEF Inv
<1>4. QED
  BY <1>1, <1>2, <1>3, PTL DEF Spec

-----------------------------------------------------------------------------
(* The rows. *)

\* Rows of a list: a finite set of nodes, each with a figure or without one.
Rows == /\ IsFiniteSet(nodes) /\ nodes \subseteq Hosts
        /\ figure \in [Hosts -> Figures \cup {NoFigure}]

\* The order leaves no two rows at the same place.
LEMMA BeforeIsOrder ==
  ASSUME Rows, NEW a \in Hosts, NEW b \in Hosts, NEW c \in Hosts
  PROVE  /\ ~Before(a, a)
         /\ Before(a, b) /\ Before(b, c) => Before(a, c)
         /\ a # b => Before(a, b) \/ Before(b, a)
<1>1. a \in Nat /\ b \in Nat /\ c \in Nat
  OBVIOUS
<1>2. CASE sort = "Name"
  BY <1>1, <1>2 DEF Before
<1>3. CASE sort # "Name"
  <2>1. /\ figure[a] \in Nat \/ figure[a] = NoFigure
        /\ figure[b] \in Nat \/ figure[b] = NoFigure
        /\ figure[c] \in Nat \/ figure[c] = NoFigure
    BY DEF Rows
  <2>2. QED
    BY <1>1, <1>3, <2>1 DEF Before
<1>4. QED
  BY <1>2, <1>3

\* The place of a row is within the list, and a row before it has a lower one.
LEMMA IndexInList ==
  ASSUME Rows, NEW h \in nodes
  PROVE  /\ Cardinality(nodes) \in Nat \ {0}
         /\ Index(h) \in 0 .. Cardinality(nodes) - 1
<1> DEFINE above == {g \in nodes : Before(g, h)}
           others == nodes \ {h}
<1>1. IsFiniteSet(nodes) /\ h \in Hosts
  BY DEF Rows
<1>2. IsFiniteSet(others) /\ Cardinality(others) = Cardinality(nodes) - 1
  BY <1>1, FS_RemoveElement
<1>3. above \subseteq others
  BY <1>1, BeforeIsOrder
<1>4. Cardinality(nodes) \in Nat /\ Cardinality(others) \in Nat
  BY <1>1, <1>2, FS_CardinalityType
<1> HIDE DEF others
<1>5. IsFiniteSet(above) /\ Cardinality(above) <= Cardinality(others)
  BY <1>2, <1>3, FS_Subset
<1>6. Cardinality(above) \in Nat
  BY <1>5, FS_CardinalityType
<1>7. QED
  BY <1>2, <1>4, <1>5, <1>6 DEF Index

\* A row that sorts before another is above it.
LEMMA IndexByOrder ==
  ASSUME Rows, NEW a \in nodes, NEW b \in nodes, Before(a, b)
  PROVE  Index(a) < Index(b)
<1> DEFINE A == {g \in nodes : Before(g, a)}
           B == {g \in nodes : Before(g, b)}
<1>1. IsFiniteSet(nodes) /\ nodes \subseteq Hosts
  BY DEF Rows
<1>2. A \subseteq B
  BY <1>1, BeforeIsOrder
<1>3. a \in B /\ a \notin A
  BY <1>1, BeforeIsOrder
<1>4. B \subseteq nodes
  OBVIOUS
<1> HIDE DEF A, B
<1>5. IsFiniteSet(B)
  BY <1>1, <1>4, FS_Subset
<1>6. IsFiniteSet(A) /\ Cardinality(A) <= Cardinality(B) /\ Cardinality(B) # Cardinality(A)
  BY <1>2, <1>3, <1>5, FS_Subset
<1>7. Cardinality(A) \in Nat /\ Cardinality(B) \in Nat
  BY <1>5, <1>6, FS_CardinalityType
<1>8. QED
  BY <1>6, <1>7 DEF Index, A, B

\* No two rows have one place.
LEMMA SamePlace ==
  ASSUME Rows, NEW a \in nodes, NEW b \in nodes, Index(a) = Index(b)
  PROVE  a = b
<1> SUFFICES ASSUME a # b PROVE FALSE
  OBVIOUS
<1>1. Before(a, b) \/ Before(b, a)
  BY BeforeIsOrder DEF Rows
<1>2. Index(a) \in Int /\ Index(b) \in Int
  BY IndexInList
<1>3. QED
  BY <1>1, <1>2, IndexByOrder

\* Every place in the list is some node's.
LEMMA RowIsNode ==
  ASSUME Rows, NEW i \in 0 .. Cardinality(nodes) - 1
  PROVE  Row(i) \in nodes /\ Index(Row(i)) = i
<1> DEFINE places == 0 .. Cardinality(nodes) - 1
           place == [h \in nodes |-> Index(h)]
<1>1. IsFiniteSet(nodes) /\ nodes \subseteq Hosts /\ Cardinality(nodes) \in Nat
  BY FS_CardinalityType DEF Rows
<1>2. IsFiniteSet(places) /\ Cardinality(places) = Cardinality(nodes)
  <2>1. Cardinality(nodes) - 1 \in Int /\ 0 \in Int
    BY <1>1
  <2>2. QED
    BY <1>1, <2>1, FS_Interval
<1>3. place \in [nodes -> places]
  BY IndexInList
<1>4. \A a, b \in nodes : place[a] = place[b] => a = b
  BY SamePlace
<1>5. place \in Injection(nodes, places)
  BY <1>3, <1>4 DEF Injection, IsInjective
<1> HIDE DEF places
<1>6. place \in Surjection(nodes, places)
  <2> HIDE DEF place
  <2>1. QED
    BY <1>2, <1>5, FS_Injection
<1>7. \E h \in nodes : Index(h) = i
  BY <1>6 DEF Surjection, places
<1>8. QED
  BY <1>7 DEF Row

-----------------------------------------------------------------------------
(* The highlight. *)

\* A clamped number is within its bounds.
LEMMA ClampType ==
  ASSUME NEW i \in Int, NEW high \in Nat
  PROVE  Clamp(i, 0, high) \in 0 .. high
<1>1. Min({i, high}) \in Int /\ Min({i, high}) <= high
  BY DEF Min
<1> DEFINE m == Min({i, high})
<1> HIDE DEF m
<1>2. Max({0, m}) \in {0, m} /\ Max({0, m}) >= 0
  BY <1>1 DEF Max, m
<1>3. QED
  BY <1>1, <1>2 DEF Clamp, m

\* A move lands on a row there is.
LEMMA TargetIsThere ==
  ASSUME Rows, nodes # {}, NEW delta \in Int
  PROVE  Target(delta) \in nodes
<1>1. PICK h \in nodes : TRUE
  OBVIOUS
<1>2. Cardinality(nodes) \in Nat \ {0}
  BY <1>1, IndexInList
<1>3. CASE selected \in nodes
  <2>1. Index(selected) + delta \in Int
    BY <1>2, <1>3, IndexInList
  <2>2. Clamp(Index(selected) + delta, 0, Cardinality(nodes) - 1) \in 0 .. Cardinality(nodes) - 1
    <3>1. Cardinality(nodes) - 1 \in Nat
      BY <1>2
    <3>2. QED
      BY <2>1, <3>1, ClampType, Zenon
  <2>3. QED
    BY <1>3, <2>2, RowIsNode DEF Target
<1>4. CASE selected \notin nodes
  <2>1. (IF delta < 0 THEN Cardinality(nodes) - 1 ELSE 0) \in 0 .. Cardinality(nodes) - 1
    BY <1>2
  <2>2. QED
    BY <1>4, <2>1, RowIsNode DEF Target
<1>5. QED
  BY <1>3, <1>4

\* What the highlight is inductive with: the shape of the list it is in.
HighlightInv == Rows /\ detail \in BOOLEAN /\ HighlightIsThere

\* When nodes come and go, the highlight is still on one there is.
LEMMA UpdateKeepsHighlight ==
  ASSUME HighlightInv, Update
  PROVE  HighlightInv'
<1>1. IsFiniteSet(nodes')
  <2>1. \A h \in Hosts : IsFiniteSet(nodes \cup {h}) /\ IsFiniteSet(nodes \ {h})
    BY FS_AddElement, FS_RemoveElement DEF HighlightInv, Rows
  <2>2. \/ nodes' \in {nodes, {}}
        \/ \E h \in Hosts : nodes' \in {nodes \cup {h}, nodes \ {h}}
    BY DEF Update, HighlightInv, Rows
  <2>3. QED
    BY <2>1, <2>2, FS_EmptySet DEF HighlightInv, Rows
<1>2. /\ nodes' \subseteq Hosts
      /\ figure' \in [Hosts -> Figures \cup {NoFigure}]
  BY DEF Update, HighlightInv, Rows
<1>3. HighlightIsThere' /\ detail' \in BOOLEAN
  <2>1. detail \in BOOLEAN /\ (detail => selected \in nodes) /\ nodes \subseteq Hosts
    BY DEF HighlightInv, HighlightIsThere, Rows
  <2>2. CASE selected # NoHost /\ selected \notin nodes'
    <3>1. selected' = NoHost /\ detail' = FALSE
      BY <2>1, <2>2 DEF Update, Prune
    <3>2. QED
      BY <3>1 DEF HighlightIsThere
  <2>3. CASE ~(selected # NoHost /\ selected \notin nodes')
    <3>1. selected' = selected /\ detail' = detail
      BY <2>1, <2>3 DEF Update, Prune
    <3>2. detail => selected # NoHost
      BY <2>1
    <3>3. QED
      BY <2>1, <2>3, <3>1, <3>2 DEF HighlightIsThere
  <2>4. QED
    BY <2>2, <2>3
<1>4. QED
  BY <1>1, <1>2, <1>3 DEF HighlightInv, Rows

\* No key moves the highlight off the list.
LEMMA KeyKeepsHighlight ==
  ASSUME HighlightInv, NEW key \in Keys, OnKey(key)
  PROVE  HighlightInv'
<1> USE DEF HighlightInv
<1>1. UNCHANGED cluster
  <2>1. CASE confirmQuit
    BY <2>1 DEF OnKey, AtPrompt
  <2>2. CASE \/ Unwind \/ ToggleHelp \/ CloseDetail
             \/ SetSort(SortFor(key)) \/ ScrollDetail(Delta(key))
    BY <2>2, Zenon DEF Unwind, ToggleHelp, CloseDetail, SetSort, ScrollDetail
  <2>3. CASE MoveSelection(Delta(key)) \/ OpenDetail
    BY <2>3 DEF MoveSelection, OpenDetail
  <2>4. CASE Refresh \/ ForceQuit \/ Ignored
    BY <2>4 DEF Refresh, ForceQuit, Ignored, screen, cluster
  <2>5. QED
    BY <2>1, <2>2, <2>3, <2>4 DEF OnKey
<1>2. Rows'
  BY <1>1 DEF cluster, Rows
<1>3. \A delta \in Int : nodes # {} => Target(delta) \in nodes /\ Target(delta) # NoHost
  BY TargetIsThere DEF Rows
<1>4. CASE UNCHANGED <<selected, detail>>
  BY <1>1, <1>2, <1>4 DEF cluster, HighlightIsThere
<1>5. CASE Unwind \/ CloseDetail
  <2>1. \/ selected' = NoHost /\ detail' = detail /\ ~detail
        \/ selected' = selected /\ detail' = FALSE
        \/ UNCHANGED <<selected, detail>>
    BY <1>5, Zenon DEF Unwind, CloseDetail
  <2>2. selected' # NoHost => selected' \in nodes
    BY <2>1 DEF HighlightIsThere
  <2>3. detail' \in BOOLEAN /\ (detail' => selected' \in nodes)
    <3>1. CASE selected' = NoHost /\ detail' = detail /\ ~detail
      BY <3>1
    <3>2. CASE selected' = selected /\ detail' = FALSE
      BY <3>2
    <3>3. CASE UNCHANGED <<selected, detail>>
      <4>1. selected' = selected /\ detail' = detail
        BY <3>3
      <4>2. QED
        BY <4>1 DEF HighlightIsThere
    <3>4. QED
      BY <2>1, <3>1, <3>2, <3>3
  <2>4. QED
    BY <1>1, <1>2, <2>2, <2>3 DEF cluster, HighlightIsThere
<1>6. CASE key \in Arrows /\ ~detail /\ MoveSelection(Delta(key))
  <2>1. Delta(key) \in Int
    BY <1>6 DEF Delta, Arrows
  <2>2. detail' = detail /\ (selected' = NoHost \/ selected' \in nodes)
    BY <1>3, <1>6, <2>1 DEF MoveSelection
  <2>3. QED
    BY <1>1, <1>2, <1>6, <2>2 DEF cluster, HighlightIsThere
<1>7. CASE OpenDetail
  <2>1. selected' # NoHost => selected' \in nodes
    BY <1>3, <1>7 DEF OpenDetail, HighlightIsThere
  <2>2. detail' = (selected' # NoHost)
    BY <1>7 DEF OpenDetail
  <2>3. QED
    BY <1>1, <1>2, <2>1, <2>2 DEF cluster, HighlightIsThere
<1>8. QED
  BY <1>4, <1>5, <1>6, <1>7 DEF OnKey, AtPrompt, ForceQuit, Refresh, ToggleHelp,
     ScrollDetail, Ignored, SetSort, screen

\* The list is in order and the highlight is on it, always.
THEOREM HighlightInvHolds == Spec => []HighlightInv
<1>1. Init => HighlightInv
  BY FS_EmptySet DEF Init, HighlightInv, Rows, HighlightIsThere
<1>2. HighlightInv /\ [Next]_vars => HighlightInv'
  <2> SUFFICES ASSUME HighlightInv, [Next]_vars PROVE HighlightInv'
    OBVIOUS
  <2>1. CASE Update
    BY <2>1, UpdateKeepsHighlight
  <2>2. ASSUME NEW key \in Keys, OnKey(key) PROVE HighlightInv'
    BY <2>2, KeyKeepsHighlight
  <2>3. CASE Tick \/ Resize \/ Paint \/ UNCHANGED vars
    <3>1. UNCHANGED <<nodes, figure, selected, detail>>
      BY <2>3 DEF Tick, Resize, Paint, vars, screen, cluster
    <3>2. QED
      BY <3>1 DEF HighlightInv, Rows, HighlightIsThere
  <2>4. QED
    BY <2>1, <2>2, <2>3 DEF Next
<1>3. QED
  BY <1>1, <1>2, PTL DEF Spec

\* The highlight and the detail view are of a node that is there, whatever joins,
\* leaves, resets or re-sorts under them and wherever the keys move them.
THEOREM HighlightStays == Spec => []HighlightIsThere
<1>1. HighlightInv => HighlightIsThere
  BY DEF HighlightInv
<1>2. QED
  BY <1>1, HighlightInvHolds, PTL

\* A key down never moves the highlight up, and from anywhere but the last row
\* moves it, in a list of any length and however it is sorted.
THEOREM DownIsDown == Spec => DownGoesDown
<1> DEFINE Lower(key) ==
      ~detail /\ ~confirmQuit /\ selected # NoHost /\ OnKey(key) =>
        \/ Index(selected') > Index(selected)
        \/ Index(selected) = Cardinality(nodes) - 1 /\ selected' = selected
<1>1. ASSUME HighlightInv, NEW key \in {"Down", "PageDown"} PROVE Lower(key)
  <2> SUFFICES ASSUME ~detail, ~confirmQuit, selected # NoHost, OnKey(key)
               PROVE  \/ Index(selected') > Index(selected)
                      \/ Index(selected) = Cardinality(nodes) - 1 /\ selected' = selected
    OBVIOUS
  <2> DEFINE last == Cardinality(nodes) - 1
             here == Index(selected)
             delta == Delta(key)
  <2>1. selected \in nodes /\ Rows
    BY <1>1 DEF HighlightInv, HighlightIsThere
  <2>2. delta \in Nat \ {0}
    BY <1>1 DEF Delta
  <2>3. last \in Nat /\ here \in 0 .. last
    BY <2>1, IndexInList
  <2>4. MoveSelection(delta)
    BY <1>1 DEF OnKey, Arrows, Sorts
  <2> HIDE DEF last, here, delta
  <2>5. Clamp(here + delta, 0, last) = IF here + delta <= last THEN here + delta ELSE last
    <3>1. Min({here + delta, last}) = IF here + delta <= last THEN here + delta ELSE last
      BY <2>2, <2>3 DEF Min
    <3> DEFINE m == Min({here + delta, last})
    <3>2. m \in Nat
      BY <2>2, <2>3, <3>1
    <3> HIDE DEF m
    <3>3. Max({0, m}) = m
      BY <3>2 DEF Max
    <3>4. QED
      BY <3>1, <3>3 DEF Clamp, m
  <2> DEFINE there == IF here + delta <= last THEN here + delta ELSE last
  <2>6. selected' = Row(there)
    BY <2>1, <2>4, <2>5 DEF MoveSelection, Target, here, last
  <2>7. there \in 0 .. last
    BY <2>2, <2>3
  <2>8. Index(selected') = there
    BY <2>1, <2>6, <2>7, RowIsNode DEF last
  <2>9. CASE here < last
    BY <2>2, <2>3, <2>8, <2>9 DEF here
  <2>10. CASE here = last
    <3>1. selected' \in nodes
      BY <2>1, <2>6, <2>7, RowIsNode DEF last
    <3>2. Index(selected') = Index(selected)
      BY <2>2, <2>3, <2>8, <2>10 DEF here
    <3>3. selected' = selected
      BY <2>1, <3>1, <3>2, SamePlace
    <3>4. QED
      BY <2>10, <3>3 DEF here, last
  <2>11. QED
    BY <2>3, <2>9, <2>10
<1>2. HighlightInv /\ [Next]_vars => [\A key \in {"Down", "PageDown"} : Lower(key)]_vars
  BY <1>1
<1>3. QED
  BY <1>2, HighlightInvHolds, PTL DEF Spec, DownGoesDown

-----------------------------------------------------------------------------
(* Types. *)

\* The rest of the state: the layers are there or not, the scroll is a u16.
Rest == /\ sort \in SortKeys
        /\ {detail, help, confirmQuit, shouldQuit, dirty, stale} \subseteq BOOLEAN
        /\ scroll \in 0 .. ScrollSize - 1 /\ maxScroll \in 0 .. ScrollSize - 1

\* An offset that leaves the range of a u16 wraps into it.
LEMMA ScrollWraps ==
  ASSUME Rest, NEW delta \in Int
  PROVE  Max({scroll + delta, 0}) % ScrollSize \in 0 .. ScrollSize - 1
<1>1. scroll + delta \in Int
  BY DEF Rest
<1> DEFINE sum == scroll + delta
           top == Max({sum, 0})
<1> HIDE DEF sum
<1>2. top \in Nat
  BY <1>1 DEF Max, sum
<1> HIDE DEF top
<1>3. top % ScrollSize \in 0 .. ScrollSize - 1
  BY <1>2
<1>4. QED
  BY <1>3 DEF top, sum

\* What a key changes on screen, it marks to be painted.
LEMMA KeyKeepsRest ==
  ASSUME Rest, NEW key \in Keys, OnKey(key), Outdates
  PROVE  Rest'
<1>1. UNCHANGED maxScroll /\ stale' \in BOOLEAN
  BY Zenon DEF OnKey, Outdates
<1>2. sort' \in SortKeys
  <2>1. SortFor(key) \in SortKeys \/ key \notin Sorts
    BY DEF Rest, SortFor, NextSort, SortKeys, Sorts
  <2>2. sort' = sort \/ (key \in Sorts /\ sort' = SortFor(key))
    BY DEF OnKey, AtPrompt, ForceQuit, Unwind, Refresh, ToggleHelp, ScrollDetail,
       Ignored, CloseDetail, MoveSelection, SetSort, OpenDetail, screen, Keys, Sorts
  <2>3. QED
    BY <2>1, <2>2 DEF Rest
<1>3. scroll' \in 0 .. ScrollSize - 1
  <2>1. CASE key \in Arrows /\ detail /\ ScrollDetail(Delta(key))
    <3>1. Delta(key) \in Int
      BY <2>1 DEF Delta, Arrows
    <3>2. QED
      BY <2>1, <3>1, ScrollWraps DEF ScrollDetail
  <2>2. CASE scroll' = scroll \/ scroll' = 0
    BY <2>2 DEF Rest
  <2>3. QED
    BY <2>1, <2>2 DEF OnKey, AtPrompt, ForceQuit, Unwind, Refresh, ToggleHelp,
       Ignored, CloseDetail, MoveSelection, SetSort, OpenDetail, screen
<1>4. {detail', help', confirmQuit', shouldQuit', dirty'} \subseteq BOOLEAN
  <2>1. {detail, help, confirmQuit, shouldQuit, dirty} \subseteq BOOLEAN
    BY DEF Rest
  <2>2. CASE AtPrompt(key)
    BY <2>1, <2>2 DEF AtPrompt, Marked
  <2>3. CASE Unwind
    BY <2>1, <2>3 DEF Unwind, Marked
  <2>4. CASE OpenDetail
    BY <2>1, <2>4 DEF OpenDetail
  <2>5. CASE ForceQuit \/ Refresh \/ ToggleHelp \/ Ignored \/ CloseDetail
    BY <2>1, <2>5 DEF ForceQuit, Refresh, ToggleHelp, Ignored, CloseDetail, Marked, screen
  <2>6. CASE ScrollDetail(Delta(key)) \/ MoveSelection(Delta(key)) \/ SetSort(SortFor(key))
    BY <2>1, <2>6 DEF ScrollDetail, MoveSelection, SetSort, Marked
  <2>7. QED
    BY <2>2, <2>3, <2>4, <2>5, <2>6 DEF OnKey
<1>5. QED
  BY <1>1, <1>2, <1>3, <1>4 DEF Rest

\* The state is of its types in every behaviour; the scroll, an isize while it is
\* moved, is a u16 whenever it is kept.
THEOREM AppTypes == Spec => []TypeOK
<1>1. Init => Rest
  <2> SUFFICES ASSUME Init PROVE Rest
    OBVIOUS
  <2>1. sort \in SortKeys
    BY DEF Init, SortKeys
  <2>2. {detail, help, confirmQuit, shouldQuit, dirty, stale} \subseteq BOOLEAN
    BY DEF Init
  <2>3. scroll = 0 /\ maxScroll = 0
    BY DEF Init
  <2>4. 0 \in 0 .. ScrollSize - 1
    OBVIOUS
  <2>5. QED
    BY <2>1, <2>2, <2>3, <2>4 DEF Rest
<1>2. Rest /\ [Next]_vars => Rest'
  <2> SUFFICES ASSUME Rest, [Next]_vars PROVE Rest'
    OBVIOUS
  <2>1. ASSUME Update, Outdates PROVE Rest'
    <3>1. UNCHANGED <<sort, scroll, help, confirmQuit, shouldQuit, maxScroll>>
      BY <2>1, Zenon DEF Update
    <3>2. detail' \in BOOLEAN
      BY <2>1 DEF Update, Prune, Rest
    <3>3. dirty' = TRUE /\ stale' \in BOOLEAN
      BY <2>1, Zenon DEF Update, Marked, Outdates
    <3>4. QED
      BY <3>1, <3>2, <3>3 DEF Rest
  <2>2. ASSUME NEW key \in Keys, OnKey(key), Outdates PROVE Rest'
    BY <2>2, KeyKeepsRest
  <2>3. ASSUME Tick \/ Resize, Outdates PROVE Rest'
    <3>1. dirty' = TRUE /\ stale' \in BOOLEAN
      BY <2>3, Zenon DEF Tick, Resize, Marked, Outdates
    <3>2. QED
      BY <2>3, <3>1 DEF Tick, Resize, screen, Rest
  <2>4. CASE Paint
    <3>1. maxScroll' \in 0 .. ScrollSize - 1
      BY <2>4 DEF Paint, Rest
    <3>2. scroll' \in 0 .. ScrollSize - 1
      BY <2>4, <3>1 DEF Paint, Clamped, Min, Rest
    <3>3. dirty' \in BOOLEAN /\ stale' \in BOOLEAN
      <4>1. (scroll > maxScroll') \in BOOLEAN
        BY <3>1 DEF Rest
      <4>2. QED
        BY <2>4, <4>1, Zenon DEF Paint
    <3>4. UNCHANGED <<sort, detail, help, confirmQuit, shouldQuit>>
      BY <2>4 DEF Paint
    <3>5. QED
      BY <3>1, <3>2, <3>3, <3>4 DEF Rest
  <2>5. CASE UNCHANGED vars
    BY <2>5 DEF vars, screen, Rest
  <2>6. QED
    BY <2>1, <2>2, <2>3, <2>4, <2>5 DEF Next
<1>3. HighlightInv /\ Rest => TypeOK
  BY DEF HighlightInv, Rows, HighlightIsThere, Rest, TypeOK
<1>4. QED
  BY <1>1, <1>2, <1>3, HighlightInvHolds, PTL DEF Spec

USE ScreenAssumption

-----------------------------------------------------------------------------
(* A terminal is one more thing App does not notice. *)

\* Every step of the screen is a step of App or changes nothing App has.
LEMMA StepIsStep == [ScreenNext]_screenVars => [Next]_vars
<1> SUFFICES ASSUME [ScreenNext]_screenVars PROVE [Next]_vars
  OBVIOUS
<1>1. CASE ~shouldQuit /\ Draw
  BY <1>1 DEF Draw, Next
<1>2. CASE ~shouldQuit /\ (Update \/ Tick \/ \E key \in Keys : OnKey(key)) /\ Outdates
  BY <1>2 DEF Next
<1>3. CASE ~shouldQuit /\ (\E t \in Terminals : ResizeTo(t)) /\ Outdates
  BY <1>3 DEF ResizeTo, Next
<1>4. CASE UNCHANGED screenVars
  BY <1>4 DEF screenVars
<1>5. QED
  BY <1>1, <1>2, <1>3, <1>4 DEF ScreenNext

\* On a terminal whose size changes and over a table that scrolls, the screen is
\* still App: what is proved of App holds of what is painted.
THEOREM ScreenIsApp == ScreenSpec => Spec
<1>1. ScreenInit => Init
  BY DEF ScreenInit
<1>2. QED
  BY <1>1, StepIsStep, PTL DEF ScreenSpec, Spec

\* The promises of App are kept by what is painted.
THEOREM AppOnScreen ==
  ScreenSpec => /\ [](HighlightIsThere /\ PromptOverBareScreen /\ NothingUnpainted)
                /\ DownGoesDown
  BY ScreenIsApp, HighlightStays, PromptIsLast, EverythingIsPainted, DownIsDown, PTL

\* Whatever is on the terminal, the highlight is of a node that is there.
LEMMA ListInv == ScreenSpec => []HighlightInv
  BY ScreenIsApp, HighlightInvHolds, PTL

-----------------------------------------------------------------------------
(* The band. *)

\* The terminal keeps a size that terminals have.
LEMMA SizeInv == ScreenSpec => [](size \in Terminals)
<1>1. ScreenInit => size \in Terminals
  BY DEF ScreenInit
<1>2. size \in Terminals /\ [ScreenNext]_screenVars => (size \in Terminals)'
  BY DEF ScreenNext, Draw, ResizeTo, screenVars
<1>3. QED
  BY <1>1, <1>2, PTL DEF ScreenSpec

\* The table that is painted has at least a row.
LEMMA Drawn ==
  ASSUME HighlightInv, size \in Terminals
  PROVE  /\ Count \in Nat /\ size.h \in Nat /\ size.h >= 6
         /\ TableRows(size.h, Count) \in Nat \ {0}
<1>1. Count \in Nat
  BY FS_CardinalityType DEF HighlightInv, Rows, Count
<1>2. size.h \in Nat /\ size.h >= 6
  BY DEF ScreenAssumption
<1>3. QED
  BY <1>1, <1>2, TableKeepsPriority

\* The band leaves the table the rows it wants and fills what it has taken, on
\* every terminal of at least six rows and with any number of nodes.
THEOREM BandInPlace == ScreenSpec => []BandKeepsItsPlace
<1>1. HighlightInv /\ size \in Terminals => BandKeepsItsPlace
  <2> SUFFICES ASSUME HighlightInv, size \in Terminals PROVE BandKeepsItsPlace
    OBVIOUS
  <2> DEFINE height == BandHeight(size.h, Count)
  <2>1. Count \in Nat /\ size.h \in Nat /\ size.h >= 6
    BY Drawn
  <2>2. /\ size.h >= 12 => TableRows(size.h, Count) >= Smaller(Count + 1, 2)
        /\ height > BandWith(BandFloor(size.h), size.h) => TableRows(size.h, Count) > Count
    BY <2>1, TableKeepsPriority
  <2>3. ASSUME height > 5
        PROVE  LET rows  == SeriesRows(height - 2 - SEPARATOR_ROWS)
                   lines == BandLines(height - 2)
               IN /\ rows.jobs >= 2 /\ rows.side >= 2
                  /\ Len(lines) = height - 2
                  /\ \A k \in DOMAIN lines : lines[k] = "blank" <=> k - 1 \in Rules(height - 2)
    <3>1. height \in Nat /\ height - 2 >= 3 * SERIES_ROWS_TALL + SEPARATOR_ROWS
      BY <2>1, <2>3, BandType, TallBand
    <3> HIDE DEF height
    <3>2. height - 2 \in Nat
      BY <3>1 DEF SERIES_ROWS_TALL, SEPARATOR_ROWS
    <3>3. /\ height - 2 - SEPARATOR_ROWS \in Nat
          /\ height - 2 - SEPARATOR_ROWS >= 3 * SERIES_ROWS_TALL
      BY <3>1 DEF SERIES_ROWS_TALL, SEPARATOR_ROWS
    <3>4. QED
      BY <3>1, <3>2, <3>3, SeriesShare, BandFillsItsFrame
  <2>4. QED
    BY <2>2, <2>3 DEF BandKeepsItsPlace
<1>2. QED
  BY <1>1, ListInv, SizeInv, PTL

-----------------------------------------------------------------------------
(* The table. *)

\* Any step but a paint either asks for one or leaves what is drawn as it was.
LEMMA AsksForPaint ==
  ASSUME HighlightInv, dirty \in BOOLEAN, [ScreenNext]_screenVars
  PROVE  \/ Draw
         \/ dirty' = TRUE /\ UNCHANGED <<offset, maxScroll>>
         \/ UNCHANGED <<screen, size, offset, maxScroll, dirty>>
<1>1. nodes = {} => selected = NoHost
  BY DEF HighlightInv, HighlightIsThere
<1>2. ASSUME NEW key \in Keys, OnKey(key), UNCHANGED <<size, offset>>
      PROVE  \/ dirty' = TRUE /\ UNCHANGED <<offset, maxScroll>>
             \/ UNCHANGED <<screen, size, offset, maxScroll, dirty>>
  <2>1. dirty' = TRUE \/ (screen' = screen /\ dirty' = dirty)
    BY <1>1, <1>2, KeyMarks DEF HighlightInv
  <2>2. maxScroll' = maxScroll
    BY <1>2 DEF OnKey
  <2>3. QED
    BY <1>2, <2>1, <2>2
<1>3. CASE (Update \/ Tick) /\ UNCHANGED <<size, offset>>
  BY <1>3 DEF Update, Tick, Marked
<1>4. ASSUME NEW t \in Terminals, ResizeTo(t)
      PROVE  dirty' = TRUE /\ UNCHANGED <<offset, maxScroll>>
  BY <1>4 DEF ResizeTo, Resize, Marked
<1>5. CASE UNCHANGED screenVars
  BY <1>5 DEF screenVars, vars
<1>6. QED
  BY <1>2, <1>3, <1>4, <1>5 DEF ScreenNext

TableInv == dirty \in BOOLEAN /\ offset \in Nat /\ HighlightOnScreen

\* Painting brings the highlighted row into view.
LEMMA DrawShowsHighlight ==
  ASSUME HighlightInv, size \in Terminals, TableInv, Draw
  PROVE  TableInv'
<1>1. Count \in Nat /\ TableRows(size.h, Count) \in Nat \ {0}
  BY Drawn
<1>2. UNCHANGED <<cluster, sort, selected, detail, size>>
  BY DEF Draw, Paint
<1>3. /\ Index(selected)' = Index(selected)
      /\ TableRows(size.h, Count)' = TableRows(size.h, Count)
  BY <1>2 DEF cluster, Index, Before, Count
<1>4. dirty' \in BOOLEAN
  BY DEF Draw, Paint
<1>5. CASE detail
  BY <1>2, <1>4, <1>5 DEF Draw, TableInv, HighlightOnScreen
<1>6. CASE ~detail /\ selected \notin nodes
  <2>1. selected = NoHost /\ offset' = 0
    BY <1>6 DEF HighlightInv, HighlightIsThere, Draw, NewOffset
  <2>2. QED
    BY <1>2, <1>4, <2>1 DEF TableInv, HighlightOnScreen
<1>7. CASE ~detail /\ selected \in nodes
  <2> DEFINE rows  == TableRows(size.h, Count)
             start == Smaller(offset, Count - 1)
             i     == Index(selected)
  <2>1. i \in 0 .. Count - 1
    BY <1>7, IndexInList DEF HighlightInv, Count
  <2>2. start \in Nat
    BY <1>1, <2>1 DEF TableInv, Smaller
  <2>3. offset' = IF i < start THEN i ELSE Larger(start, i - rows + 1)
    BY <1>7 DEF Draw, NewOffset, SelectedIndex
  <2> HIDE DEF rows, start, i
  <2>4. offset' \in Nat /\ i \in offset' .. offset' + rows - 1
    BY <1>1, <2>1, <2>2, <2>3 DEF Larger, rows
  <2>5. QED
    BY <1>3, <1>4, <2>4 DEF TableInv, HighlightOnScreen, rows, i
<1>8. QED
  BY <1>5, <1>6, <1>7 DEF HighlightInv

\* What is painted has the highlighted row in it, whatever re-sorted, left or
\* was resized since the last paint.
THEOREM HighlightIsPainted == ScreenSpec => []HighlightOnScreen
<1>1. ScreenInit => TableInv
  BY DEF ScreenInit, Init, TableInv, HighlightOnScreen
<1>2. HighlightInv /\ size \in Terminals /\ TableInv /\ [ScreenNext]_screenVars => TableInv'
  <2> SUFFICES ASSUME HighlightInv, size \in Terminals, TableInv, [ScreenNext]_screenVars
               PROVE  TableInv'
    OBVIOUS
  <2>1. CASE Draw
    BY <2>1, DrawShowsHighlight
  <2>2. CASE dirty' = TRUE /\ UNCHANGED <<offset, maxScroll>>
    BY <2>2 DEF TableInv, HighlightOnScreen
  <2>3. CASE UNCHANGED <<screen, size, offset, maxScroll, dirty>>
    BY <2>3 DEF TableInv, HighlightOnScreen, screen, Index, Before, Count
  <2>4. QED
    BY <2>1, <2>2, <2>3, AsksForPaint DEF TableInv
<1>3. TableInv => HighlightOnScreen
  BY DEF TableInv
<1>4. QED
  BY <1>1, <1>2, <1>3, ListInv, SizeInv, PTL DEF ScreenSpec

-----------------------------------------------------------------------------
(* The detail view. *)

\* The detail view has a line.
LEMMA ViewLinesType ==
  ASSUME HighlightInv, selected \in nodes
  PROVE  ViewLines(selected) \in Nat \ {0}
<1>1. Running(selected) \in Nat
  BY DEF HighlightInv, Rows, Running
<1>2. QED
  BY <1>1 DEF ViewLines, DetailLines, StatusLines, JobsLines, Larger, Shown

\* How far the view is scrolled is a number of lines.
LEMMA OffsetType ==
  ASSUME scroll \in Nat, maxScroll \in Nat, [Next]_vars
  PROVE  scroll' \in Nat /\ maxScroll' \in Nat
<1>1. CASE Paint
  <2>1. maxScroll' \in Nat
    <3>1. maxScroll' \in Viewports \/ maxScroll' = maxScroll
      BY <1>1, Zenon DEF Paint
    <3>2. Viewports \subseteq Nat
      OBVIOUS
    <3>3. QED
      BY <3>1, <3>2
  <2>2. scroll' \in {scroll, maxScroll'}
    BY <1>1, <2>1 DEF Paint, Clamped, Min
  <2>3. QED
    BY <2>1, <2>2
<1>2. ASSUME NEW key \in Keys, OnKey(key) PROVE scroll' \in Nat /\ maxScroll' \in Nat
  <2>1. ASSUME NEW delta \in Int, ScrollDetail(delta) PROVE scroll' \in Nat
    <3>1. Max({scroll + delta, 0}) \in Nat
      BY DEF Max
    <3>2. QED
      BY <2>1, <3>1 DEF ScrollDetail
  <2>2. key \in Arrows => Delta(key) \in Int
    BY DEF Arrows, Delta
  <2>3. scroll' \in Nat \/ scroll' = scroll \/ scroll' = 0
    BY <1>2, <2>1, <2>2 DEF OnKey, AtPrompt, ForceQuit, Unwind, Refresh, ToggleHelp,
       Ignored, CloseDetail, MoveSelection, SetSort, OpenDetail, screen
  <2>4. QED
    BY <1>2, <2>3 DEF OnKey
<1>3. CASE Update \/ Tick \/ Resize \/ UNCHANGED vars
  BY <1>3 DEF Update, Tick, Resize, vars, screen
<1>4. QED
  BY <1>1, <1>2, <1>3 DEF Next

\* What is painted of a detail view is what can be scrolled back from.
ViewInv ==
  /\ dirty \in BOOLEAN /\ scroll \in Nat /\ maxScroll \in Nat
  /\ detail /\ ~dirty =>
       maxScroll = MaxScroll(ViewLines(selected), size.h) /\ scroll <= maxScroll

\* Painting leaves the view scrolled to one of its lines.
LEMMA DrawClampsView ==
  ASSUME HighlightInv, size \in Terminals, ViewInv, Draw, [ScreenNext]_screenVars
  PROVE  ViewInv'
<1>1. UNCHANGED <<figure, selected, detail, size>>
  BY DEF Draw, Paint, cluster
<1>2. scroll' \in Nat /\ maxScroll' \in Nat
  BY OffsetType, StepIsStep DEF ViewInv
<1>3. dirty' \in BOOLEAN /\ scroll' = Clamped(maxScroll')
  BY DEF Draw, Paint
<1>4. scroll' <= maxScroll'
  BY <1>2, <1>3 DEF Clamped, Min, ViewInv
<1>5. detail => maxScroll' = MaxScroll(ViewLines(selected), size.h)
  BY DEF Draw
<1>6. MaxScroll(ViewLines(selected), size.h)' = MaxScroll(ViewLines(selected), size.h)
  BY <1>1 DEF ViewLines, Running
<1>7. QED
  BY <1>1, <1>2, <1>3, <1>4, <1>5, <1>6 DEF ViewInv

\* However the view's text grows or shrinks under it and whatever the terminal's
\* size is, the detail view shows what there is and its last line is in reach.
THEOREM DetailIsReadable == ScreenSpec => []DetailReachesEnd
<1>1. ScreenInit => ViewInv
  BY DEF ScreenInit, Init, ViewInv
<1>2. HighlightInv /\ size \in Terminals /\ ViewInv /\ [ScreenNext]_screenVars => ViewInv'
  <2> SUFFICES ASSUME HighlightInv, size \in Terminals, ViewInv, [ScreenNext]_screenVars
               PROVE  ViewInv'
    OBVIOUS
  <2>1. CASE Draw
    BY <2>1, DrawClampsView
  <2>2. scroll' \in Nat /\ maxScroll' \in Nat
    BY OffsetType, StepIsStep DEF ViewInv
  <2>3. CASE dirty' = TRUE /\ UNCHANGED <<offset, maxScroll>>
    BY <2>2, <2>3 DEF ViewInv
  <2>4. CASE UNCHANGED <<screen, size, offset, maxScroll, dirty>>
    <3>1. UNCHANGED <<figure, selected, detail, scroll, maxScroll, dirty, size>>
      BY <2>4 DEF screen
    <3>2. MaxScroll(ViewLines(selected), size.h)' = MaxScroll(ViewLines(selected), size.h)
      BY <3>1 DEF ViewLines, Running
    <3>3. QED
      BY <2>2, <3>1, <3>2 DEF ViewInv
  <2>5. QED
    BY <2>1, <2>3, <2>4, AsksForPaint DEF ViewInv
<1>3. HighlightInv /\ size \in Terminals /\ ViewInv => DetailReachesEnd
  <2> SUFFICES ASSUME HighlightInv, size \in Terminals, ViewInv, detail, ~dirty
               PROVE  DetailReachesEnd
    BY DEF DetailReachesEnd
  <2>1. ViewLines(selected) \in Nat \ {0}
    BY ViewLinesType DEF HighlightInv, HighlightIsThere
  <2>2. size.h \in Nat
    BY Drawn
  <2>3. scroll \in Nat /\ scroll <= MaxScroll(ViewLines(selected), size.h)
        /\ maxScroll = MaxScroll(ViewLines(selected), size.h)
    BY DEF ViewInv
  <2>4. QED
    BY <2>1, <2>2, <2>3, PaneReachesEnd DEF DetailReachesEnd
<1>4. QED
  BY <1>1, <1>2, <1>3, ListInv, SizeInv, PTL DEF ScreenSpec

-----------------------------------------------------------------------------
(* The rows. *)

\* Whatever is said beside them, the graphs of a tall band begin in one column and end
\* at the frame.
LEMMA TallLinesUp ==
  ASSUME size.w \in Nat
  PROVE  GraphsLineUp
<1>1. SUFFICES ASSUME Dotted(BandHeight(size.h, Count) - 2, size.w - 2), NEW digits \in {1, 5, 10}
      PROVE  /\ \A used \in HeadsOf(digits) \cup NotesOf(digits) :
                  SeriesLine(used, size.w - 2) = size.w - 2
             /\ \A used \in HeadsOf(digits) : used <= BAND_LEFT - BAND_GUTTER
             /\ digits = 1 => \A used \in NotesOf(digits) : used <= BAND_LEFT - BAND_GUTTER
  BY DEF GraphsLineUp
<1>2. size.w >= BAND_LEFT + 2
  BY <1>1 DEF Dotted, Less, BAND_LEFT, BAND_MIN_GRAPH
<1>3. \A used \in HeadsOf(digits) : used \in Nat /\ used <= BAND_LEFT - BAND_GUTTER
  BY DEF HeadsOf, SlotsHead, QueueHead, RateHead, Begin, Larger, LABEL, BAND_VALUE_WIDTH,
         BAND_LEFT, BAND_GUTTER
<1>4. \A used \in NotesOf(digits) :
        used \in Nat /\ (digits = 1 => used <= BAND_LEFT - BAND_GUTTER)
  <2>1. \A state \in {"young", "running", "over", "none"} :
          /\ BuildNote(state, digits, 6) \in Nat
          /\ digits = 1 => BuildNote(state, digits, 6) <= 22
    BY DEF BuildNote
  <2> QED BY <2>1 DEF NotesOf, SlotsNote, QueueNote, RateNote, LABEL, BAND_LEFT, BAND_GUTTER
<1>5. \A used \in Nat : SeriesLine(used, size.w - 2) = size.w - 2
  BY <1>2 DEF SeriesLine, Fit, Smaller, Less, BAND_LEFT, BAND_GUTTER
<1> QED BY <1>3, <1>4, <1>5

\* On every width from 27 cells on, the graphs of a low band begin in one column and
\* are within it; from 68 on nothing of a line is cut while there are few jobs.
LEMMA LowLinesUp ==
  ASSUME NEW inner \in Nat, inner >= 27
  PROVE  LET bar == CompactGraph(inner)
         IN /\ bar \in Nat /\ Begin(0) + bar <= inner
            /\ inner >= 68 =>
                 /\ CompactSlots(1, 1, 1, bar) <= inner
                 /\ CompactQueue(1, 1, 1, 1, bar) <= inner
                 /\ \A state \in {"young", "running", "over", "none"} :
                      CompactRate(1, 1, BuildNote(state, 1, 6), bar) <= inner
<1> DEFINE bar == CompactGraph(inner)
<1>1. /\ bar \in 10 .. 40
      /\ inner >= 68 => bar <= inner - 58
      /\ inner < 68 => bar = 10
  BY DEF CompactGraph, Within, Smaller, Larger, Less
<1> HIDE DEF bar
<1>2. Begin(0) = 17 /\ Begin(3) = 17 /\ Begin(6) = 17 /\ Begin(5) = 17
  BY DEF Begin, LABEL, BAND_VALUE_WIDTH, Larger
<1>3. \A state \in {"young", "running", "over", "none"} :
        BuildNote(state, 1, 6) \in Nat /\ BuildNote(state, 1, 6) <= 22
  BY DEF BuildNote
<1>4. bar \in Nat /\ Begin(0) + bar <= inner
  BY <1>1, <1>2
<1>5. ASSUME inner >= 68
      PROVE  /\ CompactSlots(1, 1, 1, bar) <= inner
             /\ CompactQueue(1, 1, 1, 1, bar) <= inner
  BY <1>1, <1>2, <1>5 DEF CompactSlots, CompactQueue
<1>6. ASSUME inner >= 68, NEW state \in {"young", "running", "over", "none"}
      PROVE  CompactRate(1, 1, BuildNote(state, 1, 6), bar) <= inner
  BY <1>1, <1>2, <1>3, <1>6 DEF CompactRate
<1> QED BY <1>4, <1>5, <1>6 DEF bar

\* The three lines of a low band.
LEMMA CompactLines == CompactLinesUp
<1> SUFFICES ASSUME NEW inner \in CompactWidths
    PROVE  LET bar == CompactGraph(inner)
               Lines(d) ==
                 {CompactSlots(d, d, d, bar), CompactQueue(d, d, d, d, bar)} \cup
                 {CompactRate(d, d, BuildNote(state, d, 6), bar) :
                    state \in {"young", "running", "over", "none"}}
           IN /\ \A d \in 1 .. 4 : {Begin(d + 1 + d), Begin(d + 5), Begin(d + 4)} = {Begin(0)}
              /\ Begin(0) + bar <= inner
              /\ inner >= 68 => \A line \in Lines(1) : line <= inner
  BY DEF CompactLinesUp
<1>1. inner \in Nat /\ inner >= 27
  BY DEF CompactWidths
<1>2. \A d \in 1 .. 4 : {Begin(d + 1 + d), Begin(d + 5), Begin(d + 4)} = {Begin(0)}
  BY DEF Begin, LABEL, BAND_VALUE_WIDTH, Larger
<1> QED BY <1>1, <1>2, LowLinesUp

\* The longest name on screen.
LEMMA LongestIsNat ==
  ASSUME HighlightInv
  PROVE  (IF nodes = {} THEN 0 ELSE Max({NameLength[h] : h \in nodes})) \in Nat
<1> DEFINE S == {NameLength[h] : h \in nodes}
<1>1. IsFiniteSet(nodes) /\ nodes \subseteq Hosts
  BY DEF HighlightInv, Rows
<1>2. S \subseteq Nat /\ IsFiniteSet(S)
  <2> DEFINE f == [h \in nodes |-> NameLength[h]]
  <2>1. S \subseteq Nat
    BY <1>1, ScreenAssumption
  <2>2. f \in Surjection(nodes, S)
    BY DEF Surjection
  <2> HIDE DEF f, S
  <2>3. IsFiniteSet(S)
    BY <1>1, <2>2, FS_Surjection
  <2> QED BY <2>1, <2>3
<1>3. CASE nodes # {}
  <2>1. S # {}
    BY <1>3
  <2> HIDE DEF S
  <2>2. \E x \in S : \A y \in S : x >= y
    BY <1>2, <2>1, GreatestOf
  <2>3. Max(S) \in S
    BY <2>2 DEF Max
  <2> QED BY <1>2, <1>3, <2>3 DEF S
<1> QED BY <1>3

\* Running jobs are counted.
LEMMA RunningIsNat ==
  ASSUME figure \in [Hosts -> Figures \cup {NoFigure}], NEW h \in Hosts
  PROVE  Running(h) \in Nat
BY DEF Running

\* The rows are read as they were written.
LEMMA RowsFit ==
  ASSUME HighlightInv, size \in Terminals, figure \in [Hosts -> Figures \cup {NoFigure}]
  PROVE  RowFits
<1> DEFINE longest == IF nodes = {} THEN 0 ELSE Max({NameLength[h] : h \in nodes})
           c == Columns(size.w, longest)
<1>1. size.w \in Nat /\ longest \in Nat
  BY LongestIsNat, ScreenAssumption
<1>2. nodes \subseteq Hosts
  BY DEF HighlightInv, Rows
<1>3. \A h \in Hosts : NameLength[h] \in Nat /\ Running(h) \in Nat
  BY RunningIsNat, ScreenAssumption
<1> HIDE DEF longest
<1>4. /\ c.name \in Nat /\ c.name >= 12 /\ c.bar \in {6, 8, 10, 12}
      /\ c.files \in Nat /\ (c.files > 0 => c.files >= MIN_FILES)
  <2>1. Spare(size.w) \in Nat /\ Widen(size.w, longest) \in Nat
        /\ 2 * Widen(size.w, longest) <= Spare(size.w)
    BY <1>1, WidenFits
  <2> QED BY <1>1, <2>1 DEF Columns, Breakpoint, Smaller, MIN_FILES, MAX_FILES
<1>5. /\ size.w >= 25 => TableWidth(c) <= size.w
      /\ size.w >= 108 => c.files >= MIN_FILES
  BY <1>1, ColumnsFit
<1>6. GraphsLineUp /\ CompactLinesUp
  BY <1>1, TallLinesUp, CompactLines
<1> HIDE DEF c
<1>7. ASSUME NEW h \in nodes
      PROVE  LET badge == Badge(h \in NoAck, h \in LocalOnly)
             IN /\ NameCell(NameLength[h], badge, c.name) <= c.name
                /\ NameLength[h] > 0 =>
                     NameCell(NameLength[h], badge, c.name) > EXPAND_MARK + badge
                /\ c.files > 0 /\ Running(h) > 0 =>
                     FilesCell(NameLength[h], Others(h), c.files) <= c.files
  <2> DEFINE length == NameLength[h]
             noAck == h \in NoAck
             localOnly == h \in LocalOnly
             width == c.name
  <2>1. /\ length \in Nat /\ Running(h) \in Nat /\ Others(h) \in Int
        /\ noAck \in BOOLEAN /\ localOnly \in BOOLEAN /\ width \in Nat /\ width >= 12
    BY <1>2, <1>3, <1>4 DEF Others
  <2>2. c.files > 0 => FilesCell(length, Others(h), c.files) <= c.files
    BY <1>4, <2>1, FilesAreIn
  <2> HIDE DEF length, noAck, localOnly, width
  <2>3. NameCell(length, Badge(noAck, localOnly), width) <= width
    <3>1. CASE length = 0
      BY <2>1, <3>1 DEF NameCell, Badge, Elide, Less, Smaller, EXPAND_MARK
    <3>2. CASE length # 0
      BY <2>1, <3>2, NameFits
    <3> QED BY <3>1, <3>2
  <2>4. length > 0 => NameCell(length, Badge(noAck, localOnly), width)
                        > EXPAND_MARK + Badge(noAck, localOnly)
    BY <2>1, NameFits
  <2> QED BY <2>2, <2>3, <2>4 DEF length, noAck, localOnly, width
<1>8. ASSUME NEW g \in nodes, NEW h \in nodes
      PROVE  /\ Running(g) <= Running(h) =>
                  BarSplit(Running(g), Slots, c.bar)[1] <= BarSplit(Running(h), Slots, c.bar)[1]
             /\ NameLength[h] > 0 /\ JobLine(8, NameLength[g], 0) <= size.w - 2 =>
                  JobLine(NameLength[h], NameLength[g], size.w - 2) <= size.w - 2
  <2>1. /\ Running(g) \in Nat /\ Running(h) \in Nat
        /\ NameLength[g] \in Nat /\ NameLength[h] \in Nat
        /\ size.w - 2 \in Int /\ Slots \in Nat \ {0}
    BY <1>1, <1>2, <1>3, ScreenAssumption
  <2>2. Running(g) <= Running(h) =>
          BarSplit(Running(g), Slots, c.bar)[1] <= BarSplit(Running(h), Slots, c.bar)[1]
    BY <1>4, <2>1, BarsInOrder
  <2>3. NameLength[h] > 0 /\ JobLine(8, NameLength[g], 0) <= size.w - 2 =>
          JobLine(NameLength[h], NameLength[g], size.w - 2) <= size.w - 2
    BY <2>1, JobLineFits DEF JobLine
  <2> QED BY <2>2, <2>3
<1> QED BY <1>5, <1>6, <1>7, <1>8 DEF RowFits, c, longest

\* For every name, badge and number of jobs the name and the file of a row are within
\* their columns, and on every terminal of 25 columns and more the table is within the
\* frame (node_table, node_row, the band); the columns of figures are not meant.
THEOREM RowsAreWithin == ScreenSpec => []RowFits
<1>1. TypeOK => figure \in [Hosts -> Figures \cup {NoFigure}]
  BY DEF TypeOK
<1> QED BY <1>1, RowsFit, ListInv, SizeInv, ScreenIsApp, AppTypes, PTL

-----------------------------------------------------------------------------
(* The footer: the step half of FooterTellsTheTruth. *)

\* Pressed, a key marks the screen or ends the session.
Acts(key) == OnKey(key) => dirty' \/ shouldQuit'

\* Over a list that has rows and with no question asked.
Asking == ~confirmQuit /\ nodes # {}

\* Enter opens the detail view of a row there is.
LEMMA EnterOpens ==
  ASSUME HighlightInv, nodes # {}, OpenDetail
  PROVE  dirty'
<1> DEFINE s == IF selected = NoHost /\ nodes # {} THEN Target(1) ELSE selected
<1>1. Rows /\ NoHost \notin nodes
  BY RowAssumption DEF HighlightInv, Rows
<1>2. Target(1) \in nodes
  BY <1>1, TargetIsThere
<1>3. s # NoHost
  BY <1>1, <1>2
<1> HIDE DEF s
<1>4. dirty' = (dirty \/ s # NoHost)
  BY DEF OpenDetail, s
<1>5. QED
  BY <1>3, <1>4

\* No key that the footer offers is ignored: over a list that has rows and with no
\* question asked, each marks the screen for a paint or ends the session, whichever
\* of the views the footer belongs to.  FooterTellsTheTruth adds that the key can be
\* pressed at all.
THEOREM OfferedKeysAct ==
  ScreenSpec => [][Asking => \A key \in Offered : Acts(key)]_screenVars
<1>1. ASSUME HighlightInv, Asking, NEW key \in Offered, OnKey(key)
      PROVE  dirty' \/ shouldQuit'
  <2>1. ~confirmQuit /\ nodes # {}
    BY <1>1 DEF Asking
  <2>2. CASE Unwind \/ ToggleHelp \/ CloseDetail \/ Refresh
             \/ SetSort(SortFor(key)) \/ ScrollDetail(Delta(key))
    BY <2>2 DEF Unwind, ToggleHelp, CloseDetail, Refresh, SetSort, ScrollDetail, Marked
  <2>3. CASE ForceQuit
    BY <2>3 DEF ForceQuit
  <2>4. CASE MoveSelection(Delta(key))
    BY <2>1, <2>4 DEF MoveSelection
  <2>5. CASE OpenDetail
    BY <1>1, <2>1, <2>5, EnterOpens
  <2>6. ~(key \in {"Confirm", "Ignored"}) /\ ~(key \in Sorts /\ detail)
    BY <1>1 DEF Offered, Sorts, Arrows
  <2>7. QED
    BY <1>1, <2>1, <2>2, <2>3, <2>4, <2>5, <2>6 DEF OnKey
<1>2. HighlightInv => (Asking => \A key \in Offered : Acts(key))
  BY <1>1 DEF Acts
<1>3. QED
  BY <1>2, ListInv, PTL DEF ScreenSpec

=============================================================================
