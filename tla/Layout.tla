------------------------------- MODULE Layout -------------------------------
(***************************************************************************)
(* How the screen is divided (icecream-watcher/src/ui/mod.rs, detail.rs    *)
(* and graph.rs): what rendering computes before it writes a cell.         *)
(*                                                                         *)
(* Heights and widths are numbers of cells and a text is its length.       *)
(* Colours and wording are left out.                                       *)
(***************************************************************************)
EXTENDS Integers, Sequences, FiniteSets

SERIES_ROWS_TALL  == 2
SERIES_ROWS_LARGE == 3
SERIES_ROWS_MAX   == 12
SEPARATOR_ROWS    == 2
BAND_LEFT         == 42
BAND_GUTTER       == 2
BAND_MIN_GRAPH    == 20
BAND_VALUE_WIDTH  == 10
LABEL             == 7
COUNT_WIDTH       == 6
JOBS_WIDTH        == 7
RATE_WIDTH        == 7
MIN_FILES         == 14
MAX_FILES         == 64
NAME_MAX          == 38
BADGE_ROOM        == 8
EXPAND_MARK       == 2
NAME_NOT_SEEN     == 15   \* "(name not seen)"

Less(a, b)     == IF a > b THEN a - b ELSE 0     \* saturating_sub
Smaller(a, b)  == IF a < b THEN a ELSE b
Larger(a, b)   == IF a > b THEN a ELSE b
Within(x, low, high) == Smaller(Larger(x, low), high)

-----------------------------------------------------------------------------
(* draw: header, band, table, footer. *)

BandFloor(total) == IF total >= 40 THEN SERIES_ROWS_LARGE ELSE SERIES_ROWS_TALL

\* Height of a band whose queue and rate have no more than their floor.
BandWith(jobs, total) == jobs + 2 * BandFloor(total) + SEPARATOR_ROWS + 2

\* Mutant: the table is not asked what it wants.
BandHeight_Greedy(total, nodes) ==
  LET floor == BandFloor(total)
      spare == Less(total, 1 + 1 + BandWith(floor, total))
  IN IF total < 12 THEN 0
     ELSE IF total < 24 THEN 3 + 2
     ELSE BandWith(Smaller(floor + spare, SERIES_ROWS_MAX), total)

\* band_height: nothing, one line a series, or what the table does not want.
BandHeight(total, nodes) ==
  LET floor == BandFloor(total)
      spare == Less(total, 1 + 1 + (nodes + 4) + BandWith(floor, total))
  IN IF total < 12 THEN 0
     ELSE IF total < 24 THEN 3 + 2
     ELSE BandWith(Smaller(floor + spare, SERIES_ROWS_MAX), total)

\* Where there is room for all four areas, the table has what is left: Min(3).
TableHeight(total, nodes) == total - 2 - BandHeight(total, nodes)

\* Rows between the heading and the lower border.
TableRows(total, nodes) == Less(TableHeight(total, nodes), 3)

\* Lines of the detail view, which has the band's space and the table's.
DetailRows(total) == Larger(Less(total - 2, 2), 1)

-----------------------------------------------------------------------------
(* cluster_band *)

\* series_rows: what is not rules, shared by jobs and the two at its side.
SeriesRows(inner) ==
  LET side == Within(inner \div 6, SERIES_ROWS_TALL, SERIES_ROWS_LARGE)
  IN [jobs |-> Less(inner, 2 * side), side |-> side]

\* Graphs of dots, for which there must be rows and columns.
Dotted(height, width) ==
  /\ height >= 3 * SERIES_ROWS_TALL + SEPARATOR_ROWS
  /\ Less(width, BAND_LEFT) >= BAND_MIN_GRAPH

\* The lines of the band, by what is in them.
BandLines(height) ==
  LET rows == SeriesRows(height - SEPARATOR_ROWS)
      Of(series, n) == [k \in 1 .. n |-> series]
  IN Of("jobs", rows.jobs) \o <<"blank">> \o Of("queue", rows.side) \o <<"blank">>
       \o Of("rate", rows.side)

\* separator: the lines the rules are drawn over, counted from 0.
Rules(height) ==
  LET rows == SeriesRows(height - SEPARATOR_ROWS)
  IN {rows.jobs, rows.jobs + 1 + rows.side}

\* fit: padded, or cut with room for an ellipsis.
Fit(used, width) ==
  IF used <= width THEN width ELSE Smaller(used, Less(width, 1)) + 1

\* series_block: a line of text, the gutter, the graph.
SeriesLine(used, width) ==
  Fit(used, BAND_LEFT - BAND_GUTTER) + BAND_GUTTER + Less(width, BAND_LEFT)

\* label and band_value: a series begins with its name and a figure.
Begin(figure) == LABEL + Larger(figure, BAND_VALUE_WIDTH)

\* slots_block, queue_block and rate_block: the line with the figures, by their
\* digits, behind it how full the slots are or the longest word for the trend.
SlotsHead(used, total) == Begin(used + 1 + total) + 4
QueueHead(waiting)     == Begin(waiting + 5) + 2 + 8
RateHead(whole)        == Begin(whole + 4)

\* The line below it.
SlotsNote(online)             == LABEL + online + 7
QueueNote(peak, remote, home) == LABEL + 5 + peak + 3 + remote + 10 + home + 6
RateNote(peak, note)          == LABEL + 5 + peak + 5 + note

\* build_note: the build that runs, young or not, or the last one; or none yet.
BuildNote(state, done, span) ==
  CASE state = "young"   -> 13 + span
    [] state = "running" -> 9 + done + 4 + span
    [] state = "over"    -> 11 + done + 4 + span
    [] state = "none"    -> done + 19

\* Where there is no room for dots: one line a series, in which a graph of blocks
\* is between the figure and what is said of it.
CompactGraph(width) == Within(Less(width, 58), 10, 40)

\* slots_line: how full, in percent, and the nodes.
CompactSlots(used, total, online, bar) == Begin(used + 1 + total) + bar + 7 + online + 7

\* queue_line: the trend by its longest word, the peak, and what is running.
CompactQueue(waiting, peak, remote, home, bar) ==
  Begin(waiting + 5) + bar + 12 + 6 + peak + 3 + remote + 10 + home + 6

\* rate_line: the peak and the build.
CompactRate(whole, peak, note, bar) == Begin(whole + 4) + bar + 9 + peak + 3 + note

-----------------------------------------------------------------------------
(* node_table: columns by breakpoint. *)

\* The columns before what is spare is given out.
Breakpoint(width) ==
  LET Of(name, curMax, bar, jobs, rate) ==
        [name |-> name, curMax |-> curMax, bar |-> bar, jobs |-> jobs, rate |-> rate,
         files |-> 0]
  IN IF width >= 108 THEN Of(24, TRUE, 12, TRUE, TRUE)
     ELSE IF width >= 92 THEN Of(22, TRUE, 12, TRUE, TRUE)
     ELSE IF width >= 76 THEN Of(20, TRUE, 10, FALSE, TRUE)
     ELSE IF width >= 60 THEN Of(16, TRUE, 8, FALSE, TRUE)
     ELSE Of(12, FALSE, 6, FALSE, FALSE)

\* Cells of a group of columns, each with the gap before it.
Shown(cond, cells) == IF cond THEN cells ELSE 0

Fixed(c) ==
  c.name + c.bar + Shown(c.curMax, 2 * (COUNT_WIDTH + 1)) + Shown(c.jobs, 2 * (JOBS_WIDTH + 1))
    + Shown(c.rate, RATE_WIDTH + 1)

\* Borders, the gap before the filenames, and slack.
Spare(width) == Less(width, Fixed(Breakpoint(width)) + 6)

\* Names come first, as far as the longest needs, and with half of it at most.
Widen(width, longest) ==
  LET wanted == Smaller(longest + BADGE_ROOM + EXPAND_MARK, NAME_MAX)
  IN IF width >= 108
     THEN Smaller(Smaller(Spare(width), Less(wanted, Breakpoint(width).name)),
                  Spare(width) \div 2)
     ELSE 0

Columns(width, longest) ==
  LET left == Spare(width) - Widen(width, longest)
  IN [Breakpoint(width) EXCEPT
        !.name  = @ + Widen(width, longest),
        !.files = IF left >= MIN_FILES THEN Smaller(left, MAX_FILES) ELSE 0]

\* The constraints of the table, a gap between two, and the borders.
TableWidth(c) == 2 + Fixed(c) + 1 + Shown(c.files > 0, 1 + c.files)

-----------------------------------------------------------------------------
(* node_row: how long the text of each cell is. *)

\* The least figures of one digit, of two, and so on to the ten of a u32.
LEAST == <<1, 10, 100, 1000, 10000, 100000, 1000000, 10000000, 100000000, 1000000000>>

\* A zero has a digit too.
Digits(n) == Larger(1, Cardinality({k \in DOMAIN LEAST : LEAST[k] <= n}))

\* elide keeps the beginning, path_tail the end; what is cut has a mark in it.
Elide(length, max)    == Smaller(length, max)
PathTail(length, max) == Smaller(length, max)

\* Mutant: the badge is put behind whatever name fits.
NameCell_BadgeLast(length, badge, width) ==
  EXPAND_MARK + Elide(length, Less(width, EXPAND_MARK)) + badge

\* name_cell: the name gives up space for the badge.
NameCell(length, badge, width) ==
  EXPAND_MARK + Elide(length, Less(Less(width, badge), EXPAND_MARK)) + badge

\* "no ack" or "local" behind a blank, in order of how much it should worry.
Badge(noAck, local) == IF noAck THEN 7 ELSE IF local THEN 6 ELSE 0

\* files_cell: the job that runs longest, and how many others there are.
FilesCell(length, others, width) ==
  LET more == Shown(others > 0, 2 + Digits(others))
      room == Less(width, more)
  IN (IF length = 0 THEN Elide(NAME_NOT_SEEN, room) ELSE PathTail(length, room)) + more

\* bar_split in slots_cell: dot columns that are filled, two to a cell.
Filled(used, max, width) ==
  LET busy == Smaller(used, max)
  IN (2 * (busy * 2 * width) + max) \div (2 * max)

\* The cells of the filled part and of the trough.
BarSplit(used, max, width) ==
  LET cut == Smaller((Filled(used, max, width) + 1) \div 2, width)
  IN <<cut, width - cut>>

-----------------------------------------------------------------------------
(* detail *)

\* status_lines: what is wrong with the node, or that nothing is.
StatusLines(noAck, local) == Larger(1, Shown(noAck, 1) + Shown(local, 1))

\* jobs_lines: a heading, a line a job and one for the free slots, then what is
\* said below them where there is something to say, after a blank line.
JobsLines(running, elsewhere, own, queued) ==
  1 + (IF running = 0 THEN 1 ELSE running + 1) + Shown(elsewhere, 1) + Shown(own, 2)
    + Shown(queued, 2)

\* lines: two blank ones between the three parts.
DetailLines(status, jobs, node) == status + 1 + jobs + 1 + node

\* Mutant: the borders are taken for lines that can be read.
MaxScroll_WithBorders(lines, total) == Less(lines, total - 2)

\* max_scroll
MaxScroll(lines, total) == Less(lines, DetailRows(total))

\* draw clamps what it is given: the line at the top of the pane.
TopLine(scroll, lines, total) == Smaller(scroll, MaxScroll(lines, total))

\* job_line: number and time, the name, whose job it is.
JobLine(length, client, width) ==
  LET tail == Shown(client > 0, client + 9)
      room == Less(width, 4 + 9 + 11 + tail)
  IN 24 + tail + (IF length = 0 THEN NAME_NOT_SEEN ELSE Elide(length, Larger(room, 8)))

=============================================================================
