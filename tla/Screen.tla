------------------------------- MODULE Screen -------------------------------
(***************************************************************************)
(* The screen as it is painted: App on a terminal whose size changes, with *)
(* the table that scrolls and the detail view whose extent the painting    *)
(* finds (draw and node_table of ui/mod.rs, draw and max_scroll of         *)
(* ui/detail.rs).                                                          *)
(*                                                                         *)
(* The figure of a node is the number of jobs it is running; a node that   *)
(* has none offers no slots.                                               *)
(***************************************************************************)
EXTENDS App, Layout

CONSTANTS
  Terminals,   \* sizes the terminal may have
  NameLength,  \* of each host
  NoAck,       \* hosts that are suspect
  LocalOnly,   \* hosts that refuse remote jobs
  Slots,       \* compile slots of a node that offers any
  FieldLines   \* lines of node_lines, 18 in detail.rs

ASSUME ScreenAssumption ==
  /\ Terminals \subseteq [w : Nat, h : Nat] /\ \A t \in Terminals : t.h >= 6
  /\ NameLength \in [Hosts -> Nat]
  /\ NoAck \subseteq Hosts /\ LocalOnly \subseteq Hosts
  /\ Slots \in Nat \ {0} /\ FieldLines \in Nat

\* A paint finds an extent that Viewports has.
ASSUME ExtentAssumption ==
  \A t \in Terminals, h \in Hosts, running \in Figures \cup {0} :
    MaxScroll(DetailLines(StatusLines(h \in NoAck, h \in LocalOnly),
                          JobsLines(running, FALSE, FALSE, FALSE), FieldLines), t.h) \in Viewports

VARIABLES
  size,    \* of the terminal
  offset   \* TableState: the first row that is drawn

screenVars == <<vars, size, offset>>

Count == Cardinality(nodes)

Running(h) == IF figure[h] = NoFigure THEN 0 ELSE figure[h]

\* longest_running: the jobs that are not named in the row.
Others(h) == Running(h) - 1

\* Lines of the detail view: nothing queued, nothing of its own.
ViewLines(h) ==
  DetailLines(StatusLines(h \in NoAck, h \in LocalOnly),
              JobsLines(Running(h), FALSE, FALSE, FALSE), FieldLines)

-----------------------------------------------------------------------------
(* node_table: the highlight is given to the table, which scrolls to it. *)

\* Mutant: the highlight is looked for among the ids.
SelectedIndex_ById == Cardinality({h \in nodes : h < selected})

\* selected_index
SelectedIndex == Index(selected)

\* The table keeps its first row, or moves it as little as shows the highlight.
NewOffset ==
  LET rows  == TableRows(size.h, Count)
      start == Smaller(offset, Count - 1)
  IN IF selected \notin nodes THEN 0
     ELSE IF SelectedIndex < start THEN SelectedIndex
     ELSE Larger(start, SelectedIndex - rows + 1)

-----------------------------------------------------------------------------

ScreenInit ==
  /\ Init
  /\ size \in Terminals
  /\ offset = 0

\* draw
Draw ==
  /\ Paint
  /\ IF detail
     THEN maxScroll' = MaxScroll(ViewLines(selected), size.h) /\ UNCHANGED offset
     ELSE offset' = NewOffset
  /\ UNCHANGED size

\* The terminal says that it has another size.
ResizeTo(t) == size' = t /\ Resize /\ UNCHANGED offset

ScreenNext ==
  /\ ~shouldQuit
  /\ \/ /\ Update \/ Tick \/ \E key \in Keys : OnKey(key)
        /\ Outdates
        /\ UNCHANGED <<size, offset>>
     \/ \E t \in Terminals : ResizeTo(t) /\ Outdates
     \/ Draw

ScreenSpec == ScreenInit /\ [][ScreenNext]_screenVars

-----------------------------------------------------------------------------
(* footer_line: the keys it offers. *)

\* Mutant: sorting is offered wherever one is.
Offered_Everywhere ==
  Sorts \cup Arrows \cup {"Quit", "Back", "ForceQuit", "Enter", "ToggleHelp"}

Offered ==
  IF detail THEN {"Quit", "Back", "ForceQuit"} \cup Arrows
  ELSE Sorts \cup Arrows \cup {"Quit", "Enter", "ToggleHelp"}

-----------------------------------------------------------------------------
(* Properties. *)

\* "Setting the selection is what makes the table scroll to keep it visible":
\* after any re-sort, departure or resize, what is painted has the highlighted
\* row in it.
HighlightOnScreen ==
  ~dirty /\ ~detail /\ selected # NoHost =>
    Index(selected) \in offset .. offset + TableRows(size.h, Count) - 1

\* "The node table always keeps priority": a band that has grown past its floor
\* leaves every node a row and one to spare, and no band leaves less than two.
\* The band fills its frame: each line is used, the rules are on the blank ones,
\* no note of a series is without a row.
BandKeepsItsPlace ==
  LET height == BandHeight(size.h, Count)
      rows   == SeriesRows(height - 2 - SEPARATOR_ROWS)
      lines  == BandLines(height - 2)
  IN /\ size.h >= 12 => TableRows(size.h, Count) >= Smaller(Count + 1, 2)
     /\ height > BandWith(BandFloor(size.h), size.h) =>
          TableRows(size.h, Count) > Count
     /\ height > 5 =>
          /\ rows.jobs >= 2 /\ rows.side >= 2
          /\ Len(lines) = height - 2
          /\ \A k \in DOMAIN lines : lines[k] = "blank" <=> k - 1 \in Rules(height - 2)

\* Lengths of the lines beside the graphs, for figures of as many digits.
HeadsOf(digits) == {SlotsHead(digits, digits), QueueHead(digits), RateHead(digits)}

NotesOf(digits) ==
  {SlotsNote(digits), QueueNote(digits, digits, digits)} \cup
  {RateNote(digits, BuildNote(state, digits, 6)) :
     state \in {"young", "running", "over", "none"}}

\* Whatever the notes say, the graphs of the three series begin in one column and
\* end at the frame: "a note one character over budget would shunt its graph
\* sideways".  A note may be cut for it; a figure never is, up to a u32's ten
\* digits, and no note is while there are only a few jobs.
GraphsLineUp ==
  Dotted(BandHeight(size.h, Count) - 2, size.w - 2) =>
    \A digits \in {1, 5, 10} :
      /\ \A used \in HeadsOf(digits) \cup NotesOf(digits) :
           SeriesLine(used, size.w - 2) = size.w - 2
      /\ \A used \in HeadsOf(digits) : used <= BAND_LEFT - BAND_GUTTER
      /\ digits = 1 => \A used \in NotesOf(digits) : used <= BAND_LEFT - BAND_GUTTER

\* Widths around those at which the graph begins to grow and stops growing.
CompactWidths == {27, 67, 68, 69, 97, 98, 99, 200}

\* Nor do the three lines of a low band: their graphs begin in one column for
\* figures of up to four digits and are never cut, and on 70 columns and more
\* nothing is, while there are only a few jobs.
CompactLinesUp ==
  \A inner \in CompactWidths :
    LET bar == CompactGraph(inner)
        Lines(d) ==
          {CompactSlots(d, d, d, bar), CompactQueue(d, d, d, d, bar)} \cup
          {CompactRate(d, d, BuildNote(state, d, 6), bar) :
             state \in {"young", "running", "over", "none"}}
    IN /\ \A d \in 1 .. 4 : {Begin(d + 1 + d), Begin(d + 5), Begin(d + 4)} = {Begin(0)}
       /\ Begin(0) + bar <= inner
       /\ inner >= 68 => \A line \in Lines(1) : line <= inner

\* A row is read as it was written.  From 25 columns on the table is within the
\* frame, and a wide terminal always says what is compiled.  On any, the cell of the
\* name is within its column whatever the name and the badge are, and so is that of
\* the file whatever it is called and however many others there are; a name is never
\* given up altogether; the bars of two rows compare as their nodes do; and in the
\* detail view "whose job is this" is not what gets cut where there is room for it
\* and eight letters.  Nothing is said of the columns of figures: count_cell and
\* rate_cell pad to a width and cut nothing, the table does.
RowFits ==
  ~dirty =>
    LET longest == IF nodes = {} THEN 0 ELSE Max({NameLength[h] : h \in nodes})
        c == Columns(size.w, longest)
    IN /\ size.w >= 25 => TableWidth(c) <= size.w
       /\ size.w >= 108 => c.files >= MIN_FILES
       /\ GraphsLineUp /\ CompactLinesUp
       /\ \A h \in nodes :
            LET badge == Badge(h \in NoAck, h \in LocalOnly)
            IN /\ NameCell(NameLength[h], badge, c.name) <= c.name
               /\ NameLength[h] > 0 =>
                    NameCell(NameLength[h], badge, c.name) > EXPAND_MARK + badge
               /\ c.files > 0 /\ Running(h) > 0 =>
                    FilesCell(NameLength[h], Others(h), c.files) <= c.files
       /\ \A g, h \in nodes :
            /\ Running(g) <= Running(h) =>
                 BarSplit(Running(g), Slots, c.bar)[1] <= BarSplit(Running(h), Slots, c.bar)[1]
            /\ NameLength[h] > 0 /\ JobLine(8, NameLength[g], 0) <= size.w - 2 =>
                 JobLine(NameLength[h], NameLength[g], size.w - 2) <= size.w - 2

\* The detail view is never blank and its last line can be reached: nothing of it
\* "is silently cut off", and the offset is one that can be scrolled back from.
DetailReachesEnd ==
  detail /\ ~dirty =>
    LET lines == ViewLines(selected)
        rows  == DetailRows(size.h)
    IN /\ scroll <= maxScroll
       /\ TopLine(scroll, lines, size.h) = scroll
       /\ scroll < lines
       /\ maxScroll + rows >= lines
       /\ scroll + rows <= Larger(lines, rows)

\* "Offer only the keys that do something in the current view": over a list that
\* has rows and with no question asked, no key in the footer is ignored.
FooterTellsTheTruth ==
  ~dirty /\ ~confirmQuit /\ nodes # {} =>
    \A key \in Offered : ENABLED (OnKey(key) /\ (dirty' \/ shouldQuit'))

=============================================================================
