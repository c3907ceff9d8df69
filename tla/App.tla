--------------------------------- MODULE App ---------------------------------
(***************************************************************************)
(* What the user can do to the screen: App of icecream-watcher/src/app.rs  *)
(* (on_key, the selection, the detail view, the quit prompt) between the   *)
(* updates that change the nodes under it and the paints of run_tui.       *)
(*                                                                         *)
(* The cluster is what the screen needs of it: which nodes there are and   *)
(* the figure each is sorted by.  One figure stands for both metrics; a    *)
(* node with none sorts last.  Host ids are ordered as their names are.    *)
(***************************************************************************)
EXTENDS Integers, FiniteSets, FiniteSetsExt

CONSTANTS
  Hosts,       \* host ids, as numbers
  Figures,     \* values a metric may have
  NoFigure,    \* a metric with no measurement
  NoHost,      \* Option::None for the selection
  Page,        \* rows a page key moves, 10 in on_key
  Viewports,   \* how far a detail view may be scrollable
  ScrollSize   \* 2^16: detail_scroll is a u16

ASSUME RowAssumption ==
  /\ Hosts \subseteq Nat /\ NoHost \notin Hosts
  /\ Figures \subseteq Nat /\ NoFigure \notin Figures
ASSUME ScrollAssumption ==
  /\ Page \in Nat \ {0}
  /\ ScrollSize \in Nat \ {0}
  /\ Viewports \subseteq 0 .. ScrollSize - 1

VARIABLES
  nodes,         \* Cluster::nodes
  figure,        \* what a node is sorted by under a metric
  sort,          \* the sort key
  selected,      \* the highlighted node
  detail,        \* the detail view is open
  scroll,        \* detail_scroll
  help,          \* show_help
  confirmQuit,   \* the quit prompt is up
  shouldQuit,
  dirty,         \* something changed since the last paint
  maxScroll,     \* Ui::detail_max_scroll
  stale          \* history variable: the paint differs from the state

cluster == <<nodes, figure>>
screen  == <<nodes, figure, sort, selected, detail, scroll, help, confirmQuit>>
vars    == <<screen, shouldQuit, dirty, maxScroll, stale>>

SortKeys == {"Name", "Jobs", "Perf"}

\* SortKey::next
NextSort(k) == CASE k = "Name" -> "Jobs" [] k = "Jobs" -> "Perf" [] k = "Perf" -> "Name"

-----------------------------------------------------------------------------
(* The order of the rows. *)

\* compare and sorted_nodes: busiest first, unmeasured last, then by name.
Before(a, b) ==
  LET fa == IF sort = "Name" THEN NoFigure ELSE figure[a]
      fb == IF sort = "Name" THEN NoFigure ELSE figure[b]
  IN \/ fa # NoFigure /\ fb = NoFigure
     \/ fa # NoFigure /\ fb # NoFigure /\ fa > fb
     \/ fa = fb /\ a < b

Index(h) == Cardinality({g \in nodes : Before(g, h)})

Row(i) == CHOOSE h \in nodes : Index(h) = i

Clamp(i, low, high) == Max({low, Min({i, high})})

-----------------------------------------------------------------------------

Init ==
  /\ nodes = {}
  /\ figure = [h \in Hosts |-> NoFigure]
  /\ sort = "Name"
  /\ selected = NoHost
  /\ detail = FALSE
  /\ scroll = 0
  /\ help = FALSE
  /\ confirmQuit = FALSE
  /\ shouldQuit = FALSE
  /\ dirty = TRUE
  /\ maxScroll = 0
  /\ stale = TRUE

Marked == dirty' = TRUE

-----------------------------------------------------------------------------
(* App::apply *)

\* Mutant: only the highlight goes, the view it opened stays.
Prune_KeepsDetail ==
  /\ selected' = IF selected \in nodes' THEN selected ELSE NoHost
  /\ UNCHANGED detail

\* prune_selection
Prune ==
  LET gone == selected # NoHost /\ selected \notin nodes'
  IN /\ selected' = IF gone THEN NoHost ELSE selected
     /\ detail' = (detail /\ ~gone)

\* An update: a node appears, leaves, or what is sorted by changes (slot_pct is None
\* again for a node that comes to offer no slots), or a new session starts with none.
Update ==
  /\ \/ \E h \in Hosts : nodes' = nodes \cup {h} /\ UNCHANGED figure
     \/ \E h \in nodes : /\ nodes' = nodes \ {h}
                         /\ figure' = [figure EXCEPT ![h] = NoFigure]
     \/ /\ nodes' = {}
        /\ figure' = [h \in Hosts |-> NoFigure]
     \/ \E h \in nodes, v \in Figures \cup {NoFigure} :
          figure' = [figure EXCEPT ![h] = v] /\ UNCHANGED nodes
  /\ Prune
  /\ Marked
  /\ UNCHANGED <<sort, scroll, help, confirmQuit, shouldQuit, maxScroll>>

\* tick_history
Tick == Marked /\ UNCHANGED <<screen, shouldQuit, maxScroll>>

-----------------------------------------------------------------------------
(* App::on_key, one action per arm. *)

\* The quit prompt takes every key.
AtPrompt(key) ==
  /\ shouldQuit' = (shouldQuit \/ key \in {"ForceQuit", "Confirm"})
  /\ IF key \in {"Quit", "Back", "SortName"}
     THEN confirmQuit' = FALSE /\ Marked
     ELSE UNCHANGED <<confirmQuit, dirty>>
  /\ UNCHANGED <<cluster, sort, selected, detail, scroll, help>>

\* Mutant: a highlighted row is not a layer.
Unwind_SkipsRow ==
  /\ Marked
  /\ IF help THEN help' = FALSE /\ UNCHANGED <<detail, selected, confirmQuit>>
     ELSE IF detail THEN detail' = FALSE /\ UNCHANGED <<help, selected, confirmQuit>>
     ELSE confirmQuit' = TRUE /\ UNCHANGED <<help, detail, selected>>
  /\ UNCHANGED <<cluster, sort, scroll, shouldQuit>>

\* Quit and Back: overlay, then detail, then the highlight, then the session.
Unwind ==
  /\ Marked
  /\ \/ help /\ help' = FALSE /\ UNCHANGED <<detail, selected, confirmQuit>>
     \/ ~help /\ detail /\ detail' = FALSE /\ UNCHANGED <<help, selected, confirmQuit>>
     \/ /\ ~help /\ ~detail /\ selected # NoHost
        /\ selected' = NoHost
        /\ UNCHANGED <<help, detail, confirmQuit>>
     \/ /\ ~help /\ ~detail /\ selected = NoHost
        /\ confirmQuit' = TRUE
        /\ UNCHANGED <<help, detail, selected>>
  /\ UNCHANGED <<cluster, sort, scroll, shouldQuit>>

ForceQuit == shouldQuit' = TRUE /\ UNCHANGED <<screen, dirty>>

Refresh == Marked /\ UNCHANGED <<screen, shouldQuit>>

ToggleHelp ==
  /\ help' = ~help
  /\ Marked
  /\ UNCHANGED <<cluster, sort, selected, detail, scroll, confirmQuit, shouldQuit>>

\* scroll_detail: the sum is an isize, what is kept of it a u16.
ScrollDetail(delta) ==
  /\ scroll' = Max({scroll + delta, 0}) % ScrollSize
  /\ Marked
  /\ UNCHANGED <<cluster, sort, selected, detail, help, confirmQuit, shouldQuit>>

\* Mutant: the highlight moves among the ids, not among the rows.
Target_ById(delta) ==
  LET later == {h \in nodes : selected = NoHost \/ h > selected}
  IN IF later = {} THEN Max(nodes) ELSE Min(later)

\* The row a move lands on: the one delta away, or an end of the list.
Target(delta) ==
  IF selected \in nodes
  THEN Row(Clamp(Index(selected) + delta, 0, Cardinality(nodes) - 1))
  ELSE Row(IF delta < 0 THEN Cardinality(nodes) - 1 ELSE 0)

\* Mutant: a move is not a change worth painting.
MoveSelection_Clean(delta) ==
  /\ selected' = IF nodes = {} THEN NoHost ELSE Target(delta)
  /\ UNCHANGED <<dirty, cluster, sort, detail, scroll, help, confirmQuit, shouldQuit>>

MoveSelection(delta) ==
  /\ selected' = IF nodes = {} THEN NoHost ELSE Target(delta)
  /\ dirty' = (dirty \/ nodes # {})
  /\ UNCHANGED <<cluster, sort, detail, scroll, help, confirmQuit, shouldQuit>>

\* open_detail: Enter on a fresh screen selects the first row.
OpenDetail ==
  LET s == IF selected = NoHost /\ nodes # {} THEN Target(1) ELSE selected
  IN /\ selected' = s
     /\ detail' = (s # NoHost)
     /\ scroll' = IF s # NoHost THEN 0 ELSE scroll
     /\ dirty' = (dirty \/ s # NoHost)
     /\ UNCHANGED <<cluster, sort, help, confirmQuit, shouldQuit>>

CloseDetail ==
  /\ detail' = FALSE
  /\ Marked
  /\ UNCHANGED <<cluster, sort, selected, scroll, help, confirmQuit, shouldQuit>>

SetSort(k) ==
  /\ sort' = k
  /\ Marked
  /\ UNCHANGED <<cluster, selected, detail, scroll, help, confirmQuit, shouldQuit>>

Ignored == UNCHANGED <<screen, shouldQuit, dirty>>

Keys == {"Quit", "Back", "ForceQuit", "Confirm", "Refresh", "Up", "Down", "PageUp",
         "PageDown", "SortName", "SortJobs", "SortPerf", "CycleSort", "ToggleHelp",
         "Enter", "Ignored"}

Delta(key) == CASE key = "Up" -> -1 [] key = "Down" -> 1
                [] key = "PageUp" -> -Page [] key = "PageDown" -> Page

Arrows == {"Up", "Down", "PageUp", "PageDown"}
Sorts  == {"SortName", "SortJobs", "SortPerf", "CycleSort"}

SortFor(key) == CASE key = "SortName" -> "Name" [] key = "SortJobs" -> "Jobs"
                  [] key = "SortPerf" -> "Perf" [] key = "CycleSort" -> NextSort(sort)

OnKey(key) ==
  /\ IF confirmQuit THEN AtPrompt(key)
     ELSE \/ key = "ForceQuit" /\ ForceQuit
          \/ key \in {"Quit", "Back"} /\ Unwind
          \/ key = "Refresh" /\ Refresh
          \/ key = "ToggleHelp" /\ ToggleHelp
          \/ key \in Arrows /\ detail /\ ScrollDetail(Delta(key))
          \/ key \in Sorts /\ detail /\ Ignored
          \/ key = "Enter" /\ detail /\ CloseDetail
          \/ key \in Arrows /\ ~detail /\ MoveSelection(Delta(key))
          \/ key \in Sorts /\ ~detail /\ SetSort(SortFor(key))
          \/ key = "Enter" /\ ~detail /\ OpenDetail
          \/ key \in {"Confirm", "Ignored"} /\ Ignored
  /\ UNCHANGED maxScroll

-----------------------------------------------------------------------------
(* run_tui: the frame timer. *)

\* clamp_detail_scroll
Clamped(limit) == Min({scroll, limit})

\* take_dirty, draw, and clamp_detail_scroll by what draw found.  draw clamps
\* what it shows itself, so a clamped offset shows the same lines.
Paint ==
  /\ dirty
  /\ IF detail THEN maxScroll' \in Viewports ELSE UNCHANGED maxScroll
  /\ scroll' = Clamped(maxScroll')
  /\ dirty' = (scroll > maxScroll')
  /\ stale' = FALSE
  /\ UNCHANGED <<cluster, sort, selected, detail, help, confirmQuit, shouldQuit>>

Resize == Marked /\ UNCHANGED <<screen, shouldQuit, maxScroll>>

\* What a step leaves on the screen that is not in the state.
Outdates == stale' = (stale \/ screen' # screen)

Next ==
  /\ ~shouldQuit
  /\ \/ (Update \/ Tick \/ Resize \/ \E key \in Keys : OnKey(key)) /\ Outdates
     \/ Paint

Spec == Init /\ [][Next]_vars

-----------------------------------------------------------------------------
(* Properties. *)

\* The state has the shape of App, and the rows are in an order.
TypeOK ==
  /\ nodes \subseteq Hosts
  /\ figure \in [Hosts -> Figures \cup {NoFigure}]
  /\ sort \in SortKeys
  /\ selected \in Hosts \cup {NoHost}
  /\ {detail, help, confirmQuit, shouldQuit, dirty, stale} \subseteq BOOLEAN
  /\ scroll \in 0 .. ScrollSize - 1
  /\ maxScroll \in 0 .. ScrollSize - 1

\* "The highlight cannot point at nothing" and the detail view never shows a node
\* that left: whatever leaves, resets or re-sorts under it.
HighlightIsThere ==
  /\ selected # NoHost => selected \in nodes
  /\ detail => selected \in nodes

\* "The prompt only ever appears over a screen with nothing left to back out of",
\* and nothing opens behind it while it is up.
PromptOverBareScreen ==
  confirmQuit => ~help /\ ~detail /\ selected = NoHost

\* What is on the screen is what the state says, or a paint is due: no handler
\* changes something visible without marking it.
NothingUnpainted == stale => dirty

\* The highlight follows the rows as they are now: a key down never moves it up,
\* and from anywhere but the last row moves it.
DownGoesDown ==
  [][\A key \in {"Down", "PageDown"} :
       ~detail /\ ~confirmQuit /\ selected # NoHost /\ OnKey(key) =>
         \/ Index(selected') > Index(selected)
         \/ Index(selected) = Cardinality(nodes) - 1 /\ selected' = selected]_vars

=============================================================================
