---------------------------- MODULE LogDashboard ----------------------------
(***************************************************************************)
(* The terminal dashboard of `conven services --tail`: runDashboard and    *)
(* what it calls in internal/runtime/dashboard.go.  One loop takes a line  *)
(* of a log, a key, the mouse, a new size of the terminal or the tick of   *)
(* its frames; the history and the view change at once, the screen at the  *)
(* next frame, which rewrites only what the last one did not show.         *)
(*                                                                         *)
(* A line is the widths of its characters and the characters at which the  *)
(* query is found; offsets count characters, where the code counts bytes.  *)
(* A view begins at a row, a fragment of a line, and a place in the        *)
(* history is the number of its row from the oldest one.  Colours of       *)
(* severities and the banner are left out, but not its rows: a size is the *)
(* width and the rows below the banner.  The end of the dashboard, which   *)
(* gives the terminal back, is the end of the behaviour.                   *)
(***************************************************************************)
EXTENDS Integers, Sequences, FiniteSets, SequencesExt

CONSTANTS
  LogLines,     \* bound: the lines that are logged, in order
  Sizes,        \* the sizes the terminal takes, the first one first
  Capacity,     \* dashboardHistoryLines
  HistoryCells, \* dashboardHistoryBytes
  MousePlaces,  \* bound: the columns and rows at which the mouse is used
  MaxDue        \* bound: the events between two frames

\* A character takes no column or more; a dashboard has a row for the log.
ASSUME DashAssumption ==
  /\ LogLines \in Seq([cells : Seq(Nat), hits : SUBSET Nat])
  /\ Sizes \in Seq([width : Nat \ {0}, rows : Nat \ {0}]) /\ Sizes # <<>>
  /\ {Capacity, HistoryCells, MaxDue} \subseteq Nat
  /\ MousePlaces \subseteq Int \X Int

VARIABLES
  kept,      \* the lines of the history, the oldest first
  expired,   \* firstSequence: how many lines the history has let go
  dashView,  \* the view: what the dashboard wants to show
  terminal,  \* the size of the terminal
  drawn,     \* the rows the last frame has shown, and how
  screen,    \* what the terminal shows below the banner
  dirty      \* the events since the last frame; one is due if there are any

dashVars == <<kept, expired, dashView, terminal, drawn, screen, dirty>>

NoMatch == -1
Nothing == [valid |-> FALSE]
Origin == [line |-> 0, offset |-> 0]
BlankRow == [blank |-> TRUE]

-----------------------------------------------------------------------------
(* Rows and places of the history h.                                       *)

\* A character that does not fit begins a fragment, unless it is the first.
LogFragments(cells, width) ==
  LET upTo[o \in 0 .. Len(cells)] ==
        IF o = 0 THEN [cuts |-> <<0>>, used |-> 0]
        ELSE IF upTo[o - 1].used > 0 /\ upTo[o - 1].used + cells[o] > width
          THEN [cuts |-> Append(upTo[o - 1].cuts, o - 1), used |-> cells[o]]
          ELSE [upTo[o - 1] EXCEPT !.used = @ + cells[o]]
      cuts == upTo[Len(cells)].cuts
  IN [i \in DOMAIN cuts |->
        [start |-> cuts[i], end |-> IF i = Len(cuts) THEN Len(cells) ELSE cuts[i + 1]]]

FragmentIndex(fragments, offset) ==
  LET later == {i \in DOMAIN fragments : offset < fragments[i].end}
  IN IF offset <= 0 THEN 1 ELSE IF later = {} THEN Len(fragments) ELSE Min(later)

Widths == {Sizes[i].width : i \in DOMAIN Sizes}
FragmentTable == [line \in ToSet(LogLines) |-> [width \in Widths |-> LogFragments(line.cells, width)]]

LineRows(h, width, l) ==
  LET fragments == FragmentTable[h[l + 1]][width]
  IN [i \in DOMAIN fragments |->
        [line |-> l, offset |-> fragments[i].start, end |-> fragments[i].end]]

AllRows(h, width) ==
  LET upTo[n \in 0 .. Len(h)] ==
        IF n = 0 THEN <<>> ELSE upTo[n - 1] \o LineRows(h, width, n - 1)
  IN upTo[Len(h)]

\* normalizeDashboardCursor, as the number of a row.
RowOf(h, width, place) ==
  LET l == IF place.line < 0 THEN 0 ELSE IF place.line >= Len(h) THEN Len(h) - 1 ELSE place.line
      before == Len(AllRows(SubSeq(h, 1, l), width))
  IN before + FragmentIndex(FragmentTable[h[l + 1]][width], place.offset)

PlaceOf(h, width, row) ==
  LET at == AllRows(h, width)[row]
  IN IF h = <<>> THEN Origin ELSE [line |-> at.line, offset |-> at.offset]

\* The row from which the end of the history fills the screen.
FollowRow(h, size) == Max({1, Len(AllRows(h, size.width)) - size.rows + 1})

\* moveDashboardCursor stops at either end of the history.
MovedRow(h, width, place, distance) ==
  Min({Len(AllRows(h, width)), Max({1, RowOf(h, width, place) + distance})})

\* The number of the line is kept with it while the history moves.
VisibleRows(h, first, place, size) ==
  IF h = <<>> THEN <<>>
  ELSE LET all == AllRows(h, size.width)
           from == RowOf(h, size.width, place)
           inView == SubSeq(all, from, Min({Len(all), from + size.rows - 1}))
       IN [i \in DOMAIN inView |->
             [seq |-> first + inView[i].line, offset |-> inView[i].offset, end |-> inView[i].end]]

-----------------------------------------------------------------------------
(* The view v.                                                             *)

ViewPlace(v) == [line |-> v.top, offset |-> v.offset]
At(v, place) == [v EXCEPT !.top = place.line, !.offset = place.offset]

Clamped(v, h, size) ==
  IF h = <<>> THEN [At(v, Origin) EXCEPT !.match = NoMatch]
  ELSE LET last == FollowRow(h, size)
           row == IF v.follow THEN last ELSE Min({last, RowOf(h, size.width, ViewPlace(v))})
       IN [At(v, PlaceOf(h, size.width, row)) EXCEPT !.match = IF @ >= Len(h) THEN NoMatch ELSE @]

Paused(v, h, size) ==
  IF v.follow THEN [Clamped(v, h, size) EXCEPT !.follow = FALSE] ELSE v

Resumed(v) == [v EXCEPT !.follow = TRUE]

\* Append lets go of the oldest line of a full history, and then of as many
\* as keep the rest within its size.
Evicted(h, line) ==
  LET all == Append(h, line)
      CellsFrom[n \in 0 .. Len(all)] ==
        IF n = Len(all) THEN 0 ELSE Len(all[n + 1].cells) + CellsFrom[n + 1]
  IN Min({n \in 0 .. Len(all) : Len(all) - n <= Capacity /\ CellsFrom[n] <= HistoryCells})

\* RecordAppend: what the view names is one line older for every line let
\* go; h and first are the history after it.
\* Mutant: the view keeps the index of its first line.
AfterAppendUnmoved(v, first, evicted) ==
  LET gone == v.sel.valid /\ (v.sel.anchor.seq < first \/ v.sel.focus.seq < first)
  IN [v EXCEPT !.match = IF @ < evicted THEN NoMatch ELSE @ - evicted,
               !.sel = IF gone THEN Nothing ELSE @]

AfterAppend(v, first, evicted) ==
  LET moved == IF v.top < evicted THEN At(v, Origin) ELSE [v EXCEPT !.top = @ - evicted]
      found == IF v.match < evicted THEN NoMatch ELSE v.match - evicted
      gone == v.sel.valid /\ (v.sel.anchor.seq < first \/ v.sel.focus.seq < first)
  IN [moved EXCEPT !.match = found, !.sel = IF gone THEN Nothing ELSE @]

-----------------------------------------------------------------------------
(* Search.                                                                 *)

\* findDashboardMatch looks at every line once, from start on and around.
MatchFrom(h, start, direction) ==
  LET Index(i) == (start + direction * i) % Len(h)
      hits == {i \in 1 .. Len(h) : h[Index(i) + 1].hits # {}}
  IN IF h = <<>> \/ hits = {} THEN NoMatch ELSE Index(Min(hits))

SearchOffset(line) == Min(line.hits)

SelectMatch(v, h, size, start, direction) ==
  LET match == MatchFrom(h, start, direction)
      centre == MovedRow(h, size.width, [line |-> match, offset |-> SearchOffset(h[match + 1])],
                         -(size.rows \div 2))
  IN IF match = NoMatch THEN [v EXCEPT !.match = NoMatch]
     ELSE Clamped([At(v, PlaceOf(h, size.width, centre)) EXCEPT !.match = match, !.follow = FALSE],
                  h, size)

\* N without a match goes back from the last line on the screen.
BackFrom(v, h, size) ==
  LET visible == VisibleRows(h, 0, ViewPlace(v), size)
  IN IF v.match >= 0 THEN v.match
     ELSE IF visible = <<>> THEN v.top + 1 ELSE Last(visible).seq + 1

-----------------------------------------------------------------------------
(* Selection.                                                              *)

\* dashboardColumnByteOffset: the character at the column, or behind it.
ColumnOffset(cells, column, after) ==
  LET used[o \in 0 .. Len(cells)] == IF o = 0 THEN 0 ELSE used[o - 1] + cells[o]
      over == {o \in 1 .. Len(cells) : column - 1 < used[o]}
  IN IF over = {} THEN Len(cells) ELSE IF after THEN Min(over) ELSE Min(over) - 1

RowCells(h, first, row) == SubSeq(h[row.seq - first + 1].cells, row.offset + 1, row.end)

PointOn(h, first, row, column, after) ==
  [seq |-> row.seq, offset |-> row.offset + ColumnOffset(RowCells(h, first, row), column, after)]

\* A row of the terminal above or below the log stands for its first or last.
RowAt(visible, row) == visible[Max({1, Min({row, Len(visible)})})]

Edge(row, size) == IF row <= 1 THEN -1 ELSE IF row >= size.rows THEN 1 ELSE 0

Ordered(sel) ==
  LET a == sel.anchor
      f == sel.focus
  IN IF a.seq < f.seq \/ (a.seq = f.seq /\ a.offset <= f.offset) THEN <<a, f>> ELSE <<f, a>>

\* The characters of a line that dashboardSelectionRange marks.
Marked(sel, seq, length) ==
  IF ~sel.valid THEN {}
  ELSE LET from == Ordered(sel)[1]
           to == Ordered(sel)[2]
       IN {o \in 0 .. length - 1 : /\ from.seq <= seq /\ seq <= to.seq
                                   /\ seq = from.seq => o >= from.offset
                                   /\ seq = to.seq => o < to.offset}

\* The text dashboardSelectedText gives to the clipboard, line by line.
SelectedText(h, first, sel) ==
  LET from == Ordered(sel)[1]
      to == Ordered(sel)[2]
      Length(seq) == Len(h[seq - first + 1].cells)
      Start(seq) == IF seq = from.seq THEN from.offset ELSE 0
      End(seq) == Max({Start(seq), IF seq = to.seq THEN Min({to.offset, Length(seq)}) ELSE Length(seq)})
  IN IF ~sel.valid \/ from.seq < first \/ to.seq > first + Len(h) - 1 THEN <<>>
     ELSE [i \in 1 .. to.seq - from.seq + 1 |->
             [seq |-> from.seq + i - 1,
              cells |-> Start(from.seq + i - 1) .. End(from.seq + i - 1) - 1]]

-----------------------------------------------------------------------------
(* Frames.                                                                 *)

\* What dashboardSearchRanges finds on these characters.
Hits(line, query, here) == IF query THEN here \cap line.hits ELSE {}

\* A row with the query and the selection on it.
Styled(h, first, row, query, sel) ==
  LET line == h[row.seq - first + 1]
      here == row.offset .. row.end - 1
  IN [blank |-> FALSE, seq |-> row.seq, cells |-> here,
      hits |-> Hits(line, query, here),
      marks |-> here \cap Marked(sel, row.seq, Len(line.cells))]

Snapshot(h, first, v, size) ==
  [size |-> size, query |-> v.query, sel |-> v.sel,
   rows |-> VisibleRows(h, first, ViewPlace(v), size)]

FullFrame(h, first, next) ==
  [r \in 1 .. next.size.rows |->
     IF r <= Len(next.rows) THEN Styled(h, first, next.rows[r], next.query, next.sel) ELSE BlankRow]

SameRow(a, b) == a.seq = b.seq /\ a.offset = b.offset

\* dashboardVisibleRowShift: the shift under which most rows stay; of two
\* that keep as many, the smaller one.
Overlap(old, new, shift) == {r \in DOMAIN new : r + shift \in DOMAIN old}
Shifts(old, new) ==
  {shift \in -Len(new) .. Len(old) :
     /\ Overlap(old, new, shift) # {}
     /\ \A r \in Overlap(old, new, shift) : SameRow(old[r + shift], new[r])}
RowShift(old, new) ==
  IF old = <<>> /\ new = <<>> THEN 0
  ELSE LET shifts == Shifts(old, new)
           most == Max({Cardinality(Overlap(old, new, shift)) : shift \in shifts})
       IN Min({shift \in shifts : Cardinality(Overlap(old, new, shift)) = most})

\* The terminal scrolls the rows below the banner, blank ones coming in.
Scrolled(rows, distance) ==
  [r \in DOMAIN rows |-> IF r + distance \in DOMAIN rows THEN rows[r + distance] ELSE BlankRow]

\* writeDashboardPartialView rewrites the rows the scroll has not brought.
PartialFrame(h, first, old, next, shift) ==
  LET moved == Scrolled(screen, shift)
      whole == FullFrame(h, first, next)
      Unchanged(r) == /\ r \in DOMAIN next.rows /\ r + shift \in DOMAIN old.rows
                      /\ SameRow(old.rows[r + shift], next.rows[r])
      StaysBlank(r) == r \notin DOMAIN next.rows /\ r + shift \notin DOMAIN old.rows
  IN [r \in DOMAIN moved |->
        IF Unchanged(r) \/ StaysBlank(r) THEN moved[r] ELSE whole[r]]

\* Mutant: a frame builds on one with another selection.
ContinuesAnySelection(old, next) == old.size = next.size /\ old.query = next.query

\* Whether a frame may build on what the last one has drawn.
Continues(old, next) == old.size = next.size /\ old.query = next.query /\ old.sel = next.sel

RenderFrame(v, size, full) ==
  \E clamped \in {Clamped(v, kept, size)} :
    \E next \in {Snapshot(kept, expired, clamped, size)} :
      LET partial == /\ ~full /\ Continues(drawn, next)
                     /\ Shifts(drawn.rows, next.rows) # {} \/ (drawn.rows = <<>> /\ next.rows = <<>>)
      IN /\ dashView' = clamped
         /\ drawn' = next
         /\ screen' = IF partial
                        THEN PartialFrame(kept, expired, drawn, next, RowShift(drawn.rows, next.rows))
                        ELSE FullFrame(kept, expired, next)
         /\ dirty' = 0

-----------------------------------------------------------------------------
(* The loop.                                                               *)

Due == dirty < MaxDue /\ dirty' = dirty + 1

DashInit ==
  /\ kept = <<>>
  /\ expired = 0
  /\ dashView = [follow |-> TRUE, top |-> 0, offset |-> 0, typing |-> FALSE, query |-> FALSE,
             match |-> NoMatch, sel |-> Nothing]
  /\ terminal = Sizes[1]
  /\ drawn = Snapshot(<<>>, 0, dashView, terminal)
  /\ screen = [r \in 1 .. terminal.rows |-> BlankRow]
  /\ dirty = 0

\* An entry of the log stream.
TakeLine ==
  LET line == LogLines[expired + Len(kept) + 1]
      evicted == Evicted(kept, line)
  IN /\ expired + Len(kept) < Len(LogLines)
     /\ kept' = SubSeq(Append(kept, line), evicted + 1, Len(kept) + 1)
     /\ expired' = expired + evicted
     /\ dashView' = Clamped(AfterAppend(dashView, expired', evicted), kept', terminal)
     /\ Due
     /\ UNCHANGED <<terminal, drawn, screen>>

\* How the paused view scrolls; the last row or further down resumes it.
Scrolls(paused, size, distance) ==
  LET row == MovedRow(kept, size.width, ViewPlace(paused), distance)
  IN IF distance > 0 /\ (kept = <<>> \/ row >= FollowRow(kept, size))
       THEN Clamped(Resumed(paused), kept, size)
       ELSE Clamped(At(paused, PlaceOf(kept, size.width, row)), kept, size)

Distance(size) ==
  [up |-> -1, down |-> 1, pageUp |-> -size.rows, pageDown |-> size.rows]

\* A key while a query is typed: given says whether something was.
TypeKey(given) ==
  \/ dashView' = [dashView EXCEPT !.typing = FALSE]
  \/ LET asked == [dashView EXCEPT !.typing = FALSE, !.query = given, !.match = NoMatch]
     IN dashView' = IF given THEN SelectMatch(asked, kept, terminal, dashView.top - 1, 1) ELSE asked

Escape ==
  dashView' = IF dashView.sel.valid THEN [dashView EXCEPT !.sel = Nothing]
          ELSE [dashView EXCEPT !.query = FALSE, !.match = NoMatch]

CommandKey ==
  \/ Escape
  \/ \E key \in {"up", "down", "pageUp", "pageDown"} :
       \E paused \in {Paused(dashView, kept, terminal)} :
         dashView' = Scrolls(paused, terminal, Distance(terminal)[key])
  \/ dashView' = Clamped(At(Paused(dashView, kept, terminal), Origin), kept, terminal)
  \/ dashView' = Clamped(Resumed(dashView), kept, terminal)
  \/ dashView' = [dashView EXCEPT !.typing = TRUE]
  \/ dashView.query /\ dashView' = SelectMatch(dashView, kept, terminal, dashView.match, 1)
  \/ /\ dashView.query
     /\ \E from \in {BackFrom(dashView, kept, terminal)} :
          dashView' = SelectMatch(dashView, kept, terminal, from, -1)

TakeKey ==
  /\ IF dashView.typing THEN \E given \in BOOLEAN : TypeKey(given) ELSE CommandKey
  /\ Due
  /\ UNCHANGED <<kept, expired, terminal, drawn, screen>>

\* The rows of the mouse are those below the banner; a press on the banner
\* is no press.  The point is of the view, which the screen may not show yet.
MouseDown(at, column, row) ==
  /\ row \in 1 .. terminal.rows
  /\ \E point \in {PointOn(kept, expired, at, column, FALSE)} :
       dashView' = [Paused(dashView, kept, terminal) EXCEPT !.sel =
                   [valid |-> TRUE, active |-> TRUE, anchor |-> point, focus |-> point,
                    edge |-> 0, column |-> column]]

MouseDrag(at, column, row) ==
  /\ dashView.sel.valid /\ dashView.sel.active
  /\ dashView' = [dashView EXCEPT
       !.sel.focus = PointOn(kept, expired, at, column, TRUE),
       !.sel.column = column, !.sel.edge = Edge(row, terminal)]

MouseUp(at, column, row) ==
  /\ dashView.sel.valid /\ dashView.sel.active
  /\ dashView' = [dashView EXCEPT
       !.sel.focus = PointOn(kept, expired, at, column, TRUE),
       !.sel.active = FALSE, !.sel.edge = 0]

TakeMouse ==
  /\ kept # <<>>
  /\ \E place \in MousePlaces, visible \in {VisibleRows(kept, expired, ViewPlace(dashView), terminal)} :
       \E at \in {RowAt(visible, place[2])} :
         \/ MouseDown(at, place[1], place[2])
         \/ MouseDrag(at, place[1], place[2])
         \/ MouseUp(at, place[1], place[2])
  /\ Due
  /\ UNCHANGED <<kept, expired, terminal, drawn, screen>>

Resize(size) ==
  /\ terminal' = size
  /\ RenderFrame(Clamped(dashView, kept, size), size, TRUE)
  /\ UNCHANGED <<kept, expired>>

\* A selection held at an edge scrolls and takes the row that comes in.
Held == /\ dashView.sel.valid /\ dashView.sel.active /\ dashView.sel.edge # 0
        /\ kept # <<>> /\ ~dashView.typing

TakeRow(view, visible, down) ==
  [view EXCEPT !.sel.focus =
     PointOn(kept, expired, IF down THEN Last(visible) ELSE Head(visible), view.sel.column, down)]

Dragged(moved) ==
  IF ViewPlace(moved) = ViewPlace(dashView) THEN moved
  ELSE TakeRow(moved, VisibleRows(kept, expired, ViewPlace(moved), terminal), dashView.sel.edge > 0)

\* The ticker.
Draw(view) ==
  IF dirty > 0 \/ ViewPlace(view) # ViewPlace(dashView)
    THEN RenderFrame(view, terminal, FALSE)
    ELSE dashView' = view /\ UNCHANGED <<drawn, screen, dirty>>

Frame ==
  /\ IF Held
       THEN \E paused \in {Paused(dashView, kept, terminal)} :
            \E moved \in {Scrolls(paused, terminal, dashView.sel.edge)} :
              \E view \in {Dragged(moved)} : Draw(view)
       ELSE Draw(dashView)
  /\ UNCHANGED <<kept, expired, terminal>>

DashNext ==
  \/ TakeLine
  \/ TakeKey
  \/ TakeMouse
  \/ \E size \in {Sizes[i] : i \in DOMAIN Sizes} : Resize(size)
  \/ Frame

DashSpec == DashInit /\ [][DashNext]_dashVars

-----------------------------------------------------------------------------
(* Once a frame is drawn the terminal shows what the view names, row by    *)
(* row, as if everything had been drawn anew: the frame that only scrolls  *)
(* and rewrites some rows leaves no row, no mark of the query and no mark  *)
(* of the selection of an earlier frame behind; a view that follows shows  *)
(* the end of the history; the match named is a line that has the query;   *)
(* and what a finished selection gives to the clipboard is what is marked. *)
ShownAnew ==
  LET next == Snapshot(kept, expired, dashView, terminal)
  IN screen = FullFrame(kept, expired, next)

EndIsShown ==
  dashView.follow /\ kept # <<>> =>
    LET last == screen[Min({terminal.rows, Len(AllRows(kept, terminal.width))})]
    IN ~last.blank /\ last.seq = expired + Len(kept) - 1
         /\ \A o \in last.cells : o + 1 = Len(kept[Len(kept)].cells) \/ o + 1 \in last.cells

MatchHasQuery ==
  dashView.match # NoMatch => dashView.query /\ dashView.match < Len(kept) /\ kept[dashView.match + 1].hits # {}

CopiedIsMarked ==
  dashView.sel.valid /\ ~dashView.sel.active =>
    LET text == SelectedText(kept, expired, dashView.sel)
    IN \A r \in DOMAIN screen :
         ~screen[r].blank =>
           screen[r].marks = screen[r].cells \cap
             UNION {text[i].cells : i \in {j \in DOMAIN text : text[j].seq = screen[r].seq}}

ScreenShowsView ==
  dirty = 0 => ShownAnew /\ EndIsShown /\ MatchHasQuery /\ CopiedIsMarked

(* A line that arrives while the view is paused does not move what is at   *)
(* the top of it, unless the history lets just that line go: then the      *)
(* oldest line that is left comes first.                                   *)
PausedViewStays ==
  [][expired' + Len(kept') > expired + Len(kept) /\ ~dashView.follow /\ kept # <<>> =>
       IF expired + dashView.top >= expired'
         THEN expired' + dashView'.top = expired + dashView.top /\ dashView'.offset = dashView.offset
         ELSE ViewPlace(dashView') = Origin]_dashVars
=============================================================================
