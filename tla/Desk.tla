-------------------------------- MODULE Desk --------------------------------
(***************************************************************************)
(* The GUI service: windows, back buffer, screen, cursor and task bar.     *)
(* gui_loop is one thread that takes a key, a request, a mouse report and  *)
(* a HUD tick in turn, any of which may be absent, so its handlers are     *)
(* actions in any order.  The screen is one row of cells, each standing    *)
(* for a column: the bounding box of DirtyRect is an interval; cell 0 is   *)
(* under the task bar; a window is four cells, two of title, the close     *)
(* button and the content; the cursor is one cell.  Of the other dimension *)
(* there is how far the lines of a text reach, whether it runs off the     *)
(* bottom, whether a window does, and whether a drag moves it up or down.  *)
(***************************************************************************)
EXTENDS Integers, SequencesExt, Lists

CONSTANTS Cells,     \* the screen's width
          Inks,      \* colours of requests
          Extents,   \* what requests draw: pairs of first cell and end
          MaxWindows,\* bound: windows created
          Events,    \* bound: events handled
          NoId       \* None of active_id and drag

ASSUME DeskAssumption ==
  /\ Cells \in Nat /\ Cells >= 4 /\ MaxWindows \in Nat /\ Events \in Nat
  /\ NoId \notin 1..MaxWindows /\ \A e \in Extents : e[1] \in Nat /\ e[2] \in Nat

VARIABLES back,      \* GuiState.buf
          screen,    \* the framebuffer
          dirty,     \* DirtyRect: [on, lo, hi], hi exclusive
          cursor,    \* CursorState: [visible, x, saved]
          wins,      \* WindowManager.windows, top last: [id, x, low, ink]
          nextWin,   \* next_id
          active,    \* active_id
          drag,      \* DragState: [id, off]
          leftDown,  \* the left button of last_mouse
          bar,       \* Taskbar.active
          hud,       \* hud_enabled
          loose,     \* cells changed behind DirtyRect's back (see DirtyCovers)
          stale,     \* the cursor was not drawn again after a present
          eventsLeft

deskVars == <<back, screen, dirty, cursor, wins, nextWin, active, drag, leftDown, bar, hud, loose, stale, eventsLeft>>

Row == 0..(Cells - 1)
WinW == 4
CloseAt == 2
Clean == [on |-> FALSE, lo |-> 0, hi |-> 0]
Span(d) == {c \in Row : d.on /\ d.lo <= c /\ c < d.hi}

DeskInit ==
  /\ back = [c \in Row |-> "black"] /\ screen = [c \in Row |-> "black"]
  /\ dirty = Clean
  /\ cursor = [visible |-> FALSE, x |-> 0, saved |-> "none"]
  /\ wins = <<>> /\ nextWin = 1 /\ active = NoId
  /\ drag = [id |-> NoId, off |-> 0]
  /\ leftDown = FALSE /\ bar = FALSE /\ hud = FALSE
  /\ loose = {} /\ stale = FALSE
  /\ eventsLeft = Events

-----------------------------------------------------------------------------
Lower(a, b) == IF a < b THEN a ELSE b
Higher(a, b) == IF a > b THEN a ELSE b

\* DirtyRect::mark of the cells lo .. hi - 1.
Mark_Replace(d, lo, hi) == IF lo = hi THEN d ELSE [on |-> TRUE, lo |-> lo, hi |-> hi]
Mark(d, lo, hi) ==
  IF lo = hi THEN d
  ELSE IF ~d.on THEN [on |-> TRUE, lo |-> lo, hi |-> hi]
  ELSE [on |-> TRUE, lo |-> Lower(d.lo, lo), hi |-> Higher(d.hi, hi)]

\* draw_rect, draw_line and draw_circle: all of it, or nothing if it leaves the screen.
Fill(b, lo, hi, ink) == [c \in Row |-> IF lo <= c /\ c < hi THEN ink ELSE b[c]]

\* present: the dirty interval goes to the screen, over the cursor if it is there.
Blitted(b, d) == [c \in Row |-> IF c \in Span(d) THEN b[c] ELSE screen[c]]

\* draw_cursor: what is under it is taken from the back buffer.
CursorOn(s, x) == [s EXCEPT ![x] = "cursor"]

\* What present and redraw_cursor leave of the screen s and the cursor.
Redrawn(s, b) ==
  IF cursor.visible
  THEN /\ screen' = CursorOn(s, cursor.x)
       /\ cursor' = [cursor EXCEPT !.saved = b[cursor.x]]
       /\ stale' = FALSE
  ELSE screen' = s /\ UNCHANGED <<cursor, stale>>

\* restore_cursor: what was saved goes back to the screen.
Uncovered(s) == [s EXCEPT ![cursor.x] = cursor.saved]

\* find_window_at: the windows that cover a cell, and the top one of them.
Covering(ws, c) == {i \in DOMAIN ws : ws[i].x <= c /\ c < ws[i].x + WinW}
TopAt(ws, c) == ws[CHOOSE i \in Covering(ws, c) : \A j \in Covering(ws, c) : j <= i]

\* A window's frame and content, and the cells no window covers.
WindowCell(w, c) ==
  CASE c < w.x + CloseAt -> "title" [] c = w.x + CloseAt -> "close" [] OTHER -> w.ink
TaskbarCell(c, shown) == IF shown /\ c = 0 THEN "bar" ELSE "desk"

\* What present_all draws: the background, the task bar, the windows from the bottom up.
Composed(ws, shown) ==
  [c \in Row |-> IF Covering(ws, c) # {} THEN WindowCell(TopAt(ws, c), c) ELSE TaskbarCell(c, shown)]

WithHud(b) == [b EXCEPT ![Cells - 1] = "hud"]

Handled == eventsLeft > 0 /\ eventsLeft' = eventsLeft - 1
NothingDrawn == UNCHANGED <<back, screen, dirty, cursor, loose, stale>>
NoWindowChange == UNCHANGED <<wins, nextWin, active, drag, leftDown, bar, hud>>

-----------------------------------------------------------------------------
\* A key, Enter or Backspace in the task bar: present_all and the cursor again.
\* (The program Enter starts is a process of its own.)
TaskbarKey ==
  /\ Handled /\ bar
  /\ back' = Composed(wins, bar)
  /\ dirty' = Clean /\ loose' = {}
  /\ Redrawn(back', back')
  /\ NoWindowChange

\* ":exit": the keyboard is released and the kernel clears the screen.
TaskbarExit ==
  /\ Handled /\ bar
  /\ bar' = FALSE
  /\ screen' = [c \in Row |-> "console"]
  /\ loose' = Row /\ stale' = TRUE
  /\ UNCHANGED <<back, dirty, cursor, wins, nextWin, active, drag, leftDown, hud>>

\* OPCODE_CLEAR, OPCODE_RECT, OPCODE_LINE, OPCODE_CIRCLE: into the back buffer only.
DrawRequest(lo, hi, ink) ==
  /\ Handled
  /\ IF lo < hi /\ hi <= Cells
     THEN back' = Fill(back, lo, hi, ink) /\ dirty' = Mark(dirty, lo, hi)
     ELSE UNCHANGED <<back, dirty>>
  /\ UNCHANGED <<screen, cursor, loose, stale>> /\ NoWindowChange

\* What draw_text marks of a text from lo whose last line ends at last: as wide as that
\* line and one character more.
TextEnd(last) == Lower(last + 1, Cells)

\* OPCODE_TEXT: lines from lo, the longest to hi (they wrap at the edge), the last to
\* last.  A text that runs off the bottom is an error (not reported: the answer went
\* out first) with its first characters drawn and not marked.
TextRequest(lo, hi, last, off, ink) ==
  /\ Handled /\ lo \in Row
  /\ back' = Fill(back, lo, hi, ink)
  /\ IF off THEN loose' = loose \cup {c \in Row : lo <= c} /\ UNCHANGED dirty
     ELSE /\ dirty' = Mark(dirty, lo, TextEnd(last))
          /\ loose' = loose \cup {c \in Row : TextEnd(last) <= c /\ c < hi}
  /\ UNCHANGED <<screen, cursor, stale>> /\ NoWindowChange

\* OPCODE_PRESENT.
PresentRequest ==
  /\ Handled
  /\ Redrawn(Blitted(back, dirty), back)
  /\ loose' = loose \ Span(dirty)
  /\ dirty' = Clean
  /\ UNCHANGED back /\ NoWindowChange

\* OPCODE_HUD, and the tick of a HUD that is on: compose, draw the HUD, present.
ShowHud ==
  /\ back' = WithHud(Composed(wins, bar))
  /\ dirty' = Clean /\ loose' = {}
  /\ Redrawn(back', back')

HudRequest(on) ==
  /\ Handled
  /\ hud' = on
  /\ IF on THEN ShowHud ELSE NothingDrawn
  /\ UNCHANGED <<wins, nextWin, active, drag, leftDown, bar>>

HudTick ==
  /\ Handled /\ hud /\ ShowHud /\ NoWindowChange

\* create_window: centred; one higher than what the task bar leaves of the screen is
\* placed below the bar all the same and runs off the bottom.
Centre == (Cells - WinW) \div 2
NewWindow(id, high) == [id |-> id, x |-> Centre, low |-> high, ink |-> "window"]

\* OPCODE_WINDOW_CREATE: the task bar wakes even if the window is refused (larger than
\* the screen); a new window is on top.  Nothing is drawn.
WindowCreate(wide, high) ==
  /\ Handled /\ nextWin <= MaxWindows
  /\ bar' = TRUE
  /\ IF wide THEN UNCHANGED <<wins, nextWin, active>>
     ELSE /\ wins' = Append(wins, NewWindow(nextWin, high))
          /\ active' = nextWin /\ nextWin' = nextWin + 1
  /\ NothingDrawn /\ UNCHANGED <<drag, leftDown, hud>>

HasId(ws, id) == \E i \in DOMAIN ws : ws[i].id = id
Without(ws, id) == Picked(ws, {i \in DOMAIN ws : ws[i].id # id})

\* close_window: the new top becomes active if the active one went.
ActiveAfterClose(ws, act, id) ==
  IF act # id THEN act ELSE IF Without(ws, id) = <<>> THEN NoId ELSE Last(Without(ws, id)).id

WindowClose(id) ==
  /\ Handled /\ HasId(wins, id)
  /\ wins' = Without(wins, id)
  /\ active' = ActiveAfterClose(wins, active, id)
  /\ NothingDrawn /\ UNCHANGED <<nextWin, drag, leftDown, bar, hud>>

\* move_window: into the screen, in both dimensions.
Clamped(x) == Higher(0, Lower(x, Cells - WinW))
Moved(ws, id, x) ==
  [i \in DOMAIN ws |-> IF ws[i].id = id THEN [ws[i] EXCEPT !.x = x, !.low = FALSE] ELSE ws[i]]

WindowMove(id, x) ==
  /\ Handled /\ HasId(wins, id)
  /\ wins' = Moved(wins, id, Clamped(x))
  /\ NothingDrawn /\ UNCHANGED <<nextWin, active, drag, leftDown, bar, hud>>

\* fill_buf, draw_rect_buf and draw_text_buf, of all of the content.
Painted(ws, id, ink) == [i \in DOMAIN ws |-> IF ws[i].id = id THEN [ws[i] EXCEPT !.ink = ink] ELSE ws[i]]

\* OPCODE_WINDOW_CLEAR, _RECT and _TEXT: into the window's buffer only.
WindowDraw(id, ink) ==
  /\ Handled /\ HasId(wins, id)
  /\ wins' = Painted(wins, id, ink)
  /\ NothingDrawn /\ UNCHANGED <<nextWin, active, drag, leftDown, bar, hud>>

\* OPCODE_WINDOW_PRESENT: present_all, and the cursor is not drawn again.
WindowPresent ==
  /\ Handled
  /\ back' = Composed(wins, bar) /\ screen' = back'
  /\ dirty' = Clean /\ loose' = {}
  /\ stale' = cursor.visible
  /\ UNCHANGED cursor /\ NoWindowChange

-----------------------------------------------------------------------------
\* find_window, bring_to_top, and the hit tests.
WithId(ws, id) == CHOOSE w \in ToSet(ws) : w.id = id
XOf(ws, id) == WithId(ws, id).x
Raised(ws, id) == Append(Without(ws, id), WithId(ws, id))
UnderMouse(ws, x) == IF Covering(ws, x) = {} THEN NoId ELSE TopAt(ws, x).id
HitClose(ws, id, x) == x = XOf(ws, id) + CloseAt
HitTitle(ws, id, x) == x < XOf(ws, id) + CloseAt

\* update_mouse: a press raises the window under it and closes it or starts a drag, a
\* release ends the drag, a drag moves its window, sideways or up and down; then
\* update_cursor.
MouseReport(x, down, slid) ==
  LET press == down /\ ~leftDown
      hit == IF press THEN UnderMouse(wins, x) ELSE NoId
      raised == IF hit \notin {NoId, active} THEN Raised(wins, hit) ELSE wins
      close == hit # NoId /\ HitClose(raised, hit, x)
      grabbed == IF hit # NoId /\ HitTitle(raised, hit, x) THEN [id |-> hit, off |-> x - XOf(raised, hit)] ELSE drag
      closed == IF close THEN Without(raised, hit) ELSE raised
      held == IF ~down /\ leftDown THEN [id |-> NoId, off |-> 0] ELSE grabbed
      dragging == held.id # NoId /\ HasId(closed, held.id)
      newX == Clamped(x - held.off)
      moved == dragging /\ (XOf(closed, held.id) # newX \/ slid \/ WithId(closed, held.id).low)
      redraw == moved \/ close
      shown == IF redraw THEN Composed(wins', bar) ELSE screen
      restore == cursor.visible /\ ~redraw
      restored == IF restore THEN Uncovered(shown) ELSE shown
  IN /\ Handled
     /\ wins' = IF moved THEN Moved(closed, held.id, newX) ELSE closed
     /\ active' = IF close THEN ActiveAfterClose(raised, hit, hit)
                  ELSE IF hit # NoId THEN hit ELSE active
     /\ drag' = IF close THEN [id |-> NoId, off |-> 0] ELSE held
     /\ leftDown' = down
     /\ back' = IF redraw THEN Composed(wins', bar) ELSE back
     /\ dirty' = IF redraw THEN Clean ELSE dirty
     /\ loose' = IF redraw THEN {} ELSE IF restore /\ stale THEN loose \cup {cursor.x} ELSE loose
     /\ screen' = CursorOn(restored, x)
     /\ cursor' = [visible |-> TRUE, x |-> x, saved |-> back'[x]]
     /\ stale' = FALSE
     /\ UNCHANGED <<nextWin, bar, hud>>

DeskStep ==
  \/ TaskbarKey \/ TaskbarExit \/ PresentRequest \/ HudTick \/ WindowPresent
  \/ \E on \in BOOLEAN : HudRequest(on) \/ \E high \in BOOLEAN : WindowCreate(on, high)
  \/ \E e \in Extents, ink \in Inks :
       \/ DrawRequest(e[1], e[2], ink)
       \/ \E off \in BOOLEAN, last \in {e[1], e[2]} : TextRequest(e[1], e[2], last, off, ink)
  \/ \E id \in 1..MaxWindows :
       \/ WindowClose(id)
       \/ \E x \in Row : WindowMove(id, x)
       \/ \E ink \in Inks : WindowDraw(id, ink)
  \/ \E x \in Row, down, slid \in BOOLEAN : MouseReport(x, down, slid)

-----------------------------------------------------------------------------
\* The window manager's lists agree, after any sequence of requests and mouse reports:
\* ids are distinct, the active window is the one on top, no window leaves the screen
\* sideways, one that leaves it at the bottom was not moved since it was created, and a
\* drag goes on only while the button is down.
WindowsStacked ==
  /\ \A i, j \in DOMAIN wins : wins[i].id = wins[j].id => i = j
  /\ active = IF wins = <<>> THEN NoId ELSE Last(wins).id
  /\ \A i \in DOMAIN wins : wins[i].x + WinW <= Cells /\ (wins[i].low => wins[i].x = Centre)
  /\ drag.id # NoId => leftDown

\* Nothing that was drawn is forgotten: where screen and back buffer differ, the cell
\* is in the dirty interval or under the cursor, but for four ways the code goes
\* behind DirtyRect: a text whose last line is not its longest, a text that ran off the
\* screen, the kernel's clear_screen, and the background a cursor restores that
\* OPCODE_WINDOW_PRESENT had painted over.
DirtyCovers ==
  \A c \in Row : screen[c] # back[c] =>
     c \in Span(dirty) \cup loose \/ (cursor.visible /\ c = cursor.x)

-----------------------------------------------------------------------------
(* What the code says of itself.                                           *)

\* DirtyRect tracks what was changed in the back buffer, the bounding box of a text:
\* gui.rs:112 and gui.rs:924.
ChangesTracked ==
  \A c \in Row : screen[c] # back[c] => c \in Span(dirty) \/ (cursor.visible /\ c = cursor.x)
=============================================================================
