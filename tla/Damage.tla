------------------------------- MODULE Damage -------------------------------
(***************************************************************************)
(* v1: what a frame repaints (update_and_present, kernel.c).  Redrawing    *)
(* the whole desktop per event is too slow, so a frame repaints one damage *)
(* rectangle and, whole, every region that touches it.  The screen here is *)
(* a small grid of cells; a cell shows the topmost thing drawn on it, and  *)
(* of each thing what it looks like.  A change of a window's content is    *)
(* one the touched[] comparison sees; the README names the one it misses.  *)
(***************************************************************************)
EXTENDS Integers, Sequences, FiniteSets

CONSTANTS
  Wins,            \* window kinds on the desktop
  ScreenW, ScreenH,\* gfx_width, gfx_height, in cells; the bottom row is the taskbar
  WinW, WinH,      \* outer size of a window, border and title bar included
  BootPlace,       \* [Wins -> corner]: where each window is at boot
  BootStack,       \* z_order at boot, frontmost first
  Pointers,        \* the places of the one-cell cursor
  Drags            \* the relative moves a mouse packet carries to a dragged window

Corner == (0 .. ScreenW - WinW) \X (0 .. ScreenH - 1 - WinH)
Cells == (0 .. ScreenW - 1) \X (0 .. ScreenH - 1)

ASSUME DamageAssumption ==
  /\ IsFiniteSet(Wins) /\ Wins \cap { "title", "bar", "menu", "popup", "button" } = {}
  /\ { ScreenW, ScreenH } \subseteq Nat \ {0} /\ { WinW, WinH } \subseteq Nat
  /\ BootPlace \in [Wins -> Corner] /\ BootStack \in Seq(Wins)
  /\ Pointers \subseteq Cells /\ Drags \subseteq Int \X Int

VARIABLES
  desk,    \* what the desktop should look like, a record of:
           \*   place    windows[k].x, .y
           \*   shown    windows[k].state = WINDOW_OPEN
           \*   look     what window k's content looks like: one of two
           \*   stack    z_order, frontmost first
           \*   pointer  mx, my
           \*   menu, fx, banner   menu.open, fx_enabled, boot_splash_visible
  screen   \* what has been presented, cell by cell
damageVars == << desk, screen >>

----------------------------------------------------------------------------
(* Rectangles are half open: [x0, x1) by [y0, y1).                         *)
Rect(x, y, w, h) == [x0 |-> x, y0 |-> y, x1 |-> x + w, y1 |-> y + h]

\* rects_overlap
Overlap(a, b) == a.x0 < b.x1 /\ b.x0 < a.x1 /\ a.y0 < b.y1 /\ b.y0 < a.y1

Least(S) == CHOOSE a \in S : \A b \in S : a <= b
Most(S) == CHOOSE a \in S : \A b \in S : a >= b

\* rect_union, of any number of rectangles
RectUnion(rs) ==
  [x0 |-> Least({ r.x0 : r \in rs }), y0 |-> Least({ r.y0 : r \in rs }),
   x1 |-> Most({ r.x1 : r \in rs }), y1 |-> Most({ r.y1 : r \in rs })]

In(c, r) == r.x0 <= c[1] /\ c[1] < r.x1 /\ r.y0 <= c[2] /\ c[2] < r.y1

WinRect(p) == Rect(p[1], p[2], WinW, WinH)             \* window_outer_rect
BarRect == Rect(1, ScreenH - 1, ScreenW - 1, 1)
ButtonRect == Rect(0, ScreenH - 1, 1, 1)
TitleRect == Rect(1, 0, ScreenW - 2, 1)                \* title_block_rect
PopupRect == Rect(0, ScreenH - 2, 2, 1)
MenuRect == RectUnion({ PopupRect, ButtonRect })       \* startmenu_bounds
CursorRect(c) == Rect(c[1], c[2], 1, 1)

Regions == Wins \cup { "title", "bar", "menu" }
RegionRect(s, r) ==
  CASE r = "title" -> TitleRect [] r = "bar" -> BarRect
    [] r = "menu" -> MenuRect [] OTHER -> WinRect(s.place[r])

----------------------------------------------------------------------------
\* What is painted, front to back; the popup and the button are the menu's region.
Pieces(s) == << "popup", "button", "bar" >> \o s.stack \o << "title" >>
RegionOf(p) == IF p \in { "popup", "button" } THEN "menu" ELSE p

\* A popup that is shut, a hidden banner and a window not open draw nothing.
Visible(s, p) ==
  CASE p = "popup" -> s.menu [] p = "title" -> s.banner
    [] p \in { "button", "bar" } -> TRUE [] OTHER -> s.shown[p]
PieceRect(s, p) ==
  CASE p = "popup" -> PopupRect [] p = "button" -> ButtonRect
    [] OTHER -> RegionRect(s, p)
PieceLook(s, p) ==
  CASE p = "popup" -> << p, s.fx >> [] p \in { "button", "title" } -> << p >>
    [] p = "bar" -> << p, s.stack[1], { k \in Wins : s.shown[k] } >>
    [] OTHER -> << p, s.look[p] >>

\* The places from the front of what is painted when the regions rs are.
Drawn(s, rs) ==
  LET pieces == Pieces(s)
  IN { i \in DOMAIN pieces : RegionOf(pieces[i]) \in rs /\ Visible(s, pieces[i]) }

\* The cells once the regions rs are painted over the backdrop, and the cursor last.
Painted(s, rs) ==
  LET drawn == Drawn(s, rs)
      pieces == Pieces(s)
      rects == [i \in drawn |-> PieceRect(s, pieces[i])]
  IN [c \in Cells |->
        LET on == { i \in drawn : In(c, rects[i]) }
        IN IF c = s.pointer THEN << "cursor" >>
           ELSE IF on = {} THEN << "backdrop", s.fx >>
           ELSE PieceLook(s, pieces[Least(on)])]

\* draw_scene: everything.
Scene(s) == Painted(s, Regions)

----------------------------------------------------------------------------
\* (mutant) only what the first damage asks for is redrawn
SpreadNever(s, rs, dmg) == << rs, dmg >>

\* A region the damage reaches is redrawn and adds to it.
Widen(s, was) ==
  LET more == { r \in Regions : r \in was[1] \/ Overlap(was[2], RegionRect(s, r)) }
  IN << more, RectUnion({ RegionRect(s, r) : r \in more } \cup { was[2] }) >>

\* The fixed-point loop.
Spread(s, rs, dmg) ==
  LET grow[n \in 0 .. Cardinality(Regions)] ==
        IF n = 0 THEN << rs, dmg >> ELSE Widen(s, grow[n - 1])
  IN grow[Cardinality(Regions)]

\* touched[]: the windows of which some field compared differs.
Touched(o, s) == { k \in Wins : << s.place[k], s.shown[k], s.look[k] >>
                                # << o.place[k], o.shown[k], o.look[k] >> }

\* redraw[], before the damage is known.
Redraw(o, s) ==
  (IF s.stack # o.stack THEN Wins ELSE Touched(o, s))
  \cup (IF Touched(o, s) # {} \/ s.stack # o.stack THEN { "bar" } ELSE {})
  \cup (IF s.menu # o.menu THEN { "menu" } ELSE {})
  \cup (IF s.banner # o.banner THEN { "title" } ELSE {})

\* The damage of the cursor, of what must be redrawn and of where windows were.
FirstDamage(o, s) ==
  RectUnion((IF s.fx # o.fx THEN { Rect(0, 0, ScreenW, ScreenH) }
             ELSE { CursorRect(o.pointer), CursorRect(s.pointer) })
            \cup { WinRect(o.place[k]) : k \in Touched(o, s) }
            \cup { RegionRect(s, r) : r \in Redraw(o, s) })

\* update_and_present from the desktop o of the last frame to s.
Present(o, s) ==
  LET all == Spread(s, Redraw(o, s), FirstDamage(o, s))
      painted == Painted(s, all[1])
  IN [c \in Cells |-> IF In(c, all[2]) THEN painted[c] ELSE screen[c]]

----------------------------------------------------------------------------
(* What a frame's input may have changed by the time it is presented: the  *)
(* results of one change of the windows, for each k.                       *)

Bound(lo, v, hi) == IF v < lo THEN lo ELSE IF v > hi THEN hi ELSE v

\* A drag; clamp_window_to_screen keeps the window whole and above the taskbar.
Drag(s, k, d) ==
  IF s.shown[k] /\ s.stack[1] = k
    THEN [s EXCEPT !.place[k] = << Bound(0, @[1] + d[1], ScreenW - WinW),
                                   Bound(0, @[2] + d[2], ScreenH - 1 - WinH) >>]
    ELSE s

\* raise_window shifts what was in front of k back a slot.
Restacked(stack, k) ==
  LET at == { i \in DOMAIN stack : stack[i] = k }
  IN IF at = {} THEN stack
     ELSE [i \in DOMAIN stack |-> IF i = 1 THEN k
                                  ELSE IF i <= Least(at) THEN stack[i - 1] ELSE stack[i]]

\* Open (always raised) or raise; close or minimize; new content.
Raise(s, k) == [s EXCEPT !.shown[k] = TRUE, !.stack = Restacked(@, k)]
Hide(s, k) == [s EXCEPT !.shown[k] = FALSE]
Edit(s, k) == [s EXCEPT !.look[k] = 1 - @]

Changes(s) ==
  { s } \cup UNION { { Raise(s, k), Hide(s, k), Edit(s, k) }
                      \cup { Drag(s, k, d) : d \in Drags } : k \in Wins }

BootPointer == << ScreenW \div 2, ScreenH \div 2 >>

DamageInit ==
  /\ desk \in [place : { BootPlace }, shown : { [k \in Wins |-> FALSE] },
                look : { [k \in Wins |-> 0] }, stack : { BootStack },
                pointer : { BootPointer }, menu : { FALSE }, fx : { FALSE }, banner : { TRUE }]
  /\ screen = Scene(desk)

\* The menu button or an item, the FX item (which shuts the menu as well), and
\* the frame in which the banner's time is up.
Chrome(s) ==
  { s, [s EXCEPT !.menu = ~s.menu], [s EXCEPT !.banner = FALSE] }
    \cup (IF s.menu THEN { [s EXCEPT !.fx = ~s.fx, !.menu = FALSE] } ELSE {})

\* One iteration of kmain_frame that presents.
DamageFrame ==
  \E s \in Changes(desk), p \in Pointers : \E t \in Chrome(s) :
    /\ desk' = [t EXCEPT !.pointer = p]
    /\ screen' = Present(desk, desk')

----------------------------------------------------------------------------
(* The screen always shows what a full redraw would: no cell keeps the     *)
(* trace of a window that left, and none that was uncovered or painted     *)
(* over stays blank (the claim of update_and_present's comment).           *)
ScreenComplete == screen = Scene(desk)
=============================================================================
