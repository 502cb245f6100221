------------------------------ MODULE HoverView ------------------------------
(***************************************************************************)
(* NNHoverView (NNOverView.swift), the floating window EyesManager shows   *)
(* the frame rate in: a finger drags it, and when the finger lifts it goes *)
(* to one of the sides of the screen, unless the touch was a click.        *)
(*                                                                         *)
(* Lengths are integers. The frame the window is given (EyesManager.swift: *)
(* 48) is smaller than the size its margins are computed with.             *)
(***************************************************************************)
EXTENDS Integers

CONSTANTS
  screenW, screenH,                   (* UIScreen.main.bounds when it was made *)
  Half,                               (* half of size, as correctLocation has it *)
  Radius,                             (* half of the frame                  *)
  topMinMargin, bottomMinMargin, leftMinMargin, rightMinMargin,
  InitialX, InitialY,                 (* the centre of the first frame      *)
  Offsets                             (* how far a finger goes between two events *)

(* What the constants are; the theorems take it, and ScreenAssumption, as     *)
(* their hypotheses.                                                        *)
LengthsAssumption ==
  /\ {screenW, screenH, Half, Radius} \subseteq Nat \ {0}
  /\ {topMinMargin, bottomMinMargin, leftMinMargin, rightMinMargin} \subseteq Nat
  /\ InitialX \in 0..screenW /\ InitialY \in 0..screenH
  /\ Offsets \subseteq [x : Int, y : Int]

(* The view and its margins fit the screen, and the margins of the sides are *)
(* alike, as they are in the code.                                          *)
ScreenAssumption ==
  /\ leftMinMargin = rightMinMargin
  /\ leftMinMargin + rightMinMargin + 2 * Half <= screenW
  /\ topMinMargin + bottomMinMargin + 2 * Half <= screenH

VARIABLES
  center,     (* self.center                                               *)
  beginPoint, (* where the view was when the touch began                   *)
  touching,   (* a finger is on the view                                   *)
  landscape,  (* the screen lies on its side                               *)
  handled,    (* history: the last touch was taken for a click             *)
  loose,      (* history: the view was left where a touch had moved it     *)
  rotated     (* history: the screen has been turned                       *)

vars == <<center, beginPoint, touching, landscape, handled, loose, rotated>>

Plus(p, d) == [x |-> p.x + d.x, y |-> p.y + d.y]

Initial == [x |-> InitialX, y |-> InitialY]

Width == IF landscape THEN screenH ELSE screenW
Height == IF landscape THEN screenW ELSE screenH

(* A finger on the screen can hold a view whose centre is no further out.    *)
OnScreen(p) ==
  /\ -Radius < p.x /\ p.x < Width + Radius
  /\ -Radius < p.y /\ p.y < Height + Radius

Init ==
  /\ center = Initial /\ beginPoint = [x |-> 0, y |-> 0]
  /\ touching = FALSE
  /\ landscape = FALSE
  /\ handled = FALSE /\ loose = FALSE /\ rotated = FALSE

-----------------------------------------------------------------------------
left == leftMinMargin + Half
right == screenW - (rightMinMargin + Half)
top == topMinMargin + Half
bottom == screenH - (bottomMinMargin + Half)

Side(x) == IF 2 * x > screenW THEN right ELSE left

Between(y) ==
  IF y < top THEN top
  ELSE IF y > bottom THEN bottom ELSE y

correctLocation(p) == [x |-> Side(p.x), y |-> Between(p.y)]

-----------------------------------------------------------------------------
(* A touch that begins has not moved: its offset is zero.                   *)
TouchesBegan ==
  /\ ~touching /\ OnScreen(center)
  /\ touching' = TRUE
  /\ beginPoint' = center
  /\ handled' = FALSE
  /\ UNCHANGED <<center, landscape, loose, rotated>>

TouchesMoved ==
  /\ touching
  /\ \E d \in Offsets : OnScreen(Plus(center, d)) /\ center' = Plus(center, d)
  /\ UNCHANGED <<beginPoint, touching, landscape, handled, loose, rotated>>

(* The last offset tells a click from a drag, but does not move the view.   *)
TouchesEnded ==
  /\ touching
  /\ \E d \in Offsets \cup {[x |-> 0, y |-> 0]} :
       /\ OnScreen(Plus(center, d))
       /\ IF Plus(center, d) = beginPoint
          THEN /\ handled' = TRUE /\ UNCHANGED center
               /\ loose' = (loose \/ center # beginPoint)
          ELSE /\ center' = correctLocation(center)
               /\ loose' = FALSE /\ UNCHANGED handled
  /\ touching' = FALSE
  /\ UNCHANGED <<beginPoint, landscape, rotated>>

(* The system takes the touch away, or isShowFPS the window: the view has no *)
(* touchesCancelled.                                                        *)
TouchesCancelled ==
  /\ touching
  /\ touching' = FALSE
  /\ loose' = (loose \/ center # beginPoint)
  /\ UNCHANGED <<center, beginPoint, landscape, handled, rotated>>

Rotate ==
  /\ ~touching
  /\ landscape' = ~landscape /\ rotated' = TRUE
  /\ UNCHANGED <<center, beginPoint, touching, handled, loose>>

Next == TouchesBegan \/ TouchesMoved \/ TouchesEnded \/ TouchesCancelled \/ Rotate

Spec == Init /\ [][Next]_vars

-----------------------------------------------------------------------------
(* Properties.                                                              *)

(* The view never gets further out than a finger can take it on either way   *)
(* of holding the screen.                                                   *)
Longer == IF screenW > screenH THEN screenW ELSE screenH
Extent == (1 - Radius)..(Longer + Radius - 1)
Point == [x : Extent, y : Extent]

TypeOK ==
  /\ center \in Point /\ beginPoint \in Point
  /\ {touching, landscape, handled, loose, rotated} \subseteq BOOLEAN

Places == {left, right} \X (top..bottom)

(* Whatever fingers and the system do, a view that no touch was cut short on *)
(* rests at a side, between the margins, or has never been moved.            *)
RestsInPlace ==
  ~touching /\ ~loose => center = Initial \/ <<center.x, center.y>> \in Places

(* On a screen that is not turned the view can always be touched again, even *)
(* if the system took the touch away.                                       *)
Reachable == ~rotated => OnScreen(center)

Distance(a, b) == IF a > b THEN a - b ELSE b - a

(* A touch that ends as a drag takes the view to the nearer of the two sides. *)
SnapsToNearerSide ==
  [][touching /\ ~touching' /\ ~handled' /\ center' # center =>
       \A x \in {left, right} : Distance(center.x, center'.x) <= Distance(center.x, x)]_vars
=============================================================================
