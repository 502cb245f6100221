---------------------------- MODULE NavigationBar ----------------------------
(***************************************************************************)
(* NNBaseNavigationBar (APMNavigationBar.swift): buttons are added at the  *)
(* left and at the right, found again by their tags to be hidden, and tell *)
(* the handler of their side when they are clicked.                        *)
(*                                                                         *)
(* buttons holds the subviews of navigationBgView that are buttons, in     *)
(* their order. None is ever taken out: nothing calls removeButtons. The   *)
(* other subviews have the tag 0.                                          *)
(***************************************************************************)
EXTENDS Integers, Sequences

CONSTANTS
  Handlers,   (* the closures callers pass                                 *)
  NoHandler,
  MaxAdded,   (* the most buttons one call adds                            *)
  MaxButtons  (* a bound on the buttons of the bar                         *)

(* With more than a hundred buttons the tags of the left would be those of   *)
(* the right; the theorems take this as their hypothesis.                    *)
AddedAssumption == MaxAdded \in 1..100 /\ MaxButtons \in Nat

Sides == {"left", "right"}

VARIABLES
  buttons,   (* their tags, whether they are hidden, and, as history, the   *)
             (* side and the index they were added for                     *)
  handler,   (* leftNavBarHandle, rightNavBarHandle                        *)
  hide,      (* hideNavLeftButton, hideNavRightButton                      *)
  told,      (* history: the handler the last click called, and with what    *)
  careless   (* history: the sides given buttons twice, more than two, or   *)
             (* while hidden                                               *)

vars == <<buttons, handler, hide, told, careless>>

k_tag == [left |-> 800, right |-> 900]
Tag(side, index) == k_tag[side] + index

Init ==
  /\ buttons = << >>
  /\ handler = [side \in Sides |-> NoHandler]
  /\ hide = [side \in Sides |-> FALSE]
  /\ told = << >>
  /\ careless = {}

Of(side) == {i \in DOMAIN buttons : buttons[i].side = side}

-----------------------------------------------------------------------------
NewButton(side, index) ==
  [tag |-> Tag(side, index), hidden |-> FALSE, side |-> side, index |-> index]

(* addNavLeftButtons and addNavRightButtons: the new buttons are visible,    *)
(* whatever the flag, and the handler replaces the one there was.            *)
AddNavButtons(side, n, h) ==
  /\ Len(buttons) + n <= MaxButtons
  /\ handler' = [handler EXCEPT ![side] = h]
  /\ buttons' = buttons \o [i \in 1..n |-> NewButton(side, i - 1)]
  /\ careless' = IF n > 2 \/ hide[side] \/ Of(side) # {}
                 THEN careless \cup {side} ELSE careless
  /\ UNCHANGED <<hide, told>>

(* viewWithTag: the first subview that has the tag.                         *)
ViewWithTag(tag) ==
  {i \in DOMAIN buttons : buttons[i].tag = tag /\ \A j \in 1..(i - 1) : buttons[j].tag # tag}

Found(side) == ViewWithTag(Tag(side, 0)) \cup ViewWithTag(Tag(side, 1))

SetHideNavButton(side, b) ==
  /\ hide' = [hide EXCEPT ![side] = b]
  /\ buttons' = [i \in DOMAIN buttons |->
                   IF i \in Found(side) THEN [buttons[i] EXCEPT !.hidden = b] ELSE buttons[i]]
  /\ UNCHANGED <<handler, told, careless>>

(* What a handler is told of a tag: left1, left2, right1 or right2. The      *)
(* handler of the other tags is nobody.                                     *)
Answering(tag) == {r \in Sides \X {0, 1} : Tag(r[1], r[2]) = tag}

(* buttonClick; hidden buttons get no touches.                              *)
ButtonClick(i) ==
  /\ ~buttons[i].hidden
  /\ told' = IF Answering(buttons[i].tag) = {} THEN << >>
             ELSE LET result == CHOOSE r \in Answering(buttons[i].tag) : TRUE
                  IN  <<handler[result[1]], result>>
  /\ UNCHANGED <<buttons, handler, hide, careless>>

-----------------------------------------------------------------------------
Next ==
  \/ \E side \in Sides, n \in 0..MaxAdded, h \in Handlers : AddNavButtons(side, n, h)
  \/ \E side \in Sides, b \in BOOLEAN : SetHideNavButton(side, b)
  \/ \E i \in DOMAIN buttons : ButtonClick(i)

Spec == Init /\ [][Next]_vars

-----------------------------------------------------------------------------
(* Properties.                                                              *)

Tags == {Tag(side, index) : side \in Sides, index \in 0..(MaxAdded - 1)}
Button == [tag : Tags, hidden : BOOLEAN, side : Sides, index : 0..(MaxAdded - 1)]

TypeOK ==
  /\ buttons \in Seq(Button)
  /\ handler \in [Sides -> Handlers \cup {NoHandler}]
  /\ hide \in [Sides -> BOOLEAN]
  /\ careless \subseteq Sides

(* A click of one of the first two buttons of a call tells the handler that  *)
(* was passed last for its side, which there is wherever there is a button,  *)
(* which of the two it was; never the other side's, although all buttons are *)
(* told apart by their tags alone. A third button tells nobody.              *)
TellsItsSide ==
  [][\A i \in DOMAIN buttons :
       LET side == buttons[i].side
           index == buttons[i].index
       IN  ButtonClick(i) =>
             IF index > 1 THEN told' = << >>
             ELSE /\ handler[side] \in Handlers
                  /\ told' = <<handler[side], <<side, index>>>>]_vars

(* Buttons that are added once, at most two as the comment demands           *)
(* (APMNavigationBar.swift:224), and not while the side is hidden, are       *)
(* hidden exactly when the flag says so.                                    *)
HiddenTogether ==
  \A side \in Sides \ careless : \A i \in Of(side) : buttons[i].hidden = hide[side]
=============================================================================
