------------------------------ MODULE TrfxScreen ------------------------------
(***************************************************************************)
(* The layout state of src/trfx_layout.c as its callers drive it, together *)
(* with the screen it lays out: every call of that interface, a new        *)
(* terminal size, and the t key, in any order.  The percentages are fields *)
(* of a public struct that any caller may write; the getters clamp them.   *)
(***************************************************************************)
EXTENDS TrfxLayout

CONSTANTS
  Heights, Widths,     \* terminal sizes
  Percents             \* what a caller may store as the primary percentage

ASSUME ScreenAssumption ==
  Heights \subseteq Nat /\ Widths \subseteq Nat /\ Percents \subseteq Int

VARIABLES
  state,               \* TrfxTwoColumnLayoutState
  height, width,       \* the terminal
  show                 \* SHOW_TOP_PANELS

vars == <<state, height, width, show>>

LayoutState ==
  [secondary_visible : BOOLEAN, primary_width_percent : Int,
   secondary_width_percent : Int, secondary_state_index : Nat]

TypeOK ==
  /\ state \in LayoutState
  /\ height \in Nat /\ width \in Nat
  /\ show \in BOOLEAN

Init ==
  /\ state = InitLayoutState
  /\ height \in Heights /\ width \in Widths
  /\ show \in BOOLEAN

SetVisible ==
  /\ \E visible \in BOOLEAN : state' = SetSecondaryVisible(state, visible)
  /\ UNCHANGED <<height, width, show>>

Toggle ==
  /\ state' = ToggleSecondary(state)
  /\ UNCHANGED <<height, width, show>>

SetIndex ==
  /\ \E index \in -1 .. 1 : state' = SetSecondaryStateIndex(state, index)
  /\ UNCHANGED <<height, width, show>>

SetPercents ==
  /\ \E percent \in Percents :
       state' = [state EXCEPT !.primary_width_percent = percent,
                              !.secondary_width_percent = 100 - percent]
  /\ UNCHANGED <<height, width, show>>

Resize ==
  /\ height' \in Heights /\ width' \in Widths
  /\ UNCHANGED <<state, show>>

ToggleTopPanels ==
  /\ show' = ~show
  /\ UNCHANGED <<state, height, width>>

Next ==
  SetVisible \/ Toggle \/ SetIndex \/ SetPercents \/ Resize \/ ToggleTopPanels

Spec == Init /\ [][Next]_vars

-----------------------------------------------------------------------------
Geometry ==
  ComputeGeometry(state, Row2Y(show), 0, Row2Height(height, show), width)

(* The two columns fill the row without gap or overlap, and when there are  *)
(* two, each has at least one column of cells, whatever the percentages.    *)
ColumnsTile ==
  /\ Geometry.primary_x = 0
  /\ Geometry.secondary_x = Geometry.primary_width
  /\ Geometry.primary_width + Geometry.secondary_width = width
  /\ IF Geometry.secondary_visible
     THEN Geometry.primary_width >= 1 /\ Geometry.secondary_width >= 1
     ELSE Geometry.secondary_width = 0

(* On a terminal that is not too small the rows fill the screen exactly and *)
(* every top panel has room for its frame and at least one cell in it.      *)
RowsTile ==
  ~TooSmall(height, width, show) =>
    /\ Row1Height(show) + Geometry.primary_height = height
    /\ LET widths == Row1Widths(width)
       IN  /\ widths[1] + widths[2] + widths[3] + widths[4] = width
           /\ \A i \in 1 .. 4 : widths[i] >= 3

(* Folding the support column away never changes what it comes back to: the *)
(* same split at the same size, and the view index it had.                  *)
FoldingKeepsTheRest ==
  [][state.secondary_visible # state'.secondary_visible =>
       /\ PrimaryPercent(state') = PrimaryPercent(state)
       /\ state'.secondary_state_index = state.secondary_state_index]_vars
=============================================================================
