--------------------------- MODULE TrfxScreen_proofs ---------------------------
(* Proofs about TrfxScreen: the layout arithmetic, for every terminal size  *)
(* and whatever percentages a caller stores.                                *)
EXTENDS TrfxScreen, TLAPS

(* The split always leaves both columns a cell. *)
LEMMA PrimaryWidthBounds ==
  ASSUME NEW s \in LayoutState, NEW w \in Nat, w >= MinTwoColumnWidth
  PROVE  PrimaryWidth(s, w) \in 1 .. (w - 1)
<1> DEFINE share == (w * PrimaryPercent(s)) \div 100
<1>1. PrimaryPercent(s) \in 1 .. 99
  BY DEF PrimaryPercent, ClampPercent, LayoutState
<1>2. share \in Int
  BY <1>1
<1>3. PrimaryWidth(s, w) = IF share < 1 THEN 1
                           ELSE IF share >= w /\ w > 1 THEN w - 1 ELSE share
  BY DEF PrimaryWidth
<1> HIDE DEF share
<1> QED
  BY <1>2, <1>3 DEF MinTwoColumnWidth

(* Every call of the layout's interface keeps the state's type: the split,  *)
(* the index and the sizes stay numbers of the ranges the geometry needs.   *)
THEOREM ScreenTypes == Spec => []TypeOK
<1>1. Init => TypeOK
  BY ScreenAssumption DEF Init, TypeOK, InitLayoutState, LayoutState
<1>2. TypeOK /\ [Next]_vars => TypeOK'
  <2> SUFFICES ASSUME TypeOK, [Next]_vars PROVE TypeOK'
    OBVIOUS
  <2> USE DEF TypeOK, LayoutState
  <2>1. CASE SetVisible
    BY <2>1 DEF SetVisible, SetSecondaryVisible
  <2>2. CASE Toggle
    BY <2>2 DEF Toggle, ToggleSecondary
  <2>3. CASE SetIndex
    BY <2>3 DEF SetIndex, SetSecondaryStateIndex
  <2>4. CASE SetPercents
    <3>1. PICK percent \in Percents :
            state' = [state EXCEPT !.primary_width_percent = percent,
                                   !.secondary_width_percent = 100 - percent]
      BY <2>4 DEF SetPercents
    <3>2. percent \in Int /\ 100 - percent \in Int
      BY ScreenAssumption
    <3> QED
      BY <2>4, <3>1, <3>2 DEF SetPercents
  <2>5. CASE Resize
    BY <2>5, ScreenAssumption DEF Resize
  <2>6. CASE ToggleTopPanels
    BY <2>6 DEF ToggleTopPanels
  <2>7. CASE UNCHANGED vars
    BY <2>7 DEF vars
  <2> QED
    BY <2>1, <2>2, <2>3, <2>4, <2>5, <2>6, <2>7 DEF Next
<1> QED
  BY <1>1, <1>2, PTL DEF Spec

(* compute_geometry: on every terminal and for every percentage, stored or  *)
(* clamped, the columns fill the row and a visible column is never empty.   *)
THEOREM ColumnsAlwaysTile == Spec => []ColumnsTile
<1>1. TypeOK => ColumnsTile
  <2> SUFFICES ASSUME TypeOK PROVE ColumnsTile
    OBVIOUS
  <2>1. CASE state.secondary_visible /\ width >= MinTwoColumnWidth
    <3>1. PrimaryWidth(state, width) \in 1 .. (width - 1)
      BY <2>1, PrimaryWidthBounds DEF TypeOK
    <3> QED
      BY <2>1, <3>1 DEF TypeOK, LayoutState, ColumnsTile, Geometry,
                        ComputeGeometry
  <2>2. CASE ~(state.secondary_visible /\ width >= MinTwoColumnWidth)
    <3>1. /\ Geometry.primary_x = 0
          /\ Geometry.primary_width = width
          /\ Geometry.secondary_x = 0 + width
          /\ Geometry.secondary_width = width - width
      BY <2>2 DEF Geometry, ComputeGeometry
    <3>2. ~Geometry.secondary_visible
      BY Zenon, <2>2 DEF Geometry, ComputeGeometry
    <3> QED
      BY <3>1, <3>2 DEF TypeOK, ColumnsTile
  <2> QED
    BY <2>1, <2>2
<1> QED
  BY <1>1, ScreenTypes, PTL

(* calculate_row1_widths and calculate_row2_height: past the size test, the *)
(* rows fill the screen and no top panel is too narrow for its frame.       *)
THEOREM RowsAlwaysTile == Spec => []RowsTile
<1>1. TypeOK => RowsTile
  BY DEF TypeOK, RowsTile, TooSmall, Row1Height, Row2Height, Row1Widths,
         Geometry, ComputeGeometry, Row2Y, FIXED_ROW1_HEIGHT,
         MIN_ROW2_HEIGHT, MIN_TUI_WIDTH
<1> QED
  BY <1>1, ScreenTypes, PTL

(* trfx_two_column_layout_toggle_secondary and _set_secondary_visible leave *)
(* the split and the index alone, and no other call changes visibility.     *)
THEOREM FoldingKeepsTheSplit == Spec => FoldingKeepsTheRest
<1> DEFINE Kept == state.secondary_visible # state'.secondary_visible =>
                     /\ PrimaryPercent(state') = PrimaryPercent(state)
                     /\ state'.secondary_state_index = state.secondary_state_index
<1>1. TypeOK /\ [Next]_vars => [Kept]_vars
  <2> SUFFICES ASSUME TypeOK, [Next]_vars PROVE Kept \/ UNCHANGED vars
    OBVIOUS
  <2> USE DEF TypeOK, LayoutState, PrimaryPercent
  <2>1. CASE SetVisible
    BY <2>1 DEF SetVisible, SetSecondaryVisible
  <2>2. CASE Toggle
    BY <2>2 DEF Toggle, ToggleSecondary
  <2>3. CASE SetIndex
    BY <2>3 DEF SetIndex, SetSecondaryStateIndex
  <2>4. CASE SetPercents
    BY <2>4 DEF SetPercents
  <2>5. CASE Resize \/ ToggleTopPanels
    BY <2>5 DEF Resize, ToggleTopPanels
  <2> QED
    BY <2>1, <2>2, <2>3, <2>4, <2>5 DEF Next
<1> QED
  BY <1>1, ScreenTypes, PTL DEF Spec, FoldingKeepsTheRest
=============================================================================
