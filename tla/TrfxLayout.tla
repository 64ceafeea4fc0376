----------------------------- MODULE TrfxLayout -----------------------------
(***************************************************************************)
(* The geometry of the dashboard (src/trfx_layout.c and the size helpers   *)
(* of src/trfx_dashboard.c): where the four top panels, the primary pane   *)
(* and the support column go for a terminal of h rows and w columns.       *)
(*                                                                         *)
(* Everything here is a pure operator on integers.  The C code works on    *)
(* int; terminal sizes are far below 2^31 / 100, so no product overflows.  *)
(***************************************************************************)
EXTENDS Integers

(* The #defines at the top of trfx_dashboard.c. *)
FIXED_ROW1_HEIGHT == 11
MIN_ROW2_HEIGHT   == 3
MIN_TUI_WIDTH     == 50

(* Below this width compute_geometry folds the support column away. *)
MinTwoColumnWidth == 90

(***************************************************************************)
(* TrfxTwoColumnLayoutState.                                               *)
(***************************************************************************)
InitLayoutState ==
  [secondary_visible |-> TRUE, primary_width_percent |-> 70,
   secondary_width_percent |-> 30, secondary_state_index |-> 0]

SetSecondaryVisible(state, visible) ==
  [state EXCEPT !.secondary_visible = visible]

(* Mutant for ToggleSecondary: it starts again from the initial state. *)
ToggleSecondaryResets(state) ==
  [InitLayoutState EXCEPT !.secondary_visible = ~state.secondary_visible]

ToggleSecondary(state) ==
  [state EXCEPT !.secondary_visible = ~@]

(* Mutant for SetSecondaryStateIndex: the index is stored as it comes. *)
SetSecondaryStateIndexRaw(state, index) ==
  [state EXCEPT !.secondary_state_index = index]

SetSecondaryStateIndex(state, index) ==
  [state EXCEPT !.secondary_state_index = IF index < 0 THEN 0 ELSE index]

ClampPercent(value, fallback) ==
  IF value \in 1..99 THEN value ELSE fallback

(* The percentage getters never return a value outside 1..99, so the guard *)
(* on their sum in compute_geometry is dead code and has no counterpart.   *)
PrimaryPercent(state) == ClampPercent(state.primary_width_percent, 70)

(***************************************************************************)
(* trfx_two_column_layout_compute_geometry, for the non-negative sizes its *)
(* first guard lets through: the widths of the two columns and the column  *)
(* at which the second begins.  PrimaryWidthNoFloor is a mutant: a share   *)
(* that rounds to nothing is not given a column.                           *)
(***************************************************************************)
PrimaryWidthNoFloor(state, w) ==
  LET share == (w * PrimaryPercent(state)) \div 100
  IN  IF share >= w /\ w > 1 THEN w - 1 ELSE share

PrimaryWidth(state, w) ==
  LET share == (w * PrimaryPercent(state)) \div 100
  IN  IF share < 1 THEN 1
      ELSE IF share >= w /\ w > 1 THEN w - 1
      ELSE share

ComputeGeometry(state, y, x, h, w) ==
  LET two   == state.secondary_visible /\ w >= MinTwoColumnWidth
      first == IF two THEN PrimaryWidth(state, w) ELSE w
  IN  [primary_x |-> x, primary_y |-> y,
       primary_width |-> first, primary_height |-> h,
       secondary_x |-> x + first, secondary_y |-> y,
       secondary_width |-> w - first, secondary_height |-> h,
       secondary_visible |-> two]

(***************************************************************************)
(* The dashboard's own arithmetic.  show is SHOW_TOP_PANELS.               *)
(***************************************************************************)
Row1Height(show) == IF show THEN FIXED_ROW1_HEIGHT ELSE 0

Row2Y(show) == Row1Height(show)

(* Mutant for Row2Height: the top row is not subtracted. *)
Row2HeightWhole(h, show) == IF h < MIN_ROW2_HEIGHT THEN MIN_ROW2_HEIGHT ELSE h

Row2Height(h, show) ==
  LET rest == h - Row1Height(show)
  IN  IF rest < MIN_ROW2_HEIGHT THEN MIN_ROW2_HEIGHT ELSE rest

TooSmall(h, w, show) ==
  w < MIN_TUI_WIDTH \/ h < Row1Height(show) + MIN_ROW2_HEIGHT

(* 25%, 20%, 25% of the width, truncated, and the rest. *)
Row1Widths(w) ==
  LET quarter == w \div 4
      fifth   == w \div 5
  IN  <<quarter, fifth, quarter, w - 2 * quarter - fifth>>

DashboardGeometry(h, w, show) ==
  ComputeGeometry(InitLayoutState, Row2Y(show), 0, Row2Height(h, show), w)

SecondaryVisible(w) == DashboardGeometry(0, w, FALSE).secondary_visible
=============================================================================
