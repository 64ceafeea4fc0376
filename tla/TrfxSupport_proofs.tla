------------------------- MODULE TrfxSupport_proofs -------------------------
(***************************************************************************)
(* For any number of views, flows shown and rows, and whatever the primary *)
(* pane may run: the shared states keep their types, a focus never leaves  *)
(* its list, only the loss of its row moves it without a key, and a        *)
(* request is pending or taken while the column shows another view.        *)
(***************************************************************************)
EXTENDS TrfxSupport, TLAPS

(* The index arithmetic stays within the views. *)
LEMMA NextIndexInViews ==
  ASSUME NEW index \in Views, NEW delta \in {-1, 0, 1}
  PROVE  NextIndex(index, delta) \in Views
<1>1. index + delta \in Int /\ ViewCount \in Nat \ {0} /\ ~(index >= ViewCount)
  BY SupportAssumption DEF Views
<1>2. (index + delta) % ViewCount \in 0 .. ViewCount - 1
  BY <1>1
<1>. QED BY <1>1, <1>2 DEF NextIndex, Views

(* What is visible of a list is a part of it. *)
LEMMA VisibleIsPart ==
  ASSUME NEW rows \in 0 .. MaxRows
  PROVE  Visible(rows) \in 0 .. MaxRows /\ Visible(rows) <= rows
BY SupportAssumption DEF Visible

(* A list's state with its focus on a row. *)
InRange(list, visible) ==
  list \in Lists /\ FocusOnRow(list, visible)

(* A move of the focus stays on the visible rows. *)
LEMMA MovedOnRow ==
  ASSUME NEW list \in Lists, NEW visible \in 0 .. MaxRows, FocusOnRow(list, visible),
         NEW delta \in {-1, 1}
  PROVE  InRange([list EXCEPT !.focus = Moved(list.focus, visible, delta)], visible)
<1>1. Moved(list.focus, visible, delta) \in 0 .. MaxRows
      /\ (Moved(list.focus, visible, delta) = 0
            \/ Moved(list.focus, visible, delta) < visible)
  BY SupportAssumption DEF Moved, FocusOnRow, Lists
<1>. QED BY <1>1 DEF InRange, FocusOnRow, Lists

(* So does a publication. *)
LEMMA ClampOnRow ==
  ASSUME NEW focus \in 0 .. MaxRows, NEW visible \in 0 .. MaxRows
  PROVE  /\ Clamp(focus, visible) \in 0 .. MaxRows
         /\ Clamp(focus, visible) = 0 \/ Clamp(focus, visible) < visible
         /\ Clamp(focus, visible) # focus => focus >= visible
BY SupportAssumption DEF Clamp

LEMMA InitializedOnRow ==
  ASSUME NEW list \in Lists
  PROVE  /\ Initialized(list) \in Lists
         /\ FocusOnRow(list, list.rows) =>
              FocusOnRow(Initialized(list), Initialized(list).rows)
         /\ FocusOnRow(list, Visible(list.rows)) =>
              FocusOnRow(Initialized(list), Visible(Initialized(list).rows))
<1>1. CASE list.initialized
  BY <1>1 DEF Initialized
<1>2. CASE ~list.initialized
  <2>1. Initialized(list) = [initialized |-> TRUE, rows |-> 0, focus |-> 0]
    BY <1>2 DEF Initialized, Empty
  <2>2. Initialized(list) \in Lists /\ Initialized(list).focus = 0
    BY <2>1, SupportAssumption DEF Lists
  <2>. QED BY <2>2 DEF FocusOnRow
<1>. QED BY <1>1, <1>2

SupportInv == TypeOK /\ FocusInRange

LEMMA SupportInvInit == Init => SupportInv
<1>. SUFFICES ASSUME Init PROVE SupportInv
  OBVIOUS
<1>1. 0 \in Views /\ Empty \in Lists /\ 0 \in 0 .. MaxRows
  BY SupportAssumption DEF Views, Empty, Lists
<1>2. TypeOK
  BY <1>1, SupportAssumption DEF Init, TypeOK, Blank, MainLabels
<1>3. FocusInRange
  BY DEF Init, FocusInRange, FocusOnRow, Empty
<1>. QED BY <1>2, <1>3 DEF SupportInv

LEMMA SupportInvNext == SupportInv /\ [Next]_vars => SupportInv'
<1>. SUFFICES ASSUME SupportInv, [Next]_vars PROVE SupportInv'
  OBVIOUS
<1>. USE DEF SupportInv
<1>1. SelectedIndex \in Views /\ SelectedIndex = selected
  BY SupportAssumption DEF TypeOK, SelectedIndex, Views
<1>2. ASSUME NEW index \in Views PROVE NextIndex(index, 0) \in Views
  BY NextIndexInViews
<1>. USE DEF rest, lists, views, main, primary, support, At
<1>3. CASE KeyDirect
  <2>1. selected' \in Views
    BY <1>2, <1>3, SupportAssumption DEF KeyDirect, SetSelectedIndex
  <2>. QED BY <1>3, <2>1 DEF KeyDirect, SetSelectedIndex, TypeOK, FocusInRange, MainLabels
<1>4. CASE KeyMove
  <2>1. PICK delta \in {-1, 1} :
          \/ /\ bandwidth' = [bandwidth EXCEPT
                  !.focus = Moved(bandwidth.focus, Visible(bandwidth.rows), delta)]
             /\ UNCHANGED connections
          \/ /\ connections' = [connections EXCEPT
                  !.focus = Moved(connections.focus, connections.rows, delta)]
             /\ UNCHANGED bandwidth
    BY <1>4 DEF KeyMove
  <2>2. bandwidth \in Lists /\ connections \in Lists
        /\ bandwidth.rows \in 0 .. MaxRows /\ connections.rows \in 0 .. MaxRows
    BY DEF TypeOK, Lists
  <2>3. CASE bandwidth' = [bandwidth EXCEPT
               !.focus = Moved(bandwidth.focus, Visible(bandwidth.rows), delta)]
             /\ UNCHANGED connections
    <3>1. InRange(bandwidth', Visible(bandwidth.rows))
      BY <2>2, <2>3, VisibleIsPart, MovedOnRow DEF FocusInRange
    <3>2. bandwidth'.rows = bandwidth.rows
      BY <2>2, <2>3 DEF Lists
    <3>. QED BY <1>4, <2>3, <3>1, <3>2 DEF KeyMove, TypeOK, FocusInRange, InRange, FocusOnRow
  <2>4. CASE connections' = [connections EXCEPT
               !.focus = Moved(connections.focus, connections.rows, delta)]
             /\ UNCHANGED bandwidth
    <3>1. InRange(connections', connections.rows)
      BY <2>2, <2>4, MovedOnRow DEF FocusInRange
    <3>2. connections'.rows = connections.rows
      BY <2>2, <2>4 DEF Lists
    <3>. QED BY <1>4, <2>4, <3>1, <3>2 DEF KeyMove, TypeOK, FocusInRange, InRange, FocusOnRow
  <2>. QED BY <2>1, <2>3, <2>4
<1>5. CASE KeySelector
  BY <1>1, <1>5 DEF KeySelector, TypeOK, FocusInRange, MainLabels
<1>6. CASE SelectorKey
  <2>1. active' \in Views
    BY <1>1, <1>6, NextIndexInViews DEF SelectorKey, TypeOK
  <2>2. mpc' \in MainLabels /\ paused' \in BOOLEAN
    BY <1>6 DEF SelectorKey, TypeOK, MainLabels
  <2>3. UNCHANGED <<views, lists, rest>>
    BY <1>6 DEF SelectorKey
  <2>. QED BY <2>1, <2>2, <2>3 DEF TypeOK, FocusInRange
<1>7. CASE SelectorApply
  <2>1. selected' \in Views
    BY <1>2, <1>7 DEF SelectorApply, SetSelectedIndex, TypeOK
  <2>. QED BY <1>7, <2>1 DEF SelectorApply, SetSelectedIndex, TypeOK, FocusInRange, MainLabels
<1>8. CASE Request
  <2>1. 0 \in Views
    BY SupportAssumption DEF Views
  <2>. QED BY <1>8, <2>1 DEF Request, RequestRefresh, TypeOK, FocusInRange, MainLabels
<1>9. CASE KeyChange \/ JoinPrimary \/ StartPrimary
  <2>1. CASE KeyChange
    <3>1. mpc' \in MainLabels /\ paused' \in BOOLEAN /\ pstop' \in BOOLEAN
      BY <2>1 DEF KeyChange, TypeOK, MainLabels
    <3>. QED BY <2>1, <3>1 DEF KeyChange, TypeOK, FocusInRange
  <2>2. CASE JoinPrimary
    BY <2>2 DEF JoinPrimary, TypeOK, FocusInRange, MainLabels
  <2>3. CASE StartPrimary
    <3>1. module' \in Modules /\ pstop' \in BOOLEAN
      BY <2>3 DEF StartPrimary, TypeOK
    <3>2. ppc' = "init" \/ ppc' = ppc
      BY <2>3 DEF StartPrimary
    <3>3. mpc' = "keys" /\ paused' = FALSE
          /\ UNCHANGED <<views, lists, active, collected, support, stolen>>
      BY <2>3 DEF StartPrimary
    <3>4. mpc' \in MainLabels /\ paused' \in BOOLEAN
      BY <3>3 DEF MainLabels
    <3>5. ppc' \in {"none", "init", "loop", "publish", "draw", "wait", "exited"}
      BY <3>2 DEF TypeOK
    <3>6. TypeOK'
      BY <3>1, <3>3, <3>4, <3>5 DEF TypeOK
    <3>7. FocusInRange'
      BY <3>3 DEF FocusInRange
    <3>. QED BY <3>6, <3>7
  <2>. QED BY <1>9, <2>1, <2>2, <2>3
<1>10. CASE Fold \/ JoinSupport \/ Unfold
  <2>1. CASE Fold
    BY <2>1 DEF Fold, TypeOK, FocusInRange, MainLabels
  <2>2. CASE JoinSupport
    BY <2>2 DEF JoinSupport, Blank, TypeOK, FocusInRange, MainLabels
  <2>3. CASE Unfold
    BY <2>3 DEF Unfold, TypeOK, FocusInRange
  <2>. QED BY <1>10, <2>1, <2>2, <2>3
<1>11. CASE PrimaryInit \/ SupportInit
  <2>1. bandwidth' \in Lists /\ connections' \in Lists /\ FocusInRange'
    BY <1>11, InitializedOnRow DEF PrimaryInit, SupportInit, TypeOK, FocusInRange
  <2>. QED BY <1>11, <2>1 DEF PrimaryInit, SupportInit, TypeOK
<1>12. CASE PrimaryCollect
  BY <1>12 DEF PrimaryCollect, TypeOK, FocusInRange
<1>13. CASE PrimaryPublish
  <2>1. collected \in 0 .. MaxRows /\ bandwidth \in Lists /\ connections \in Lists
        /\ Visible(collected) \in 0 .. MaxRows
    BY VisibleIsPart DEF TypeOK
  <2>2. bandwidth.focus \in 0 .. MaxRows /\ connections.focus \in 0 .. MaxRows
    BY <2>1 DEF Lists
  <2>3. CASE BandwidthUpdate(collected) /\ UNCHANGED connections
    <3>1. InRange(bandwidth', Visible(bandwidth'.rows))
      BY <2>1, <2>2, <2>3, ClampOnRow DEF BandwidthUpdate, InRange, FocusOnRow, Lists
    <3>2. ppc' \in {"wait", "draw"} /\ collected' \in 0 .. MaxRows
      BY <1>13, SupportAssumption DEF PrimaryPublish
    <3>3. UNCHANGED <<views, main, module, pstop, support, stolen>>
      BY <1>13 DEF PrimaryPublish
    <3>4. bandwidth' \in Lists /\ connections' \in Lists
      BY <2>1, <2>3, <3>1 DEF InRange
    <3>5. TypeOK'
      BY <3>2, <3>3, <3>4 DEF TypeOK
    <3>6. FocusInRange'
      BY <2>3, <3>1 DEF InRange, FocusInRange
    <3>. QED BY <3>5, <3>6
  <2>4. CASE ConnectionUpdate(collected) /\ UNCHANGED bandwidth
    <3>1. InRange(connections', connections'.rows)
      BY <2>1, <2>2, <2>4, ClampOnRow DEF ConnectionUpdate, InRange, FocusOnRow, Lists
    <3>2. ppc' \in {"wait", "draw"} /\ collected' \in 0 .. MaxRows
      BY <1>13, SupportAssumption DEF PrimaryPublish
    <3>3. UNCHANGED <<views, main, module, pstop, support, stolen>>
      BY <1>13 DEF PrimaryPublish
    <3>4. bandwidth' \in Lists /\ connections' \in Lists
      BY <2>1, <2>4, <3>1 DEF InRange
    <3>5. TypeOK'
      BY <3>2, <3>3, <3>4 DEF TypeOK
    <3>6. FocusInRange'
      BY <2>4, <3>1 DEF InRange, FocusInRange
    <3>. QED BY <3>5, <3>6
  <2>. QED BY <1>13, <2>3, <2>4 DEF PrimaryPublish
<1>14. CASE PrimaryDraw \/ PrimaryWait
  <2>1. /\ ppc' \in {"publish", "wait", "loop"}
        /\ refresh_requested' \in BOOLEAN /\ stolen' \in BOOLEAN
        /\ UNCHANGED <<selected, lists, main, module, collected, pstop, support>>
    BY <1>14 DEF PrimaryDraw, PrimaryWait, ConsumeRefreshRequest, TypeOK
  <2>2. TypeOK'
    BY <2>1 DEF TypeOK
  <2>3. FocusInRange'
    BY <2>1 DEF FocusInRange
  <2>. QED BY <2>2, <2>3
<1>15. CASE SupportCollect \/ CopyBandwidth \/ SupportWait
  <2>1. /\ spc' \in {"loop", "copy_bandwidth", "select", "exited"}
        /\ report' \in {"own", "shared"}
        /\ refresh_requested' \in BOOLEAN
        /\ UNCHANGED <<selected, lists, main, primary, sstop, view, shown, stolen>>
    BY <1>15 DEF SupportCollect, CopyBandwidth, SupportWait, ConsumeRefreshRequest,
      TypeOK
  <2>2. TypeOK'
    BY <2>1 DEF TypeOK
  <2>3. FocusInRange'
    BY <2>1 DEF FocusInRange
  <2>. QED BY <2>2, <2>3
<1>16. CASE SelectView \/ SupportDraw
  <2>1. 0 \in Views
    BY SupportAssumption DEF Views
  <2>2. CASE SelectView
    BY <1>1, <2>2 DEF SelectView, TypeOK, FocusInRange
  <2>3. CASE SupportDraw
    <3>1. stolen' \in BOOLEAN
      <4>1. stolen' = (stolen /\ shown'.body # selected)
        BY <2>3 DEF SupportDraw
      <4>. QED BY <4>1, Zenon
    <3>2. shown' \in [header : Views \cup {NoView}, body : Views \cup {NoView}]
      BY <1>1, <2>3 DEF SupportDraw, TypeOK
    <3>. QED BY <2>1, <2>3, <3>1, <3>2 DEF SupportDraw, TypeOK, FocusInRange
  <2>. QED BY <1>16, <2>2, <2>3
<1>17. CASE UNCHANGED vars
  BY <1>17 DEF vars, TypeOK, FocusInRange
<1>. QED
  BY <1>3, <1>4, <1>5, <1>6, <1>7, <1>8, <1>9, <1>10, <1>11, <1>12, <1>13, <1>14,
    <1>15, <1>16, <1>17 DEF Next, Key, MainStep, PrimaryStep, SupportStep

(* Every variable of the shared states and of the threads that use them    *)
(* keeps its type (src/trfx_support_views.c, src/trfx_connections.c and    *)
(* the bandwidth state of src/trfx_threads.c).                             *)
THEOREM SupportTypes == Spec => []TypeOK
<1>1. SupportInv => TypeOK
  BY DEF SupportInv
<1>. QED BY <1>1, SupportInvInit, SupportInvNext, PTL DEF Spec

(* A focus is always on a row that can be seen, or at the top of an empty  *)
(* list, however the user's moves and the publications alternate           *)
(* (trfx_connection_state_update, bandwidth_state_update and the two       *)
(* move_focus functions).                                                  *)
THEOREM FocusStaysInRange == Spec => []FocusInRange
<1>1. SupportInv => FocusInRange
  BY DEF SupportInv
<1>. QED BY <1>1, SupportInvInit, SupportInvNext, PTL DEF Spec

-----------------------------------------------------------------------------
FocusStep ==
  ppc' # ppc =>
    /\ bandwidth'.focus # bandwidth.focus =>
         bandwidth.focus >= Visible(bandwidth'.rows)
    /\ connections'.focus # connections.focus =>
         connections.focus >= connections'.rows

LEMMA FocusStepHolds == SupportInv /\ [Next]_vars => FocusStep
<1>. SUFFICES ASSUME SupportInv, [Next]_vars, ppc' # ppc PROVE FocusStep
  BY DEF FocusStep
<1>1. /\ bandwidth \in Lists /\ connections \in Lists /\ collected \in 0 .. MaxRows
      /\ bandwidth.focus \in 0 .. MaxRows /\ connections.focus \in 0 .. MaxRows
  BY DEF SupportInv, TypeOK, Lists
<1>2. CASE UNCHANGED lists
  BY <1>2 DEF lists, FocusStep
<1>3. CASE PrimaryInit
  <2>1. ASSUME NEW list \in Lists, NEW visible \in {list.rows, Visible(list.rows)}
        PROVE  Initialized(list) = list \/ Initialized(list).rows = 0
    BY DEF Initialized, Empty
  <2>2. \/ bandwidth' = bandwidth \/ bandwidth'.rows = 0
    BY <1>1, <1>3, <2>1 DEF PrimaryInit
  <2>3. \/ connections' = connections \/ connections'.rows = 0
    BY <1>1, <1>3, <2>1 DEF PrimaryInit
  <2>. QED BY <1>1, <2>2, <2>3, SupportAssumption DEF FocusStep, Visible
<1>4. CASE PrimaryPublish
  <2>1. CASE BandwidthUpdate(collected) /\ UNCHANGED connections
    <3>1. bandwidth'.rows = collected
          /\ bandwidth'.focus = Clamp(bandwidth.focus, Visible(collected))
      BY <1>1, <2>1 DEF BandwidthUpdate, Lists
    <3>. QED BY <1>1, <2>1, <3>1, VisibleIsPart, ClampOnRow DEF FocusStep
  <2>2. CASE ConnectionUpdate(collected) /\ UNCHANGED bandwidth
    <3>1. connections'.rows = collected
          /\ connections'.focus = Clamp(connections.focus, collected)
      BY <1>1, <2>2 DEF ConnectionUpdate, Lists
    <3>. QED BY <1>1, <2>2, <3>1, ClampOnRow DEF FocusStep
  <2>. QED BY <1>4, <2>1, <2>2 DEF PrimaryPublish
<1>5. KeyMove \/ SupportInit => ppc' = ppc
  <2>1. KeyMove => ppc' = ppc
    BY DEF KeyMove, rest, primary
  <2>2. SupportInit => ppc' = ppc
    BY DEF SupportInit, primary
  <2>. QED BY <2>1, <2>2
<1>6. CASE Key \/ MainStep
  <2>1. KeyDirect \/ KeySelector \/ SelectorKey => UNCHANGED lists
    BY DEF KeyDirect, KeySelector, SelectorKey
  <2>2. KeyChange \/ Fold \/ Unfold => UNCHANGED lists
    BY DEF KeyChange, Fold, Unfold
  <2>3. MainStep => UNCHANGED lists
    BY DEF MainStep, SelectorApply, Request, JoinPrimary, StartPrimary, JoinSupport
  <2>. QED BY <1>2, <1>5, <1>6, <2>1, <2>2, <2>3 DEF Key
<1>7. CASE PrimaryStep \/ SupportStep
  BY <1>2, <1>3, <1>4, <1>5, <1>7 DEF PrimaryStep, SupportStep, PrimaryCollect, PrimaryDraw,
    PrimaryWait, SupportCollect, CopyBandwidth, SelectView, SupportDraw, SupportWait, lists
<1>. QED BY <1>2, <1>6, <1>7 DEF Next, vars, lists

(* Only the loss of its row takes the focus from where the user put it:    *)
(* no report and no connection list that is published does                 *)
(* (trfx_connection_state_update, bandwidth_state_update).                 *)
THEOREM FocusStaysTheUsers == Spec => FocusIsTheUsers
<1>1. SupportInv /\ [Next]_vars =>
        [ppc' # ppc =>
           /\ bandwidth'.focus # bandwidth.focus =>
                bandwidth.focus >= Visible(bandwidth'.rows)
           /\ connections'.focus # connections.focus =>
                connections.focus >= connections'.rows]_vars
  BY FocusStepHolds DEF FocusStep
<1>. QED BY <1>1, SupportInvInit, SupportInvNext, PTL DEF Spec, FocusIsTheUsers

-----------------------------------------------------------------------------
(***************************************************************************)
(* The request of a selection.  It is the promise of the property, made    *)
(* when the view is chosen and kept while it is drawn.                     *)
(***************************************************************************)
RequestKept ==
  /\ spc = "draw" /\ view # selected => refresh_requested \/ stolen
  /\ RequestServed

(* A selection that changes asks for a refresh in the same critical section. *)
LEMMA MainKeepsRequest ==
  ASSUME SupportInv, RequestKept, Key \/ MainStep
  PROVE  RequestKept'
<1> USE DEF RequestKept, RequestServed, rest, lists, views, main, primary, support
<1>1. CASE KeyDirect \/ SelectorApply \/ Request
  BY <1>1 DEF KeyDirect, SelectorApply, Request, SetSelectedIndex, RequestRefresh
<1>2. CASE KeyMove \/ KeySelector \/ SelectorKey
  BY <1>2 DEF KeyMove, KeySelector, SelectorKey
<1>3. CASE KeyChange \/ JoinPrimary \/ StartPrimary
  BY <1>3 DEF KeyChange, JoinPrimary, StartPrimary
<1>4. CASE Fold \/ JoinSupport \/ Unfold
  BY <1>4 DEF Fold, JoinSupport, Unfold
<1> QED
  BY <1>1, <1>2, <1>3, <1>4 DEF Key, MainStep

(* The process list leaves a mark where it takes a request; the support     *)
(* thread takes one only when it is about to draw.                          *)
LEMMA ThreadsKeepRequest ==
  ASSUME SupportInv, RequestKept, PrimaryStep \/ SupportStep
  PROVE  RequestKept'
<1> USE DEF RequestKept, RequestServed, lists, views, main, primary, support
<1>1. CASE PrimaryInit \/ PrimaryCollect \/ PrimaryPublish \/ PrimaryDraw
  BY <1>1 DEF PrimaryInit, PrimaryCollect, PrimaryPublish, PrimaryDraw
<1>2. CASE PrimaryWait
  BY <1>2 DEF PrimaryWait
<1>3. CASE SupportInit \/ SupportCollect \/ CopyBandwidth \/ SupportWait
  BY <1>3 DEF SupportInit, SupportCollect, CopyBandwidth, SupportWait
<1>4. SelectedIndex = selected
  BY SupportAssumption DEF SupportInv, TypeOK, SelectedIndex, Views
<1>5. CASE SelectView
  BY <1>4, <1>5 DEF SelectView
<1>6. CASE SupportDraw
  <2>1. /\ spc = "draw" /\ spc' = "wait"
        /\ shown' = [header |-> selected, body |-> view]
        /\ UNCHANGED views
    BY <1>4, <1>6 DEF SupportDraw
  <2>2. stolen /\ view # selected => stolen'
    <3>1. stolen' = (stolen /\ shown'.body # selected)
      BY <1>6 DEF SupportDraw
    <3>2. shown'.body = view
      BY <2>1
    <3> QED
      BY Zenon, <3>1, <3>2
  <2> QED
    BY <2>1, <2>2
<1> QED
  BY <1>1, <1>2, <1>3, <1>5, <1>6 DEF PrimaryStep, SupportStep

(* A waiting column that does not show the selected view has a request      *)
(* pending, or the process list, which polls the same flag, has taken it    *)
(* (trfx_support_view_consume_refresh_request has two callers).             *)
THEOREM RequestIsServed == Spec => []RequestServed
<1>1. Init => RequestKept
  BY DEF Init, RequestKept, RequestServed
<1>2. SupportInv /\ RequestKept /\ [Next]_vars => RequestKept'
  <2>1. CASE UNCHANGED vars
    BY <2>1 DEF vars, views, main, primary, support, RequestKept, RequestServed
  <2> QED
    BY <2>1, MainKeepsRequest, ThreadsKeepRequest DEF Next
<1>3. RequestKept => RequestServed
  BY DEF RequestKept
<1> QED
  BY <1>1, <1>2, <1>3, SupportInvInit, SupportInvNext, PTL DEF Spec
=============================================================================
