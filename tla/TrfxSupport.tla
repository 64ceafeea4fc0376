----------------------------- MODULE TrfxSupport -----------------------------
(***************************************************************************)
(* What the support column and the primary pane share: the selected        *)
(* support view with its refresh request (src/trfx_support_views.c), the   *)
(* connection list (src/trfx_connections.c) and the bandwidth report       *)
(* (src/trfx_threads.c), each with a focus that the user moves, under a    *)
(* mutex of its own.  One action is one critical section.                  *)
(*                                                                         *)
(* Starting, stopping and pausing threads is as in TrfxDashboard, cut down *)
(* to what these states depend on.                                         *)
(***************************************************************************)
EXTENDS Integers

CONSTANTS
  ViewCount,          \* trfx_support_view_count
  Direct,             \* the views with a key of their own
  NoView,
  Modules,            \* what the primary pane may run
  TALKERS,            \* flows shown, and so able to have the focus: 3
  MaxRows             \* bound on the rows of a collection

Views == 0 .. ViewCount - 1

ASSUME SupportAssumption ==
  /\ ViewCount \in Nat \ {0}
  /\ Direct \subseteq Views
  /\ NoView \notin Views
  /\ Modules \subseteq {"network", "connections", "processes", "other"}
  /\ "network" \in Modules
  /\ TALKERS \in Nat \ {0}
  /\ MaxRows \in Nat

VARIABLES
  selected,           \* support_view_selected_index_value
  refresh_requested,  \* support_view_refresh_requested
  connections,        \* connection_state_*: initialized, count, focus
  bandwidth,          \* bandwidth_state_*: initialized, visible flows, focus
  paused,
  mpc,                \* where the main thread is
  active,             \* the selector's highlighted view
  ppc,                \* where the primary pane's thread is
  module,             \* what it runs
  collected,          \* rows it has collected
  pstop,              \* it was asked to stop
  spc,                \* where the support thread is
  sstop,
  report,             \* the bandwidth report it will draw: its own or the shared one
  view,               \* the view it will draw
  shown,              \* the header and the body of the column
  stolen              \* the primary thread took the last request

views == <<selected, refresh_requested>>
main == <<paused, mpc, active>>
primary == <<ppc, module, collected, pstop>>
support == <<spc, sstop, report, view, shown>>
vars == <<views, connections, bandwidth, main, primary, support, stolen>>

Lists == [initialized : BOOLEAN, rows : 0 .. MaxRows, focus : 0 .. MaxRows]

MainLabels == {"keys", "selector", "apply", "request_again", "request",
               "join_primary", "module_selector", "join_support"}

TypeOK ==
  /\ selected \in Views /\ refresh_requested \in BOOLEAN
  /\ connections \in Lists /\ bandwidth \in Lists
  /\ paused \in BOOLEAN /\ mpc \in MainLabels /\ active \in Views
  /\ ppc \in {"none", "init", "loop", "publish", "draw", "wait", "exited"}
  /\ module \in Modules /\ collected \in 0 .. MaxRows /\ pstop \in BOOLEAN
  /\ spc \in {"none", "init_bandwidth", "init_connections", "loop",
              "copy_bandwidth", "select", "draw", "wait", "exited"}
  /\ sstop \in BOOLEAN
  /\ report \in {"own", "shared"}
  /\ view \in Views
  /\ shown \in [header : Views \cup {NoView}, body : Views \cup {NoView}]
  /\ stolen \in BOOLEAN

Empty == [initialized |-> FALSE, rows |-> 0, focus |-> 0]

Blank == [header |-> NoView, body |-> NoView]

(* modules[0] is the network module. *)
Init ==
  /\ selected = 0 /\ refresh_requested = FALSE
  /\ connections = Empty /\ bandwidth = Empty
  /\ paused = FALSE /\ mpc = "keys" /\ active = 0
  /\ ppc = "init" /\ module = "network" /\ collected = 0 /\ pstop = FALSE
  /\ spc \in {"none", "init_bandwidth"} /\ sstop = FALSE
  /\ report = "own" /\ view = 0 /\ shown = Blank
  /\ stolen = FALSE

-----------------------------------------------------------------------------
(* trfx_support_views.c.                                                   *)

(* Mutant for NextIndex: the last view has no successor to wrap to. *)
NextIndexUnwrapped(index, delta) ==
  (IF index >= ViewCount THEN 0 ELSE index) + delta

NextIndex(index, delta) ==
  ((IF index >= ViewCount THEN 0 ELSE index) + delta) % ViewCount

SelectedIndex == IF selected >= ViewCount THEN 0 ELSE selected

(* Mutant for SetSelectedIndex: the change is not announced. *)
SetSelectedIndexQuietly(index) ==
  /\ selected' = NextIndex(index, 0)
  /\ UNCHANGED refresh_requested

SetSelectedIndex(index) ==
  /\ selected' = NextIndex(index, 0)
  /\ refresh_requested' = TRUE

RequestRefresh == refresh_requested' = TRUE /\ UNCHANGED selected

ConsumeRefreshRequest == refresh_requested' = FALSE /\ UNCHANGED selected

-----------------------------------------------------------------------------
(* The two lists.                                                          *)

Visible(rows) == IF rows < TALKERS THEN rows ELSE TALKERS

(* Mutant for Clamp: the focus stays where it was. *)
ClampNot(focus, visible) == focus

Clamp(focus, visible) ==
  IF visible <= 0 THEN 0
  ELSE IF focus >= visible THEN visible - 1 ELSE focus

Moved(focus, visible, delta) ==
  IF visible = 0 THEN focus
  ELSE IF focus + delta < 0 THEN visible - 1
  ELSE IF focus + delta >= visible THEN 0
  ELSE focus + delta

(* trfx_connection_state_init, trfx_bandwidth_state_init: only the first   *)
(* call has an effect.                                                     *)
Initialized(list) == IF list.initialized THEN list ELSE [Empty EXCEPT !.initialized = TRUE]

(* trfx_connection_state_update *)
ConnectionUpdate(rows) ==
  connections' = [initialized |-> TRUE, rows |-> rows,
                  focus |-> Clamp(connections.focus, rows)]

(* Mutant for BandwidthUpdate: a new report takes the focus to its top. *)
BandwidthUpdateTop(rows) ==
  bandwidth' = [bandwidth EXCEPT !.rows = rows, !.focus = 0]

(* bandwidth_state_update *)
BandwidthUpdate(rows) ==
  bandwidth' = [bandwidth EXCEPT !.rows = rows,
                                 !.focus = Clamp(bandwidth.focus, Visible(rows))]

-----------------------------------------------------------------------------
(* The main thread.                                                        *)

At(label) == mpc = label

rest == <<primary, support, stolen>>
lists == <<connections, bandwidth>>

(* o, d, a, g, n, v *)
KeyDirect ==
  /\ At("keys")
  /\ \E index \in Direct : SetSelectedIndex(index)
  /\ mpc' = "request"
  /\ UNCHANGED <<lists, paused, active, rest>>

(* j, k, J, K: nothing is drawn again at once. *)
KeyMove ==
  /\ At("keys")
  /\ \E delta \in {-1, 1} :
       \/ /\ bandwidth' = [bandwidth EXCEPT
               !.focus = Moved(bandwidth.focus, Visible(bandwidth.rows), delta)]
          /\ UNCHANGED connections
       \/ /\ connections' = [connections EXCEPT
               !.focus = Moved(connections.focus, connections.rows, delta)]
          /\ UNCHANGED bandwidth
  /\ UNCHANGED <<views, main, rest>>

(* l: the selector, which pauses the workers.  One that cannot be created  *)
(* changes nothing.                                                        *)
KeySelector ==
  /\ At("keys")
  /\ paused' = TRUE
  /\ active' = SelectedIndex
  /\ mpc' = "selector"
  /\ UNCHANGED <<views, lists, rest>>

(* Enter applies the highlighted view, Escape the one that was selected. *)
SelectorKey ==
  /\ At("selector")
  /\ \/ \E delta \in {-1, 1} :
          active' = NextIndex(active, delta) /\ UNCHANGED <<mpc, paused>>
     \/ /\ active' \in {active, SelectedIndex}
        /\ mpc' = "apply"
        /\ paused' = FALSE
  /\ UNCHANGED <<views, lists, rest>>

SelectorApply ==
  /\ At("apply")
  /\ SetSelectedIndex(active)
  /\ mpc' = "request_again"
  /\ UNCHANGED <<lists, paused, active, rest>>

(* select_support_view requests a refresh, and so does its caller. *)
Request ==
  /\ mpc \in {"request_again", "request"}
  /\ RequestRefresh
  /\ mpc' = IF At("request_again") THEN "request" ELSE "keys"
  /\ active' = 0
  /\ UNCHANGED <<lists, paused, rest>>

(* c *)
KeyChange ==
  /\ At("keys")
  /\ IF ppc = "none"
     THEN mpc' = "module_selector" /\ paused' = TRUE /\ UNCHANGED pstop
     ELSE mpc' = "join_primary" /\ pstop' = TRUE /\ UNCHANGED paused
  /\ UNCHANGED <<views, lists, active, ppc, module, collected, support, stolen>>

JoinPrimary ==
  /\ At("join_primary")
  /\ ppc = "exited"
  /\ ppc' = "none"
  /\ mpc' = "module_selector" /\ paused' = TRUE
  /\ UNCHANGED <<views, lists, active, module, collected, pstop, support, stolen>>

StartPrimary ==
  /\ At("module_selector")
  /\ mpc' = "keys" /\ paused' = FALSE
  /\ \/ module' \in Modules /\ ppc' = "init" /\ pstop' = FALSE
     \/ UNCHANGED <<module, ppc, pstop>>
  /\ UNCHANGED <<views, lists, active, collected, support, stolen>>

(* A resize that folds the support column, or brings it back. *)
Fold ==
  /\ At("keys")
  /\ spc # "none"
  /\ sstop' = TRUE
  /\ mpc' = "join_support"
  /\ UNCHANGED <<views, lists, paused, active, primary, spc, report, view,
                 shown, stolen>>

JoinSupport ==
  /\ At("join_support")
  /\ spc = "exited"
  /\ spc' = "none" /\ shown' = Blank
  /\ mpc' = "keys"
  /\ UNCHANGED <<views, lists, paused, active, primary, sstop, report, view, stolen>>

Unfold ==
  /\ At("keys")
  /\ spc = "none"
  /\ spc' = "init_bandwidth" /\ sstop' = FALSE
  /\ UNCHANGED <<views, lists, main, primary, report, view, shown, stolen>>

-----------------------------------------------------------------------------
(* The primary pane's thread.                                              *)

PrimaryInit ==
  /\ ppc = "init"
  /\ ppc' = "loop"
  /\ bandwidth' = IF module = "network" THEN Initialized(bandwidth) ELSE bandwidth
  /\ connections' = IF module = "processes" THEN Initialized(connections) ELSE connections
  /\ UNCHANGED <<views, main, module, collected, pstop, support, stolen>>

(* The connection module publishes its list before it draws, the network   *)
(* module its report after.                                                *)
PrimaryCollect ==
  /\ ppc = "loop"
  /\ \/ pstop /\ ppc' = "exited" /\ UNCHANGED collected
     \/ /\ ~pstop /\ ~paused
        /\ CASE module = "network"     -> collected' \in 0 .. MaxRows /\ ppc' = "draw"
             [] module = "connections" -> collected' \in 0 .. MaxRows /\ ppc' = "publish"
             [] OTHER                  -> UNCHANGED collected /\ ppc' = "draw"
  /\ UNCHANGED <<views, lists, main, module, pstop, support, stolen>>

PrimaryPublish ==
  /\ ppc = "publish"
  /\ IF module = "network"
     THEN BandwidthUpdate(collected) /\ ppc' = "wait" /\ UNCHANGED connections
     ELSE ConnectionUpdate(collected) /\ ppc' = "draw" /\ UNCHANGED bandwidth
  /\ collected' = 0
  /\ UNCHANGED <<views, main, module, pstop, support, stolen>>

PrimaryDraw ==
  /\ ppc = "draw"
  /\ ppc' = IF module = "network" THEN "publish" ELSE "wait"
  /\ UNCHANGED <<views, lists, main, module, collected, pstop, support, stolen>>

(* The process list waits like the support column does, for the same       *)
(* request.                                                                *)
PrimaryWait ==
  /\ ppc = "wait"
  /\ ppc' = "loop"
  /\ \/ UNCHANGED <<views, stolen>>
     \/ /\ module = "processes" /\ refresh_requested
        /\ ConsumeRefreshRequest
        /\ stolen' = TRUE
  /\ UNCHANGED <<lists, main, module, collected, pstop, support>>

PrimaryStep ==
  PrimaryInit \/ PrimaryCollect \/ PrimaryPublish \/ PrimaryDraw \/ PrimaryWait

-----------------------------------------------------------------------------
(* The support thread.                                                     *)

SupportInit ==
  /\ \/ /\ spc = "init_bandwidth" /\ spc' = "init_connections"
        /\ bandwidth' = Initialized(bandwidth) /\ UNCHANGED connections
     \/ /\ spc = "init_connections" /\ spc' = "loop"
        /\ connections' = Initialized(connections) /\ UNCHANGED bandwidth
  /\ UNCHANGED <<views, main, primary, sstop, report, view, shown, stolen>>

(* It collects a report of its own, then copies the connection list with   *)
(* its focus in one critical section: what it will draw of that list is a  *)
(* state the list was in, and no variable is needed for it.                *)
SupportCollect ==
  /\ spc = "loop"
  /\ \/ sstop /\ spc' = "exited" /\ UNCHANGED report
     \/ ~sstop /\ ~paused /\ spc' = "copy_bandwidth" /\ report' = "own"
  /\ UNCHANGED <<views, lists, main, primary, sstop, view, shown, stolen>>

CopyBandwidth ==
  /\ spc = "copy_bandwidth"
  /\ report' = IF bandwidth.initialized THEN "shared" ELSE report
  /\ spc' = "select"
  /\ UNCHANGED <<views, lists, main, primary, sstop, view, shown, stolen>>

SelectView ==
  /\ spc = "select"
  /\ view' = SelectedIndex
  /\ spc' = "draw"
  /\ UNCHANGED <<views, lists, main, primary, sstop, report, shown, stolen>>

(* The header looks at the selection again. *)
SupportDraw ==
  /\ spc = "draw"
  /\ shown' = [header |-> SelectedIndex, body |-> view]
  /\ spc' = "wait"
  /\ report' = "own" /\ view' = 0
  /\ stolen' = (stolen /\ shown'.body # selected)
  /\ UNCHANGED <<views, lists, main, primary, sstop>>

(* Mutant for SupportWait: only a request ends the wait. *)
SupportWaitForRequest ==
  /\ spc = "wait"
  /\ spc' = "loop"
  /\ \/ sstop /\ UNCHANGED views
     \/ refresh_requested /\ ConsumeRefreshRequest
  /\ UNCHANGED <<lists, main, primary, sstop, report, view, shown, stolen>>

(* The wait ends with a request, at a stop, or when the interval is over. *)
SupportWait ==
  /\ spc = "wait"
  /\ spc' = "loop"
  /\ \/ UNCHANGED views
     \/ refresh_requested /\ ConsumeRefreshRequest
  /\ UNCHANGED <<lists, main, primary, sstop, report, view, shown, stolen>>

SupportStep ==
  \/ SupportInit \/ SupportCollect \/ CopyBandwidth
  \/ SelectView \/ SupportDraw \/ SupportWait

-----------------------------------------------------------------------------
Key == KeyDirect \/ KeyMove \/ KeySelector \/ SelectorKey \/ KeyChange \/ Fold \/ Unfold

MainStep == SelectorApply \/ Request \/ JoinPrimary \/ StartPrimary \/ JoinSupport

Next == Key \/ MainStep \/ PrimaryStep \/ SupportStep

Spec == Init /\ [][Next]_vars

(* The threads are scheduled, and their waits have an end.  The user owes  *)
(* no key.                                                                 *)
FairSpec ==
  /\ Spec
  /\ WF_vars(SelectorApply \/ Request \/ JoinPrimary \/ JoinSupport)
  /\ WF_vars(PrimaryStep)
  /\ WF_vars(SupportStep)

-----------------------------------------------------------------------------
(* A focus is on a row that can be seen, or at the top of an empty list, in *)
(* both lists, whatever the user's moves and the publications of shorter    *)
(* lists do to it in turn.                                                  *)
FocusOnRow(list, visible) ==
  list.focus = 0 \/ list.focus < visible

FocusInRange ==
  /\ FocusOnRow(connections, connections.rows)
  /\ FocusOnRow(bandwidth, Visible(bandwidth.rows))

(* A publication leaves the user's focus alone unless its row is gone, and  *)
(* then takes it to the last row.                                           *)
FocusIsTheUsers ==
  [][ppc' # ppc =>
       /\ bandwidth'.focus # bandwidth.focus =>
            bandwidth.focus >= Visible(bandwidth'.rows)
       /\ connections'.focus # connections.focus =>
            connections.focus >= connections'.rows]_vars

(* While the support thread waits, a column whose header or body is not the *)
(* selected view has a request for it pending, unless the process list,     *)
(* which polls the same flag, has taken it.                                 *)
RequestServed ==
  spc = "wait" /\ (shown.header # selected \/ shown.body # selected) =>
    refresh_requested \/ stolen

(* Left alone, the column comes to show the selected view, header and body, *)
(* even when the request for it was taken by the process list.              *)
SelectionIsShown ==
  <>[](At("keys") /\ spc # "none") =>
    <>[](shown.header = selected /\ shown.body = selected)

(* "Confirm the support panel shows current metadata and recent sample      *)
(* history" (src/docs/tui_manual_test_checklist.md:101).  The report that   *)
(* the support thread collects is always overwritten by the shared one,     *)
(* which nobody keeps current unless the primary pane runs the network      *)
(* module.                                                                  *)
BandwidthIsCurrent ==
  spc = "select" => report = "own" \/ module = "network"
=============================================================================
