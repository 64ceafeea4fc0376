------------------------- MODULE TrfxDashboardClaims -------------------------
(***************************************************************************)
(* What the documents and comments of the repository say of the dashboard  *)
(* and the code does not do.  Every property here is violated; the run     *)
(* that checks it shows how.  The quotes are from                          *)
(* src/docs/tui_manual_test_checklist.md unless another file is named.     *)
(***************************************************************************)
EXTENDS TrfxDashboard

(* "Press r.  Confirm static panels redraw promptly" (198-199).  r requests *)
(* the refresh and then erases the panels; a worker that served the request *)
(* in between leaves its panel blank for a whole interval.                  *)
RefreshRedraws ==
  At("getch") => \A m \in StaticModules :
    pc[m] = "wait" /\ shown[m] = "nothing" => force_refresh_flags[m]

(* "Resize the terminal while the popup is open.  Confirm the screen        *)
(* redraws cleanly after the popup closes" (60-61).  The popup's own loop   *)
(* reads KEY_RESIZE and drops it, and closing the popup lays nothing out.   *)
ResizeIsLaidOut ==
  At("getch") /\ ~TooSmall(term.h, term.w, SHOW_TOP_PANELS) =>
    frame = [h |-> term.h, w |-> term.w, show |-> SHOW_TOP_PANELS]
=============================================================================
