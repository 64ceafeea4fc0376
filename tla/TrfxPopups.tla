----------------------------- MODULE TrfxPopups -----------------------------
(***************************************************************************)
(* What tells the popups of src/trfx_dashboard.c apart: whether they pause *)
(* the workers, whether they resume them, which keys close them, and on    *)
(* which terminals their window can be created at all.                     *)
(*                                                                         *)
(* Every popup centres a window of a computed size and calls newwin, which *)
(* fails for a negative origin.  Most popups clip their size to the        *)
(* terminal but also keep a floor; a popup is created exactly when the     *)
(* floor, or the size it never clips, leaves a non-negative origin.        *)
(***************************************************************************)
EXTENDS Integers

Choosers == {"kill_chooser", "drop_chooser"}
Pausing  == {"hotkeys", "view_selector", "module_selector", "pause",
             "review", "result"}
Popups   == Pausing \cup Choosers \cup {"feedback"}
NoPopup  == "no_popup"

(* The keys a popup may read.  "move" stands for the arrow keys and for    *)
(* every other key that only moves the highlight or does nothing.          *)
PopupKeys == {"enter", "esc", "quit", "move"}

(***************************************************************************)
(* One record per popup: the keys that close it, whether it redraws itself *)
(* after every other key, and the rows and columns below which its size is *)
(* not clipped any further.                                                *)
(***************************************************************************)
Dismiss == {"esc", "enter", "quit"}

(* A row per hotkey (17 of them) and a height that is never clipped. *)
HotkeysPopup ==
  [closing |-> Dismiss, redraws |-> FALSE, rows |-> 23, columns |-> 54]

ReviewPopup ==
  [closing |-> Dismiss, redraws |-> FALSE, rows |-> 1, columns |-> 50]

FeedbackPopup ==
  [closing |-> Dismiss, redraws |-> FALSE, rows |-> 1, columns |-> 40]

ResultPopup ==
  [closing |-> Dismiss, redraws |-> FALSE, rows |-> 1, columns |-> 60]

KillChooser ==
  [closing |-> Dismiss, redraws |-> TRUE, rows |-> 1, columns |-> 60]

DropChooser ==
  [closing |-> Dismiss, redraws |-> TRUE, rows |-> 1, columns |-> 72]

ModuleSelector ==
  [closing |-> {"esc", "enter"}, redraws |-> TRUE, rows |-> 9, columns |-> 40]

ViewSelector ==
  [closing |-> Dismiss, redraws |-> TRUE, rows |-> 10, columns |-> 56]

PausePopup ==
  [closing |-> {"esc"}, redraws |-> FALSE, rows |-> 5, columns |-> 34]

Popup ==
  [hotkeys |-> HotkeysPopup, review |-> ReviewPopup,
   feedback |-> FeedbackPopup, result |-> ResultPopup,
   kill_chooser |-> KillChooser, drop_chooser |-> DropChooser,
   module_selector |-> ModuleSelector, view_selector |-> ViewSelector,
   pause |-> PausePopup]

Redrawing == {kind \in Popups : Popup[kind].redraws}

ClosingKeys(kind) == Popup[kind].closing

(* The two choosers return on Escape and q without reaching delwin.        *)
LeavesWindow(kind, key) == kind \in Choosers /\ key \in {"esc", "quit"}

(* Integer division in C truncates toward zero, so a window one cell too   *)
(* large still gets origin 0.                                              *)
Half(n) == IF n >= 0 THEN n \div 2 ELSE -((-n) \div 2)

Fits(kind, h, w) ==
  Half(h - Popup[kind].rows) >= 0 /\ Half(w - Popup[kind].columns) >= 0
=============================================================================
