------------------------------ MODULE TrfxPanes ------------------------------
(***************************************************************************)
(* What the dashboard promises about its panes, without saying how: a pane *)
(* is a window with at most one worker thread.  A worker starts only in a  *)
(* window that exists, returns only when it has been asked to, and the     *)
(* window is deleted, or given to another worker, only once the old worker *)
(* has returned and been joined.  Several panes may take a step at once.   *)
(***************************************************************************)
CONSTANT Panes

VARIABLES
  window,   \* the panes whose window exists
  worker,   \* "none", "running" or "exited" (returned, not yet joined)
  asked     \* the panes whose worker has been asked to return

TypeOK ==
  /\ window \subseteq Panes
  /\ worker \in [Panes -> {"none", "running", "exited"}]
  /\ asked \subseteq Panes

Init ==
  /\ window = {}
  /\ worker = [p \in Panes |-> "none"]
  /\ asked = {}

(* The window may come and go, the request may be set and taken back, only *)
(* while there is no worker.                                               *)
Vacant(p) == worker[p] = "none" /\ worker'[p] = "none"

Start(p) ==
  /\ worker[p] = "none" /\ worker'[p] = "running"
  /\ p \in window'

Run(p) ==
  /\ worker[p] = "running" /\ worker'[p] \in {"running", "exited"}
  /\ worker'[p] = "exited" => p \in asked
  /\ p \in window' /\ (p \in asked => p \in asked')

Returned(p) ==
  /\ worker[p] = "exited" /\ worker'[p] \in {"exited", "none"}
  /\ p \in window => p \in window'

PaneStep(p) == Vacant(p) \/ Start(p) \/ Run(p) \/ Returned(p)

Next ==
  /\ window' \subseteq Panes /\ asked' \subseteq Panes
  /\ worker' \in [Panes -> {"none", "running", "exited"}]
  /\ \A p \in Panes : PaneStep(p)

Spec == Init /\ [][Next]_<<window, worker, asked>>

(* No worker without its window. *)
NoOrphanWorker == \A p \in Panes : worker[p] = "running" => p \in window
=============================================================================
