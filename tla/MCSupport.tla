----------------------------- MODULE MCSupport -----------------------------
(***************************************************************************)
(* Two views, of which the second has a key of its own, a primary pane     *)
(* that may publish reports, publish connections or poll the refresh flag, *)
(* and lists of up to three rows, of which two flows can have the focus.   *)
(***************************************************************************)
EXTENDS TrfxSupport
=============================================================================
