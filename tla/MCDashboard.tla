----------------------------- MODULE MCDashboard -----------------------------
(***************************************************************************)
(* Instances of TrfxDashboard for TLC: the terminal sizes, which are       *)
(* records and cannot be written in a configuration file.                  *)
(***************************************************************************)
EXTENDS TrfxDashboardClaims

(* Wide enough for two columns; narrow, and with fewer rows than the hotkey *)
(* popup has.                                                               *)
MCWideLow == {[h |-> 40, w |-> 120], [h |-> 20, w |-> 80]}

(* Wide, and a terminal too small for the top panels but not without them. *)
MCWideTiny == {[h |-> 40, w |-> 120], [h |-> 12, w |-> 60]}

(* One size, for the runs in which the layout does not matter. *)
MCWide == {[h |-> 40, w |-> 120]}
=============================================================================
