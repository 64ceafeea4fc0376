----------------------------- MODULE TrfxRuntime -----------------------------
(***************************************************************************)
(* The runtime state that the main thread and the worker threads share     *)
(* (src/trfx_runtime.c).  Every function of that file takes the state's    *)
(* own mutex, which is a leaf of the lock order, for one read or one write;*)
(* each is therefore one atomic step, and a caller that makes two calls    *)
(* takes two steps.                                                        *)
(***************************************************************************)
CONSTANT StaticModules        \* the top panels; force_refresh_flags is indexed by them

VARIABLES
  ready,                      \* the main thread has created every window and thread
  paused,                     \* workers must not start another iteration
  stop_requested,             \* the program is quitting
  force_refresh_flags         \* one wake-up per static panel

runtime == <<ready, paused, stop_requested, force_refresh_flags>>

RuntimeTypeOK ==
  /\ ready \in BOOLEAN
  /\ paused \in BOOLEAN
  /\ stop_requested \in BOOLEAN
  /\ force_refresh_flags \in [StaticModules -> BOOLEAN]

(* trfx_runtime_reset: what start_dashboard begins with. *)
RuntimeReset ==
  /\ ready = FALSE
  /\ paused = FALSE
  /\ stop_requested = FALSE
  /\ force_refresh_flags = [m \in StaticModules |-> FALSE]

SetReady ==
  /\ ready' = TRUE
  /\ UNCHANGED <<paused, stop_requested, force_refresh_flags>>

SetPaused(p) ==
  /\ paused' = p
  /\ UNCHANGED <<ready, stop_requested, force_refresh_flags>>

RequestStop ==
  /\ stop_requested' = TRUE
  /\ UNCHANGED <<ready, paused, force_refresh_flags>>

RequestStaticRefreshAll ==
  /\ force_refresh_flags' = [m \in StaticModules |-> TRUE]
  /\ UNCHANGED <<ready, paused, stop_requested>>

(* Reads and clears module m's flag; the caller learns the old value. *)
ConsumeStaticRefresh(m) ==
  /\ force_refresh_flags' = [force_refresh_flags EXCEPT ![m] = FALSE]
  /\ UNCHANGED <<ready, paused, stop_requested>>
=============================================================================
