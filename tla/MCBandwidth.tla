---------------------------- MODULE MCBandwidth ----------------------------
(***************************************************************************)
(* Two interfaces with counters of one bit, a clock that may be set back,  *)
(* a ring of four samples with a trend of two points, and more processes   *)
(* than flows.  The ring goes round for ever: nothing bounds the rounds.   *)
(* The interfaces are alike, so states that swap them are one.             *)
(***************************************************************************)
EXTENDS TrfxBandwidth, TLC

MCTimes == {0, 2}

MCSymmetry == Permutations(Interfaces)
=============================================================================
