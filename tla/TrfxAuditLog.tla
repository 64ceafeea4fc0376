---------------------------- MODULE TrfxAuditLog ----------------------------
(***************************************************************************)
(* What the audit trail promises: the latest Bound results, newest first.  *)
(***************************************************************************)
EXTENDS Naturals, Sequences

CONSTANTS Bound, Results

VARIABLE log

Shorter(m, n) == IF m < n THEN m ELSE n

Init == log = << >>

Append1(result) ==
  log' = [i \in 1 .. Shorter(Bound, Len(log) + 1) |->
            IF i = 1 THEN result ELSE log[i - 1]]

Next == \E result \in Results : Append1(result)

Spec == Init /\ [][Next]_log
=============================================================================
