-------------------------- MODULE TrfxProgramClaims --------------------------
(***************************************************************************)
(* What the documents and tests of the repository say of the commands and  *)
(* the code does not do.  Every property here is violated; the run that    *)
(* checks it shows how.                                                    *)
(***************************************************************************)
EXTENDS TrfxProgram

(* "trafix drop socket udp 0.0.0.0:53 0.0.0.0:0 --yes" (README.md:134).     *)
(* The list of owners keeps an address and its port apart and the command   *)
(* compares the address alone with the endpoint it was given, so a socket   *)
(* that is there, with an owner that is known, is not found by it.          *)
SocketDropFindsItsSocket ==
  phase = "collect" /\ list_pc = "owned" /\ EnoughRoom(MAX_SOCKET_OWNERS) =>
    \A s \in stable :
      /\ Proto(s) = options.proto
      /\ Socket[s].local = options.local /\ Socket[s].remote = options.remote
      /\ OwnerIsKnown(s)
      /\ Socket[s].table \in {"tcp", "udp"} \ unreadable
      => DropTargets # {}

(* The diagnostics surface "concise alerts for supported thresholds         *)
(* configured in /etc/trafix/config.cfg or a saved profile"                 *)
(* (docs/operator_guide.md:69-70); ALERT_REQUIRE_DEFAULT_ROUTE is one of    *)
(* them and tests/test_diagnostics.c:107-109 expects "Default route         *)
(* missing" of a snapshot without one.  A snapshot that the collector made  *)
(* is never such a snapshot: routes without a default one are a failure to  *)
(* parse, and then the alert is not looked at.                              *)
MissingRouteIsAlerted ==
  /\ diag_pc = "printed"
  /\ network.route # "open_failed" /\ ~network.has_default
  /\ settings.ALERT_REQUIRE_DEFAULT_ROUTE # 0
  => "route" \in alerts
=============================================================================
