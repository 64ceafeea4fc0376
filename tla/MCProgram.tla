------------------------------ MODULE MCProgram ------------------------------
(***************************************************************************)
(* The whole program on small data: processes of the user and of root that *)
(* take turns at one pid, a ring of two entries that three actions         *)
(* overflow, three sockets of three tables for lists of two, one file of   *)
(* configuration and one profile with a line each, two interfaces, logs of *)
(* up to three lines for a window of two, and the command lines that the   *)
(* parser tells apart: all short ones, and those of kill and drop.  What a *)
(* profile does is looked at where diagnostics load it; the dashboard with *)
(* one loads it in the same way, and its actions do not look at settings.  *)
(***************************************************************************)
EXTENDS TrfxProgramClaims

MCOwner == [process \in Processes |-> IF process = "daemon" THEN "root" ELSE "user"]

MCResults == [number : 0 .. MaxActions, kind : Kinds, status : Statuses]

MCSocket ==
  [web  |-> [table |-> "tcp", states |-> {"ESTABLISHED", "TIME_WAIT"}, holder |-> "12",
             local  |-> "10.0.0.1:80", local_address  |-> "10.0.0.1",
             remote |-> "10.0.0.2:9",  remote_address |-> "10.0.0.2"],
   name |-> [table |-> "udp", states |-> {"UNCONN"}, holder |-> "12",
             local  |-> "0.0.0.0:53", local_address  |-> "0.0.0.0",
             remote |-> "0.0.0.0:0",  remote_address |-> "0.0.0.0"],
   six  |-> [table |-> "tcp6", states |-> {"LISTEN", "CLOSE_WAIT"}, holder |-> "9",
             local  |-> "[::]:80", local_address  |-> "::",
             remote |-> "[::]:0",  remote_address |-> "::"]]

MCSockets == DOMAIN MCSocket

(* A switch with a word and a number out of its limits, and a number. *)
MCConfigLines ==
  {[key |-> "ALERT_REQUIRE_DNS",       kind |-> "word",   n |-> 0],
   [key |-> "ALERT_REQUIRE_DNS",       kind |-> "number", n |-> 7],
   [key |-> "ALERT_DISK_WARN_PERCENT", kind |-> "number", n |-> 50],
   [key |-> "UNKNOWN_KEY",             kind |-> "junk",   n |-> 0]}

MCReadings ==
  {[temperature |-> 80, total_ram |-> 8, mem_percent |-> 95,
    disk_count |-> 1, disk_used |-> 60, disk_total |-> 100]}

Saved == <<"--profile", "saved">>
Rest1 == {<<>>, <<"--yes">>, <<"-y">>, <<"bogus">>}

Words == {"system", "connections", "drop", "kill",
          "--json", "--proto", "tcp", "--state", "LISTEN", "--yes", "bogus"}

UpTo(words, n) == UNION {[1 .. k -> words] : k \in 0 .. n}

Kills == {<<"kill", target>> \o rest : target \in {"12", "self", "77"}, rest \in Rest1}

Drops ==
  {<<"drop", kind, proto>> \o ends \o rest :
     kind \in {"connection", "socket"}, proto \in {"tcp", "UDP"},
     ends \in {<<"10.0.0.1:80", "10.0.0.2:9">>, <<"10.0.0.1", "10.0.0.2">>},
     rest \in Rest1}

MCCommandLines ==
  UpTo(Words, 3) \cup Kills \cup Drops
    \cup {<<word>> : word \in Listings \cup {"--help", "-v"}}
    \cup {<<"--profile">>}
    \cup {Saved \o rest : rest \in {<<"diagnostics">>, <<"system", "--json">>, Saved}}
    \cup {<<"connections", "--state", "LISTEN", "--proto", "TCP">>,
          <<"connections", "--proto", "tcp", "--proto", "tcp">>}

(* The commands of the two claims. *)
MCDropSocket == {<<"drop", "socket", "udp", "0.0.0.0:53", "0.0.0.0:0", "--yes">>}

MCDiagnostics == {<<"diagnostics">>}
==============================================================================
