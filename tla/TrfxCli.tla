------------------------------- MODULE TrfxCli -------------------------------
(***************************************************************************)
(* The command line (src/trfx_cli.c): what trfx_parse_cli makes of the     *)
(* arguments, and, as its reference, the usage the help text and           *)
(* docs/cli_contract.md describe.                                          *)
(***************************************************************************)
EXTENDS Naturals, Sequences, SequencesExt

Listings == {"interfaces", "connections", "listeners", "system", "diagnostics"}
Commands == Listings \cup {"drop", "kill"}
Yes == {"--yes", "-y"}

Tcp == {"tcp", "TCP"}
Udp == {"udp", "UDP"}

StateFilters ==
  {"ESTABLISHED", "SYN_SENT", "SYN_RECV", "FIN_WAIT1", "FIN_WAIT2", "TIME_WAIT",
   "CLOSE", "CLOSE_WAIT", "LAST_ACK", "LISTEN", "CLOSING", "NEW_SYN_RECV",
   "UNCONN", "UNKNOWN"}

(* TrfxCliOptions; a has_ flag that is 0 is a value that is unset. *)
Unset == ""

NoOptions ==
  [mode |-> "tui", json |-> FALSE, proto |-> Unset, state |-> Unset, pid |-> Unset,
   drop_kind |-> Unset, local |-> Unset, remote |-> Unset, profile |-> Unset,
   confirmed |-> FALSE]

Invalid(options) == [options EXCEPT !.mode = "invalid"]

ProtoOf(word) == IF word \in Tcp THEN "TCP" ELSE "UDP"

(* Whatever follows the target of kill or drop must confirm it. *)
Confirming(options, rest) ==
  IF ToSet(rest) \subseteq Yes
  THEN [options EXCEPT !.confirmed = rest # <<>>]
  ELSE Invalid(options)

(***************************************************************************)
(* The options of the other commands are read from the left.  The scan     *)
(* holds the options so far and the option whose value is awaited.         *)
(***************************************************************************)
(* Mutant for Flag: --json may be repeated. *)
FlagAgain(scan, word) ==
  LET options == scan.options IN
  CASE word = "--json" ->
         [scan EXCEPT !.options.json = TRUE]
    [] word \in {"--proto", "--state"} /\ options.mode = "connections"
         /\ (IF word = "--proto" THEN options.proto ELSE options.state) = Unset ->
         [scan EXCEPT !.awaiting = word]
    [] OTHER -> [scan EXCEPT !.options = Invalid(options)]

(* An option is taken by its command, once. *)
Flag(scan, word) ==
  LET options == scan.options IN
  CASE word = "--json" /\ ~options.json ->
         [scan EXCEPT !.options.json = TRUE]
    [] word \in {"--proto", "--state"} /\ options.mode = "connections"
         /\ (IF word = "--proto" THEN options.proto ELSE options.state) = Unset ->
         [scan EXCEPT !.awaiting = word]
    [] OTHER -> [scan EXCEPT !.options = Invalid(options)]

FlagValue(scan, word) ==
  CASE scan.awaiting = "--proto" /\ word \in Tcp \cup Udp ->
         [options |-> [scan.options EXCEPT !.proto = ProtoOf(word)], awaiting |-> Unset]
    [] scan.awaiting = "--state" /\ word \in StateFilters ->
         [options |-> [scan.options EXCEPT !.state = word], awaiting |-> Unset]
    [] OTHER -> [scan EXCEPT !.options = Invalid(scan.options)]

ScanFlag(scan, word) ==
  IF scan.options.mode = "invalid" THEN scan
  ELSE IF scan.awaiting = Unset THEN Flag(scan, word) ELSE FlagValue(scan, word)

(* An option at the end of the line whose value is missing is invalid. *)
ScanFlags(options, rest) ==
  LET scan[n \in 0 .. Len(rest)] ==
        IF n = 0 THEN [options |-> options, awaiting |-> Unset]
                 ELSE ScanFlag(scan[n - 1], rest[n])
      last == scan[Len(rest)]
  IN  IF last.awaiting = Unset THEN last.options ELSE Invalid(last.options)

(* One argument, after a profile if there is one. *)
ParseOne(options, word) ==
  [options EXCEPT !.mode =
     CASE word \in {"--help", "-h"}    -> "help"
       [] word \in {"--version", "-v"} -> "version"
       [] word \in Listings            -> word
       [] OTHER                        -> "invalid"]

ParseKill(options, args) ==
  Confirming([options EXCEPT !.mode = "kill", !.pid = args[2]], SubSeq(args, 3, Len(args)))

ParseDrop(options, args) ==
  IF args[3] \notin Tcp \cup Udp \/ args[2] \notin {"connection", "socket"}
  THEN Invalid(options)
  ELSE Confirming([options EXCEPT !.mode = "drop", !.drop_kind = args[2],
                                  !.proto = ProtoOf(args[3]),
                                  !.local = args[4], !.remote = args[5]],
                  SubSeq(args, 6, Len(args)))

(* More than one argument.  drop with too few for a target falls through to *)
(* the commands with options, and then has none.                            *)
ParseMany(options, args) ==
  CASE args[1] = "kill" -> ParseKill(options, args)
    [] args[1] = "drop" /\ Len(args) >= 5 -> ParseDrop(options, args)
    [] args[1] \in Commands \ {"kill"} /\ ~(args[1] = "drop" /\ Len(args) >= 5) ->
         ScanFlags([options EXCEPT !.mode = args[1]], Tail(args))
    [] OTHER -> Invalid(options)

ParseCommand(options, args) ==
  CASE args = <<>>   -> options
    [] Len(args) = 1 -> ParseOne(options, args[1])
    [] OTHER         -> ParseMany(options, args)

(* trfx_parse_cli.  A profile comes first or not at all. *)
ParseCli(args) ==
  IF args = <<>> \/ args[1] # "--profile" THEN ParseCommand(NoOptions, args)
  ELSE IF Len(args) = 1 THEN Invalid(NoOptions)
  ELSE ParseCommand([NoOptions EXCEPT !.profile = args[2]], SubSeq(args, 3, Len(args)))

-----------------------------------------------------------------------------
(* The usage, without a scan.  Some words of the rest are options, each     *)
(* given once, and every other word is the value of the option before it.   *)
TakesValue == {"--proto", "--state"}

OptionsOf(command) == IF command = "connections" THEN {"--json"} \cup TakesValue
                                                 ELSE {"--json"}

ValuesOf(option) == IF option = "--proto" THEN Tcp \cup Udp ELSE StateFilters

UsageOfOptions(command, rest) ==
  \E at \in SUBSET DOMAIN rest :
    /\ \A i \in at : /\ rest[i] \in OptionsOf(command)
                     /\ \A j \in at : rest[i] = rest[j] => i = j
                     /\ rest[i] \in TakesValue => i + 1 \in DOMAIN rest \ at
    /\ \A i \in DOMAIN rest \ at : /\ i - 1 \in at
                                   /\ rest[i - 1] \in TakesValue
                                   /\ rest[i] \in ValuesOf(rest[i - 1])

UsageOfCommand(args) ==
  \/ args = <<>>
  \/ Len(args) = 1 /\ args[1] \in {"--help", "-h", "--version", "-v"}
  \/ args # <<>> /\ args[1] \in Listings /\ UsageOfOptions(args[1], Tail(args))
  \/ /\ Len(args) >= 2 /\ args[1] = "kill"
     /\ \A i \in 3 .. Len(args) : args[i] \in Yes
  \/ /\ Len(args) >= 5 /\ args[1] = "drop"
     /\ args[2] \in {"connection", "socket"} /\ args[3] \in Tcp \cup Udp
     /\ \A i \in 6 .. Len(args) : args[i] \in Yes

Usage(args) ==
  \/ UsageOfCommand(args)
  \/ Len(args) >= 2 /\ args[1] = "--profile" /\ UsageOfCommand(SubSeq(args, 3, Len(args)))
=============================================================================
