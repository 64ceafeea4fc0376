----------------------------- MODULE TrfxProgram -----------------------------
(***************************************************************************)
(* The program from its arguments to its exit status (src/trafix.c,        *)
(* src/trfx_app.c): the command line, the configuration, the snapshot of   *)
(* the sockets, the diagnostics and the actions, put together.             *)
(*                                                                         *)
(* The dashboard appears as the part of it that TrfxActions models, its    *)
(* kill and drop actions and the audit view; TrfxDashboard and TrfxSupport *)
(* model the rest of it.                                                   *)
(***************************************************************************)
EXTENDS TrfxActions, TrfxCli, TrfxDiagnostics, TrfxSockets

CONSTANTS
  CommandLines   \* the arguments the program is started with

ASSUME ProgramAssumption == CommandLines \subseteq Seq(STRING)

VARIABLES
  argv,
  options,
  phase,         \* what main is doing
  exit_status

program_vars == <<argv, options, phase, exit_status>>
all_vars == <<vars, config_vars, diag_vars, socket_vars, program_vars>>

(* Which processes run is of no consequence to the commands that never look *)
(* for one, nor is the user to those that do not act: one choice of them is *)
(* enough.                                                                  *)
ProgramInit ==
  /\ argv \in CommandLines
  /\ options = NoOptions
  /\ phase = "parse"
  /\ exit_status = "none"
  /\ Init /\ ConfigInit /\ DiagnosticsInit /\ SocketsInit
  /\ LET mode == ParseCli(argv).mode IN
     /\ tui = (mode = "tui")
     /\ mode \in {"tui", "kill"} \/ started = {}
     /\ mode \in {"tui", "kill", "drop"} \/ effective_uid = Root

-----------------------------------------------------------------------------
Enter(next) == phase' = next /\ UNCHANGED exit_status
Exit(code) == phase' = "exited" /\ exit_status' = code

Parse ==
  /\ phase = "parse"
  /\ options' = ParseCli(argv)
  /\ Enter("dispatch")
  /\ UNCHANGED <<argv, vars, config_vars, diag_vars, socket_vars>>

(* The switch in main: the command that was asked for starts. *)
Dispatch(modes) ==
  /\ phase = "dispatch"
  /\ options.mode \in modes
  /\ argv' = <<>>
  /\ UNCHANGED options

HasDropTarget == options.drop_kind # Unset

(* Nothing is collected for these, or nothing that can fail. *)
RunAtOnce ==
  /\ \/ Dispatch({"help", "version", "system"}) /\ Exit("ok")
     \/ Dispatch({"invalid"}) /\ Exit("error")
     \/ Dispatch({"drop"}) /\ ~HasDropTarget /\ Exit("error")
  /\ UNCHANGED <<vars, config_vars, diag_vars, socket_vars>>

(* trfx_run_interfaces_command: /proc/net/dev may be missing or garbled. *)
RunInterfaces ==
  /\ Dispatch({"interfaces"})
  /\ \E collected \in BOOLEAN : Exit(IF collected THEN "ok" ELSE "data_unavailable")
  /\ UNCHANGED <<vars, config_vars, diag_vars, socket_vars>>

(* trfx_run_kill_command, of a target that may name nothing in /proc. *)
RunKill ==
  /\ Dispatch({"kill"})
  /\ IF options.pid \in Targets
     THEN BeginKill /\ request'.target = options.pid /\ Enter("action")
     ELSE Exit("data_unavailable") /\ UNCHANGED vars
  /\ UNCHANGED <<config_vars, diag_vars, socket_vars>>

(* trfx_run_connections_command, trfx_run_listeners_command and the first   *)
(* half of trfx_run_drop_command.                                           *)
RunListing ==
  /\ Dispatch({"connections", "listeners", "drop"})
  /\ options.mode = "drop" => HasDropTarget
  /\ BeginList(IF options.drop_kind = "socket" THEN "scan" ELSE "tcp")
  /\ Enter("collect")
  /\ UNCHANGED <<vars, config_vars, diag_vars>>

(* trfx_run_tui and trfx_run_diagnostics_command load the configuration. *)
RunConfigured ==
  /\ Dispatch({"tui", "diagnostics"})
  /\ LoadConfig
  /\ Enter("config")
  /\ UNCHANGED <<vars, diag_vars, socket_vars>>

-----------------------------------------------------------------------------
same == <<argv, options>>

Configure ==
  /\ phase = "config"
  /\ ConfigStep(options.profile)
  /\ UNCHANGED <<vars, diag_vars, socket_vars, program_vars>>

(* Nothing starts with a profile that was refused. *)
Configured ==
  /\ phase = "config"
  /\ \/ config_pc = "refused" /\ Exit("error") /\ UNCHANGED <<config_vars, diag_vars>>
     \/ /\ UseSettings
        /\ IF options.mode = "tui" THEN Enter("action") /\ UNCHANGED diag_vars
                                   ELSE Enter("diagnose") /\ StartDiagnostics
  /\ UNCHANGED <<same, vars, socket_vars>>

Diagnose ==
  /\ phase = "diagnose"
  /\ DiagnosticsStep
  /\ UNCHANGED <<vars, config_vars, socket_vars, program_vars>>

(* A snapshot with failures is printed and is no error. *)
Diagnosed ==
  /\ phase = "diagnose" /\ diag_pc = "printed"
  /\ Exit("ok")
  /\ UNCHANGED <<same, vars, config_vars, diag_vars, socket_vars>>

CollectSockets ==
  /\ phase = "collect"
  /\ Collect \/ KernelStep
  /\ UNCHANGED <<vars, config_vars, diag_vars, program_vars>>

(* The rows that pass the filters are printed. *)
Listed ==
  /\ phase = "collect" /\ list_pc = "listed" /\ options.mode # "drop"
  /\ Exit("ok")
  /\ UNCHANGED <<same, vars, config_vars, diag_vars, socket_vars>>

DropTargets ==
  {row \in rows :
     IF options.drop_kind = "connection"
     THEN ConnectionMatches(row, options.proto, options.local, options.remote)
     ELSE SocketMatches(row, options.proto, options.local, options.remote)}

(* The second half of trfx_run_drop_command. *)
DropFrom ==
  /\ phase = "collect" /\ options.mode = "drop"
  /\ ForgetList
  /\ IF DropTargets = {} THEN DropTargetNotFound /\ Exit("data_unavailable")
                         ELSE BeginDrop /\ Enter("action")
  /\ UNCHANGED <<same, config_vars, diag_vars>>

-----------------------------------------------------------------------------
(* The actions: the dashboard begins any number of them, a command one. *)
Answered == ~tui /\ options.confirmed => confirmed' /\ apc' = "execute"

Act ==
  /\ phase = "action"
  /\ \/ Environment
     \/ View
     \/ tui /\ (BeginKill \/ BeginDrop)
     \/ Lookup \/ (Review /\ Answered) \/ Execute \/ Signal \/ RunSsDrop \/ Report
  /\ UNCHANGED <<config_vars, diag_vars, socket_vars, program_vars>>

(* The command ends, or the user quits the dashboard. *)
Done ==
  /\ phase = "action"
  /\ \/ apc = "exited" /\ Exit(exit_code)
     \/ tui /\ apc = "idle" /\ vpc = "idle" /\ Exit("ok")
  /\ UNCHANGED <<same, vars, config_vars, diag_vars, socket_vars>>

Exited == phase = "exited" /\ UNCHANGED all_vars

ProgramNext ==
  \/ Parse
  \/ RunAtOnce \/ RunInterfaces \/ RunKill \/ RunListing \/ RunConfigured
  \/ Configure \/ Configured
  \/ Diagnose \/ Diagnosed
  \/ CollectSockets \/ Listed \/ DropFrom
  \/ Act \/ Done
  \/ Exited

ProgramSpec == ProgramInit /\ [][ProgramNext]_all_vars

-----------------------------------------------------------------------------
(* A command line is refused exactly when it is not in the usage; drop is   *)
(* refused by its handler when the parser took it without a target.         *)
UsageIsObeyed ==
  phase = "dispatch" =>
    Usage(argv) = (options.mode \notin {"invalid"} /\ (options.mode = "drop" => HasDropTarget))

(* The exit status tells scripts what was done.  An action's command        *)
(* succeeds exactly when the signal was sent or the connection dropped;     *)
(* refused arguments and profiles are an error; and missing data has its    *)
(* own status only where the command looks for it.                          *)
StatusMeansDone ==
  /\ OkMeansDone
  /\ phase = "exited" =>
       /\ options.mode \in {"kill", "drop"} => (exit_status = "ok") = acted
       /\ options.mode = "invalid" \/ config_pc = "refused" => exit_status = "error"
       /\ exit_status = "data_unavailable" =>
            options.mode \in {"interfaces", "kill", "drop"}
=============================================================================
