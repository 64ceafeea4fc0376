--------------------------- MODULE TrfxDiagnostics ---------------------------
(***************************************************************************)
(* The diagnostics command (src/trfx_diagnostics.c, and the network        *)
(* snapshot of src/trfx_netinfo.c that it and the dashboard collect): one  *)
(* collector after the other, each of which may fail, and then the report  *)
(* with its alerts.  What a collector finds is chosen when it looks.       *)
(***************************************************************************)
EXTENDS TrfxConfig, FiniteSets

CONSTANTS
  Interfaces,      \* names in /proc/net/dev
  Skipped,         \* those of them that are never the active interface
  Vpns,            \* those of them named like a VPN
  NoInterface,
  Readings,        \* what the collectors of pressure may find
  TRFX_DIAGNOSTICS_MAX_LOG_LINES,
  MaxLogLines      \* bound on the lines of a log

LogSources == <<"syslog", "messages", "kern.log", "journalctl", "dmesg">>

Status == {"ok", "open_failed", "parse_failed"}
Alerts == {"cpu", "memory", "disk", "route", "dns"}

Reading == [temperature : Int, total_ram : Nat, mem_percent : Nat,
            disk_count : Nat, disk_used : Nat, disk_total : Nat]

ASSUME DiagnosticsAssumption ==
  /\ Skipped \subseteq Interfaces
  /\ Vpns \subseteq Interfaces
  /\ NoInterface \notin Interfaces
  /\ Readings \subseteq Reading /\ Readings # {}
  /\ TRFX_DIAGNOSTICS_MAX_LOG_LINES \in Nat \ {0}
  /\ MaxLogLines \in Nat

VARIABLES
  diag_pc,       \* where the command is
  readings,
  network,       \* the network snapshot
  status,        \* snapshot->status
  error,         \* the collector whose error text is in the buffer, or "none"
  source,        \* the log being tried, an index into LogSources
  lines_read,    \* lines read of it
  logs,          \* snapshot->logs.lines
  log_status,
  silent,        \* the logs that had no lines
  alerts, report \* what is printed: the alerts, and the log lines in order

diag_log == <<source, lines_read, logs, log_status, silent>>
diag_net == <<readings, network, status, error>>
diag_out == <<alerts, report>>
diag_vars == <<diag_pc, diag_net, diag_log, diag_out>>

NoNetwork ==
  [interfaces |-> "parse_failed", names |-> <<>>, route |-> "parse_failed",
   has_default |-> FALSE, dns |-> "parse_failed", servers |-> 0,
   active |-> NoInterface, vpn |-> NoInterface]

Nothing == [temperature |-> -1, total_ram |-> 0, mem_percent |-> 0,
            disk_count |-> 0, disk_used |-> 0, disk_total |-> 0]

Network ==
  [interfaces : Status, names : Seq(Interfaces), route : Status,
   has_default : BOOLEAN, dns : Status, servers : Nat,
   active : Interfaces \cup {NoInterface}, vpn : Interfaces \cup {NoInterface}]

LogLine == [source : {LogSources[i] : i \in DOMAIN LogSources}, line : Nat]

DiagnosticsTypeOK ==
  /\ diag_pc \in {"idle", "pressure", "interfaces", "route", "dns", "active", "vpn",
                  "open_log", "read_log", "finish", "print", "printed"}
  /\ readings \in Reading
  /\ network \in Network
  /\ status \in Status
  /\ error \in {"none", "dns", "logs"}
  /\ source \in DOMAIN LogSources
  /\ lines_read \in Nat
  /\ logs \in Seq(LogLine)
  /\ log_status \in Status
  /\ silent \subseteq DOMAIN LogSources
  /\ alerts \subseteq Alerts
  /\ report \in Seq(LogLine)

DiagnosticsInit ==
  /\ diag_pc = "idle"
  /\ readings = Nothing /\ network = NoNetwork
  /\ status = "parse_failed" /\ error = "none"
  /\ source = 1 /\ lines_read = 0 /\ logs = <<>> /\ log_status = "parse_failed"
  /\ silent = {}
  /\ alerts = {} /\ report = <<>>

-----------------------------------------------------------------------------
Go(from, to) == diag_pc = from /\ diag_pc' = to

StartDiagnostics ==
  /\ Go("idle", "pressure")
  /\ error' = "none"
  /\ UNCHANGED <<readings, network, status, diag_log, diag_out>>

(* get_cpu_info, get_memory_info and get_disk_info. *)
CollectPressure ==
  /\ Go("pressure", "interfaces")
  /\ readings' \in Readings
  /\ UNCHANGED <<network, status, error, diag_log, diag_out>>

(* final_status keeps the first failure. *)
FirstFailure(next) == IF status = "ok" THEN next ELSE status

(* /proc/net/dev.  The statuses collected from it clear the error text. *)
CollectInterfaces(found, names) ==
  /\ Go("interfaces", "route")
  /\ found # "ok" => names = <<>>
  /\ network' = [NoNetwork EXCEPT !.interfaces = found, !.names = names]
  /\ status' = found
  /\ error' = "none"
  /\ UNCHANGED <<readings, diag_log, diag_out>>

(* ip route, read until a line of the default route.  The error text is     *)
(* left as it is.                                                          *)
CollectRoute(piped, has) ==
  LET result == IF ~piped THEN "open_failed" ELSE IF has THEN "ok" ELSE "parse_failed" IN
  /\ Go("route", "dns")
  /\ network' = [network EXCEPT !.route = result, !.has_default = piped /\ has]
  /\ status' = FirstFailure(result)
  /\ UNCHANGED <<readings, error, diag_log, diag_out>>

(* /etc/resolv.conf: that it names no server is no error. *)
CollectDns(opened, servers) ==
  LET result == IF opened THEN "ok" ELSE "open_failed" IN
  /\ Go("dns", "active")
  /\ network' = [network EXCEPT !.dns = result, !.servers = IF opened THEN servers ELSE 0]
  /\ status' = FirstFailure(result)
  /\ error' = IF opened THEN "none" ELSE "dns"
  /\ UNCHANGED <<readings, diag_log, diag_out>>

(* The first name of a kind that has an address when it is asked for. *)
FirstWith(addressed, kind) ==
  LET fitting == {i \in DOMAIN network.names : network.names[i] \in addressed \cap kind} IN
  IF fitting = {} THEN NoInterface
  ELSE network.names[CHOOSE i \in fitting : \A j \in fitting : i <= j]

FindActive(addressed) ==
  /\ Go("active", "vpn")
  /\ network' = [network EXCEPT !.active = FirstWith(addressed, Interfaces \ Skipped)]
  /\ UNCHANGED <<readings, status, error, diag_log, diag_out>>

(* Interfaces may have lost or got their address since. *)
FindVpn(addressed) ==
  /\ Go("vpn", "open_log")
  /\ network' = [network EXCEPT !.vpn = FirstWith(addressed, Vpns)]
  /\ error' = "none"
  /\ UNCHANGED <<readings, status, diag_log, diag_out>>

-----------------------------------------------------------------------------
(* trfx_collect_diagnostics_logs: three files and two commands, in turn,    *)
(* until one has lines.                                                     *)

(* The next source; before a command the snapshot is reset. *)
NextSource(result) ==
  /\ silent' = silent \cup {source}
  /\ lines_read' = 0
  /\ log_status' = result
  /\ IF source < Len(LogSources)
     THEN /\ diag_pc' = "open_log"
          /\ source' = source + 1
          /\ logs' = IF source + 1 >= 4 THEN <<>> ELSE logs
     ELSE diag_pc' = "finish" /\ UNCHANGED <<source, logs>>

OpenLog(opened) ==
  /\ diag_pc = "open_log"
  /\ IF opened THEN diag_pc' = "read_log" /\ UNCHANGED diag_log
               ELSE NextSource("open_failed")
  /\ UNCHANGED <<diag_net, diag_out>>

(* Mutant for AddLogLine: a full snapshot takes no more lines. *)
AddLogLineUntilFull(line) ==
  logs' = IF Len(logs) < TRFX_DIAGNOSTICS_MAX_LOG_LINES THEN Append(logs, line) ELSE logs

(* diagnostics_log_snapshot_add: a full snapshot loses its oldest line. *)
AddLogLine(line) ==
  logs' = Append(IF Len(logs) < TRFX_DIAGNOSTICS_MAX_LOG_LINES THEN logs ELSE Tail(logs), line)

ReadLogLine ==
  /\ diag_pc = "read_log"
  /\ lines_read < MaxLogLines
  /\ lines_read' = lines_read + 1
  /\ AddLogLine([source |-> LogSources[source], line |-> lines_read + 1])
  /\ UNCHANGED <<diag_pc, diag_net, source, log_status, silent, diag_out>>

EndOfLog ==
  /\ diag_pc = "read_log"
  /\ IF lines_read = 0 THEN NextSource("parse_failed")
     ELSE /\ diag_pc' = "finish"
          /\ log_status' = "ok"
          /\ UNCHANGED <<source, lines_read, logs, silent>>
  /\ UNCHANGED <<diag_net, diag_out>>

(* The end of trfx_collect_diagnostics_snapshot: the logs' failure counts   *)
(* only after the network's, and not when nothing could be opened.          *)
FinishSnapshot ==
  /\ Go("finish", "print")
  /\ status' = IF status = "ok" /\ log_status = "parse_failed" THEN log_status ELSE status
  /\ error' = IF status' = "ok" \/ log_status = "ok" THEN "none" ELSE "logs"
  /\ UNCHANGED <<readings, network, diag_log, diag_out>>

-----------------------------------------------------------------------------
(* trfx_collect_diagnostics_alerts, against the settings as they are. *)
CpuAlert == /\ readings.temperature >= 0
            /\ readings.temperature >= settings.TEMP_WARN_RED

MemoryAlert == /\ readings.total_ram > 0
               /\ readings.mem_percent >= settings.ALERT_MEMORY_WARN_PERCENT

DiskAlert ==
  /\ readings.disk_count > 0 /\ readings.disk_total > 0
  /\ settings.ALERT_DISK_WARN_PERCENT > 0
  /\ readings.disk_used * 100 >= readings.disk_total * settings.ALERT_DISK_WARN_PERCENT

RouteAlert == /\ settings.ALERT_REQUIRE_DEFAULT_ROUTE # 0
              /\ network.route = "ok" /\ ~network.has_default

DnsAlert == /\ settings.ALERT_REQUIRE_DNS # 0
            /\ network.dns = "ok" /\ network.servers = 0

CollectAlerts ==
  {alert \in Alerts :
     \/ alert = "cpu" /\ CpuAlert
     \/ alert = "memory" /\ MemoryAlert
     \/ alert = "disk" /\ DiskAlert
     \/ alert = "route" /\ RouteAlert
     \/ alert = "dns" /\ DnsAlert}

(* trfx_diagnostics_log_at(index) for index + 1 in 1 .. count. *)
NewestFirst == [i \in DOMAIN logs |-> logs[Len(logs) + 1 - i]]

(* trfx_print_diagnostics_text *)
PrintReport ==
  /\ Go("print", "printed")
  /\ alerts' = CollectAlerts
  /\ report' = NewestFirst
  /\ UNCHANGED <<diag_net, diag_log>>

-----------------------------------------------------------------------------
(* Two interfaces at most, which is what FirstWith needs two of. *)
InterfaceLists == {<<>>} \cup {<<i>> : i \in Interfaces} \cup (Interfaces \X Interfaces)

DiagnosticsStep ==
  \/ CollectPressure
  \/ \E found \in Status : \E names \in InterfaceLists : CollectInterfaces(found, names)
  \/ \E piped, has \in BOOLEAN : CollectRoute(piped, has)
  \/ \E opened \in BOOLEAN : \E servers \in 0 .. 1 : CollectDns(opened, servers)
  \/ \E addressed \in SUBSET Interfaces : FindActive(addressed) \/ FindVpn(addressed)
  \/ \E opened \in BOOLEAN : OpenLog(opened)
  \/ ReadLogLine \/ EndOfLog \/ FinishSnapshot \/ PrintReport

(* The command starts with the settings it loaded; the dashboard loads them *)
(* for itself, without the snapshot.                                        *)
DiagnosticsNext ==
  \/ UseSettings /\ StartDiagnostics
  \/ DiagnosticsStep /\ UNCHANGED config_vars
  \/ ConfigNext /\ UNCHANGED diag_vars

DiagnosticsSpec ==
  ConfigInit /\ DiagnosticsInit /\ [][DiagnosticsNext]_<<config_vars, diag_vars>>

-----------------------------------------------------------------------------
(* The report shows one log only: the first that has lines, all that come   *)
(* before it being silent; of that log its newest lines, newest first, as   *)
(* many as the snapshot has room for.                                       *)
LogsAreTheNewest ==
  diag_pc = "printed" =>
    /\ silent = 1 .. (IF lines_read = 0 THEN Len(LogSources) ELSE source - 1)
    /\ Len(report) = IF lines_read < TRFX_DIAGNOSTICS_MAX_LOG_LINES
                     THEN lines_read ELSE TRFX_DIAGNOSTICS_MAX_LOG_LINES
    /\ \A i \in DOMAIN report :
         report[i] = [source |-> LogSources[source], line |-> lines_read + 1 - i]

(* What was found of the active interface and of the VPN names interfaces   *)
(* that were in the list, of the right kind.                                *)
SnapshotNamesItsOwn ==
  /\ network.active # NoInterface =>
       network.active \in {network.names[i] : i \in DOMAIN network.names} \ Skipped
  /\ network.vpn # NoInterface =>
       network.vpn \in {network.names[i] : i \in DOMAIN network.names} \cap Vpns

(* The alert about the default route is never raised: the collector calls   *)
(* a list of routes without a default one unparsable, and the alert is only *)
(* for routes that were parsed.                                             *)
NoRouteAlert == "route" \notin alerts
=============================================================================
