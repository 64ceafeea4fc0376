----------------------- MODULE TrfxDiagnostics_proofs -----------------------
(***************************************************************************)
(* What the settings say is right for any lines of any length, what the    *)
(* snapshot shows of the logs for a window and logs of any size, and the   *)
(* alert about the default route can never be raised.                      *)
(***************************************************************************)
EXTENDS TrfxDiagnostics, WellFoundedInduction, TLAPS

(***************************************************************************)
(* The configuration.                                                      *)
(***************************************************************************)

(* The built-in values are within the limits. *)
LEMMA DefaultFits ==
  /\ Default \in [SettingNames -> Int]
  /\ \A name \in SettingNames :
       Default[name] \in Limits[name] /\ Limits[name] \subseteq Int
<1>1. SettingNames = DOMAIN Limits
  BY DEF Default, Limits, SettingNames
<1>2. ASSUME NEW name \in DOMAIN Limits
      PROVE  Default[name] \in Limits[name] /\ Limits[name] \subseteq Int
  <2>1. CASE name = "TEMP_WARN_YELLOW"
    BY <2>1 DEF Default, Limits
  <2>2. CASE name = "TEMP_WARN_RED"
    BY <2>2 DEF Default, Limits
  <2>3. CASE name = "ALERT_MEMORY_WARN_PERCENT"
    BY <2>3 DEF Default, Limits
  <2>4. CASE name = "ALERT_DISK_WARN_PERCENT"
    BY <2>4 DEF Default, Limits
  <2>5. CASE name = "ALERT_REQUIRE_DEFAULT_ROUTE"
    BY <2>5 DEF Default, Limits
  <2>6. CASE name = "ALERT_REQUIRE_DNS"
    BY <2>6 DEF Default, Limits
  <2>7. CASE name = "SHOW_TOP_PANELS"
    BY <2>7 DEF Default, Limits
  <2>8. CASE name = "TUI_REFRESH_INTERVAL_MS"
    BY <2>8 DEF Default, Limits
  <2>9. CASE name = "TUI_PAUSE_INTERVAL_MS"
    BY <2>9 DEF Default, Limits
  <2>10. CASE name = "TUI_READY_CHECK_INTERVAL_MS"
    BY <2>10 DEF Default, Limits
  <2>11. CASE name = "TUI_SMALL_PANEL_REFRESH_MS"
    BY <2>11 DEF Default, Limits
  <2>12. name \in
           {"TEMP_WARN_YELLOW", "TEMP_WARN_RED",
            "ALERT_MEMORY_WARN_PERCENT", "ALERT_DISK_WARN_PERCENT",
            "ALERT_REQUIRE_DEFAULT_ROUTE", "ALERT_REQUIRE_DNS", "SHOW_TOP_PANELS",
            "TUI_REFRESH_INTERVAL_MS", "TUI_PAUSE_INTERVAL_MS",
            "TUI_READY_CHECK_INTERVAL_MS", "TUI_SMALL_PANEL_REFRESH_MS"}
    BY DEF Limits
  <2>. QED
    BY <2>1, <2>2, <2>3, <2>4, <2>5, <2>6, <2>7, <2>8, <2>9, <2>10, <2>11, <2>12
<1>3. Default = [name \in SettingNames |-> Default[name]]
  BY DEF Default, SettingNames
<1>. QED BY <1>1, <1>2, <1>3

(* A line leaves a whole number in its setting, and one within its limits. *)
LEMMA ParsedFits ==
  ASSUME NEW line \in ConfigLines, line.key \in SettingNames
  PROVE  Parsed(line) \in Int /\ Parsed(line) \in Limits[line.key]
<1>1. line.n \in Int
  BY ConfigAssumption
<1>2. CASE line.key \in Unbounded
  <2>1. CASE line.key = "TEMP_WARN_YELLOW"
    BY <1>1, <1>2, <2>1 DEF Limits, Parsed
  <2>2. CASE line.key = "TEMP_WARN_RED"
    BY <1>1, <1>2, <2>2 DEF Limits, Parsed
  <2>. QED BY <1>2, <2>1, <2>2 DEF Unbounded
<1>3. CASE line.key \notin Unbounded /\ Accepted(line)
  BY <1>1, <1>3 DEF Parsed, Accepted
<1>4. CASE line.key \notin Unbounded /\ ~Accepted(line)
  BY <1>4, DefaultFits DEF Parsed
<1>. QED BY <1>2, <1>3, <1>4

(* The inductive invariant.  While the files are read it is their words     *)
(* that the settings follow; in use they stay as they are.                  *)
ConfigInv ==
  /\ ConfigTypeOK
  /\ SettingsWithinLimits
  /\ SettingsAreTheLastWord
  /\ config_pc = "idle" => config_read = <<>>

LEMMA ConfigInvInit == ConfigInit => ConfigInv
<1>. SUFFICES ASSUME ConfigInit PROVE ConfigInv
  OBVIOUS
<1>1. ConfigTypeOK /\ SettingsWithinLimits
  BY DefaultFits DEF ConfigInit, ConfigTypeOK, SettingsWithinLimits
<1>2. SettingsAreTheLastWord
  BY DEF ConfigInit, SettingsAreTheLastWord, LinesAbout
<1>. QED BY <1>1, <1>2 DEF ConfigInit, ConfigInv

(* A line that is read becomes the last about its setting, and the others'  *)
(* last lines stay.                                                         *)
LEMMA ReadLineKeeps ==
  ASSUME ConfigInv, NEW line \in ConfigLines, ReadLine(line)
  PROVE  ConfigInv'
<1>0. PICK last \in Nat : last = Len(config_read) + 1
  BY DEF ConfigInv, ConfigTypeOK
<1>1. /\ config_read \in Seq(ConfigLines) /\ config_read' = Append(config_read, line)
      /\ config_pc' = config_pc /\ config_pc \in {"base", "profile"}
      /\ settings' = IF line.key \in SettingNames
                     THEN [settings EXCEPT ![line.key] = Parsed(line)] ELSE settings
  BY DEF ConfigInv, ConfigTypeOK, ReadLine
<1>2. settings \in [SettingNames -> Int]
  BY DEF ConfigInv, ConfigTypeOK
<1>3. /\ DOMAIN config_read' = 1 .. last /\ DOMAIN config_read = 1 .. last - 1
      /\ last >= 1
      /\ config_read'[last] = line
      /\ \A i \in 1 .. last - 1 : config_read'[i] = config_read[i]
  BY <1>0, <1>1
<1>4. ConfigTypeOK'
  BY <1>1, <1>2, ParsedFits DEF ConfigInv, ConfigTypeOK
<1>5. SettingsWithinLimits'
  BY <1>1, <1>2, ParsedFits DEF ConfigInv, SettingsWithinLimits
<1>6. SettingsAreTheLastWord'
  <2>. SUFFICES ASSUME NEW name \in SettingNames
       PROVE  /\ LinesAbout(name)' = {} => settings'[name] = Default[name]
              /\ \A i \in LinesAbout(name)' :
                   (\A j \in LinesAbout(name)' : j <= i) => settings'[name] = Says(i)'
    BY DEF SettingsAreTheLastWord
  <2>1. CASE line.key = name
    <3>1. last \in LinesAbout(name)' /\ \A i \in LinesAbout(name)' : i <= last
      BY <1>3, <2>1 DEF LinesAbout
    <3>2. settings'[name] = Parsed(line)
      BY <1>1, <1>2, <2>1
    <3>3. Says(last)' = Parsed(line)
      BY <1>3 DEF Says, Parsed, Accepted
    <3>. QED BY <1>3, <3>1, <3>2, <3>3 DEF LinesAbout
  <2>2. CASE line.key # name
    <3>1. LinesAbout(name)' = LinesAbout(name)
      BY <1>3, <2>2 DEF LinesAbout
    <3>2. settings'[name] = settings[name]
      BY <1>1, <1>2, <2>2
    <3>3. \A i \in LinesAbout(name) : Says(i)' = Says(i)
      BY <1>3 DEF LinesAbout, Says, Accepted
    <3>4. config_pc # "in_use"
      BY <1>1
    <3>. QED BY <3>1, <3>2, <3>3, <3>4 DEF ConfigInv, SettingsAreTheLastWord
  <2>. QED BY <2>1, <2>2
<1>. QED BY <1>1, <1>4, <1>5, <1>6 DEF ConfigInv

LEMMA ConfigInvNext == ConfigInv /\ [ConfigNext]_config_vars => ConfigInv'
<1>. SUFFICES ASSUME ConfigInv, [ConfigNext]_config_vars PROVE ConfigInv'
  OBVIOUS
<1>. USE DEF ConfigInv, ConfigTypeOK, SettingsWithinLimits, SettingsAreTheLastWord,
             LinesAbout, Says
<1>1. CASE LoadConfig
  BY <1>1 DEF LoadConfig
<1>2. CASE UseSettings
  BY <1>2 DEF UseSettings
<1>3. ASSUME NEW line \in ConfigLines, ReadLine(line) PROVE ConfigInv'
  BY <1>3, ReadLineKeeps
<1>4. ASSUME NEW profile, NEW usable, EndOfBase(profile, usable) PROVE ConfigInv'
  BY <1>4 DEF EndOfBase
<1>5. CASE EndOfProfile
  BY <1>5 DEF EndOfProfile
<1>6. CASE UNCHANGED config_vars
  BY <1>6 DEF config_vars
<1>. QED BY <1>1, <1>2, <1>3, <1>4, <1>5, <1>6 DEF ConfigNext, ConfigStep

LEMMA ConfigInvariant == ConfigSpec => []ConfigInv
BY ConfigInvInit, ConfigInvNext, PTL DEF ConfigSpec

(* The settings are whole numbers, and what was read are lines of the file, *)
(* for any lines and any number of them.                                    *)
THEOREM ConfigTypes == ConfigSpec => []ConfigTypeOK
<1>1. ConfigInv => ConfigTypeOK
  BY DEF ConfigInv
<1>. QED BY <1>1, ConfigInvariant, PTL

(* No file can set an interval or a percentage outside its limits.          *)
THEOREM SettingsStayInLimits == ConfigSpec => []SettingsWithinLimits
<1>1. ConfigInv => SettingsWithinLimits
  BY DEF ConfigInv
<1>. QED BY <1>1, ConfigInvariant, PTL

(* The last line about a setting decides, for files of any length.          *)
THEOREM LastWordDecides == ConfigSpec => []SettingsAreTheLastWord
<1>1. ConfigInv => SettingsAreTheLastWord
  BY DEF ConfigInv
<1>. QED BY <1>1, ConfigInvariant, PTL

-----------------------------------------------------------------------------
(***************************************************************************)
(* The diagnostics.                                                        *)
(***************************************************************************)

(* Where nothing of the logs has been read, and where they have been.       *)
Collecting == {"idle", "pressure", "interfaces", "route", "dns", "active", "vpn", "open_log"}
Over       == {"finish", "print", "printed"}

Window == TRFX_DIAGNOSTICS_MAX_LOG_LINES

(* The lines kept are the latest of the source that is being read. *)
KeptAreLatest ==
  /\ Len(logs) = IF lines_read < Window THEN lines_read ELSE Window
  /\ \A i \in 1 .. Len(logs) :
       logs[i] = [source |-> LogSources[source], line |-> lines_read - Len(logs) + i]

(* The sources that had no lines are those before it, or all. *)
LogProgress ==
  /\ KeptAreLatest
  /\ diag_pc \in Collecting => lines_read = 0
  /\ silent = 1 .. (IF diag_pc \in Over /\ lines_read = 0 THEN 5 ELSE source - 1)

RouteFound == network.route = "ok" => network.has_default

DiagInv ==
  /\ DiagnosticsTypeOK
  /\ RouteFound /\ NoRouteAlert /\ SnapshotNamesItsOwn
  /\ LogProgress /\ LogsAreTheNewest

LEMMA SourcesAre ==
  /\ Len(LogSources) = 5 /\ DOMAIN LogSources = 1 .. 5
  /\ Window \in Nat \ {0}
BY DiagnosticsAssumption DEF LogSources, Window

(* The first interface of a kind is one that was listed. *)
LEMMA FirstIsListed ==
  ASSUME NEW addressed, NEW kind, network.names \in Seq(Interfaces),
         FirstWith(addressed, kind) # NoInterface
  PROVE  FirstWith(addressed, kind) \in
           {network.names[i] : i \in DOMAIN network.names} \cap kind
<1> DEFINE fitting == {i \in DOMAIN network.names : network.names[i] \in addressed \cap kind}
<1>1. fitting # {} /\ fitting \subseteq Nat
  BY DEF FirstWith
<1>2. \E i \in fitting : \A j \in fitting : i <= j
  <2>1. PICK i \in fitting : \A j \in fitting : <<j, i>> \notin OpToRel(<, Nat)
    BY <1>1, WFMin, NatLessThanWellFounded, Zenon
  <2>2. \A j \in fitting : ~(j < i)
    BY <1>1, <2>1, Zenon DEF OpToRel
  <2>3. ASSUME NEW j \in fitting PROVE i <= j
    <3>1. i \in Nat /\ j \in Nat /\ ~(j < i)
      BY <1>1, <2>2
    <3>. QED BY <3>1
  <2>. QED BY <2>3
<1>3. (CHOOSE i \in fitting : \A j \in fitting : i <= j) \in fitting
  BY <1>2
<1>. QED BY <1>1, <1>3 DEF FirstWith

LEMMA DiagInvInit == DiagnosticsInit => DiagInv
<1>. SUFFICES ASSUME DiagnosticsInit PROVE DiagInv
  OBVIOUS
<1>1. DiagnosticsTypeOK
  BY SourcesAre
  DEF DiagnosticsInit, DiagnosticsTypeOK, Nothing, NoNetwork, Reading, Status, Alerts, Network
<1>2. RouteFound /\ NoRouteAlert /\ SnapshotNamesItsOwn
  BY DEF DiagnosticsInit, RouteFound, NoRouteAlert, SnapshotNamesItsOwn, NoNetwork
<1>3. LogProgress /\ LogsAreTheNewest
  BY SourcesAre
  DEF DiagnosticsInit, LogProgress, KeptAreLatest, LogsAreTheNewest, Collecting, Over, Window
<1>. QED BY <1>1, <1>2, <1>3 DEF DiagInv

-----------------------------------------------------------------------------
(* The collectors: the logs are not touched.                               *)

Others == LogProgress /\ LogsAreTheNewest

(* The types of all that a collector of the network leaves alone. *)
LEMMA NetworkTypesSuffice ==
  ASSUME DiagnosticsTypeOK, network' \in Network, status' \in Status,
         error' \in {"none", "dns", "logs"}, diag_pc' \in Collecting,
         UNCHANGED <<readings, diag_log, diag_out>>
  PROVE  DiagnosticsTypeOK'
BY DEF DiagnosticsTypeOK, Collecting, diag_log, diag_out

LEMMA CollectorKeepsLogs ==
  ASSUME DiagInv, diag_pc \in Collecting, diag_pc' \in Collecting,
         UNCHANGED <<diag_log, diag_out>>
  PROVE  Others'
BY DEF DiagInv, Others, LogProgress, KeptAreLatest, LogsAreTheNewest, Collecting, Over,
       diag_log, diag_out

LEMMA CollectorsKeep ==
  ASSUME DiagInv,
         \/ StartDiagnostics
         \/ CollectPressure
         \/ \E found \in Status : \E names \in InterfaceLists : CollectInterfaces(found, names)
         \/ \E piped, has \in BOOLEAN : CollectRoute(piped, has)
         \/ \E opened \in BOOLEAN : \E servers \in 0 .. 1 : CollectDns(opened, servers)
         \/ \E addressed \in SUBSET Interfaces : FindActive(addressed) \/ FindVpn(addressed)
  PROVE  DiagInv'
<1>. USE DEF DiagInv, Others
<1>1. CASE StartDiagnostics
  <2>1. Others'
    BY <1>1, CollectorKeepsLogs DEF StartDiagnostics, Go, Collecting
  <2>2. DiagnosticsTypeOK'
    BY <1>1 DEF StartDiagnostics, Go, DiagnosticsTypeOK, diag_log, diag_out
  <2>. QED BY <1>1, <2>1, <2>2
       DEF StartDiagnostics, RouteFound, NoRouteAlert, SnapshotNamesItsOwn, diag_out
<1>2. CASE CollectPressure
  <2>1. Others'
    BY <1>2, CollectorKeepsLogs DEF CollectPressure, Go, Collecting
  <2>2. DiagnosticsTypeOK'
    BY <1>2, DiagnosticsAssumption
    DEF CollectPressure, Go, DiagnosticsTypeOK, diag_log, diag_out
  <2>. QED BY <1>2, <2>1, <2>2
       DEF CollectPressure, RouteFound, NoRouteAlert, SnapshotNamesItsOwn, diag_out
<1>3. ASSUME NEW found \in Status, NEW names \in InterfaceLists,
             CollectInterfaces(found, names)
      PROVE  DiagInv'
  <2>1. Others'
    BY <1>3, CollectorKeepsLogs DEF CollectInterfaces, Go, Collecting
  <2>2. names \in Seq(Interfaces)
    <3>1. CASE names = <<>>
      BY <3>1
    <3>2. CASE \E i \in Interfaces : names = <<i>>
      BY <3>2
    <3>3. CASE \E i, j \in Interfaces : names = <<i, j>>
      BY <3>3
    <3>. QED BY <3>1, <3>2, <3>3 DEF InterfaceLists
  <2>3. network' = [NoNetwork EXCEPT !.interfaces = found, !.names = names]
    BY <1>3 DEF CollectInterfaces
  <2>4. network' \in Network
    BY <2>2, <2>3 DEF NoNetwork, Network, Status
  <2>5. DiagnosticsTypeOK'
    BY <1>3, <2>4, NetworkTypesSuffice DEF CollectInterfaces, Go, Collecting, diag_log, diag_out
  <2>6. RouteFound' /\ SnapshotNamesItsOwn'
    BY <2>3 DEF RouteFound, SnapshotNamesItsOwn, NoNetwork
  <2>. QED BY <1>3, <2>1, <2>5, <2>6 DEF CollectInterfaces, NoRouteAlert, diag_out
<1>4. ASSUME NEW piped \in BOOLEAN, NEW has \in BOOLEAN, CollectRoute(piped, has)
      PROVE  DiagInv'
  <2>1. Others'
    BY <1>4, CollectorKeepsLogs DEF CollectRoute, Go, Collecting
  <2>2. PICK result \in Status :
          /\ network' = [network EXCEPT !.route = result, !.has_default = piped /\ has]
          /\ result = "ok" => piped /\ has
          /\ status' = FirstFailure(result)
    BY <1>4 DEF CollectRoute, Status
  <2>3. network \in Network
    BY DEF DiagnosticsTypeOK
  <2>4. network' \in Network
    <3>1. (piped /\ has) \in BOOLEAN
      OBVIOUS
    <3>. QED BY <2>2, <2>3, <3>1 DEF Network
  <2>5. RouteFound' /\ SnapshotNamesItsOwn'
    BY <2>2, <2>3 DEF Network, RouteFound, SnapshotNamesItsOwn
  <2>6. DiagnosticsTypeOK'
    BY <1>4, <2>2, <2>4, NetworkTypesSuffice
    DEF CollectRoute, Go, Collecting, FirstFailure, Status, DiagnosticsTypeOK, diag_log, diag_out
  <2>. QED BY <1>4, <2>1, <2>5, <2>6 DEF CollectRoute, NoRouteAlert, diag_out
<1>5. ASSUME NEW opened \in BOOLEAN, NEW servers \in 0 .. 1, CollectDns(opened, servers)
      PROVE  DiagInv'
  <2>1. Others'
    BY <1>5, CollectorKeepsLogs DEF CollectDns, Go, Collecting
  <2>2. PICK result \in Status, n \in Nat :
          /\ network' = [network EXCEPT !.dns = result, !.servers = n]
          /\ status' = FirstFailure(result)
    <3>1. CASE opened
      <4>1. /\ network' = [network EXCEPT !.dns = "ok", !.servers = servers]
            /\ status' = FirstFailure("ok")
        BY <1>5, <3>1 DEF CollectDns
      <4>2. servers \in Nat /\ "ok" \in Status
        BY DEF Status
      <4>. QED BY <4>1, <4>2
    <3>2. CASE ~opened
      <4>1. /\ network' = [network EXCEPT !.dns = "open_failed", !.servers = 0]
            /\ status' = FirstFailure("open_failed")
        BY <1>5, <3>2 DEF CollectDns
      <4>. QED BY <4>1 DEF Status
    <3>. QED BY <3>1, <3>2
  <2>3. network \in Network
    BY DEF DiagnosticsTypeOK
  <2>4. network' \in Network
    BY <2>2, <2>3 DEF Network
  <2>5. RouteFound' /\ SnapshotNamesItsOwn'
    BY <2>2, <2>3 DEF Network, RouteFound, SnapshotNamesItsOwn
  <2>6. DiagnosticsTypeOK'
    BY <1>5, <2>2, <2>4, NetworkTypesSuffice
    DEF CollectDns, Go, Collecting, FirstFailure, Status, DiagnosticsTypeOK, diag_log, diag_out
  <2>. QED BY <1>5, <2>1, <2>5, <2>6 DEF CollectDns, NoRouteAlert, diag_out
<1>6. ASSUME NEW addressed, FindActive(addressed) PROVE DiagInv'
  <2>1. Others'
    BY <1>6, CollectorKeepsLogs DEF FindActive, Go, Collecting
  <2>2. PICK found : /\ network' = [network EXCEPT !.active = found]
                     /\ found = FirstWith(addressed, Interfaces \ Skipped)
    BY <1>6 DEF FindActive
  <2>3. network \in Network /\ network.names \in Seq(Interfaces)
    BY DEF DiagnosticsTypeOK, Network
  <2>4. found # NoInterface =>
          found \in {network.names[i] : i \in DOMAIN network.names} \cap (Interfaces \ Skipped)
    BY <2>2, <2>3, FirstIsListed
  <2>5. network' \in Network
    BY <2>2, <2>3, <2>4 DEF Network
  <2>6. RouteFound' /\ SnapshotNamesItsOwn'
    BY <2>2, <2>3, <2>4 DEF Network, RouteFound, SnapshotNamesItsOwn
  <2>7. DiagnosticsTypeOK'
    BY <1>6, <2>5, NetworkTypesSuffice
    DEF FindActive, Go, Collecting, DiagnosticsTypeOK, diag_log, diag_out
  <2>. QED BY <1>6, <2>1, <2>6, <2>7 DEF FindActive, NoRouteAlert, diag_out
<1>7. ASSUME NEW addressed, FindVpn(addressed) PROVE DiagInv'
  <2>1. Others'
    BY <1>7, CollectorKeepsLogs DEF FindVpn, Go, Collecting
  <2>2. PICK found : /\ network' = [network EXCEPT !.vpn = found]
                     /\ found = FirstWith(addressed, Vpns)
    BY <1>7 DEF FindVpn
  <2>3. network \in Network /\ network.names \in Seq(Interfaces)
    BY DEF DiagnosticsTypeOK, Network
  <2>4. found # NoInterface =>
          found \in {network.names[i] : i \in DOMAIN network.names} \cap Vpns
    BY <2>2, <2>3, FirstIsListed
  <2>5. network' \in Network
    BY <2>2, <2>3, <2>4, DiagnosticsAssumption DEF Network
  <2>6. RouteFound' /\ SnapshotNamesItsOwn'
    BY <2>2, <2>3, <2>4 DEF Network, RouteFound, SnapshotNamesItsOwn
  <2>7. DiagnosticsTypeOK'
    BY <1>7, <2>5, NetworkTypesSuffice
    DEF FindVpn, Go, Collecting, DiagnosticsTypeOK, diag_log, diag_out
  <2>. QED BY <1>7, <2>1, <2>6, <2>7 DEF FindVpn, NoRouteAlert, diag_out
<1>. QED BY <1>1, <1>2, <1>3, <1>4, <1>5, <1>6, <1>7

-----------------------------------------------------------------------------
(* The logs: the snapshot of the network is not touched.                    *)

LEMMA LogsLeaveNetwork ==
  ASSUME DiagInv, UNCHANGED network
  PROVE  RouteFound' /\ SnapshotNamesItsOwn'
BY DEF DiagInv, RouteFound, SnapshotNamesItsOwn

(* A source that has no lines leaves nothing. *)
LEMMA NextSourceKeeps ==
  ASSUME DiagInv, NEW result \in Status, NextSource(result), lines_read = 0,
         diag_pc \in {"open_log", "read_log"}, UNCHANGED <<diag_net, diag_out>>
  PROVE  DiagInv'
<1>1. /\ source \in 1 .. 5 /\ silent = 1 .. source - 1 /\ logs = <<>> /\ Window \in Nat \ {0}
  BY SourcesAre
  DEF DiagInv, DiagnosticsTypeOK, LogProgress, KeptAreLatest, Over, LogLine
<1>2. silent' = 1 .. source /\ lines_read' = 0 /\ logs' = <<>> /\ log_status' = result
  BY <1>1 DEF NextSource
<1>3. \/ source < 5 /\ diag_pc' = "open_log" /\ source' = source + 1
      \/ source = 5 /\ diag_pc' = "finish" /\ source' = source
  BY <1>1, SourcesAre DEF NextSource
<1>4. DiagnosticsTypeOK'
  BY <1>1, <1>2, <1>3, SourcesAre
  DEF DiagInv, DiagnosticsTypeOK, diag_net, diag_out
<1>5. LogProgress' /\ LogsAreTheNewest'
  BY <1>1, <1>2, <1>3, SourcesAre
  DEF LogProgress, KeptAreLatest, LogsAreTheNewest, Collecting, Over
<1>. QED BY <1>4, <1>5, LogsLeaveNetwork DEF DiagInv, diag_net, diag_out, NoRouteAlert

LEMMA OpenLogKeeps ==
  ASSUME DiagInv, NEW opened \in BOOLEAN, OpenLog(opened)
  PROVE  DiagInv'
<1>1. lines_read = 0 /\ diag_pc = "open_log"
  BY DEF DiagInv, LogProgress, OpenLog, Collecting
<1>2. CASE opened
  <2>1. diag_pc' = "read_log" /\ UNCHANGED <<diag_log, diag_net, diag_out>>
    BY <1>2 DEF OpenLog
  <2>2. DiagnosticsTypeOK'
    BY <2>1 DEF DiagInv, DiagnosticsTypeOK, diag_log, diag_net, diag_out
  <2>3. LogProgress' /\ LogsAreTheNewest'
    BY <1>1, <2>1
    DEF DiagInv, LogProgress, KeptAreLatest, LogsAreTheNewest, Collecting, Over, diag_log, diag_out
  <2>. QED BY <2>1, <2>2, <2>3, LogsLeaveNetwork DEF DiagInv, diag_net, diag_out, NoRouteAlert
<1>3. CASE ~opened
  BY <1>1, <1>3, NextSourceKeeps DEF OpenLog, Status
<1>. QED BY <1>2, <1>3
(* A line read is the newest; the oldest makes room when there is none. *)
LEMMA ReadLogLineKeeps ==
  ASSUME DiagInv, ReadLogLine
  PROVE  DiagInv'
<1>1. PICK n \in Nat, line \in LogLine :
        /\ n = lines_read /\ line = [source |-> LogSources[source], line |-> n + 1]
        /\ logs' = Append(IF Len(logs) < Window THEN logs ELSE Tail(logs), line)
  BY SourcesAre
  DEF DiagInv, DiagnosticsTypeOK, ReadLogLine, AddLogLine, LogLine, Window
<1>2. /\ logs \in Seq(LogLine) /\ Window \in Nat \ {0}
      /\ Len(logs) = IF n < Window THEN n ELSE Window
      /\ \A i \in 1 .. Len(logs) :
           logs[i] = [source |-> LogSources[source], line |-> n - Len(logs) + i]
  BY <1>1, SourcesAre DEF DiagInv, DiagnosticsTypeOK, LogProgress, KeptAreLatest
<1>3. /\ diag_pc = "read_log" /\ diag_pc' = "read_log" /\ lines_read' = n + 1
      /\ UNCHANGED <<diag_net, source, log_status, silent, diag_out>>
  BY <1>1 DEF ReadLogLine
<1>4. /\ logs' \in Seq(LogLine)
      /\ Len(logs') = IF n + 1 < Window THEN n + 1 ELSE Window
      /\ \A i \in 1 .. Len(logs') :
           logs'[i] = [source |-> LogSources[source], line |-> (n + 1) - Len(logs') + i]
  <2>1. CASE Len(logs) < Window
    <3>1. logs' = Append(logs, line) /\ n = Len(logs)
      BY <1>1, <1>2, <2>1
    <3>2. /\ logs' \in Seq(LogLine) /\ Len(logs') = n + 1 /\ logs'[n + 1] = line
          /\ \A i \in 1 .. n : logs'[i] = logs[i]
      BY <1>2, <3>1
    <3>3. \A i \in 1 .. n : logs'[i].line = i /\ logs'[i] = [source |-> LogSources[source], line |-> i]
      BY <1>2, <3>1, <3>2
    <3>. QED BY <1>1, <1>2, <2>1, <3>1, <3>2, <3>3
  <2>2. CASE ~(Len(logs) < Window)
    <3>1. logs' = Append(Tail(logs), line) /\ Len(logs) = Window /\ n >= Window
      BY <1>1, <1>2, <2>2
    <3>2. /\ logs' \in Seq(LogLine) /\ Len(logs') = Window /\ logs'[Window] = line
          /\ \A i \in 1 .. Window - 1 : logs'[i] = logs[i + 1]
      BY <1>2, <3>1
    <3>3. ASSUME NEW i \in 1 .. Window - 1
          PROVE  logs'[i] = [source |-> LogSources[source], line |-> (n + 1) - Window + i]
      BY <1>2, <3>1, <3>2
    <3>4. Len(logs') = IF n + 1 < Window THEN n + 1 ELSE Window
      BY <1>2, <3>1, <3>2
    <3>5. logs'[Window] = [source |-> LogSources[source], line |-> (n + 1) - Window + Window]
      BY <1>1, <1>2, <3>2
    <3>6. ASSUME NEW i \in 1 .. Window
          PROVE  logs'[i] = [source |-> LogSources[source], line |-> (n + 1) - Window + i]
      <4>1. CASE i = Window
        BY <3>5, <4>1
      <4>2. CASE i # Window
        <5>1. i \in 1 .. Window - 1
          BY <1>2, <4>2
        <5>. QED BY <3>3, <5>1
      <4>. QED BY <4>1, <4>2
    <3>. QED BY <3>2, <3>4, <3>6
  <2>. QED BY <2>1, <2>2
<1>5. DiagnosticsTypeOK'
  BY <1>1, <1>3, <1>4 DEF DiagInv, DiagnosticsTypeOK, diag_net, diag_out
<1>6. LogProgress' /\ LogsAreTheNewest'
  BY <1>1, <1>3, <1>4
  DEF DiagInv, LogProgress, KeptAreLatest, LogsAreTheNewest, Collecting, Over
<1>. QED BY <1>3, <1>5, <1>6, LogsLeaveNetwork DEF DiagInv, diag_net, diag_out, NoRouteAlert

LEMMA EndOfLogKeeps ==
  ASSUME DiagInv, EndOfLog
  PROVE  DiagInv'
<1>1. CASE lines_read = 0
  BY <1>1, NextSourceKeeps DEF EndOfLog, Status
<1>2. CASE lines_read # 0
  <2>1. /\ diag_pc = "read_log" /\ diag_pc' = "finish" /\ log_status' = "ok"
        /\ UNCHANGED <<source, lines_read, logs, silent, diag_net, diag_out>>
    BY <1>2 DEF EndOfLog
  <2>2. DiagnosticsTypeOK'
    BY <2>1 DEF DiagInv, DiagnosticsTypeOK, diag_net, diag_out, Status
  <2>3. LogProgress' /\ LogsAreTheNewest'
    BY <1>2, <2>1
    DEF DiagInv, LogProgress, KeptAreLatest, LogsAreTheNewest, Collecting, Over
  <2>. QED BY <2>1, <2>2, <2>3, LogsLeaveNetwork DEF DiagInv, diag_net, diag_out, NoRouteAlert
<1>. QED BY <1>1, <1>2

LEMMA FinishSnapshotKeeps ==
  ASSUME DiagInv, FinishSnapshot
  PROVE  DiagInv'
<1>1. /\ diag_pc = "finish" /\ diag_pc' = "print"
      /\ status' \in Status /\ error' \in {"none", "logs"}
      /\ UNCHANGED <<readings, network, diag_log, diag_out>>
  BY DEF FinishSnapshot, Go, DiagInv, DiagnosticsTypeOK
<1>2. DiagnosticsTypeOK'
  BY <1>1 DEF DiagInv, DiagnosticsTypeOK, diag_log, diag_out
<1>3. LogProgress' /\ LogsAreTheNewest'
  BY <1>1
  DEF DiagInv, LogProgress, KeptAreLatest, LogsAreTheNewest, Collecting, Over, diag_log, diag_out
<1>. QED BY <1>1, <1>2, <1>3, LogsLeaveNetwork DEF DiagInv, diag_out, NoRouteAlert

(* The report turns what is kept around.  The alert about the route would   *)
(* need routes that were found without a default one.                       *)
LEMMA PrintReportKeeps ==
  ASSUME DiagInv, PrintReport
  PROVE  DiagInv'
<1>1. /\ diag_pc = "print" /\ diag_pc' = "printed"
      /\ alerts' = CollectAlerts /\ report' = NewestFirst
      /\ UNCHANGED <<diag_net, diag_log>>
  BY DEF PrintReport, Go
<1>2. NoRouteAlert'
  BY <1>1 DEF DiagInv, NoRouteAlert, CollectAlerts, RouteAlert, RouteFound
<1>3. /\ logs \in Seq(LogLine) /\ lines_read \in Nat /\ source \in 1 .. 5
      /\ Window \in Nat \ {0}
      /\ Len(logs) = IF lines_read < Window THEN lines_read ELSE Window
      /\ \A i \in 1 .. Len(logs) :
           logs[i] = [source |-> LogSources[source], line |-> lines_read - Len(logs) + i]
      /\ silent = 1 .. (IF lines_read = 0 THEN 5 ELSE source - 1)
  BY <1>1, SourcesAre
  DEF DiagInv, DiagnosticsTypeOK, LogProgress, KeptAreLatest, Over
<1>4. /\ report' \in Seq(LogLine) /\ Len(report') = Len(logs)
      /\ DOMAIN report' = 1 .. Len(logs)
      /\ \A i \in 1 .. Len(logs) : report'[i] = logs[Len(logs) + 1 - i]
  BY <1>1, <1>3 DEF NewestFirst
<1>5. DiagnosticsTypeOK'
  BY <1>1, <1>4
  DEF DiagInv, DiagnosticsTypeOK, diag_net, diag_log, CollectAlerts, Alerts
<1>6. LogProgress'
  BY <1>1 DEF DiagInv, LogProgress, KeptAreLatest, Collecting, Over, diag_log
<1>7. LogsAreTheNewest'
  <2>1. \A i \in 1 .. Len(logs) :
          report'[i] = [source |-> LogSources[source], line |-> lines_read + 1 - i]
    <3>. SUFFICES ASSUME NEW i \in 1 .. Len(logs)
         PROVE  report'[i] = [source |-> LogSources[source], line |-> lines_read + 1 - i]
      OBVIOUS
    <3>1. PICK k \in 1 .. Len(logs) : k = Len(logs) + 1 - i
      BY <1>3
    <3>2. report'[i] = [source |-> LogSources[source], line |-> lines_read - Len(logs) + k]
      BY <1>3, <1>4, <3>1
    <3>3. lines_read - Len(logs) + k = lines_read + 1 - i
      BY <1>3, <3>1
    <3>. QED BY <3>2, <3>3
  <2>2. UNCHANGED <<source, lines_read, logs, silent>>
    BY <1>1 DEF diag_log
  <2>3. Len(report') = IF lines_read < Window THEN lines_read ELSE Window
    BY <1>3, <1>4
  <2>. QED BY <1>3, <1>4, <2>1, <2>2, <2>3, SourcesAre DEF LogsAreTheNewest, Window
<1>. QED BY <1>1, <1>2, <1>5, <1>6, <1>7, LogsLeaveNetwork DEF DiagInv, diag_net

LEMMA DiagInvNext == DiagInv /\ [DiagnosticsNext]_<<config_vars, diag_vars>> => DiagInv'
<1>. SUFFICES ASSUME DiagInv, [DiagnosticsNext]_<<config_vars, diag_vars>> PROVE DiagInv'
  OBVIOUS
<1>1. CASE StartDiagnostics
  BY <1>1, CollectorsKeep
<1>2. CASE DiagnosticsStep
  BY <1>2, CollectorsKeep, OpenLogKeeps, ReadLogLineKeeps, EndOfLogKeeps,
     FinishSnapshotKeeps, PrintReportKeeps DEF DiagnosticsStep
<1>3. CASE UNCHANGED diag_vars
  BY <1>3
  DEF diag_vars, diag_net, diag_log, diag_out, DiagInv, DiagnosticsTypeOK, RouteFound,
      NoRouteAlert, SnapshotNamesItsOwn, LogProgress, KeptAreLatest, LogsAreTheNewest
<1>. QED BY <1>1, <1>2, <1>3 DEF DiagnosticsNext

LEMMA DiagnosticsInvariant == DiagnosticsSpec => []DiagInv
BY DiagInvInit, DiagInvNext, PTL DEF DiagnosticsSpec

(* Every variable of the diagnostics keeps its type, for logs of any length *)
(* and any window.                                                         *)
THEOREM DiagnosticsTypes == DiagnosticsSpec => []DiagnosticsTypeOK
<1>1. DiagInv => DiagnosticsTypeOK
  BY DEF DiagInv
<1>. QED BY <1>1, DiagnosticsInvariant, PTL

(* The report shows the newest lines of the first log that has any, newest  *)
(* first, for logs of any length and any window.                            *)
THEOREM ReportShowsNewest == DiagnosticsSpec => []LogsAreTheNewest
<1>1. DiagInv => LogsAreTheNewest
  BY DEF DiagInv
<1>. QED BY <1>1, DiagnosticsInvariant, PTL

(* The active interface and the VPN of the snapshot were in its list, and   *)
(* are of the right kind.                                                   *)
THEOREM SnapshotIsConsistent == DiagnosticsSpec => []SnapshotNamesItsOwn
<1>1. DiagInv => SnapshotNamesItsOwn
  BY DEF DiagInv
<1>. QED BY <1>1, DiagnosticsInvariant, PTL

(* No run of the program raises the alert about the default route.          *)
THEOREM RouteAlertIsDead == DiagnosticsSpec => []NoRouteAlert
<1>1. DiagInv => NoRouteAlert
  BY DEF DiagInv
<1>. QED BY <1>1, DiagnosticsInvariant, PTL
=============================================================================
