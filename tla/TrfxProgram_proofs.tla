------------------------- MODULE TrfxProgram_proofs -------------------------
(***************************************************************************)
(* The program is a run of each of its components: what was proved of the  *)
(* actions, of the configuration, of the diagnostics and of the lists of   *)
(* sockets by themselves holds of the commands that put them together, for *)
(* any command lines; the exit status tells what was done; and the parser  *)
(* takes exactly the command lines of the usage, of any length.            *)
(***************************************************************************)
EXTENDS TrfxProgram, TrfxActions_proofs, TrfxDiagnostics_proofs, TrfxSockets_proofs

(* A step of the program is a step of the actions or leaves them alone. *)
LEMMA StepOfActions ==
  ASSUME [ProgramNext]_all_vars
  PROVE  [Next]_vars
<1>1. CASE RunKill
  BY <1>1 DEF RunKill, Next, Action
<1>2. CASE DropFrom
  BY <1>2 DEF DropFrom, Next, Action
<1>3. CASE Act
  BY <1>3 DEF Act, Next, Action
<1>4. CASE Parse \/ RunAtOnce \/ RunInterfaces \/ RunListing \/ RunConfigured
  BY <1>4 DEF Parse, RunAtOnce, RunInterfaces, RunListing, RunConfigured
<1>5. CASE Configure \/ Configured \/ Diagnose \/ Diagnosed \/ CollectSockets
             \/ Listed \/ Done
  BY <1>5 DEF Configure, Configured, Diagnose, Diagnosed, CollectSockets, Listed, Done
<1>6. CASE Exited \/ UNCHANGED all_vars
  BY <1>6 DEF Exited, all_vars
<1>. QED BY <1>1, <1>2, <1>3, <1>4, <1>5, <1>6 DEF ProgramNext

(* Any profile with a name is loaded like any other. *)
LEMMA StepOfConfig ==
  ASSUME [ProgramNext]_all_vars
  PROVE  [ConfigNext]_config_vars
<1>1. CASE RunConfigured
  BY <1>1 DEF RunConfigured, ConfigNext
<1>2. CASE Configure
  BY <1>2 DEF Configure, ConfigStep, EndOfBase, ConfigNext
<1>3. CASE Configured
  BY <1>3 DEF Configured, ConfigNext
<1>4. CASE Parse \/ RunAtOnce \/ RunInterfaces \/ RunKill \/ RunListing
  BY <1>4 DEF Parse, RunAtOnce, RunInterfaces, RunKill, RunListing
<1>5. CASE Diagnose \/ Diagnosed \/ CollectSockets \/ Listed \/ DropFrom \/ Act \/ Done
  BY <1>5 DEF Diagnose, Diagnosed, CollectSockets, Listed, DropFrom, Act, Done
<1>6. CASE Exited \/ UNCHANGED all_vars
  BY <1>6 DEF Exited, all_vars
<1>. QED BY <1>1, <1>2, <1>3, <1>4, <1>5, <1>6 DEF ProgramNext

(* The diagnostics start in the step in which the settings are taken over. *)
LEMMA StepOfDiagnostics ==
  ASSUME [ProgramNext]_all_vars
  PROVE  [DiagnosticsNext]_<<config_vars, diag_vars>>
<1>1. CASE RunConfigured
  BY <1>1 DEF RunConfigured, ConfigNext, DiagnosticsNext
<1>2. CASE Configure
  BY <1>2 DEF Configure, ConfigStep, EndOfBase, ConfigNext, DiagnosticsNext
<1>3. CASE Configured
  BY <1>3 DEF Configured, ConfigNext, DiagnosticsNext
<1>4. CASE Diagnose
  BY <1>4 DEF Diagnose, DiagnosticsNext
<1>5. CASE Parse \/ RunAtOnce \/ RunInterfaces \/ RunKill \/ RunListing
  BY <1>5 DEF Parse, RunAtOnce, RunInterfaces, RunKill, RunListing
<1>6. CASE Diagnosed \/ CollectSockets \/ Listed \/ DropFrom \/ Act \/ Done
  BY <1>6 DEF Diagnosed, CollectSockets, Listed, DropFrom, Act, Done
<1>7. CASE Exited \/ UNCHANGED all_vars
  BY <1>7 DEF Exited, all_vars
<1>. QED BY <1>1, <1>2, <1>3, <1>4, <1>5, <1>6, <1>7 DEF ProgramNext

LEMMA StepOfSockets ==
  ASSUME [ProgramNext]_all_vars
  PROVE  [SocketsNext]_socket_vars
<1>1. CASE RunListing
  BY <1>1 DEF RunListing, SocketsNext
<1>2. CASE CollectSockets
  BY <1>2 DEF CollectSockets, SocketsNext
<1>3. CASE DropFrom
  BY <1>3 DEF DropFrom, SocketsNext
<1>4. CASE Parse \/ RunAtOnce \/ RunInterfaces \/ RunKill \/ RunConfigured
  BY <1>4 DEF Parse, RunAtOnce, RunInterfaces, RunKill, RunConfigured
<1>5. CASE Configure \/ Configured \/ Diagnose \/ Diagnosed \/ Listed \/ Act \/ Done
  BY <1>5 DEF Configure, Configured, Diagnose, Diagnosed, Listed, Act, Done
<1>6. CASE Exited \/ UNCHANGED all_vars
  BY <1>6 DEF Exited, all_vars
<1>. QED BY <1>1, <1>2, <1>3, <1>4, <1>5, <1>6 DEF ProgramNext

(* The program implements each of its components: whatever the command      *)
(* line is, it does nothing to the variables of a component that the        *)
(* component by itself would not do.                                        *)
THEOREM ProgramImplementsParts ==
  ProgramSpec => Spec /\ ConfigSpec /\ DiagnosticsSpec /\ SocketsSpec
<1>1. ProgramInit => Init /\ ConfigInit /\ DiagnosticsInit /\ SocketsInit
  BY DEF ProgramInit
<1>. QED BY <1>1, StepOfActions, StepOfConfig, StepOfDiagnostics, StepOfSockets, PTL
     DEF ProgramSpec, Spec, ConfigSpec, DiagnosticsSpec, SocketsSpec

(* The actions and the audit trail keep their promises in the program. *)
THEOREM ProgramActsWell ==
  ProgramSpec => /\ []TypeOK /\ []HeldEntryIntact
                 /\ []ResultIsNewest /\ []ReviewForetells
                 /\ OnlyWhenConfirmed /\ AuditIsLog
BY ProgramImplementsParts, ActionsTypes, HeldEntryStaysIntact, ResultIsRecorded,
   ReviewIsHonest, ActsOnlyWhenConfirmed, TrailIsLog, PTL

(* So do the configuration, the diagnostics and the lists of sockets. *)
THEOREM ProgramReportsWell ==
  ProgramSpec => /\ []SettingsAreTheLastWord
                 /\ []LogsAreTheNewest
                 /\ []ListingIsFaithful
BY ProgramImplementsParts, LastWordDecides, ReportShowsNewest, ListingsAreFaithful, PTL

-----------------------------------------------------------------------------
(* The exit status.                                                        *)

(* Which commands a phase belongs to. *)
PhaseFits ==
  /\ phase \in {"parse", "dispatch", "config", "diagnose", "collect", "action", "exited"}
  /\ tui = (IF phase = "parse" THEN ParseCli(argv).mode = "tui" ELSE options.mode = "tui")
  /\ phase = "config" => options.mode \in {"tui", "diagnostics"}
  /\ phase = "diagnose" => options.mode = "diagnostics"
  /\ phase = "collect" => options.mode \in {"connections", "listeners", "drop"}
  /\ phase = "action" => options.mode \in {"tui", "kill", "drop"}

(* Nothing is acted upon before the phase of actions. *)
NothingActed == phase \notin {"action", "exited"} => apc = "idle" /\ ~acted

(* A refused profile is dealt with where it was refused. *)
RefusedInConfig ==
  config_pc = "refused" => phase = "config" \/ (phase = "exited" /\ exit_status = "error")

StatusInv ==
  /\ PhaseFits /\ NothingActed /\ RefusedInConfig /\ StatusMeansDone

LEMMA StatusInit == ProgramInit => StatusInv
BY DEF ProgramInit, Init, ConfigInit, StatusInv, PhaseFits, NothingActed, RefusedInConfig,
       StatusMeansDone, OkMeansDone

(* A step that acts upon nothing, from a phase that acts upon nothing. *)
LEMMA QuietKeeps ==
  ASSUME StatusInv, acted \in BOOLEAN, UNCHANGED vars,
         phase \notin {"action", "exited"}, PhaseFits', RefusedInConfig',
         phase' = "exited" =>
           /\ options'.mode \in {"kill", "drop"} => exit_status' # "ok"
           /\ options'.mode = "invalid" \/ config_pc' = "refused" => exit_status' = "error"
           /\ exit_status' = "data_unavailable" =>
                options'.mode \in {"interfaces", "kill", "drop"}
  PROVE  StatusInv'
<1>1. UNCHANGED <<apc, acted, result, exit_code>>
  BY DEF vars, action
<1>. QED BY <1>1 DEF StatusInv, NothingActed, StatusMeansDone, OkMeansDone

LEMMA TuiKept == ASSUME UNCHANGED vars PROVE UNCHANGED tui
BY DEF vars

LEMMA CommandsKeepStatus ==
  ASSUME StatusInv, acted \in BOOLEAN,
         Parse \/ RunAtOnce \/ RunInterfaces \/ RunListing \/ RunConfigured
  PROVE  StatusInv'
<1>. USE DEF PhaseFits, RefusedInConfig, Enter, Exit, Dispatch
<1>0. StatusInv => PhaseFits /\ RefusedInConfig
  BY DEF StatusInv
<1>1. CASE Parse
  <2>1. PhaseFits' /\ RefusedInConfig'
    BY <1>0, <1>1, TuiKept DEF Parse, config_vars
  <2>. QED BY <1>1, <2>1, QuietKeeps DEF Parse
<1>2. CASE RunAtOnce
  <2>1. PhaseFits' /\ RefusedInConfig'
    BY <1>0, <1>2, TuiKept DEF RunAtOnce, config_vars
  <2>2. config_pc' # "refused"
    BY <1>0, <1>2 DEF RunAtOnce, config_vars
  <2>. QED BY <1>2, <2>1, <2>2, QuietKeeps DEF RunAtOnce
<1>3. CASE RunInterfaces
  <2>1. PhaseFits' /\ RefusedInConfig' /\ config_pc' # "refused"
    BY <1>0, <1>3, TuiKept DEF RunInterfaces, config_vars
  <2>. QED BY <1>3, <2>1, QuietKeeps DEF RunInterfaces
<1>4. CASE RunListing
  <2>1. PhaseFits' /\ RefusedInConfig'
    BY <1>0, <1>4, TuiKept DEF RunListing, config_vars
  <2>. QED BY <1>4, <2>1, QuietKeeps DEF RunListing
<1>5. CASE RunConfigured
  <2>1. PhaseFits' /\ RefusedInConfig'
    BY <1>0, <1>5, TuiKept DEF RunConfigured, LoadConfig
  <2>. QED BY <1>5, <2>1, QuietKeeps DEF RunConfigured
<1>. QED BY <1>1, <1>2, <1>3, <1>4, <1>5

LEMMA CollectionsKeepStatus ==
  ASSUME StatusInv, acted \in BOOLEAN,
         Configure \/ Configured \/ Diagnose \/ Diagnosed \/ CollectSockets \/ Listed
  PROVE  StatusInv'
<1>. USE DEF PhaseFits, RefusedInConfig, Enter, Exit, same, program_vars
<1>0. StatusInv => PhaseFits /\ RefusedInConfig
  BY DEF StatusInv
<1>1. CASE Configure
  <2>1. PhaseFits' /\ RefusedInConfig'
    BY <1>0, <1>1, TuiKept DEF Configure
  <2>. QED BY <1>1, <2>1, QuietKeeps DEF Configure
<1>2. CASE Configured /\ config_pc = "refused"
  <2>1. PhaseFits' /\ RefusedInConfig' /\ phase' = "exited" /\ exit_status' = "error"
    BY <1>0, <1>2, TuiKept DEF Configured, UseSettings
  <2>. QED BY <1>0, <1>2, <2>1, QuietKeeps DEF Configured
<1>3. CASE Configured /\ config_pc # "refused" /\ options.mode = "diagnostics"
  <2>1. /\ phase' = "diagnose" /\ config_pc' = "in_use" /\ UNCHANGED <<vars, options, argv>>
        /\ phase = "config"
    BY <1>3 DEF Configured, UseSettings
  <2>2. PhaseFits' /\ RefusedInConfig'
    BY <1>0, <1>3, <2>1, TuiKept
  <2>. QED BY <2>1, <2>2, QuietKeeps
<1>4. CASE Configured /\ config_pc # "refused" /\ options.mode = "tui"
  <2>1. /\ phase' = "action" /\ config_pc' = "in_use" /\ UNCHANGED <<vars, options, argv>>
        /\ phase = "config"
    BY <1>4 DEF Configured, UseSettings
  <2>2. PhaseFits' /\ RefusedInConfig'
    BY <1>0, <1>4, <2>1, TuiKept
  <2>. QED BY <2>1, <2>2, QuietKeeps
<1>5. CASE Diagnose
  <2>1. PhaseFits' /\ RefusedInConfig'
    BY <1>0, <1>5, TuiKept DEF Diagnose, config_vars
  <2>. QED BY <1>5, <2>1, QuietKeeps DEF Diagnose
<1>6. CASE Diagnosed
  <2>1. PhaseFits' /\ RefusedInConfig' /\ config_pc' # "refused"
    BY <1>0, <1>6, TuiKept DEF Diagnosed, config_vars
  <2>. QED BY <1>0, <1>6, <2>1, QuietKeeps DEF Diagnosed
<1>7. CASE CollectSockets
  <2>1. PhaseFits' /\ RefusedInConfig'
    BY <1>0, <1>7, TuiKept DEF CollectSockets, config_vars
  <2>. QED BY <1>7, <2>1, QuietKeeps DEF CollectSockets
<1>8. CASE Listed
  <2>1. PhaseFits' /\ RefusedInConfig' /\ config_pc' # "refused"
    BY <1>0, <1>8, TuiKept DEF Listed, config_vars
  <2>. QED BY <1>0, <1>8, <2>1, QuietKeeps DEF Listed
<1>9. Configured => options.mode \in {"tui", "diagnostics"}
  BY <1>0 DEF Configured
<1>. QED BY <1>1, <1>2, <1>3, <1>4, <1>5, <1>6, <1>7, <1>8, <1>9

(* The steps that act, given how the actions keep account of what was done. *)
LEMMA ActionsKeepStatus ==
  ASSUME StatusInv, TypeOK, OutcomeInv, OutcomeInv', RunKill \/ DropFrom \/ Act \/ Done
  PROVE  StatusInv'
<1>. USE DEF PhaseFits, RefusedInConfig, Enter, Exit, same, program_vars
<1>0. /\ PhaseFits /\ RefusedInConfig /\ acted \in BOOLEAN
      /\ phase \notin {"action", "exited"} => apc = "idle" /\ ~acted
      /\ OkMeansDone'
  BY DEF StatusInv, NothingActed, TypeOK, OutcomeInv
<1>1. CASE RunKill /\ options.pid \in Targets
  <2>1. /\ phase = "dispatch" /\ phase' = "action" /\ options' = options
        /\ options.mode = "kill" /\ UNCHANGED <<tui, config_pc>>
    BY <1>1 DEF RunKill, Dispatch, BeginKill, Begin, config_vars
  <2>. QED BY <1>0, <2>1 DEF StatusInv, NothingActed, StatusMeansDone
<1>2. CASE RunKill /\ options.pid \notin Targets
  <2>1. PhaseFits' /\ RefusedInConfig' /\ config_pc' # "refused"
    BY <1>0, <1>2, TuiKept DEF RunKill, Dispatch, config_vars
  <2>. QED BY <1>0, <1>2, <2>1, QuietKeeps DEF RunKill, Dispatch
<1>3. CASE DropFrom /\ DropTargets = {}
  <2>1. /\ phase = "collect" /\ phase' = "exited" /\ options' = options
        /\ options.mode = "drop" /\ exit_status' = "data_unavailable"
        /\ UNCHANGED <<tui, config_pc, acted>>
    BY <1>3 DEF DropFrom, DropTargetNotFound, CliExit, config_vars
  <2>. QED BY <1>0, <2>1 DEF StatusInv, NothingActed, StatusMeansDone
<1>4. CASE DropFrom /\ DropTargets # {}
  <2>1. /\ phase = "collect" /\ phase' = "action" /\ options' = options
        /\ options.mode = "drop" /\ UNCHANGED <<tui, config_pc>>
    BY <1>4 DEF DropFrom, BeginDrop, Begin, config_vars
  <2>. QED BY <1>0, <2>1 DEF StatusInv, NothingActed, StatusMeansDone
<1>5. CASE Act
  <2>1. UNCHANGED tui
    BY <1>5
    DEF Act, Environment, ProcessEnds, ProcessStarts, View, StartView, TestCount, EntryAt,
        PrintEntry, main, BeginKill, BeginDrop, Begin, Lookup, Review, Execute, Signal,
        RunSsDrop, Report
  <2>2. /\ phase = "action" /\ phase' = "action" /\ options' = options
        /\ UNCHANGED config_pc
    BY <1>5 DEF Act, config_vars
  <2>. QED BY <1>0, <2>1, <2>2 DEF StatusInv, NothingActed, StatusMeansDone
<1>6. CASE Done
  <2>1. /\ phase = "action" /\ phase' = "exited" /\ options' = options
        /\ UNCHANGED <<config_pc, apc, acted, tui, exit_code>>
    BY <1>6 DEF Done, config_vars, vars, action
  <2>2. CASE apc = "exited" /\ exit_status' = exit_code
    BY <1>0, <2>1, <2>2 DEF StatusInv, NothingActed, StatusMeansDone, OutcomeInv, OkMeansDone
  <2>3. CASE tui /\ exit_status' = "ok"
    BY <1>0, <2>1, <2>3 DEF StatusInv, NothingActed, StatusMeansDone
  <2>. QED BY <1>6, <2>2, <2>3 DEF Done
<1>. QED BY <1>1, <1>2, <1>3, <1>4, <1>5, <1>6

(* Whatever the command line, the configuration and the machine are like:   *)
(* kill and drop succeed exactly when they did what was asked, refused      *)
(* arguments and profiles are errors, and missing data is told from both.   *)
THEOREM StatusTellsWhatWasDone == ProgramSpec => []StatusMeansDone
<1>1. StatusInv /\ TypeOK /\ OutcomeInv /\ OutcomeInv' /\ [ProgramNext]_all_vars => StatusInv'
  <2>. SUFFICES ASSUME StatusInv, TypeOK, OutcomeInv, OutcomeInv', [ProgramNext]_all_vars
       PROVE  StatusInv'
    OBVIOUS
  <2>1. acted \in BOOLEAN
    BY DEF TypeOK
  <2>2. CASE Exited \/ UNCHANGED all_vars
    <3>1. UNCHANGED <<phase, exit_status, options, argv, config_pc, tui, apc, acted, result,
                      exit_code>>
      BY <2>2 DEF Exited, all_vars, program_vars, config_vars, vars, action
    <3>. QED BY <3>1 DEF StatusInv, PhaseFits, NothingActed, RefusedInConfig,
                         StatusMeansDone, OkMeansDone
  <2>. QED BY <2>1, <2>2, CommandsKeepStatus, CollectionsKeepStatus, ActionsKeepStatus
       DEF ProgramNext
<1>2. StatusInv => StatusMeansDone
  BY DEF StatusInv
<1>. QED BY <1>1, <1>2, StatusInit, ProgramImplementsParts, ActionsTypes, OutcomeInvariant,
            PTL DEF ProgramSpec

-----------------------------------------------------------------------------
(* The command line.                                                       *)

(* Strings; that the literals of the parser are among them is spelled out,  *)
(* for the provers do not know it.                                          *)
Texts ==
  STRING \cup Commands
    \cup {Unset, "tui", "help", "version", "invalid", "TCP", "UDP"}

LEMMA UnsetIsNoWord ==
  Unset \notin StateFilters
             \cup {"TCP", "UDP", "--json", "--proto", "--state", "connection", "socket"}
BY Zenon DEF Unset, StateFilters

(* The options as they are parsed, and the scan of the options that follow  *)
(* a command.                                                               *)
OptionRecords ==
  [mode : Texts, json : BOOLEAN, proto : Texts, state : Texts, pid : Texts,
   drop_kind : Texts, local : Texts, remote : Texts, profile : Texts,
   confirmed : BOOLEAN]

Scans == [options : OptionRecords, awaiting : {Unset} \cup TakesValue]

AllOptions == {"--json"} \cup TakesValue

(* The scan has met this option, and maybe not yet its value. *)
Met(scan, option) ==
  \/ option = "--json" /\ scan.options.json
  \/ option = "--proto" /\ (scan.awaiting = option \/ scan.options.proto # Unset)
  \/ option = "--state" /\ (scan.awaiting = option \/ scan.options.state # Unset)

(* The scan t takes up where s left, with one more option or with none. *)
Carries(s, t, new) ==
  /\ t.options.mode = s.options.mode
  /\ \A option \in AllOptions : Met(t, option) <=> Met(s, option) \/ option \in new

(* What the parser sets in the options, and what it leaves alone. *)
LEMMA JsonSet ==
  ASSUME NEW o \in OptionRecords, NEW b \in BOOLEAN
  PROVE  LET r == [o EXCEPT !.json = b]
         IN  /\ r \in OptionRecords /\ r.json = b /\ r.mode = o.mode
             /\ r.proto = o.proto /\ r.state = o.state /\ r.drop_kind = o.drop_kind
BY DEF OptionRecords

LEMMA ModeSet ==
  ASSUME NEW o \in OptionRecords, NEW x \in Texts
  PROVE  LET r == [o EXCEPT !.mode = x]
         IN  /\ r \in OptionRecords /\ r.mode = x /\ r.json = o.json
             /\ r.proto = o.proto /\ r.state = o.state /\ r.drop_kind = o.drop_kind
BY DEF OptionRecords

LEMMA ProtoSet ==
  ASSUME NEW o \in OptionRecords, NEW x \in Texts
  PROVE  LET r == [o EXCEPT !.proto = x]
         IN  /\ r \in OptionRecords /\ r.proto = x /\ r.json = o.json
             /\ r.mode = o.mode /\ r.state = o.state /\ r.drop_kind = o.drop_kind
BY DEF OptionRecords

LEMMA StateSet ==
  ASSUME NEW o \in OptionRecords, NEW x \in Texts
  PROVE  LET r == [o EXCEPT !.state = x]
         IN  /\ r \in OptionRecords /\ r.state = x /\ r.json = o.json
             /\ r.mode = o.mode /\ r.proto = o.proto /\ r.drop_kind = o.drop_kind
BY DEF OptionRecords

LEMMA ScanIs ==
  ASSUME NEW o \in OptionRecords, NEW a \in {Unset} \cup TakesValue
  PROVE  LET s == [options |-> o, awaiting |-> a]
         IN  s \in Scans /\ s.options = o /\ s.awaiting = a
BY DEF Scans

(* A word is taken as an option if the command has it and it is new. *)
LEMMA FlagTaken ==
  ASSUME NEW s \in Scans, s.awaiting = Unset, s.options.mode # "invalid", NEW word \in Texts
  PROVE  LET t == Flag(s, word)
         IN  /\ t \in Scans /\ t.options.drop_kind = s.options.drop_kind
             /\ t.options.mode # "invalid" <=> word \in OptionsOf(s.options.mode) /\ ~Met(s, word)
             /\ t.options.mode # "invalid" =>
                  /\ t.awaiting = IF word \in TakesValue THEN word ELSE Unset
                  /\ Carries(s, t, {word})
<1> DEFINE o == s.options
           t == Flag(s, word)
           value == IF word = "--proto" THEN o.proto ELSE o.state
<1>0. o \in OptionRecords
  BY DEF Scans
<1>1. CASE word = "--json" /\ ~o.json
  <2> DEFINE r == [o EXCEPT !.json = TRUE]
  <2>1. t = [s EXCEPT !.options.json = TRUE]
    BY <1>1 DEF Flag
  <2>2. t = [options |-> r, awaiting |-> Unset]
    BY <1>0, <2>1 DEF Scans
  <2>3. /\ r \in OptionRecords /\ r.json /\ r.mode = o.mode
        /\ r.proto = o.proto /\ r.state = o.state /\ r.drop_kind = o.drop_kind
    BY <1>0, JsonSet
  <2>. HIDE DEF r, t, o
  <2>4. t \in Scans /\ t.options = r /\ t.awaiting = Unset
    BY <2>2, <2>3, ScanIs
  <2>. USE DEF o
  <2>5. Carries(s, t, {word})
    BY <1>1, <2>3, <2>4 DEF Met, Carries, AllOptions, TakesValue
  <2>6. word \in OptionsOf(o.mode) /\ ~Met(s, word) /\ word \notin TakesValue
    BY <1>1 DEF OptionsOf, Met, TakesValue
  <2>. QED BY <2>3, <2>4, <2>5, <2>6 DEF t
<1>2. CASE word \in TakesValue /\ o.mode = "connections" /\ value = Unset
  <2>1. t = [s EXCEPT !.awaiting = word]
    BY <1>2 DEF Flag, TakesValue
  <2>2. t = [options |-> o, awaiting |-> word]
    BY <1>0, <2>1 DEF Scans
  <2>. HIDE DEF t, o
  <2>3. t \in Scans /\ t.options = o /\ t.awaiting = word
    BY <1>0, <1>2, <2>2, ScanIs
  <2>. USE DEF o
  <2>4. Carries(s, t, {word})
    BY <1>2, <2>3, UnsetIsNoWord DEF Met, Carries, AllOptions, TakesValue
  <2>5. word \in OptionsOf(o.mode) /\ ~Met(s, word)
    BY <1>2, UnsetIsNoWord DEF OptionsOf, Met, TakesValue
  <2>. QED BY <1>2, <2>3, <2>4, <2>5 DEF t
<1>3. CASE /\ ~(word = "--json" /\ ~o.json)
           /\ ~(word \in TakesValue /\ o.mode = "connections" /\ value = Unset)
  <2> DEFINE r == Invalid(o)
  <2>1. t = [s EXCEPT !.options = r]
    BY <1>3 DEF Flag, TakesValue
  <2>2. t = [options |-> r, awaiting |-> Unset]
    BY <1>0, <2>1 DEF Scans
  <2>3. r \in OptionRecords /\ r.mode = "invalid" /\ r.drop_kind = o.drop_kind
    <3>1. "invalid" \in Texts
      BY DEF Texts
    <3>. QED BY <1>0, <3>1, ModeSet DEF Invalid
  <2>. HIDE DEF r, t, o
  <2>4. t \in Scans /\ t.options = r /\ t.awaiting = Unset
    BY <2>2, <2>3, ScanIs
  <2>. USE DEF o
  <2>5. ~(word \in OptionsOf(o.mode) /\ ~Met(s, word))
    BY <1>3 DEF OptionsOf, Met, TakesValue
  <2>. QED BY <2>3, <2>4, <2>5 DEF t
<1>. QED BY <1>1, <1>2, <1>3

(* A word is taken as a value if the option that awaits one admits it. *)
LEMMA ValueTaken ==
  ASSUME NEW s \in Scans, s.awaiting # Unset, s.options.mode # "invalid", NEW word \in Texts
  PROVE  LET t == FlagValue(s, word)
         IN  /\ t \in Scans /\ t.options.drop_kind = s.options.drop_kind
             /\ t.options.mode # "invalid" <=> word \in ValuesOf(s.awaiting)
             /\ t.options.mode # "invalid" => t.awaiting = Unset /\ Carries(s, t, {})
<1> DEFINE o == s.options
           t == FlagValue(s, word)
<1>0. o \in OptionRecords /\ s.awaiting \in TakesValue
  BY DEF Scans
<1>1. CASE s.awaiting = "--proto" /\ word \in Tcp \cup Udp
  <2> DEFINE r == [o EXCEPT !.proto = ProtoOf(word)]
  <2>1. t = [options |-> r, awaiting |-> Unset]
    BY <1>1 DEF FlagValue
  <2>2. ProtoOf(word) \in Texts /\ ProtoOf(word) # Unset
    <3>1. "TCP" \in Texts /\ "UDP" \in Texts /\ "TCP" # Unset /\ "UDP" # Unset
      BY UnsetIsNoWord DEF Texts
    <3>. QED BY <3>1, Zenon DEF ProtoOf
  <2>3. /\ r \in OptionRecords /\ r.json = o.json /\ r.mode = o.mode
        /\ r.proto # Unset /\ r.state = o.state /\ r.drop_kind = o.drop_kind
    BY <1>0, <2>2, ProtoSet
  <2>. HIDE DEF r, t, o
  <2>4. t \in Scans /\ t.options = r /\ t.awaiting = Unset
    BY <2>1, <2>3, ScanIs
  <2>. USE DEF o
  <2>5. Carries(s, t, {})
    BY <1>1, <2>3, <2>4, UnsetIsNoWord DEF Met, Carries, AllOptions, TakesValue
  <2>6. word \in ValuesOf(s.awaiting)
    BY <1>1 DEF ValuesOf
  <2>. QED BY <2>3, <2>4, <2>5, <2>6 DEF t
<1>2. CASE s.awaiting = "--state" /\ word \in StateFilters
  <2> DEFINE r == [o EXCEPT !.state = word]
  <2>1. t = [options |-> r, awaiting |-> Unset]
    BY <1>2 DEF FlagValue
  <2>2. word # Unset
    BY <1>2, UnsetIsNoWord
  <2>3. /\ r \in OptionRecords /\ r.json = o.json /\ r.mode = o.mode
        /\ r.proto = o.proto /\ r.state = word /\ r.drop_kind = o.drop_kind
    BY <1>0, StateSet
  <2>. HIDE DEF r, t, o
  <2>4. t \in Scans /\ t.options = r /\ t.awaiting = Unset
    BY <2>1, <2>3, ScanIs
  <2>. USE DEF o
  <2>5. Carries(s, t, {})
    BY <1>2, <2>2, <2>3, <2>4, UnsetIsNoWord DEF Met, Carries, AllOptions, TakesValue
  <2>6. word \in ValuesOf(s.awaiting)
    BY <1>2 DEF ValuesOf
  <2>. QED BY <2>3, <2>4, <2>5, <2>6 DEF t
<1>3. CASE /\ ~(s.awaiting = "--proto" /\ word \in Tcp \cup Udp)
           /\ ~(s.awaiting = "--state" /\ word \in StateFilters)
  <2> DEFINE r == Invalid(o)
  <2>1. t = [s EXCEPT !.options = r]
    BY <1>3 DEF FlagValue
  <2>2. t = [options |-> r, awaiting |-> s.awaiting]
    BY <1>0, <2>1 DEF Scans
  <2>3. r \in OptionRecords /\ r.mode = "invalid" /\ r.drop_kind = o.drop_kind
    <3>1. "invalid" \in Texts
      BY DEF Texts
    <3>. QED BY <1>0, <3>1, ModeSet DEF Invalid
  <2>. HIDE DEF r, t, o
  <2>4. t \in Scans /\ t.options = r
    BY <1>0, <2>2, <2>3, ScanIs
  <2>. USE DEF o
  <2>5. word \notin ValuesOf(s.awaiting)
    BY <1>0, <1>3 DEF ValuesOf, TakesValue
  <2>. QED BY <2>3, <2>4, <2>5 DEF t
<1>. QED BY <1>1, <1>2, <1>3

(* Induction, with the numbers for which a statement holds collected in G. *)
LEMMA NumberInduction ==
  ASSUME NEW G, 0 \in G, \A n \in Nat : n \in G => n + 1 \in G
  PROVE  Nat \subseteq G
<1> DEFINE bad == Nat \ G
<1>. SUFFICES ASSUME bad # {} PROVE FALSE
  OBVIOUS
<1>1. PICK n \in bad : \A m \in bad : <<m, n>> \notin OpToRel(<, Nat)
  <2>1. bad \subseteq Nat
    OBVIOUS
  <2>. QED BY <2>1, WFMin, NatLessThanWellFounded, Zenon
<1>2. \A m \in bad : ~(m < n)
  BY <1>1, Zenon DEF OpToRel
<1>3. n \in Nat /\ n # 0
  BY <1>1
<1>4. n - 1 \in Nat /\ n - 1 < n /\ (n - 1) + 1 = n
  BY <1>3
<1>5. n - 1 \in G
  BY <1>2, <1>4
<1>. QED BY <1>1, <1>4, <1>5

(* The scan of the first m words. *)
IsScan(scan, o, rest, m) ==
  scan = [n \in 0 .. m |-> IF n = 0 THEN [options |-> o, awaiting |-> Unset]
                                    ELSE ScanFlag(scan[n - 1], rest[n])]

LEMMA ScanExists ==
  ASSUME NEW o, NEW rest, NEW m \in Nat
  PROVE  \E scan : IsScan(scan, o, rest, m)
<1> DEFINE Step(scan, n) == IF n = 0 THEN [options |-> o, awaiting |-> Unset]
                                     ELSE ScanFlag(scan[n - 1], rest[n])
           G == {k \in Nat : \E scan : scan = [n \in 0 .. k |-> Step(scan, n)]}
<1>1. 0 \in G
  <2> DEFINE scan == [n \in 0 .. 0 |-> [options |-> o, awaiting |-> Unset]]
  <2>1. \A n \in 0 .. 0 : Step(scan, n) = [options |-> o, awaiting |-> Unset]
    OBVIOUS
  <2>2. scan = [n \in 0 .. 0 |-> Step(scan, n)]
    <3>. HIDE DEF Step
    <3>. QED BY <2>1
  <2>. HIDE DEF scan, Step
  <2>. QED BY <2>2
<1>2. ASSUME NEW k \in Nat, k \in G PROVE k + 1 \in G
  <2>1. PICK scan : scan = [n \in 0 .. k |-> Step(scan, n)]
    BY <1>2
  <2> DEFINE next == [n \in 0 .. k + 1 |-> Step(scan, n)]
  <2>2. ASSUME NEW n \in 0 .. k PROVE next[n] = scan[n]
    <3>. HIDE DEF Step
    <3>. QED BY <2>1
  <2>3. ASSUME NEW n \in 0 .. k + 1 PROVE Step(scan, n) = Step(next, n)
    <3>1. CASE n = 0
      BY <3>1
    <3>2. CASE n # 0
      <4>1. n - 1 \in 0 .. k
        BY <3>2
      <4>2. next[n - 1] = scan[n - 1]
        <5>. HIDE DEF next
        <5>. QED BY <2>2, <4>1
      <4>. HIDE DEF next
      <4>. QED BY <3>2, <4>2
    <3>. QED BY <3>1, <3>2
  <2>4. next = [n \in 0 .. k + 1 |-> Step(next, n)]
    <3>1. next = [n \in 0 .. k + 1 |-> Step(scan, n)]
      OBVIOUS
    <3>. HIDE DEF next, Step
    <3>. QED BY <2>3, <3>1
  <2>. HIDE DEF next, Step
  <2>. QED BY <2>4
<1>3. m \in G
  <2>1. Nat \subseteq G
    <3>. HIDE DEF G
    <3>. QED BY <1>1, <1>2, NumberInduction
  <2>. QED BY <2>1
<1>. QED BY <1>3 DEF IsScan

(* What the scan of the parser is, word by word. *)
LEMMA ScanFlagsIs ==
  ASSUME NEW o, NEW rest, Len(rest) \in Nat
  PROVE  \E scan :
           /\ scan[0] = [options |-> o, awaiting |-> Unset]
           /\ \A n \in 1 .. Len(rest) : scan[n] = ScanFlag(scan[n - 1], rest[n])
           /\ ScanFlags(o, rest) = LET last == scan[Len(rest)]
                                   IN  IF last.awaiting = Unset THEN last.options
                                                             ELSE Invalid(last.options)
<1> DEFINE m == Len(rest)
           scan == CHOOSE s : IsScan(s, o, rest, m)
<1>1. IsScan(scan, o, rest, m)
  <2>1. \E s : IsScan(s, o, rest, m)
    BY ScanExists
  <2>. QED BY <2>1
<1>2. ScanFlags(o, rest) = LET last == scan[m]
                           IN  IF last.awaiting = Unset THEN last.options
                                                     ELSE Invalid(last.options)
  BY DEF ScanFlags, IsScan
<1>. HIDE DEF scan
<1>3. scan = [n \in 0 .. m |-> IF n = 0 THEN [options |-> o, awaiting |-> Unset]
                                        ELSE ScanFlag(scan[n - 1], rest[n])]
  BY <1>1 DEF IsScan
<1>4. scan[0] = [options |-> o, awaiting |-> Unset]
  <2>1. 0 \in 0 .. m
    OBVIOUS
  <2>. QED BY <1>3, <2>1
<1>5. ASSUME NEW n \in 1 .. m PROVE scan[n] = ScanFlag(scan[n - 1], rest[n])
  <2>1. n \in 0 .. m /\ n # 0
    OBVIOUS
  <2>. QED BY <1>3, <2>1
<1>. QED BY <1>2, <1>4, <1>5

(* The scan s follows a reading of the first n words, in which those at the *)
(* places of `at' are options and the others values.                        *)
Follows(s, at, rest, n) ==
  /\ s \in Scans
  /\ s.awaiting = IF n \in at /\ rest[n] \in TakesValue THEN rest[n] ELSE Unset
  /\ \A option \in AllOptions : Met(s, option) <=> \E i \in at : i <= n /\ rest[i] = option

(* Word n is an option of the command, and new, or the value of the option  *)
(* before it.                                                               *)
OptionAt(command, at, rest, n) ==
  n \in at /\ rest[n] \in OptionsOf(command) /\ \A i \in at : i < n => rest[i] # rest[n]

ValueAt(at, rest, n) ==
  n \notin at /\ n - 1 \in at /\ rest[n - 1] \in TakesValue /\ rest[n] \in ValuesOf(rest[n - 1])

LEMMA Before ==
  ASSUME NEW i \in Nat, NEW n \in Nat
  PROVE  (i <= n - 1 <=> i < n) /\ (i <= n <=> i < n \/ i = n)
OBVIOUS

(* The scan has followed the reading up to word n. *)
MayGoOn(s, at, rest, n) ==
  /\ at \in SUBSET Nat /\ n \in Nat \ {0} /\ rest[n] \in Texts
  /\ Follows(s, at, rest, n - 1) /\ s.options.mode # "invalid"
  /\ n \in at <=> s.awaiting = Unset

(* A scan that follows a reading takes the next word exactly when it has a  *)
(* place in the reading, and then follows on.                               *)
LEMMA ScanStep ==
  ASSUME NEW at, NEW rest, NEW n, NEW s, MayGoOn(s, at, rest, n)
  PROVE  LET t == ScanFlag(s, rest[n])
             c == s.options.mode
         IN  /\ t.options.mode # "invalid" <=> OptionAt(c, at, rest, n) \/ ValueAt(at, rest, n)
             /\ t.options.mode # "invalid" => /\ Follows(t, at, rest, n) /\ t.options.mode = c
                                             /\ t.options.drop_kind = s.options.drop_kind
<1>. USE DEF MayGoOn
<1> DEFINE t == ScanFlag(s, rest[n])
           c == s.options.mode
           w == rest[n]
<1>0. /\ s \in Scans /\ w \in Texts
      /\ s.awaiting = IF n - 1 \in at /\ rest[n - 1] \in TakesValue THEN rest[n - 1] ELSE Unset
      /\ \A option \in AllOptions :
           Met(s, option) <=> \E i \in at : i <= n - 1 /\ rest[i] = option
  BY DEF Follows
<1>1. ASSUME NEW i \in at
      PROVE  (i <= n - 1 <=> i < n) /\ (i <= n <=> i < n \/ i = n)
  BY Before
<1>2. CASE n \in at
  <2>1. s.awaiting = Unset /\ t = Flag(s, w)
    BY <1>2 DEF ScanFlag
  <2>2. /\ t \in Scans /\ t.options.drop_kind = s.options.drop_kind
        /\ t.options.mode # "invalid" <=> w \in OptionsOf(c) /\ ~Met(s, w)
        /\ t.options.mode # "invalid" =>
             /\ t.awaiting = IF w \in TakesValue THEN w ELSE Unset
             /\ Carries(s, t, {w})
    <3>. HIDE DEF w
    <3>1. LET u == Flag(s, w)
          IN  /\ u \in Scans /\ u.options.drop_kind = s.options.drop_kind
              /\ u.options.mode # "invalid" <=> w \in OptionsOf(c) /\ ~Met(s, w)
              /\ u.options.mode # "invalid" =>
                   u.awaiting = (IF w \in TakesValue THEN w ELSE Unset) /\ Carries(s, u, {w})
      BY <1>0, <2>1, FlagTaken
    <3>. HIDE DEF t
    <3>. QED BY <2>1, <3>1
  <2>. HIDE DEF t, c, w
  <2>3. w \in OptionsOf(c) => w \in AllOptions
    BY DEF OptionsOf, AllOptions
  <2>4. t.options.mode # "invalid" <=> OptionAt(c, at, rest, n)
    BY <1>0, <1>1, <1>2, <2>2, <2>3 DEF OptionAt, w
  <2>5. ~ValueAt(at, rest, n)
    BY <1>2 DEF ValueAt
  <2>6. ASSUME t.options.mode # "invalid" PROVE Follows(t, at, rest, n) /\ t.options.mode = c
    <3>1. Carries(s, t, {w}) /\ t.awaiting = IF w \in TakesValue THEN w ELSE Unset
      BY <2>2, <2>6
    <3>2. ASSUME NEW option \in AllOptions
          PROVE  Met(t, option) <=> \E i \in at : i <= n /\ rest[i] = option
      <4>1. Met(t, option) <=> Met(s, option) \/ option = w
        BY <3>1 DEF Carries
      <4>2. Met(s, option) <=> \E i \in at : i < n /\ rest[i] = option
        BY <1>0, <1>1
      <4>. QED BY <1>1, <1>2, <4>1, <4>2 DEF w
    <3>. QED BY <1>2, <2>2, <3>1, <3>2 DEF Follows, Carries, w, c
  <2>. QED BY <2>2, <2>4, <2>5, <2>6 DEF t, c
<1>3. CASE n \notin at
  <2>1. /\ s.awaiting # Unset /\ t = FlagValue(s, w)
        /\ n - 1 \in at /\ rest[n - 1] \in TakesValue /\ s.awaiting = rest[n - 1]
    BY <1>0, <1>3 DEF ScanFlag
  <2>2. /\ t \in Scans /\ t.options.drop_kind = s.options.drop_kind
        /\ t.options.mode # "invalid" <=> w \in ValuesOf(rest[n - 1])
        /\ t.options.mode # "invalid" => t.awaiting = Unset /\ Carries(s, t, {})
    <3>. HIDE DEF w
    <3>1. LET u == FlagValue(s, w)
          IN  /\ u \in Scans /\ u.options.drop_kind = s.options.drop_kind
              /\ u.options.mode # "invalid" <=> w \in ValuesOf(s.awaiting)
              /\ u.options.mode # "invalid" => u.awaiting = Unset /\ Carries(s, u, {})
      BY <1>0, <2>1, ValueTaken
    <3>. HIDE DEF t
    <3>. QED BY <2>1, <3>1
  <2>. HIDE DEF t, c, w
  <2>3. t.options.mode # "invalid" <=> ValueAt(at, rest, n)
    BY <1>3, <2>1, <2>2 DEF ValueAt, w
  <2>4. ~OptionAt(c, at, rest, n)
    BY <1>3 DEF OptionAt
  <2>5. ASSUME t.options.mode # "invalid" PROVE Follows(t, at, rest, n) /\ t.options.mode = c
    <3>1. Carries(s, t, {}) /\ t.awaiting = Unset
      BY <2>2, <2>5
    <3>2. ASSUME NEW option \in AllOptions
          PROVE  Met(t, option) <=> \E i \in at : i <= n /\ rest[i] = option
      <4>1. Met(t, option) <=> Met(s, option)
        BY <3>1 DEF Carries
      <4>2. \A i \in at : i <= n <=> i <= n - 1
        BY <1>1, <1>3
      <4>. QED BY <1>0, <4>1, <4>2
    <3>. QED BY <1>3, <2>2, <3>1, <3>2 DEF Follows, Carries, c
  <2>. QED BY <2>2, <2>3, <2>4, <2>5 DEF t, c
<1>. QED BY <1>2, <1>3

(* A scan of the words of rest, for a command. *)
Scanning(scan, o, rest) ==
  /\ rest \in Seq(Texts)
  /\ o \in OptionRecords /\ o.mode # "invalid" /\ ~o.json /\ o.proto = Unset /\ o.state = Unset
  /\ scan[0] = [options |-> o, awaiting |-> Unset]
  /\ \A n \in 1 .. Len(rest) : scan[n] = ScanFlag(scan[n - 1], rest[n])

(* The scan has followed the reading this far without complaint. *)
SoFar(scan, o, at, rest, n) ==
  /\ Follows(scan[n], at, rest, n)
  /\ scan[n].options.mode = o.mode /\ scan[n].options.drop_kind = o.drop_kind

LEMMA Positive ==
  ASSUME NEW m \in Nat, NEW i \in 1 .. m
  PROVE  /\ i \in Nat \ {0} /\ ~(i <= 0) /\ i <= m
         /\ (i + 1) - 1 = i /\ (i # m => i + 1 \in 1 .. m)
OBVIOUS

LEMMA ScanStarts ==
  ASSUME NEW scan, NEW o, NEW rest, Scanning(scan, o, rest), NEW at \in SUBSET (1 .. Len(rest))
  PROVE  SoFar(scan, o, at, rest, 0)
<1> DEFINE s == scan[0]
<1>1. /\ o \in OptionRecords /\ s = [options |-> o, awaiting |-> Unset]
      /\ ~o.json /\ o.proto = Unset /\ o.state = Unset /\ rest \in Seq(Texts)
  BY DEF Scanning
<1>. HIDE DEF s
<1>2. s \in Scans /\ s.options = o /\ s.awaiting = Unset
  BY <1>1, ScanIs
<1>3. \A i \in at : i \in 1 .. Len(rest)
  OBVIOUS
<1>4. ASSUME NEW i \in at PROVE ~(i <= 0)
  <2>1. i \in 1 .. Len(rest) /\ Len(rest) \in Nat
    BY <1>1, <1>3
  <2>. QED BY <2>1, Positive
<1>5. 0 \notin at
  <2>1. 0 <= 0
    OBVIOUS
  <2>. QED BY <1>4, <2>1
<1>6. \A option \in AllOptions : ~Met(s, option)
  BY <1>1, <1>2, UnsetIsNoWord DEF Met, AllOptions, TakesValue
<1>. QED BY <1>2, <1>4, <1>5, <1>6 DEF SoFar, Follows, s

(* One more word. *)
LEMMA ScanGoesOn ==
  ASSUME NEW scan, NEW o, NEW rest, Scanning(scan, o, rest), NEW at \in SUBSET (1 .. Len(rest)),
         NEW n \in 1 .. Len(rest), SoFar(scan, o, at, rest, n - 1),
         n \in at <=> scan[n - 1].awaiting = Unset
  PROVE  /\ scan[n].options.mode # "invalid"
              <=> OptionAt(o.mode, at, rest, n) \/ ValueAt(at, rest, n)
         /\ scan[n].options.mode # "invalid" => SoFar(scan, o, at, rest, n)
<1>1. rest \in Seq(Texts) /\ o.mode # "invalid" /\ scan[n] = ScanFlag(scan[n - 1], rest[n])
  BY DEF Scanning
<1>2. rest[n] \in Texts /\ n \in Nat \ {0} /\ at \in SUBSET Nat
  <2>1. Len(rest) \in Nat /\ rest[n] \in Texts
    BY <1>1
  <2>2. \A i \in 1 .. Len(rest) : i \in Nat \ {0}
    BY <2>1, Positive
  <2>. QED BY <2>1, <2>2
<1> DEFINE s == scan[n - 1]
<1>3. Follows(s, at, rest, n - 1) /\ s.options.mode = o.mode /\ s.options.drop_kind = o.drop_kind
  BY DEF SoFar
<1>. HIDE DEF s
<1>4. LET t == ScanFlag(s, rest[n])
          c == s.options.mode
      IN  /\ t.options.mode # "invalid" <=> OptionAt(c, at, rest, n) \/ ValueAt(at, rest, n)
          /\ t.options.mode # "invalid" => /\ Follows(t, at, rest, n) /\ t.options.mode = c
                                          /\ t.options.drop_kind = s.options.drop_kind
  <2>1. n \in at <=> s.awaiting = Unset
    BY DEF s
  <2>2. MayGoOn(s, at, rest, n)
    BY <1>1, <1>2, <1>3, <2>1 DEF MayGoOn
  <2>. QED BY <2>2, ScanStep
<1>5. scan[n] = ScanFlag(s, rest[n])
  BY <1>1 DEF s
<1>. QED BY <1>3, <1>4, <1>5 DEF SoFar

(* Options as in the usage are taken.                                       *)
LEMMA UsageIsTaken ==
  ASSUME NEW scan, NEW o, NEW rest, Scanning(scan, o, rest), UsageOfOptions(o.mode, rest)
  PROVE  /\ scan[Len(rest)].options.mode = o.mode /\ scan[Len(rest)].awaiting = Unset
         /\ scan[Len(rest)].options.drop_kind = o.drop_kind
<1>0. rest \in Seq(Texts) /\ Len(rest) \in Nat /\ DOMAIN rest = 1 .. Len(rest)
      /\ o.mode # "invalid"
  BY DEF Scanning
<1> DEFINE m == Len(rest)
<1>1. PICK at \in SUBSET (1 .. m) :
        /\ \A i \in at : /\ rest[i] \in OptionsOf(o.mode)
                         /\ \A j \in at : rest[i] = rest[j] => i = j
                         /\ rest[i] \in TakesValue => i + 1 \in (1 .. m) \ at
        /\ \A i \in (1 .. m) \ at : /\ i - 1 \in at
                                    /\ rest[i - 1] \in TakesValue
                                    /\ rest[i] \in ValuesOf(rest[i - 1])
  BY <1>0 DEF UsageOfOptions
<1> DEFINE G == {n \in Nat : n <= m => SoFar(scan, o, at, rest, n)}
<1>2. 0 \in G
  BY ScanStarts
<1>3. ASSUME NEW k \in Nat, k \in G PROVE k + 1 \in G
  <2>. SUFFICES ASSUME k + 1 <= m PROVE SoFar(scan, o, at, rest, k + 1)
    OBVIOUS
  <2>1. PICK n \in Nat : n = k + 1
    OBVIOUS
  <2>2. n \in 1 .. m /\ n - 1 = k /\ k <= m /\ (n - 1) + 1 = n
    BY <1>0, <2>1
  <2>3. SoFar(scan, o, at, rest, n - 1)
    BY <1>3, <2>2
  <2>4. scan[n - 1].awaiting = IF n - 1 \in at /\ rest[n - 1] \in TakesValue
                               THEN rest[n - 1] ELSE Unset
    BY <2>3 DEF SoFar, Follows
  <2>5. n \in at <=> scan[n - 1].awaiting = Unset
    <3>1. ASSUME n \in at PROVE ~(n - 1 \in at /\ rest[n - 1] \in TakesValue)
      BY <1>1, <2>2, <3>1
    <3>2. ASSUME n \notin at PROVE n - 1 \in at /\ rest[n - 1] \in TakesValue
      BY <1>1, <2>2, <3>2
    <3>3. Unset \notin TakesValue
      BY UnsetIsNoWord DEF TakesValue
    <3>. QED BY <2>4, <3>1, <3>2, <3>3
  <2>6. OptionAt(o.mode, at, rest, n) \/ ValueAt(at, rest, n)
    <3>1. CASE n \in at
      <4>1. ASSUME NEW i \in at, i < n PROVE rest[i] # rest[n]
        <5>1. i # n
          BY <1>0, <4>1
        <5>. QED BY <1>1, <3>1, <5>1
      <4>. QED BY <1>1, <3>1, <4>1 DEF OptionAt
    <3>2. CASE n \notin at
      BY <1>1, <2>2, <3>2 DEF ValueAt
    <3>. QED BY <3>1, <3>2
  <2>7. SoFar(scan, o, at, rest, n)
    <3>. HIDE DEF m
    <3>1. n \in 1 .. Len(rest) /\ at \in SUBSET (1 .. Len(rest))
      BY <2>2 DEF m
    <3>. QED BY <2>3, <2>5, <2>6, <3>1, ScanGoesOn
  <2>. QED BY <2>1, <2>7
<1>4. m \in G
  <2>1. Nat \subseteq G
    <3>. HIDE DEF G
    <3>. QED BY <1>2, <1>3, NumberInduction
  <2>. QED BY <1>0, <2>1
<1>5. SoFar(scan, o, at, rest, m)
  BY <1>0, <1>4
<1>6. ~(m \in at /\ rest[m] \in TakesValue)
  <2>1. m + 1 \notin 1 .. m
    BY <1>0
  <2>. QED BY <1>1, <2>1
<1>. QED BY <1>5, <1>6 DEF SoFar, Follows

(* Whatever the words, the scan stays one; and a complaint stays.           *)
LEMMA ScanStays ==
  ASSUME NEW scan, NEW o, NEW rest, Scanning(scan, o, rest), NEW n \in 1 .. Len(rest),
         scan[n - 1] \in Scans
  PROVE  /\ scan[n] \in Scans
         /\ scan[n - 1].options.mode = "invalid" => scan[n].options.mode = "invalid"
<1> DEFINE s == scan[n - 1]
           w == rest[n]
<1>1. scan[n] = ScanFlag(s, w) /\ w \in Texts
  <2>1. rest \in Seq(Texts) /\ scan[n] = ScanFlag(s, w)
    BY DEF Scanning
  <2>. QED BY <2>1
<1>2. s \in Scans
  OBVIOUS
<1>. HIDE DEF s, w
<1>3. CASE s.options.mode = "invalid"
  <2>1. scan[n] = s
    BY <1>1, <1>3 DEF ScanFlag
  <2>. QED BY <1>2, <1>3, <2>1 DEF s
<1>4. CASE s.options.mode # "invalid" /\ s.awaiting = Unset
  <2>1. scan[n] = Flag(s, w)
    BY <1>1, <1>4 DEF ScanFlag
  <2>2. Flag(s, w) \in Scans
    BY <1>1, <1>2, <1>4, FlagTaken
  <2>. QED BY <1>4, <2>1, <2>2 DEF s
<1>5. CASE s.options.mode # "invalid" /\ s.awaiting # Unset
  <2>1. scan[n] = FlagValue(s, w)
    BY <1>1, <1>5 DEF ScanFlag
  <2>2. FlagValue(s, w) \in Scans
    BY <1>1, <1>2, <1>5, ValueTaken
  <2>. QED BY <1>5, <2>1, <2>2 DEF s
<1>. QED BY <1>3, <1>4, <1>5

LEMMA ScansThroughout ==
  ASSUME NEW scan, NEW o, NEW rest, Scanning(scan, o, rest)
  PROVE  /\ \A n \in 0 .. Len(rest) : scan[n] \in Scans
         /\ \A n \in 0 .. Len(rest) :
              scan[n].options.mode = "invalid" => scan[Len(rest)].options.mode = "invalid"
<1> DEFINE m == Len(rest)
           G == {n \in Nat : n <= m => scan[n] \in Scans}
           H == {k \in Nat : k <= m /\ scan[m - k].options.mode = "invalid"
                               => scan[m].options.mode = "invalid"}
<1>0. m \in Nat
  BY DEF Scanning
<1>1. 0 \in G
  <2>1. scan[0] = [options |-> o, awaiting |-> Unset] /\ o \in OptionRecords
    BY DEF Scanning
  <2>. QED BY <2>1, ScanIs
<1>2. ASSUME NEW k \in Nat, k \in G PROVE k + 1 \in G
  <2>. SUFFICES ASSUME k + 1 <= m PROVE scan[k + 1] \in Scans
    OBVIOUS
  <2>1. PICK n \in Nat : n = k + 1
    OBVIOUS
  <2>2. n \in 1 .. m /\ n - 1 = k /\ k <= m
    BY <1>0, <2>1
  <2>3. scan[n - 1] \in Scans
    BY <1>2, <2>2
  <2>. QED BY <2>1, <2>2, <2>3, ScanStays
<1>3. \A n \in 0 .. m : scan[n] \in Scans
  <2>1. Nat \subseteq G
    <3>. HIDE DEF G
    <3>. QED BY <1>1, <1>2, NumberInduction
  <2>2. \A n \in 0 .. m : n \in Nat /\ n <= m
    BY <1>0
  <2>. QED BY <2>1, <2>2
<1>4. 0 \in H
  <2>1. m - 0 = m
    BY <1>0
  <2>. QED BY <2>1
<1>5. ASSUME NEW k \in Nat, k \in H PROVE k + 1 \in H
  <2>. SUFFICES ASSUME k + 1 <= m, scan[m - (k + 1)].options.mode = "invalid"
       PROVE  scan[m].options.mode = "invalid"
    OBVIOUS
  <2>1. PICK n \in Nat : n = m - k
    BY <1>0
  <2>2. n \in 1 .. m /\ n - 1 = m - (k + 1) /\ n - 1 \in 0 .. m /\ k <= m
    BY <1>0, <2>1
  <2>3. scan[n - 1] \in Scans /\ scan[n - 1].options.mode = "invalid"
    BY <1>3, <2>2
  <2>4. scan[n].options.mode = "invalid"
    BY <2>2, <2>3, ScanStays
  <2>. QED BY <1>5, <2>1, <2>2, <2>4
<1>6. ASSUME NEW n \in 0 .. m, scan[n].options.mode = "invalid"
      PROVE  scan[m].options.mode = "invalid"
  <2>1. Nat \subseteq H
    <3>. HIDE DEF H
    <3>. QED BY <1>4, <1>5, NumberInduction
  <2>2. PICK k \in Nat : k = m - n
    BY <1>0
  <2>3. k <= m /\ m - k = n
    BY <1>0, <2>2
  <2>. QED BY <1>6, <2>1, <2>3
<1>. QED BY <1>3, <1>6

(* Options that are taken are as in the usage: those at which no value was  *)
(* awaited make the reading.                                                *)
LEMMA TakenIsUsage ==
  ASSUME NEW scan, NEW o, NEW rest, Scanning(scan, o, rest),
         scan[Len(rest)].options.mode # "invalid", scan[Len(rest)].awaiting = Unset
  PROVE  UsageOfOptions(o.mode, rest)
<1> DEFINE m == Len(rest)
           at == {n \in 1 .. m : scan[n - 1].awaiting = Unset}
           Placed(n) == OptionAt(o.mode, at, rest, n) \/ ValueAt(at, rest, n)
           G == {n \in Nat : n <= m => /\ SoFar(scan, o, at, rest, n)
                                       /\ n \in 1 .. m => Placed(n)}
<1>0. rest \in Seq(Texts) /\ m \in Nat /\ DOMAIN rest = 1 .. m
  BY DEF Scanning
<1>1. \A n \in 0 .. m : scan[n].options.mode # "invalid"
  BY ScansThroughout
<1>2. 0 \in G
  <2>1. 0 \notin 1 .. m
    OBVIOUS
  <2>2. at \in SUBSET (1 .. Len(rest))
    OBVIOUS
  <2>. HIDE DEF at
  <2>3. SoFar(scan, o, at, rest, 0)
    BY <2>2, ScanStarts
  <2>. QED BY <2>1, <2>3
<1>3. ASSUME NEW k \in Nat, k \in G PROVE k + 1 \in G
  <2>. SUFFICES ASSUME k + 1 <= m PROVE SoFar(scan, o, at, rest, k + 1) /\ Placed(k + 1)
    BY DEF G
  <2>1. PICK n \in Nat : n = k + 1
    OBVIOUS
  <2>2. n \in 1 .. m /\ n \in 0 .. m /\ n - 1 = k /\ k <= m
    BY <1>0, <2>1
  <2>3. SoFar(scan, o, at, rest, n - 1)
    BY <1>3, <2>2
  <2>4. n \in at <=> scan[n - 1].awaiting = Unset
    BY <2>2
  <2>5. at \in SUBSET (1 .. Len(rest)) /\ n \in 1 .. Len(rest)
    BY <2>2
  <2>6. scan[n].options.mode # "invalid"
    BY <1>1, <2>2
  <2>. HIDE DEF at, m
  <2>7. Placed(n) /\ SoFar(scan, o, at, rest, n)
    BY <2>3, <2>4, <2>5, <2>6, ScanGoesOn
  <2>. QED BY <2>1, <2>7
<1>4. \A n \in 0 .. m : SoFar(scan, o, at, rest, n) /\ (n \in 1 .. m => Placed(n))
  <2>1. Nat \subseteq G
    <3>. HIDE DEF G
    <3>. QED BY <1>2, <1>3, NumberInduction
  <2>2. \A n \in 0 .. m : n \in Nat /\ n <= m
    BY <1>0
  <2>. QED BY <2>1, <2>2
<1>5. \A n \in 1 .. m : Placed(n) /\ n \in Nat /\ SoFar(scan, o, at, rest, n)
  <2>1. \A n \in 1 .. m : n \in 0 .. m /\ n \in Nat
    BY <1>0
  <2>. QED BY <1>4, <2>1
<1>6. ASSUME NEW i \in at
      PROVE  /\ rest[i] \in OptionsOf(o.mode)
             /\ \A j \in at : rest[i] = rest[j] => i = j
             /\ rest[i] \in TakesValue => i + 1 \in (1 .. m) \ at
  <2>1. OptionAt(o.mode, at, rest, i)
    BY <1>5 DEF ValueAt
  <2>2. ASSUME NEW j \in at, rest[i] = rest[j] PROVE i = j
    <3>1. OptionAt(o.mode, at, rest, j)
      BY <1>5 DEF ValueAt
    <3>2. i \in Nat /\ j \in Nat
      BY <1>5
    <3>3. ~(i < j) /\ ~(j < i)
      BY <2>1, <2>2, <3>1 DEF OptionAt
    <3>. QED BY <3>2, <3>3
  <2>3. ASSUME rest[i] \in TakesValue PROVE i + 1 \in (1 .. m) \ at
    <3>1. SoFar(scan, o, at, rest, i) /\ i \in 1 .. m
      BY <1>5
    <3>2. scan[i].awaiting = rest[i]
      BY <2>3, <3>1 DEF SoFar, Follows
    <3>3. scan[i].awaiting # Unset
      BY <2>3, <3>2, UnsetIsNoWord DEF TakesValue
    <3>4. i # m
      BY <3>3
    <3>5. i + 1 \in 1 .. m /\ (i + 1) - 1 = i
      BY <1>0, <3>1, <3>4, Positive
    <3>. QED BY <3>3, <3>5
  <2>. QED BY <2>1, <2>2, <2>3 DEF OptionAt
<1>7. ASSUME NEW i \in (1 .. m) \ at
      PROVE  i - 1 \in at /\ rest[i - 1] \in TakesValue /\ rest[i] \in ValuesOf(rest[i - 1])
  <2>1. ValueAt(at, rest, i)
    BY <1>5 DEF OptionAt
  <2>. QED BY <2>1 DEF ValueAt
<1>8. at \in SUBSET (1 .. m)
  OBVIOUS
<1>. HIDE DEF at
<1>. QED BY <1>0, <1>6, <1>7, <1>8 DEF UsageOfOptions

(* The options of a command are refused exactly when they are not as in the *)
(* usage, and name no target of drop.                                       *)
LEMMA OptionsObeyUsage ==
  ASSUME NEW o \in OptionRecords, NEW rest \in Seq(Texts),
         o.mode # "invalid", ~o.json, o.proto = Unset, o.state = Unset
  PROVE  LET r == ScanFlags(o, rest)
         IN  /\ r.mode # "invalid" <=> UsageOfOptions(o.mode, rest)
             /\ r.mode # "invalid" => r.mode = o.mode /\ r.drop_kind = o.drop_kind
<1> DEFINE m == Len(rest)
<1>1. m \in Nat
  OBVIOUS
<1>2. PICK scan :
        /\ scan[0] = [options |-> o, awaiting |-> Unset]
        /\ \A n \in 1 .. m : scan[n] = ScanFlag(scan[n - 1], rest[n])
        /\ ScanFlags(o, rest) = LET last == scan[m]
                                IN  IF last.awaiting = Unset THEN last.options
                                                             ELSE Invalid(last.options)
  BY <1>1, ScanFlagsIs
<1>3. Scanning(scan, o, rest)
  BY <1>2 DEF Scanning
<1> DEFINE last == scan[m]
<1>4. last \in Scans
  <2>1. m \in 0 .. m
    BY <1>1
  <2>. QED BY <1>3, <2>1, ScansThroughout
<1>5. UsageOfOptions(o.mode, rest) =>
        last.options.mode = o.mode /\ last.awaiting = Unset /\ last.options.drop_kind = o.drop_kind
  BY <1>3, UsageIsTaken
<1>6. last.options.mode # "invalid" /\ last.awaiting = Unset => UsageOfOptions(o.mode, rest)
  BY <1>3, TakenIsUsage
<1>. HIDE DEF last
<1>7. last.options \in OptionRecords
  BY <1>4 DEF Scans
<1>8. Invalid(last.options).mode = "invalid"
  BY <1>7, ModeSet DEF Invalid, Texts
<1>. QED BY <1>2, <1>5, <1>6, <1>8 DEF last

LEMMA ConfirmedSet ==
  ASSUME NEW o \in OptionRecords, NEW b \in BOOLEAN
  PROVE  LET r == [o EXCEPT !.confirmed = b]
         IN  r.mode = o.mode /\ r.drop_kind = o.drop_kind
BY DEF OptionRecords

(* What follows a target may only confirm it. *)
LEMMA ConfirmingIs ==
  ASSUME NEW o \in OptionRecords, o.mode # "invalid", NEW args \in Seq(Texts),
         NEW k \in Nat \ {0}, k <= Len(args) + 1
  PROVE  LET r == Confirming(o, SubSeq(args, k, Len(args)))
         IN  /\ r.mode # "invalid" <=> \A i \in k .. Len(args) : args[i] \in Yes
             /\ r.mode # "invalid" => r.mode = o.mode /\ r.drop_kind = o.drop_kind
<1> DEFINE rest == SubSeq(args, k, Len(args))
           b == rest # << >>
<1>1. ToSet(rest) \subseteq Yes <=> \A i \in k .. Len(args) : args[i] \in Yes
  <2>1. Len(args) \in Nat
    OBVIOUS
  <2>2. PICK m \in Nat : m = Len(args) + 1 - k
    <3>1. Len(args) + 1 - k \in Nat
      BY <2>1
    <3>. QED BY <3>1
  <2>3. DOMAIN rest = 1 .. m /\ \A j \in 1 .. m : rest[j] = args[k + j - 1]
    BY <2>1, <2>2
  <2>. HIDE DEF rest
  <2>4. ASSUME NEW i \in k .. Len(args) PROVE args[i] \in ToSet(rest)
    <3>1. PICK j \in 1 .. m : k + j - 1 = i
      <4>1. (i - k) + 1 \in 1 .. m /\ k + ((i - k) + 1) - 1 = i
        BY <2>1, <2>2
      <4>. QED BY <4>1
    <3>. QED BY <2>3, <3>1 DEF ToSet
  <2>5. ASSUME NEW w \in ToSet(rest) PROVE \E i \in k .. Len(args) : w = args[i]
    <3>1. PICK j \in 1 .. m : w = args[k + j - 1]
      BY <2>3 DEF ToSet
    <3>2. k + j - 1 \in k .. Len(args)
      BY <2>1, <2>2
    <3>. QED BY <3>1, <3>2
  <2>. QED BY <2>4, <2>5
<1>2. Invalid(o).mode = "invalid"
  BY ModeSet DEF Invalid, Texts
<1>3. [o EXCEPT !.confirmed = b].mode = o.mode
      /\ [o EXCEPT !.confirmed = b].drop_kind = o.drop_kind
  <2>1. b \in BOOLEAN
    OBVIOUS
  <2>. HIDE DEF b
  <2>. QED BY <2>1, ConfirmedSet
<1>4. CASE ToSet(rest) \subseteq Yes
  <2>1. Confirming(o, rest) = [o EXCEPT !.confirmed = b]
    BY <1>4 DEF Confirming
  <2>. HIDE DEF rest, b
  <2>. QED BY <1>1, <1>3, <1>4, <2>1 DEF rest
<1>5. CASE ~(ToSet(rest) \subseteq Yes)
  <2>1. Confirming(o, rest) = Invalid(o)
    BY <1>5 DEF Confirming
  <2>. HIDE DEF rest
  <2>. QED BY <1>1, <1>2, <1>5, <2>1 DEF rest
<1>. QED BY <1>4, <1>5

(* The options before the first word of a command is looked at, and those   *)
(* with which a command runs.                                               *)
Fresh(o) ==
  /\ o \in OptionRecords /\ o.mode = "tui" /\ ~o.json
  /\ o.proto = Unset /\ o.state = Unset /\ o.drop_kind = Unset

Runs(o) == o.mode # "invalid" /\ (o.mode = "drop" => o.drop_kind # Unset)

LEMMA NoWords ==
  ASSUME NEW s \in Seq(Texts), Len(s) = 0
  PROVE  DOMAIN s = {}
<1>1. DOMAIN s = 1 .. Len(s)
  OBVIOUS
<1>2. \A i \in 1 .. 0 : FALSE
  OBVIOUS
<1>. QED BY <1>1, <1>2

(* A word by itself. *)
LEMMA OneObeys ==
  ASSUME NEW o, Fresh(o), NEW args \in Seq(Texts), Len(args) = 1
  PROVE  UsageOfCommand(args) <=> Runs(ParseOne(o, args[1]))
<1> DEFINE w == args[1]
           mode == CASE w \in {"--help", "-h"}    -> "help"
                     [] w \in {"--version", "-v"} -> "version"
                     [] w \in Listings            -> w
                     [] OTHER                     -> "invalid"
           r == ParseOne(o, w)
<1>1. o \in OptionRecords /\ r = [o EXCEPT !.mode = mode]
  BY DEF Fresh, ParseOne
<1>2. mode \in Texts /\ mode # "drop"
        /\ (mode # "invalid" <=> w \in Listings \cup {"--help", "-h", "--version", "-v"})
  BY DEF Texts, Commands, Listings
<1>. HIDE DEF mode
<1>3. r.mode = mode
  BY <1>1, <1>2, ModeSet
<1>4. UsageOfOptions(w, Tail(args))
  <2>1. Tail(args) \in Seq(Texts) /\ Len(Tail(args)) = 0
    OBVIOUS
  <2>2. DOMAIN Tail(args) = {}
    BY <2>1, NoWords
  <2>. QED BY <2>2 DEF UsageOfOptions
<1>5. args # << >>
  OBVIOUS
<1>6. ~(Len(args) >= 2) /\ ~(Len(args) >= 5)
  OBVIOUS
<1>7. UsageOfCommand(args) <=> w \in {"--help", "-h", "--version", "-v"} \/ w \in Listings
  BY <1>4, <1>5, <1>6 DEF UsageOfCommand
<1>. HIDE DEF r
<1>. QED BY <1>2, <1>3, <1>7 DEF Runs, r

(* kill takes a process and what confirms it. *)
LEMMA KillObeys ==
  ASSUME NEW o, Fresh(o), NEW args \in Seq(Texts), Len(args) >= 2, args[1] = "kill"
  PROVE  UsageOfCommand(args) <=> Runs(ParseMany(o, args))
<1> DEFINE x == args[2]
           p == [o EXCEPT !.mode = "kill", !.pid = x]
           r == Confirming(p, SubSeq(args, 3, Len(args)))
<1>1. ParseMany(o, args) = r
  BY DEF ParseMany, ParseKill
<1>2. o \in OptionRecords /\ "kill" \in Texts /\ x \in Texts
  BY DEF Fresh, Texts, Commands
<1>3. p \in OptionRecords /\ p.mode = "kill"
  <2>. HIDE DEF x
  <2>. QED BY <1>2 DEF OptionRecords
<1>. HIDE DEF p
<1>4. 3 <= Len(args) + 1 /\ 3 \in Nat \ {0}
  OBVIOUS
<1>5. /\ r.mode # "invalid" <=> \A i \in 3 .. Len(args) : args[i] \in Yes
      /\ r.mode # "invalid" => r.mode = p.mode
  BY <1>3, <1>4, ConfirmingIs
<1>6. UsageOfCommand(args) <=> \A i \in 3 .. Len(args) : args[i] \in Yes
  BY DEF UsageOfCommand, Listings
<1>. HIDE DEF r
<1>. QED BY <1>1, <1>3, <1>5, <1>6 DEF Runs

(* drop takes a kind, a protocol, two ends and what confirms it. *)
LEMMA DropObeys ==
  ASSUME NEW o, Fresh(o), NEW args \in Seq(Texts), Len(args) >= 5, args[1] = "drop"
  PROVE  UsageOfCommand(args) <=> Runs(ParseMany(o, args))
<1> DEFINE kind == args[2]
           proto == ProtoOf(args[3])
           x == args[4]
           y == args[5]
           p == [o EXCEPT !.mode = "drop", !.drop_kind = kind,
                          !.proto = proto, !.local = x, !.remote = y]
           r == Confirming(p, SubSeq(args, 6, Len(args)))
           named == args[3] \in Tcp \cup Udp /\ kind \in {"connection", "socket"}
<1>1. ParseMany(o, args) = IF named THEN r ELSE Invalid(o)
  <2>1. ParseMany(o, args) = ParseDrop(o, args)
    BY DEF ParseMany
  <2>. QED BY <2>1, Zenon DEF ParseDrop
<1>2. o \in OptionRecords /\ "drop" \in Texts /\ proto \in Texts
        /\ kind \in Texts /\ x \in Texts /\ y \in Texts
  BY DEF Fresh, Texts, Commands, ProtoOf
<1>3. p \in OptionRecords /\ p.mode = "drop" /\ p.drop_kind = kind
  <2>. HIDE DEF kind, proto, x, y
  <2>. QED BY <1>2 DEF OptionRecords
<1>4. Invalid(o).mode = "invalid"
  BY <1>2, ModeSet DEF Invalid, Texts
<1>. HIDE DEF p
<1>5. 6 <= Len(args) + 1 /\ 6 \in Nat \ {0}
  OBVIOUS
<1>6. /\ r.mode # "invalid" <=> \A i \in 6 .. Len(args) : args[i] \in Yes
      /\ r.mode # "invalid" => r.mode = p.mode /\ r.drop_kind = p.drop_kind
  BY <1>3, <1>5, ConfirmingIs
<1>7. UsageOfCommand(args) <=> named /\ \A i \in 6 .. Len(args) : args[i] \in Yes
  BY DEF UsageOfCommand, Listings
<1>8. named => kind # Unset
  BY UnsetIsNoWord
<1>. HIDE DEF r, named, kind
<1>. QED BY <1>1, <1>3, <1>4, <1>6, <1>7, <1>8 DEF Runs

(* The commands that list take options. *)
LEMMA ListingObeys ==
  ASSUME NEW o, Fresh(o), NEW args \in Seq(Texts), Len(args) >= 2, args[1] \in Listings
  PROVE  UsageOfCommand(args) <=> Runs(ParseMany(o, args))
<1> DEFINE w == args[1]
           p == [o EXCEPT !.mode = w]
           rest == Tail(args)
           r == ScanFlags(p, rest)
<1>1. w \notin {"kill", "drop", "--help", "-h", "--version", "-v", "invalid"}
  BY DEF Listings
<1>2. ParseMany(o, args) = r
  BY <1>1 DEF ParseMany, Commands
<1>3. o \in OptionRecords /\ w \in Texts /\ rest \in Seq(Texts)
  BY DEF Fresh
<1>4. p \in OptionRecords /\ p.mode = w /\ ~p.json /\ p.proto = Unset /\ p.state = Unset
  BY <1>3, ModeSet DEF Fresh
<1>. HIDE DEF p
<1>5. UsageOfCommand(args) <=> UsageOfOptions(w, rest)
  <2>1. args # << >>
    OBVIOUS
  <2>. QED BY <1>1, <2>1 DEF UsageOfCommand
<1>. HIDE DEF rest, w
<1>6. /\ r.mode # "invalid" <=> UsageOfOptions(w, rest)
      /\ r.mode # "invalid" => r.mode = w
  BY <1>1, <1>3, <1>4, OptionsObeyUsage
<1>. HIDE DEF r
<1>. QED BY <1>1, <1>2, <1>5, <1>6 DEF Runs

(* drop without its target is parsed like those, and then has no target.    *)
LEMMA DropAloneObeys ==
  ASSUME NEW o, Fresh(o), NEW args \in Seq(Texts), Len(args) >= 2, Len(args) < 5,
         args[1] = "drop"
  PROVE  ~UsageOfCommand(args) /\ ~Runs(ParseMany(o, args))
<1> DEFINE p == [o EXCEPT !.mode = "drop"]
           rest == Tail(args)
           r == ScanFlags(p, rest)
<1>1. ~(Len(args) >= 5)
  OBVIOUS
<1>2. ParseMany(o, args) = r
  BY <1>1 DEF ParseMany, Commands
<1>3. o \in OptionRecords /\ "drop" \in Texts /\ rest \in Seq(Texts)
  BY DEF Fresh, Texts, Commands
<1>4. /\ p \in OptionRecords /\ p.mode = "drop" /\ ~p.json
      /\ p.proto = Unset /\ p.state = Unset /\ p.drop_kind = Unset
  BY <1>3, ModeSet DEF Fresh
<1>5. ~UsageOfCommand(args)
  BY <1>1 DEF UsageOfCommand, Listings
<1>. HIDE DEF p, rest
<1>6. r.mode # "invalid" => r.mode = "drop" /\ r.drop_kind = Unset
  BY <1>3, <1>4, OptionsObeyUsage
<1>. HIDE DEF r
<1>. QED BY <1>2, <1>5, <1>6 DEF Runs

LEMMA Lengths ==
  ASSUME NEW n \in Nat
  PROVE  /\ n = 0 \/ n = 1 \/ n >= 2
         /\ n >= 2 => n # 0 /\ n # 1
OBVIOUS

LEMMA SequencesOfTexts ==
  ASSUME NEW s \in Seq(STRING)
  PROVE  s \in Seq(Texts)
<1>1. Len(s) \in Nat /\ DOMAIN s = 1 .. Len(s) /\ s = [i \in 1 .. Len(s) |-> s[i]]
  OBVIOUS
<1>2. \A i \in 1 .. Len(s) : s[i] \in Texts
  BY DEF Texts
<1>. QED BY <1>1, <1>2

(* A command and what follows it runs exactly when the usage has it. *)
LEMMA CommandObeys ==
  ASSUME NEW o, Fresh(o), NEW args \in Seq(Texts)
  PROVE  UsageOfCommand(args) <=> Runs(ParseCommand(o, args))
<1>0. Len(args) \in Nat /\ (args = << >> <=> Len(args) = 0)
  OBVIOUS
<1>1. CASE args = << >>
  <2>1. ParseCommand(o, args) = o
    BY <1>1 DEF ParseCommand
  <2>. QED BY <1>1, <2>1 DEF UsageOfCommand, Runs, Fresh
<1>2. CASE Len(args) = 1
  <2>1. ParseCommand(o, args) = ParseOne(o, args[1])
    BY <1>0, <1>2 DEF ParseCommand
  <2>. QED BY <1>2, <2>1, OneObeys
<1>3. CASE Len(args) >= 2
  <2>0. Len(args) # 1 /\ args # << >>
    BY <1>0, <1>3, Lengths, Zenon
  <2>1. ParseCommand(o, args) = ParseMany(o, args)
    BY <2>0 DEF ParseCommand
  <2>2. CASE args[1] = "kill"
    BY <1>3, <2>1, <2>2, KillObeys
  <2>3. CASE args[1] = "drop"
    BY <1>0, <1>3, <2>1, <2>3, DropObeys, DropAloneObeys
  <2>4. CASE args[1] \in Listings
    BY <1>3, <2>1, <2>4, ListingObeys
  <2>5. CASE args[1] \notin Commands
    <3>1. args[1] # "kill" /\ args[1] # "drop" /\ args[1] \notin Listings
      BY <2>5 DEF Commands
    <3>2. ParseMany(o, args) = Invalid(o)
      BY <2>5, <3>1 DEF ParseMany
    <3>3. Invalid(o).mode = "invalid"
      BY ModeSet DEF Invalid, Texts, Fresh
    <3>. QED BY <2>0, <2>1, <3>1, <3>2, <3>3 DEF UsageOfCommand, Runs
  <2>. QED BY <2>2, <2>3, <2>4, <2>5 DEF Commands
<1>. QED BY <1>0, <1>1, <1>2, <1>3, Lengths, Zenon

LEMMA ProfileSet ==
  ASSUME NEW o, Fresh(o), NEW x \in Texts
  PROVE  Fresh([o EXCEPT !.profile = x])
BY DEF Fresh, OptionRecords

LEMMA NoOptionsFresh == Fresh(NoOptions)
BY DEF NoOptions, Fresh, OptionRecords, Texts

(* So does a command line, with a profile before the command or without.    *)
LEMMA CliObeys ==
  ASSUME NEW args \in Seq(Texts)
  PROVE  Usage(args) <=> Runs(ParseCli(args))
<1>0. Len(args) \in Nat /\ (args = << >> <=> Len(args) = 0)
  OBVIOUS
<1>1. CASE args = << >> \/ args[1] # "--profile"
  <2>1. ParseCli(args) = ParseCommand(NoOptions, args)
    BY <1>1 DEF ParseCli
  <2>2. Usage(args) <=> UsageOfCommand(args)
    BY <1>0, <1>1 DEF Usage
  <2>. QED BY <2>1, <2>2, NoOptionsFresh, CommandObeys
<1>2. CASE args # << >> /\ args[1] = "--profile"
  <2>1. ~UsageOfCommand(args)
    BY <1>2 DEF UsageOfCommand, Listings
  <2>2. CASE Len(args) = 1
    <3>1. ParseCli(args) = Invalid(NoOptions)
      BY <1>2, <2>2 DEF ParseCli
    <3>2. Invalid(NoOptions).mode = "invalid"
      BY NoOptionsFresh, ModeSet DEF Invalid, Texts, Fresh
    <3>3. ~(Len(args) >= 2)
      BY <2>2
    <3>. QED BY <2>1, <3>1, <3>2, <3>3 DEF Usage, Runs
  <2>3. CASE Len(args) # 1
    <3> DEFINE x == args[2]
               rest == SubSeq(args, 3, Len(args))
               p == [NoOptions EXCEPT !.profile = x]
    <3>1. Len(args) >= 2
      BY <1>0, <1>2, <2>3, Lengths, Zenon
    <3>2. ParseCli(args) = ParseCommand(p, rest)
      BY <1>2, <2>3 DEF ParseCli
    <3>3. x \in Texts /\ rest \in Seq(Texts)
      BY <3>1
    <3>4. Usage(args) <=> UsageOfCommand(rest)
      BY <1>2, <2>1, <3>1 DEF Usage
    <3>. HIDE DEF x, rest
    <3>5. Fresh(p)
      BY <3>3, NoOptionsFresh, ProfileSet
    <3>. HIDE DEF p
    <3>. QED BY <3>2, <3>3, <3>4, <3>5, CommandObeys
  <2>. QED BY <2>2, <2>3
<1>. QED BY <1>1, <1>2

(* What main dispatches on is what the parser made of the command line. *)
ArgumentsKept ==
  /\ phase \in {"parse", "dispatch"} => argv \in CommandLines
  /\ phase = "dispatch" => options = ParseCli(argv)

LEMMA KeepsArguments ==
  ASSUME ArgumentsKept, [ProgramNext]_all_vars
  PROVE  ArgumentsKept'
<1>. USE DEF ArgumentsKept, Enter, Exit, Dispatch, same, program_vars
<1>1. CASE Parse \/ RunAtOnce \/ RunInterfaces \/ RunKill \/ RunListing \/ RunConfigured
  BY <1>1 DEF Parse, RunAtOnce, RunInterfaces, RunKill, RunListing, RunConfigured
<1>2. CASE Configure \/ Configured \/ Diagnose \/ Diagnosed \/ CollectSockets
  BY <1>2 DEF Configure, Configured, Diagnose, Diagnosed, CollectSockets
<1>3. CASE Listed \/ DropFrom \/ Act \/ Done
  BY <1>3 DEF Listed, DropFrom, Act, Done
<1>4. CASE Exited \/ UNCHANGED all_vars
  BY <1>4 DEF Exited, all_vars
<1>. QED BY <1>1, <1>2, <1>3, <1>4 DEF ProgramNext

(* trfx_parse_cli and the handler of drop refuse exactly the command lines  *)
(* that are not in the usage, whatever the command line and however long.   *)
THEOREM CommandLineIsObeyed == ProgramSpec => []UsageIsObeyed
<1>1. ProgramInit => ArgumentsKept
  BY DEF ProgramInit, ArgumentsKept
<1>2. ArgumentsKept => UsageIsObeyed
  <2>. SUFFICES ASSUME ArgumentsKept, phase = "dispatch"
       PROVE  Usage(argv) = (/\ options.mode \notin {"invalid"}
                             /\ options.mode = "drop" => HasDropTarget)
    BY DEF UsageIsObeyed
  <2>1. options = ParseCli(argv) /\ argv \in Seq(Texts)
    BY ProgramAssumption, SequencesOfTexts DEF ArgumentsKept
  <2>2. Usage(argv) <=> Runs(options)
    BY <2>1, CliObeys
  <2>. QED BY <2>2 DEF Runs, HasDropTarget, Usage
<1>. QED BY <1>1, <1>2, KeepsArguments, PTL DEF ProgramSpec
=============================================================================
