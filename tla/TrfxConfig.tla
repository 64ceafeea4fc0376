----------------------------- MODULE TrfxConfig -----------------------------
(***************************************************************************)
(* The runtime configuration (src/trfx_config.c): defaults, then the lines *)
(* of the configuration file, then those of the profile.  The dashboard    *)
(* and the diagnostics command load it once, before anything else.         *)
(*                                                                         *)
(* A line is what strtok and the trimming leave of it: a key and a value.  *)
(* A value is a number, a word that stands for a boolean, or junk; n is    *)
(* the number, what the word stands for, or what atoi makes of the junk.   *)
(***************************************************************************)
EXTENDS Integers, Sequences

CONSTANTS
  ConfigLines,   \* the lines a file may hold that are neither empty nor comments
  MaxLines       \* bound: lines of the base file, and half of those of both

Unbounded == {"TEMP_WARN_YELLOW", "TEMP_WARN_RED"}
Switches  == {"ALERT_REQUIRE_DEFAULT_ROUTE", "ALERT_REQUIRE_DNS", "SHOW_TOP_PANELS"}

Default ==
  [TEMP_WARN_YELLOW            |-> 50,
   TEMP_WARN_RED               |-> 75,
   ALERT_MEMORY_WARN_PERCENT   |-> 90,
   ALERT_DISK_WARN_PERCENT     |-> 90,
   ALERT_REQUIRE_DEFAULT_ROUTE |-> 1,
   ALERT_REQUIRE_DNS           |-> 1,
   SHOW_TOP_PANELS             |-> 1,
   TUI_REFRESH_INTERVAL_MS     |-> 1000,
   TUI_PAUSE_INTERVAL_MS       |-> 100,
   TUI_READY_CHECK_INTERVAL_MS |-> 10,
   TUI_SMALL_PANEL_REFRESH_MS  |-> 2000]

Limits ==
  [TEMP_WARN_YELLOW            |-> Int,
   TEMP_WARN_RED               |-> Int,
   ALERT_MEMORY_WARN_PERCENT   |-> 1 .. 100,
   ALERT_DISK_WARN_PERCENT     |-> 1 .. 100,
   ALERT_REQUIRE_DEFAULT_ROUTE |-> 0 .. 1,
   ALERT_REQUIRE_DNS           |-> 0 .. 1,
   SHOW_TOP_PANELS             |-> 0 .. 1,
   TUI_REFRESH_INTERVAL_MS     |-> 250 .. 10000,
   TUI_PAUSE_INTERVAL_MS       |-> 25 .. 1000,
   TUI_READY_CHECK_INTERVAL_MS |-> 1 .. 250,
   TUI_SMALL_PANEL_REFRESH_MS  |-> 250 .. 10000]

SettingNames == DOMAIN Default

ASSUME ConfigAssumption ==
  /\ ConfigLines \subseteq [key : STRING, kind : {"number", "word", "junk"}, n : Int]
  /\ \A line \in ConfigLines : line.kind = "word" /\ line.key \in Unbounded => line.n = 0
  /\ MaxLines \in Nat

VARIABLES
  settings,      \* the global variables
  config_pc,     \* where trfx_load_runtime_config is
  config_read    \* the lines read so far, of both files

config_vars == <<settings, config_pc, config_read>>

ConfigTypeOK ==
  /\ settings \in [SettingNames -> Int]
  /\ config_pc \in {"idle", "base", "profile", "loaded", "refused", "in_use"}
  /\ config_read \in Seq(ConfigLines)

ConfigInit ==
  /\ settings = Default
  /\ config_pc = "idle"
  /\ config_read = <<>>

-----------------------------------------------------------------------------
(* parse_bounded_int and, for the switches, parse_bool and then it. *)
Accepted(line) ==
  /\ line.kind = "number" \/ (line.kind = "word" /\ line.key \in Switches)
  /\ line.n \in Limits[line.key]

(* Mutant for Parsed: a refused value leaves the setting as it is. *)
ParsedOrKept(line) ==
  IF line.key \in Unbounded \/ Accepted(line) THEN line.n ELSE settings[line.key]

(* What the line makes of its setting: a refused value gives the built-in   *)
(* default, whatever the setting was; the temperatures are atoi's result.   *)
Parsed(line) ==
  IF line.key \in Unbounded \/ Accepted(line) THEN line.n ELSE Default[line.key]

(* read_config.  A file that cannot be opened has no lines. *)
ReadLine(line) ==
  /\ config_pc \in {"base", "profile"}
  /\ Len(config_read) < (IF config_pc = "base" THEN MaxLines ELSE 2 * MaxLines)
  /\ settings' = IF line.key \in SettingNames
                 THEN [settings EXCEPT ![line.key] = Parsed(line)]
                 ELSE settings
  /\ config_read' = Append(config_read, line)
  /\ UNCHANGED config_pc

LoadConfig ==
  /\ config_pc = "idle"
  /\ config_pc' = "base"
  /\ UNCHANGED <<settings, config_read>>

(* build_profile_path needs a name of letters, digits and three marks and a *)
(* directory from the environment, and the path must fit; fopen then needs  *)
(* the file.  What was read of the base file stays read.                    *)
EndOfBase(profile, usable) ==
  /\ config_pc = "base"
  /\ config_pc' = IF profile = "" THEN "loaded"
                  ELSE IF usable THEN "profile" ELSE "refused"
  /\ UNCHANGED <<settings, config_read>>

(* The file was opened once to see that it is there and is opened again to  *)
(* be read, so it may have no lines by now.                                 *)
EndOfProfile ==
  /\ config_pc = "profile"
  /\ config_pc' = "loaded"
  /\ UNCHANGED <<settings, config_read>>

(* The caller goes on with the settings; of the lines nothing is kept. *)
UseSettings ==
  /\ config_pc = "loaded"
  /\ config_pc' = "in_use"
  /\ config_read' = <<>>
  /\ UNCHANGED settings

(* Loading as one component, for a caller that asks for profile. *)
ConfigStep(profile) ==
  \/ \E line \in ConfigLines : ReadLine(line)
  \/ \E usable \in BOOLEAN : EndOfBase(profile, usable)
  \/ EndOfProfile

ConfigNext == LoadConfig \/ UseSettings \/ \E profile \in {"", "saved"} : ConfigStep(profile)

ConfigSpec == ConfigInit /\ [][ConfigNext]_config_vars

-----------------------------------------------------------------------------
(* What line i of those read says of its setting, by itself. *)
Says(i) ==
  LET line == config_read[i] IN
  IF line.key \in Unbounded \/ Accepted(line) THEN line.n ELSE Default[line.key]

LinesAbout(name) == {i \in DOMAIN config_read : config_read[i].key = name}

(* Each setting is what the last line about it says, a line of the profile  *)
(* before any line of the base file, and what no file mentions has its      *)
(* default.  In particular a value that the profile misspells does not let  *)
(* the base file's through.                                                 *)
SettingsAreTheLastWord ==
  config_pc # "in_use" =>
    \A name \in SettingNames :
      /\ LinesAbout(name) = {} => settings[name] = Default[name]
      /\ \A i \in LinesAbout(name) :
           (\A j \in LinesAbout(name) : j <= i) => settings[name] = Says(i)

(* Every bounded setting is within the limits its parser was given: the     *)
(* intervals the workers sleep for are never zero or negative.              *)
SettingsWithinLimits == \A name \in SettingNames : settings[name] \in Limits[name]
=============================================================================
