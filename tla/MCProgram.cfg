SPECIFICATION ProgramSpec
CONSTANTS
  CommandLines <- MCCommandLines
  TRFX_ACTION_AUDIT_MAX = 2
  Results <- MCResults
  Unused = Unused
  Pids = {"12"}
  ProcNames = {"self"}
  Processes = {"shell", "daemon"}
  NoProcess = "no_process"
  Owner <- MCOwner
  Root = "root"
  Uids = {"root", "user"}
  MaxActions = 3
  ConfigLines <- MCConfigLines
  MaxLines = 1
  Interfaces = {"lo", "wg0"}
  Skipped = {"lo"}
  Vpns = {"wg0"}
  NoInterface = "N/A"
  Readings <- MCReadings
  TRFX_DIAGNOSTICS_MAX_LOG_LINES = 2
  MaxLogLines = 3
  Sockets <- MCSockets
  Socket <- MCSocket
  Readable = {"12"}
  MAX_CONNECTIONS = 2
  MAX_SOCKET_OWNERS = 1
  MAX_SOCKET_OWNER_MAP_ENTRIES = 2
  MaxChanges = 1
INVARIANTS
  TypeOK
  HeldEntryIntact
  ResultIsNewest
  StatusMeansDone
  
  UsageIsObeyed
  SettingsAreTheLastWord
  
  LogsAreTheNewest
PROPERTIES
  OnlyWhenConfirmed
  AuditIsLog
