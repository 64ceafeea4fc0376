SPECIFICATION Spec
CONSTANTS
  StaticModules = {"memory"}
  CollectsUnderLock = {"memory"}
  TwoPhaseModules = {"processes"}
  OnePhaseModules = {"network"}
  NoModule = "no_module"
  FirstModule = "network"
  Keys = {"q", "c", "r", "t", "l", "h", "x", "resize"}
  Sizes <- MCWideLow
  AllocationMayFail = FALSE
  PopupMayFail = TRUE
INVARIANTS
  TypeOK
  PaneHasThread
  SupportFollowsLayout
  JoinsAreDefined
  PauseBalanced
  RefreshNotLost
