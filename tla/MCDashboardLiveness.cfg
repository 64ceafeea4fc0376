SPECIFICATION FairSpec
CONSTANTS
  StaticModules = {"cpu"}
  CollectsUnderLock = {}
  TwoPhaseModules = {}
  OnePhaseModules = {"network"}
  NoModule = "no_module"
  FirstModule = "network"
  Keys = {"q", "c", "r", "t", "p"}
  Sizes <- MCWide
  AllocationMayFail = FALSE
  PopupMayFail = FALSE
PROPERTIES
  QuitTerminates
  JoinsReturn
  PauseSettles
  IdleBecomesFresh
