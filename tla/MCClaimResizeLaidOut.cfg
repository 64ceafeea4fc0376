SPECIFICATION Spec
CONSTANTS
  StaticModules = {"cpu"}
  CollectsUnderLock = {}
  TwoPhaseModules = {"processes"}
  OnePhaseModules = {"network"}
  NoModule = "no_module"
  FirstModule = "network"
  Keys = {"h", "resize"}
  Sizes <- MCWideLow
  AllocationMayFail = FALSE
  PopupMayFail = FALSE
INVARIANT ResizeIsLaidOut
