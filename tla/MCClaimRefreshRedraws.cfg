SPECIFICATION Spec
CONSTANTS
  StaticModules = {"cpu"}
  CollectsUnderLock = {}
  TwoPhaseModules = {"processes"}
  OnePhaseModules = {"network"}
  NoModule = "no_module"
  FirstModule = "network"
  Keys = {"r"}
  Sizes <- MCWide
  AllocationMayFail = FALSE
  PopupMayFail = FALSE
INVARIANT RefreshRedraws
