SPECIFICATION Spec
CONSTANTS
  StaticModules = {"cpu"}
  CollectsUnderLock = {}
  TwoPhaseModules = {"processes"}
  OnePhaseModules = {"network"}
  NoModule = "no_module"
  FirstModule = "network"
  Keys = {"q", "c", "t", "p", "resize"}
  Sizes <- MCWideTiny
  AllocationMayFail = TRUE
  PopupMayFail = TRUE
INVARIANTS PaneInv NoUseAfterDelete
PROPERTIES ReplacedOnlyAfterJoin PaneLifecycle
