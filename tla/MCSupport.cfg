SPECIFICATION FairSpec
CONSTANTS
  ViewCount = 2
  Direct = {1}
  NoView = NoView
  Modules = {"network", "connections", "processes"}
  TALKERS = 2
  MaxRows = 3
INVARIANTS
  TypeOK
  FocusInRange
  RequestServed
PROPERTIES
  FocusIsTheUsers
  SelectionIsShown
