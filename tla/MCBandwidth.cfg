SPECIFICATION Spec
CONSTANTS
  HISTORY = 4
  Interfaces = {eth0, wlan0}
  Modulus = 2
  MaxBytes = 1
  Times <- MCTimes
  Absent = Absent
  Unused = Unused
  Unit = 24
  POINTS = 2
  FLOWS = 2
  Processes = {"p", "q", "r"}
  MaxSockets = 4
SYMMETRY MCSymmetry
INVARIANTS
  TypeOK
  RingIsLatest
  NoPhantomBytes
  TrafficIsSeen
  TrendEndsInReport
  FlowsShareTotal
