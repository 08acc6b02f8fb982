SPECIFICATION LedSpec

CONSTANTS
  Server = {s1, s2, s3}
  Command = {x, y}
  Nil = Nil
  SnapshotThreshold = 1
  DefaultSnapshotThreshold = 3
  MaxTerm = 1
  MaxLogIndex = 3
  MaxCalls = 1
  MaxRestarts = 0

SYMMETRY Symmetry

INVARIANTS
  StateMachineSafety

CHECK_DEADLOCK FALSE
