SPECIFICATION LedSpec

CONSTANTS
  Server = {s1, s2, s3}
  Command = {x}
  Nil = Nil
  SnapshotThreshold = 1
  DefaultSnapshotThreshold = 3
  MaxTerm = 1
  MaxLogIndex = 2
  MaxCalls = 1
  MaxRestarts = 1

SYMMETRY Symmetry

INVARIANTS
  TypeOK
  FilesCoverTheMachine

CHECK_DEADLOCK FALSE
