SPECIFICATION RefinementSpec

CONSTANTS
  Server = {s1, s2, s3}
  Command = {x, y}
  Nil = Nil
  SnapshotThreshold = 10
  DefaultSnapshotThreshold = 3
  MaxTerm = 2
  MaxLogIndex = 3
  MaxCalls = 1
  MaxRestarts = 1

SYMMETRY Symmetry

INVARIANTS
  StateMachineSafety
  AckedSurvives
  WaitingIsPending

PROPERTIES
  ImplementsReplicatedLog

CHECK_DEADLOCK FALSE
