SPECIFICATION DivergedSpec

CONSTANTS
  Server = {s1, s2, s3}
  Command = {x}
  Nil = Nil
  SnapshotThreshold = 10
  DefaultSnapshotThreshold = 3
  MaxTerm = 3
  MaxLogIndex = 3
  MaxCalls = 2
  MaxRestarts = 0

SYMMETRY Symmetry

INVARIANTS
  LogMatching
  LeaderCompleteness
  MatchIndexIsTrue

PROPERTIES
  CommittedIsKept

CHECK_DEADLOCK FALSE
