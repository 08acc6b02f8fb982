SPECIFICATION ProtocolSpec

CONSTANTS
  Server = {s1, s2, s3}
  Command = {}
  Nil = Nil
  SnapshotThreshold = 10
  DefaultSnapshotThreshold = 3
  MaxTerm = 2
  MaxLogIndex = 1
  MaxCalls = 2
  MaxRestarts = 1

SYMMETRY Symmetry

INVARIANTS
  ElectionSafety
  ElectionInv

PROPERTIES
  VoteIsKept

CHECK_DEADLOCK FALSE
