SPECIFICATION LivenessSpec

CONSTANTS
  Server = {s1, s2, s3}
  Command = {x, y}
  Nil = Nil
  SnapshotThreshold = 10
  DefaultSnapshotThreshold = 3
  MaxTerm = 4
  MaxLogIndex = 3
  MaxCalls = 3
  MaxRestarts = 0
  MaxLost = 1
  MaxCallsPerPeer = 2

PROPERTIES
  LeaderIsEstablished
  EntriesSpread
  ClientsAreAnswered

CHECK_DEADLOCK FALSE
