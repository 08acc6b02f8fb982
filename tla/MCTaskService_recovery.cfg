SPECIFICATION Spec

CONSTANTS
  Key = {k}
  Value = {v}
  TaskID = {t}
  Node = {n1, n2}
  Request = {r1, r2}
  None = None
  AskedStatus = {"RUNNING", "SUCCESS"}
  MaxClock = 1
  MaxRestarts = 1
  MaxCutSnapshots = 1

SYMMETRY Symmetry

CONSTRAINT OneAfterTick

INVARIANTS
  TypeOK
  WorldIsReplayed
  DataIsReplayed

PROPERTIES
  UsesReplicatedLog

CHECK_DEADLOCK FALSE
