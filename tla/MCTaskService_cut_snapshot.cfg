SPECIFICATION Spec

CONSTANTS
  Key = {}
  Value = {v}
  TaskID = {t}
  Node = {n1, n2}
  Request = {r1, r2, r3}
  None = None
  AskedStatus = {"PENDING", "RUNNING", "SUCCESS"}
  MaxClock = 0
  MaxRestarts = 1
  MaxCutSnapshots = 1

SYMMETRY Symmetry

INVARIANTS
  CaughtUpNodesAgree

CHECK_DEADLOCK FALSE
