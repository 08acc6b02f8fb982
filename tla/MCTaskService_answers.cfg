SPECIFICATION Spec

CONSTANTS
  Key = {k}
  Value = {v}
  TaskID = {t}
  Node = {n1, n2}
  Request = {r1, r2}
  None = None
  AskedStatus = {"PENDING", "RUNNING", "SUCCESS", "CANCELLED"}
  MaxClock = 0
  MaxRestarts = 0
  MaxCutSnapshots = 0

SYMMETRY Symmetry

INVARIANTS
  ResponseIsTheResult

CHECK_DEADLOCK FALSE
