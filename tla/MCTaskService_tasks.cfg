SPECIFICATION Spec

CONSTANTS
  Key = {}
  Value = {v}
  TaskID = {t}
  Node = {n1, n2}
  Request = {r1, r2, r3}
  None = None
  AskedStatus = {"RUNNING", "SUCCESS", "CANCELLED"}
  MaxClock = 0
  MaxRestarts = 1
  MaxCutSnapshots = 0

SYMMETRY Symmetry

INVARIANTS
  OneOutcome
  SuccessWasTrue

CHECK_DEADLOCK FALSE
