SPECIFICATION Spec
\* Nothing is left to ask once the cycle is closed and the edits are used up.
CHECK_DEADLOCK FALSE
CONSTANTS
  Workers = {w1}
  Employees = {e1, e2}
  Hourly = {e2}
  Days = {1, 2}
  Off = {2}
  Future = {}
  Users = {u1, u2}
  Enforce = TRUE
  HRStatuses = {}
  LeaveTypes = {"casual"}
  LeaveAsks <- MCHalfAsks
  HourValues = {8}
  Imports <- MCImports
  MaxEdits = 2
  Nobody = Nobody
  None = None
SYMMETRY SerialSymmetry
INVARIANTS AggregatesAgree LeaveIsStamped
PROPERTIES LifecycleSpec
