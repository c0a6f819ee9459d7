SPECIFICATION Spec
\* Nothing is left to ask once the cycle is closed and the edits are used up.
CHECK_DEADLOCK FALSE
CONSTANTS
  Workers = {w1, w2}
  Employees = {e1}
  Hourly = {}
  Days = {1}
  Off = {}
  Future = {}
  Users = {u1, u2}
  Enforce = TRUE
  HRStatuses = {"PAID_LEAVE", "WFH"}
  LeaveTypes = {"casual"}
  LeaveAsks <- MCDayAsks
  HourValues = {}
  Imports <- MCNoImports
  MaxEdits = 2
  Nobody = Nobody
  None = None
SYMMETRY Symmetry
INVARIANTS PaidLeaveIsGranted DecidedWasSubmitted
