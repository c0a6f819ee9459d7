SPECIFICATION Spec
\* Nothing can be asked of a deleted cycle, nor of the inputs at their bound.
CHECK_DEADLOCK FALSE
CONSTANTS
  Workers = {w1}
  w1 = w1
  e1 = e1
  e2 = e2
  Employees = {e1, e2}
  Structures <- MCStructures
  Timesheets <- MCTimesheets
  Adjustments <- MCBonus
  WorkingDays = 2
  MaxEdits = 3
  None = None
  Skip = Skip
INVARIANTS
  TotalsMatchPayslips
PROPERTIES
  LifecycleSpec
