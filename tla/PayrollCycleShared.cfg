SPECIFICATION Spec
\* Nothing can be asked of a deleted cycle, nor of the inputs at their bound.
CHECK_DEADLOCK FALSE
CONSTANTS
  Workers = {w1, w2}
  w1 = w1
  w2 = w2
  e1 = e1
  e2 = e2
  Employees = {e1, e2}
  Structures <- MCMonthly
  Timesheets <- MCLossOfPay
  Adjustments <- MCBonus
  WorkingDays = 2
  MaxEdits = 2
  None = None
  Skip = Skip
SYMMETRY Symmetry
INVARIANTS
  PaidWasApproved
  HeadcountIsBacked
