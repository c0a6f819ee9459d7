SPECIFICATION OfficeSpec
SYMMETRY Symmetry
\* The budgets of loans, exits, edits, rows and forms run out.
CHECK_DEADLOCK FALSE
CONSTANTS
  Desks = {d1, d2}
  Idle = Idle
  Undrawn = Undrawn
  Rules <- MCRules
  Claims <- MCClaims
  Staff = {s1}
  Assets = {a1}
  Conditions = {"good", "not_returned"}
  Statuses = {"available"}
  MaxLoans = 2
  MaxExits = 1
  LastTime = 4
  Shift <- MCShift
  Marks <- MCMarks
  MaxEdits = 3
  MaxRequests = 1
  Payees = {"e1", "e2"}
  Batches <- MCBatches
  MaxTerms = 3
  YearOf <- MCYearOf
  MaxRows = 2
  Originals = {"o1", "o2"}
  MaxSaves = 4
  Groups <- MCGroups
  Boss <- MCBoss
  MaxForms = 3
  MaxEditions = 1
  MaxDrills = 1
  MaxSessions = 1
  Candidates = {"c1"}
  Others = {"o"}
  TypedCodes = {0, 2}
  StatusRows = {"In Progress", "Awaiting Confirmation", "Completed"}
  MaxRoster = 3
  MaxAmends = 1
INVARIANTS
  RegisterAgrees
  ExitClosedClean
  PunchesAddUp
  PayslipAddsUp
  TaxIsSettled
  DocumentHoldsTogether
  CompletedIsEarned
PROPERTIES
  PayIsNotDropped
  ImportsKeepOtherYears
  CodesAreNotReissued
