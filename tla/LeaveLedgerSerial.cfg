SPECIFICATION Spec
\* Nothing is left to ask once every request is filed and decided.
CHECK_DEADLOCK FALSE
CONSTANTS
  Workers = {w1}
  w1 = w1
  Types = {t1}
  t1 = t1
  Rules <- MCSerialRules
  Retyped = {}
  Requests = {r1, r2}
  r1 = r1
  r2 = r2
  Users = {hr, emp}
  hr = hr
  emp = emp
  Spans <- MCSpans
  Off = {2}
  Enforce = TRUE
  MaxEdits = 2
  NoType = NoType
  Nobody = Nobody
SYMMETRY SerialSymmetry
INVARIANTS
  NoDayTwice
  NoOverdraft
PROPERTIES
  AccountSpec
