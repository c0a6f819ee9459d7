SPECIFICATION Spec
\* Nothing is left to ask once every request is filed and decided.
CHECK_DEADLOCK FALSE
CONSTANTS
  Workers = {w1, w2}
  w1 = w1
  w2 = w2
  Types = {t1}
  t1 = t1
  Rules <- MCRules
  Retyped = {t1}
  Requests = {r1, r2}
  r1 = r1
  r2 = r2
  Users = {hr, emp}
  hr = hr
  emp = emp
  Spans <- MCTwoSpans
  Off = {2}
  Enforce = TRUE
  MaxEdits = 1
  NoType = NoType
  Nobody = Nobody
SYMMETRY Symmetry
INVARIANTS
  ApprovedByAnother
  AccruedWithinQuota
