----------------------------- MODULE SheetLifecycle -----------------------------
(***************************************************************************)
(* What timesheet_service promises of the sheets of a cycle: each is       *)
(* drafted, submitted by a maker and decided by a checker in single steps, *)
(* and its grid is fixed from the submission to the next reopening.        *)
(***************************************************************************)
CONSTANTS
  Employees,  \* owners of the sheets
  Users,      \* makers and checkers
  Enforce,    \* must checker and maker differ?
  Nobody      \* no checker

VARIABLES status, grid, maker, checker

sheet == <<status, grid, maker, checker>>

Init ==
  /\ status = [e \in Employees |-> "NONE"]
  /\ grid = [e \in Employees |-> <<>>]
  /\ maker = [e \in Employees |-> Nobody]
  /\ checker = [e \in Employees |-> Nobody]

Keeps(e) == grid'[e] = grid[e] /\ maker'[e] = maker[e]

Create(e) ==
  /\ status[e] = "NONE" /\ status'[e] = "DRAFT"
  /\ maker'[e] = maker[e] /\ checker'[e] = checker[e]

Change(e) ==
  /\ status[e] \in {"DRAFT", "REJECTED"} /\ status'[e] = status[e]
  /\ maker'[e] = maker[e] /\ checker'[e] = checker[e]

Submit(e) ==
  /\ status[e] \in {"DRAFT", "REJECTED"} /\ status'[e] = "SUBMITTED"
  /\ maker'[e] \in Users
  /\ grid'[e] = grid[e] /\ checker'[e] = Nobody

Approve(e) ==
  /\ status[e] = "SUBMITTED" /\ status'[e] = "APPROVED"
  /\ checker'[e] \in Users
  /\ Enforce => checker'[e] # maker[e]
  /\ Keeps(e)

Reject(e) ==
  /\ status[e] = "SUBMITTED" /\ status'[e] = "REJECTED"
  /\ checker'[e] = Nobody
  /\ Keeps(e)

Reopen(e) ==
  /\ status[e] \in {"SUBMITTED", "APPROVED"} /\ status'[e] = "DRAFT"
  /\ checker'[e] = Nobody
  /\ Keeps(e)

\* A batch may change several sheets at once, each in its own way.
Next ==
  \A e \in Employees :
    \/ Create(e) \/ Change(e) \/ Submit(e) \/ Approve(e) \/ Reject(e) \/ Reopen(e)
    \/ Keeps(e) /\ status'[e] = status[e] /\ checker'[e] = checker[e]

Spec == Init /\ [][Next]_sheet
===============================================================================
