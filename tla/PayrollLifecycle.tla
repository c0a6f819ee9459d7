--------------------------- MODULE PayrollLifecycle ---------------------------
(***************************************************************************)
(* What a payroll cycle promises: it is run, approved and paid in that     *)
(* order; runs and adjustments touch it only before the approval; payment   *)
(* covers every payslip at once; a cycle that is not yet paid can be cancelled or       *)
(* deleted, and a deleted one is left alone.                               *)
(***************************************************************************)
CONSTANTS Employees, Adjustments

VARIABLES
  status,  \* state of the cycle
  deleted, \* soft-deleted
  pay,     \* pay[e]: {} or {the net pay of e}
  paid,    \* employees whose payslip has been paid
  extras   \* the one-time adjustments attached to the cycle

state == <<status, deleted, pay, paid, extras>>

Init ==
  /\ status = "DRAFT"
  /\ deleted = FALSE
  /\ pay = [e \in Employees |-> {}]
  /\ paid = {}
  /\ extras = {}

\* A run may change any pay but withdraws no payslip.
Run ==
  /\ status \in {"DRAFT", "PROCESSING"}
  /\ status' = "PROCESSING"
  /\ \A e \in Employees : pay[e] # {} => pay'[e] # {}
  /\ UNCHANGED <<deleted, paid, extras>>

\* What a run will add or take off, attached or taken back.
Adjust ==
  /\ status \in {"DRAFT", "PROCESSING"}
  /\ extras' \in SUBSET Adjustments
  /\ UNCHANGED <<status, deleted, pay, paid>>

Approve ==
  /\ status = "PROCESSING"
  /\ status' = "APPROVED"
  /\ UNCHANGED <<deleted, pay, paid, extras>>

Pay ==
  /\ status = "APPROVED"
  /\ status' = "PAID"
  /\ paid' = {e \in Employees : pay[e] # {}}
  /\ UNCHANGED <<deleted, pay, extras>>

Cancel ==
  /\ status # "PAID"
  /\ status' = "CANCELLED"
  /\ UNCHANGED <<deleted, pay, paid, extras>>

Delete ==
  /\ status # "PAID"
  /\ deleted' = TRUE
  /\ UNCHANGED <<status, pay, paid, extras>>

Next == ~deleted /\ (Run \/ Adjust \/ Approve \/ Pay \/ Cancel \/ Delete)

Spec == Init /\ [][Next]_state
===============================================================================
