----------------------------- MODULE PayrollCycle -----------------------------
(***************************************************************************)
(* One payroll cycle of one company: app/services/payroll/                 *)
(* payroll_service.py (run_payroll, approve_cycle, mark_paid,              *)
(* cancel_cycle) and the cycle and adjustment endpoints of                 *)
(* app/router/enterprise/payroll/payroll.py.                               *)
(*                                                                         *)
(* Each endpoint loads the cycle row, checks its status in Python and later *)
(* writes.  No row is locked by the load and PostgreSQL runs at READ       *)
(* COMMITTED, so a request is a Load step and one or more later steps.  A  *)
(* run reads employee by employee, flushes its payslips (taking their row  *)
(* locks), sums the totals in its own view and commits.  The ORM writes    *)
(* only the columns whose value differs from the one it loaded.            *)
(*                                                                         *)
(* A payslip is reduced to its net pay, status and paid_at; the arithmetic *)
(* of compute_payslip is the subject of PayslipCalc.                       *)
(***************************************************************************)
EXTENDS Integers, FiniteSets, FiniteSetsExt

CONSTANTS
  Workers,      \* requests served at the same time
  Employees,    \* the company's employees
  Structures,   \* salary structures HR may put in force
  Timesheets,   \* contents an approved timesheet may have
  Adjustments,  \* one-time adjustments HR may attach to the cycle
  WorkingDays,  \* proration denominator of the period
  MaxEdits,     \* bound: changes of structures, timesheets and adjustments
  None,         \* no active structure, no approved timesheet
  Skip          \* no pay computed for an employee

\* A monthly structure pays amount for WorkingDays less lop; an hourly one pays
\* amount for each hour of the approved timesheet.
Structure == [hourly : BOOLEAN, amount : Nat, lop : Nat]
Timesheet == [lop : Nat, hours : Nat]
Adjustment == [id : Nat, employee : Employees, amount : Int]

ASSUME InputsAssumption ==
  /\ IsFiniteSet(Employees)
  /\ Structures \subseteq Structure
  /\ Timesheets \subseteq Timesheet
  /\ Adjustments \subseteq Adjustment
  /\ WorkingDays \in Nat \ {0}
  /\ MaxEdits \in Nat
  /\ None \notin Structures \cup Timesheets
  /\ Skip \notin Int

VARIABLES
  cycle,       \* the payroll_cycles row
  slips,       \* the payslips rows of the cycle, one per employee at most
  structure,   \* structure[e]: the active salary structure, or None
  timesheet,   \* timesheet[e]: the approved timesheet of the cycle, or None
  adjustments, \* the adjustments attached to the cycle and not deleted
  op,          \* op[w]: what worker w is serving, or "idle"
  seen,        \* seen[w]: the cycle row worker w loaded
  memo,        \* memo[w]: what a run has read and computed so far
  history,     \* which of "run", "approved", "paid" have ever been committed
  edits        \* number of changes made to the inputs

vars == <<cycle, slips, structure, timesheet, adjustments, op, seen, memo, history, edits>>

Statuses == {"DRAFT", "PROCESSING", "APPROVED", "PAID", "CANCELLED"}
Editable == {"DRAFT", "PROCESSING"}          \* _EDITABLE_CYCLE_STATUSES
Decisions == {"approve", "pay", "cancel", "delete"}
Requests == {"run", "add", "remove"} \cup Decisions

Totals == [headcount : Nat, net : Int, skipped : SUBSET Employees]
Slip == [exists : BOOLEAN, net : Int, paid : BOOLEAN, stamped : BOOLEAN]
NoSlip == [exists |-> FALSE, net |-> 0, paid |-> FALSE, stamped |-> FALSE]
NoTotals == [headcount |-> 0, net |-> 0, skipped |-> {}]
NewCycle == [status |-> "DRAFT", deleted |-> FALSE, totals |-> NoTotals]

\* A run's memory: the adjustments it read (an adjustment request: the one it
\* adds or removes), the employees still to compute, the
\* payslip it loaded for each (NoSlip: none), the net it computed (Skip: none),
\* whether the payslips are flushed, and the totals it summed.
NoMemo == [adj |-> {}, todo |-> {}, loaded |-> [e \in Employees |-> NoSlip],
           net |-> [e \in Employees |-> Skip], flushed |-> FALSE, totals |-> NoTotals]

TypeOK ==
  /\ cycle \in [status : Statuses, deleted : BOOLEAN, totals : Totals]
  /\ slips \in [Employees -> Slip]
  /\ structure \in [Employees -> Structures \cup {None}]
  /\ timesheet \in [Employees -> Timesheets \cup {None}]
  /\ adjustments \subseteq Adjustments
  /\ op \in [Workers -> Requests \cup {"idle"}]
  /\ seen \in [Workers -> [status : Statuses, deleted : BOOLEAN, totals : Totals]]
  /\ memo \in [Workers -> [adj : SUBSET Adjustments, todo : SUBSET Employees,
                           loaded : [Employees -> Slip], net : [Employees -> Int \cup {Skip}],
                           flushed : BOOLEAN, totals : Totals]]
  /\ history \subseteq {"run", "approved", "paid"}
  /\ edits \in 0 .. MaxEdits

Init ==
  /\ cycle = NewCycle
  /\ slips = [e \in Employees |-> NoSlip]
  /\ structure \in [Employees -> Structures \cup {None}]
  /\ timesheet = [e \in Employees |-> None]
  /\ adjustments = {}
  /\ op = [w \in Workers |-> "idle"]
  /\ seen = [w \in Workers |-> NewCycle]
  /\ memo = [w \in Workers |-> NoMemo]
  /\ history = {}
  /\ edits = 0

-------------------------------------------------------------------------------
(* Loading the cycle                                                       *)

\* _load_cycle and the status check of the endpoint.
Load(w, request, allowed) ==
  /\ op[w] = "idle"
  /\ ~cycle.deleted
  /\ cycle.status \in allowed
  /\ op' = [op EXCEPT ![w] = request]
  /\ seen' = [seen EXCEPT ![w] = cycle]

\* The request is answered and its session closed.
End(w) ==
  /\ op' = [op EXCEPT ![w] = "idle"]
  /\ seen' = [seen EXCEPT ![w] = NewCycle]
  /\ memo' = [memo EXCEPT ![w] = NoMemo]

\* What the ORM stores in a column it loaded as old and was assigned new.
Column(stored, old, new) == IF new = old THEN stored ELSE new

-------------------------------------------------------------------------------
(* run_payroll                                                             *)

\* Status check, the employees and the cycle's adjustments.
RunLoad(w) ==
  /\ Load(w, "run", Editable)
  /\ memo' = [memo EXCEPT ![w] = [NoMemo EXCEPT !.adj = adjustments, !.todo = Employees]]
  /\ UNCHANGED <<cycle, slips, structure, timesheet, adjustments, history, edits>>

AdjustmentTotal(adj, e) ==
  MapThenSumSet(LAMBDA a : a.amount, {a \in adj : a.employee = e})

\* The net pay of an employee, or Skip with a reason: no active structure, an
\* hourly structure without an approved timesheet, more LOP than working days.
NetPay(s, t, adj, e) ==
  LET lop == IF t = None THEN s.lop ELSE t.lop
  IN  CASE s = None -> Skip
        [] s # None /\ s.hourly /\ t = None -> Skip
        [] s # None /\ s.hourly /\ t # None ->
             s.amount * t.hours + AdjustmentTotal(adj, e)
        [] s # None /\ ~s.hourly /\ lop > WorkingDays -> Skip
        [] OTHER -> (s.amount * (WorkingDays - lop)) \div WorkingDays
                      + AdjustmentTotal(adj, e)

\* One iteration of the employee loop: structure, existing payslip, timesheet.
\* The existing payslip is read only for an employee with a structure.
RunEmployee(w, e) ==
  /\ op[w] = "run"
  /\ e \in memo[w].todo
  /\ memo' = [memo EXCEPT
       ![w].todo = @ \ {e},
       ![w].loaded[e] = IF structure[e] = None THEN NoSlip ELSE slips[e],
       ![w].net[e] = NetPay(structure[e], timesheet[e], memo[w].adj, e)]
  /\ UNCHANGED <<cycle, slips, structure, timesheet, adjustments, op, seen, history, edits>>

\* The row a flush of run m leaves for employee e.
SlipAfter(m, e) ==
  LET old == m.loaded[e]
      net == m.net[e]
  IN  IF net = Skip THEN slips[e]
      ELSE IF ~old.exists
      THEN [exists |-> TRUE, net |-> net, paid |-> FALSE, stamped |-> FALSE]
      ELSE [slips[e] EXCEPT !.net = Column(@, old.net, net),
                            !.paid = Column(@, old.paid, FALSE)]

\* The payslip rows whose lock a flush of run m takes.
Written(m) ==
  {e \in Employees :
     /\ m.net[e] # Skip
     /\ ~m.loaded[e].exists \/ m.loaded[e].net # m.net[e] \/ m.loaded[e].paid}

Locked(w) ==
  UNION {Written(memo[v]) : v \in {u \in Workers \ {w} : memo[u].flushed}}

\* INSERT of a payslip another run has committed meanwhile breaks
\* uq_payslip_cycle_employee.
InsertConflict(m) ==
  \E e \in Employees : m.net[e] # Skip /\ ~m.loaded[e].exists /\ slips[e].exists

\* What the run sees when it sums: its own objects for the payslips it has
\* loaded or made, the committed rows for the others.
View(m, e) ==
  IF m.net[e] # Skip THEN [exists |-> TRUE, net |-> m.net[e]]
  ELSE IF m.loaded[e].exists THEN [exists |-> TRUE, net |-> m.loaded[e].net]
  ELSE [exists |-> slips[e].exists, net |-> slips[e].net]

\* Mutants: every employee is counted; only this run's payslips are summed.
TotalsOfEveryone(m) ==
  LET present == {e \in Employees : View(m, e).exists}
  IN  [headcount |-> Cardinality(Employees),
       net       |-> MapThenSumSet(LAMBDA e : View(m, e).net, present),
       skipped   |-> {e \in Employees : m.net[e] = Skip}]
TotalsOfThisRun(m) ==
  LET present == {e \in Employees : m.net[e] # Skip}
  IN  [headcount |-> Cardinality(present),
       net       |-> MapThenSumSet(LAMBDA e : View(m, e).net, present),
       skipped   |-> Employees \ present]

TotalsOf(m) ==
  LET present == {e \in Employees : View(m, e).exists}
  IN  [headcount |-> Cardinality(present),
       net       |-> MapThenSumSet(LAMBDA e : View(m, e).net, present),
       skipped   |-> {e \in Employees : m.net[e] = Skip}]

\* flush, then the roll-up of the totals.  A flush waits for the row locks of
\* another run's flush.
RunFlush(w) ==
  /\ op[w] = "run"
  /\ memo[w].todo = {}
  /\ ~memo[w].flushed
  /\ ~InsertConflict(memo[w])
  /\ Locked(w) \cap Written(memo[w]) = {}
  /\ memo' = [memo EXCEPT ![w].flushed = TRUE, ![w].totals = TotalsOf(memo[w])]
  /\ UNCHANGED <<cycle, slips, structure, timesheet, adjustments, op, seen, history, edits>>

\* IntegrityError: the request fails and nothing of it is stored.
RunConflict(w) ==
  /\ op[w] = "run"
  /\ memo[w].todo = {}
  /\ ~memo[w].flushed
  /\ InsertConflict(memo[w])
  /\ End(w)
  /\ UNCHANGED <<cycle, slips, structure, timesheet, adjustments, history, edits>>

RunCommit(w) ==
  /\ op[w] = "run"
  /\ memo[w].flushed
  /\ slips' = [e \in Employees |-> SlipAfter(memo[w], e)]
  /\ cycle' = [cycle EXCEPT
       !.totals = Column(@, seen[w].totals, memo[w].totals),
       !.status = Column(@, seen[w].status, "PROCESSING")]
  /\ history' = history \cup {"run"}
  /\ End(w)
  /\ UNCHANGED <<structure, timesheet, adjustments, edits>>

-------------------------------------------------------------------------------
(* approve_cycle, mark_paid, cancel_cycle, delete_payroll_cycle            *)

\* Mutant: a cycle is paid straight from PROCESSING.
AllowedPayUnapproved(request) ==
  CASE request = "approve" -> {"PROCESSING"}
    [] request = "pay" -> {"PROCESSING", "APPROVED"}
    [] OTHER -> Statuses \ {"PAID"}

Allowed(request) ==
  CASE request = "approve" -> {"PROCESSING"}
    [] request = "pay" -> {"APPROVED"}
    [] OTHER -> Statuses \ {"PAID"}

DecideLoad(w) ==
  /\ \E request \in Decisions : Load(w, request, Allowed(request))
  /\ UNCHANGED <<cycle, slips, structure, timesheet, adjustments, memo, history, edits>>

Approve(w) ==
  /\ op[w] = "approve"
  /\ cycle' = [cycle EXCEPT !.status = "APPROVED"]
  /\ history' = history \cup {"approved"}
  /\ End(w)
  /\ UNCHANGED <<slips, structure, timesheet, adjustments, edits>>

\* Mutant: the bulk UPDATE of the payslips is forgotten.
MarkPaidStatusOnly(w) ==
  /\ op[w] = "pay"
  /\ cycle' = [cycle EXCEPT !.status = "PAID"]
  /\ history' = history \cup {"paid"}
  /\ End(w)
  /\ UNCHANGED <<slips, structure, timesheet, adjustments, edits>>

\* The bulk UPDATE stamps every committed payslip; it waits for rows that a
\* run's flush has locked.
MarkPaid(w) ==
  /\ op[w] = "pay"
  /\ \A e \in Locked(w) : ~slips[e].exists
  /\ slips' = [e \in Employees |->
                 IF slips[e].exists THEN [slips[e] EXCEPT !.paid = TRUE, !.stamped = TRUE]
                 ELSE slips[e]]
  /\ cycle' = [cycle EXCEPT !.status = "PAID"]
  /\ history' = history \cup {"paid"}
  /\ End(w)
  /\ UNCHANGED <<structure, timesheet, adjustments, edits>>

Cancel(w) ==
  /\ op[w] = "cancel"
  /\ cycle' = [cycle EXCEPT !.status = Column(@, seen[w].status, "CANCELLED")]
  /\ End(w)
  /\ UNCHANGED <<slips, structure, timesheet, adjustments, history, edits>>

Delete(w) ==
  /\ op[w] = "delete"
  /\ cycle' = [cycle EXCEPT !.deleted = TRUE]
  /\ End(w)
  /\ UNCHANGED <<slips, structure, timesheet, adjustments, history, edits>>

-------------------------------------------------------------------------------
(* The inputs of a run                                                     *)

\* add_cycle_adjustment and delete_adjustment check the status, then write.
AdjustLoad(w) ==
  /\ edits < MaxEdits
  /\ \E a \in Adjustments :
       /\ Load(w, IF a \in adjustments THEN "remove" ELSE "add", Editable)
       /\ memo' = [memo EXCEPT ![w].adj = {a}]
  /\ edits' = edits + 1
  /\ UNCHANGED <<cycle, slips, structure, timesheet, adjustments, history>>

AdjustCommit(w) ==
  /\ op[w] \in {"add", "remove"}
  /\ adjustments' = IF op[w] = "add" THEN adjustments \cup memo[w].adj
                    ELSE adjustments \ memo[w].adj
  /\ End(w)
  /\ UNCHANGED <<cycle, slips, structure, timesheet, history, edits>>

\* HR creates, edits or deletes a structure; no cycle is consulted.
SetStructure(e) ==
  /\ edits < MaxEdits
  /\ \E s \in Structures \cup {None} :
       /\ s # structure[e]
       /\ structure' = [structure EXCEPT ![e] = s]
  /\ edits' = edits + 1
  /\ UNCHANGED <<cycle, slips, timesheet, adjustments, op, seen, memo, history>>

\* A timesheet of the cycle is approved or reopened, whatever the cycle's status.
SetTimesheet(e) ==
  /\ edits < MaxEdits
  /\ \E t \in Timesheets \cup {None} :
       /\ (t = None) # (timesheet[e] = None)
       /\ timesheet' = [timesheet EXCEPT ![e] = t]
  /\ edits' = edits + 1
  /\ UNCHANGED <<cycle, slips, structure, adjustments, op, seen, memo, history>>

\* A request dies before its commit: its transaction is rolled back.
Abandon(w) ==
  /\ op[w] # "idle"
  /\ End(w)
  /\ UNCHANGED <<cycle, slips, structure, timesheet, adjustments, history, edits>>

Next ==
  \/ \E w \in Workers :
       \/ RunLoad(w) \/ RunFlush(w) \/ RunConflict(w) \/ RunCommit(w)
       \/ \E e \in Employees : RunEmployee(w, e)
       \/ DecideLoad(w) \/ Approve(w) \/ MarkPaid(w) \/ Cancel(w) \/ Delete(w)
       \/ AdjustLoad(w) \/ AdjustCommit(w) \/ Abandon(w)
  \/ \E e \in Employees : SetStructure(e) \/ SetTimesheet(e)

Spec == Init /\ [][Next]_vars

-------------------------------------------------------------------------------
(* Whatever the interleaving                                               *)

(* Money is never released without a committed approval, and nothing is    *)
(* approved that was not run: paid payslips and the PAID and APPROVED      *)
(* states each need the earlier decision, also when requests that loaded   *)
(* an older state commit late.                                             *)
PaidWasApproved ==
  /\ (cycle.status = "PAID" \/ \E e \in Employees : slips[e].stamped)
        => {"run", "approved", "paid"} \subseteq history
  /\ cycle.status = "APPROVED" => {"run", "approved"} \subseteq history

(* The headcount never exceeds the payslips there are, even when two runs  *)
(* sum before either has committed.                                        *)
HeadcountIsBacked ==
  cycle.totals.headcount <= Cardinality({e \in Employees : slips[e].exists})

-------------------------------------------------------------------------------
(* When requests do not overlap                                            *)

Lifecycle == INSTANCE PayrollLifecycle WITH
  status  <- cycle.status,
  deleted <- cycle.deleted,
  pay     <- [e \in Employees |-> IF slips[e].exists THEN {slips[e].net} ELSE {}],
  paid    <- {e \in Employees : slips[e].paid},
  extras  <- adjustments

(* The cycle goes DRAFT, PROCESSING, APPROVED, PAID; payslips and          *)
(* adjustments change only before the approval, and all payslips are paid  *)
(* together.                                                               *)
LifecycleSpec == Lifecycle!Spec

(* After any run the totals are those of the payslips on file, including   *)
(* payslips of employees this run skipped.                                 *)
TotalsMatchPayslips ==
  LET present == {e \in Employees : slips[e].exists}
  IN  "run" \in history =>
        /\ cycle.totals.headcount = Cardinality(present)
        /\ cycle.totals.net = MapThenSumSet(LAMBDA e : slips[e].net, present)

-------------------------------------------------------------------------------
(* What the documentation says                                             *)

(* run_payroll on totals.skipped: "Who this run left out, and why",        *)
(* "why wasn't this person paid?".                                         *)
SkippedAreNotPaid ==
  cycle.status = "PAID" => \A e \in cycle.totals.skipped : ~slips[e].paid
===============================================================================
