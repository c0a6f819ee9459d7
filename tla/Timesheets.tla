------------------------------- MODULE Timesheets -------------------------------
(***************************************************************************)
(* The timesheets of one payroll cycle: app/services/payroll/              *)
(* timesheet_service.py with the endpoints of timesheets.py, and the       *)
(* resync that the endpoints of leave.py and me.py run after a decision.   *)
(*                                                                         *)
(* A request loads a sheet with its entries, checks the statuses of sheet  *)
(* and cycle, and later commits; nothing is locked by the load and the ORM *)
(* writes only the columns that differ from what it loaded, so a request   *)
(* is a load step and a commit step.  A request reads other rows (cycle,   *)
(* calendar, approved leave) after the sheet; reading them together with   *)
(* it leaves out no outcome, because each is used with the sheet as loaded *)
(* and a later read only sees more of what other requests committed.  (The *)
(* leave and its types are two SELECTs; that the one changes after the     *)
(* first and the other before the second is left out.)                     *)
(*                                                                         *)
(* The leave ledger is LeaveLedger's; here a decision changes the days on  *)
(* approved leave.  Whether leave is paid is a column of its type, read    *)
(* anew whenever a sheet is stamped (get_approved_leave_days), so HR may   *)
(* change it under leave that was approved.  LOP and worked days are       *)
(* counted in half-days.                                                   *)
(***************************************************************************)
EXTENDS Integers, FiniteSets, FiniteSetsExt

CONSTANTS
  Workers,    \* requests served at the same time
  Employees,  \* the company's employees
  Hourly,     \* those whose sheet is in HOURLY mode
  Days,       \* the days of the cycle
  Off,        \* weekly-offs and holidays
  Future,     \* days after today
  Users,      \* HR users, who may also be the employees themselves
  Enforce,    \* enforce_maker_checker
  LeaveTypes, \* the company's types of leave
  LeaveAsks,  \* what may be asked for on a day: a type, and half a day or all of it
  HRStatuses, \* statuses HR gives to days
  HourValues, \* hours that may be logged on a day
  Imports,    \* rows of an attendance file
  MaxEdits,   \* bound: edits, imports, leave decisions and changes of a type
  Nobody,     \* no submitter, no approver
  None        \* an item that leaves a field alone, no leave, no row

Leave == {"PAID_LEAVE", "UNPAID_LEAVE", "HALF_DAY", "HALF_DAY_PAID"}
PaidLeave == {"PAID_LEAVE", "HALF_DAY_PAID"}
NonWorking == {"WEEKLY_OFF", "HOLIDAY"}
DayStatus == {"PRESENT", "WFH"} \cup Leave \cup NonWorking

\* A row of an imported file: a day, the status its token maps to or None, and
\* the hours it gives, None, or a value that cannot be used.
BadHours == -1
ImportRow == [day : Days, status : {"PRESENT", "WFH", "HALF_DAY", "UNPAID_LEAVE", None},
              hours : HourValues \cup {BadHours, None}]

ASSUME InputsAssumption ==
  /\ IsFiniteSet(Days)
  /\ Hourly \subseteq Employees
  /\ Off \subseteq Days /\ Future \subseteq Days
  /\ Nobody \notin Users
  /\ Enforce \in BOOLEAN
  /\ LeaveAsks \subseteq [type : LeaveTypes, half : BOOLEAN]
  /\ HRStatuses \subseteq DayStatus
  /\ HourValues \subseteq Nat
  /\ None \notin DayStatus
  /\ Imports \subseteq ImportRow
  /\ MaxEdits \in Nat

VARIABLES
  sheets,    \* sheets[e]: the timesheet of employee e, or NoSheet
  cycleOpen, \* is the cycle DRAFT or PROCESSING?
  leave,     \* leave[e][d]: the approved leave of employee e on day d, or None
  paid,      \* paid[t]: does leave of type t count as paid now?
  op,        \* op[w]: what worker w is serving, or "idle"
  task,      \* task[w]: the employees concerned, the actor, the sheets loaded
             \*   and those about to be stored
  submitter, \* submitter[e]: who last submitted the sheet of e
  byHand,    \* byHand[e]: days whose status was last changed by HR, e or a file
  half,      \* half[e]: does the sheet hold a status from a row that was skipped?
  unsynced,  \* unsynced[e]: has leave been decided, or its type changed, since the
             \*   sheet was stamped?
  granted,   \* granted[e]: days HR ever gave as paid leave, or that approved leave
             \*   covered while its type was paid
  edits      \* edits, imports, leave decisions and changes of a type so far

vars == <<sheets, cycleOpen, leave, paid, op, task, submitter, byHand, half, unsynced, granted,
          edits>>

ghosts == <<submitter, byHand, half, unsynced, granted>>

Statuses == {"DRAFT", "SUBMITTED", "APPROVED", "REJECTED"}
EditableStates == {"DRAFT", "REJECTED"}

Aggregates == [lop : Nat, halves : Nat, worked : Nat, hours : Nat]
Sheet == [status : Statuses, day : [Days -> DayStatus], hours : [Days -> Nat],
          agg : Aggregates, by : Users \cup {Nobody}, approver : Users \cup {Nobody}]
NoSheet == [status |-> "NONE"]
NoSheets == [e \in Employees |-> NoSheet]
NoTask == [who |-> {}, actor |-> Nobody, seen |-> NoSheets, new |-> NoSheets,
           set |-> {}, skipped |-> {}]
Task == [who : SUBSET Employees, actor : Users \cup {Nobody},
         seen : [Employees -> Sheet \cup {NoSheet}], new : [Employees -> Sheet \cup {NoSheet}],
         set : SUBSET Days, skipped : SUBSET Employees]

Kinds == {"generate", "edit", "mark", "import", "submit", "approve", "reject",
          "reopen", "clear", "decided", "resync"}

TypeOK ==
  /\ sheets \in [Employees -> Sheet \cup {NoSheet}]
  /\ cycleOpen \in BOOLEAN
  /\ leave \in [Employees -> [Days -> LeaveAsks \cup {None}]]
  /\ paid \in [LeaveTypes -> BOOLEAN]
  /\ op \in [Workers -> Kinds \cup {"idle"}]
  /\ task \in [Workers -> Task]
  /\ submitter \in [Employees -> Users \cup {Nobody}]
  /\ byHand \in [Employees -> SUBSET Days]
  /\ half \in [Employees -> BOOLEAN]
  /\ unsynced \in [Employees -> BOOLEAN]
  /\ granted \in [Employees -> SUBSET Days]
  /\ edits \in 0 .. MaxEdits

Init ==
  /\ sheets = NoSheets
  /\ cycleOpen = TRUE
  /\ leave = [e \in Employees |-> [d \in Days |-> None]]
  /\ paid \in [LeaveTypes -> BOOLEAN]
  /\ op = [w \in Workers |-> "idle"]
  /\ task = [w \in Workers |-> NoTask]
  /\ submitter = [e \in Employees |-> Nobody]
  /\ byHand = [e \in Employees |-> {}]
  /\ half = [e \in Employees |-> FALSE]
  /\ unsynced = [e \in Employees |-> FALSE]
  /\ granted = [e \in Employees |-> {}]
  /\ edits = 0

-------------------------------------------------------------------------------
(* The grid                                                                *)

\* recompute_aggregates
Aggregate(day, hours) ==
  LET scheduled == {d \in Days : day[d] \notin NonWorking}
      lop == 2 * Cardinality({d \in scheduled : day[d] = "UNPAID_LEAVE"})
               + Cardinality({d \in scheduled : day[d] = "HALF_DAY"})
  IN  [lop    |-> lop,
       halves |-> Cardinality({d \in scheduled : day[d] \in {"HALF_DAY", "HALF_DAY_PAID"}}),
       worked |-> 2 * Cardinality(scheduled) - lop,
       hours  |-> MapThenSumSet(LAMBDA d : hours[d], Days)]

\* Mutant: an edit recomputes the day counts and forgets the hours.
WithGridStaleHours(s, day, hours) ==
  [status |-> s.status, day |-> day, hours |-> hours,
   agg |-> [Aggregate(day, hours) EXCEPT !.hours = s.agg.hours],
   by |-> s.by, approver |-> s.approver]

\* The sheet with another grid and its aggregates.
WithGrid(s, day, hours) ==
  [status |-> s.status, day |-> day, hours |-> hours, agg |-> Aggregate(day, hours),
   by |-> s.by, approver |-> s.approver]

\* What approved leave makes of a day, by its type as it stands now.
LeaveStatus(ask) ==
  IF paid[ask.type] THEN IF ask.half THEN "HALF_DAY_PAID" ELSE "PAID_LEAVE"
  ELSE IF ask.half THEN "HALF_DAY" ELSE "UNPAID_LEAVE"

\* What the ledger says of a working day without a manual status.
LeaveDay(e, d) == IF leave[e][d] = None THEN "PRESENT" ELSE LeaveStatus(leave[e][d])

\* _seed_entries: approved leave takes precedence over a plain working day.
SeededDay(e, d) ==
  IF d \in Off THEN "WEEKLY_OFF"
  ELSE IF e \in Hourly THEN "PRESENT" ELSE LeaveDay(e, d)

\* Mutant: a new sheet ignores approved leave.
SeededSheetPresent(e) ==
  LET day == [d \in Days |-> IF d \in Off THEN "WEEKLY_OFF" ELSE "PRESENT"]
      hours == [d \in Days |-> 0]
  IN  [status |-> "DRAFT", day |-> day, hours |-> hours, agg |-> Aggregate(day, hours),
       by |-> Nobody, approver |-> Nobody]

SeededSheet(e) ==
  LET day == [d \in Days |-> SeededDay(e, d)]
      hours == [d \in Days |-> 0]
  IN  [status |-> "DRAFT", day |-> day, hours |-> hours, agg |-> Aggregate(day, hours),
       by |-> Nobody, approver |-> Nobody]

\* What the ORM stores in a column it loaded as old and was assigned new.
Column(stored, old, new) == IF new = old THEN stored ELSE new

\* The sheet left by storing new over a sheet loaded as seen.
Stored(stored, seen, new) ==
  IF new = NoSheet THEN stored
  ELSE IF seen = NoSheet THEN new
  ELSE [status   |-> Column(stored.status, seen.status, new.status),
        day      |-> [d \in Days |-> Column(stored.day[d], seen.day[d], new.day[d])],
        hours    |-> [d \in Days |-> Column(stored.hours[d], seen.hours[d], new.hours[d])],
        agg      |-> [k \in DOMAIN stored.agg |->
                        Column(stored.agg[k], seen.agg[k], new.agg[k])],
        by       |-> Column(stored.by, seen.by, new.by),
        approver |-> Column(stored.approver, seen.approver, new.approver)]

Start(w, kind, k) ==
  /\ op[w] = "idle"
  /\ op' = [op EXCEPT ![w] = kind]
  /\ task' = [task EXCEPT ![w] = k]

End(w) ==
  /\ op' = [op EXCEPT ![w] = "idle"]
  /\ task' = [task EXCEPT ![w] = NoTask]

Store(w) ==
  sheets' = [e \in Employees |-> Stored(sheets[e], task[w].seen[e], task[w].new[e])]

\* A request on the sheet of one employee that gives a status to these days.
OnSheet(e, actor, new, days) ==
  [who |-> {e}, actor |-> actor, seen |-> [NoSheets EXCEPT ![e] = sheets[e]],
   new |-> [NoSheets EXCEPT ![e] = new], set |-> days, skipped |-> {}]

Editable(s) == s.status \in EditableStates

-------------------------------------------------------------------------------
(* generate_for_cycle                                                      *)

\* A sheet for every employee with an active structure who has none, whatever
\* the status of the cycle.
GenerateLoad(w) ==
  /\ \E payable \in SUBSET Employees :
       LET missing == {e \in payable : sheets[e] = NoSheet}
       IN  /\ missing # {}
           /\ Start(w, "generate",
                [who |-> missing, actor |-> Nobody, seen |-> NoSheets,
                 new |-> [e \in Employees |-> IF e \in missing THEN SeededSheet(e)
                                              ELSE NoSheet],
                 set |-> {}, skipped |-> {}])
  /\ UNCHANGED <<sheets, cycleOpen, leave, paid, ghosts, edits>>

\* Another request generated one of these sheets first.
GenerateConflict(w) == op[w] = "generate" /\ \E e \in task[w].who : sheets[e] # NoSheet

GenerateCommit(w) ==
  /\ op[w] = "generate"
  /\ ~GenerateConflict(w)
  /\ Store(w)
  /\ unsynced' = [e \in Employees |-> e \notin task[w].who /\ unsynced[e]]
  /\ End(w)
  /\ UNCHANGED <<cycleOpen, leave, paid, submitter, byHand, half, granted, edits>>

\* uq_timesheet_cycle_employee refuses the whole batch.
GenerateFail(w) ==
  /\ GenerateConflict(w)
  /\ End(w)
  /\ UNCHANGED <<sheets, cycleOpen, leave, paid, ghosts, edits>>

-------------------------------------------------------------------------------
(* bulk_update_entries, self_mark_entries, import_attendance               *)

\* One item of an edit: the day's status or None, and its hours or None.
Apply(s, d, status, hours) ==
  WithGrid(s,
    IF status = None THEN s.day ELSE [s.day EXCEPT ![d] = status],
    IF hours = None THEN s.hours ELSE [s.hours EXCEPT ![d] = hours])

\* HR edits a day of a sheet.
EditLoad(w) ==
  /\ edits < MaxEdits
  /\ cycleOpen
  /\ \E e \in Employees, d \in Days, status \in HRStatuses \cup {None},
        hours \in HourValues \cup {None} :
       /\ Editable(sheets[e])
       /\ Start(w, "edit",
            OnSheet(e, Nobody, Apply(sheets[e], d, status, hours),
                    IF status = None THEN {} ELSE {d}))
  /\ edits' = edits + 1
  /\ UNCHANGED <<sheets, cycleOpen, leave, paid, ghosts>>

\* A day the employee may mark.
Markable(s, d) == d \notin Future /\ s.day[d] \notin NonWorking \cup Leave

\* Mutant: the statuses an employee may set are not restricted.
MarkLoadAnyStatus(w) ==
  /\ edits < MaxEdits
  /\ cycleOpen
  /\ \E e \in Employees, d \in Days, status \in DayStatus :
       /\ Editable(sheets[e])
       /\ Markable(sheets[e], d)
       /\ Start(w, "mark",
            OnSheet(e, Nobody, Apply(sheets[e], d, status, None), {d}))
  /\ edits' = edits + 1
  /\ UNCHANGED <<sheets, cycleOpen, leave, paid, ghosts>>

\* The employee marks a day present or working from home.
MarkLoad(w) ==
  /\ edits < MaxEdits
  /\ cycleOpen
  /\ \E e \in Employees, d \in Days, status \in {"PRESENT", "WFH", None},
        hours \in HourValues \cup {None} :
       /\ Editable(sheets[e])
       /\ Markable(sheets[e], d)
       /\ Start(w, "mark",
            OnSheet(e, Nobody, Apply(sheets[e], d, status, hours),
                    IF status = None THEN {} ELSE {d}))
  /\ edits' = edits + 1
  /\ UNCHANGED <<sheets, cycleOpen, leave, paid, ghosts>>

\* Mutant: a row is applied to any sheet of the cycle.
ImportableAnyStatus(s, row) ==
  s # NoSheet /\ s.day[row.day] \notin NonWorking \cup Leave

\* Can a row be applied to a sheet up to its hours?
Importable(s, row) ==
  /\ s # NoSheet /\ Editable(s)
  /\ s.day[row.day] \notin NonWorking \cup Leave

\* The sheet after a row.  A row whose hours cannot be used is skipped after its
\* status has been assigned, so it changes the entry but not the aggregates.
Imported(s, row) ==
  IF row.hours = BadHours
  THEN [status |-> s.status,
        day |-> IF row.status = None THEN s.day ELSE [s.day EXCEPT ![row.day] = row.status],
        hours |-> s.hours, agg |-> s.agg, by |-> s.by, approver |-> s.approver]
  ELSE Apply(s, row.day, row.status, row.hours)

\* At most one row per employee of a file with any others; if no row was
\* applied the request ends without a commit.
ImportLoad(w) ==
  /\ edits < MaxEdits
  /\ \E rows \in [Employees -> Imports \cup {None}] :
       LET taken == {e \in Employees :
                       rows[e] # None /\ Importable(sheets[e], rows[e])}
           skipped == {e \in taken : rows[e].hours = BadHours}
       IN  /\ taken \ skipped # {}
           /\ Start(w, "import",
                [who |-> taken, actor |-> Nobody,
                 seen |-> [e \in Employees |-> IF e \in taken THEN sheets[e] ELSE NoSheet],
                 new |-> [e \in Employees |-> IF e \in taken
                            THEN Imported(sheets[e], rows[e]) ELSE NoSheet],
                 set |-> {rows[e].day : e \in taken},
                 skipped |-> skipped])
  /\ edits' = edits + 1
  /\ UNCHANGED <<sheets, cycleOpen, leave, paid, ghosts>>

\* Days the task sets by hand on the sheet of e.
SetByHand(w, e) ==
  IF e \notin task[w].who THEN {}
  ELSE {d \in task[w].set : task[w].new[e].day[d] # task[w].seen[e].day[d]}

EditCommit(w) ==
  /\ op[w] \in {"edit", "mark", "import"}
  /\ Store(w)
  /\ byHand' = [e \in Employees |-> byHand[e] \cup SetByHand(w, e)]
  /\ half' = [e \in Employees |-> IF e \in task[w].who THEN e \in task[w].skipped
                                  ELSE half[e]]
  /\ granted' = [e \in Employees |-> granted[e] \cup
       IF op[w] = "edit" THEN {d \in SetByHand(w, e) : task[w].new[e].day[d] \in PaidLeave}
       ELSE {}]
  /\ End(w)
  /\ UNCHANGED <<cycleOpen, leave, paid, submitter, unsynced, edits>>

-------------------------------------------------------------------------------
(* submit, approve, reject, reopen                                         *)

Transitions == {"submit", "approve", "reject", "reopen"}

\* Mutant: a draft can be approved without being submitted.
FromDraftApproved(kind) ==
  IF kind = "submit" THEN EditableStates
  ELSE {"SUBMITTED"} \cup IF kind = "reopen" THEN {"APPROVED"} ELSE {"DRAFT"}

From(kind) ==
  IF kind = "submit" THEN EditableStates
  ELSE {"SUBMITTED"} \cup IF kind = "reopen" THEN {"APPROVED"} ELSE {}

To == [submit |-> "SUBMITTED", approve |-> "APPROVED", reject |-> "REJECTED",
       reopen |-> "DRAFT"]

\* The maker-checker rule of _transition.
Segregated(s, u) == Enforce => s.by # u

\* Status, and the stamp of who submitted or approved.
Moved(s, kind, u) ==
  [status |-> To[kind], day |-> s.day, hours |-> s.hours, agg |-> s.agg,
   by |-> IF kind = "submit" THEN u ELSE s.by,
   approver |-> IF kind = "approve" THEN u ELSE s.approver]

TransitionLoad(w) ==
  /\ \E e \in Employees, kind \in Transitions, u \in Users :
       /\ sheets[e].status \in From(kind)
       /\ kind = "approve" => Segregated(sheets[e], u)
       /\ Start(w, kind, OnSheet(e, u, Moved(sheets[e], kind, u), {}))
  /\ UNCHANGED <<sheets, cycleOpen, leave, paid, ghosts, edits>>

TransitionCommit(w) ==
  /\ op[w] \in Transitions \ {"reopen"}
  /\ Store(w)
  /\ submitter' = [e \in Employees |->
       IF op[w] = "submit" /\ e \in task[w].who THEN task[w].actor ELSE submitter[e]]
  /\ End(w)
  /\ UNCHANGED <<cycleOpen, leave, paid, byHand, half, unsynced, granted, edits>>

Cleared(s) ==
  [status |-> s.status, day |-> s.day, hours |-> s.hours, agg |-> s.agg,
   by |-> Nobody, approver |-> Nobody]

\* reopen commits the status first.  Its session keeps the stamps it loaded.
ReopenCommit(w) ==
  /\ op[w] = "reopen"
  /\ Store(w)
  /\ op' = [op EXCEPT ![w] = "clear"]
  /\ task' = [task EXCEPT ![w] =
       [who |-> task[w].who, actor |-> task[w].actor, seen |-> task[w].new,
        new |-> [e \in Employees |-> IF e \in task[w].who THEN Cleared(task[w].new[e])
                                     ELSE NoSheet],
        set |-> {}, skipped |-> {}]]
  /\ UNCHANGED <<cycleOpen, leave, paid, ghosts, edits>>

\* Its second commit clears the stamps.
ClearCommit(w) ==
  /\ op[w] = "clear"
  /\ Store(w)
  /\ End(w)
  /\ UNCHANGED <<cycleOpen, leave, paid, ghosts, edits>>

-------------------------------------------------------------------------------
(* Leave decisions and the resync that follows them; changes of a type     *)

\* A decision on the leave of one employee.
OnNoSheet(e) ==
  [who |-> {e}, actor |-> Nobody, seen |-> NoSheets, new |-> NoSheets,
   set |-> {}, skipped |-> {}]

\* Days of e on approved leave that now counts as paid.
PaidDays(e) == {d \in Days : leave[e][d] # None /\ paid[leave[e][d].type]}

\* A request for a day is approved, or the approved one cancelled, and the
\* decision committed; the endpoint goes on to resync the timesheets.
DecideLeave(w) ==
  /\ edits < MaxEdits
  /\ \E e \in Employees, d \in Days :
       /\ \E ask \in IF leave[e][d] = None THEN LeaveAsks ELSE {None} :
            leave' = [leave EXCEPT ![e][d] = ask]
       /\ unsynced' = [unsynced EXCEPT ![e] = TRUE]
       /\ Start(w, "decided", OnNoSheet(e))
  /\ edits' = edits + 1
  /\ UNCHANGED <<sheets, cycleOpen, paid, submitter, byHand, half>>
  /\ granted' = [e \in Employees |-> granted[e] \cup PaidDays(e)']

\* update_type makes the leave of a type paid, or unpaid, leave of that type that
\* was approved before included.  It resyncs no sheet.
UpdateType(w) ==
  /\ op[w] = "idle"
  /\ edits < MaxEdits
  /\ \E t \in LeaveTypes :
       /\ paid' = [paid EXCEPT ![t] = ~@]
       /\ unsynced' = [e \in Employees |-> unsynced[e] \/
            \E d \in Days : leave[e][d] # None /\ leave[e][d].type = t]
  /\ edits' = edits + 1
  /\ UNCHANGED <<sheets, cycleOpen, leave, op, task, submitter, byHand, half>>
  /\ granted' = [e \in Employees |-> granted[e] \cup PaidDays(e)']

\* A request still pending is cancelled: the endpoint resyncs all the same.
CancelPending(w) ==
  /\ edits < MaxEdits
  /\ \E e \in Employees : Start(w, "decided", OnNoSheet(e))
  /\ edits' = edits + 1
  /\ UNCHANGED <<sheets, cycleOpen, leave, paid, ghosts>>

Resynced(e) ==
  WithGrid(sheets[e],
    [d \in Days |-> IF sheets[e].day[d] \in {"PRESENT"} \cup Leave
                    THEN LeaveDay(e, d) ELSE sheets[e].day[d]],
    sheets[e].hours)

\* resync_leave skips hourly sheets, and those that cannot be edited.
Resyncable(e) == e \notin Hourly /\ Editable(sheets[e]) /\ cycleOpen

ResyncLoad(w) ==
  /\ op[w] = "decided"
  /\ \E e \in task[w].who :
       IF Resyncable(e) /\ Resynced(e).day # sheets[e].day
       THEN /\ op' = [op EXCEPT ![w] = "resync"]
            /\ task' = [task EXCEPT ![w] = OnSheet(e, Nobody, Resynced(e), {})]
            /\ UNCHANGED unsynced
       ELSE /\ End(w)
            /\ unsynced' = [unsynced EXCEPT ![e] = @ /\ ~Resyncable(e)]
  /\ UNCHANGED <<sheets, cycleOpen, leave, paid, submitter, byHand, half, granted, edits>>

ResyncCommit(w) ==
  /\ op[w] = "resync"
  /\ Store(w)
  /\ byHand' = [e \in Employees |-> byHand[e] \ {d \in Days : sheets'[e] # NoSheet
                                      /\ sheets'[e].day[d] # sheets[e].day[d]}]
  /\ half' = [e \in Employees |-> e \notin task[w].who /\ half[e]]
  /\ unsynced' = [e \in Employees |-> e \notin task[w].who /\ unsynced[e]]
  /\ End(w)
  /\ UNCHANGED <<cycleOpen, leave, paid, submitter, granted, edits>>

\* The cycle is approved or cancelled: its sheets can no longer be edited.
CloseCycle ==
  /\ cycleOpen
  /\ cycleOpen' = FALSE
  /\ UNCHANGED <<sheets, leave, paid, op, task, ghosts, edits>>

\* A request dies before its next commit.
Abandon(w) ==
  /\ op[w] # "idle"
  /\ End(w)
  /\ UNCHANGED <<sheets, cycleOpen, leave, paid, ghosts, edits>>

Next ==
  \/ \E w \in Workers :
       \/ GenerateLoad(w) \/ GenerateCommit(w) \/ GenerateFail(w)
       \/ EditLoad(w) \/ MarkLoad(w) \/ ImportLoad(w) \/ EditCommit(w)
       \/ TransitionLoad(w) \/ TransitionCommit(w) \/ ReopenCommit(w) \/ ClearCommit(w)
       \/ DecideLeave(w) \/ CancelPending(w) \/ UpdateType(w)
       \/ ResyncLoad(w) \/ ResyncCommit(w) \/ Abandon(w)
  \/ CloseCycle

Spec == Init /\ [][Next]_vars

-------------------------------------------------------------------------------
(* Whatever the interleaving                                               *)

(* Paid leave appears on a sheet only where HR entered it or approved      *)
(* leave of that very employee covered the day at a time when its type was *)
(* paid: neither employees nor files can grant it, also when stale copies  *)
(* of a sheet are stored and when HR changes the type under the leave.     *)
PaidLeaveIsGranted ==
  \A e \in Employees :
    sheets[e] # NoSheet =>
      \A d \in Days : sheets[e].day[d] \in PaidLeave => d \in granted[e]

(* What feeds a payroll run was submitted by somebody: no order of commits *)
(* approves or rejects a sheet that was never submitted.                   *)
DecidedWasSubmitted ==
  \A e \in Employees :
    sheets[e].status \in {"SUBMITTED", "APPROVED", "REJECTED"} => submitter[e] # Nobody

-------------------------------------------------------------------------------
(* When requests do not overlap                                            *)

AgreesWithGrid(s) == s.agg = Aggregate(s.day, s.hours)

(* The aggregates a run reads are those of the entries, except on a sheet  *)
(* that holds the status of an imported row that was skipped.              *)
AggregatesAgree ==
  \A e \in Employees : sheets[e] # NoSheet /\ ~half[e] => AgreesWithGrid(sheets[e])

(* A sheet that no decision and no change of a leave type has bypassed     *)
(* shows the leave ledger, as its types stand now, on every day that       *)
(* nobody set by hand.                                                     *)
LeaveIsStamped ==
  \A e \in Employees \ Hourly :
    (sheets[e] # NoSheet /\ ~unsynced[e]) =>
      \A d \in Days \ (Off \cup byHand[e]) : sheets[e].day[d] = LeaveDay(e, d)

Lifecycle == INSTANCE SheetLifecycle WITH
  status  <- [e \in Employees |-> sheets[e].status],
  grid    <- [e \in Employees |-> IF sheets[e] = NoSheet THEN <<>>
                                  ELSE <<sheets[e].day, sheets[e].hours, sheets[e].agg>>],
  maker   <- submitter,
  checker <- [e \in Employees |-> IF sheets[e].status = "APPROVED" THEN sheets[e].approver
                                  ELSE Nobody]

(* Sheets go through drafting, submission and decision; their grids change *)
(* only while they are drafts or rejected.                                 *)
LifecycleSpec == Lifecycle!Spec

-------------------------------------------------------------------------------
(* What the documentation says                                             *)

(* resync_leave: "manual statuses (e.g. WFH) are left alone".              *)
ManualDaysLeftAlone ==
  [][\A e \in Employees : \A d \in byHand[e] :
       leave[e][d] = None => d \in byHand'[e]]_vars

(* resync_leave on skipped sheets: the leave "applies when the sheet is    *)
(* regenerated or reopened".                                               *)
ReopenAppliesLeave ==
  [][\A w \in Workers, e \in Employees \ Hourly :
       (op[w] = "clear" /\ op'[w] = "idle" /\ e \in task[w].who
          /\ cycleOpen /\ sheets'[e].by = Nobody) =>
         \A d \in Days \ (Off \cup byHand[e]) : sheets'[e].day[d] = LeaveDay(e, d)]_vars
===============================================================================
