---------------------------- MODULE TimesheetsProofs ----------------------------
(***************************************************************************)
(* Two invariants of Timesheets, whatever the interleaving of requests,    *)
(* for any workers, employees, days, statuses and files; and, when         *)
(* requests do not overlap, two more and the refinement of SheetLifecycle. *)
(*                                                                         *)
(* A request may store a copy of a sheet that is no longer current, so     *)
(* each proof says what any task in flight may still do to a sheet; one    *)
(* served alone stores what it computed.                                   *)
(***************************************************************************)
EXTENDS Timesheets, FiniteSetTheorems, DataLemmas, TLAPS

\* The tasks are functions of the workers; a task that reopens makes drafts.
TasksOK ==
  /\ op = [w \in Workers |-> op[w]]
  /\ task = [w \in Workers |-> task[w]]
  /\ \A w \in Workers : op[w] = "reopen" =>
       \A e \in task[w].who : task[w].new[e].status = "DRAFT"
  /\ \A w \in Workers : op[w] = "submit" => task[w].actor \in Users
  /\ \A w \in Workers : task[w].who \subseteq Employees

\* Whatever its type, leave makes a leave day of a day.
LEMMA LeaveDayStatus ==
  \A e, d : LeaveDay(e, d) \in {"PRESENT"} \cup Leave
  BY DEF LeaveDay, LeaveStatus, Leave

LEMMA TasksOKInit == Init => TasksOK
  BY DEF Init, TasksOK, NoTask

\* Worker w turns to the task k.
Turns(w, kind, k) == op' = [op EXCEPT ![w] = kind] /\ task' = [task EXCEPT ![w] = k]

\* A worker that turns to a task that neither submits nor reopens.
LEMMA TurnKeepsTasks ==
  ASSUME TasksOK, NEW w \in Workers, NEW kind, NEW k, Turns(w, kind, k),
         kind \notin {"reopen", "submit"}, k.who \subseteq Employees
  PROVE  TasksOK'
  BY DEF TasksOK, Turns

LEMMA StartKeepsTasks ==
  ASSUME TasksOK, NEW w \in Workers, NEW kind, NEW k, Start(w, kind, k),
         kind \notin {"reopen", "submit"}, k.who \subseteq Employees
  PROVE  TasksOK'
  BY TurnKeepsTasks DEF Start, Turns

LEMMA EndKeepsTasks ==
  ASSUME TasksOK, NEW w \in Workers, End(w)
  PROVE  TasksOK'
  BY DEF TasksOK, End, NoTask

LEMMA TasksOKStep == TasksOK /\ [Next]_vars => TasksOK'
<1> SUFFICES ASSUME TasksOK, [Next]_vars PROVE TasksOK'
  OBVIOUS
<1>1. ASSUME UNCHANGED vars PROVE TasksOK'
  BY <1>1 DEF TasksOK, vars
<1>2. ASSUME CloseCycle \/ \E w \in Workers : UpdateType(w) PROVE TasksOK'
  BY <1>2 DEF TasksOK, CloseCycle, UpdateType
<1>3. ASSUME NEW w \in Workers, GenerateLoad(w) PROVE TasksOK'
  BY <1>3, StartKeepsTasks DEF GenerateLoad
<1>4. ASSUME NEW w \in Workers, EditLoad(w) PROVE TasksOK'
  BY <1>4, StartKeepsTasks DEF EditLoad, OnSheet
<1>5. ASSUME NEW w \in Workers, MarkLoad(w) PROVE TasksOK'
  BY <1>5, StartKeepsTasks DEF MarkLoad, OnSheet
<1>6. ASSUME NEW w \in Workers, ImportLoad(w) PROVE TasksOK'
  BY <1>6, StartKeepsTasks DEF ImportLoad
<1>7. ASSUME NEW w \in Workers, TransitionLoad(w) PROVE TasksOK'
  <2>1. PICK e \in Employees, kind \in Transitions, u \in Users :
          Start(w, kind, OnSheet(e, u, Moved(sheets[e], kind, u), {}))
    BY <1>7 DEF TransitionLoad
  <2>2. kind = "reopen" => Moved(sheets[e], kind, u).status = "DRAFT"
    BY DEF Moved, To
  <2> DEFINE k == OnSheet(e, u, Moved(sheets[e], kind, u), {})
  <2>3. /\ k.who = {e} /\ k.actor = u
        /\ kind = "reopen" => k.new[e].status = "DRAFT"
    BY <2>2 DEF OnSheet, NoSheets
  <2> HIDE DEF k
  <2> QED
    BY <2>1, <2>3 DEF TasksOK, Start, k
<1>8. ASSUME NEW w \in Workers, ReopenCommit(w) PROVE TasksOK'
  BY <1>8 DEF TasksOK, ReopenCommit
<1>9. ASSUME NEW w \in Workers, DecideLeave(w) \/ CancelPending(w) PROVE TasksOK'
  <2>1. PICK e \in Employees : Turns(w, "decided", OnNoSheet(e))
    BY <1>9 DEF DecideLeave, CancelPending, Start, Turns
  <2>2. OnNoSheet(e).who \subseteq Employees
    BY DEF OnNoSheet
  <2> QED
    BY <2>1, <2>2, TurnKeepsTasks
<1>10. ASSUME NEW w \in Workers, ResyncLoad(w) PROVE TasksOK'
  <2>1. CASE End(w)
    BY <2>1, EndKeepsTasks
  <2>2. ASSUME NEW e \in task[w].who, Turns(w, "resync", OnSheet(e, Nobody, Resynced(e), {}))
        PROVE  TasksOK'
    <3>1. OnSheet(e, Nobody, Resynced(e), {}).who \subseteq Employees
      BY DEF OnSheet, TasksOK
    <3> QED
      BY <2>2, <3>1, TurnKeepsTasks
  <2> QED
    BY <1>10, <2>1, <2>2 DEF ResyncLoad, Turns
<1>11. ASSUME NEW w \in Workers,
              \/ GenerateCommit(w) \/ GenerateFail(w) \/ EditCommit(w)
              \/ TransitionCommit(w) \/ ClearCommit(w) \/ ResyncCommit(w) \/ Abandon(w)
       PROVE  TasksOK'
  BY <1>11, EndKeepsTasks
     DEF GenerateCommit, GenerateFail, EditCommit, TransitionCommit, ClearCommit,
         ResyncCommit, Abandon
<1> QED
  BY <1>1, <1>2, <1>3, <1>4, <1>5, <1>6, <1>7, <1>8, <1>9, <1>10, <1>11 DEF Next

LEMMA TasksAlwaysOK == Spec => []TasksOK
<1>1. Init => TasksOK
  BY TasksOKInit
<1>2. TasksOK /\ [Next]_vars => TasksOK'
  BY TasksOKStep
<1> QED
  BY <1>1, <1>2, PTL DEF Spec

-------------------------------------------------------------------------------
(* Decided sheets were submitted                                           *)

\* What a task may still do to the status of a sheet: nothing, make it a draft,
\* submit it, or decide it after somebody has submitted it.
StatusStep(w, e) ==
  \/ task[w].new[e] = NoSheet
  \/ task[w].seen[e] # NoSheet /\ task[w].new[e].status = task[w].seen[e].status
  \/ task[w].new[e].status = "DRAFT"
  \/ op[w] = "submit" /\ e \in task[w].who /\ task[w].new[e].status = "SUBMITTED"
  \/ task[w].new[e].status \in {"APPROVED", "REJECTED"} /\ submitter[e] # Nobody

StatusSteps == \A w \in Workers, e \in Employees : StatusStep(w, e)

SubmissionInv == DecidedWasSubmitted /\ StatusSteps

\* A sheet once submitted stays so.
SubmittersStay ==
  \A e \in Employees : submitter[e] # Nobody => submitter'[e] # Nobody

LEMMA OtherStatusSteps ==
  ASSUME TasksOK, StatusSteps, SubmittersStay,
         NEW w \in Workers, NEW kind, NEW k, Turns(w, kind, k),
         \A e \in Employees : StatusStep(w, e)'
  PROVE  StatusSteps'
<1> SUFFICES ASSUME NEW v \in Workers, NEW e \in Employees, v # w PROVE StatusStep(v, e)'
  BY DEF StatusSteps
<1>1. op'[v] = op[v] /\ task'[v] = task[v]
  BY DEF TasksOK, Turns
<1> QED
  BY <1>1 DEF StatusSteps, StatusStep, SubmittersStay

LEMMA EndKeepsStatusSteps ==
  ASSUME TasksOK, StatusSteps, SubmittersStay, NEW w \in Workers, End(w)
  PROVE  StatusSteps'
<1>1. Turns(w, "idle", NoTask)
  BY DEF End, Turns
<1>2. \A e \in Employees : StatusStep(w, e)'
  BY DEF End, TasksOK, NoTask, NoSheets, StatusStep
<1> QED
  BY <1>1, <1>2, OtherStatusSteps

\* What a commit leaves of a sheet that it loaded and changes.
LEMMA StoredRecord ==
  ASSUME NEW stored, NEW seen, NEW new, new # NoSheet, seen # NoSheet
  PROVE  \E status, day, hours, agg, by, approver :
           /\ Stored(stored, seen, new) =
                [status |-> status, day |-> day, hours |-> hours, agg |-> agg, by |-> by,
                 approver |-> approver]
           /\ status = Column(stored.status, seen.status, new.status)
           /\ day = [d \in Days |-> Column(stored.day[d], seen.day[d], new.day[d])]
<1> DEFINE status == Column(stored.status, seen.status, new.status)
           day == [d \in Days |-> Column(stored.day[d], seen.day[d], new.day[d])]
           hours == [d \in Days |-> Column(stored.hours[d], seen.hours[d], new.hours[d])]
           agg == [k \in DOMAIN stored.agg |->
                     Column(stored.agg[k], seen.agg[k], new.agg[k])]
           by == Column(stored.by, seen.by, new.by)
           approver == Column(stored.approver, seen.approver, new.approver)
<1>1. Stored(stored, seen, new) =
        [status |-> status, day |-> day, hours |-> hours, agg |-> agg, by |-> by,
         approver |-> approver]
  BY Zenon DEF Stored
<1>2. /\ status = Column(stored.status, seen.status, new.status)
      /\ day = [d \in Days |-> Column(stored.day[d], seen.day[d], new.day[d])]
  OBVIOUS
<1> HIDE DEF status, day, hours, agg, by, approver
<1> QED
  BY <1>1, <1>2

LEMMA StoredStatus ==
  ASSUME NEW stored, NEW seen, NEW new, new # NoSheet, seen # NoSheet
  PROVE  Stored(stored, seen, new).status = Column(stored.status, seen.status, new.status)
  BY StoredRecord

LEMMA StoredDay ==
  ASSUME NEW stored, NEW seen, NEW new, new # NoSheet, seen # NoSheet
  PROVE  Stored(stored, seen, new).day =
           [d \in Days |-> Column(stored.day[d], seen.day[d], new.day[d])]
  BY StoredRecord

LEMMA StoredIsSheet ==
  ASSUME NEW stored, NEW seen, NEW new, new # NoSheet, seen # NoSheet
  PROVE  Stored(stored, seen, new) # NoSheet
<1>1. "day" \in DOMAIN Stored(stored, seen, new)
  BY StoredRecord
<1> QED
  BY <1>1 DEF NoSheet

LEMMA StoredWhole ==
  ASSUME NEW stored, NEW seen, NEW new
  PROVE  /\ new = NoSheet => Stored(stored, seen, new) = stored
         /\ new # NoSheet /\ seen = NoSheet => Stored(stored, seen, new) = new
  BY Zenon DEF Stored

\* Storing a task's sheets decides none that was not submitted.
LEMMA StoreKeepsSubmission ==
  ASSUME SubmissionInv, SubmittersStay, NEW w \in Workers, Store(w),
         op[w] = "submit" => \A e \in task[w].who : submitter'[e] # Nobody
  PROVE  DecidedWasSubmitted'
<1> SUFFICES ASSUME NEW e \in Employees,
                    sheets'[e].status \in {"SUBMITTED", "APPROVED", "REJECTED"}
             PROVE  submitter'[e] # Nobody
  BY DEF DecidedWasSubmitted
<1> DEFINE old == sheets[e]
           seen == task[w].seen[e]
           new == task[w].new[e]
<1>1. sheets'[e] = Stored(old, seen, new)
  BY DEF Store
<1>2. /\ new = NoSheet => sheets'[e] = old
      /\ new # NoSheet /\ seen = NoSheet => sheets'[e] = new
  BY <1>1, StoredWhole
<1>3. new # NoSheet /\ seen # NoSheet =>
        Stored(old, seen, new).status = Column(old.status, seen.status, new.status)
  BY StoredStatus
<1>4. new # NoSheet /\ seen # NoSheet =>
        sheets'[e].status = IF new.status = seen.status THEN old.status ELSE new.status
  BY <1>1, <1>3 DEF Column
<1>5. StatusStep(w, e)
  BY DEF SubmissionInv, StatusSteps
<1>6. old.status \in {"SUBMITTED", "APPROVED", "REJECTED"} => submitter'[e] # Nobody
  BY DEF SubmissionInv, DecidedWasSubmitted, SubmittersStay
<1> HIDE DEF old, seen, new
<1>7. \/ sheets'[e].status = old.status
      \/ sheets'[e].status = new.status /\ new # NoSheet
  BY <1>2, <1>4
<1>8. CASE sheets'[e].status = old.status
  BY <1>6, <1>8
<1>9. CASE sheets'[e].status = new.status /\ new # NoSheet /\ sheets'[e].status # old.status
  <2>1. ~(seen # NoSheet /\ new.status = seen.status)
    BY <1>4, <1>9
  <2>2. \/ op[w] = "submit" /\ e \in task[w].who
        \/ submitter[e] # Nobody
    BY <1>5, <1>9, <2>1 DEF StatusStep, old, seen, new
  <2> QED
    BY <2>2 DEF SubmittersStay
<1> QED
  BY <1>7, <1>8, <1>9

\* A task on one sheet, with one of the things a task may do to its status.
LEMMA OnSheetKeepsStatusSteps ==
  ASSUME TasksOK, StatusSteps, UNCHANGED submitter,
         NEW w \in Workers, NEW kind, NEW x \in Employees, NEW u, NEW s, NEW days,
         Turns(w, kind, OnSheet(x, u, s, days)),
         \/ sheets[x] # NoSheet /\ s.status = sheets[x].status
         \/ s.status = "DRAFT"
         \/ kind = "submit" /\ s.status = "SUBMITTED"
         \/ s.status \in {"APPROVED", "REJECTED"} /\ submitter[x] # Nobody
  PROVE  StatusSteps'
<1>1. op'[w] = kind /\ task'[w] = OnSheet(x, u, s, days)
  BY DEF TasksOK, Turns
<1>2. /\ task'[w].who = {x}
      /\ task'[w].seen[x] = sheets[x] /\ task'[w].new[x] = s
      /\ \A e \in Employees : e # x => task'[w].new[e] = NoSheet
  BY <1>1 DEF OnSheet, NoSheets
<1>3. \A e \in Employees : StatusStep(w, e)'
  BY <1>1, <1>2 DEF StatusStep
<1>4. SubmittersStay
  BY DEF SubmittersStay
<1> QED
  BY <1>3, <1>4, OtherStatusSteps

LEMMA EditedStatus ==
  ASSUME NEW s, NEW d, NEW status, NEW hours
  PROVE  Apply(s, d, status, hours).status = s.status
  BY DEF Apply, WithGrid

LEMMA ImportedStatus ==
  ASSUME NEW s, NEW row
  PROVE  Imported(s, row).status = s.status
  BY EditedStatus DEF Imported

LEMMA EditableIsSheet ==
  ASSUME NEW s, Editable(s)
  PROVE  s # NoSheet
  BY DEF Editable, EditableStates, NoSheet

\* The task of an import.
\* Worker w turns to an import that stores these rows.
TurnsToImport(w, rows, taken, k) ==
  /\ \A e \in taken : rows[e] \in Imports /\ Importable(sheets[e], rows[e])
  /\ k.seen = [e \in Employees |-> IF e \in taken THEN sheets[e] ELSE NoSheet]
  /\ k.new = [e \in Employees |-> IF e \in taken THEN Imported(sheets[e], rows[e])
                                  ELSE NoSheet]
  /\ Turns(w, "import", k)

LEMMA ImportTurns ==
  ASSUME NEW w \in Workers, ImportLoad(w)
  PROVE  \E rows \in [Employees -> Imports \cup {None}], taken \in SUBSET Employees :
           \E k : TurnsToImport(w, rows, taken, k)
<1>1. PICK rows \in [Employees -> Imports \cup {None}] :
        LET taken == {e \in Employees :
                        rows[e] # None /\ Importable(sheets[e], rows[e])}
            skipped == {e \in taken : rows[e].hours = BadHours}
        IN  Start(w, "import",
              [who |-> taken, actor |-> Nobody,
               seen |-> [e \in Employees |-> IF e \in taken THEN sheets[e] ELSE NoSheet],
               new |-> [e \in Employees |-> IF e \in taken
                          THEN Imported(sheets[e], rows[e]) ELSE NoSheet],
               set |-> {rows[e].day : e \in taken},
               skipped |-> skipped])
  BY DEF ImportLoad
<1> DEFINE taken == {e \in Employees :
                       rows[e] # None /\ Importable(sheets[e], rows[e])}
           k == [who |-> taken, actor |-> Nobody,
                 seen |-> [e \in Employees |-> IF e \in taken THEN sheets[e]
                                               ELSE NoSheet],
                 new |-> [e \in Employees |-> IF e \in taken
                            THEN Imported(sheets[e], rows[e]) ELSE NoSheet],
                 set |-> {rows[e].day : e \in taken},
                 skipped |-> {e \in taken : rows[e].hours = BadHours}]
<1>2. Start(w, "import", k)
  BY <1>1, Zenon
<1>3. Turns(w, "import", k)
  BY <1>2 DEF Start, Turns
<1>4. /\ taken \in SUBSET Employees
      /\ \A e \in taken : rows[e] \in Imports /\ Importable(sheets[e], rows[e])
  OBVIOUS
<1>5. /\ k.seen = [e \in Employees |-> IF e \in taken THEN sheets[e] ELSE NoSheet]
      /\ k.new = [e \in Employees |-> IF e \in taken THEN Imported(sheets[e], rows[e])
                                      ELSE NoSheet]
  OBVIOUS
<1> HIDE DEF taken, k
<1> QED
  BY <1>3, <1>4, <1>5 DEF TurnsToImport

LEMMA EditStatusStep ==
  ASSUME TasksOK, SubmissionInv, UNCHANGED submitter, NEW w \in Workers,
         NEW kind \in {"edit", "mark"}, NEW e \in Employees, Editable(sheets[e]),
         NEW d, NEW status, NEW hours, NEW days,
         Turns(w, kind, OnSheet(e, Nobody, Apply(sheets[e], d, status, hours), days))
  PROVE  StatusSteps'
<1>1. sheets[e] # NoSheet
  BY EditableIsSheet
<1> QED
  BY <1>1, EditedStatus, OnSheetKeepsStatusSteps DEF SubmissionInv

LEMMA LoadKeepsStatusSteps ==
  ASSUME TasksOK, SubmissionInv, NEW w \in Workers,
         \/ GenerateLoad(w) \/ EditLoad(w) \/ MarkLoad(w) \/ ImportLoad(w)
         \/ TransitionLoad(w) \/ DecideLeave(w) \/ CancelPending(w)
  PROVE  StatusSteps'
<1> USE DEF SubmissionInv
<1>0. SubmittersStay
  BY DEF SubmittersStay, GenerateLoad, EditLoad, MarkLoad, ImportLoad, TransitionLoad,
         DecideLeave, CancelPending, ghosts
<1>1. CASE GenerateLoad(w)
  <2>1. PICK missing \in SUBSET Employees :
          Turns(w, "generate",
            [who |-> missing, actor |-> Nobody, seen |-> NoSheets,
             new |-> [e \in Employees |-> IF e \in missing THEN SeededSheet(e) ELSE NoSheet],
             set |-> {}, skipped |-> {}])
    BY <1>1 DEF GenerateLoad, Start, Turns
  <2>2. \A e \in Employees : SeededSheet(e).status = "DRAFT"
    BY DEF SeededSheet
  <2>3. \A e \in Employees : task'[w].new[e] = IF e \in missing THEN SeededSheet(e)
                                               ELSE NoSheet
    BY <2>1 DEF TasksOK, Turns
  <2>4. \A e \in Employees : StatusStep(w, e)'
    BY <2>2, <2>3 DEF StatusStep
  <2> QED
    BY <1>0, <2>1, <2>4, OtherStatusSteps
<1>2. CASE EditLoad(w) \/ MarkLoad(w)
  <2>a. CASE EditLoad(w)
    <3>1. PICK e \in Employees, d \in Days, status \in HRStatuses \cup {None},
               hours \in HourValues \cup {None} :
            /\ Editable(sheets[e])
            /\ Start(w, "edit", OnSheet(e, Nobody, Apply(sheets[e], d, status, hours),
                                        IF status = None THEN {} ELSE {d}))
      BY <2>a, Zenon DEF EditLoad
    <3> QED
      BY <3>1, EditStatusStep, <2>a DEF Start, Turns, EditLoad, ghosts
  <2>b. CASE MarkLoad(w)
    <3>1. PICK e \in Employees, d \in Days, status \in {"PRESENT", "WFH", None},
               hours \in HourValues \cup {None} :
            /\ Editable(sheets[e])
            /\ Start(w, "mark", OnSheet(e, Nobody, Apply(sheets[e], d, status, hours),
                                        IF status = None THEN {} ELSE {d}))
      BY <2>b, Zenon DEF MarkLoad
    <3> QED
      BY <3>1, EditStatusStep, <2>b DEF Start, Turns, MarkLoad, ghosts
  <2> QED
    BY <1>2, <2>a, <2>b
<1>3. CASE ImportLoad(w)
  <2>a. PICK rows \in [Employees -> Imports \cup {None}], taken \in SUBSET Employees :
          \E k : TurnsToImport(w, rows, taken, k)
    BY <1>3, ImportTurns
  <2>b. PICK k : TurnsToImport(w, rows, taken, k)
    BY <2>a
  <2>0. /\ \A e \in taken : rows[e] \in Imports /\ Importable(sheets[e], rows[e])
        /\ k.seen = [e \in Employees |-> IF e \in taken THEN sheets[e] ELSE NoSheet]
        /\ k.new = [e \in Employees |-> IF e \in taken THEN Imported(sheets[e], rows[e])
                                        ELSE NoSheet]
        /\ Turns(w, "import", k)
    BY <2>b DEF TurnsToImport
  <2>1. op'[w] = "import" /\ task'[w] = k
    BY <2>0 DEF TasksOK, Turns
  <2>2. \A e \in taken : sheets[e] # NoSheet
    BY <2>0 DEF Importable
  <2>3. \A e \in Employees :
          /\ e \notin taken => task'[w].new[e] = NoSheet
          /\ e \in taken => /\ task'[w].seen[e] = sheets[e]
                            /\ task'[w].new[e] = Imported(sheets[e], rows[e])
    BY <2>0, <2>1
  <2>4. \A e \in Employees : StatusStep(w, e)'
    BY <2>2, <2>3, ImportedStatus DEF StatusStep
  <2> QED
    BY <1>0, <2>0, <2>4, OtherStatusSteps
<1>4. CASE TransitionLoad(w)
  <2>1. PICK e \in Employees, kind \in Transitions, u \in Users :
          /\ sheets[e].status \in From(kind)
          /\ Turns(w, kind, OnSheet(e, u, Moved(sheets[e], kind, u), {}))
    BY <1>4 DEF TransitionLoad, Start, Turns
  <2>2. Moved(sheets[e], kind, u).status = To[kind]
    BY DEF Moved
  <2>3. kind \in {"approve", "reject"} => submitter[e] # Nobody
    BY <2>1 DEF From, DecidedWasSubmitted
  <2>4. UNCHANGED submitter
    BY <1>4 DEF TransitionLoad, ghosts
  <2> QED
    BY <2>1, <2>2, <2>3, <2>4, OnSheetKeepsStatusSteps DEF To, Transitions
<1>5. CASE DecideLeave(w) \/ CancelPending(w)
  <2>1. PICK e \in Employees : Turns(w, "decided", OnNoSheet(e))
    BY <1>5 DEF DecideLeave, CancelPending, Start, Turns
  <2>2. \A x \in Employees : StatusStep(w, x)'
    BY <2>1 DEF TasksOK, Turns, OnNoSheet, NoSheets, StatusStep
  <2> QED
    BY <1>0, <2>1, <2>2, OtherStatusSteps
<1> QED
  BY <1>1, <1>2, <1>3, <1>4, <1>5

LEMMA SubmissionStep == SubmissionInv /\ TasksOK /\ [Next]_vars => SubmissionInv'
<1> SUFFICES ASSUME SubmissionInv, TasksOK, [Next]_vars PROVE SubmissionInv'
  OBVIOUS
<1>1. ASSUME UNCHANGED vars PROVE SubmissionInv'
  BY <1>1 DEF SubmissionInv, DecidedWasSubmitted, StatusSteps, StatusStep, vars
<1>2. ASSUME CloseCycle \/ \E w \in Workers : UpdateType(w) PROVE SubmissionInv'
  <2>1. UNCHANGED <<sheets, submitter, op, task>>
    BY <1>2 DEF CloseCycle, UpdateType, ghosts
  <2> QED
    BY <2>1 DEF SubmissionInv, DecidedWasSubmitted, StatusSteps, StatusStep
<1>3. ASSUME NEW w \in Workers,
             \/ GenerateLoad(w) \/ EditLoad(w) \/ MarkLoad(w) \/ ImportLoad(w)
             \/ TransitionLoad(w) \/ DecideLeave(w) \/ CancelPending(w)
      PROVE  SubmissionInv'
  <2>1. StatusSteps'
    BY <1>3, LoadKeepsStatusSteps
  <2>2. UNCHANGED <<sheets, submitter>>
    BY <1>3 DEF GenerateLoad, EditLoad, MarkLoad, ImportLoad, TransitionLoad, DecideLeave,
                CancelPending, ghosts
  <2>3. DecidedWasSubmitted'
    BY <2>2 DEF SubmissionInv, DecidedWasSubmitted
  <2> QED
    BY <2>1, <2>3 DEF SubmissionInv
\* The commits that leave the submitters alone.
<1>4. ASSUME NEW w \in Workers, Store(w), End(w), UNCHANGED submitter, op[w] # "submit"
      PROVE  SubmissionInv'
  <2>1. SubmittersStay
    BY <1>4 DEF SubmittersStay
  <2>2. StatusSteps'
    BY <1>4, <2>1, EndKeepsStatusSteps DEF SubmissionInv
  <2>3. DecidedWasSubmitted'
    BY <1>4, <2>1, StoreKeepsSubmission
  <2> QED
    BY <2>2, <2>3 DEF SubmissionInv
<1>5. ASSUME NEW w \in Workers,
             \/ GenerateCommit(w) \/ EditCommit(w) \/ ClearCommit(w) \/ ResyncCommit(w)
      PROVE  SubmissionInv'
  BY <1>4, <1>5 DEF GenerateCommit, EditCommit, ClearCommit, ResyncCommit, ghosts
<1>6. ASSUME NEW w \in Workers, TransitionCommit(w) PROVE SubmissionInv'
  <2>1. op[w] = "submit" => \A e \in task[w].who : submitter'[e] = task[w].actor
    BY <1>6 DEF TransitionCommit, TasksOK
  <2>2. op[w] = "submit" => task[w].actor # Nobody
    BY InputsAssumption DEF TasksOK
  <2>3. SubmittersStay
    BY <1>6, <2>2 DEF SubmittersStay, TransitionCommit
  <2>4. StatusSteps'
    BY <1>6, <2>3, EndKeepsStatusSteps DEF SubmissionInv, TransitionCommit
  <2>5. DecidedWasSubmitted'
    BY <1>6, <2>1, <2>2, <2>3, StoreKeepsSubmission DEF TransitionCommit
  <2> QED
    BY <2>4, <2>5 DEF SubmissionInv
<1>7. ASSUME NEW w \in Workers, ReopenCommit(w) PROVE SubmissionInv'
  <2>1. SubmittersStay
    BY <1>7 DEF SubmittersStay, ReopenCommit, ghosts
  <2>2. DecidedWasSubmitted'
    BY <1>7, <2>1, StoreKeepsSubmission DEF ReopenCommit
  <2> DEFINE k == [who |-> task[w].who, actor |-> task[w].actor, seen |-> task[w].new,
                   new |-> [e \in Employees |-> IF e \in task[w].who
                              THEN Cleared(task[w].new[e]) ELSE NoSheet],
                   set |-> {}, skipped |-> {}]
  <2>3. Turns(w, "clear", k)
    BY <1>7 DEF ReopenCommit, Turns
  <2>4. op'[w] = "clear" /\ task'[w] = k
    BY <2>3 DEF TasksOK, Turns
  <2>5. \A e \in Employees :
          task'[w].new[e] = IF e \in task[w].who THEN Cleared(task[w].new[e]) ELSE NoSheet
    BY <2>4
  <2>6. \A e \in task[w].who : Cleared(task[w].new[e]).status = "DRAFT"
    BY <1>7 DEF ReopenCommit, TasksOK, Cleared
  <2>7. \A e \in Employees : StatusStep(w, e)'
    BY <2>5, <2>6 DEF StatusStep
  <2> HIDE DEF k
  <2>8. StatusSteps'
    BY <2>1, <2>3, <2>7, OtherStatusSteps DEF SubmissionInv
  <2> QED
    BY <2>2, <2>8 DEF SubmissionInv
<1>8. ASSUME NEW w \in Workers, End(w), UNCHANGED <<sheets, submitter>> PROVE SubmissionInv'
  <2>1. StatusSteps'
    BY <1>8, EndKeepsStatusSteps DEF SubmissionInv, SubmittersStay
  <2>2. DecidedWasSubmitted'
    BY <1>8 DEF SubmissionInv, DecidedWasSubmitted
  <2> QED
    BY <2>1, <2>2 DEF SubmissionInv
<1>9. ASSUME NEW w \in Workers, GenerateFail(w) \/ Abandon(w) PROVE SubmissionInv'
  BY <1>8, <1>9 DEF GenerateFail, Abandon, ghosts
<1>10. ASSUME NEW w \in Workers, ResyncLoad(w) PROVE SubmissionInv'
  <2>1. UNCHANGED <<sheets, submitter>>
    BY <1>10 DEF ResyncLoad
  <2>2. CASE End(w)
    BY <1>8, <2>1, <2>2
  <2>3. ASSUME NEW e \in task[w].who, Resyncable(e),
               Turns(w, "resync", OnSheet(e, Nobody, Resynced(e), {}))
        PROVE  SubmissionInv'
    <3>1. e \in Employees /\ sheets[e] # NoSheet
      BY <2>3, EditableIsSheet DEF TasksOK, Resyncable
    <3>2. Resynced(e).status = sheets[e].status
      BY DEF Resynced, WithGrid
    <3>3. StatusSteps'
      BY <2>1, <2>3, <3>1, <3>2, OnSheetKeepsStatusSteps DEF SubmissionInv
    <3>4. DecidedWasSubmitted'
      BY <2>1 DEF SubmissionInv, DecidedWasSubmitted
    <3> QED
      BY <3>3, <3>4 DEF SubmissionInv
  <2> QED
    BY <1>10, <2>2, <2>3 DEF ResyncLoad, Turns
<1> QED
  BY <1>1, <1>2, <1>3, <1>5, <1>6, <1>7, <1>9, <1>10 DEF Next

(* No order of commits approves or rejects a sheet that nobody submitted:  *)
(* the status checks of submit, approve and reject hold up without a lock, *)
(* because whoever has submitted a sheet once stays on record.             *)
THEOREM DecisionsNeedSubmission == Spec => []DecidedWasSubmitted
<1>1. Init => SubmissionInv
  BY DEF Init, SubmissionInv, DecidedWasSubmitted, StatusSteps, StatusStep, NoTask,
         NoSheets, NoSheet
<1>2. SubmissionInv /\ TasksOK /\ [Next]_vars => SubmissionInv'
  BY SubmissionStep
<1>3. SubmissionInv => DecidedWasSubmitted
  BY DEF SubmissionInv
<1> QED
  BY <1>1, <1>2, <1>3, TasksAlwaysOK, PTL DEF Spec

-------------------------------------------------------------------------------
(* Paid leave is granted                                                   *)

IsGrid(day) == day = [d \in Days |-> day[d]]

\* A sheet's grid shows paid leave on granted days only.
SheetGranted(e) ==
  sheets[e] # NoSheet =>
    /\ IsGrid(sheets[e].day)
    /\ \A d \in Days : sheets[e].day[d] \in PaidLeave => d \in granted[e]

\* The sheet a task will store shows it on granted days, or HR gives it.
GrantStep(w, e) ==
  /\ task[w].seen[e] # NoSheet => sheets[e] # NoSheet
  /\ task[w].new[e] # NoSheet =>
       /\ IsGrid(task[w].new[e].day)
       /\ \A d \in Days : task[w].new[e].day[d] \in PaidLeave =>
            \/ d \in granted[e]
            \/ /\ op[w] = "edit" /\ e \in task[w].who /\ d \in task[w].set
               /\ task[w].new[e].day[d] # task[w].seen[e].day[d]

SheetsGranted == \A e \in Employees : SheetGranted(e)
GrantSteps == \A w \in Workers, e \in Employees : GrantStep(w, e)

\* Approved leave that counts as paid has been granted.
LeaveGranted ==
  /\ granted = [e \in Employees |-> granted[e]]
  /\ \A e \in Employees : PaidDays(e) \subseteq granted[e]

LEMMA LeaveDayGranted ==
  ASSUME LeaveGranted, NEW e \in Employees, NEW d \in Days, LeaveDay(e, d) \in PaidLeave
  PROVE  d \in granted[e]
<1>1. leave[e][d] # None /\ paid[leave[e][d].type]
  BY DEF LeaveDay, LeaveStatus, PaidLeave
<1> QED BY <1>1 DEF LeaveGranted, PaidDays

\* A decision and a change of a type grant what now counts as paid.
LEMMA PaidIsGranted ==
  ASSUME LeaveGranted, granted' = [e \in Employees |-> granted[e] \cup PaidDays(e)']
  PROVE  LeaveGranted' /\ \A e \in Employees : granted[e] \subseteq granted'[e]
<1>1. \A e \in Employees : granted'[e] = granted[e] \cup PaidDays(e)'
  OBVIOUS
<1>2. granted' = [e \in Employees |-> granted'[e]]
  OBVIOUS
<1> QED BY <1>1, <1>2 DEF LeaveGranted

GrantInv == SheetsGranted /\ GrantSteps /\ LeaveGranted

\* Grants stay, and so do sheets.
GrantsGrow ==
  \A e \in Employees : /\ granted[e] \subseteq granted'[e]
                       /\ sheets[e] # NoSheet => sheets'[e] # NoSheet

LEMMA OtherGrantSteps ==
  ASSUME TasksOK, GrantSteps, GrantsGrow,
         NEW w \in Workers, NEW kind, NEW k, Turns(w, kind, k),
         \A e \in Employees : GrantStep(w, e)'
  PROVE  GrantSteps'
<1> SUFFICES ASSUME NEW v \in Workers, NEW e \in Employees, v # w PROVE GrantStep(v, e)'
  BY DEF GrantSteps
<1>1. op'[v] = op[v] /\ task'[v] = task[v]
  BY DEF TasksOK, Turns
<1>2. /\ GrantStep(v, e) /\ granted[e] \subseteq granted'[e]
      /\ sheets[e] # NoSheet => sheets'[e] # NoSheet
  BY DEF GrantSteps, GrantsGrow
<1> QED
  BY <1>1, <1>2 DEF GrantStep, IsGrid

LEMMA EndKeepsGrantSteps ==
  ASSUME TasksOK, GrantSteps, GrantsGrow, NEW w \in Workers, End(w)
  PROVE  GrantSteps'
<1>1. Turns(w, "idle", NoTask)
  BY DEF End, Turns
<1>2. task'[w] = NoTask
  BY DEF End, TasksOK
<1>3. \A e \in Employees : GrantStep(w, e)'
  BY <1>2 DEF NoTask, NoSheets, GrantStep
<1> QED
  BY <1>1, <1>3, OtherGrantSteps

LEMMA OnSheetKeepsGrantSteps ==
  ASSUME TasksOK, GrantSteps, UNCHANGED <<sheets, granted>>,
         NEW w \in Workers, NEW kind, NEW x \in Employees, NEW u, NEW s, NEW days,
         Turns(w, kind, OnSheet(x, u, s, days)),
         IsGrid(s.day),
         \A d \in Days : s.day[d] \in PaidLeave =>
           \/ d \in granted[x]
           \/ kind = "edit" /\ d \in days /\ s.day[d] # sheets[x].day[d]
  PROVE  GrantSteps'
<1>1. op'[w] = kind /\ task'[w] = OnSheet(x, u, s, days)
  BY DEF TasksOK, Turns
<1>2. /\ task'[w].who = {x} /\ task'[w].set = days
      /\ task'[w].seen[x] = sheets[x] /\ task'[w].new[x] = s
      /\ \A e \in Employees :
           e # x => task'[w].new[e] = NoSheet /\ task'[w].seen[e] = NoSheet
  BY <1>1 DEF OnSheet, NoSheets
<1>3. GrantStep(w, x)'
  BY <1>1, <1>2 DEF GrantStep
<1>4. \A e \in Employees : e # x => GrantStep(w, e)'
  BY <1>2 DEF GrantStep
<1>5. GrantsGrow
  BY DEF GrantsGrow
<1> QED
  BY <1>3, <1>4, <1>5, OtherGrantSteps

LEMMA StoreKeepsSheets ==
  ASSUME NEW w \in Workers, Store(w), NEW e \in Employees,
         sheets[e] # NoSheet \/ task[w].new[e] # NoSheet
  PROVE  sheets'[e] # NoSheet
<1>1. sheets'[e] = Stored(sheets[e], task[w].seen[e], task[w].new[e])
  BY DEF Store
<1>2. CASE task[w].new[e] = NoSheet \/ task[w].seen[e] = NoSheet
  BY <1>1, <1>2, StoredWhole
<1>3. CASE task[w].new[e] # NoSheet /\ task[w].seen[e] # NoSheet
  <2>1. Stored(sheets[e], task[w].seen[e], task[w].new[e]) # NoSheet
    BY <1>3, StoredIsSheet
  <2> QED
    BY <1>1, <2>1
<1> QED
  BY <1>2, <1>3

\* Storing a task's sheets: what HR gives is granted by the same commit.
LEMMA StoreKeepsGranted ==
  ASSUME GrantInv, GrantsGrow, NEW w \in Workers, Store(w),
         op[w] = "edit" =>
           \A e \in task[w].who : \A d \in Days \cap task[w].set :
             /\ task[w].new[e].day[d] \in PaidLeave
             /\ task[w].new[e].day[d] # task[w].seen[e].day[d]
             => d \in granted'[e]
  PROVE  SheetsGranted'
<1> SUFFICES ASSUME NEW e \in Employees PROVE SheetGranted(e)'
  BY DEF SheetsGranted
<1>1. sheets'[e] = Stored(sheets[e], task[w].seen[e], task[w].new[e])
  BY DEF Store
<1>2. SheetGranted(e) /\ GrantStep(w, e) /\ granted[e] \subseteq granted'[e]
  BY DEF GrantInv, SheetsGranted, GrantSteps, GrantsGrow
<1>3. CASE task[w].new[e] = NoSheet
  <2>1. sheets'[e] = sheets[e]
    BY <1>1, <1>3, StoredWhole
  <2> QED
    BY <2>1, <1>2 DEF SheetGranted, IsGrid
<1>4. CASE task[w].new[e] # NoSheet /\ task[w].seen[e] = NoSheet
  <2>1. sheets'[e] = task[w].new[e]
    BY <1>1, <1>4, StoredWhole
  <2> QED
    BY <2>1, <1>2, <1>4 DEF SheetGranted, GrantStep, IsGrid
<1>5. CASE task[w].new[e] # NoSheet /\ task[w].seen[e] # NoSheet /\ sheets[e] # NoSheet
  <2>1. sheets'[e].day = [d \in Days |-> Column(sheets[e].day[d], task[w].seen[e].day[d],
                                               task[w].new[e].day[d])]
    BY <1>1, <1>5, StoredDay
  <2>2. ASSUME NEW d \in Days, sheets'[e].day[d] \in PaidLeave PROVE d \in granted'[e]
    <3>1. \/ sheets'[e].day[d] = sheets[e].day[d]
          \/ /\ sheets'[e].day[d] = task[w].new[e].day[d]
             /\ task[w].new[e].day[d] # task[w].seen[e].day[d]
      BY <2>1 DEF Column
    <3> QED
      BY <1>2, <1>5, <2>2, <3>1 DEF SheetGranted, GrantStep
  <2> QED
    BY <2>1, <2>2 DEF SheetGranted, IsGrid
<1> QED
  BY <1>2, <1>3, <1>4, <1>5 DEF GrantStep

LEMMA PaidLeaveStatuses ==
  /\ None \notin PaidLeave
  /\ {"PRESENT", "WFH", "WEEKLY_OFF", "HALF_DAY", "UNPAID_LEAVE"} \cap PaidLeave = {}
  BY InputsAssumption DEF PaidLeave, DayStatus, Leave

LEMMA AppliedDay ==
  ASSUME NEW s, IsGrid(s.day), NEW d \in Days, NEW status, NEW hours
  PROVE  /\ IsGrid(Apply(s, d, status, hours).day)
         /\ \A x \in Days : Apply(s, d, status, hours).day[x] =
              IF x = d /\ status # None THEN status ELSE s.day[x]
<1>1. Apply(s, d, status, hours).day =
        IF status = None THEN s.day ELSE [s.day EXCEPT ![d] = status]
  BY DEF Apply, WithGrid
<1> QED
  BY <1>1 DEF IsGrid

LEMMA ImportedDay ==
  ASSUME NEW s, IsGrid(s.day), NEW row \in Imports
  PROVE  /\ IsGrid(Imported(s, row).day)
         /\ \A x \in Days : Imported(s, row).day[x] =
              IF x = row.day /\ row.status # None THEN row.status ELSE s.day[x]
<1>1. row.day \in Days
  BY InputsAssumption DEF ImportRow
<1>2. Imported(s, row).day =
        IF row.hours = BadHours
        THEN IF row.status = None THEN s.day ELSE [s.day EXCEPT ![row.day] = row.status]
        ELSE Apply(s, row.day, row.status, row.hours).day
  BY DEF Imported
<1>3. CASE row.hours = BadHours
  BY <1>1, <1>2, <1>3 DEF IsGrid
<1>4. CASE row.hours # BadHours
  BY <1>1, <1>2, <1>4, AppliedDay
<1> QED
  BY <1>3, <1>4

LEMMA LoadKeepsGrantSteps ==
  ASSUME TasksOK, GrantInv, NEW w \in Workers, UNCHANGED <<sheets, granted>>,
         \/ GenerateLoad(w) \/ EditLoad(w) \/ MarkLoad(w) \/ ImportLoad(w)
         \/ TransitionLoad(w)
  PROVE  GrantSteps'
<1> USE DEF GrantInv
<1>0. GrantsGrow
  BY DEF GrantsGrow
<1>1. CASE GenerateLoad(w)
  <2>1. PICK missing \in SUBSET Employees :
          Turns(w, "generate",
            [who |-> missing, actor |-> Nobody, seen |-> NoSheets,
             new |-> [e \in Employees |-> IF e \in missing THEN SeededSheet(e) ELSE NoSheet],
             set |-> {}, skipped |-> {}])
    BY <1>1 DEF GenerateLoad, Start, Turns
  <2>2. \A e \in Employees : SeededSheet(e).day = [d \in Days |-> SeededDay(e, d)]
    BY DEF SeededSheet
  <2>3. \A e \in Employees, d \in Days : SeededDay(e, d) \in PaidLeave => d \in granted[e]
    <3> TAKE e \in Employees, d \in Days
    <3>1. SeededDay(e, d) \in PaidLeave => SeededDay(e, d) = LeaveDay(e, d)
      BY PaidLeaveStatuses DEF SeededDay
    <3> QED BY <3>1, LeaveDayGranted
  <2>4. \A e \in Employees :
          /\ task'[w].seen[e] = NoSheet
          /\ task'[w].new[e] = IF e \in missing THEN SeededSheet(e) ELSE NoSheet
    BY <2>1 DEF TasksOK, Turns, NoSheets
  <2>5. ASSUME NEW e \in Employees PROVE GrantStep(w, e)'
    <3>1. IsGrid(SeededSheet(e).day)
      BY <2>2 DEF IsGrid
    <3>2. \A d \in Days : SeededSheet(e).day[d] \in PaidLeave => d \in granted'[e]
      BY <2>2, <2>3
    <3>3. task'[w].new[e] = NoSheet \/ task'[w].new[e] = SeededSheet(e)
      BY <2>4
    <3> QED
      BY <2>4, <3>1, <3>2, <3>3 DEF GrantStep
  <2> QED
    BY <1>0, <2>1, <2>5, OtherGrantSteps
<1>2. CASE EditLoad(w)
  <2>1. PICK e \in Employees, d \in Days, status \in HRStatuses \cup {None},
             hours \in HourValues \cup {None} :
          /\ Editable(sheets[e])
          /\ Start(w, "edit", OnSheet(e, Nobody, Apply(sheets[e], d, status, hours),
                                      IF status = None THEN {} ELSE {d}))
    BY <1>2, Zenon DEF EditLoad
  <2>2. SheetGranted(e) /\ sheets[e] # NoSheet
    BY <2>1, EditableIsSheet DEF SheetsGranted
  <2> DEFINE s == Apply(sheets[e], d, status, hours)
             days == IF status = None THEN {} ELSE {d}
  <2>3. IsGrid(s.day)
    BY <2>2, AppliedDay DEF SheetGranted
  <2>4. \A x \in Days : s.day[x] = IF x = d /\ status # None THEN status
                                  ELSE sheets[e].day[x]
    BY <2>2, AppliedDay DEF SheetGranted
  <2>5. \A x \in Days : s.day[x] \in PaidLeave =>
          \/ x \in granted[e]
          \/ x \in days /\ s.day[x] # sheets[e].day[x]
    BY <2>2, <2>4 DEF SheetGranted
  <2>6. Turns(w, "edit", OnSheet(e, Nobody, s, days))
    BY <2>1 DEF Start, Turns
  <2> HIDE DEF s, days
  <2> QED
    BY <2>3, <2>5, <2>6, OnSheetKeepsGrantSteps
<1>3. CASE MarkLoad(w)
  <2>1. PICK e \in Employees, d \in Days, status \in {"PRESENT", "WFH", None},
             hours \in HourValues \cup {None} :
          /\ Editable(sheets[e])
          /\ Start(w, "mark", OnSheet(e, Nobody, Apply(sheets[e], d, status, hours),
                                      IF status = None THEN {} ELSE {d}))
    BY <1>3, Zenon DEF MarkLoad
  <2>2. SheetGranted(e) /\ sheets[e] # NoSheet
    BY <2>1, EditableIsSheet DEF SheetsGranted
  <2>3. status \notin PaidLeave
    BY PaidLeaveStatuses
  <2> DEFINE s == Apply(sheets[e], d, status, hours)
             days == IF status = None THEN {} ELSE {d}
  <2>4. IsGrid(s.day)
    BY <2>2, AppliedDay DEF SheetGranted
  <2>5. \A x \in Days : s.day[x] \in PaidLeave => x \in granted[e]
    BY <2>2, <2>3, AppliedDay DEF SheetGranted
  <2>6. Turns(w, "mark", OnSheet(e, Nobody, s, days))
    BY <2>1 DEF Start, Turns
  <2> HIDE DEF s, days
  <2> QED
    BY <2>4, <2>5, <2>6, OnSheetKeepsGrantSteps
<1>4. CASE ImportLoad(w)
  <2>a. PICK rows \in [Employees -> Imports \cup {None}], taken \in SUBSET Employees :
          \E k : TurnsToImport(w, rows, taken, k)
    BY <1>4, ImportTurns
  <2>b. PICK k : TurnsToImport(w, rows, taken, k)
    BY <2>a
  <2>1. /\ \A e \in taken : rows[e] \in Imports /\ Importable(sheets[e], rows[e])
        /\ k.seen = [e \in Employees |-> IF e \in taken THEN sheets[e] ELSE NoSheet]
        /\ k.new = [e \in Employees |-> IF e \in taken THEN Imported(sheets[e], rows[e])
                                        ELSE NoSheet]
        /\ Turns(w, "import", k)
    BY <2>b DEF TurnsToImport
  <2>2. op'[w] = "import" /\ task'[w] = k
    BY <2>1 DEF TasksOK, Turns
  <2>3. \A e \in taken : sheets[e] # NoSheet /\ SheetGranted(e)
    BY <2>1 DEF Importable, SheetsGranted
  <2>4. \A row \in Imports : row.status \notin PaidLeave
    BY InputsAssumption, PaidLeaveStatuses DEF ImportRow
  <2>5. ASSUME NEW e \in taken PROVE GrantStep(w, e)'
    <3>1. task'[w].seen[e] = sheets[e] /\ task'[w].new[e] = Imported(sheets[e], rows[e])
      BY <2>1, <2>2
    <3>2. IsGrid(sheets[e].day) /\ rows[e] \in Imports
      BY <2>1, <2>3 DEF SheetGranted
    <3>3. IsGrid(Imported(sheets[e], rows[e]).day)
      BY <3>2, ImportedDay
    <3>4. \A d \in Days : Imported(sheets[e], rows[e]).day[d] \in PaidLeave => d \in granted[e]
      BY <2>3, <2>4, <3>2, ImportedDay DEF SheetGranted
    <3> QED
      BY <2>3, <3>1, <3>3, <3>4 DEF GrantStep
  <2>6. \A e \in Employees \ taken : GrantStep(w, e)'
    BY <2>1, <2>2 DEF GrantStep
  <2> QED
    BY <1>0, <2>1, <2>5, <2>6, OtherGrantSteps
<1>5. CASE TransitionLoad(w)
  <2>1. PICK e \in Employees, kind \in Transitions, u \in Users :
          /\ sheets[e].status \in From(kind)
          /\ Turns(w, kind, OnSheet(e, u, Moved(sheets[e], kind, u), {}))
    BY <1>5 DEF TransitionLoad, Start, Turns
  <2>2. sheets[e] # NoSheet
    BY <2>1 DEF From, EditableStates, NoSheet
  <2>3. SheetGranted(e) /\ Moved(sheets[e], kind, u).day = sheets[e].day
    BY DEF SheetsGranted, Moved
  <2> DEFINE s == Moved(sheets[e], kind, u)
  <2>4. /\ IsGrid(s.day)
        /\ \A x \in Days : s.day[x] \in PaidLeave => x \in granted[e]
    BY <2>2, <2>3 DEF SheetGranted
  <2>5. Turns(w, kind, OnSheet(e, u, s, {}))
    BY <2>1
  <2> HIDE DEF s
  <2> QED
    BY <2>4, <2>5, OnSheetKeepsGrantSteps
<1> QED
  BY <1>1, <1>2, <1>3, <1>4, <1>5
\* Storing grants nothing unless HR edits.
LEMMA StoreKeepsGrantInv ==
  ASSUME TasksOK, GrantInv, NEW w \in Workers, Store(w), op[w] # "edit",
         UNCHANGED <<leave, paid, granted>>
  PROVE  /\ GrantsGrow
         /\ SheetsGranted'
         /\ LeaveGranted'
<1>1. GrantsGrow
  BY StoreKeepsSheets DEF GrantsGrow
<1>2. SheetsGranted'
  BY <1>1, StoreKeepsGranted
<1>3. LeaveGranted'
  BY DEF GrantInv, LeaveGranted, PaidDays
<1> QED
  BY <1>1, <1>2, <1>3

\* A task that loads no sheet.
LEMMA DecidedKeepsGrantSteps ==
  ASSUME TasksOK, GrantSteps, GrantsGrow, NEW w \in Workers, NEW x \in Employees,
         Turns(w, "decided", OnNoSheet(x))
  PROVE  GrantSteps'
<1>1. task'[w] = OnNoSheet(x)
  BY DEF TasksOK, Turns
<1>2. \A e \in Employees : GrantStep(w, e)'
  BY <1>1 DEF OnNoSheet, NoSheets, GrantStep
<1> QED
  BY <1>2, OtherGrantSteps

LEMMA GrantedStep == GrantInv /\ TasksOK /\ [Next]_vars => GrantInv'
<1> SUFFICES ASSUME GrantInv, TasksOK, [Next]_vars PROVE GrantInv'
  OBVIOUS
<1> USE DEF GrantInv
\* The steps that change neither sheets nor grants nor leave.
<1>1. ASSUME UNCHANGED <<sheets, granted, leave, paid>>, GrantSteps' PROVE GrantInv'
  <2>1. SheetsGranted'
    BY <1>1 DEF SheetsGranted, SheetGranted
  <2>2. LeaveGranted'
    BY <1>1 DEF LeaveGranted, PaidDays
  <2> QED
    BY <1>1, <2>1, <2>2
<1>2. ASSUME UNCHANGED vars \/ CloseCycle PROVE GrantInv'
  <2>1. UNCHANGED <<sheets, granted, leave, paid, op, task>>
    BY <1>2 DEF vars, CloseCycle, ghosts
  <2>2. GrantSteps'
    BY <2>1 DEF GrantSteps, GrantStep
  <2> QED
    BY <1>1, <2>1, <2>2
<1>3. ASSUME NEW w \in Workers,
             \/ GenerateLoad(w) \/ EditLoad(w) \/ MarkLoad(w) \/ ImportLoad(w)
             \/ TransitionLoad(w)
      PROVE  GrantInv'
  <2>1. UNCHANGED <<sheets, granted, leave, paid>>
    BY <1>3 DEF GenerateLoad, EditLoad, MarkLoad, ImportLoad, TransitionLoad, ghosts
  <2> QED
    BY <1>1, <1>3, <2>1, LoadKeepsGrantSteps
\* The commits other than those of edits, and of the first half of a reopening.
<1>4. ASSUME NEW w \in Workers, Store(w), End(w), op[w] # "edit", UNCHANGED <<leave, paid, granted>>
      PROVE  GrantInv'
  <2>1. GrantsGrow /\ SheetsGranted' /\ LeaveGranted'
    BY <1>4, StoreKeepsGrantInv
  <2> QED
    BY <1>4, <2>1, EndKeepsGrantSteps
<1>5. ASSUME NEW w \in Workers,
             \/ GenerateCommit(w) \/ TransitionCommit(w) \/ ClearCommit(w) \/ ResyncCommit(w)
      PROVE  GrantInv'
  BY <1>4, <1>5 DEF GenerateCommit, TransitionCommit, ClearCommit, ResyncCommit, Transitions,
                    ghosts
<1>6. ASSUME NEW w \in Workers, EditCommit(w) PROVE GrantInv'
  <2>1. Store(w) /\ End(w) /\ UNCHANGED <<leave, paid>>
    BY <1>6 DEF EditCommit
  <2>2. granted' = [e \in Employees |-> granted[e] \cup
          IF op[w] = "edit" THEN {d \in SetByHand(w, e) : task[w].new[e].day[d] \in PaidLeave}
          ELSE {}]
    BY <1>6 DEF EditCommit
  <2>3. \A e \in Employees : granted[e] \subseteq granted'[e]
    BY <2>2
  <2>4. GrantsGrow
    BY <2>1, <2>3, StoreKeepsSheets DEF GrantsGrow
  <2>5. ASSUME op[w] = "edit", NEW e \in task[w].who, NEW d \in Days \cap task[w].set,
               task[w].new[e].day[d] \in PaidLeave,
               task[w].new[e].day[d] # task[w].seen[e].day[d]
        PROVE  d \in granted'[e]
    <3>1. e \in Employees
      BY DEF TasksOK
    <3>2. d \in SetByHand(w, e)
      BY <2>5 DEF SetByHand
    <3> QED
      BY <2>2, <2>5, <3>1, <3>2
  <2>6. SheetsGranted'
    BY <2>1, <2>4, <2>5, StoreKeepsGranted
  <2>7. GrantSteps'
    BY <2>1, <2>4, EndKeepsGrantSteps
  <2>8. LeaveGranted'
    <3>1. granted' = [e \in Employees |-> granted'[e]]
      BY <2>2
    <3>2. \A e \in Employees : PaidDays(e)' = PaidDays(e)
      BY <2>1 DEF PaidDays
    <3> QED BY <2>3, <3>1, <3>2 DEF LeaveGranted
  <2> QED
    BY <2>6, <2>7, <2>8
<1>7. ASSUME NEW w \in Workers, ReopenCommit(w) PROVE GrantInv'
  <2>1. Store(w) /\ op[w] = "reopen" /\ UNCHANGED <<leave, paid, granted>>
    BY <1>7 DEF ReopenCommit, ghosts
  <2>2. GrantsGrow /\ SheetsGranted' /\ LeaveGranted'
    BY <2>1, StoreKeepsGrantInv
  <2> DEFINE k == [who |-> task[w].who, actor |-> task[w].actor, seen |-> task[w].new,
                   new |-> [e \in Employees |-> IF e \in task[w].who
                              THEN Cleared(task[w].new[e]) ELSE NoSheet],
                   set |-> {}, skipped |-> {}]
  <2>3. Turns(w, "clear", k)
    BY <1>7 DEF ReopenCommit, Turns
  <2>4. task'[w] = k
    BY <2>3 DEF TasksOK, Turns
  <2>5. ASSUME NEW e \in Employees PROVE GrantStep(w, e)'
    <3>1. /\ task'[w].seen[e] = task[w].new[e]
          /\ task'[w].new[e] = IF e \in task[w].who THEN Cleared(task[w].new[e]) ELSE NoSheet
      BY <2>4
    <3>2. task'[w].seen[e] # NoSheet => sheets'[e] # NoSheet
      BY <2>1, <3>1, StoreKeepsSheets
    <3>3. e \in task[w].who => task[w].new[e] # NoSheet
      BY <2>1 DEF TasksOK, NoSheet
    <3>4. Cleared(task[w].new[e]).day = task[w].new[e].day
      BY DEF Cleared
    <3>5. GrantStep(w, e)
      BY DEF GrantSteps
    <3>6. e \in task[w].who =>
            /\ IsGrid(task[w].new[e].day)
            /\ \A d \in Days : task[w].new[e].day[d] \in PaidLeave => d \in granted[e]
      BY <2>1, <3>3, <3>5 DEF GrantStep
    <3>7. task'[w].new[e] # NoSheet =>
            /\ IsGrid(task'[w].new[e].day)
            /\ \A d \in Days : task'[w].new[e].day[d] \in PaidLeave => d \in granted'[e]
      BY <2>1, <3>1, <3>4, <3>6
    <3> QED
      BY <3>2, <3>7 DEF GrantStep, IsGrid
  <2> HIDE DEF k
  <2>6. GrantSteps'
    BY <2>2, <2>3, <2>5, OtherGrantSteps
  <2> QED
    BY <2>2, <2>6
<1>8. ASSUME NEW w \in Workers, DecideLeave(w) \/ UpdateType(w) PROVE GrantInv'
  <2>1. UNCHANGED sheets /\ granted' = [e \in Employees |-> granted[e] \cup PaidDays(e)']
    BY <1>8 DEF DecideLeave, UpdateType
  <2>2. LeaveGranted' /\ \A e \in Employees : granted[e] \subseteq granted'[e]
    BY <2>1, PaidIsGranted
  <2>3. SheetsGranted'
    BY <2>1, <2>2 DEF SheetsGranted, SheetGranted
  <2>4. GrantsGrow
    BY <2>1, <2>2 DEF GrantsGrow
  <2>5. GrantSteps'
    <3>1. CASE DecideLeave(w)
      <4>1. PICK e \in Employees : Turns(w, "decided", OnNoSheet(e))
        BY <3>1 DEF DecideLeave, Start, Turns
      <4> QED BY <2>4, <4>1, DecidedKeepsGrantSteps
    <3>2. CASE UpdateType(w)
      BY <2>1, <2>2, <3>2 DEF UpdateType, GrantSteps, GrantStep
    <3> QED BY <1>8, <3>1, <3>2
  <2> QED
    BY <2>2, <2>3, <2>5
<1>9. ASSUME NEW w \in Workers, CancelPending(w) PROVE GrantInv'
  <2>1. PICK e \in Employees : Turns(w, "decided", OnNoSheet(e))
    BY <1>9 DEF CancelPending, Start, Turns
  <2>2. UNCHANGED <<sheets, granted, leave, paid>>
    BY <1>9 DEF CancelPending, ghosts
  <2> QED
    BY <1>1, <2>1, <2>2, DecidedKeepsGrantSteps DEF GrantsGrow
<1>10. ASSUME NEW w \in Workers, End(w), UNCHANGED <<sheets, granted, leave, paid>> PROVE GrantInv'
  BY <1>1, <1>10, EndKeepsGrantSteps DEF GrantsGrow
<1>11. ASSUME NEW w \in Workers, GenerateFail(w) \/ Abandon(w) PROVE GrantInv'
  BY <1>10, <1>11 DEF GenerateFail, Abandon, ghosts
<1>12. ASSUME NEW w \in Workers, ResyncLoad(w) PROVE GrantInv'
  <2>1. UNCHANGED <<sheets, granted, leave, paid>>
    BY <1>12 DEF ResyncLoad
  <2>2. CASE End(w)
    BY <1>10, <2>1, <2>2
  <2>3. ASSUME NEW e \in task[w].who, Resyncable(e),
               Turns(w, "resync", OnSheet(e, Nobody, Resynced(e), {}))
        PROVE  GrantInv'
    <3>1. e \in Employees /\ sheets[e] # NoSheet
      BY <2>3, EditableIsSheet DEF TasksOK, Resyncable
    <3> DEFINE s == Resynced(e)
    <3>2. s.day = [d \in Days |-> IF sheets[e].day[d] \in {"PRESENT"} \cup Leave
                                  THEN LeaveDay(e, d) ELSE sheets[e].day[d]]
      BY DEF Resynced, WithGrid
    <3>3. \A d \in Days : LeaveDay(e, d) \in PaidLeave => d \in granted[e]
      BY <3>1, LeaveDayGranted
    <3>4. \A d \in Days : sheets[e].day[d] \in PaidLeave => d \in granted[e]
      BY <3>1 DEF SheetsGranted, SheetGranted
    <3>5. IsGrid(s.day)
      BY <3>2 DEF IsGrid
    <3>6. \A d \in Days : s.day[d] \in PaidLeave => d \in granted[e]
      BY <3>2, <3>3, <3>4
    <3>7. Turns(w, "resync", OnSheet(e, Nobody, s, {}))
      BY <2>3
    <3> HIDE DEF s
    <3>8. GrantSteps'
      BY <2>1, <3>1, <3>5, <3>6, <3>7, OnSheetKeepsGrantSteps
    <3> QED
      BY <1>1, <2>1, <3>8
  <2> QED
    BY <1>12, <2>2, <2>3 DEF ResyncLoad, Turns
<1> QED
  BY <1>2, <1>3, <1>5, <1>6, <1>7, <1>8, <1>9, <1>11, <1>12 DEF Next

(* Paid leave reaches a sheet only where HR entered it or approved leave   *)
(* covered the day at a time when its type was paid: no stale copy that an *)
(* employee, a file or a resync stores shows more of it than was granted   *)
(* by the time it is stored, whatever HR makes of the types meanwhile.     *)
THEOREM PaidLeaveNeedsGrant == Spec => []PaidLeaveIsGranted
<1>1. Init => GrantInv
  <2> SUFFICES ASSUME Init PROVE GrantInv
    OBVIOUS
  <2>1. SheetsGranted
    BY DEF Init, SheetsGranted, SheetGranted, NoSheets
  <2>2. GrantSteps
    BY DEF Init, GrantSteps, GrantStep, NoTask, NoSheets
  <2>3. LeaveGranted
    BY DEF Init, LeaveGranted, PaidDays
  <2> QED
    BY <2>1, <2>2, <2>3 DEF GrantInv
<1>2. GrantInv /\ TasksOK /\ [Next]_vars => GrantInv'
  BY GrantedStep
<1>3. GrantInv => PaidLeaveIsGranted
  BY DEF GrantInv, SheetsGranted, SheetGranted, PaidLeaveIsGranted
<1> QED
  BY <1>1, <1>2, <1>3, TasksAlwaysOK, PTL DEF Spec
-------------------------------------------------------------------------------
(* Requests that do not overlap                                            *)

WholeSheet(s) ==
  /\ s = [status |-> s.status, day |-> s.day, hours |-> s.hours, agg |-> s.agg,
          by |-> s.by, approver |-> s.approver]
  /\ s.status \in Statuses
  /\ s.day = [d \in Days |-> s.day[d]]
  /\ s.hours = [d \in Days |-> s.hours[d]]
  /\ s.agg = [lop |-> s.agg.lop, halves |-> s.agg.halves, worked |-> s.agg.worked,
              hours |-> s.agg.hours]

\* On days that nobody set by hand a sheet shows the ledger, or at least what
\* the ledger showed once.
Stamped(e, s) ==
  \A d \in Days \ (Off \cup byHand[e]) :
    /\ s.day[d] \in {"PRESENT"} \cup Leave
    /\ ~unsynced[e] => s.day[d] = LeaveDay(e, d)

SheetGood(e) ==
  sheets[e] # NoSheet =>
    /\ WholeSheet(sheets[e])
    /\ sheets[e].status = "SUBMITTED" => sheets[e].by = submitter[e]
    /\ ~half[e] => AgreesWithGrid(sheets[e])
    /\ e \notin Hourly => Stamped(e, sheets[e])

\* What the task of w, served alone, makes of the sheet s of e.
Writes(w, e, s, new) ==
  /\ op[w] = "generate" => s = NoSheet /\ new = SeededSheet(e)
  /\ op[w] \in {"edit", "mark", "import"} =>
       /\ Editable(s)
       /\ new.status = s.status /\ new.by = s.by /\ new.approver = s.approver
       /\ e \notin task[w].skipped => AgreesWithGrid(new)
       /\ \A d \in Days : new.day[d] # s.day[d] => d \in task[w].set
  /\ op[w] \in Transitions =>
       /\ s.status \in From(op[w])
       /\ op[w] = "approve" => Segregated(s, task[w].actor)
       /\ task[w].actor \in Users
       /\ new = Moved(s, op[w], task[w].actor)
  /\ op[w] = "clear" => s.status = "DRAFT" /\ new = Cleared(s)
  /\ op[w] = "resync" => Editable(s) /\ e \notin Hourly /\ new = Resynced(e)

\* A task served alone stores its sheets over the ones it has loaded.
TaskGood(w) ==
  op[w] \notin {"idle", "decided"} =>
    \A e \in Employees :
      /\ e \notin task[w].who => task[w].new[e] = NoSheet
      /\ e \in task[w].who =>
           /\ task[w].seen[e] = sheets[e]
           /\ WholeSheet(task[w].new[e])
           /\ Writes(w, e, sheets[e], task[w].new[e])

AloneShapes ==
  /\ sheets = [e \in Employees |-> sheets[e]]
  /\ leave \in [Employees -> [Days -> LeaveAsks \cup {None}]]
  /\ submitter = [e \in Employees |-> submitter[e]]
  /\ byHand = [e \in Employees |-> byHand[e]]
  /\ half = [e \in Employees |-> half[e]]
  /\ unsynced = [e \in Employees |-> unsynced[e]]

AloneInv ==
  /\ AloneShapes
  /\ \A e \in Employees : SheetGood(e)
  /\ \A w \in Workers : TaskGood(w)

LEMMA WholeIsSheet ==
  ASSUME NEW s, WholeSheet(s)
  PROVE  s # NoSheet /\ s.status # "NONE"
<1>1. "day" \in DOMAIN s
  BY DEF WholeSheet
<1> QED BY <1>1 DEF WholeSheet, NoSheet, Statuses

(* Storing a sheet over the one it was computed from leaves that sheet.    *)
LEMMA StoredOver ==
  ASSUME NEW s, NEW new, WholeSheet(s), WholeSheet(new)
  PROVE  Stored(s, s, new) = new
<1>1. s # NoSheet /\ new # NoSheet
  BY WholeIsSheet
<1>2. \A x, y : Column(x, x, y) = y
  BY DEF Column
<1> DEFINE day == [d \in Days |-> Column(s.day[d], s.day[d], new.day[d])]
           hours == [d \in Days |-> Column(s.hours[d], s.hours[d], new.hours[d])]
           agg == [k \in DOMAIN s.agg |-> Column(s.agg[k], s.agg[k], new.agg[k])]
<1>3. Stored(s, s, new) =
        [status |-> new.status, day |-> day, hours |-> hours, agg |-> agg, by |-> new.by,
         approver |-> new.approver]
  BY <1>1, <1>2, Zenon DEF Stored
<1>4. day = new.day /\ hours = new.hours
  BY <1>2 DEF WholeSheet
<1>5. agg = new.agg
  <2>1. DOMAIN s.agg = {"lop", "halves", "worked", "hours"}
    BY DEF WholeSheet
  <2>2. agg = [k \in {"lop", "halves", "worked", "hours"} |-> new.agg[k]]
    BY <1>2, <2>1
  <2>3. agg = [lop |-> new.agg.lop, halves |-> new.agg.halves, worked |-> new.agg.worked,
               hours |-> new.agg.hours]
    <3> HIDE DEF agg
    <3> QED BY <2>2
  <2> QED BY <2>3 DEF WholeSheet
<1> HIDE DEF day, hours, agg
<1> QED BY <1>3, <1>4, <1>5 DEF WholeSheet

(* A commit of the only worker leaves the sheets it computed.              *)
LEMMA StoreAlone ==
  ASSUME NEW w \in Workers, AloneInv, Store(w), op[w] \notin {"idle", "decided"}
  PROVE  /\ sheets' = [e \in Employees |-> sheets'[e]]
         /\ \A e \in Employees :
              sheets'[e] = IF e \in task[w].who THEN task[w].new[e] ELSE sheets[e]
<1>1. /\ sheets' = [e \in Employees |-> sheets'[e]]
      /\ \A e \in Employees :
           sheets'[e] = Stored(sheets[e], task[w].seen[e], task[w].new[e])
  BY DEF Store
<1>2. ASSUME NEW e \in Employees
      PROVE  sheets'[e] = IF e \in task[w].who THEN task[w].new[e] ELSE sheets[e]
  <2>1. CASE e \notin task[w].who
    BY <1>1, <2>1, StoredWhole DEF AloneInv, TaskGood
  <2>2. CASE e \in task[w].who
    <3>1. task[w].seen[e] = sheets[e] /\ WholeSheet(task[w].new[e])
      BY <2>2 DEF AloneInv, TaskGood
    <3>2. task[w].new[e] # NoSheet
      BY <3>1, WholeIsSheet
    <3>3. CASE sheets[e] = NoSheet
      BY <1>1, <2>2, <3>1, <3>2, <3>3, StoredWhole
    <3>4. CASE sheets[e] # NoSheet
      <4>1. WholeSheet(sheets[e])
        BY <3>4 DEF AloneInv, SheetGood
      <4> QED BY <1>1, <2>2, <3>1, <4>1, StoredOver
    <3> QED BY <3>3, <3>4
  <2> QED BY <2>1, <2>2
<1> QED BY <1>1, <1>2

-------------------------------------------------------------------------------
\* The sheets that requests compute.

LEMMA WithGridWhole ==
  ASSUME NEW s, WholeSheet(s), NEW day, NEW hours,
         day = [d \in Days |-> day[d]], hours = [d \in Days |-> hours[d]]
  PROVE  LET new == WithGrid(s, day, hours)
         IN  /\ WholeSheet(new) /\ AgreesWithGrid(new)
             /\ new.day = day /\ new.status = s.status
             /\ new.by = s.by /\ new.approver = s.approver
<1> DEFINE agg == Aggregate(day, hours)
           new == WithGrid(s, day, hours)
<1>1. agg = [lop |-> agg.lop, halves |-> agg.halves, worked |-> agg.worked,
             hours |-> agg.hours]
  BY DEF Aggregate
<1> HIDE DEF agg
<1>2. new = [status |-> s.status, day |-> day, hours |-> hours, agg |-> agg, by |-> s.by,
             approver |-> s.approver]
  BY DEF WithGrid, agg
<1> HIDE DEF new
<1>3. WholeSheet(new)
  BY <1>1, <1>2 DEF WholeSheet
<1>4. AgreesWithGrid(new)
  BY <1>2 DEF AgreesWithGrid, agg
<1> QED BY <1>2, <1>3, <1>4 DEF new

LEMMA AppliedWhole ==
  ASSUME NEW s, WholeSheet(s), NEW d \in Days, NEW status, NEW hours
  PROVE  LET new == Apply(s, d, status, hours)
         IN  /\ WholeSheet(new) /\ AgreesWithGrid(new)
             /\ new.status = s.status /\ new.by = s.by /\ new.approver = s.approver
             /\ \A x \in Days : new.day[x] # s.day[x] => x = d /\ status # None
<1> DEFINE day == IF status = None THEN s.day ELSE [s.day EXCEPT ![d] = status]
           hour == IF hours = None THEN s.hours ELSE [s.hours EXCEPT ![d] = hours]
<1>1. /\ day = [x \in Days |-> day[x]] /\ hour = [x \in Days |-> hour[x]]
      /\ \A x \in Days : day[x] # s.day[x] => x = d /\ status # None
  BY DEF WholeSheet
<1> HIDE DEF day, hour
<1>2. Apply(s, d, status, hours) = WithGrid(s, day, hour)
  BY DEF Apply, day, hour
<1> QED BY <1>1, <1>2, WithGridWhole

LEMMA ImportedWhole ==
  ASSUME NEW s, WholeSheet(s), NEW row \in Imports
  PROVE  LET new == Imported(s, row)
         IN  /\ WholeSheet(new)
             /\ row.hours # BadHours => AgreesWithGrid(new)
             /\ new.status = s.status /\ new.by = s.by /\ new.approver = s.approver
             /\ \A x \in Days : new.day[x] # s.day[x] => x = row.day
<1>1. row.day \in Days
  BY InputsAssumption DEF ImportRow
<1>2. CASE row.hours # BadHours
  BY <1>1, <1>2, AppliedWhole DEF Imported
<1>3. CASE row.hours = BadHours
  <2> DEFINE day == IF row.status = None THEN s.day ELSE [s.day EXCEPT ![row.day] = row.status]
             new == Imported(s, row)
  <2>1. /\ day = [x \in Days |-> day[x]]
        /\ \A x \in Days : day[x] # s.day[x] => x = row.day
    BY <1>1 DEF WholeSheet
  <2>2. new = [status |-> s.status, day |-> day, hours |-> s.hours, agg |-> s.agg,
               by |-> s.by, approver |-> s.approver]
    BY <1>3, Zenon DEF Imported
  <2> HIDE DEF day, new
  <2>3. WholeSheet(new)
    BY <2>1, <2>2 DEF WholeSheet
  <2> QED BY <1>3, <2>1, <2>2, <2>3 DEF new
<1> QED BY <1>2, <1>3

LEMMA MovedWhole ==
  ASSUME NEW s, WholeSheet(s), NEW kind \in Transitions, NEW u
  PROVE  LET new == Moved(s, kind, u)
         IN  /\ WholeSheet(new) /\ new.status = To[kind]
             /\ new.day = s.day /\ new.hours = s.hours /\ new.agg = s.agg
             /\ new.by = (IF kind = "submit" THEN u ELSE s.by)
             /\ new.approver = (IF kind = "approve" THEN u ELSE s.approver)
<1>1. To[kind] \in Statuses
  BY DEF To, Transitions, Statuses
<1> DEFINE new == Moved(s, kind, u)
           by == IF kind = "submit" THEN u ELSE s.by
           approver == IF kind = "approve" THEN u ELSE s.approver
<1>2. new = [status |-> To[kind], day |-> s.day, hours |-> s.hours, agg |-> s.agg,
             by |-> by, approver |-> approver]
  BY Zenon DEF Moved
<1> HIDE DEF new, by, approver
<1>3. WholeSheet(new)
  BY <1>1, <1>2 DEF WholeSheet
<1> QED BY <1>2, <1>3 DEF new, by, approver

LEMMA ClearedWhole ==
  ASSUME NEW s, WholeSheet(s)
  PROVE  LET new == Cleared(s)
         IN  /\ WholeSheet(new) /\ new.status = s.status
             /\ new.day = s.day /\ new.hours = s.hours /\ new.agg = s.agg
  BY DEF WholeSheet, Cleared

LEMMA SeededWhole ==
  ASSUME AloneShapes, NEW e \in Employees
  PROVE  LET new == SeededSheet(e)
         IN  /\ WholeSheet(new) /\ AgreesWithGrid(new) /\ new.status = "DRAFT"
             /\ e \notin Hourly =>
                  \A d \in Days \ Off : /\ new.day[d] = LeaveDay(e, d)
                                        /\ new.day[d] \in {"PRESENT"} \cup Leave
<1> DEFINE day == [d \in Days |-> SeededDay(e, d)]
           hours == [d \in Days |-> 0]
           agg == Aggregate(day, hours)
           new == SeededSheet(e)
<1>1. agg = [lop |-> agg.lop, halves |-> agg.halves, worked |-> agg.worked,
             hours |-> agg.hours]
  BY DEF Aggregate
<1>2. new = [status |-> "DRAFT", day |-> day, hours |-> hours, agg |-> agg, by |-> Nobody,
             approver |-> Nobody]
  BY DEF SeededSheet
<1>3. day = [d \in Days |-> day[d]] /\ hours = [d \in Days |-> hours[d]]
  OBVIOUS
<1>4. e \notin Hourly =>
        \A d \in Days \ Off : /\ day[d] = LeaveDay(e, d)
                              /\ day[d] \in {"PRESENT"} \cup Leave
  BY LeaveDayStatus, InputsAssumption DEF SeededDay
<1> HIDE DEF day, hours, new
<1>5. AgreesWithGrid(new)
  BY <1>2 DEF AgreesWithGrid
<1> HIDE DEF agg
<1>6. WholeSheet(new)
  BY <1>1, <1>2, <1>3 DEF WholeSheet, Statuses
<1> QED BY <1>2, <1>4, <1>5, <1>6 DEF new

LEMMA ResyncedWhole ==
  ASSUME AloneShapes, NEW e \in Employees, WholeSheet(sheets[e])
  PROVE  LET s == sheets[e]
             new == Resynced(e)
         IN  /\ WholeSheet(new) /\ AgreesWithGrid(new)
             /\ new.status = s.status /\ new.by = s.by /\ new.approver = s.approver
             /\ \A d \in Days : new.day[d] =
                  IF s.day[d] \in {"PRESENT"} \cup Leave THEN LeaveDay(e, d) ELSE s.day[d]
             /\ \A d \in Days : LeaveDay(e, d) \in {"PRESENT"} \cup Leave
<1> DEFINE day == [d \in Days |-> IF sheets[e].day[d] \in {"PRESENT"} \cup Leave
                                  THEN LeaveDay(e, d) ELSE sheets[e].day[d]]
<1>1. Resynced(e) = WithGrid(sheets[e], day, sheets[e].hours)
  BY DEF Resynced
<1>2. \A d \in Days : LeaveDay(e, d) \in {"PRESENT"} \cup Leave
  BY LeaveDayStatus
<1>3. day = [d \in Days |-> day[d]] /\ sheets[e].hours = [d \in Days |-> sheets[e].hours[d]]
  BY DEF WholeSheet
<1>4. \A d \in Days : day[d] = IF sheets[e].day[d] \in {"PRESENT"} \cup Leave
                               THEN LeaveDay(e, d) ELSE sheets[e].day[d]
  OBVIOUS
<1> HIDE DEF day
<1> QED BY <1>1, <1>2, <1>3, <1>4, WithGridWhole

-------------------------------------------------------------------------------
\* Steps of the only worker.

LEMMA InitAlone == Init => AloneInv
<1> SUFFICES ASSUME Init PROVE AloneInv
  OBVIOUS
<1>1. AloneShapes
  BY DEF Init, AloneShapes, NoSheets
<1>2. \A e \in Employees : SheetGood(e)
  BY DEF Init, SheetGood, NoSheets
<1>3. \A w \in Workers : TaskGood(w)
  BY DEF Init, TaskGood
<1> QED BY <1>1, <1>2, <1>3 DEF AloneInv

(* A step that only changes the task.                                      *)
LEMMA TaskAlone ==
  ASSUME NEW w \in Workers, Workers = {w}, AloneInv,
         UNCHANGED <<sheets, leave, paid, submitter, byHand, half, unsynced>>, TaskGood(w)'
  PROVE  AloneInv'
<1>1. AloneShapes'
  BY DEF AloneInv, AloneShapes
<1>2. ASSUME NEW e \in Employees PROVE SheetGood(e)'
  BY DEF AloneInv, SheetGood, Stamped, LeaveDay, LeaveStatus
<1> QED BY <1>1, <1>2 DEF AloneInv

LEMMA TaskKept ==
  ASSUME NEW w \in Workers, AloneInv, UNCHANGED <<sheets, leave, paid, op, task>>
  PROVE  TaskGood(w)'
<1>1. \A e \in Employees : Resynced(e)' = Resynced(e) /\ SeededSheet(e)' = SeededSheet(e)
  BY DEF Resynced, SeededSheet, SeededDay, LeaveDay, LeaveStatus
<1> QED BY <1>1 DEF AloneInv, TaskGood, Writes

LEMMA EndAlone ==
  ASSUME NEW w \in Workers, TasksOK, End(w)
  PROVE  TaskGood(w)'
  BY DEF TaskGood, End, TasksOK

(* A request on one sheet.                                                 *)
LEMMA OnSheetAlone ==
  ASSUME NEW w \in Workers, TasksOK, NEW kind, NEW e \in Employees, NEW u, NEW new, NEW days,
         Turns(w, kind, OnSheet(e, u, new, days)), UNCHANGED <<sheets, leave, paid>>,
         kind \notin {"generate", "import", "clear"},
         WholeSheet(new),
         kind \in {"edit", "mark"} =>
           /\ Editable(sheets[e])
           /\ new.status = sheets[e].status /\ new.by = sheets[e].by
           /\ new.approver = sheets[e].approver
           /\ AgreesWithGrid(new)
           /\ \A d \in Days : new.day[d] # sheets[e].day[d] => d \in days,
         kind \in Transitions =>
           /\ sheets[e].status \in From(kind)
           /\ kind = "approve" => Segregated(sheets[e], u)
           /\ u \in Users
           /\ new = Moved(sheets[e], kind, u),
         kind = "resync" => Editable(sheets[e]) /\ e \notin Hourly /\ new = Resynced(e)
  PROVE  TaskGood(w)'
<1>1. op'[w] = kind /\ task'[w] = OnSheet(e, u, new, days)
  BY DEF Turns, TasksOK
<1>2. /\ task'[w].who = {e} /\ task'[w].actor = u /\ task'[w].set = days
      /\ task'[w].seen[e] = sheets[e] /\ task'[w].new[e] = new
      /\ \A x \in Employees : x # e => task'[w].new[x] = NoSheet
  BY <1>1 DEF OnSheet, NoSheets
<1>3. Resynced(e)' = Resynced(e)
  BY DEF Resynced, LeaveDay, LeaveStatus
<1>4. Writes(w, e, sheets[e], new)'
  BY <1>1, <1>2, <1>3 DEF Writes
<1> QED BY <1>1, <1>2, <1>4 DEF TaskGood

LEMMA GenerateLoadAlone ==
  ASSUME NEW w \in Workers, TasksOK, AloneInv, GenerateLoad(w)
  PROVE  TaskGood(w)'
<1>1. PICK payable \in SUBSET Employees :
        LET missing == {e \in payable : sheets[e] = NoSheet}
        IN  Turns(w, "generate",
              [who |-> missing, actor |-> Nobody, seen |-> NoSheets,
               new |-> [e \in Employees |-> IF e \in missing THEN SeededSheet(e)
                                            ELSE NoSheet],
               set |-> {}, skipped |-> {}])
  BY DEF GenerateLoad, Start, Turns
<1> DEFINE missing == {e \in payable : sheets[e] = NoSheet}
           new == [e \in Employees |-> IF e \in missing THEN SeededSheet(e) ELSE NoSheet]
<1>2. op'[w] = "generate" /\ UNCHANGED <<sheets, leave, paid>>
  BY <1>1 DEF Turns, TasksOK, GenerateLoad
<1>3. /\ task'[w].who = missing /\ task'[w].seen = NoSheets /\ task'[w].new = new
  BY <1>1 DEF Turns, TasksOK
<1>4. \A e \in Employees : SeededSheet(e)' = SeededSheet(e) /\ WholeSheet(SeededSheet(e))
  BY <1>2, SeededWhole DEF AloneInv, SeededSheet, SeededDay, LeaveDay, LeaveStatus
<1>5. ASSUME NEW e \in Employees, e \in missing
      PROVE  Writes(w, e, NoSheet, SeededSheet(e))'
  BY <1>2, <1>4 DEF Writes, Transitions
<1> QED BY <1>2, <1>3, <1>4, <1>5 DEF TaskGood, NoSheets

LEMMA ImportLoadAlone ==
  ASSUME NEW w \in Workers, TasksOK, AloneInv, ImportLoad(w)
  PROVE  TaskGood(w)'
<1>1. PICK rows \in [Employees -> Imports \cup {None}] :
        LET taken == {e \in Employees :
                        rows[e] # None /\ Importable(sheets[e], rows[e])}
            skipped == {e \in taken : rows[e].hours = BadHours}
        IN  Start(w, "import",
              [who |-> taken, actor |-> Nobody,
               seen |-> [e \in Employees |-> IF e \in taken THEN sheets[e] ELSE NoSheet],
               new |-> [e \in Employees |-> IF e \in taken
                          THEN Imported(sheets[e], rows[e]) ELSE NoSheet],
               set |-> {rows[e].day : e \in taken},
               skipped |-> skipped])
  BY DEF ImportLoad
<1> DEFINE taken == {e \in Employees :
                       rows[e] # None /\ Importable(sheets[e], rows[e])}
           skipped == {e \in taken : rows[e].hours = BadHours}
           seen == [e \in Employees |-> IF e \in taken THEN sheets[e] ELSE NoSheet]
           new == [e \in Employees |-> IF e \in taken THEN Imported(sheets[e], rows[e])
                                       ELSE NoSheet]
           set == {rows[e].day : e \in taken}
<1>2. Start(w, "import", [who |-> taken, actor |-> Nobody, seen |-> seen, new |-> new,
                          set |-> set, skipped |-> skipped])
  BY <1>1, Zenon
<1>3. ASSUME NEW e \in Employees, e \in taken
      PROVE  /\ Editable(sheets[e]) /\ WholeSheet(sheets[e]) /\ rows[e] \in Imports
             /\ rows[e].day \in set /\ (e \notin skipped => rows[e].hours # BadHours)
             /\ seen[e] = sheets[e] /\ new[e] = Imported(sheets[e], rows[e])
  <2>1. Importable(sheets[e], rows[e]) /\ rows[e] # None
    BY <1>3
  <2>2. WholeSheet(sheets[e]) /\ Editable(sheets[e])
    BY <2>1 DEF Importable, AloneInv, SheetGood
  <2> QED BY <1>3, <2>1, <2>2
<1>4. \A e \in Employees : e \notin taken => new[e] = NoSheet
  OBVIOUS
<1> HIDE DEF taken, skipped, seen, new, set
<1>5. /\ op'[w] = "import" /\ UNCHANGED <<sheets, leave, paid>>
      /\ task'[w].who = taken /\ task'[w].seen = seen /\ task'[w].new = new
      /\ task'[w].set = set /\ task'[w].skipped = skipped
  BY <1>2 DEF Start, TasksOK, ImportLoad
<1>6. ASSUME NEW e \in Employees, e \in taken
      PROVE  /\ WholeSheet(new[e])
             /\ e \notin skipped => AgreesWithGrid(new[e])
             /\ new[e].status = sheets[e].status /\ new[e].by = sheets[e].by
             /\ new[e].approver = sheets[e].approver
             /\ \A x \in Days : new[e].day[x] # sheets[e].day[x] => x \in set
  BY <1>3, <1>6, ImportedWhole
<1>7. "import" \notin {"generate", "clear", "resync"} \cup Transitions
  BY DEF Transitions
<1>8. \A e \in Employees : e \in taken => Writes(w, e, sheets[e], task[w].new[e])'
  BY <1>3, <1>5, <1>6, <1>7 DEF Writes
<1> QED BY <1>3, <1>4, <1>5, <1>6, <1>8 DEF TaskGood

LEMMA EditLoadAlone ==
  ASSUME NEW w \in Workers, TasksOK, AloneInv, EditLoad(w) \/ MarkLoad(w)
  PROVE  TaskGood(w)'
<1>1. PICK e \in Employees, d \in Days, kind \in {"edit", "mark"} : \E status, hours :
        /\ Editable(sheets[e])
        /\ Start(w, kind, OnSheet(e, Nobody, Apply(sheets[e], d, status, hours),
                                  IF status = None THEN {} ELSE {d}))
  BY Zenon DEF EditLoad, MarkLoad
<1>2. PICK status, hours :
        /\ Editable(sheets[e])
        /\ Start(w, kind, OnSheet(e, Nobody, Apply(sheets[e], d, status, hours),
                                  IF status = None THEN {} ELSE {d}))
  BY <1>1
<1> DEFINE new == Apply(sheets[e], d, status, hours)
           days == IF status = None THEN {} ELSE {d}
<1>3. Turns(w, kind, OnSheet(e, Nobody, new, days)) /\ UNCHANGED <<sheets, leave, paid>>
  BY <1>2 DEF Start, Turns, EditLoad, MarkLoad
<1>4. WholeSheet(sheets[e])
  BY <1>2, EditableIsSheet DEF AloneInv, SheetGood
<1>5. /\ WholeSheet(new) /\ AgreesWithGrid(new)
      /\ new.status = sheets[e].status /\ new.by = sheets[e].by
      /\ new.approver = sheets[e].approver
      /\ \A x \in Days : new.day[x] # sheets[e].day[x] => x \in days
  BY <1>4, AppliedWhole
<1>6. kind \notin {"generate", "import", "clear", "resync"} \cup Transitions
  BY DEF Transitions
<1> HIDE DEF new, days
<1> QED BY <1>2, <1>3, <1>5, <1>6, OnSheetAlone

LEMMA TransitionLoadAlone ==
  ASSUME NEW w \in Workers, TasksOK, AloneInv, TransitionLoad(w)
  PROVE  TaskGood(w)'
<1>1. PICK e \in Employees, kind \in Transitions, u \in Users :
        /\ sheets[e].status \in From(kind)
        /\ kind = "approve" => Segregated(sheets[e], u)
        /\ Start(w, kind, OnSheet(e, u, Moved(sheets[e], kind, u), {}))
  BY DEF TransitionLoad
<1> DEFINE new == Moved(sheets[e], kind, u)
<1>2. Turns(w, kind, OnSheet(e, u, new, {})) /\ UNCHANGED <<sheets, leave, paid>>
  BY <1>1 DEF Start, Turns, TransitionLoad
<1>3. WholeSheet(sheets[e])
  <2>1. sheets[e] # NoSheet
    BY <1>1 DEF From, EditableStates, NoSheet
  <2> QED BY <2>1 DEF AloneInv, SheetGood
<1>4. WholeSheet(new)
  BY <1>3, MovedWhole
<1>5. kind \notin {"generate", "import", "clear", "edit", "mark", "resync"}
  BY DEF Transitions
<1> QED BY <1>1, <1>2, <1>4, <1>5, OnSheetAlone

\* How a step may change a sheet in SheetLifecycle.
Checker(e) == IF sheets[e].status = "APPROVED" THEN sheets[e].approver ELSE Nobody

LifeStep(e) ==
  \/ Lifecycle!Create(e) \/ Lifecycle!Change(e) \/ Lifecycle!Submit(e)
  \/ Lifecycle!Approve(e) \/ Lifecycle!Reject(e) \/ Lifecycle!Reopen(e)
  \/ Lifecycle!Keeps(e) /\ sheets'[e].status = sheets[e].status /\ Checker(e)' = Checker(e)

LEMMA LifeSteps ==
  ASSUME \A e \in Employees : LifeStep(e)
  PROVE  Lifecycle!Next
  BY DEF LifeStep, Checker, Lifecycle!Next

(* The sheets and ghosts of e stay as they are.                            *)
LEMMA SheetKept ==
  ASSUME NEW e \in Employees, SheetGood(e), sheets'[e] = sheets[e],
         submitter'[e] = submitter[e], half[e] => half'[e], byHand'[e] = byHand[e],
         \/ unsynced'[e]
         \/ /\ \A d \in Days : LeaveDay(e, d)' = LeaveDay(e, d)
            /\ unsynced[e] => unsynced'[e]
  PROVE  SheetGood(e)' /\ LifeStep(e)
<1>1. SheetGood(e)'
  BY DEF SheetGood, Stamped
<1>2. LifeStep(e)
  BY DEF LifeStep, Checker, Lifecycle!Keeps
<1> QED BY <1>1, <1>2

(* The same when nothing happens to the leave either.                      *)
LEMMA SheetUntouched ==
  ASSUME NEW e \in Employees, SheetGood(e), sheets'[e] = sheets[e],
         submitter'[e] = submitter[e], half[e] => half'[e], byHand'[e] = byHand[e],
         UNCHANGED <<leave, paid>>, unsynced[e] => unsynced'[e]
  PROVE  SheetGood(e)' /\ LifeStep(e)
<1>1. \A d \in Days : LeaveDay(e, d)' = LeaveDay(e, d)
  BY DEF LeaveDay, LeaveStatus
<1> QED BY <1>1, SheetKept

(* The sheet of e is now s, and good.                                      *)
LEMMA SheetNow ==
  ASSUME NEW e \in Employees, NEW s, sheets'[e] = s, WholeSheet(s),
         s.status = "SUBMITTED" => s.by = submitter'[e],
         ~half'[e] => AgreesWithGrid(s),
         UNCHANGED <<leave, paid>>,
         e \notin Hourly =>
           \A d \in Days \ (Off \cup byHand'[e]) :
             /\ s.day[d] \in {"PRESENT"} \cup Leave
             /\ ~unsynced'[e] => s.day[d] = LeaveDay(e, d)
  PROVE  SheetGood(e)'
<1>1. \A d \in Days : LeaveDay(e, d)' = LeaveDay(e, d)
  BY DEF LeaveDay, LeaveStatus
<1> QED BY <1>1 DEF SheetGood, Stamped

LEMMA GenerateCommitAlone ==
  ASSUME NEW w \in Workers, AloneInv, GenerateCommit(w), NEW e \in Employees
  PROVE  SheetGood(e)' /\ LifeStep(e)
<1>1. /\ op[w] = "generate" /\ Store(w)
      /\ unsynced' = [x \in Employees |-> x \notin task[w].who /\ unsynced[x]]
      /\ UNCHANGED <<leave, paid, submitter, byHand, half>>
  BY DEF GenerateCommit
<1>2. sheets'[e] = IF e \in task[w].who THEN task[w].new[e] ELSE sheets[e]
  BY <1>1, StoreAlone
<1>3. CASE e \notin task[w].who
  <2>1. unsynced[e] => unsynced'[e]
    BY <1>1, <1>3
  <2> QED BY <1>1, <1>2, <1>3, <2>1, SheetUntouched DEF AloneInv
<1>4. CASE e \in task[w].who
  <2>1. sheets[e] = NoSheet /\ sheets'[e] = SeededSheet(e)
    BY <1>1, <1>2, <1>4 DEF AloneInv, TaskGood, Writes
  <2> DEFINE new == SeededSheet(e)
  <2>2. /\ WholeSheet(new) /\ AgreesWithGrid(new) /\ new.status = "DRAFT"
        /\ e \notin Hourly => \A d \in Days \ Off : /\ new.day[d] = LeaveDay(e, d)
                                                    /\ new.day[d] \in {"PRESENT"} \cup Leave
    BY SeededWhole DEF AloneInv
  <2> HIDE DEF new
  <2>3. SheetGood(e)'
    BY <1>1, <2>1, <2>2 DEF SheetGood, Stamped, LeaveDay, LeaveStatus, new
  <2>4. Lifecycle!Create(e)
    BY <1>1, <2>1, <2>2 DEF Lifecycle!Create, NoSheet, new
  <2> QED BY <2>3, <2>4 DEF LifeStep
<1> QED BY <1>3, <1>4

LEMMA EditCommitAlone ==
  ASSUME NEW w \in Workers, AloneInv, EditCommit(w), NEW e \in Employees
  PROVE  SheetGood(e)' /\ LifeStep(e)
<1>1. /\ op[w] \in {"edit", "mark", "import"} /\ Store(w)
      /\ byHand' = [x \in Employees |-> byHand[x] \cup SetByHand(w, x)]
      /\ half' = [x \in Employees |-> IF x \in task[w].who THEN x \in task[w].skipped
                                      ELSE half[x]]
      /\ UNCHANGED <<leave, paid, submitter, unsynced>>
  BY DEF EditCommit
<1>2. sheets'[e] = IF e \in task[w].who THEN task[w].new[e] ELSE sheets[e]
  BY <1>1, StoreAlone
<1>3. CASE e \notin task[w].who
  <2>1. half'[e] = half[e] /\ byHand'[e] = byHand[e]
    BY <1>1, <1>3 DEF SetByHand
  <2> QED BY <1>1, <1>2, <1>3, <2>1, SheetUntouched DEF AloneInv
<1>4. CASE e \in task[w].who
  <2> DEFINE s == sheets[e]
             new == task[w].new[e]
  <2>1. /\ WholeSheet(new) /\ Editable(s) /\ task[w].seen[e] = s
        /\ new.status = s.status /\ new.by = s.by /\ new.approver = s.approver
        /\ e \notin task[w].skipped => AgreesWithGrid(new)
        /\ \A d \in Days : new.day[d] # s.day[d] => d \in task[w].set
    BY <1>1, <1>4 DEF AloneInv, TaskGood, Writes
  <2>2. s # NoSheet /\ s.status \in {"DRAFT", "REJECTED"}
    BY <2>1, EditableIsSheet DEF Editable, EditableStates
  <2>3. \A d \in Days \ byHand'[e] : d \notin byHand[e] /\ new.day[d] = s.day[d]
    BY <1>1, <1>4, <2>1 DEF SetByHand
  <2>4. half'[e] = (e \in task[w].skipped) /\ sheets'[e] = new
    BY <1>1, <1>2, <1>4
  <2> HIDE DEF new
  <2>5. e \notin Hourly => Stamped(e, sheets[e])
    BY <2>2 DEF AloneInv, SheetGood
  <2>6. SheetGood(e)'
    <3>1. e \notin Hourly => \A d \in Days \ (Off \cup byHand'[e]) :
            /\ new.day[d] \in {"PRESENT"} \cup Leave
            /\ ~unsynced'[e] => new.day[d] = LeaveDay(e, d)
      BY <1>1, <2>3, <2>5 DEF Stamped
    <3> QED BY <1>1, <2>1, <2>2, <2>4, <3>1, SheetNow
  <2>7. Lifecycle!Change(e)
    BY <1>1, <2>1, <2>2, <2>4 DEF Lifecycle!Change
  <2> QED BY <2>6, <2>7 DEF LifeStep
<1> QED BY <1>3, <1>4

(* Submission, approval, rejection and the first commit of a reopening.    *)
LEMMA MoveAlone ==
  ASSUME NEW w \in Workers, AloneInv, op[w] \in Transitions, Store(w), NEW e \in Employees,
         submitter' = [x \in Employees |->
           IF op[w] = "submit" /\ x \in task[w].who THEN task[w].actor ELSE submitter[x]],
         UNCHANGED <<leave, paid, byHand, half, unsynced>>
  PROVE  SheetGood(e)' /\ LifeStep(e)
<1>1. op[w] \notin {"idle", "decided"}
  BY DEF Transitions
<1>2. sheets'[e] = IF e \in task[w].who THEN task[w].new[e] ELSE sheets[e]
  BY <1>1, StoreAlone
<1>3. CASE e \notin task[w].who
  <2>1. submitter'[e] = submitter[e]
    BY <1>3
  <2> QED BY <1>2, <1>3, <2>1, SheetUntouched DEF AloneInv
<1>4. CASE e \in task[w].who
  <2> DEFINE s == sheets[e]
             u == task[w].actor
             new == task[w].new[e]
  <2>1. /\ s.status \in From(op[w]) /\ new = Moved(s, op[w], u) /\ u \in Users
        /\ op[w] = "approve" => Segregated(s, u)
    BY <1>1, <1>4 DEF AloneInv, TaskGood, Writes
  <2>2. s # NoSheet
    BY <2>1 DEF From, EditableStates, NoSheet
  <2>3. /\ WholeSheet(s)
        /\ s.status = "SUBMITTED" => s.by = submitter[e]
        /\ ~half[e] => AgreesWithGrid(s)
        /\ e \notin Hourly => Stamped(e, s)
    BY <2>2 DEF AloneInv, SheetGood
  <2> HIDE DEF s, u, new
  <2>4. /\ WholeSheet(new) /\ new.status = To[op[w]]
        /\ new.day = s.day /\ new.hours = s.hours /\ new.agg = s.agg
        /\ new.by = (IF op[w] = "submit" THEN u ELSE s.by)
        /\ new.approver = (IF op[w] = "approve" THEN u ELSE s.approver)
    BY <2>1, <2>3, MovedWhole
  <2>5. new # NoSheet
    BY <2>4, WholeIsSheet
  <2>6. sheets'[e] = new /\ submitter'[e] = (IF op[w] = "submit" THEN u ELSE submitter[e])
    BY <1>2, <1>4 DEF new, u
  <2>7. SheetGood(e)'
    <3>1. new.status = "SUBMITTED" => new.by = submitter'[e]
      BY <2>4, <2>6 DEF To, Transitions
    <3>2. ~half[e] => AgreesWithGrid(new)
      BY <2>3, <2>4 DEF AgreesWithGrid
    <3>3. e \notin Hourly => \A d \in Days \ (Off \cup byHand'[e]) :
            /\ new.day[d] \in {"PRESENT"} \cup Leave
            /\ ~unsynced'[e] => new.day[d] = LeaveDay(e, d)
      BY <2>3, <2>4 DEF Stamped
    <3> QED BY <2>4, <2>6, <3>1, <3>2, <3>3, SheetNow
  <2>8. /\ s.status = sheets[e].status
        /\ <<sheets'[e].day, sheets'[e].hours, sheets'[e].agg>> =
             <<sheets[e].day, sheets[e].hours, sheets[e].agg>>
        /\ sheets[e] # NoSheet /\ sheets'[e] # NoSheet
    BY <2>2, <2>4, <2>5, <2>6 DEF s
  <2>9. LifeStep(e)
    <3>1. CASE op[w] = "submit"
      <4>1. Lifecycle!Submit(e)
        BY <2>1, <2>4, <2>6, <2>8, <3>1 DEF Lifecycle!Submit, From, EditableStates, To
      <4> QED BY <4>1 DEF LifeStep
    <3>2. CASE op[w] = "approve"
      <4>1. s.status = "SUBMITTED" /\ (Enforce => submitter[e] # u)
        <5>1. s.status = "SUBMITTED"
          BY <2>1, <3>2 DEF From
        <5> QED BY <2>1, <2>3, <3>2, <5>1 DEF Segregated
      <4>2. sheets'[e].status = "APPROVED" /\ sheets'[e].approver = u
        BY <2>4, <2>6, <3>2 DEF To
      <4>3. Lifecycle!Approve(e)
        BY <2>1, <2>6, <2>8, <3>2, <4>1, <4>2 DEF Lifecycle!Approve, Lifecycle!Keeps
      <4> QED BY <4>3 DEF LifeStep
    <3>3. CASE op[w] = "reject"
      <4>1. s.status = "SUBMITTED" /\ sheets'[e].status = "REJECTED"
        BY <2>1, <2>4, <2>6, <3>3 DEF From, To
      <4>2. Lifecycle!Reject(e)
        BY <2>6, <2>8, <3>3, <4>1 DEF Lifecycle!Reject, Lifecycle!Keeps
      <4> QED BY <4>2 DEF LifeStep
    <3>4. CASE op[w] = "reopen"
      <4>1. s.status \in {"SUBMITTED", "APPROVED"} /\ sheets'[e].status = "DRAFT"
        BY <2>1, <2>4, <2>6, <3>4 DEF From, To
      <4>2. Lifecycle!Reopen(e)
        BY <2>6, <2>8, <3>4, <4>1 DEF Lifecycle!Reopen, Lifecycle!Keeps
      <4> QED BY <4>2 DEF LifeStep
    <3> QED BY <3>1, <3>2, <3>3, <3>4 DEF Transitions
  <2> QED BY <2>7, <2>9
<1> QED BY <1>3, <1>4

LEMMA ReopenCommitAlone ==
  ASSUME NEW w \in Workers, TasksOK, AloneInv, ReopenCommit(w)
  PROVE  /\ TaskGood(w)'
         /\ \A e \in Employees : SheetGood(e)' /\ LifeStep(e)
<1>1. /\ op[w] = "reopen" /\ Store(w) /\ op' = [op EXCEPT ![w] = "clear"]
      /\ UNCHANGED <<leave, paid, submitter, byHand, half, unsynced>>
  BY DEF ReopenCommit, ghosts
<1> DEFINE new == [e \in Employees |-> IF e \in task[w].who THEN Cleared(task[w].new[e])
                                       ELSE NoSheet]
<1>2. task' = [task EXCEPT ![w] =
        [who |-> task[w].who, actor |-> task[w].actor, seen |-> task[w].new, new |-> new,
         set |-> {}, skipped |-> {}]]
  BY DEF ReopenCommit
<1>3. /\ op'[w] = "clear" /\ task'[w].who = task[w].who
      /\ task'[w].seen = task[w].new /\ task'[w].new = new
  BY <1>1, <1>2 DEF TasksOK
<1>4. ASSUME NEW e \in Employees PROVE SheetGood(e)' /\ LifeStep(e)
  <2>1. submitter' = [x \in Employees |->
          IF op[w] = "submit" /\ x \in task[w].who THEN task[w].actor ELSE submitter[x]]
    BY <1>1 DEF AloneInv, AloneShapes
  <2> QED BY <1>1, <2>1, MoveAlone DEF Transitions
<1>5. ASSUME NEW e \in Employees, e \in task[w].who
      PROVE  /\ task[w].new[e] = sheets'[e] /\ new[e] = Cleared(task[w].new[e])
             /\ WholeSheet(new[e]) /\ task[w].new[e].status = "DRAFT"
  <2>1. sheets'[e] = task[w].new[e]
    BY <1>1, <1>5, StoreAlone
  <2>2. WholeSheet(task[w].new[e])
    BY <1>1, <1>5 DEF AloneInv, TaskGood
  <2>3. task[w].new[e].status = "DRAFT"
    BY <1>1, <1>5 DEF TasksOK
  <2>4. new[e] = Cleared(task[w].new[e])
    BY <1>5
  <2> HIDE DEF new
  <2> QED BY <2>1, <2>2, <2>3, <2>4, ClearedWhole
<1>6. \A e \in Employees : e \notin task[w].who => new[e] = NoSheet
  OBVIOUS
<1>7. "clear" \notin Transitions
  BY DEF Transitions
<1> HIDE DEF new
<1>8. \A e \in Employees : e \in task[w].who => Writes(w, e, sheets[e], task[w].new[e])'
  BY <1>1, <1>3, <1>5, <1>7 DEF Writes
<1>9. TaskGood(w)'
  BY <1>3, <1>5, <1>6, <1>8 DEF TaskGood
<1> QED BY <1>4, <1>9

(* Clearing the stamps changes neither the status nor the grid.            *)
LEMMA ClearCommitAlone ==
  ASSUME NEW w \in Workers, AloneInv, ClearCommit(w), NEW e \in Employees
  PROVE  SheetGood(e)' /\ LifeStep(e)
<1>1. /\ op[w] = "clear" /\ Store(w)
      /\ UNCHANGED <<leave, paid, submitter, byHand, half, unsynced>>
  BY DEF ClearCommit, ghosts
<1>2. sheets'[e] = IF e \in task[w].who THEN task[w].new[e] ELSE sheets[e]
  BY <1>1, StoreAlone
<1>3. CASE e \notin task[w].who
  BY <1>1, <1>2, <1>3, SheetUntouched DEF AloneInv
<1>4. CASE e \in task[w].who
  <2> DEFINE s == sheets[e]
  <2>1. s.status = "DRAFT" /\ sheets'[e] = Cleared(s)
    BY <1>1, <1>2, <1>4 DEF AloneInv, TaskGood, Writes
  <2>2. s # NoSheet
    BY <2>1 DEF NoSheet
  <2>3. /\ WholeSheet(s)
        /\ ~half[e] => AgreesWithGrid(s)
        /\ e \notin Hourly => Stamped(e, s)
    BY <2>2 DEF AloneInv, SheetGood
  <2> HIDE DEF s
  <2> DEFINE new == Cleared(s)
  <2>4. /\ WholeSheet(new) /\ new.status = "DRAFT"
        /\ new.day = s.day /\ new.hours = s.hours /\ new.agg = s.agg
    BY <2>1, <2>3, ClearedWhole
  <2>5. new # NoSheet
    BY <2>4, WholeIsSheet
  <2>6. sheets'[e] = new
    BY <2>1
  <2> HIDE DEF new
  <2>7. SheetGood(e)'
    <3>1. ~half[e] => AgreesWithGrid(new)
      BY <2>3, <2>4 DEF AgreesWithGrid
    <3>2. e \notin Hourly => \A d \in Days \ (Off \cup byHand'[e]) :
            /\ new.day[d] \in {"PRESENT"} \cup Leave
            /\ ~unsynced'[e] => new.day[d] = LeaveDay(e, d)
      BY <1>1, <2>3, <2>4 DEF Stamped
    <3> QED BY <1>1, <2>4, <2>6, <3>1, <3>2, SheetNow
  <2>8. LifeStep(e)
    <3>1. Lifecycle!Keeps(e)
      BY <1>1, <2>2, <2>4, <2>5, <2>6 DEF Lifecycle!Keeps, s
    <3> QED BY <2>1, <2>4, <2>6, <3>1 DEF LifeStep, Checker, s
  <2> QED BY <2>7, <2>8
<1> QED BY <1>3, <1>4

LEMMA ResyncCommitAlone ==
  ASSUME NEW w \in Workers, AloneInv, ResyncCommit(w), NEW e \in Employees
  PROVE  SheetGood(e)' /\ LifeStep(e)
<1>1. /\ op[w] = "resync" /\ Store(w)
      /\ byHand' = [x \in Employees |-> byHand[x] \ {d \in Days : sheets'[x] # NoSheet
                                          /\ sheets'[x].day[d] # sheets[x].day[d]}]
      /\ half' = [x \in Employees |-> x \notin task[w].who /\ half[x]]
      /\ unsynced' = [x \in Employees |-> x \notin task[w].who /\ unsynced[x]]
      /\ UNCHANGED <<leave, paid, submitter>>
  BY DEF ResyncCommit
<1>2. sheets'[e] = IF e \in task[w].who THEN task[w].new[e] ELSE sheets[e]
  BY <1>1, StoreAlone
<1>3. CASE e \notin task[w].who
  <2>1. /\ half[e] => half'[e]
        /\ unsynced[e] => unsynced'[e]
        /\ byHand'[e] = byHand[e]
    BY <1>1, <1>2, <1>3
  <2> QED BY <1>1, <1>2, <1>3, <2>1, SheetUntouched DEF AloneInv
<1>4. CASE e \in task[w].who
  <2> DEFINE s == sheets[e]
             new == Resynced(e)
  <2>1. Editable(s) /\ e \notin Hourly /\ sheets'[e] = new
    BY <1>1, <1>2, <1>4 DEF AloneInv, TaskGood, Writes
  <2>2. s # NoSheet /\ s.status \in {"DRAFT", "REJECTED"}
    BY <2>1, EditableIsSheet DEF Editable, EditableStates
  <2>3. WholeSheet(s) /\ Stamped(e, s)
    BY <2>1, <2>2 DEF AloneInv, SheetGood
  <2>4. /\ WholeSheet(new) /\ AgreesWithGrid(new) /\ new.status = s.status
        /\ new.by = s.by /\ new.approver = s.approver
        /\ \A d \in Days : new.day[d] =
             IF s.day[d] \in {"PRESENT"} \cup Leave THEN LeaveDay(e, d) ELSE s.day[d]
        /\ \A d \in Days : LeaveDay(e, d) \in {"PRESENT"} \cup Leave
    BY <2>3, ResyncedWhole DEF AloneInv
  <2>5. new # NoSheet
    BY <2>4, WholeIsSheet
  <2>6. byHand'[e] = byHand[e] \ {d \in Days : new.day[d] # s.day[d]}
    BY <1>1, <2>1, <2>5
  <2> HIDE DEF s, new
  <2>7. \A d \in Days \ (Off \cup byHand'[e]) :
          /\ new.day[d] \in {"PRESENT"} \cup Leave
          /\ new.day[d] = LeaveDay(e, d)
    <3> SUFFICES ASSUME NEW d \in Days \ (Off \cup byHand'[e])
                 PROVE  new.day[d] = LeaveDay(e, d)
      BY <2>4
    <3>1. CASE new.day[d] # s.day[d]
      BY <2>4, <3>1
    <3>2. CASE new.day[d] = s.day[d]
      <4>1. d \notin byHand[e]
        BY <2>6, <3>2
      <4>2. s.day[d] \in {"PRESENT"} \cup Leave
        BY <2>3, <4>1 DEF Stamped
      <4> QED BY <2>4, <4>2
    <3> QED BY <3>1, <3>2
  <2>8. SheetGood(e)'
    BY <1>1, <2>1, <2>2, <2>4, <2>7, SheetNow DEF new
  <2>9. Lifecycle!Change(e)
    BY <1>1, <2>1, <2>2, <2>4 DEF Lifecycle!Change, s, new
  <2> QED BY <2>8, <2>9 DEF LifeStep
<1> QED BY <1>3, <1>4

(* A task that has loaded no sheet.                                        *)
LEMMA DecidedAlone ==
  ASSUME NEW w \in Workers, TasksOK, AloneInv, DecideLeave(w) \/ CancelPending(w)
  PROVE  /\ TaskGood(w)' /\ AloneShapes'
         /\ \A e \in Employees : SheetGood(e)' /\ LifeStep(e)
<1>1. /\ op'[w] = "decided"
      /\ UNCHANGED <<sheets, submitter, byHand, half>>
  BY DEF DecideLeave, CancelPending, Start, TasksOK, ghosts
<1>2. TaskGood(w)'
  BY <1>1 DEF TaskGood
<1>3. CASE CancelPending(w)
  <2>1. UNCHANGED <<leave, paid, unsynced>>
    BY <1>3 DEF CancelPending, ghosts
  <2>2. AloneShapes'
    BY <1>1, <2>1 DEF AloneInv, AloneShapes
  <2>3. \A e \in Employees, d \in Days : LeaveDay(e, d)' = LeaveDay(e, d)
    BY <2>1 DEF LeaveDay, LeaveStatus
  <2> QED BY <1>1, <1>2, <2>1, <2>2, <2>3, SheetKept DEF AloneInv
<1>4. CASE DecideLeave(w)
  <2>1. PICK x \in Employees, d \in Days :
          /\ \E ask \in IF leave[x][d] = None THEN LeaveAsks ELSE {None} :
               leave' = [leave EXCEPT ![x][d] = ask]
          /\ unsynced' = [unsynced EXCEPT ![x] = TRUE]
    BY <1>4 DEF DecideLeave
  <2>2. PICK ask \in LeaveAsks \cup {None} : leave' = [leave EXCEPT ![x][d] = ask]
    BY <2>1
  <2>3. leave' \in [Employees -> [Days -> LeaveAsks \cup {None}]]
    BY <2>2 DEF AloneInv, AloneShapes
  <2>4. /\ unsynced' = [e \in Employees |-> unsynced'[e]]
        /\ unsynced'[x]
        /\ \A e \in Employees \ {x} : leave'[e] = leave[e] /\ unsynced'[e] = unsynced[e]
    BY <2>1, <2>2 DEF AloneInv, AloneShapes
  <2>5. AloneShapes'
    BY <1>1, <2>3, <2>4 DEF AloneInv, AloneShapes
  <2>6. paid' = paid
    BY <1>4 DEF DecideLeave
  <2>7. \A e \in Employees \ {x} : \A y \in Days : LeaveDay(e, y)' = LeaveDay(e, y)
    BY <2>4, <2>6 DEF LeaveDay, LeaveStatus
  <2>8. ASSUME NEW e \in Employees PROVE SheetGood(e)' /\ LifeStep(e)
    BY <1>1, <2>4, <2>7, SheetKept DEF AloneInv
  <2> QED BY <1>2, <2>5, <2>8
<1> QED BY <1>3, <1>4

(* A change of a leave type leaves every sheet with leave of it behind.    *)
LEMMA TypeChangedAlone ==
  ASSUME NEW w \in Workers, TasksOK, AloneInv, UpdateType(w)
  PROVE  /\ TaskGood(w)' /\ AloneShapes'
         /\ \A e \in Employees : SheetGood(e)' /\ LifeStep(e)
<1>1. /\ op' = op /\ op[w] = "idle"
      /\ UNCHANGED <<sheets, leave, submitter, byHand, half>>
  BY DEF UpdateType
<1>2. TaskGood(w)'
  BY <1>1 DEF TaskGood
<1>3. PICK t \in LeaveTypes :
        /\ paid' = [paid EXCEPT ![t] = ~@]
        /\ unsynced' = [e \in Employees |-> unsynced[e] \/
             \E d \in Days : leave[e][d] # None /\ leave[e][d].type = t]
  BY DEF UpdateType
<1>4. unsynced' = [e \in Employees |-> unsynced'[e]]
  BY <1>3, Zenon
<1>5. AloneShapes'
  BY <1>1, <1>4 DEF AloneInv, AloneShapes
<1>6. ASSUME NEW e \in Employees PROVE SheetGood(e)' /\ LifeStep(e)
  <2>1. unsynced'[e] <=> \/ unsynced[e]
                         \/ \E d \in Days : leave[e][d] # None /\ leave[e][d].type = t
    BY <1>3, Zenon
  <2>2. CASE unsynced'[e]
    BY <1>1, <2>2, SheetKept DEF AloneInv
  <2>3. CASE ~unsynced'[e]
    <3>1. ASSUME NEW d \in Days, leave[e][d] # None
          PROVE  paid'[leave[e][d].type] = paid[leave[e][d].type]
      <4>1. leave[e][d].type # t
        BY <2>1, <2>3, <3>1
      <4>2. leave[e][d].type \in LeaveTypes
        BY <3>1, InputsAssumption DEF AloneInv, AloneShapes
      <4> QED BY <1>3, <4>1, <4>2
    <3>2. \A d \in Days : LeaveDay(e, d)' = LeaveDay(e, d)
      BY <1>1, <3>1 DEF LeaveDay, LeaveStatus
    <3> QED BY <1>1, <2>1, <2>3, <3>2, SheetKept DEF AloneInv
  <2> QED BY <2>2, <2>3
<1> QED BY <1>2, <1>5, <1>6

(* The resync finds the sheet as it should be, passes it by, or computes   *)
(* its new grid.                                                           *)
LEMMA ResyncLoadAlone ==
  ASSUME NEW w \in Workers, TasksOK, AloneInv, ResyncLoad(w)
  PROVE  /\ TaskGood(w)' /\ AloneShapes'
         /\ \A e \in Employees : SheetGood(e)' /\ LifeStep(e)
<1>1. /\ UNCHANGED <<sheets, leave, paid, submitter, byHand, half>>
      /\ task[w].who \subseteq Employees
  BY DEF ResyncLoad, TasksOK
<1>0. \A e \in Employees, d \in Days : LeaveDay(e, d)' = LeaveDay(e, d)
  BY <1>1 DEF LeaveDay, LeaveStatus
<1>2. PICK x \in Employees :
        \/ /\ Resyncable(x)
           /\ Turns(w, "resync", OnSheet(x, Nobody, Resynced(x), {}))
           /\ UNCHANGED unsynced
        \/ /\ ~(Resyncable(x) /\ Resynced(x).day # sheets[x].day)
           /\ End(w)
           /\ unsynced' = [unsynced EXCEPT ![x] = @ /\ ~Resyncable(x)]
  BY <1>1 DEF ResyncLoad, Turns
<1>3. Resyncable(x) => /\ Editable(sheets[x]) /\ x \notin Hourly
                       /\ WholeSheet(sheets[x]) /\ Stamped(x, sheets[x])
  BY EditableIsSheet DEF Resyncable, AloneInv, SheetGood
<1>4. Resyncable(x) =>
        /\ WholeSheet(Resynced(x))
        /\ \A d \in Days : Resynced(x).day[d] =
             IF sheets[x].day[d] \in {"PRESENT"} \cup Leave THEN LeaveDay(x, d)
             ELSE sheets[x].day[d]
  BY <1>3, ResyncedWhole DEF AloneInv
<1>5. CASE Resyncable(x) /\ Turns(w, "resync", OnSheet(x, Nobody, Resynced(x), {}))
           /\ UNCHANGED unsynced
  <2> DEFINE new == Resynced(x)
  <2>1. "resync" \notin {"generate", "import", "clear", "edit", "mark"} \cup Transitions
    BY DEF Transitions
  <2>2. WholeSheet(new) /\ Editable(sheets[x]) /\ x \notin Hourly /\ new = Resynced(x)
    BY <1>3, <1>4, <1>5
  <2>3. Turns(w, "resync", OnSheet(x, Nobody, new, {}))
    BY <1>5
  <2>4. TaskGood(w)'
    <3> HIDE DEF new
    <3> QED BY <1>1, <2>1, <2>2, <2>3, OnSheetAlone
  <2>5. AloneShapes'
    BY <1>1, <1>5 DEF AloneInv, AloneShapes
  <2> QED BY <1>0, <1>1, <1>5, <2>4, <2>5, SheetKept DEF AloneInv
<1>6. CASE /\ ~(Resyncable(x) /\ Resynced(x).day # sheets[x].day)
           /\ End(w)
           /\ unsynced' = [unsynced EXCEPT ![x] = @ /\ ~Resyncable(x)]
  <2>1. TaskGood(w)'
    BY <1>6, EndAlone
  <2>2. /\ \A e \in Employees \ {x} : unsynced'[e] = unsynced[e]
        /\ ~Resyncable(x) => (unsynced[x] => unsynced'[x])
        /\ unsynced' = [e \in Employees |-> unsynced'[e]]
    BY <1>6, Zenon DEF AloneInv, AloneShapes
  <2>3. AloneShapes'
    BY <1>1, <2>2 DEF AloneInv, AloneShapes
  <2>4. ASSUME NEW e \in Employees PROVE SheetGood(e)' /\ LifeStep(e)
    <3>1. CASE e # x \/ ~Resyncable(x)
      BY <1>0, <1>1, <2>2, <3>1, SheetKept DEF AloneInv
    <3>2. CASE e = x /\ Resyncable(x)
      <4>1. \A d \in Days : sheets[x].day[d] = Resynced(x).day[d]
        BY <1>6, <3>2
      <4>2. \A d \in Days \ (Off \cup byHand[x]) :
              /\ sheets[x].day[d] \in {"PRESENT"} \cup Leave
              /\ sheets[x].day[d] = LeaveDay(x, d)
        BY <1>3, <1>4, <3>2, <4>1 DEF Stamped
      <4>3. SheetGood(e)'
        BY <1>1, <3>2, <4>2 DEF AloneInv, SheetGood, Stamped, LeaveDay, LeaveStatus
      <4>4. LifeStep(e)
        BY <1>1 DEF LifeStep, Checker, Lifecycle!Keeps
      <4> QED BY <4>3, <4>4
    <3> QED BY <3>1, <3>2
  <2> QED BY <2>1, <2>3, <2>4
<1> QED BY <1>2, <1>5, <1>6

LEMMA StoringShapes ==
  ASSUME AloneInv, NEW w \in Workers,
         \/ GenerateCommit(w) \/ EditCommit(w) \/ TransitionCommit(w) \/ ReopenCommit(w)
         \/ ClearCommit(w) \/ ResyncCommit(w)
  PROVE  AloneShapes'
<1>1. sheets' = [e \in Employees |-> sheets'[e]] /\ UNCHANGED <<leave, paid>>
  BY DEF GenerateCommit, EditCommit, TransitionCommit, ReopenCommit, ClearCommit,
         ResyncCommit, Store
<1>2. /\ submitter' = [e \in Employees |-> submitter'[e]]
      /\ byHand' = [e \in Employees |-> byHand'[e]]
  BY DEF GenerateCommit, EditCommit, TransitionCommit, ReopenCommit, ClearCommit,
         ResyncCommit, ghosts, AloneInv, AloneShapes
<1>3. half' = [e \in Employees |-> half'[e]]
  BY Zenon DEF GenerateCommit, EditCommit, TransitionCommit, ReopenCommit, ClearCommit,
     ResyncCommit, ghosts, AloneInv, AloneShapes
<1>4. unsynced' = [e \in Employees |-> unsynced'[e]]
  BY Zenon DEF GenerateCommit, EditCommit, TransitionCommit, ReopenCommit, ClearCommit,
     ResyncCommit, ghosts, AloneInv, AloneShapes
<1>5. leave' \in [Employees -> [Days -> LeaveAsks \cup {None}]]
  BY <1>1 DEF AloneInv, AloneShapes
<1> QED BY <1>1, <1>2, <1>3, <1>4, <1>5 DEF AloneShapes

LEMMA StoringAlone ==
  ASSUME NEW w \in Workers, TasksOK, AloneInv,
         \/ GenerateCommit(w) \/ EditCommit(w) \/ TransitionCommit(w) \/ ReopenCommit(w)
         \/ ClearCommit(w) \/ ResyncCommit(w)
  PROVE  /\ TaskGood(w)'
         /\ \A e \in Employees : SheetGood(e)' /\ LifeStep(e)
<1>1. ASSUME ~ReopenCommit(w) PROVE TaskGood(w)'
  BY <1>1, EndAlone DEF GenerateCommit, EditCommit, TransitionCommit, ClearCommit,
     ResyncCommit
<1>2. ASSUME NEW e \in Employees, TransitionCommit(w) PROVE SheetGood(e)' /\ LifeStep(e)
  BY <1>2, MoveAlone DEF TransitionCommit
<1> QED
  BY <1>1, <1>2, GenerateCommitAlone, EditCommitAlone, ReopenCommitAlone, ClearCommitAlone,
     ResyncCommitAlone

(* Every step of the only worker keeps the invariant and is one of         *)
(* SheetLifecycle's.                                                       *)
LEMMA NextAlone ==
  ASSUME NEW w, Workers = {w}, TasksOK, AloneInv, [Next]_vars
  PROVE  AloneInv' /\ \A e \in Employees : LifeStep(e)
<1> w \in Workers
  OBVIOUS
<1>1. ASSUME UNCHANGED <<sheets, leave, paid, submitter, byHand, half, unsynced>>, TaskGood(w)'
      PROVE  AloneInv' /\ \A e \in Employees : LifeStep(e)
  <2>1. \A e \in Employees, d \in Days : LeaveDay(e, d)' = LeaveDay(e, d)
    BY <1>1 DEF LeaveDay, LeaveStatus
  <2>2. \A e \in Employees : LifeStep(e)
    BY <1>1, <2>1, SheetKept DEF AloneInv
  <2> QED BY <1>1, <2>2, TaskAlone
<1>2. ASSUME \/ GenerateLoad(w) \/ EditLoad(w) \/ MarkLoad(w) \/ ImportLoad(w)
             \/ TransitionLoad(w)
      PROVE  AloneInv' /\ \A e \in Employees : LifeStep(e)
  <2>1. TaskGood(w)'
    BY <1>2, GenerateLoadAlone, EditLoadAlone, ImportLoadAlone, TransitionLoadAlone
  <2>2. UNCHANGED <<sheets, leave, paid, submitter, byHand, half, unsynced>>
    BY <1>2 DEF GenerateLoad, EditLoad, MarkLoad, ImportLoad, TransitionLoad, ghosts
  <2> QED BY <1>1, <2>1, <2>2
<1>3. ASSUME GenerateFail(w) \/ Abandon(w)
      PROVE  AloneInv' /\ \A e \in Employees : LifeStep(e)
  BY <1>1, <1>3, EndAlone DEF GenerateFail, Abandon, ghosts
<1>4. ASSUME CloseCycle \/ UNCHANGED vars
      PROVE  AloneInv' /\ \A e \in Employees : LifeStep(e)
  BY <1>1, <1>4, TaskKept DEF CloseCycle, vars, ghosts
<1>5. ASSUME \/ GenerateCommit(w) \/ EditCommit(w) \/ TransitionCommit(w) \/ ReopenCommit(w)
             \/ ClearCommit(w) \/ ResyncCommit(w)
      PROVE  AloneInv' /\ \A e \in Employees : LifeStep(e)
  BY <1>5, StoringShapes, StoringAlone DEF AloneInv
<1>6. ASSUME DecideLeave(w) \/ CancelPending(w) \/ UpdateType(w) \/ ResyncLoad(w)
      PROVE  AloneInv' /\ \A e \in Employees : LifeStep(e)
  BY <1>6, DecidedAlone, TypeChangedAlone, ResyncLoadAlone DEF AloneInv
<1> QED BY <1>2, <1>3, <1>4, <1>5, <1>6 DEF Next

(* A request at a time, the aggregates that a payroll run reads are those  *)
(* of the entries, except on a sheet that holds the status of an imported  *)
(* row that was skipped (recompute_aggregates after every edit).           *)
THEOREM SerialAggregates ==
  ASSUME NEW w, Workers = {w}
  PROVE  Spec => []AggregatesAgree
<1>1. AloneInv => AggregatesAgree
  BY DEF AloneInv, SheetGood, AggregatesAgree
<1>2. TasksOK /\ AloneInv /\ [Next]_vars => AloneInv'
  BY NextAlone
<1> QED BY TasksOKInit, TasksOKStep, InitAlone, <1>1, <1>2, PTL DEF Spec

(* A request at a time, a sheet that no decision and no change of a leave  *)
(* type has bypassed shows the leave ledger, as the types stand now, on    *)
(* every day nobody set by hand (generate_for_cycle, resync_leave,         *)
(* update_type).                                                           *)
THEOREM SerialStamps ==
  ASSUME NEW w, Workers = {w}
  PROVE  Spec => []LeaveIsStamped
<1>1. AloneInv => LeaveIsStamped
  BY DEF AloneInv, SheetGood, Stamped, LeaveIsStamped
<1>2. TasksOK /\ AloneInv /\ [Next]_vars => AloneInv'
  BY NextAlone
<1> QED BY TasksOKInit, TasksOKStep, InitAlone, <1>1, <1>2, PTL DEF Spec

(* A request at a time, the sheets of a cycle go through drafting,         *)
(* submission by a maker and decision by a checker, and their grids are    *)
(* fixed from the submission to the next reopening (_transition, reopen).  *)
THEOREM SerialLifecycle ==
  ASSUME NEW w, Workers = {w}
  PROVE  Spec => LifecycleSpec
<1>1. Init => Lifecycle!Init
  BY DEF Init, Lifecycle!Init, NoSheets, NoSheet
<1>2. TasksOK /\ AloneInv /\ [Next]_vars => AloneInv' /\ [Lifecycle!Next]_(Lifecycle!sheet)
  BY NextAlone, LifeSteps
<1> QED
  BY TasksOKInit, TasksOKStep, InitAlone, <1>1, <1>2, PTL
     DEF Spec, LifecycleSpec, Lifecycle!Spec
-------------------------------------------------------------------------------
(* Types                                                                   *)

AnySheet == Sheet \cup {NoSheet}

\* A sheet that a request has loaded is never removed; one that is being
\* reopened is stored whole.
TInv ==
  /\ TypeOK
  /\ \A w \in Workers : \A e \in Employees : task[w].seen[e] # NoSheet => sheets[e] # NoSheet
  /\ \A w \in Workers : op[w] = "reopen" => \A e \in task[w].who : task[w].new[e] \in Sheet

LEMMA SheetIsSheet ==
  /\ \A s \in Sheet : s # NoSheet
  /\ NoSheets \in [Employees -> AnySheet] /\ NoTask \in Task
<1>1. \A s \in Sheet : s # NoSheet
  BY DEF Sheet, NoSheet, Statuses
<1>2. NoSheets \in [Employees -> AnySheet]
  BY DEF NoSheets, AnySheet
<1>3. NoTask \in Task
  BY <1>2 DEF NoTask, Task, AnySheet
<1> QED BY <1>1, <1>2, <1>3

(* No sheet counts a negative number of worked days: the lost days are     *)
(* disjoint parts of the scheduled ones.                                   *)
LEMMA AggregateType ==
  ASSUME NEW day \in [Days -> DayStatus], NEW hours \in [Days -> Nat]
  PROVE  Aggregate(day, hours) \in Aggregates
<1> DEFINE scheduled == {d \in Days : day[d] \notin NonWorking}
           A == {d \in scheduled : day[d] = "UNPAID_LEAVE"}
           B == {d \in scheduled : day[d] = "HALF_DAY"}
           H == {d \in scheduled : day[d] \in {"HALF_DAY", "HALF_DAY_PAID"}}
<1>1. A \subseteq scheduled /\ B \subseteq scheduled /\ H \subseteq scheduled /\ A \cap B = {}
  OBVIOUS
<1>2. IsFiniteSet(scheduled)
  BY InputsAssumption, FS_Subset
<1>3. Aggregate(day, hours) =
        [lop |-> 2 * Cardinality(A) + Cardinality(B), halves |-> Cardinality(H),
         worked |-> 2 * Cardinality(scheduled) - (2 * Cardinality(A) + Cardinality(B)),
         hours |-> SumOver(hours, Days)]
  BY DEF Aggregate, SumOver
<1> HIDE DEF scheduled, A, B, H
<1>4. IsFiniteSet(A) /\ IsFiniteSet(B) /\ IsFiniteSet(H) /\ IsFiniteSet(A \cup B)
  BY <1>1, <1>2, FS_Subset, FS_Union
<1>5. /\ Cardinality(A) \in Nat /\ Cardinality(B) \in Nat /\ Cardinality(H) \in Nat
      /\ Cardinality(scheduled) \in Nat
  BY <1>2, <1>4, FS_CardinalityType
<1>6. Cardinality(A) + Cardinality(B) <= Cardinality(scheduled)
  <2>1. Cardinality(A \cap B) = 0
    BY <1>1, FS_EmptySet
  <2>2. Cardinality(A \cup B) = Cardinality(A) + Cardinality(B)
    <3>1. Cardinality(A \cup B) = Cardinality(A) + Cardinality(B) - Cardinality(A \cap B)
      BY <1>4, FS_Union
    <3> QED BY <1>5, <2>1, <3>1
  <2>3. Cardinality(A \cup B) <= Cardinality(scheduled)
    BY <1>1, <1>2, FS_Subset
  <2> QED BY <2>2, <2>3
<1>7. SumOver(hours, Days) \in Nat
  BY InputsAssumption, SumType
<1>8. /\ 2 * Cardinality(A) + Cardinality(B) \in Nat
      /\ 2 * Cardinality(scheduled) - (2 * Cardinality(A) + Cardinality(B)) \in Nat
  BY <1>5, <1>6
<1> QED BY <1>3, <1>5, <1>7, <1>8 DEF Aggregates

LEMMA WithGridType ==
  ASSUME NEW s \in Sheet, NEW day \in [Days -> DayStatus], NEW hours \in [Days -> Nat]
  PROVE  WithGrid(s, day, hours) \in Sheet
<1>1. Aggregate(day, hours) \in Aggregates
  BY AggregateType
<1>2. s.status \in Statuses /\ s.by \in Users \cup {Nobody} /\ s.approver \in Users \cup {Nobody}
  BY DEF Sheet
<1> QED BY <1>1, <1>2 DEF WithGrid, Sheet

LEMMA AppliedType ==
  ASSUME NEW s \in Sheet, NEW d \in Days, NEW status \in DayStatus \cup {None},
         NEW hours \in Nat \cup {None}
  PROVE  Apply(s, d, status, hours) \in Sheet
<1> DEFINE day == IF status = None THEN s.day ELSE [s.day EXCEPT ![d] = status]
           hour == IF hours = None THEN s.hours ELSE [s.hours EXCEPT ![d] = hours]
<1>1. day \in [Days -> DayStatus] /\ hour \in [Days -> Nat]
  BY DEF Sheet
<1>2. Apply(s, d, status, hours) = WithGrid(s, day, hour)
  BY DEF Apply
<1> HIDE DEF day, hour
<1> QED BY <1>1, <1>2, WithGridType

LEMMA RowStatusType ==
  {"PRESENT", "WFH", "HALF_DAY", "UNPAID_LEAVE"} \subseteq DayStatus
BY DEF DayStatus, Leave

LEMMA ImportedType ==
  ASSUME NEW s \in Sheet, NEW row \in Imports
  PROVE  Imported(s, row) \in Sheet /\ row.day \in Days
<1>1. row \in ImportRow
  BY InputsAssumption
<1>2. /\ row.day \in Days /\ row.status \in DayStatus \cup {None}
      /\ row.hours \in Nat \cup {BadHours, None}
  BY <1>1, RowStatusType, InputsAssumption DEF ImportRow
<1>3. CASE row.hours = BadHours
  <2> DEFINE day == IF row.status = None THEN s.day ELSE [s.day EXCEPT ![row.day] = row.status]
  <2>1. day \in [Days -> DayStatus]
    BY <1>2 DEF Sheet
  <2>2. Imported(s, row) = [status |-> s.status, day |-> day, hours |-> s.hours,
                            agg |-> s.agg, by |-> s.by, approver |-> s.approver]
    BY <1>3, Zenon DEF Imported
  <2> HIDE DEF day
  <2> QED BY <1>2, <2>1, <2>2 DEF Sheet
<1>4. CASE row.hours # BadHours
  BY <1>2, <1>4, AppliedType DEF Imported
<1> QED BY <1>2, <1>3, <1>4

LEMMA SeededType ==
  ASSUME NEW e \in Employees
  PROVE  SeededSheet(e) \in Sheet
<1> DEFINE day == [d \in Days |-> SeededDay(e, d)]
           hours == [d \in Days |-> 0]
<1>1. \A d \in Days : SeededDay(e, d) \in DayStatus
  BY LeaveDayStatus DEF SeededDay, DayStatus, NonWorking
<1>2. day \in [Days -> DayStatus] /\ hours \in [Days -> Nat]
  BY <1>1
<1>3. SeededSheet(e) = [status |-> "DRAFT", day |-> day, hours |-> hours,
        agg |-> Aggregate(day, hours), by |-> Nobody, approver |-> Nobody]
  BY DEF SeededSheet
<1> HIDE DEF day, hours
<1>4. Aggregate(day, hours) \in Aggregates
  BY <1>2, AggregateType
<1> QED BY <1>2, <1>3, <1>4 DEF Sheet, Statuses

LEMMA ResyncedType ==
  ASSUME NEW e \in Employees, sheets[e] \in Sheet
  PROVE  Resynced(e) \in Sheet
<1> DEFINE day == [d \in Days |-> IF sheets[e].day[d] \in {"PRESENT"} \cup Leave
                                  THEN LeaveDay(e, d) ELSE sheets[e].day[d]]
<1>1. \A d \in Days : LeaveDay(e, d) \in DayStatus
  BY LeaveDayStatus DEF DayStatus
<1>2. sheets[e].day \in [Days -> DayStatus] /\ sheets[e].hours \in [Days -> Nat]
  BY DEF Sheet
<1>3. day \in [Days -> DayStatus]
  BY <1>1, <1>2
<1>4. Resynced(e) = WithGrid(sheets[e], day, sheets[e].hours)
  BY DEF Resynced
<1> HIDE DEF day
<1> QED BY <1>2, <1>3, <1>4, WithGridType

LEMMA MovedType ==
  ASSUME NEW s \in Sheet, NEW kind \in Transitions, NEW u \in Users
  PROVE  Moved(s, kind, u) \in Sheet
<1>1. To[kind] \in Statuses
  BY DEF To, Transitions, Statuses
<1> QED BY <1>1 DEF Moved, Sheet

LEMMA ClearedType ==
  ASSUME NEW s \in Sheet
  PROVE  Cleared(s) \in Sheet
BY DEF Cleared, Sheet

LEMMA StoredType ==
  ASSUME NEW stored \in AnySheet, NEW seen \in AnySheet, NEW new \in AnySheet,
         seen # NoSheet => stored # NoSheet
  PROVE  /\ Stored(stored, seen, new) \in AnySheet
         /\ stored # NoSheet \/ new # NoSheet => Stored(stored, seen, new) # NoSheet
<1>1. CASE new = NoSheet
  BY <1>1, StoredWhole
<1>2. CASE new # NoSheet /\ seen = NoSheet
  BY <1>2, StoredWhole
<1>3. CASE new # NoSheet /\ seen # NoSheet
  <2>1. stored \in Sheet /\ seen \in Sheet /\ new \in Sheet
    BY <1>3 DEF AnySheet
  <2> DEFINE status == Column(stored.status, seen.status, new.status)
             day == [d \in Days |-> Column(stored.day[d], seen.day[d], new.day[d])]
             hours == [d \in Days |-> Column(stored.hours[d], seen.hours[d], new.hours[d])]
             agg == [k \in DOMAIN stored.agg |->
                       Column(stored.agg[k], seen.agg[k], new.agg[k])]
             by == Column(stored.by, seen.by, new.by)
             approver == Column(stored.approver, seen.approver, new.approver)
  <2>2. status \in Statuses /\ by \in Users \cup {Nobody} /\ approver \in Users \cup {Nobody}
    BY <2>1 DEF Column, Sheet
  <2>3. day \in [Days -> DayStatus]
    BY <2>1 DEF Column, Sheet
  <2>4. hours \in [Days -> Nat]
    BY <2>1 DEF Column, Sheet
  <2>5. agg \in Aggregates
    <3>1. stored.agg \in Aggregates /\ seen.agg \in Aggregates /\ new.agg \in Aggregates
      BY <2>1 DEF Sheet
    <3>2. DOMAIN stored.agg = {"lop", "halves", "worked", "hours"}
      BY <3>1 DEF Aggregates
    <3>3. \A k \in {"lop", "halves", "worked", "hours"} :
            Column(stored.agg[k], seen.agg[k], new.agg[k]) \in Nat
      BY <3>1 DEF Aggregates, Column
    <3>4. agg = [lop |-> agg.lop, halves |-> agg.halves, worked |-> agg.worked,
                 hours |-> agg.hours]
      BY <3>2
    <3>5. agg.lop \in Nat /\ agg.halves \in Nat /\ agg.worked \in Nat /\ agg.hours \in Nat
      BY <3>2, <3>3
    <3> HIDE DEF agg
    <3> QED BY <3>4, <3>5 DEF Aggregates
  <2>6. Stored(stored, seen, new) =
          [status |-> status, day |-> day, hours |-> hours, agg |-> agg, by |-> by,
           approver |-> approver]
    BY <1>3, Zenon DEF Stored
  <2> HIDE DEF status, day, hours, agg, by, approver
  <2>7. Stored(stored, seen, new) \in Sheet
    BY <2>2, <2>3, <2>4, <2>5, <2>6 DEF Sheet
  <2> QED BY <2>7, SheetIsSheet DEF AnySheet
<1> QED BY <1>1, <1>2, <1>3

Verbs == Kinds \cup {"idle"}

LEMMA SheetTypes ==
  ASSUME TInv
  PROVE  /\ sheets \in [Employees -> AnySheet] /\ cycleOpen \in BOOLEAN
         /\ leave \in [Employees -> [Days -> LeaveAsks \cup {None}]]
         /\ paid \in [LeaveTypes -> BOOLEAN]
         /\ op \in [Workers -> Verbs] /\ task \in [Workers -> Task]
         /\ submitter \in [Employees -> Users \cup {Nobody}]
         /\ byHand \in [Employees -> SUBSET Days] /\ half \in [Employees -> BOOLEAN]
         /\ unsynced \in [Employees -> BOOLEAN] /\ granted \in [Employees -> SUBSET Days]
         /\ edits \in 0 .. MaxEdits
BY DEF TInv, TypeOK, AnySheet, Verbs

LEMMA TaskTypes ==
  ASSUME TInv, NEW w \in Workers
  PROVE  /\ task[w].who \in SUBSET Employees /\ task[w].actor \in Users \cup {Nobody}
         /\ task[w].seen \in [Employees -> AnySheet] /\ task[w].new \in [Employees -> AnySheet]
         /\ task[w].set \in SUBSET Days /\ task[w].skipped \in SUBSET Employees
         /\ \A e \in Employees : task[w].seen[e] # NoSheet => sheets[e] # NoSheet
         /\ op[w] = "reopen" => \A e \in task[w].who : task[w].new[e] \in Sheet
<1>1. task[w] \in Task
  BY SheetTypes
<1>2. /\ \A e \in Employees : task[w].seen[e] # NoSheet => sheets[e] # NoSheet
      /\ op[w] = "reopen" => \A e \in task[w].who : task[w].new[e] \in Sheet
  BY DEF TInv
<1> QED BY <1>1, <1>2 DEF Task, AnySheet

\* No sheet that was there is gone.
SheetsStay == \A e \in Employees : sheets[e] # NoSheet => sheets'[e] # NoSheet

\* The rows of a step are of their types.
RowsTyped ==
  /\ sheets' \in [Employees -> AnySheet] /\ SheetsStay /\ cycleOpen' \in BOOLEAN
  /\ leave' \in [Employees -> [Days -> LeaveAsks \cup {None}]]
  /\ paid' \in [LeaveTypes -> BOOLEAN]
  /\ submitter' \in [Employees -> Users \cup {Nobody}]
  /\ byHand' \in [Employees -> SUBSET Days] /\ half' \in [Employees -> BOOLEAN]
  /\ unsynced' \in [Employees -> BOOLEAN] /\ granted' \in [Employees -> SUBSET Days]
  /\ edits' \in 0 .. MaxEdits

\* A worker turns to the task k, or goes on with what it was doing.
LEMMA TurnTyped ==
  ASSUME TInv, RowsTyped, NEW w \in Workers, NEW kind \in Verbs, NEW k \in Task,
         Turns(w, kind, k),
         \A e \in Employees : k.seen[e] # NoSheet => sheets'[e] # NoSheet,
         kind = "reopen" => \A e \in k.who : k.new[e] \in Sheet
  PROVE  TInv'
<1>1. op' \in [Workers -> Verbs] /\ task' \in [Workers -> Task]
  BY SheetTypes DEF Turns
<1>2. TypeOK'
  BY <1>1 DEF RowsTyped, TypeOK, AnySheet, Verbs
<1>3. ASSUME NEW v \in Workers
      PROVE  /\ \A e \in Employees : task'[v].seen[e] # NoSheet => sheets'[e] # NoSheet
             /\ op'[v] = "reopen" => \A e \in task'[v].who : task'[v].new[e] \in Sheet
  <2>1. CASE v = w
    <3>1. task'[v] = k /\ op'[v] = kind
      BY <2>1, SheetTypes DEF Turns
    <3> QED BY <3>1
  <2>2. CASE v # w
    <3>1. task'[v] = task[v] /\ op'[v] = op[v]
      BY <2>2, SheetTypes DEF Turns
    <3> QED BY <3>1, TaskTypes DEF RowsTyped, SheetsStay
  <2> QED BY <2>1, <2>2
<1> QED BY <1>2, <1>3 DEF TInv

LEMMA KeptTyped ==
  ASSUME TInv, RowsTyped, UNCHANGED <<op, task>>
  PROVE  TInv'
<1>1. TypeOK'
  BY SheetTypes DEF RowsTyped, TypeOK, AnySheet, Verbs
<1> QED BY <1>1 DEF TInv, RowsTyped, SheetsStay

LEMMA EndTyped ==
  ASSUME TInv, RowsTyped, NEW w \in Workers, End(w)
  PROVE  TInv'
<1>1. Turns(w, "idle", NoTask) /\ "idle" \in Verbs
  BY DEF End, Turns, Verbs
<1>2. \A e \in Employees : NoTask.seen[e] = NoSheet
  BY DEF NoTask, NoSheets
<1> QED BY <1>1, <1>2, SheetIsSheet, TurnTyped

\* A request on one sheet that is on file.
LEMMA OnSheetTyped ==
  ASSUME TInv, RowsTyped, NEW w \in Workers, NEW kind \in Verbs, NEW e \in Employees,
         NEW u \in Users \cup {Nobody}, NEW new \in Sheet, NEW days \in SUBSET Days,
         Turns(w, kind, OnSheet(e, u, new, days)), sheets[e] # NoSheet
  PROVE  TInv'
<1> DEFINE k == OnSheet(e, u, new, days)
<1>1. k = [who |-> {e}, actor |-> u, seen |-> [NoSheets EXCEPT ![e] = sheets[e]],
           new |-> [NoSheets EXCEPT ![e] = new], set |-> days, skipped |-> {}]
  BY DEF OnSheet
<1>2. sheets[e] \in AnySheet /\ new \in AnySheet
  BY SheetTypes DEF AnySheet
<1>3. /\ [NoSheets EXCEPT ![e] = sheets[e]] \in [Employees -> AnySheet]
      /\ [NoSheets EXCEPT ![e] = new] \in [Employees -> AnySheet]
  BY <1>2, SheetIsSheet
<1> HIDE DEF k
<1>4. k \in Task
  BY <1>1, <1>3 DEF Task, AnySheet
<1>5. \A x \in Employees : k.seen[x] # NoSheet => sheets'[x] # NoSheet
  BY <1>1 DEF RowsTyped, SheetsStay, NoSheets
<1>6. \A x \in k.who : k.new[x] \in Sheet
  BY <1>1 DEF NoSheets
<1>7. Turns(w, kind, k)
  BY DEF k
<1> QED BY <1>4, <1>5, <1>6, <1>7, TurnTyped

LEMMA SheetsKept ==
  ASSUME TInv, UNCHANGED <<sheets, cycleOpen, leave, paid, ghosts>>, edits' \in 0 .. MaxEdits
  PROVE  RowsTyped
BY SheetTypes DEF RowsTyped, SheetsStay, ghosts

(* A commit stores a whole sheet wherever there was one or one is new.     *)
LEMMA StoreTyped ==
  ASSUME TInv, NEW w \in Workers, Store(w)
  PROVE  /\ sheets' \in [Employees -> AnySheet] /\ SheetsStay
         /\ \A e \in Employees : task[w].new[e] # NoSheet => sheets'[e] # NoSheet
<1>1. \A e \in Employees :
        LET s == Stored(sheets[e], task[w].seen[e], task[w].new[e])
        IN  s \in AnySheet /\ (sheets[e] # NoSheet \/ task[w].new[e] # NoSheet => s # NoSheet)
  <2> TAKE e \in Employees
  <2>1. /\ sheets[e] \in AnySheet /\ task[w].seen[e] \in AnySheet /\ task[w].new[e] \in AnySheet
        /\ task[w].seen[e] # NoSheet => sheets[e] # NoSheet
    BY SheetTypes, TaskTypes
  <2> QED BY <2>1, StoredType
<1>2. sheets' = [e \in Employees |-> Stored(sheets[e], task[w].seen[e], task[w].new[e])]
  BY DEF Store
<1> QED BY <1>1, <1>2 DEF SheetsStay

LEMMA GenerateLoadTyped ==
  ASSUME TInv, NEW w \in Workers, GenerateLoad(w) PROVE TInv'
<1>1. PICK payable \in SUBSET Employees :
        LET missing == {e \in payable : sheets[e] = NoSheet}
        IN  Start(w, "generate",
              [who |-> missing, actor |-> Nobody, seen |-> NoSheets,
               new |-> [e \in Employees |-> IF e \in missing THEN SeededSheet(e) ELSE NoSheet],
               set |-> {}, skipped |-> {}])
  BY DEF GenerateLoad
<1> DEFINE missing == {e \in payable : sheets[e] = NoSheet}
           new == [e \in Employees |-> IF e \in missing THEN SeededSheet(e) ELSE NoSheet]
           k == [who |-> missing, actor |-> Nobody, seen |-> NoSheets, new |-> new,
                 set |-> {}, skipped |-> {}]
<1>2. Turns(w, "generate", k)
  BY <1>1 DEF Start, Turns
<1>3. missing \in SUBSET Employees
  OBVIOUS
<1>4. new \in [Employees -> AnySheet]
  BY SheetTypes, SeededType DEF AnySheet
<1> HIDE DEF missing, new
<1>5. k \in Task /\ k.seen = NoSheets
  BY <1>3, <1>4, SheetIsSheet DEF Task, AnySheet
<1> HIDE DEF k
<1>6. RowsTyped
  BY SheetsKept, SheetTypes DEF GenerateLoad
<1>7. "generate" \in Verbs /\ \A e \in Employees : k.seen[e] = NoSheet
  BY <1>5 DEF Verbs, Kinds, NoSheets
<1> QED BY <1>2, <1>5, <1>6, <1>7, TurnTyped

LEMMA EditLoadTyped ==
  ASSUME TInv, NEW w \in Workers, EditLoad(w) \/ MarkLoad(w) PROVE TInv'
<1>1. edits' \in 0 .. MaxEdits
  BY SheetTypes, InputsAssumption DEF EditLoad, MarkLoad
<1>2. RowsTyped
  BY <1>1, SheetsKept DEF EditLoad, MarkLoad
<1>3. HRStatuses \cup {None} \subseteq DayStatus \cup {None}
      /\ {"PRESENT", "WFH", None} \subseteq DayStatus \cup {None}
      /\ HourValues \cup {None} \subseteq Nat \cup {None}
  BY InputsAssumption DEF DayStatus
<1>4. \E kind \in {"edit", "mark"}, e \in Employees, d \in Days, status \in DayStatus \cup {None},
        hours \in Nat \cup {None} :
        /\ Editable(sheets[e])
        /\ Turns(w, kind, OnSheet(e, Nobody, Apply(sheets[e], d, status, hours),
                                  IF status = None THEN {} ELSE {d}))
  <2>1. CASE EditLoad(w)
    <3>1. PICK e \in Employees, d \in Days, status \in HRStatuses \cup {None},
               hours \in HourValues \cup {None} :
            /\ Editable(sheets[e])
            /\ Start(w, "edit", OnSheet(e, Nobody, Apply(sheets[e], d, status, hours),
                                        IF status = None THEN {} ELSE {d}))
      BY <2>1 DEF EditLoad
    <3>2. Turns(w, "edit", OnSheet(e, Nobody, Apply(sheets[e], d, status, hours),
                                   IF status = None THEN {} ELSE {d}))
      BY <3>1 DEF Start, Turns
    <3> QED BY <1>3, <3>1, <3>2
  <2>2. CASE MarkLoad(w)
    <3>1. PICK e \in Employees, d \in Days, status \in {"PRESENT", "WFH", None},
               hours \in HourValues \cup {None} :
            /\ Editable(sheets[e])
            /\ Start(w, "mark", OnSheet(e, Nobody, Apply(sheets[e], d, status, hours),
                                        IF status = None THEN {} ELSE {d}))
      BY <2>2 DEF MarkLoad
    <3>2. Turns(w, "mark", OnSheet(e, Nobody, Apply(sheets[e], d, status, hours),
                                   IF status = None THEN {} ELSE {d}))
      BY <3>1 DEF Start, Turns
    <3> QED BY <1>3, <3>1, <3>2
  <2> QED BY <2>1, <2>2
<1>5. PICK kind \in {"edit", "mark"}, e \in Employees, d \in Days,
           status \in DayStatus \cup {None}, hours \in Nat \cup {None} :
        /\ Editable(sheets[e])
        /\ Turns(w, kind, OnSheet(e, Nobody, Apply(sheets[e], d, status, hours),
                                  IF status = None THEN {} ELSE {d}))
  BY <1>4
<1>6. sheets[e] # NoSheet /\ sheets[e] \in Sheet
  BY <1>5, EditableIsSheet, SheetTypes DEF AnySheet
<1>7. Apply(sheets[e], d, status, hours) \in Sheet
  BY <1>6, AppliedType
<1>8. kind \in Verbs /\ (IF status = None THEN {} ELSE {d}) \in SUBSET Days
      /\ Nobody \in Users \cup {Nobody}
  BY DEF Verbs, Kinds
<1> QED BY <1>2, <1>5, <1>6, <1>7, <1>8, OnSheetTyped

LEMMA ImportLoadTyped ==
  ASSUME TInv, NEW w \in Workers, ImportLoad(w) PROVE TInv'
<1>1. PICK rows \in [Employees -> Imports \cup {None}] :
        LET taken == {e \in Employees :
                        rows[e] # None /\ Importable(sheets[e], rows[e])}
            skipped == {e \in taken : rows[e].hours = BadHours}
        IN  Start(w, "import",
              [who |-> taken, actor |-> Nobody,
               seen |-> [e \in Employees |-> IF e \in taken THEN sheets[e] ELSE NoSheet],
               new |-> [e \in Employees |-> IF e \in taken
                          THEN Imported(sheets[e], rows[e]) ELSE NoSheet],
               set |-> {rows[e].day : e \in taken},
               skipped |-> skipped])
  BY DEF ImportLoad
<1> DEFINE taken == {e \in Employees : rows[e] # None /\ Importable(sheets[e], rows[e])}
           skipped == {e \in taken : rows[e].hours = BadHours}
           seen == [e \in Employees |-> IF e \in taken THEN sheets[e] ELSE NoSheet]
           new == [e \in Employees |-> IF e \in taken THEN Imported(sheets[e], rows[e])
                                       ELSE NoSheet]
           set == {rows[e].day : e \in taken}
           k == [who |-> taken, actor |-> Nobody, seen |-> seen, new |-> new,
                 set |-> set, skipped |-> skipped]
<1>2. Start(w, "import", k)
  BY <1>1, Zenon
<1>3. Turns(w, "import", k)
  BY <1>2 DEF Start, Turns
<1>4. \A e \in taken : rows[e] \in Imports /\ sheets[e] \in Sheet /\ e \in Employees
  BY SheetTypes DEF Importable, AnySheet
<1>5. \A e \in taken : Imported(sheets[e], rows[e]) \in Sheet /\ rows[e].day \in Days
  BY <1>4, ImportedType
<1>6. seen \in [Employees -> AnySheet]
  BY SheetTypes DEF AnySheet
<1>7. taken \in SUBSET Employees /\ skipped \in SUBSET Employees
  OBVIOUS
<1>8. set \in SUBSET Days
  <2> HIDE DEF taken
  <2> QED BY <1>5
<1>9. new \in [Employees -> AnySheet]
  <2> HIDE DEF taken
  <2> QED BY <1>5 DEF AnySheet
<1>10. \A e \in Employees : seen[e] # NoSheet => sheets[e] # NoSheet
  <2> HIDE DEF taken
  <2> QED OBVIOUS
<1> HIDE DEF taken, skipped, seen, new, set
<1>11. k \in Task /\ k.seen = seen
  BY <1>6, <1>7, <1>8, <1>9 DEF Task, AnySheet
<1> HIDE DEF k
<1>12. edits' \in 0 .. MaxEdits
  BY SheetTypes, InputsAssumption DEF ImportLoad
<1>13. RowsTyped
  BY <1>12, SheetsKept DEF ImportLoad
<1>14. \A e \in Employees : k.seen[e] # NoSheet => sheets'[e] # NoSheet
  BY <1>10, <1>11, <1>13 DEF RowsTyped, SheetsStay
<1>15. "import" \in Verbs
  BY DEF Verbs, Kinds
<1> QED BY <1>3, <1>11, <1>13, <1>14, <1>15, TurnTyped

LEMMA TransitionLoadTyped ==
  ASSUME TInv, NEW w \in Workers, TransitionLoad(w) PROVE TInv'
<1>1. PICK e \in Employees, kind \in Transitions, u \in Users :
        /\ sheets[e].status \in From(kind)
        /\ Start(w, kind, OnSheet(e, u, Moved(sheets[e], kind, u), {}))
  BY DEF TransitionLoad
<1>2. sheets[e] # NoSheet /\ sheets[e] \in Sheet
  <2>1. sheets[e].status # "NONE"
    BY <1>1 DEF From, EditableStates
  <2> QED BY <2>1, SheetTypes DEF NoSheet, AnySheet
<1>3. Moved(sheets[e], kind, u) \in Sheet
  BY <1>2, MovedType
<1>4. RowsTyped
  BY SheetsKept, SheetTypes DEF TransitionLoad
<1>5. Turns(w, kind, OnSheet(e, u, Moved(sheets[e], kind, u), {}))
  BY <1>1 DEF Start, Turns
<1>6. kind \in Verbs /\ {} \in SUBSET Days /\ u \in Users \cup {Nobody}
  BY DEF Verbs, Kinds, Transitions
<1> QED BY <1>2, <1>3, <1>4, <1>5, <1>6, OnSheetTyped

LEMMA SetByHandType ==
  ASSUME TInv, NEW w \in Workers, NEW e
  PROVE  SetByHand(w, e) \in SUBSET Days
BY TaskTypes DEF SetByHand

LEMMA CommitTyped ==
  ASSUME TInv, NEW w \in Workers,
         GenerateCommit(w) \/ EditCommit(w) \/ TransitionCommit(w) \/ ClearCommit(w)
           \/ ResyncCommit(w)
  PROVE  TInv'
<1>1. Store(w) /\ End(w) /\ UNCHANGED <<cycleOpen, leave, paid, edits>>
  BY DEF GenerateCommit, EditCommit, TransitionCommit, ClearCommit, ResyncCommit
<1>2. sheets' \in [Employees -> AnySheet] /\ SheetsStay
  BY <1>1, StoreTyped
<1>3. submitter' \in [Employees -> Users \cup {Nobody}]
  BY SheetTypes, TaskTypes DEF GenerateCommit, EditCommit, TransitionCommit, ClearCommit,
     ResyncCommit, ghosts
<1>4. byHand' \in [Employees -> SUBSET Days]
  BY SheetTypes, SetByHandType DEF GenerateCommit, EditCommit, TransitionCommit, ClearCommit,
     ResyncCommit, ghosts
<1>5. half' \in [Employees -> BOOLEAN]
  <2>1. CASE EditCommit(w) \/ ResyncCommit(w)
    <3>2. half \in [Employees -> BOOLEAN]
      BY SheetTypes
    <3>3. CASE EditCommit(w)
      <4>1. half' = [e \in Employees |-> IF e \in task[w].who THEN e \in task[w].skipped
                                         ELSE half[e]]
        BY <3>3 DEF EditCommit
      <4>2. \A e \in Employees : half[e] \in BOOLEAN
        BY <3>2
      <4>3. \A e \in Employees : (e \in task[w].skipped) \in BOOLEAN
        OBVIOUS
      <4>4. \A e \in Employees : half'[e] \in BOOLEAN
        BY <4>1, <4>2, <4>3, Zenon
      <4>5. half' = [e \in Employees |-> half'[e]]
        BY <4>1, Zenon
      <4> QED BY <4>4, <4>5, Zenon
    <3>4. CASE ResyncCommit(w)
      <4>1. half' = [e \in Employees |-> e \notin task[w].who /\ half[e]]
        BY <3>4 DEF ResyncCommit
      <4> QED BY <4>1, Zenon
    <3> QED BY <2>1, <3>3, <3>4
  <2>2. CASE GenerateCommit(w) \/ TransitionCommit(w) \/ ClearCommit(w)
    BY <2>2, SheetTypes DEF GenerateCommit, TransitionCommit, ClearCommit, ghosts
  <2> QED BY <2>1, <2>2
<1>6. unsynced' \in [Employees -> BOOLEAN]
  <2>1. CASE GenerateCommit(w) \/ ResyncCommit(w)
    <3>1. unsynced' = [e \in Employees |-> e \notin task[w].who /\ unsynced[e]]
      BY <2>1 DEF GenerateCommit, ResyncCommit
    <3> QED BY <3>1, Zenon
  <2>2. CASE EditCommit(w) \/ TransitionCommit(w) \/ ClearCommit(w)
    BY <2>2, SheetTypes DEF EditCommit, TransitionCommit, ClearCommit, ghosts
  <2> QED BY <2>1, <2>2
<1>7. granted' \in [Employees -> SUBSET Days]
  BY SheetTypes, SetByHandType DEF GenerateCommit, EditCommit, TransitionCommit, ClearCommit,
     ResyncCommit, ghosts
<1>8. RowsTyped
  BY <1>1, <1>2, <1>3, <1>4, <1>5, <1>6, <1>7, SheetTypes DEF RowsTyped
<1> QED BY <1>1, <1>8, EndTyped

LEMMA ReopenCommitTyped ==
  ASSUME TInv, NEW w \in Workers, ReopenCommit(w) PROVE TInv'
<1> DEFINE k == [who |-> task[w].who, actor |-> task[w].actor, seen |-> task[w].new,
                 new |-> [e \in Employees |-> IF e \in task[w].who THEN Cleared(task[w].new[e])
                                              ELSE NoSheet],
                 set |-> {}, skipped |-> {}]
<1>1. Store(w) /\ UNCHANGED <<cycleOpen, leave, paid, ghosts, edits>> /\ op[w] = "reopen"
  BY DEF ReopenCommit
<1>2. /\ sheets' \in [Employees -> AnySheet] /\ SheetsStay
      /\ \A e \in Employees : task[w].new[e] # NoSheet => sheets'[e] # NoSheet
  BY <1>1, StoreTyped
<1>3. RowsTyped
  BY <1>1, <1>2, SheetTypes DEF RowsTyped, ghosts
<1>4. k.new \in [Employees -> AnySheet]
  BY <1>1, TaskTypes, ClearedType DEF AnySheet
<1>5. k \in Task
  BY <1>4, TaskTypes DEF Task, AnySheet
<1>6. Turns(w, "clear", k) /\ "clear" \in Verbs /\ "clear" # "reopen"
  BY DEF ReopenCommit, Turns, Verbs, Kinds
<1>7. \A e \in Employees : k.seen[e] # NoSheet => sheets'[e] # NoSheet
  BY <1>2
<1> HIDE DEF k
<1> QED BY <1>3, <1>5, <1>6, <1>7, TurnTyped

LEMMA DecidedTyped ==
  ASSUME TInv, NEW w \in Workers, NEW e \in Employees, RowsTyped,
         Start(w, "decided", OnNoSheet(e))
  PROVE  TInv'
<1>1. OnNoSheet(e) \in Task /\ OnNoSheet(e).seen = NoSheets
  BY SheetIsSheet DEF OnNoSheet, Task, AnySheet
<1>2. \A x \in Employees : OnNoSheet(e).seen[x] = NoSheet
  BY <1>1 DEF NoSheets
<1>3. Turns(w, "decided", OnNoSheet(e)) /\ "decided" \in Verbs
  BY DEF Start, Turns, Verbs, Kinds
<1> QED BY <1>1, <1>2, <1>3, TurnTyped

LEMMA GrantsTyped ==
  ASSUME TInv, granted' = [e \in Employees |-> granted[e] \cup PaidDays(e)']
  PROVE  granted' \in [Employees -> SUBSET Days]
<1>1. \A e \in Employees : granted[e] \cup PaidDays(e)' \in SUBSET Days
  BY SheetTypes DEF PaidDays
<1> QED BY <1>1

LEMMA LeaveTyped ==
  ASSUME TInv, NEW w \in Workers, DecideLeave(w) \/ CancelPending(w) PROVE TInv'
<1>1. edits' \in 0 .. MaxEdits
  BY SheetTypes, InputsAssumption DEF DecideLeave, CancelPending
<1>2. CASE CancelPending(w)
  <2>1. RowsTyped
    BY <1>1, <1>2, SheetsKept DEF CancelPending
  <2> QED BY <1>2, <2>1, DecidedTyped DEF CancelPending
<1>3. CASE DecideLeave(w)
  <2>1. PICK e \in Employees, d \in Days :
          /\ \E ask \in IF leave[e][d] = None THEN LeaveAsks ELSE {None} :
               leave' = [leave EXCEPT ![e][d] = ask]
          /\ unsynced' = [unsynced EXCEPT ![e] = TRUE]
          /\ Start(w, "decided", OnNoSheet(e))
    BY <1>3 DEF DecideLeave
  <2>2. PICK ask \in LeaveAsks \cup {None} : leave' = [leave EXCEPT ![e][d] = ask]
    BY <2>1
  <2>3. leave' \in [Employees -> [Days -> LeaveAsks \cup {None}]]
    BY <2>2, SheetTypes
  <2>4. unsynced' \in [Employees -> BOOLEAN]
    BY <2>1, SheetTypes
  <2>5. granted' \in [Employees -> SUBSET Days]
    BY <1>3, GrantsTyped DEF DecideLeave
  <2>6. RowsTyped
    BY <1>1, <1>3, <2>3, <2>4, <2>5, SheetTypes DEF RowsTyped, SheetsStay, DecideLeave
  <2> QED BY <2>1, <2>6, DecidedTyped
<1> QED BY <1>2, <1>3

LEMMA TypeChangedTyped ==
  ASSUME TInv, NEW w \in Workers, UpdateType(w) PROVE TInv'
<1>1. edits' \in 0 .. MaxEdits
  BY SheetTypes, InputsAssumption DEF UpdateType
<1>2. PICK t \in LeaveTypes :
        /\ paid' = [paid EXCEPT ![t] = ~@]
        /\ unsynced' = [e \in Employees |-> unsynced[e] \/
             \E d \in Days : leave[e][d] # None /\ leave[e][d].type = t]
  BY DEF UpdateType
<1>3. paid' \in [LeaveTypes -> BOOLEAN]
  <2>1. paid \in [LeaveTypes -> BOOLEAN]
    BY SheetTypes
  <2>2. (~paid[t]) \in BOOLEAN
    OBVIOUS
  <2> QED BY <1>2, <2>1, <2>2, Zenon
<1>4. unsynced' \in [Employees -> BOOLEAN]
  BY <1>2, Zenon
<1>5. granted' \in [Employees -> SUBSET Days]
  BY GrantsTyped DEF UpdateType
<1>6. RowsTyped
  BY <1>1, <1>3, <1>4, <1>5, SheetTypes DEF RowsTyped, SheetsStay, UpdateType
<1> QED BY <1>6, KeptTyped DEF UpdateType

LEMMA ResyncLoadTyped ==
  ASSUME TInv, NEW w \in Workers, ResyncLoad(w) PROVE TInv'
<1>1. PICK e \in task[w].who :
        IF Resyncable(e) /\ Resynced(e).day # sheets[e].day
        THEN /\ op' = [op EXCEPT ![w] = "resync"]
             /\ task' = [task EXCEPT ![w] = OnSheet(e, Nobody, Resynced(e), {})]
             /\ UNCHANGED unsynced
        ELSE /\ End(w)
             /\ unsynced' = [unsynced EXCEPT ![e] = @ /\ ~Resyncable(e)]
  BY DEF ResyncLoad
<1>2. e \in Employees
  BY TaskTypes
<1>3. UNCHANGED <<sheets, cycleOpen, leave, paid, submitter, byHand, half, granted, edits>>
  BY DEF ResyncLoad
<1>4. CASE Resyncable(e) /\ Resynced(e).day # sheets[e].day
  <2>1. RowsTyped
    BY <1>1, <1>3, <1>4, SheetsKept, SheetTypes DEF ghosts
  <2>2. sheets[e] # NoSheet /\ sheets[e] \in Sheet
    BY <1>2, <1>4, EditableIsSheet, SheetTypes DEF Resyncable, AnySheet
  <2>3. Resynced(e) \in Sheet
    BY <1>2, <2>2, SheetTypes, ResyncedType
  <2>4. Turns(w, "resync", OnSheet(e, Nobody, Resynced(e), {})) /\ "resync" \in Verbs
    BY <1>1, <1>4 DEF Turns, Verbs, Kinds
  <2> QED BY <1>2, <2>1, <2>2, <2>3, <2>4, OnSheetTyped
<1>5. CASE ~(Resyncable(e) /\ Resynced(e).day # sheets[e].day)
  <2>1. unsynced' \in [Employees -> BOOLEAN]
    BY <1>1, <1>2, <1>5, SheetTypes
  <2>2. RowsTyped
    BY <1>3, <2>1, SheetTypes DEF RowsTyped, SheetsStay
  <2> QED BY <1>1, <1>5, <2>2, EndTyped
<1> QED BY <1>4, <1>5

LEMMA InitSheetTyped == Init => TInv
<1> SUFFICES ASSUME Init PROVE TInv
  OBVIOUS
<1>1. sheets \in [Employees -> AnySheet] /\ task \in [Workers -> Task]
  BY SheetIsSheet DEF Init
<1>2. 0 \in 0 .. MaxEdits
  BY InputsAssumption
<1>3. TypeOK
  BY <1>1, <1>2 DEF Init, TypeOK, AnySheet
<1>4. \A w \in Workers, e \in Employees : task[w].seen[e] = NoSheet
  BY DEF Init, NoTask, NoSheets
<1>5. \A w \in Workers : op[w] = "idle"
  BY DEF Init
<1> QED BY <1>3, <1>4, <1>5 DEF TInv

LEMMA NextSheetTyped == TInv /\ [Next]_vars => TInv'
<1> SUFFICES ASSUME TInv, [Next]_vars PROVE TInv'
  OBVIOUS
<1>1. CASE UNCHANGED vars
  <2>1. RowsTyped
    BY <1>1, SheetTypes, SheetsKept DEF vars, ghosts
  <2> QED BY <1>1, <2>1, KeptTyped DEF vars
<1>2. CASE CloseCycle
  <2>1. RowsTyped
    BY <1>2, SheetTypes DEF CloseCycle, RowsTyped, SheetsStay, ghosts
  <2> QED BY <1>2, <2>1, KeptTyped DEF CloseCycle
<1>3. ASSUME NEW w \in Workers, GenerateFail(w) \/ Abandon(w) PROVE TInv'
  <2>1. RowsTyped
    BY <1>3, SheetTypes, SheetsKept DEF GenerateFail, Abandon
  <2> QED BY <1>3, <2>1, EndTyped DEF GenerateFail, Abandon
<1>4. ASSUME NEW w \in Workers,
             GenerateLoad(w) \/ EditLoad(w) \/ MarkLoad(w) \/ ImportLoad(w) \/ TransitionLoad(w)
      PROVE  TInv'
  BY <1>4, GenerateLoadTyped, EditLoadTyped, ImportLoadTyped, TransitionLoadTyped
<1>5. ASSUME NEW w \in Workers,
             GenerateCommit(w) \/ EditCommit(w) \/ TransitionCommit(w) \/ ReopenCommit(w)
               \/ ClearCommit(w) \/ ResyncCommit(w)
      PROVE  TInv'
  BY <1>5, CommitTyped, ReopenCommitTyped
<1>6. ASSUME NEW w \in Workers,
             DecideLeave(w) \/ CancelPending(w) \/ UpdateType(w) \/ ResyncLoad(w)
      PROVE  TInv'
  BY <1>6, LeaveTyped, TypeChangedTyped, ResyncLoadTyped
<1> QED BY <1>1, <1>2, <1>3, <1>4, <1>5, <1>6 DEF Next

(* Type correctness of the timesheets: whatever the interleaving, a sheet  *)
(* is absent or whole, and no edit, import or resync stores a day that is  *)
(* not a status or a negative count of lost or worked days.                *)
THEOREM TypeCorrect == Spec => []TypeOK
<1>1. TInv => TypeOK
  BY DEF TInv
<1> QED BY InitSheetTyped, NextSheetTyped, <1>1, PTL DEF Spec
===============================================================================
