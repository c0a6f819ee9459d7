-------------------------- MODULE HolidayCalendar --------------------------
(***************************************************************************)
(* The holidays of a company's work calendar,                               *)
(* services/payroll/calendar_service.py: one row per date, deleted softly   *)
(* one at a time, and whole files imported over what is there.  A row a     *)
(* request has loaded may be gone when it commits.                          *)
(***************************************************************************)
EXTENDS Requests, Integers, TLC

CONSTANTS
    YearOf,     \* the year of each date of a calendar file
    MaxRows     \* bound: rows ever inserted for one date

Dates == DOMAIN YearOf
Files == SUBSET Dates \ {{}}

ASSUME CalendarAssumption == MaxRows \in Nat \ {0}

VARIABLES
    holidays,   \* the row of each date: state "none", "live" or "deleted", and which row it is
    admin       \* the request each desk is serving

calendarVars == <<staffed, holidays, admin>>

-----------------------------------------------------------------------------
AdminServes(d, work) ==
    /\ d \in staffed /\ admin[d] = Idle
    /\ admin' = [admin EXCEPT ![d] = work]
    /\ UNCHANGED <<staffed, holidays>>

AdminEnds(d) == admin' = [admin EXCEPT ![d] = Idle] /\ UNCHANGED staffed

CreateHoliday(date) ==
    /\ holidays[date].state = "none" /\ holidays[date].row < MaxRows
    /\ holidays' = [holidays EXCEPT ![date] = [state |-> "live", row |-> @.row + 1]]
    /\ UNCHANGED <<staffed, admin>>

LoadForDelete(d, date) ==
    /\ holidays[date].state = "live"
    /\ AdminServes(d, [kind |-> "delete", date |-> date, row |-> holidays[date].row])

\* Mutant: starting over clears the whole calendar.
DoomedAll(file, replace) ==
    IF replace THEN {date \in Dates : holidays[date].state = "live"} ELSE {}

Doomed(file, replace) ==
    LET years == {YearOf[date] : date \in file}
    IN  IF replace THEN {date \in Dates : holidays[date].state = "live" /\ YearOf[date] \in years}
        ELSE {}

LoadForImport(d, file, replace) ==
    AdminServes(d, [kind |-> "import", file |-> file,
                    doomed |-> {[date |-> date, row |-> holidays[date].row] :
                                   date \in Doomed(file, replace)}])

\* A row another request has removed since fails the update, and with it the request.
CommitDelete(d) ==
    LET w == admin[d]
        mine == holidays[w.date].row = w.row /\ holidays[w.date].state # "none"
    IN  /\ w # Idle /\ w.kind = "delete"
        /\ holidays' = IF mine THEN [holidays EXCEPT ![w.date].state = "deleted"] ELSE holidays
        /\ AdminEnds(d)

\* Live dates are skipped; a deleted row still occupies its date and rolls the batch back.
CommitImport(d) ==
    LET w == admin[d]
        erased == {x \in w.doomed : holidays[x.date].row = x.row}
        cleared == [date \in Dates |->
                      IF \E x \in erased : x.date = date
                      THEN [holidays[date] EXCEPT !.state = "none"] ELSE holidays[date]]
        new == {date \in w.file : cleared[date].state # "live"}
    IN  /\ w # Idle /\ w.kind = "import"
        /\ \A date \in new : cleared[date].row < MaxRows
        /\ holidays' = IF \E date \in new : cleared[date].state = "deleted" THEN holidays
                       ELSE [date \in Dates |->
                               IF date \in new
                               THEN [state |-> "live", row |-> cleared[date].row + 1]
                               ELSE cleared[date]]
        /\ AdminEnds(d)

\* A failed commit, a lost connection: the session rolls back.
AdminAbandons(d) == admin[d] # Idle /\ AdminEnds(d) /\ UNCHANGED holidays

-----------------------------------------------------------------------------
CalendarInit ==
    /\ StaffedInit
    /\ holidays = [date \in Dates |-> [state |-> "none", row |-> 0]]
    /\ admin = [d \in Desks |-> Idle]

CalendarNext ==
    \/ \E date \in Dates : CreateHoliday(date)
    \/ \E d \in Desks :
        \/ \E date \in Dates : LoadForDelete(d, date)
        \/ \E file \in Files, replace \in BOOLEAN : LoadForImport(d, file, replace)
        \/ CommitDelete(d) \/ CommitImport(d) \/ AdminAbandons(d)

CalendarSpec == CalendarInit /\ [][CalendarNext]_calendarVars

-----------------------------------------------------------------------------
(* Properties. *)

Live(date) == holidays[date].state = "live"

\* A holiday goes only when somebody deletes it or when a file of its own year is imported:
\* importing next year never erases this year (import_holidays).
ImportsKeepOtherYears ==
    [][\A date \in Dates :
         (Live(date) /\ ~Live(date)') =>
             \E d \in Desks :
                 /\ admin[d] # Idle /\ admin'[d] = Idle
                 /\ IF admin[d].kind = "delete" THEN admin[d].date = date
                    ELSE \E x \in admin[d].file : YearOf[x] = YearOf[date]]_calendarVars

\* Not so in the code: the row of a deleted holiday still occupies its date, and an import
\* that names the date fails as a whole (models/payroll/calendar.py:33).
ImportsLand ==
    [][\A d \in Desks :
         (Alone /\ admin[d] # Idle /\ admin[d].kind = "import" /\ CommitImport(d))
             => \A date \in admin[d].file : Live(date)']_calendarVars
=============================================================================
