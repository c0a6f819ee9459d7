------------------------------ MODULE MCOffice ------------------------------
(* Instances of the eight parts of the office for TLC: pay, presence and the *)
(* people on the roll.  The parts share no rows, so one behaviour exercises  *)
(* one of them: focus says which, and the others stand still.               *)
EXTENDS MCPayslip, Exits, Attendance, SalaryStructures, HolidayCalendar, CompanySettings,
        Feedback, Joiners

VARIABLE focus

exitPart == <<shelf, loans, exits, login, left, desk>>
attendancePart == <<punches, day, asked, clerk>>
salaryPart == <<terms, payroller>>
calendarPart == <<holidays, admin>>
settingsPart == <<company, saves, owner>>
feedbackPart == <<forms, edition, drills, sessions, reply>>
joinersPart == <<onboarding, roster, logins, roles, edits, hr>>

officeVars == <<focus, staffed, exitPart, attendancePart, salaryPart, calendarPart,
                settingsPart, feedbackPart, joinersPart, payslipVars>>

\* In the part that is not in focus, one value stands for all.
Fixed(part, set) == IF focus = part THEN set ELSE {CHOOSE v \in set : TRUE}

OfficeInit ==
    /\ focus \in {"exits", "attendance", "salary", "calendar", "settings", "feedback",
                  "joiners", "payslip"}
    /\ ExitsInit /\ AttendanceInit /\ SalaryInit /\ CalendarInit /\ SettingsInit
    /\ FeedbackInit /\ JoinersInit
    /\ claim \in Fixed("payslip", Claims)
    /\ slip = Undrawn

OfficeNext ==
    \/ /\ focus = "exits" /\ ExitsNext
       /\ UNCHANGED <<focus, attendancePart, salaryPart, calendarPart, settingsPart,
                      feedbackPart, joinersPart, payslipVars>>
    \/ /\ focus = "attendance" /\ AttendanceNext
       /\ UNCHANGED <<focus, exitPart, salaryPart, calendarPart, settingsPart,
                      feedbackPart, joinersPart, payslipVars>>
    \/ /\ focus = "salary" /\ SalaryNext
       /\ UNCHANGED <<focus, exitPart, attendancePart, calendarPart, settingsPart,
                      feedbackPart, joinersPart, payslipVars>>
    \/ /\ focus = "calendar" /\ CalendarNext
       /\ UNCHANGED <<focus, exitPart, attendancePart, salaryPart, settingsPart,
                      feedbackPart, joinersPart, payslipVars>>
    \/ /\ focus = "settings" /\ SettingsNext
       /\ UNCHANGED <<focus, exitPart, attendancePart, salaryPart, calendarPart,
                      feedbackPart, joinersPart, payslipVars>>
    \/ /\ focus = "feedback" /\ FeedbackNext
       /\ UNCHANGED <<focus, exitPart, attendancePart, salaryPart, calendarPart,
                      settingsPart, joinersPart, payslipVars>>
    \/ /\ focus = "joiners" /\ JoinersNext
       /\ UNCHANGED <<focus, exitPart, attendancePart, salaryPart, calendarPart,
                      settingsPart, feedbackPart, payslipVars>>
    \/ /\ focus = "payslip" /\ Draw
       /\ UNCHANGED <<focus, staffed, exitPart, attendancePart, salaryPart,
                      calendarPart, settingsPart, feedbackPart, joinersPart>>

OfficeSpec == OfficeInit /\ [][OfficeNext]_officeVars

Symmetry == Permutations(Desks)

-----------------------------------------------------------------------------
MCShift == [starts |-> 2, full |-> 3, half |-> 2]
MCMarks == {[status |-> "leave", first |-> 0, last |-> 0],
            [status |-> "present", first |-> 2, last |-> 4]}

\* A name listed twice, and a batch that meets structures already in force.
MCBatches == {<<"e1", "e2">>, <<"e2", "e2">>}

\* Two dates of one year and one of the next.
MCYearOf == ("a" :> 1) @@ ("b" :> 1) @@ ("c" :> 2)

\* A list that names a person twice.
MCGroups == {<<"r1">>, <<"r1", "r1">>}
MCBoss == [r1 |-> "b", b |-> "b"]
=============================================================================
