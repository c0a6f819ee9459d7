------------------------------ MODULE MCTimesheets ------------------------------
(* Instances of Timesheets for TLC.                                        *)
EXTENDS Timesheets, TLC

\* Absences without hours and with punch times that cannot be used.
MCImports == {[day |-> 1, status |-> "UNPAID_LEAVE", hours |-> None],
              [day |-> 1, status |-> "UNPAID_LEAVE", hours |-> BadHours]}
MCNoImports == {}

\* Half-days and whole days of one type.
MCHalfAsks == {[type |-> "casual", half |-> TRUE]}
MCDayAsks == {[type |-> "casual", half |-> FALSE]}

Symmetry == Permutations(Workers) \cup Permutations(Users)
SerialSymmetry == Permutations(Users)
===============================================================================
