---------------------------- MODULE MCPayrollCycle ----------------------------
(* Instances of PayrollCycle for TLC.                                      *)
EXTENDS PayrollCycle, TLC

CONSTANTS e1, e2

\* A monthly structure and an hourly one, which needs an approved timesheet.
MCStructures == {[hourly |-> FALSE, amount |-> 2, lop |-> 0],
                 [hourly |-> TRUE, amount |-> 1, lop |-> 0]}
MCMonthly == {[hourly |-> FALSE, amount |-> 2, lop |-> 0]}

\* A timesheet with one day lost, and one with more than the working days.
MCTimesheets == {[lop |-> 1, hours |-> 3], [lop |-> 3, hours |-> 0]}
MCLossOfPay == {[lop |-> 1, hours |-> 3]}

MCBonus == {[id |-> 1, employee |-> e1, amount |-> 5]}

Symmetry == Permutations(Workers)
===============================================================================
