----------------------------- MODULE MCLeaveLedger -----------------------------
(* Instances of LeaveLedger for TLC.                                       *)
EXTENDS LeaveLedger, TLC

\* A working day, the same day and a weekly-off, another working day, a half day.
MCSpans == {[days |-> {1}, half |-> FALSE], [days |-> {1, 2}, half |-> FALSE],
            [days |-> {3}, half |-> FALSE], [days |-> {1}, half |-> TRUE]}
MCTwoSpans == {[days |-> {1, 2}, half |-> FALSE], [days |-> {3}, half |-> FALSE]}

Annual(q) == [paid |-> TRUE, quota |-> q, monthly |-> FALSE, active |-> TRUE]
\* 8 days a year: the monthly 0.67 rounds up, twelve of them exceed the quota.
Monthly(q) == [paid |-> TRUE, quota |-> q, monthly |-> TRUE, active |-> TRUE]
Unpaid == [paid |-> FALSE, quota |-> 0, monthly |-> FALSE, active |-> TRUE]
Inactive(q) == [paid |-> TRUE, quota |-> q, monthly |-> FALSE, active |-> FALSE]

MCRules == {Monthly(800), Unpaid}
MCSerialRules == {Annual(100), Annual(200), Monthly(800), Inactive(100), Unpaid}

Symmetry == Permutations(Workers) \cup Permutations(Requests) \cup Permutations(Users)
SerialSymmetry == Permutations(Requests) \cup Permutations(Users)
===============================================================================
