------------------------------ MODULE LeaveAccount ------------------------------
(***************************************************************************)
(* What leave_service promises of paid leave: leave is taken only out of   *)
(* what has accrued and given back when it is cancelled, each in one step, *)
(* and what is used is what is taken.                                      *)
(***************************************************************************)
EXTENDS Integers, FiniteSets, FiniteSetsExt

CONSTANTS
  Types,    \* leave types
  Requests  \* leave requests

VARIABLES accrued, used, taken  \* taken[t]: pairs of a request and its cost

account == <<accrued, used, taken>>

Used(S) == MapThenSumSet(LAMBDA p : p[2], S)

Init ==
  /\ accrued = [t \in Types |-> 0]
  /\ used = [t \in Types |-> 0]
  /\ taken = [t \in Types |-> {}]

\* Accrual goes on at any time, and only upwards.
Accrues == \A t \in Types : accrued'[t] >= accrued[t]

Take(t, r) ==
  /\ \A p \in taken[t] : p[1] # r
  /\ \E p \in taken'[t] : p[1] = r /\ taken' = [taken EXCEPT ![t] = @ \cup {p}]
  /\ used' = [used EXCEPT ![t] = Used(taken'[t])]
  /\ used'[t] <= accrued'[t]

GiveBack(t, r) ==
  /\ taken' = [taken EXCEPT ![t] = {p \in @ : p[1] # r}]
  /\ used' = [used EXCEPT ![t] = Used(taken'[t])]

Next ==
  /\ Accrues
  /\ \/ UNCHANGED <<used, taken>>
     \/ \E t \in Types, r \in Requests : Take(t, r) \/ GiveBack(t, r)

Spec == Init /\ [][Next]_account
===============================================================================
