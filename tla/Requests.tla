------------------------------ MODULE Requests ------------------------------
(***************************************************************************)
(* What the modules of the people side share: requests that each hold one  *)
(* database session.  A handler loads rows and decides in one step and      *)
(* commits in another (core/database.py: no row locks, no autoflush, only   *)
(* changed columns are written), so the work of one request may be based on *)
(* rows that another has changed since.  How many requests may overlap is   *)
(* chosen once per behaviour.                                              *)
(***************************************************************************)
EXTENDS FiniteSets

CONSTANTS
    Desks,      \* requests that may run at once
    Idle        \* a desk without a request

ASSUME RequestsAssumption == IsFiniteSet(Desks)

VARIABLE
    staffed     \* the desks at work in this behaviour

StaffedInit == staffed \in {{CHOOSE d \in Desks : TRUE}, Desks}

\* One request at a time.
Alone == Cardinality(staffed) = 1
=============================================================================
