-------------------------- MODULE SalaryStructures --------------------------
(***************************************************************************)
(* The salary structures of employees: HR creates, edits and deletes them   *)
(* one by one (router/enterprise/payroll/payroll.py) or lays a template      *)
(* over a batch of employees (payroll_service.apply_template).              *)
(***************************************************************************)
EXTENDS Requests, Integers, Sequences, SequencesExt

CONSTANTS
    Payees,     \* employees
    Batches,    \* batches of employees, in the order the request lists them
    MaxTerms    \* bound: structures ever inserted

ASSUME SalaryAssumption == Batches \subseteq Seq(Payees)

VARIABLES
    terms,      \* salary_structures rows: who, active, live (deleted_at IS NULL)
    payroller   \* what each request is about to write

salaryVars == <<staffed, terms, payroller>>

InForce(ts, e) == {i \in DOMAIN ts : ts[i].who = e /\ ts[i].active /\ ts[i].live}

Insert(e, active) == [who |-> e, active |-> active, live |-> TRUE]

\* off, on and drop are rows; ends says whose pay HR meant to end.
Nothing == [off |-> {}, on |-> {}, drop |-> {}, new |-> <<>>, ends |-> {}]

\* Bound: rows, those about to be inserted included.
Room(n) ==
    LET waiting == {d \in Desks : payroller[d] # Idle}
    IN  Len(terms) + MapThenSumSet(LAMBDA d : Len(payroller[d].new), waiting) + n <= MaxTerms

Prepare(d, writes) ==
    /\ d \in staffed /\ payroller[d] = Idle
    /\ Room(Len(writes.new))
    /\ payroller' = [payroller EXCEPT ![d] = writes]
    /\ UNCHANGED <<staffed, terms>>

-----------------------------------------------------------------------------
CreateStructure(d, e, active) ==
    /\ active => InForce(terms, e) = {}
    /\ Prepare(d, [Nothing EXCEPT !.new = <<Insert(e, active)>>])

\* Only is_active matters here; a column that keeps its value is not written.
UpdateStructure(d, i, active) ==
    LET row == terms[i]
    IN  /\ row.live
        /\ (active /\ ~row.active) => InForce(terms, row.who) \ {i} = {}
        /\ Prepare(d, [Nothing EXCEPT !.on = IF active /\ ~row.active THEN {i} ELSE {},
                                      !.off = IF ~active /\ row.active THEN {i} ELSE {},
                                      !.ends = IF active THEN {} ELSE {row.who}])

DeleteStructure(d, i) ==
    /\ terms[i].live
    /\ Prepare(d, [Nothing EXCEPT !.drop = {i}, !.off = IF terms[i].active THEN {i} ELSE {},
                                  !.ends = {terms[i].who}])

Given(w, e) == \E i \in DOMAIN w.new : w.new[i].who = e

\* The batch's own structure for e, if any, is replaced as well.
Renew(w, e) ==
    LET retired == [i \in DOMAIN w.new |->
                      IF w.new[i].who = e THEN [w.new[i] EXCEPT !.active = FALSE] ELSE w.new[i]]
    IN  [w EXCEPT !.off = @ \cup InForce(terms, e), !.new = Append(retired, Insert(e, TRUE))]

\* Mutant: what is in force goes before the batch looks whether to replace it.
GiveClearing(w, e, replace) ==
    IF ~replace /\ (InForce(terms, e) # {} \/ Given(w, e))
    THEN [w EXCEPT !.off = @ \cup InForce(terms, e)] ELSE Renew(w, e)

\* What is in force goes, unless the batch is not to replace it, and the template's comes.
Give(w, e, replace) ==
    IF ~replace /\ (InForce(terms, e) # {} \/ Given(w, e)) THEN w ELSE Renew(w, e)

(* Employee by employee.  Each step is flushed, so a name listed twice finds *)
(* the structure it was just given.                                         *)
ApplyTemplate(d, batch, replace) ==
    LET given[n \in 0 .. Len(batch)] ==
            IF n = 0 THEN Nothing ELSE Give(given[n - 1], batch[n], replace)
    IN  Prepare(d, given[Len(batch)])

-----------------------------------------------------------------------------
Stored(w) ==
    [i \in DOMAIN terms |->
        [terms[i] EXCEPT !.active = (@ \/ i \in w.on) /\ i \notin w.off,
                         !.live = @ /\ i \notin w.drop]] \o w.new

\* idx_active_salary_structure refuses a second structure in force.
PayCommit(d) ==
    LET w == payroller[d]
    IN  /\ w # Idle
        /\ \A e \in Payees : Cardinality(InForce(Stored(w), e)) <= 1
        /\ terms' = Stored(w)
        /\ payroller' = [payroller EXCEPT ![d] = Idle]
        /\ UNCHANGED staffed

\* The request dies or its commit is refused; the whole batch is rolled back.
PayAbandon(d) ==
    /\ payroller[d] # Idle
    /\ payroller' = [payroller EXCEPT ![d] = Idle]
    /\ UNCHANGED <<staffed, terms>>

SalaryInit ==
    /\ StaffedInit
    /\ terms = <<>>
    /\ payroller = [d \in Desks |-> Idle]

SalaryNext ==
    \E d \in Desks :
        \/ \E e \in Payees, active \in BOOLEAN : CreateStructure(d, e, active)
        \/ \E i \in DOMAIN terms :
              \/ \E active \in BOOLEAN : UpdateStructure(d, i, active)
              \/ DeleteStructure(d, i)
        \/ \E batch \in Batches, replace \in BOOLEAN : ApplyTemplate(d, batch, replace)
        \/ PayCommit(d)
        \/ PayAbandon(d)

SalarySpec == SalaryInit /\ [][SalaryNext]_salaryVars

-----------------------------------------------------------------------------
(* However batches, edits and deletions overlap, are repeated or refused: an *)
(* employee with a structure in force is left without one only by a request  *)
(* that was made to end it.  A batch that replaces structures, skips some or  *)
(* fails half-way leaves nobody without pay.                                 *)
PayIsNotDropped ==
    [][\A e \in Payees :
          (InForce(terms, e) # {} /\ InForce(terms', e) = {}) =>
              \E d \in Desks : payroller[d] # Idle /\ e \in payroller[d].ends]_salaryVars
=============================================================================
