------------------------------ MODULE Joiners ------------------------------
(***************************************************************************)
(* From a candidate's onboarding to an employee with a login:               *)
(* router/enterprise/onboarding.py, public_onboarding.py, employees.py and  *)
(* services/enterprise/employee_service.py.  The steps of an onboarding     *)
(* write without looking at the status they find.  Employee codes EMP-n     *)
(* are numbers here, a code of another form is Foreign.                     *)
(***************************************************************************)
EXTENDS Requests, Integers, Sequences, FiniteSetsExt

CONSTANTS
    Candidates,     \* people in onboarding; an e-mail address is its owner's name
    Others,         \* people HR enters by hand
    TypedCodes,     \* codes HR types
    StatusRows,     \* onboarding_statuses that exist
    MaxRoster,      \* bound: employee rows, one fewer where requests overlap
    MaxAmends       \* bound: edits of employee rows

Foreign == 0        \* a code not of the form EMP-n
FirstCode == 1      \* stands for EMP-1001

ASSUME JoinersAssumption == TypedCodes \subseteq Nat /\ MaxRoster \in Nat

VARIABLES
    onboarding, \* status of each candidate's onboarding ("none": not started), completed_at set
    roster,     \* employees: code, email, live
    logins,     \* e-mails with a user row
    roles,      \* EMPLOYEE role rows of the company
    edits,      \* edits committed
    hr          \* the request each desk is serving

joinersVars == <<staffed, onboarding, roster, logins, roles, edits, hr>>

-----------------------------------------------------------------------------
(* Onboarding. *)

Becomes(c, status, dated) ==
    /\ onboarding' = [onboarding EXCEPT ![c] =
                        [status |-> IF status \in StatusRows THEN status ELSE @.status,
                         dated |-> @.dated \/ (dated /\ status \in StatusRows)]]
    /\ UNCHANGED <<staffed, roster, logins, roles, edits, hr>>

Started(c) == onboarding[c].status # "none"

InitiateOnboarding(c) ==
    ~Started(c) /\ "In Progress" \in StatusRows /\ Becomes(c, "In Progress", FALSE)

SubmitInfo(c) == Started(c) /\ Becomes(c, "Awaiting Confirmation", FALSE)

\* One row is expected under either name.
Resubmit(c) ==
    /\ Started(c) /\ ~({"Action Required", "Rejected"} \subseteq StatusRows)
    /\ \E status \in {"Action Required", "Rejected"} :
        /\ status \in StatusRows \/ {"Action Required", "Rejected"} \cap StatusRows = {}
        /\ Becomes(c, status, FALSE)

Approve(c) == Started(c) /\ Becomes(c, "Completed", TRUE)

UpdateOnboarding(c, status) ==
    Started(c) /\ status # onboarding[c].status /\ Becomes(c, status, status = "Completed")

-----------------------------------------------------------------------------
(* Employees. *)

AtHr(d, work) ==
    /\ d \in staffed /\ hr[d] = Idle
    /\ hr' = [hr EXCEPT ![d] = work]
    /\ UNCHANGED <<staffed, onboarding, roster, logins, roles, edits>>

Employee(code, email) == [code |-> code, email |-> email, live |-> TRUE]
LiveRows == {i \in DOMAIN roster : roster[i].live}
Hiring == Cardinality({d \in Desks : hr[d] # Idle /\ hr[d].kind \in {"create", "convert"}})

Vacant == Len(roster) + Hiring < (IF Alone THEN MaxRoster ELSE MaxRoster - 1)

\* Mutant: only live rows count.
NextCodeLive == Max({FirstCode - 1} \cup {roster[i].code : i \in LiveRows}) + 1

NextCode == Max({FirstCode - 1} \cup {roster[i].code : i \in DOMAIN roster}) + 1

CreateEmployee(d, code, email) ==
    /\ Vacant
    /\ \A i \in LiveRows : roster[i].email # email /\ roster[i].code # code
    /\ AtHr(d, [kind |-> "create", row |-> Employee(code, email)])

\* Whatever the status of the onboarding.
ConvertCandidate(d, c) ==
    /\ Vacant
    /\ Started(c)
    /\ AtHr(d, [kind |-> "convert", row |-> Employee(NextCode, c)])

UpdateEmployee(d, i, code, email) ==
    /\ roster[i].live /\ edits + Cardinality({e \in Desks : hr[e] # Idle}) < MaxAmends
    /\ AtHr(d, [kind |-> "edit", at |-> i, row |-> Employee(code, email)])

\* Both indexes cover the rows that are live.
Unique(rows) ==
    \A i, j \in DOMAIN rows : (i # j /\ rows[i].live /\ rows[j].live) =>
        rows[i].email # rows[j].email /\ rows[i].code # rows[j].code

StoredRoster(w) ==
    IF w.kind = "edit" THEN [roster EXCEPT ![w.at].code = w.row.code, ![w.at].email = w.row.email]
    ELSE Append(roster, w.row)

CommitRoster(d) ==
    LET w == hr[d]
    IN  /\ w # Idle /\ w.kind # "account"
        /\ Unique(StoredRoster(w))
        /\ roster' = StoredRoster(w)
        /\ edits' = IF w.kind = "edit" THEN edits + 1 ELSE edits
        /\ hr' = [hr EXCEPT ![d] = Idle]
        /\ UNCHANGED <<staffed, onboarding, logins, roles>>

DeleteEmployee(i) ==
    /\ roster' = [roster EXCEPT ![i].live = FALSE]
    /\ UNCHANGED <<staffed, onboarding, logins, roles, edits, hr>>

\* The role is created on first use; two of its rows fail the request.
CreateAccount(d, i) ==
    /\ roster[i].live /\ roster[i].email \notin logins /\ roles <= 1
    /\ AtHr(d, [kind |-> "account", email |-> roster[i].email, role |-> roles = 0])

CommitAccount(d) ==
    LET w == hr[d]
    IN  /\ w # Idle /\ w.kind = "account" /\ w.email \notin logins
        /\ logins' = logins \cup {w.email}
        /\ roles' = IF w.role THEN roles + 1 ELSE roles
        /\ hr' = [hr EXCEPT ![d] = Idle]
        /\ UNCHANGED <<staffed, onboarding, roster, edits>>

\* A unique violation or a lost connection rolls the request back.
HrAbandons(d) ==
    /\ hr[d] # Idle
    /\ hr' = [hr EXCEPT ![d] = Idle]
    /\ UNCHANGED <<staffed, onboarding, roster, logins, roles, edits>>

-----------------------------------------------------------------------------
JoinersInit ==
    /\ StaffedInit
    /\ onboarding = [c \in Candidates |-> [status |-> "none", dated |-> FALSE]]
    /\ roster = <<>> /\ logins = {} /\ roles = 0 /\ edits = 0
    /\ hr = [d \in Desks |-> Idle]

JoinersNext ==
    \/ \E c \in Candidates :
        \/ InitiateOnboarding(c) \/ SubmitInfo(c) \/ Resubmit(c) \/ Approve(c)
        \/ \E status \in StatusRows : UpdateOnboarding(c, status)
    \/ \E i \in DOMAIN roster : DeleteEmployee(i)
    \/ \E d \in Desks :
        \/ \E c \in Candidates : ConvertCandidate(d, c)
        \/ \E code \in TypedCodes :
            \/ \E email \in Others : CreateEmployee(d, code, email)
            \/ \E i \in DOMAIN roster : UpdateEmployee(d, i, code, roster[i].email)
        \/ \E i \in DOMAIN roster : CreateAccount(d, i)
        \/ CommitRoster(d) \/ CommitAccount(d) \/ HrAbandons(d)

JoinersSpec == JoinersInit /\ [][JoinersNext]_joinersVars

-----------------------------------------------------------------------------
(* Properties. *)

Joins(d) == hr[d] # Idle /\ hr'[d] = Idle /\ Len(roster') > Len(roster) /\ hr[d].kind = "convert"

\* With one request at a time the code a conversion gives out belongs to no row of the
\* company, those of people who left included: payslips and documents that carry a code keep
\* naming one person (generate_employee_id).
CodesAreNotReissued ==
    [][\A d \in Desks : (Alone /\ Joins(d)) =>
         \A i \in DOMAIN roster : roster[i].code # hr[d].row.code]_joinersVars

\* Not so in the code: the onboarding need not be completed (employee_service.py:70).
ConvertedWereOnboarded ==
    [][\A d \in Desks : Joins(d) => onboarding[hr[d].row.email].dated]_joinersVars

\* Not so in the code: two first logins at once create the role twice, and every later
\* account is refused (employees.py:320).
OneEmployeeRole == roles <= 1
=============================================================================
