-------------------------- MODULE CompanySettings --------------------------
(***************************************************************************)
(* What a company sets for its payroll on its own row                       *)
(* (router/enterprise/payroll/settings.py, calendar.py): one JSON column    *)
(* with the statutory rates and the calendar rules, and the payslip         *)
(* document with its mapping.  A handler loads the row in one step; its     *)
(* commit writes the columns that differ from the ones it loaded.           *)
(***************************************************************************)
EXTENDS Requests, Integers, TLC

CONSTANTS
    Originals,  \* payslip documents that may be scanned
    MaxSaves    \* bound: saves of the company row

ASSUME SettingsAssumption == MaxSaves \in Nat /\ "none" \notin Originals /\ "direct" \notin Originals

VARIABLES
    company,    \* columns of the company row
    saves,      \* commits of the company row
    owner       \* the request each desk is serving

settingsVars == <<staffed, company, saves, owner>>

None == "none"
Fresh == [statutory |-> [rates |-> "default", calendar |-> "default"],
          template |-> None, original |-> None, mapping |-> None, use |-> FALSE]

-----------------------------------------------------------------------------
LoadCompany(d, kind, now) ==
    /\ saves + Cardinality({e \in Desks : owner[e] # Idle}) < MaxSaves
    /\ d \in staffed /\ owner[d] = Idle
    /\ owner' = [owner EXCEPT ![d] = [kind |-> kind, was |-> company, now |-> now]]
    /\ UNCHANGED <<staffed, company, saves>>

\* Validation by the model of the rates keeps its own fields only.
UpdateStatutory(d, rates) ==
    LoadCompany(d, "rates",
        [company EXCEPT !.statutory = [rates |-> rates, calendar |-> "default"]])

UpdateCalendar(d, calendar) ==
    LoadCompany(d, "calendar", [company EXCEPT !.statutory.calendar = calendar])

UpdatePayslip(d, use) == LoadCompany(d, "document", [company EXCEPT !.use = use])

\* Mutant: the wizard's choices outlive a document uploaded over them.
UploadKeepsWizard(d) == LoadCompany(d, "document", [company EXCEPT !.template = "direct"])

UploadDocument(d) ==
    LoadCompany(d, "document",
        [company EXCEPT !.template = "direct", !.original = None, !.mapping = None])

DeleteDocument(d) ==
    LoadCompany(d, "document",
        [company EXCEPT !.template = None, !.original = None, !.mapping = None, !.use = FALSE])

ScanDocument(d, original) == LoadCompany(d, "document", [company EXCEPT !.original = original])

\* The template and the mapping are made from the original that is stored.
ApplyMapping(d) ==
    /\ company.original # None
    /\ LoadCompany(d, "document",
          [company EXCEPT !.template = company.original, !.mapping = company.original,
                          !.use = TRUE])

CommitCompany(d) ==
    LET w == owner[d]
    IN  /\ w # Idle
        /\ company' = [c \in DOMAIN company |->
                         IF w.now[c] # w.was[c] THEN w.now[c] ELSE company[c]]
        /\ saves' = saves + 1
        /\ owner' = [owner EXCEPT ![d] = Idle]
        /\ UNCHANGED staffed

\* A failed commit, a lost connection: the session rolls back.
AbandonSettings(d) ==
    /\ owner[d] # Idle
    /\ owner' = [owner EXCEPT ![d] = Idle]
    /\ UNCHANGED <<staffed, company, saves>>

-----------------------------------------------------------------------------
SettingsInit ==
    /\ StaffedInit
    /\ company = Fresh /\ saves = 0
    /\ owner = [d \in Desks |-> Idle]

SettingsNext ==
    \E d \in Desks :
        \/ \E v \in {"default", "edited"} : UpdateStatutory(d, v) \/ UpdateCalendar(d, v)
        \/ \E use \in BOOLEAN : UpdatePayslip(d, use)
        \/ UploadDocument(d) \/ DeleteDocument(d)
        \/ \E original \in Originals : ScanDocument(d, original)
        \/ ApplyMapping(d)
        \/ CommitCompany(d)
        \/ AbandonSettings(d)

SettingsSpec == SettingsInit /\ [][SettingsNext]_settingsVars

-----------------------------------------------------------------------------
(* Properties. *)

\* With one request at a time a mapping is only ever kept beside the original it can be
\* reopened on and the template it produced, and no other template claims to be mapped
\* (upload, scan, mapping and delete of the payslip document).
DocumentHoldsTogether ==
    Alone => /\ company.mapping # None =>
                    company.original # None /\ company.template = company.mapping
             /\ company.template \in Originals => company.mapping = company.template

\* Not so in the code: the saved rates drop the calendar's keys (settings.py:458).
CalendarSurvivesRates ==
    [][\A d \in Desks :
         (Alone /\ owner[d] # Idle /\ owner'[d] = Idle /\ owner[d].kind = "rates")
             => company'.statutory.calendar = company.statutory.calendar]_settingsVars
=============================================================================
