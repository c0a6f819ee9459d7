------------------------------ MODULE LeaveLedger ------------------------------
(***************************************************************************)
(* The leave ledger of one employee: leave types, balances and requests of *)
(* app/services/payroll/leave_service.py, as served by                     *)
(* app/router/enterprise/payroll/leave.py and me.py.                       *)
(*                                                                         *)
(* A decision reads the request and checks its status, then reads the type *)
(* and the balance, and later commits the values it computed.  These are   *)
(* separate SELECTs at READ COMMITTED without row locks, so each is a step *)
(* here.  The ORM writes only the columns whose value differs from the one *)
(* it loaded.  Balances are in hundredths of a day, the columns' scale.    *)
(***************************************************************************)
EXTENDS Integers, FiniteSets, FiniteSetsExt

CONSTANTS
  Workers,   \* requests served at the same time
  Types,     \* codes of the leave types
  Rules,     \* configurations HR may give a leave type
  Retyped,   \* types whose is_paid HR may change
  Requests,  \* identities of leave requests; bound: requests filed
  Users,     \* users who file, approve, reject and cancel
  Spans,     \* date ranges that may be requested
  Off,       \* weekly-offs and holidays
  Enforce,   \* enforce_maker_checker
  MaxEdits,  \* bound: configuration changes and months elapsed
  NoType,    \* a code the company has no type for
  Nobody     \* approved_by_id of an undecided request

Rule == [paid : BOOLEAN, quota : Nat, monthly : BOOLEAN, active : BOOLEAN]
Balance == [open : BOOLEAN, entitled : Nat, accrued : Nat, used : Nat]

ASSUME InputsAssumption ==
  /\ Rules \subseteq Rule
  /\ NoType \notin Rule
  /\ Nobody \notin Users
  /\ Enforce \in BOOLEAN
  /\ MaxEdits \in Nat

ASSUME SpansAssumption ==
  \A s \in Spans :
    /\ IsFiniteSet(s.days)
    /\ s.half \in BOOLEAN
    /\ s.days \ Off # {}
    /\ s.half => Cardinality(s.days) = 1

VARIABLES
  types,    \* types[t]: the configuration of type t, or NoType
  month,    \* months elapsed in the financial year: April is 1, March is 12
  balance,  \* balance[t]: the leave_balances row of type t
  request,  \* request[r]: the leave_requests row
  op,       \* op[w]: what worker w is serving, or "idle"
  task,     \* task[w]: what worker w has read and is about to write
  ceiling,  \* ceiling[t]: the largest quota type t ever had
  edits     \* configuration changes and months elapsed so far

vars == <<types, month, balance, request, op, task, ceiling, edits>>

Statuses == {"PENDING", "APPROVED", "REJECTED", "CANCELLED"}
Active == {"PENDING", "APPROVED"}

NoBalance == [open |-> FALSE, entitled |-> 0, accrued |-> 0, used |-> 0]
NoBalances == [t \in Types |-> NoBalance]
NoRequest == [status |-> "NONE", type |-> NoType, span |-> {}, by |-> Nobody,
              approver |-> Nobody]

\* What a worker holds: the request row it read (create: is to insert), whether
\* it has read the balance, the balances it read and those it will store, and
\* the types it will insert.
TaskOf(target, actor, row) ==
  [target |-> target, actor |-> actor, row |-> row, ready |-> FALSE,
   seen |-> NoBalances, new |-> NoBalances, codes |-> {}]

\* The task with the balances it read and will store.
Holding(k, seen, new) ==
  [target |-> k.target, actor |-> k.actor, row |-> k.row, ready |-> TRUE,
   seen |-> seen, new |-> new, codes |-> k.codes]

NoTask == TaskOf(Nobody, Nobody, NoRequest)

Row == {NoRequest} \cup
       [status : Statuses, type : Types, span : Spans, by : Users,
        approver : Users \cup {Nobody}]

Task == [target : Requests \cup {Nobody}, actor : Users \cup {Nobody}, row : Row,
         ready : BOOLEAN, seen : [Types -> Balance], new : [Types -> Balance],
         codes : SUBSET Types]

TypeOK ==
  /\ types \in [Types -> Rules \cup {NoType}]
  /\ month \in 1 .. 12
  /\ balance \in [Types -> Balance]
  /\ request \in [Requests -> Row]
  /\ op \in [Workers -> {"idle", "create", "approve", "reject", "cancel", "list", "seed"}]
  /\ task \in [Workers -> Task]
  /\ ceiling \in [Types -> Nat]
  /\ edits \in 0 .. MaxEdits

Init ==
  /\ types \in [Types -> {NoType} \cup {rule \in Rules : rule.active}]
  /\ month \in {1, 12}
  /\ balance = NoBalances
  /\ request = [r \in Requests |-> NoRequest]
  /\ op = [w \in Workers |-> "idle"]
  /\ task = [w \in Workers |-> NoTask]
  /\ ceiling = [t \in Types |-> IF types[t] = NoType THEN 0 ELSE types[t].quota]
  /\ edits = 0

-------------------------------------------------------------------------------
(* Days, accrual and balances                                              *)

\* Decimal.quantize: n/d to the nearest integer, a tie to the even one.
RoundHalfEven(n, d) ==
  LET q == n \div d
      r == n % d
  IN  IF 2 * r > d \/ (2 * r = d /\ q % 2 = 1) THEN q + 1 ELSE q

Lower(a, b) == IF a < b THEN a ELSE b
Higher(a, b) == IF a > b THEN a ELSE b

\* Mutant: the pro-rated amount is not capped by the quota.
AccruedForUncapped(rule, m) ==
  IF rule.monthly THEN RoundHalfEven(rule.quota, 12) * m ELSE rule.quota

\* _accrued_for
AccruedFor(rule, m) ==
  IF rule.monthly THEN Lower(rule.quota, RoundHalfEven(rule.quota, 12) * m)
  ELSE rule.quota

\* The days a request consumes.
Cost(span) ==
  IF span.half THEN 50 ELSE 100 * Cardinality(span.days \ Off)

\* Mutant: accrued follows the accrual point down as well as up.
EnsuredBothWays(b, rule) ==
  IF ~b.open
  THEN [open |-> TRUE, entitled |-> rule.quota,
        accrued |-> AccruedFor(rule, month), used |-> 0]
  ELSE [open |-> TRUE, entitled |-> rule.quota,
        accrued |-> AccruedFor(rule, month), used |-> b.used]

\* ensure_balance on the row read: create it, or refresh entitled and accrued.
Ensured(b, rule) ==
  IF ~b.open
  THEN [open |-> TRUE, entitled |-> rule.quota,
        accrued |-> AccruedFor(rule, month), used |-> 0]
  ELSE [open |-> TRUE, entitled |-> rule.quota,
        accrued |-> Higher(b.accrued, AccruedFor(rule, month)), used |-> b.used]

\* What the ORM stores in a column it loaded as old and was assigned new.
Column(stored, old, new) == IF new = old THEN stored ELSE new

\* The row left by storing new over a row loaded as seen (new not open: no write).
Stored(stored, seen, new) ==
  IF ~new.open THEN stored
  ELSE IF ~seen.open THEN new
  ELSE [open     |-> TRUE,
        entitled |-> Column(stored.entitled, seen.entitled, new.entitled),
        accrued  |-> Column(stored.accrued, seen.accrued, new.accrued),
        used     |-> Column(stored.used, seen.used, new.used)]

\* An INSERT another transaction was faster with: of a balance row, or of a type.
Conflict(w) ==
  \/ \E t \in Types : task[w].new[t].open /\ ~task[w].seen[t].open /\ balance[t].open
  \/ \E t \in task[w].codes : types[t] # NoType

-------------------------------------------------------------------------------
(* Requests to the API                                                     *)

Start(w, kind, t) ==
  /\ op[w] = "idle"
  /\ op' = [op EXCEPT ![w] = kind]
  /\ task' = [task EXCEPT ![w] = t]

End(w) ==
  /\ op' = [op EXCEPT ![w] = "idle"]
  /\ task' = [task EXCEPT ![w] = NoTask]

Overlaps(s, r) ==
  request[r].status \in Active /\ request[r].span.days \cap s.days # {}

\* Mutant: only approved requests count as a clash.
CreateLoadApprovedOnly(w) ==
  /\ \E r \in Requests : request[r] = NoRequest
  /\ \E t \in Types, s \in Spans, u \in Users :
       /\ types[t] # NoType
       /\ ~ \E q \in Requests : request[q].status = "APPROVED" /\ Overlaps(s, q)
       /\ Start(w, "create",
            TaskOf(Nobody, Nobody, [status |-> "PENDING", type |-> t, span |-> s,
                                    by |-> u, approver |-> Nobody]))
  /\ UNCHANGED <<types, month, balance, request, ceiling, edits>>

\* create_request: the type exists and no active request overlaps.
CreateLoad(w) ==
  /\ \E r \in Requests : request[r] = NoRequest
  /\ \E t \in Types, s \in Spans, u \in Users :
       /\ types[t] # NoType
       /\ ~ \E q \in Requests : Overlaps(s, q)
       /\ Start(w, "create",
            TaskOf(Nobody, Nobody, [status |-> "PENDING", type |-> t, span |-> s,
                                    by |-> u, approver |-> Nobody]))
  /\ UNCHANGED <<types, month, balance, request, ceiling, edits>>

\* The row gets an identity of its own, whatever else was filed meanwhile.
CreateCommit(w) ==
  /\ op[w] = "create"
  /\ \E r \in Requests :
       /\ request[r] = NoRequest
       /\ request' = [request EXCEPT ![r] = task[w].row]
  /\ End(w)
  /\ UNCHANGED <<types, month, balance, ceiling, edits>>

Decisions == {"approve", "reject", "cancel"}

\* The statuses a request may be decided in.
Allowed(kind) == IF kind = "cancel" THEN Active ELSE {"PENDING"}

\* Mutant: the approver is compared with the previous decider.
SegregatedByDecider(row, u) == Enforce => row.approver # u

\* The maker-checker rule of approve_request.
Segregated(row, u) == Enforce => row.by # u

\* _get_request, the status check and, for an approval, the maker-checker rule.
DecideLoad(w) ==
  /\ \E kind \in Decisions, r \in Requests, u \in Users :
       /\ request[r].status \in Allowed(kind)
       /\ kind = "approve" => Segregated(request[r], u)
       /\ Start(w, kind, TaskOf(r, u, request[r]))
  /\ UNCHANGED <<types, month, balance, request, ceiling, edits>>

\* Does the decision touch the balance?
Debits(w) == op[w] = "approve" /\ types[task[w].row.type].paid
Credits(w) ==
  /\ op[w] = "cancel"
  /\ task[w].row.status = "APPROVED"
  /\ types[task[w].row.type].paid

\* Is what is left of balance b enough for the span?
Enough(b, span) == Cost(span) <= b.accrued - b.used

\* Mutant: cancelling credits nothing.
BalanceAfterCancelDropped(w, b) ==
  IF op[w] = "approve" THEN [b EXCEPT !.used = @ + Cost(task[w].row.span)] ELSE b

\* The decision's new balance, from the ensured one.
BalanceAfter(w, b) ==
  [open |-> TRUE, entitled |-> b.entitled, accrued |-> b.accrued,
   used |-> IF op[w] = "approve" THEN b.used + Cost(task[w].row.span)
            ELSE Higher(0, b.used - Cost(task[w].row.span))]

\* The type and, for a paid one, the balance are read.  An approval that finds
\* too little left ends here, in Refuse.
DecideRead(w) ==
  LET t == task[w].row.type
      b == Ensured(balance[t], types[t])
      touched == Debits(w) \/ Credits(w)
  IN  /\ op[w] \in Decisions
      /\ ~task[w].ready
      /\ Debits(w) => Enough(b, task[w].row.span)
      /\ task' = [task EXCEPT ![w] =
           Holding(task[w],
                   [NoBalances EXCEPT ![t] = IF touched THEN balance[t] ELSE NoBalance],
                   [NoBalances EXCEPT ![t] = IF touched THEN BalanceAfter(w, b)
                                             ELSE NoBalance])]
      /\ UNCHANGED <<types, month, balance, request, op, ceiling, edits>>

\* Insufficient balance: 409, and the rollback drops what ensure_balance did.
Refuse(w) ==
  /\ Debits(w)
  /\ ~task[w].ready
  /\ LET t == task[w].row.type
     IN  ~Enough(Ensured(balance[t], types[t]), task[w].row.span)
  /\ End(w)
  /\ UNCHANGED <<types, month, balance, request, ceiling, edits>>

Outcome(kind) ==
  IF kind = "approve" THEN "APPROVED"
  ELSE IF kind = "reject" THEN "REJECTED" ELSE "CANCELLED"

Decided(row, kind, approver) ==
  [status |-> Outcome(kind), type |-> row.type, span |-> row.span, by |-> row.by,
   approver |-> approver]

DecideCommit(w) ==
  /\ op[w] \in Decisions
  /\ task[w].ready
  /\ ~Conflict(w)
  /\ balance' = [t \in Types |-> Stored(balance[t], task[w].seen[t], task[w].new[t])]
  /\ request' = [request EXCEPT ![task[w].target] =
       Decided(request[task[w].target], op[w],
               Column(request[task[w].target].approver, task[w].row.approver,
                      task[w].actor))]
  /\ End(w)
  /\ UNCHANGED <<types, month, ceiling, edits>>

\* list_balances seeds or refreshes a row for every active paid type.
ListLoad(w) ==
  LET listed == {t \in Types : types[t] # NoType /\ types[t].active /\ types[t].paid}
  IN  /\ listed # {}
      /\ Start(w, "list",
           Holding(NoTask,
             [t \in Types |-> IF t \in listed THEN balance[t] ELSE NoBalance],
             [t \in Types |-> IF t \in listed THEN Ensured(balance[t], types[t])
                              ELSE NoBalance]))
      /\ UNCHANGED <<types, month, balance, request, ceiling, edits>>

ListCommit(w) ==
  /\ op[w] = "list"
  /\ ~Conflict(w)
  /\ balance' = [t \in Types |-> Stored(balance[t], task[w].seen[t], task[w].new[t])]
  /\ End(w)
  /\ UNCHANGED <<types, month, request, ceiling, edits>>

\* create_type adds one type, seed_default_types every missing default type.
SeedLoad(w) ==
  /\ edits < MaxEdits
  /\ \E missing \in SUBSET {t \in Types : types[t] = NoType} :
       /\ missing # {}
       /\ Start(w, "seed",
            [target |-> Nobody, actor |-> Nobody, row |-> NoRequest, ready |-> FALSE,
             seen |-> NoBalances, new |-> NoBalances, codes |-> missing])
  /\ edits' = edits + 1
  /\ UNCHANGED <<types, month, balance, request, ceiling>>

SeedCommit(w) ==
  /\ op[w] = "seed"
  /\ ~Conflict(w)
  /\ \E rule \in {rule \in Rules : rule.active} :
       /\ types' = [t \in Types |-> IF t \in task[w].codes THEN rule ELSE types[t]]
       /\ ceiling' = [t \in Types |-> IF t \in task[w].codes THEN rule.quota ELSE ceiling[t]]
  /\ End(w)
  /\ UNCHANGED <<month, balance, request, edits>>

\* IntegrityError on commit: rolled back, nothing is stored.
FailInsert(w) ==
  /\ op[w] \in {"list", "seed"} \/ (op[w] \in Decisions /\ task[w].ready)
  /\ Conflict(w)
  /\ End(w)
  /\ UNCHANGED <<types, month, balance, request, ceiling, edits>>

\* A request dies before its commit.
Abandon(w) ==
  /\ op[w] # "idle"
  /\ End(w)
  /\ UNCHANGED <<types, month, balance, request, ceiling, edits>>

\* update_type overwrites the fields of the payload.
UpdateType(t) ==
  /\ edits < MaxEdits
  /\ types[t] # NoType
  /\ \E rule \in Rules \ {types[t]} :
       /\ rule.paid = types[t].paid \/ t \in Retyped
       /\ types' = [types EXCEPT ![t] = rule]
       /\ ceiling' = [ceiling EXCEPT ![t] = Higher(@, rule.quota)]
  /\ edits' = edits + 1
  /\ UNCHANGED <<month, balance, request, op, task>>

\* A month passes; the balances stay in DEFAULT_FINANCIAL_YEAR.
NextMonth ==
  /\ edits < MaxEdits
  /\ month' = (month % 12) + 1
  /\ edits' = edits + 1
  /\ UNCHANGED <<types, balance, request, op, task, ceiling>>

Next ==
  \/ \E w \in Workers :
       \/ CreateLoad(w) \/ CreateCommit(w)
       \/ DecideLoad(w) \/ DecideRead(w) \/ Refuse(w) \/ DecideCommit(w)
       \/ ListLoad(w) \/ ListCommit(w) \/ SeedLoad(w) \/ SeedCommit(w)
       \/ FailInsert(w) \/ Abandon(w)
  \/ \E t \in Types : UpdateType(t)
  \/ NextMonth

Spec == Init /\ [][Next]_vars

-------------------------------------------------------------------------------
(* Whatever the interleaving                                               *)

(* With the maker-checker rule on, an approved request was approved by     *)
(* somebody who did not file it, also when approvals, rejections and       *)
(* cancellations of one request overwrite each other's columns.            *)
ApprovedByAnother ==
  Enforce =>
    \A r \in Requests :
      request[r].status = "APPROVED" => request[r].approver \notin {request[r].by, Nobody}

(* No balance is ever credited more than the largest quota its type has    *)
(* had: not by the rounding of the monthly share, not by the financial     *)
(* year starting again, not by refreshes that overwrite each other.        *)
AccruedWithinQuota ==
  \A t \in Types : balance[t].open => balance[t].accrued <= ceiling[t]

-------------------------------------------------------------------------------
(* When requests do not overlap                                            *)

ApprovedOf(t) == {r \in Requests : request[r].status = "APPROVED" /\ request[r].type = t}
CostOf(S) == MapThenSumSet(LAMBDA r : Cost(request[r].span), S)

(* No day is requested twice: active requests never overlap.               *)
NoDayTwice ==
  \A r, q \in Requests :
    r # q /\ request[r].status \in Active /\ request[q].status \in Active
      => request[r].span.days \cap request[q].span.days = {}

(* An employee never has more paid leave approved than has accrued, also   *)
(* across quota cuts and the start of a new financial year.                *)
NoOverdraft == \A t \in Types : balance[t].open => balance[t].used <= balance[t].accrued

\* A paid type: what is charged is what is approved.
Account == INSTANCE LeaveAccount WITH
  accrued <- [t \in Types |-> balance[t].accrued],
  used    <- [t \in Types |-> balance[t].used],
  taken   <- [t \in Types |-> IF types[t] = NoType \/ ~types[t].paid THEN {}
                              ELSE {<<r, Cost(request[r].span)>> : r \in ApprovedOf(t)}]

(* The balances are an exact account of the approved requests.             *)
AccountSpec == Account!Spec

-------------------------------------------------------------------------------
(* What the documentation says                                             *)

(* models/payroll/leave.py: "APPROVED requests decrement the matching      *)
(* balance".                                                               *)
ApprovedIsUsed ==
  \A t \in Types :
    types[t] # NoType /\ types[t].paid => balance[t].used >= CostOf(ApprovedOf(t))
===============================================================================
