--------------------------- MODULE LeaveLedgerProofs ---------------------------
(***************************************************************************)
(* Two properties of the leave ledger under any interleaving, and, when    *)
(* requests do not overlap, two more and the refinement of LeaveAccount.   *)
(* None is inductive: a decision past its checks will write what it has    *)
(* read, so each invariant also speaks of the tasks under way.             *)
(***************************************************************************)
EXTENDS LeaveLedger, FiniteSetTheorems, DataLemmas, TLAPS

-------------------------------------------------------------------------------
(* Segregation of duties                                                   *)

RequestRow(x) ==
  x = [status |-> x.status, type |-> x.type, span |-> x.span, by |-> x.by,
       approver |-> x.approver]

Shapes ==
  /\ request \in [Requests -> [status : {"NONE"} \cup Statuses, type : Types \cup {NoType},
                               span : Spans \cup {{}}, by : Users \cup {Nobody},
                               approver : Users \cup {Nobody}]]
  /\ DOMAIN op = Workers
  /\ DOMAIN task = Workers

\* A row that waits for its decision has no approver; an approved one has
\* another user's.
RowsSegregated ==
  \A r \in Requests :
    /\ request[r].status = "PENDING" => request[r].approver = Nobody
    /\ Enforce /\ request[r].status = "APPROVED"
         => request[r].approver \notin {request[r].by, Nobody}

\* A decision's target exists; an approval under way is by another user than
\* the one who filed, and saw no approver.
TasksSegregated ==
  \A w \in Workers :
    /\ op[w] = "create" =>
         /\ task[w].row.status = "PENDING"
         /\ task[w].row.approver = Nobody
         /\ task[w].row \in [status : Statuses, type : Types, span : Spans, by : Users,
                             approver : {Nobody}]
    /\ op[w] \in Decisions =>
         /\ task[w].target \in Requests
         /\ request[task[w].target].status # "NONE"
         /\ task[w].actor \in Users
    /\ op[w] = "approve" =>
         /\ task[w].row.approver = Nobody
         /\ Enforce => task[w].actor # request[task[w].target].by

SInv == Shapes /\ RowsSegregated /\ TasksSegregated

(* Nothing is filed and nobody is at work initially.                       *)
LEMMA InitSInv == Init => SInv
  BY DEF Init, SInv, Shapes, RowsSegregated, TasksSegregated, NoRequest, NoTask, TaskOf,
         Decisions, Statuses

(* A worker that only becomes idle leaves the others' tasks as they were.  *)
LEMMA EndTasks ==
  ASSUME SInv, NEW w \in Workers, End(w), UNCHANGED request
  PROVE  SInv'
<1>1. Shapes'
  BY DEF SInv, Shapes, End
<1>2. RowsSegregated'
  BY DEF SInv, RowsSegregated
<1>3. TasksSegregated'
  BY DEF SInv, Shapes, TasksSegregated, End, Decisions
<1> QED BY <1>1, <1>2, <1>3 DEF SInv

(* Filing: the new row waits for a decision, and no decision under way     *)
(* was about it.                                                           *)
LEMMA CreateCommitSInv ==
  ASSUME SInv, NEW w \in Workers, CreateCommit(w)
  PROVE  SInv'
<1>1. PICK r \in Requests :
        /\ request[r] = NoRequest
        /\ request' = [request EXCEPT ![r] = task[w].row]
  BY DEF CreateCommit
<1>2. op[w] = "create" /\ End(w)
  BY DEF CreateCommit
<1>3. /\ task[w].row.status = "PENDING"
      /\ task[w].row.approver = Nobody
      /\ task[w].row \in [status : Statuses, type : Types, span : Spans, by : Users,
                          approver : {Nobody}]
  BY <1>2 DEF SInv, TasksSegregated
<1>4. Shapes'
  BY <1>1, <1>2, <1>3 DEF SInv, Shapes, End
<1>5. RowsSegregated'
  <2> SUFFICES ASSUME NEW q \in Requests
               PROVE  /\ request'[q].status = "PENDING" => request'[q].approver = Nobody
                      /\ Enforce /\ request'[q].status = "APPROVED" =>
                           request'[q].approver \notin {request'[q].by, Nobody}
    BY DEF RowsSegregated
  <2>1. CASE q = r
    BY <1>1, <1>3, <2>1 DEF SInv, Shapes
  <2>2. CASE q # r
    BY <1>1, <2>2 DEF SInv, Shapes, RowsSegregated
  <2> QED BY <2>1, <2>2
<1>6. TasksSegregated'
  <2>1. \A v \in Workers \ {w} : op'[v] = op[v] /\ task'[v] = task[v]
    BY <1>2 DEF SInv, Shapes, End
  <2>2. op'[w] = "idle"
    BY <1>2 DEF SInv, Shapes, End
  <2>3. \A v \in Workers : op[v] \in Decisions => task[v].target # r
    BY <1>1 DEF SInv, TasksSegregated, NoRequest
  <2>4. \A q \in Requests \ {r} : request'[q] = request[q]
    BY <1>1 DEF SInv, Shapes
  <2> QED BY <2>1, <2>2, <2>3, <2>4 DEF SInv, TasksSegregated, Decisions
<1> QED BY <1>4, <1>5, <1>6 DEF SInv

(* A decision reads a row that exists; an approval passes the rule.        *)
LEMMA DecideLoadSInv ==
  ASSUME SInv, NEW w \in Workers, DecideLoad(w)
  PROVE  SInv'
<1>1. PICK kind \in Decisions, r \in Requests, u \in Users :
        /\ request[r].status \in Allowed(kind)
        /\ kind = "approve" => Segregated(request[r], u)
        /\ Start(w, kind, TaskOf(r, u, request[r]))
  BY DEF DecideLoad
<1>2. UNCHANGED request
  BY DEF DecideLoad
<1>3. Shapes' /\ RowsSegregated'
  BY <1>1, <1>2 DEF SInv, Shapes, RowsSegregated, Start
<1>4. /\ op'[w] = kind /\ task'[w].target = r /\ task'[w].actor = u
      /\ task'[w].row = request[r]
  BY <1>1 DEF SInv, Shapes, Start, TaskOf
<1>5. \A v \in Workers \ {w} : op'[v] = op[v] /\ task'[v] = task[v]
  BY <1>1 DEF SInv, Shapes, Start
<1>6. kind # "create" /\ request[r].status # "NONE"
  BY <1>1 DEF Allowed, Active, Decisions
<1>7. kind = "approve" => /\ request[r].approver = Nobody
                          /\ Enforce => u # request[r].by
  BY <1>1 DEF Allowed, Segregated, SInv, RowsSegregated
<1>8. TasksSegregated'
  BY <1>1, <1>2, <1>4, <1>5, <1>6, <1>7 DEF SInv, TasksSegregated
<1> QED BY <1>3, <1>8 DEF SInv

(* The commit of an approval writes status and approver together; every    *)
(* other decision leaves the row unapproved.                               *)
LEMMA DecideCommitSInv ==
  ASSUME SInv, NEW w \in Workers, DecideCommit(w)
  PROVE  SInv'
<1> DEFINE r == task[w].target
           to == Outcome(op[w])
           by == Column(request[r].approver, task[w].row.approver, task[w].actor)
<1>1. /\ op[w] \in Decisions
      /\ r \in Requests
      /\ request[r].status # "NONE"
      /\ task[w].actor \in Users
  BY DEF DecideCommit, SInv, TasksSegregated
<1>2. request' = [request EXCEPT ![r] = Decided(request[r], op[w], by)] /\ End(w)
  BY DEF DecideCommit
<1>3. to \in {"APPROVED", "REJECTED", "CANCELLED"} /\ (to = "APPROVED" => op[w] = "approve")
  BY <1>1 DEF Outcome, Decisions
<1>4. by \in Users \cup {Nobody}
  BY <1>1 DEF Column, SInv, Shapes
<1>5. Enforce /\ to = "APPROVED" => by \notin {request[r].by, Nobody}
  BY <1>1, <1>3, InputsAssumption DEF Column, SInv, TasksSegregated
<1>n. Decided(request[r], op[w], by) =
        [status |-> to, type |-> request[r].type, span |-> request[r].span,
         by |-> request[r].by, approver |-> by]
  BY DEF Decided
<1> HIDE DEF r, to, by
<1>6. Shapes'
  BY <1>1, <1>2, <1>n, <1>3, <1>4 DEF SInv, Shapes, End, Statuses
<1>7. /\ \A q \in Requests \ {r} : request'[q] = request[q]
      /\ request'[r].status = to
      /\ request'[r].approver = by
      /\ request'[r].by = request[r].by
  BY <1>1, <1>2, <1>n DEF SInv, Shapes
<1>8. RowsSegregated'
  BY <1>1, <1>3, <1>5, <1>7 DEF SInv, RowsSegregated
<1>9. TasksSegregated'
  <2>1. \A v \in Workers \ {w} : op'[v] = op[v] /\ task'[v] = task[v]
    BY <1>2 DEF SInv, Shapes, End
  <2>2. op'[w] = "idle"
    BY <1>2 DEF SInv, Shapes, End
  <2>3. \A q \in Requests : /\ request[q].status # "NONE" => request'[q].status # "NONE"
                            /\ request'[q].by = request[q].by
    BY <1>3, <1>7
  <2> QED BY <2>1, <2>2, <2>3 DEF SInv, TasksSegregated, Decisions
<1> QED BY <1>6, <1>8, <1>9 DEF SInv

(* Starting a request that writes no row yet.                              *)
LEMMA StartSInv ==
  ASSUME SInv, NEW w \in Workers, NEW kind, NEW k, Start(w, kind, k), UNCHANGED request,
         kind \notin Decisions,
         kind = "create" =>
           k.row \in [status : {"PENDING"}, type : Types, span : Spans, by : Users,
                      approver : {Nobody}]
  PROVE  SInv'
<1>1. Shapes' /\ RowsSegregated'
  BY DEF SInv, Shapes, RowsSegregated, Start
<1>2. op'[w] = kind /\ task'[w] = k
  BY DEF SInv, Shapes, Start
<1>3. \A v \in Workers \ {w} : op'[v] = op[v] /\ task'[v] = task[v]
  BY DEF SInv, Shapes, Start
<1>4. kind = "create" =>
        /\ k.row.status = "PENDING"
        /\ k.row.approver = Nobody
        /\ k.row \in [status : Statuses, type : Types, span : Spans, by : Users,
                      approver : {Nobody}]
  BY DEF Statuses
<1>5. TasksSegregated'
  BY <1>2, <1>3, <1>4 DEF SInv, TasksSegregated, Decisions
<1> QED BY <1>1, <1>5 DEF SInv

LEMMA CreateLoadSInv ==
  ASSUME SInv, NEW w \in Workers, CreateLoad(w)
  PROVE  SInv'
<1>1. PICK t \in Types, s \in Spans, u \in Users :
        Start(w, "create",
          TaskOf(Nobody, Nobody, [status |-> "PENDING", type |-> t, span |-> s,
                                  by |-> u, approver |-> Nobody]))
  BY DEF CreateLoad
<1> DEFINE k == TaskOf(Nobody, Nobody, [status |-> "PENDING", type |-> t, span |-> s,
                                        by |-> u, approver |-> Nobody])
<1>2. k.row \in [status : {"PENDING"}, type : Types, span : Spans, by : Users,
                 approver : {Nobody}]
  BY DEF TaskOf
<1>3. UNCHANGED request
  BY DEF CreateLoad
<1>4. Start(w, "create", k)
  BY <1>1
<1> HIDE DEF k
<1> QED BY <1>2, <1>3, <1>4, StartSInv DEF Decisions

(* Reading the balance changes neither the target, nor the actor, nor the  *)
(* row a decision has read.                                                *)
LEMMA DecideReadSInv ==
  ASSUME SInv, NEW w \in Workers, DecideRead(w)
  PROVE  SInv'
<1>1. PICK seen, new : task' = [task EXCEPT ![w] = Holding(task[w], seen, new)]
  BY Zenon DEF DecideRead
<1>2. UNCHANGED <<request, op>>
  BY DEF DecideRead
<1>3. Shapes' /\ RowsSegregated'
  BY <1>1, <1>2 DEF SInv, Shapes, RowsSegregated
<1>4. \A v \in Workers : /\ task'[v].target = task[v].target
                        /\ task'[v].actor = task[v].actor
                        /\ task'[v].row = task[v].row
  BY <1>1 DEF SInv, Shapes, Holding
<1>5. TasksSegregated'
  BY <1>2, <1>4 DEF SInv, TasksSegregated
<1> QED BY <1>3, <1>5 DEF SInv

(* Every step preserves the invariant.                                     *)
LEMMA NextSInv == SInv /\ [Next]_vars => SInv'
<1> SUFFICES ASSUME SInv, [Next]_vars
             PROVE  SInv'
  OBVIOUS
<1>1. CASE UNCHANGED vars
  BY <1>1 DEF vars, SInv, Shapes, RowsSegregated, TasksSegregated
<1>2. ASSUME NEW w \in Workers, CreateLoad(w) PROVE SInv'
  BY <1>2, CreateLoadSInv
<1>3. ASSUME NEW w \in Workers, CreateCommit(w) PROVE SInv'
  BY <1>3, CreateCommitSInv
<1>4. ASSUME NEW w \in Workers, DecideLoad(w) PROVE SInv'
  BY <1>4, DecideLoadSInv
<1>5. ASSUME NEW w \in Workers, DecideRead(w) PROVE SInv'
  BY <1>5, DecideReadSInv
<1>6. ASSUME NEW w \in Workers, DecideCommit(w) PROVE SInv'
  BY <1>6, DecideCommitSInv
<1>7. ASSUME NEW w \in Workers, Refuse(w) \/ ListCommit(w) \/ SeedCommit(w)
                               \/ FailInsert(w) \/ Abandon(w)
      PROVE  SInv'
  BY <1>7, EndTasks DEF Refuse, ListCommit, SeedCommit, FailInsert, Abandon
<1>8. ASSUME NEW w \in Workers, ListLoad(w) \/ SeedLoad(w) PROVE SInv'
  <2>1. \E kind \in {"list", "seed"} : \E k : Start(w, kind, k)
    BY <1>8, Zenon DEF ListLoad, SeedLoad
  <2>2. UNCHANGED request
    BY <1>8 DEF ListLoad, SeedLoad
  <2> QED BY <2>1, <2>2, StartSInv DEF Decisions
<1>9. ASSUME (\E t \in Types : UpdateType(t)) \/ NextMonth PROVE SInv'
  <2>1. UNCHANGED <<request, op, task>>
    BY <1>9 DEF UpdateType, NextMonth
  <2> QED BY <2>1 DEF SInv, Shapes, RowsSegregated, TasksSegregated
<1> QED BY <1>1, <1>2, <1>3, <1>4, <1>5, <1>6, <1>7, <1>8, <1>9 DEF Next

(* With the maker-checker rule on, no interleaving of decisions leaves a   *)
(* request approved by the user who filed it (approve_request).            *)
THEOREM SegregationOfDuties == Spec => []ApprovedByAnother
<1>1. SInv => ApprovedByAnother
  BY DEF SInv, RowsSegregated, ApprovedByAnother
<1> QED BY InitSInv, NextSInv, <1>1, PTL DEF Spec

-------------------------------------------------------------------------------
(* Bounded accrual                                                         *)

\* A balance row; one that was never inserted has accrued nothing.
BalanceRow(b) ==
  /\ b = [open |-> b.open, entitled |-> b.entitled, accrued |-> b.accrued, used |-> b.used]
  /\ b.open \in BOOLEAN
  /\ b.accrued \in Int
  /\ ~b.open => b.accrued = 0

AShapes ==
  /\ DOMAIN op = Workers
  /\ DOMAIN task = Workers
  /\ DOMAIN request = Requests
  /\ types \in [Types -> Rules \cup {NoType}]
  /\ ceiling \in [Types -> Nat]
  /\ month \in 1 .. 12
  /\ DOMAIN balance = Types
  /\ \A t \in Types : BalanceRow(balance[t])
  /\ \A w \in Workers : \A t \in Types :
       BalanceRow(task[w].seen[t]) /\ BalanceRow(task[w].new[t])

QuotasBounded == \A t \in Types : types[t] # NoType => types[t].quota <= ceiling[t]

BalancesBounded ==
  \A t \in Types :
    /\ balance[t].accrued <= ceiling[t]
    /\ balance[t].open => types[t] # NoType

\* What a decision or a listing will store is bounded already.
StoresBounded ==
  \A w \in Workers : \A t \in Types :
    /\ task[w].new[t].accrued <= ceiling[t]
    /\ task[w].new[t].open => types[t] # NoType

\* Requests, filed or about to be, are of types the company has.
TypesExist ==
  /\ \A r \in Requests :
       request[r].status # "NONE" =>
         request[r].type \in Types /\ types[request[r].type] # NoType
  /\ \A w \in Workers :
       op[w] \in Decisions \cup {"create"} =>
         task[w].row.type \in Types /\ types[task[w].row.type] # NoType

AInv == AShapes /\ QuotasBounded /\ BalancesBounded /\ StoresBounded /\ TypesExist

(* A type's pro-rated amount never exceeds its quota (_accrued_for).       *)
LEMMA AccruedForBounded ==
  ASSUME NEW rule \in Rules, NEW m \in 1 .. 12
  PROVE  AccruedFor(rule, m) \in Int /\ AccruedFor(rule, m) <= rule.quota
<1>1. rule.quota \in Nat
  BY InputsAssumption DEF Rule
<1>2. RoundHalfEven(rule.quota, 12) \in Int
  BY <1>1 DEF RoundHalfEven
<1>3. RoundHalfEven(rule.quota, 12) * m \in Int
  BY <1>2
<1> QED BY <1>1, <1>3 DEF AccruedFor, Lower

(* ensure_balance keeps a row within what bounds it and its type's quota.  *)
LEMMA EnsuredBounded ==
  ASSUME AShapes, NEW b, BalanceRow(b), NEW rule \in Rules, NEW c \in Nat,
         rule.quota <= c, b.accrued <= c
  PROVE  /\ BalanceRow(Ensured(b, rule))
         /\ Ensured(b, rule).accrued <= c
<1>1. month \in 1 .. 12
  BY DEF AShapes
<1>2. /\ AccruedFor(rule, month) \in Int
      /\ AccruedFor(rule, month) <= rule.quota
  BY <1>1, AccruedForBounded
<1>3. rule.quota \in Nat
  BY InputsAssumption DEF Rule
<1> DEFINE a == AccruedFor(rule, month)
<1>4. a \in Int /\ a <= c
  BY <1>2, <1>3
<1> HIDE DEF a
<1>5. CASE ~b.open
  <2>1. Ensured(b, rule) = [open |-> TRUE, entitled |-> rule.quota, accrued |-> a,
                            used |-> 0]
    BY <1>5, Zenon DEF Ensured, a
  <2> QED BY <1>4, <2>1 DEF BalanceRow
<1>6. CASE b.open
  <2>1. Ensured(b, rule) = [open |-> TRUE, entitled |-> rule.quota,
                            accrued |-> Higher(b.accrued, a), used |-> b.used]
    BY <1>6, Zenon DEF Ensured, a
  <2>2. Higher(b.accrued, a) \in Int /\ Higher(b.accrued, a) <= c
    BY <1>4 DEF Higher, BalanceRow
  <2> QED BY <2>1, <2>2 DEF BalanceRow
<1> QED BY <1>5, <1>6

(* Storing columns over a bounded row leaves a bounded row.                *)
LEMMA StoredBounded ==
  ASSUME NEW stored, NEW seen, NEW new, NEW c \in Nat,
         BalanceRow(stored), BalanceRow(seen), BalanceRow(new),
         stored.accrued <= c, new.accrued <= c
  PROVE  /\ BalanceRow(Stored(stored, seen, new))
         /\ Stored(stored, seen, new).accrued <= c
         /\ Stored(stored, seen, new).open => stored.open \/ new.open
  BY DEF Stored, Column, BalanceRow

LEMMA NoBalanceRow == BalanceRow(NoBalance) /\ NoBalance.accrued = 0 /\ ~NoBalance.open
  BY DEF BalanceRow, NoBalance

LEMMA InitAInv == Init => AInv
<1> SUFFICES ASSUME Init PROVE AInv
  OBVIOUS
<1>1. AShapes
  <2>1. /\ DOMAIN op = Workers /\ DOMAIN task = Workers /\ DOMAIN request = Requests
        /\ types \in [Types -> Rules \cup {NoType}] /\ month \in 1 .. 12
        /\ DOMAIN balance = Types
    BY DEF Init, NoBalances
  <2>2. ceiling \in [Types -> Nat]
    BY InputsAssumption DEF Init, Rule
  <2>3. \A t \in Types : BalanceRow(balance[t])
    BY NoBalanceRow DEF Init, NoBalances
  <2>4. \A w \in Workers, t \in Types :
          task[w].seen[t] = NoBalance /\ task[w].new[t] = NoBalance
    BY DEF Init, NoTask, TaskOf, NoBalances
  <2> QED BY <2>1, <2>2, <2>3, <2>4, NoBalanceRow DEF AShapes
<1>2. QuotasBounded
  BY InputsAssumption DEF Init, QuotasBounded, Rule
<1>3. BalancesBounded
  BY <1>1, NoBalanceRow DEF Init, BalancesBounded, NoBalances, AShapes
<1>4. StoresBounded
  BY <1>1, NoBalanceRow DEF Init, StoresBounded, NoTask, TaskOf, NoBalances, AShapes
<1>5. TypesExist
  BY DEF Init, TypesExist, NoRequest, NoTask, TaskOf, Decisions
<1> QED BY <1>1, <1>2, <1>3, <1>4, <1>5 DEF AInv

\* The tasks of a step that leaves types, balances and ceilings alone.
TasksKept(w) ==
  /\ DOMAIN op' = Workers /\ DOMAIN task' = Workers
  /\ \A v \in Workers \ {w} : op'[v] = op[v] /\ task'[v] = task[v]

(* A step of worker w that only changes its own task preserves the         *)
(* invariant if the new task is bounded and of an existing type.           *)
LEMMA TaskStep ==
  ASSUME AInv, NEW w \in Workers, TasksKept(w),
         UNCHANGED <<types, month, balance, request, ceiling>>,
         \A t \in Types : /\ BalanceRow(task'[w].seen[t])
                          /\ BalanceRow(task'[w].new[t])
                          /\ task'[w].new[t].accrued <= ceiling[t]
                          /\ task'[w].new[t].open => types[t] # NoType,
         op'[w] \in Decisions \cup {"create"} =>
           task'[w].row.type \in Types /\ types[task'[w].row.type] # NoType
  PROVE  AInv'
<1>1. AShapes'
  BY DEF AInv, AShapes, TasksKept
<1>2. QuotasBounded' /\ BalancesBounded'
  BY DEF AInv, QuotasBounded, BalancesBounded
<1>3. StoresBounded'
  BY DEF AInv, StoresBounded, TasksKept
<1>4. TypesExist'
  BY DEF AInv, TypesExist, TasksKept
<1> QED BY <1>1, <1>2, <1>3, <1>4 DEF AInv

(* A worker that becomes idle holds nothing.                               *)
LEMMA EndHoldsNothing ==
  ASSUME AInv, NEW w \in Workers, End(w)
  PROVE  /\ TasksKept(w)
         /\ op'[w] = "idle"
         /\ \A t \in Types : task'[w].seen[t] = NoBalance /\ task'[w].new[t] = NoBalance
  BY DEF AInv, AShapes, End, TasksKept, NoTask, TaskOf, NoBalances

LEMMA EndAInv ==
  ASSUME AInv, NEW w \in Workers, End(w),
         UNCHANGED <<types, month, balance, request, ceiling>>
  PROVE  AInv'
<1>1. /\ TasksKept(w)
      /\ op'[w] = "idle"
      /\ \A t \in Types : task'[w].seen[t] = NoBalance /\ task'[w].new[t] = NoBalance
  BY EndHoldsNothing
<1>2. \A t \in Types : ceiling[t] \in Nat
  BY DEF AInv, AShapes
<1>3. \A t \in Types : /\ BalanceRow(task'[w].seen[t])
                       /\ BalanceRow(task'[w].new[t])
                       /\ task'[w].new[t].accrued <= ceiling[t]
                       /\ task'[w].new[t].open => types[t] # NoType
  BY <1>1, <1>2, NoBalanceRow
<1>4. op'[w] \notin Decisions \cup {"create"}
  BY <1>1 DEF Decisions
<1> QED BY <1>1, <1>3, <1>4, TaskStep

(* Starting a request that holds no balance yet.                           *)
LEMMA StartAInv ==
  ASSUME AInv, NEW w \in Workers, NEW kind, NEW k, Start(w, kind, k),
         UNCHANGED <<types, month, balance, request, ceiling>>,
         k.seen = NoBalances, k.new = NoBalances,
         kind \in Decisions \cup {"create"} =>
           k.row.type \in Types /\ types[k.row.type] # NoType
  PROVE  AInv'
<1>1. TasksKept(w) /\ op'[w] = kind /\ task'[w] = k
  BY DEF AInv, AShapes, Start, TasksKept
<1>2. \A t \in Types : /\ ceiling[t] \in Nat
                       /\ k.seen[t] = NoBalance
                       /\ k.new[t] = NoBalance
  BY DEF AInv, AShapes, NoBalances
<1>3. \A t \in Types : /\ BalanceRow(task'[w].seen[t])
                       /\ BalanceRow(task'[w].new[t])
                       /\ task'[w].new[t].accrued <= ceiling[t]
                       /\ task'[w].new[t].open => types[t] # NoType
  BY <1>1, <1>2, NoBalanceRow
<1> QED BY <1>1, <1>3, TaskStep

LEMMA LoadAInv ==
  ASSUME AInv, NEW w \in Workers, CreateLoad(w) \/ DecideLoad(w) \/ SeedLoad(w)
  PROVE  AInv'
<1>1. UNCHANGED <<types, month, balance, request, ceiling>>
  BY DEF CreateLoad, DecideLoad, SeedLoad
<1>2. CASE CreateLoad(w)
  <2>1. PICK t \in Types, s \in Spans, u \in Users :
          /\ types[t] # NoType
          /\ Start(w, "create",
               TaskOf(Nobody, Nobody, [status |-> "PENDING", type |-> t, span |-> s,
                                       by |-> u, approver |-> Nobody]))
    BY <1>2 DEF CreateLoad
  <2> DEFINE k == TaskOf(Nobody, Nobody, [status |-> "PENDING", type |-> t,
                                          span |-> s, by |-> u, approver |-> Nobody])
  <2>2. k.seen = NoBalances /\ k.new = NoBalances /\ k.row.type = t
    BY DEF TaskOf
  <2>3. Start(w, "create", k)
    BY <2>1
  <2> HIDE DEF k
  <2> QED BY <1>1, <2>1, <2>2, <2>3, StartAInv
<1>3. CASE DecideLoad(w)
  <2>1. PICK kind \in Decisions, r \in Requests, u \in Users :
          /\ request[r].status \in Allowed(kind)
          /\ Start(w, kind, TaskOf(r, u, request[r]))
    BY <1>3 DEF DecideLoad
  <2>2. request[r].type \in Types /\ types[request[r].type] # NoType
    BY <2>1 DEF Allowed, Active, AInv, TypesExist
  <2> DEFINE k == TaskOf(r, u, request[r])
  <2>3. k.seen = NoBalances /\ k.new = NoBalances /\ k.row = request[r]
    BY DEF TaskOf
  <2>4. Start(w, kind, k)
    BY <2>1
  <2> HIDE DEF k
  <2> QED BY <1>1, <2>2, <2>3, <2>4, StartAInv
<1>4. CASE SeedLoad(w)
  <2>1. PICK missing :
          Start(w, "seed",
            [target |-> Nobody, actor |-> Nobody, row |-> NoRequest, ready |-> FALSE,
             seen |-> NoBalances, new |-> NoBalances, codes |-> missing])
    BY <1>4 DEF SeedLoad
  <2> DEFINE k == [target |-> Nobody, actor |-> Nobody, row |-> NoRequest,
                   ready |-> FALSE, seen |-> NoBalances, new |-> NoBalances,
                   codes |-> missing]
  <2>2. k.seen = NoBalances /\ k.new = NoBalances
    OBVIOUS
  <2>3. Start(w, "seed", k)
    BY <2>1
  <2> HIDE DEF k
  <2> QED BY <1>1, <2>2, <2>3, StartAInv DEF Decisions
<1> QED BY <1>2, <1>3, <1>4

(* A decision or a listing that refreshes balances holds bounded ones.     *)
LEMMA DecideReadAInv ==
  ASSUME AInv, NEW w \in Workers, DecideRead(w)
  PROVE  AInv'
<1> DEFINE t == task[w].row.type
           b == Ensured(balance[t], types[t])
           touched == Debits(w) \/ Credits(w)
           seen == [NoBalances EXCEPT ![t] = IF touched THEN balance[t] ELSE NoBalance]
           new == [NoBalances EXCEPT ![t] = IF touched THEN BalanceAfter(w, b)
                                            ELSE NoBalance]
<1>1. /\ task' = [task EXCEPT ![w] = Holding(task[w], seen, new)]
      /\ UNCHANGED <<types, month, balance, request, op, ceiling>>
      /\ op[w] \in Decisions
  BY Zenon DEF DecideRead
<1>2. t \in Types /\ types[t] # NoType
  BY <1>1 DEF AInv, TypesExist
<1>3. types[t] \in Rules /\ types[t].quota <= ceiling[t] /\ ceiling[t] \in Nat
  BY <1>2 DEF AInv, AShapes, QuotasBounded
<1>4. BalanceRow(balance[t]) /\ balance[t].accrued <= ceiling[t]
  BY <1>2 DEF AInv, AShapes, BalancesBounded
<1>5. BalanceRow(b) /\ b.accrued <= ceiling[t]
  BY <1>3, <1>4, EnsuredBounded DEF AInv
<1> HIDE DEF b
<1>6. BalanceRow(BalanceAfter(w, b)) /\ BalanceAfter(w, b).accrued <= ceiling[t]
  BY <1>5 DEF BalanceAfter, BalanceRow
<1> DEFINE after == BalanceAfter(w, b)
<1> HIDE DEF after
<1>7. /\ TasksKept(w)
      /\ op'[w] = op[w]
      /\ task'[w].seen = seen /\ task'[w].new = new /\ task'[w].row = task[w].row
  BY <1>1 DEF AInv, AShapes, TasksKept, Holding
<1>8. \A q \in Types : /\ seen[q] \in {balance[q], NoBalance}
                       /\ new[q] = NoBalance \/ (q = t /\ new[q] = after)
  BY <1>2 DEF NoBalances, after
<1> HIDE DEF seen, new
<1>9. \A q \in Types : /\ BalanceRow(task'[w].seen[q])
                       /\ BalanceRow(task'[w].new[q])
                       /\ task'[w].new[q].accrued <= ceiling[q]
                       /\ task'[w].new[q].open => types[q] # NoType
  <2> SUFFICES ASSUME NEW q \in Types
               PROVE  /\ BalanceRow(seen[q]) /\ BalanceRow(new[q])
                      /\ new[q].accrued <= ceiling[q]
                      /\ new[q].open => types[q] # NoType
    BY <1>7
  <2>1. BalanceRow(balance[q]) /\ ceiling[q] \in Nat
    BY DEF AInv, AShapes
  <2>2. BalanceRow(seen[q])
    BY <1>8, <2>1, NoBalanceRow
  <2>3. CASE new[q] = NoBalance
    BY <2>1, <2>2, <2>3, NoBalanceRow
  <2>4. CASE q = t /\ new[q] = after
    BY <1>2, <1>6, <2>2, <2>4 DEF after
  <2> QED BY <1>8, <2>3, <2>4
<1>10. op'[w] \in Decisions \cup {"create"} =>
         task'[w].row.type \in Types /\ types[task'[w].row.type] # NoType
  BY <1>2, <1>7
<1> QED BY <1>1, <1>7, <1>9, <1>10, TaskStep

LEMMA ListLoadAInv ==
  ASSUME AInv, NEW w \in Workers, ListLoad(w)
  PROVE  AInv'
<1> DEFINE listed == {t \in Types : types[t] # NoType /\ types[t].active /\ types[t].paid}
           seen == [t \in Types |-> IF t \in listed THEN balance[t] ELSE NoBalance]
           new == [t \in Types |-> IF t \in listed THEN Ensured(balance[t], types[t])
                                   ELSE NoBalance]
<1>1. /\ Start(w, "list", Holding(NoTask, seen, new))
      /\ UNCHANGED <<types, month, balance, request, ceiling>>
  BY Zenon DEF ListLoad
<1>2. \A q \in Types : /\ BalanceRow(seen[q]) /\ BalanceRow(new[q])
                       /\ new[q].accrued <= ceiling[q]
                       /\ new[q].open => types[q] # NoType
  <2> SUFFICES ASSUME NEW q \in Types
               PROVE  /\ BalanceRow(seen[q]) /\ BalanceRow(new[q])
                      /\ new[q].accrued <= ceiling[q]
                      /\ new[q].open => types[q] # NoType
    OBVIOUS
  <2>1. /\ BalanceRow(balance[q]) /\ ceiling[q] \in Nat
        /\ balance[q].accrued <= ceiling[q]
    BY DEF AInv, AShapes, BalancesBounded
  <2>2. CASE q \in listed
    <3>1. types[q] # NoType /\ types[q] \in Rules /\ types[q].quota <= ceiling[q]
      BY <2>2 DEF AInv, AShapes, QuotasBounded
    <3>2. /\ BalanceRow(Ensured(balance[q], types[q]))
          /\ Ensured(balance[q], types[q]).accrued <= ceiling[q]
      BY <2>1, <3>1, EnsuredBounded DEF AInv
    <3>3. seen[q] = balance[q] /\ new[q] = Ensured(balance[q], types[q])
      BY <2>2
    <3> QED BY <2>1, <3>1, <3>2, <3>3
  <2>3. CASE q \notin listed
    BY <2>1, <2>3, NoBalanceRow
  <2> QED BY <2>2, <2>3
<1> HIDE DEF seen, new
<1>3. /\ TasksKept(w) /\ op'[w] = "list"
      /\ task'[w].seen = seen /\ task'[w].new = new
  BY <1>1 DEF AInv, AShapes, Start, Holding, TasksKept
<1>4. op'[w] \notin Decisions \cup {"create"}
  BY <1>3 DEF Decisions
<1> QED BY <1>1, <1>2, <1>3, <1>4, TaskStep

(* Filing a request of an existing type.                                   *)
LEMMA CreateCommitAInv ==
  ASSUME AInv, NEW w \in Workers, CreateCommit(w)
  PROVE  AInv'
<1>1. PICK r \in Requests : request' = [request EXCEPT ![r] = task[w].row]
  BY DEF CreateCommit
<1>2. op[w] = "create" /\ End(w) /\ UNCHANGED <<types, month, balance, ceiling>>
  BY DEF CreateCommit
<1>3. task[w].row.type \in Types /\ types[task[w].row.type] # NoType
  BY <1>2 DEF AInv, TypesExist
<1>4. /\ TasksKept(w) /\ op'[w] = "idle"
      /\ \A t \in Types : task'[w].seen[t] = NoBalance /\ task'[w].new[t] = NoBalance
  BY <1>2, EndHoldsNothing
<1>5. AShapes'
  BY <1>1, <1>2, <1>4, NoBalanceRow DEF AInv, AShapes, TasksKept
<1>6. QuotasBounded' /\ BalancesBounded'
  BY <1>2 DEF AInv, QuotasBounded, BalancesBounded
<1>7. StoresBounded'
  BY <1>2, <1>4, NoBalanceRow DEF AInv, AShapes, StoresBounded, TasksKept
<1>8. TypesExist'
  BY <1>1, <1>2, <1>3, <1>4 DEF AInv, AShapes, TypesExist, TasksKept, Decisions
<1> QED BY <1>5, <1>6, <1>7, <1>8 DEF AInv

(* Committing a decision or a listing stores bounded columns.              *)
LEMMA StoreAInv ==
  ASSUME SInv, AInv, NEW w \in Workers, DecideCommit(w) \/ ListCommit(w)
  PROVE  AInv'
<1>1. /\ balance' = [t \in Types |-> Stored(balance[t], task[w].seen[t], task[w].new[t])]
      /\ End(w)
      /\ UNCHANGED <<types, month, ceiling>>
  BY DEF DecideCommit, ListCommit
<1>2. /\ TasksKept(w) /\ op'[w] = "idle"
      /\ \A t \in Types : task'[w].seen[t] = NoBalance /\ task'[w].new[t] = NoBalance
  BY <1>1, EndHoldsNothing
<1>3. \A t \in Types : /\ BalanceRow(balance'[t])
                       /\ balance'[t].accrued <= ceiling[t]
                       /\ balance'[t].open => types[t] # NoType
  <2> SUFFICES ASSUME NEW t \in Types
               PROVE  /\ BalanceRow(balance'[t])
                      /\ balance'[t].accrued <= ceiling[t]
                      /\ balance'[t].open => types[t] # NoType
    OBVIOUS
  <2>1. /\ BalanceRow(balance[t]) /\ BalanceRow(task[w].seen[t])
        /\ BalanceRow(task[w].new[t]) /\ ceiling[t] \in Nat
    BY DEF AInv, AShapes
  <2>2. /\ balance[t].accrued <= ceiling[t] /\ task[w].new[t].accrued <= ceiling[t]
        /\ balance[t].open \/ task[w].new[t].open => types[t] # NoType
    BY DEF AInv, BalancesBounded, StoresBounded
  <2>3. balance'[t] = Stored(balance[t], task[w].seen[t], task[w].new[t])
    BY <1>1
  <2> QED BY <2>1, <2>2, <2>3, StoredBounded
<1>4. /\ DOMAIN request' = Requests
      /\ \A r \in Requests :
           request'[r].status # "NONE" =>
             request'[r].type \in Types /\ types[request'[r].type] # NoType
  <2>1. CASE ListCommit(w)
    BY <2>1 DEF ListCommit, AInv, AShapes, TypesExist
  <2>2. CASE DecideCommit(w)
    <3> DEFINE q == task[w].target
               by == Column(request[q].approver, task[w].row.approver, task[w].actor)
               row == Decided(request[q], op[w], by)
    <3>1. request' = [request EXCEPT ![q] = row]
      BY <2>2 DEF DecideCommit
    <3>2. row.type = request[q].type
      BY DEF Decided
    <3> HIDE DEF row
    <3>3. op[w] \in Decisions
      BY <2>2 DEF DecideCommit
    <3>4. q \in Requests /\ request[q].status # "NONE"
      BY <3>3 DEF SInv, TasksSegregated
    <3> QED BY <3>1, <3>2, <3>4 DEF AInv, AShapes, TypesExist
  <2> QED BY <2>1, <2>2
<1>5. AShapes'
  BY <1>1, <1>2, <1>3, <1>4, NoBalanceRow DEF AInv, AShapes, TasksKept
<1>6. QuotasBounded'
  BY <1>1 DEF AInv, QuotasBounded
<1>7. BalancesBounded'
  BY <1>1, <1>3 DEF BalancesBounded
<1>8. StoresBounded'
  BY <1>1, <1>2, NoBalanceRow DEF AInv, AShapes, StoresBounded, TasksKept
<1>9. TypesExist'
  BY <1>1, <1>2, <1>4 DEF AInv, TypesExist, TasksKept, Decisions
<1> QED BY <1>5, <1>6, <1>7, <1>8, <1>9 DEF AInv

(* A change of the types only adds types and only raises ceilings.         *)
LEMMA TypesStep ==
  ASSUME AInv,
         types' \in [Types -> Rules \cup {NoType}],
         ceiling' \in [Types -> Nat],
         \A t \in Types :
           /\ types[t] # NoType => types'[t] # NoType /\ ceiling'[t] >= ceiling[t]
           /\ types[t] = NoType /\ types'[t] = NoType => ceiling'[t] = ceiling[t]
           /\ types'[t] # NoType => types'[t].quota <= ceiling'[t],
         month' \in 1 .. 12,
         UNCHANGED <<balance, request, op, task>>
  PROVE  AInv'
<1>1. AShapes'
  BY DEF AInv, AShapes
<1>2. QuotasBounded'
  BY DEF QuotasBounded
<1>3. BalancesBounded'
  BY DEF AInv, AShapes, BalancesBounded, BalanceRow
<1>4. StoresBounded'
  <2> SUFFICES ASSUME NEW w \in Workers, NEW t \in Types
               PROVE  /\ task[w].new[t].accrued <= ceiling'[t]
                      /\ task[w].new[t].open => types'[t] # NoType
    BY DEF StoresBounded
  <2>1. /\ task[w].new[t].accrued <= ceiling[t]
        /\ task[w].new[t].open => types[t] # NoType
    BY DEF AInv, StoresBounded
  <2>2. /\ task[w].new[t].accrued \in Int
        /\ ~task[w].new[t].open => task[w].new[t].accrued = 0
        /\ ceiling[t] \in Nat /\ ceiling'[t] \in Nat
    BY DEF AInv, AShapes, BalanceRow
  <2> QED BY <2>1, <2>2
<1>5. TypesExist'
  BY DEF AInv, TypesExist
<1> QED BY <1>1, <1>2, <1>3, <1>4, <1>5 DEF AInv

LEMMA SeedCommitAInv ==
  ASSUME AInv, NEW w \in Workers, SeedCommit(w)
  PROVE  AInv'
<1>1. PICK rule \in Rules :
        /\ types' = [t \in Types |-> IF t \in task[w].codes THEN rule ELSE types[t]]
        /\ ceiling' = [t \in Types |-> IF t \in task[w].codes THEN rule.quota
                                       ELSE ceiling[t]]
  BY DEF SeedCommit
<1>2. /\ End(w) /\ UNCHANGED <<month, balance, request>>
      /\ \A t \in task[w].codes : types[t] = NoType
  BY DEF SeedCommit, Conflict
<1>3. rule.quota \in Nat /\ rule # NoType
  BY InputsAssumption DEF Rule
<1>4. /\ TasksKept(w) /\ op'[w] = "idle"
      /\ \A t \in Types : task'[w].seen[t] = NoBalance /\ task'[w].new[t] = NoBalance
  BY <1>2, EndHoldsNothing
<1>5. \A t \in Types :
        /\ types[t] # NoType => types'[t] = types[t] /\ ceiling'[t] = ceiling[t]
        /\ types'[t] \in Rules \cup {NoType} /\ ceiling'[t] \in Nat
        /\ types'[t] # NoType => types'[t].quota <= ceiling'[t]
        /\ ceiling'[t] = ceiling[t] \/ types[t] = NoType
  BY <1>1, <1>2, <1>3 DEF AInv, AShapes, QuotasBounded
<1>6. \A t \in Types : BalanceRow(balance[t]) /\ ceiling[t] \in Nat
  BY DEF AInv, AShapes
<1>7. /\ types' \in [Types -> Rules \cup {NoType}]
      /\ ceiling' \in [Types -> Nat]
  BY <1>1, <1>5
<1>8. AShapes'
  BY <1>2, <1>4, <1>7, NoBalanceRow DEF AInv, AShapes, TasksKept
<1>9. QuotasBounded'
  BY <1>5 DEF QuotasBounded
<1>10. BalancesBounded'
  <2> SUFFICES ASSUME NEW t \in Types
               PROVE  balance[t].accrued <= ceiling'[t] /\ (balance[t].open => types'[t] # NoType)
    BY <1>2 DEF BalancesBounded
  <2>1. /\ balance[t].accrued <= ceiling[t]
        /\ balance[t].open => types[t] # NoType
    BY DEF AInv, BalancesBounded
  <2>2. ~balance[t].open => balance[t].accrued = 0
    BY <1>6 DEF BalanceRow
  <2> QED BY <1>5, <2>1, <2>2
<1>11. StoresBounded'
  <2> SUFFICES ASSUME NEW v \in Workers, NEW t \in Types
               PROVE  /\ task'[v].new[t].accrued <= ceiling'[t]
                      /\ task'[v].new[t].open => types'[t] # NoType
    BY DEF StoresBounded
  <2>1. CASE v = w
    BY <1>4, <1>5, <2>1, NoBalanceRow
  <2>2. CASE v # w
    <3>1. task'[v] = task[v]
      BY <1>4, <2>2 DEF TasksKept
    <3>2. /\ task[v].new[t].accrued <= ceiling[t]
          /\ task[v].new[t].open => types[t] # NoType
          /\ ~task[v].new[t].open => task[v].new[t].accrued = 0
      BY DEF AInv, AShapes, StoresBounded, BalanceRow
    <3> QED BY <1>5, <3>1, <3>2
  <2> QED BY <2>1, <2>2
<1>12. TypesExist'
  BY <1>2, <1>4, <1>5 DEF AInv, TypesExist, TasksKept, Decisions
<1> QED BY <1>8, <1>9, <1>10, <1>11, <1>12 DEF AInv

LEMMA NextAInv == SInv /\ AInv /\ [Next]_vars => AInv'
<1> SUFFICES ASSUME SInv, AInv, [Next]_vars
             PROVE  AInv'
  OBVIOUS
<1>1. CASE UNCHANGED vars
  BY <1>1 DEF vars, AInv, AShapes, QuotasBounded, BalancesBounded, StoresBounded, TypesExist
<1>2. ASSUME NEW w \in Workers, CreateLoad(w) \/ DecideLoad(w) \/ SeedLoad(w) PROVE AInv'
  BY <1>2, LoadAInv
<1>3. ASSUME NEW w \in Workers, CreateCommit(w) PROVE AInv'
  BY <1>3, CreateCommitAInv
<1>4. ASSUME NEW w \in Workers, DecideRead(w) PROVE AInv'
  BY <1>4, DecideReadAInv
<1>5. ASSUME NEW w \in Workers, DecideCommit(w) \/ ListCommit(w) PROVE AInv'
  BY <1>5, StoreAInv
<1>6. ASSUME NEW w \in Workers, ListLoad(w) PROVE AInv'
  BY <1>6, ListLoadAInv
<1>7. ASSUME NEW w \in Workers, SeedCommit(w) PROVE AInv'
  BY <1>7, SeedCommitAInv
<1>8. ASSUME NEW w \in Workers, Refuse(w) \/ FailInsert(w) \/ Abandon(w) PROVE AInv'
  BY <1>8, EndAInv DEF Refuse, FailInsert, Abandon
<1>9. ASSUME NEW t \in Types, UpdateType(t) PROVE AInv'
  <2>1. PICK rule \in Rules :
          /\ types' = [types EXCEPT ![t] = rule]
          /\ ceiling' = [ceiling EXCEPT ![t] = Higher(@, rule.quota)]
    BY <1>9 DEF UpdateType
  <2>2. types[t] # NoType /\ UNCHANGED <<month, balance, request, op, task>>
    BY <1>9 DEF UpdateType
  <2>3. rule.quota \in Nat /\ rule # NoType
    BY InputsAssumption DEF Rule
  <2>4. types \in [Types -> Rules \cup {NoType}] /\ ceiling \in [Types -> Nat]
    BY DEF AInv, AShapes
  <2>5. Higher(ceiling[t], rule.quota) \in Nat
        /\ Higher(ceiling[t], rule.quota) >= ceiling[t]
        /\ Higher(ceiling[t], rule.quota) >= rule.quota
    BY <2>3, <2>4 DEF Higher
  <2>6. /\ types' \in [Types -> Rules \cup {NoType}]
        /\ ceiling' \in [Types -> Nat]
        /\ types'[t] = rule /\ ceiling'[t] = Higher(ceiling[t], rule.quota)
        /\ \A q \in Types \ {t} : types'[q] = types[q] /\ ceiling'[q] = ceiling[q]
    BY <2>1, <2>4, <2>5
  <2>7. \A q \in Types :
          /\ types[q] # NoType => types'[q] # NoType /\ ceiling'[q] >= ceiling[q]
          /\ types[q] = NoType /\ types'[q] = NoType => ceiling'[q] = ceiling[q]
          /\ types'[q] # NoType => types'[q].quota <= ceiling'[q]
    BY <2>2, <2>3, <2>4, <2>5, <2>6 DEF AInv, QuotasBounded
  <2>8. month' \in 1 .. 12
    BY <2>2 DEF AInv, AShapes
  <2> QED BY <2>2, <2>6, <2>7, <2>8, TypesStep
<1>10. ASSUME NextMonth PROVE AInv'
  <2>1. UNCHANGED <<types, balance, request, op, task, ceiling>>
    BY <1>10 DEF NextMonth
  <2>2. month' \in 1 .. 12
    BY <1>10 DEF NextMonth, AInv, AShapes
  <2>3. \A q \in Types : ceiling[q] \in Nat
    BY DEF AInv, AShapes
  <2> QED BY <2>1, <2>2, <2>3, TypesStep DEF AInv, AShapes, QuotasBounded
<1> QED
  BY <1>1, <1>2, <1>3, <1>4, <1>5, <1>6, <1>7, <1>8, <1>9, <1>10 DEF Next

(* Whatever the quotas, the rounding of their monthly shares and the order *)
(* in which refreshes and decisions commit, no balance is credited more    *)
(* than the largest quota its type has had (ensure_balance).               *)
THEOREM AccrualBounded == Spec => []AccruedWithinQuota
<1>1. AInv => AccruedWithinQuota
  BY DEF AInv, BalancesBounded, AccruedWithinQuota
<1> QED BY InitSInv, NextSInv, InitAInv, NextAInv, <1>1, PTL DEF Spec
-------------------------------------------------------------------------------
(* Requests that do not overlap                                            *)

\* What is used is covered by what has accrued.
Covered(b) == b.accrued \in Nat /\ b.used \in 0 .. b.accrued

\* A request served alone still finds what it has read: no active request
\* overlaps the one it files, and the one it decides may be decided.
TasksCurrent ==
  \A w \in Workers :
    /\ op[w] = "create" =>
         /\ task[w].row.span \in Spans
         /\ \A q \in Requests : ~Overlaps(task[w].row.span, q)
    /\ op[w] \in Decisions =>
         /\ task[w].row = request[task[w].target]
         /\ task[w].row.status \in Allowed(op[w])

\* The balances it will store replace the ones it read, and only add to what
\* has accrued.
StoresCurrent ==
  \A w \in Workers, t \in Types :
    task[w].new[t].open =>
      /\ task[w].seen[t] = balance[t]
      /\ Covered(task[w].new[t])
      /\ task[w].new[t].accrued >= balance[t].accrued

SpansFiled == \A r \in Requests : request[r].status # "NONE" => request[r].span \in Spans

DInv ==
  /\ TasksCurrent
  /\ StoresCurrent
  /\ SpansFiled
  /\ NoDayTwice
  /\ \A t \in Types : Covered(balance[t])

\* The requests that are charged to type t.
Taken(t) ==
  IF types[t] = NoType \/ ~types[t].paid THEN {}
  ELSE {<<r, Cost(request[r].span)>> : r \in ApprovedOf(t)}

\* What the task of w does to the days used of type t.
Charge(w, t) ==
  LET row == task[w].row
      touched == t = row.type /\ types[t].paid
  IN  IF op[w] = "approve" /\ touched THEN balance[t].used + Cost(row.span)
      ELSE IF op[w] = "cancel" /\ row.status = "APPROVED" /\ touched
      THEN balance[t].used - Cost(row.span)
      ELSE balance[t].used

UsedIsTaken ==
  \A t \in Types : IsFiniteSet(Taken(t)) /\ balance[t].used = Account!Used(Taken(t))

\* A task that will store balances charges what it decides.
ChargesKnown ==
  \A w \in Workers, t \in Types :
    /\ task[w].new[t].open => task[w].new[t].used = Charge(w, t)
    /\ task[w].ready /\ ~task[w].new[t].open => Charge(w, t) = balance[t].used

EInv == UsedIsTaken /\ ChargesKnown

(* A request costs a natural number of days.                               *)
LEMMA CostNat ==
  ASSUME NEW s \in Spans
  PROVE  Cost(s) \in Nat
<1>1. IsFiniteSet(s.days \ Off)
  BY SpansAssumption, FS_Subset
<1>2. Cardinality(s.days \ Off) \in Nat
  BY <1>1, FS_CardinalityType
<1> QED BY <1>2 DEF Cost

LEMMA AccruedForNat ==
  ASSUME NEW rule \in Rules, NEW m \in 1 .. 12
  PROVE  AccruedFor(rule, m) \in Nat
<1>1. rule.quota \in Nat
  BY InputsAssumption DEF Rule
<1>2. RoundHalfEven(rule.quota, 12) \in Nat
  BY <1>1 DEF RoundHalfEven
<1>3. RoundHalfEven(rule.quota, 12) * m \in Nat
  BY <1>2
<1> QED BY <1>1, <1>3 DEF AccruedFor, Lower

(* ensure_balance uses up nothing and takes back nothing that has accrued. *)
LEMMA EnsuredCovers ==
  ASSUME month \in 1 .. 12, NEW b, BalanceRow(b), Covered(b), NEW rule \in Rules
  PROVE  /\ Covered(Ensured(b, rule)) /\ Ensured(b, rule).open
         /\ Ensured(b, rule).accrued >= b.accrued
         /\ Ensured(b, rule).used = b.used
<1> DEFINE a == AccruedFor(rule, month)
<1>1. a \in Nat
  BY AccruedForNat
<1> HIDE DEF a
<1>2. CASE ~b.open
  <2>1. Ensured(b, rule) = [open |-> TRUE, entitled |-> rule.quota, accrued |-> a,
                            used |-> 0]
    BY <1>2, Zenon DEF Ensured, a
  <2> QED BY <1>1, <1>2, <2>1 DEF Covered, BalanceRow
<1>3. CASE b.open
  <2>1. Ensured(b, rule) = [open |-> TRUE, entitled |-> rule.quota,
                            accrued |-> Higher(b.accrued, a), used |-> b.used]
    BY <1>3, Zenon DEF Ensured, a
  <2>2. /\ Higher(b.accrued, a) \in Nat /\ Higher(b.accrued, a) >= b.accrued
    BY <1>1 DEF Higher, Covered
  <2> QED BY <2>1, <2>2 DEF Covered
<1> QED BY <1>2, <1>3

(* What a worker alone stores is what it was about to store.               *)
LEMMA StoredAlone ==
  ASSUME NEW stored, NEW new, BalanceRow(stored), BalanceRow(new)
  PROVE  Stored(stored, stored, new) = IF new.open THEN new ELSE stored
  BY DEF Stored, Column, BalanceRow

LEMMA InitDInv == Init => DInv
<1> SUFFICES ASSUME Init PROVE DInv
  OBVIOUS
<1>1. TasksCurrent
  BY DEF Init, TasksCurrent, Decisions
<1>2. StoresCurrent
  BY DEF Init, StoresCurrent, NoTask, TaskOf, NoBalances, NoBalance
<1>3. SpansFiled /\ NoDayTwice
  BY DEF Init, SpansFiled, NoDayTwice, NoRequest, Active
<1>4. \A t \in Types : Covered(balance[t])
  BY DEF Init, NoBalances, NoBalance, Covered
<1> QED BY <1>1, <1>2, <1>3, <1>4 DEF DInv

(* A step of the only worker that files and decides nothing.               *)
LEMMA TaskDInv ==
  ASSUME NEW w \in Workers, Workers = {w}, DInv, UNCHANGED <<request, balance>>,
         op'[w] = "create" =>
           /\ task'[w].row.span \in Spans
           /\ \A q \in Requests : ~Overlaps(task'[w].row.span, q),
         op'[w] \in Decisions =>
           /\ task'[w].row = request[task'[w].target]
           /\ task'[w].row.status \in Allowed(op'[w]),
         \A t \in Types : task'[w].new[t].open =>
           /\ task'[w].seen[t] = balance[t]
           /\ Covered(task'[w].new[t])
           /\ task'[w].new[t].accrued >= balance[t].accrued
  PROVE  DInv'
<1>1. TasksCurrent'
  BY DEF TasksCurrent, Overlaps
<1>2. StoresCurrent'
  BY DEF StoresCurrent
<1>3. SpansFiled' /\ NoDayTwice'
  BY DEF DInv, SpansFiled, NoDayTwice
<1> QED BY <1>1, <1>2, <1>3 DEF DInv

(* The worker that becomes idle leaves nothing to file, decide or store.   *)
LEMMA EndTask ==
  ASSUME NEW w \in Workers, Workers = {w}, AInv, End(w)
  PROVE  TasksCurrent' /\ StoresCurrent'
<1>1. /\ op'[w] = "idle"
      /\ \A t \in Types : task'[w].new[t] = NoBalance
  BY EndHoldsNothing
<1> QED BY <1>1 DEF TasksCurrent, StoresCurrent, Decisions, NoBalance

LEMMA EndDInv ==
  ASSUME NEW w \in Workers, Workers = {w}, AInv, DInv, End(w), UNCHANGED <<request, balance>>
  PROVE  DInv'
<1>1. TasksCurrent' /\ StoresCurrent'
  BY EndTask
<1>2. SpansFiled' /\ NoDayTwice'
  BY DEF DInv, SpansFiled, NoDayTwice
<1> QED BY <1>1, <1>2 DEF DInv

(* The only worker loads a request, its own or one to decide.              *)
LEMMA LoadDInv ==
  ASSUME NEW w \in Workers, Workers = {w}, SInv, AInv, DInv,
         CreateLoad(w) \/ DecideLoad(w) \/ SeedLoad(w)
  PROVE  DInv'
<1>1. UNCHANGED <<request, balance>>
  BY DEF CreateLoad, DecideLoad, SeedLoad
<1>2. CASE CreateLoad(w)
  <2>1. PICK t \in Types, s \in Spans, u \in Users :
          /\ ~ \E q \in Requests : Overlaps(s, q)
          /\ Start(w, "create",
               TaskOf(Nobody, Nobody, [status |-> "PENDING", type |-> t, span |-> s,
                                       by |-> u, approver |-> Nobody]))
    BY <1>2 DEF CreateLoad
  <2>2. /\ op'[w] = "create" /\ task'[w].row.span = s
        /\ task'[w].new = NoBalances
    BY <2>1 DEF Start, TaskOf, AInv, AShapes
  <2> QED BY <1>1, <2>1, <2>2, TaskDInv DEF NoBalances, NoBalance, Decisions
<1>3. CASE DecideLoad(w)
  <2>1. PICK kind \in Decisions, r \in Requests, u \in Users :
          /\ request[r].status \in Allowed(kind)
          /\ Start(w, kind, TaskOf(r, u, request[r]))
    BY <1>3 DEF DecideLoad
  <2>2. /\ op'[w] = kind /\ task'[w].row = request[r] /\ task'[w].target = r
        /\ task'[w].new = NoBalances
    BY <2>1 DEF Start, TaskOf, AInv, AShapes
  <2> QED BY <1>1, <2>1, <2>2, TaskDInv DEF NoBalances, NoBalance, Decisions
<1>4. CASE SeedLoad(w)
  <2>1. op'[w] = "seed" /\ task'[w].new = NoBalances
    BY <1>4 DEF SeedLoad, Start, AInv, AShapes
  <2> QED BY <1>1, <2>1, TaskDInv DEF NoBalances, NoBalance, Decisions
<1> QED BY <1>2, <1>3, <1>4

(* Filing what overlaps no active request.                                 *)
LEMMA CreateCommitDInv ==
  ASSUME NEW w \in Workers, Workers = {w}, SInv, AInv, DInv, CreateCommit(w)
  PROVE  DInv'
<1>1. PICK r \in Requests :
        /\ request[r] = NoRequest
        /\ request' = [request EXCEPT ![r] = task[w].row]
  BY DEF CreateCommit
<1>2. op[w] = "create" /\ End(w) /\ UNCHANGED balance
  BY DEF CreateCommit
<1>3. /\ task[w].row.span \in Spans
      /\ \A q \in Requests : ~Overlaps(task[w].row.span, q)
  BY <1>2 DEF DInv, TasksCurrent
<1>4. request'[r] = task[w].row /\ \A q \in Requests \ {r} : request'[q] = request[q]
  BY <1>1 DEF AInv, AShapes
<1>5. SpansFiled'
  BY <1>3, <1>4 DEF DInv, SpansFiled
<1>6. NoDayTwice'
  <2> SUFFICES ASSUME NEW p \in Requests, NEW q \in Requests, p # q,
                      request'[p].status \in Active, request'[q].status \in Active
               PROVE  request'[p].span.days \cap request'[q].span.days = {}
    BY DEF NoDayTwice
  <2>1. CASE p # r /\ q # r
    BY <1>4, <2>1 DEF DInv, NoDayTwice
  <2>2. CASE p = r
    BY <1>3, <1>4, <2>2 DEF Overlaps
  <2>3. CASE q = r
    BY <1>3, <1>4, <2>3 DEF Overlaps
  <2> QED BY <2>1, <2>2, <2>3
<1> QED BY <1>2, <1>5, <1>6, EndTask DEF DInv

(* What a decision computes is covered.                                    *)
LEMMA AfterCovered ==
  ASSUME NEW w, NEW b, Covered(b), Cost(task[w].row.span) \in Nat,
         op[w] = "approve" => Enough(b, task[w].row.span)
  PROVE  /\ Covered(BalanceAfter(w, b))
         /\ BalanceAfter(w, b).accrued = b.accrued
         /\ BalanceAfter(w, b).open
  BY DEF BalanceAfter, Covered, Enough, Higher

LEMMA DecideReadDInv ==
  ASSUME NEW w \in Workers, Workers = {w}, SInv, AInv, DInv, DecideRead(w)
  PROVE  DInv'
<1> DEFINE t == task[w].row.type
           b == Ensured(balance[t], types[t])
           touched == Debits(w) \/ Credits(w)
           seen == [NoBalances EXCEPT ![t] = IF touched THEN balance[t] ELSE NoBalance]
           new == [NoBalances EXCEPT ![t] = IF touched THEN BalanceAfter(w, b)
                                            ELSE NoBalance]
<1>1. /\ task' = [task EXCEPT ![w] = Holding(task[w], seen, new)]
      /\ UNCHANGED <<types, month, balance, request, op, ceiling>>
      /\ op[w] \in Decisions
      /\ Debits(w) => Enough(b, task[w].row.span)
  BY Zenon DEF DecideRead
<1>2. t \in Types /\ types[t] # NoType /\ types[t] \in Rules
  BY <1>1 DEF AInv, AShapes, TypesExist
<1>3. /\ task[w].row = request[task[w].target] /\ task[w].row.status \in Allowed(op[w])
      /\ task[w].target \in Requests
  BY <1>1 DEF DInv, TasksCurrent, SInv, TasksSegregated
<1>4. Cost(task[w].row.span) \in Nat
  <2>1. request[task[w].target].status # "NONE"
    BY <1>3 DEF Allowed, Active
  <2> QED BY <1>3, <2>1, CostNat DEF DInv, SpansFiled
<1>5. Covered(b) /\ b.accrued >= balance[t].accrued
  <2>1. BalanceRow(balance[t]) /\ month \in 1 .. 12 /\ Covered(balance[t])
    BY <1>2 DEF AInv, AShapes, DInv
  <2> QED BY <1>2, <2>1, EnsuredCovers
<1> HIDE DEF b
<1> DEFINE after == BalanceAfter(w, b)
<1>6. ASSUME touched
      PROVE  Covered(after) /\ after.accrued >= balance[t].accrued
  <2>1. op[w] = "approve" => Enough(b, task[w].row.span)
    BY <1>1, <1>6 DEF Debits, Credits
  <2> QED BY <1>4, <1>5, <2>1, AfterCovered
<1> HIDE DEF after
<1>7. \A q \in Types : new[q].open => /\ q = t /\ touched /\ new[q] = after
                                      /\ seen[q] = balance[t]
  BY <1>2 DEF NoBalances, NoBalance, after
<1> HIDE DEF seen, new, touched
<1>8. /\ task'[w].seen = seen /\ task'[w].new = new /\ task'[w].row = task[w].row
      /\ task'[w].target = task[w].target
      /\ op'[w] = op[w]
  BY <1>1 DEF AInv, AShapes, Holding
<1>9. \A q \in Types : task'[w].new[q].open =>
        /\ task'[w].seen[q] = balance[q]
        /\ Covered(task'[w].new[q])
        /\ task'[w].new[q].accrued >= balance[q].accrued
  BY <1>6, <1>7, <1>8
<1> QED BY <1>1, <1>3, <1>8, <1>9, TaskDInv DEF Decisions

LEMMA ListLoadDInv ==
  ASSUME NEW w \in Workers, Workers = {w}, AInv, DInv, ListLoad(w)
  PROVE  DInv'
<1> DEFINE listed == {t \in Types : types[t] # NoType /\ types[t].active /\ types[t].paid}
           seen == [t \in Types |-> IF t \in listed THEN balance[t] ELSE NoBalance]
           new == [t \in Types |-> IF t \in listed THEN Ensured(balance[t], types[t])
                                   ELSE NoBalance]
<1>1. /\ Start(w, "list", Holding(NoTask, seen, new))
      /\ UNCHANGED <<balance, request>>
  BY Zenon DEF ListLoad
<1>2. ASSUME NEW q \in Types, new[q].open
      PROVE  seen[q] = balance[q] /\ Covered(new[q]) /\ new[q].accrued >= balance[q].accrued
  <2>1. q \in listed
    BY <1>2 DEF NoBalance
  <2>2. types[q] \in Rules /\ BalanceRow(balance[q]) /\ month \in 1 .. 12 /\ Covered(balance[q])
    BY <2>1 DEF AInv, AShapes, DInv
  <2>3. seen[q] = balance[q] /\ new[q] = Ensured(balance[q], types[q])
    BY <2>1
  <2> HIDE DEF seen, new
  <2> QED BY <2>2, <2>3, EnsuredCovers
<1> HIDE DEF seen, new
<1>3. /\ op'[w] = "list" /\ task'[w].seen = seen /\ task'[w].new = new
  BY <1>1 DEF AInv, AShapes, Start, Holding
<1> QED BY <1>1, <1>2, <1>3, TaskDInv DEF Decisions

(* A commit of the only worker stores balances that are covered, and an    *)
(* active request it decides was active before.                            *)
LEMMA StoreDInv ==
  ASSUME NEW w \in Workers, Workers = {w}, SInv, AInv, DInv, DecideCommit(w) \/ ListCommit(w)
  PROVE  DInv'
<1>1. /\ balance' = [t \in Types |-> Stored(balance[t], task[w].seen[t], task[w].new[t])]
      /\ End(w)
  BY DEF DecideCommit, ListCommit
<1>2. ASSUME NEW t \in Types PROVE Covered(balance'[t])
  <2>1. balance'[t] = Stored(balance[t], task[w].seen[t], task[w].new[t])
    BY <1>1
  <2>2. CASE task[w].new[t].open
    <3>1. task[w].seen[t] = balance[t] /\ Covered(task[w].new[t])
      BY <2>2 DEF DInv, StoresCurrent
    <3>2. BalanceRow(balance[t]) /\ BalanceRow(task[w].new[t])
      BY DEF AInv, AShapes
    <3> QED BY <2>1, <2>2, <3>1, <3>2, StoredAlone
  <2>3. CASE ~task[w].new[t].open
    BY <2>1, <2>3 DEF Stored, DInv
  <2> QED BY <2>2, <2>3
<1>3. SpansFiled' /\ NoDayTwice'
  <2>1. CASE ListCommit(w)
    BY <2>1 DEF ListCommit, DInv, SpansFiled, NoDayTwice
  <2>2. CASE DecideCommit(w)
    <3> DEFINE q == task[w].target
               by == Column(request[q].approver, task[w].row.approver, task[w].actor)
               row == Decided(request[q], op[w], by)
    <3>1. request' = [request EXCEPT ![q] = row] /\ op[w] \in Decisions
      BY <2>2 DEF DecideCommit
    <3>2. row.span = request[q].span
      BY DEF Decided
    <3> HIDE DEF row
    <3>3. q \in Requests /\ request[q].status \in Active
      BY <3>1 DEF SInv, TasksSegregated, DInv, TasksCurrent, Allowed, Active
    <3>4. request'[q] = row /\ \A r \in Requests \ {q} : request'[r] = request[r]
      BY <3>1, <3>3 DEF AInv, AShapes
    <3>5. \A r \in Requests :
            /\ request'[r].span = request[r].span
            /\ request'[r].status # "NONE" => request[r].status # "NONE"
            /\ request'[r].status \in Active => request[r].status \in Active
      BY <3>2, <3>3, <3>4 DEF Active
    <3> QED BY <3>5 DEF DInv, SpansFiled, NoDayTwice
  <2> QED BY <2>1, <2>2
<1> QED BY <1>1, <1>2, <1>3, EndTask DEF DInv

LEMMA NextDInv ==
  ASSUME NEW w, Workers = {w}, SInv, AInv, DInv, [Next]_vars
  PROVE  DInv'
<1> w \in Workers
  OBVIOUS
<1>1. ASSUME Refuse(w) \/ FailInsert(w) \/ Abandon(w) \/ SeedCommit(w) PROVE DInv'
  BY <1>1, EndDInv DEF Refuse, FailInsert, Abandon, SeedCommit
<1>2. ASSUME UNCHANGED <<request, balance, op, task>> PROVE DInv'
  BY <1>2 DEF DInv, TasksCurrent, StoresCurrent, SpansFiled, NoDayTwice, Overlaps
<1> QED
  BY <1>1, <1>2, LoadDInv, CreateCommitDInv, DecideReadDInv, ListLoadDInv, StoreDInv
     DEF Next, vars, UpdateType, NextMonth

(* A request at a time, no day is on two active requests (the overlap      *)
(* check of create_request).                                               *)
THEOREM SerialDays ==
  ASSUME NEW w, Workers = {w}
  PROVE  Spec => []NoDayTwice
<1>1. DInv => NoDayTwice
  BY DEF DInv
<1>2. SInv /\ AInv /\ DInv /\ [Next]_vars => DInv'
  BY NextDInv
<1> QED BY InitSInv, NextSInv, InitAInv, NextAInv, InitDInv, <1>1, <1>2, PTL DEF Spec

(* A request at a time, no type has more days used than have accrued,      *)
(* across quota cuts and a new financial year, and whatever HR retypes     *)
(* (approve_request, cancel_request, ensure_balance).                      *)
THEOREM SerialBalance ==
  ASSUME NEW w, Workers = {w}
  PROVE  Spec => []NoOverdraft
<1>1. DInv => NoOverdraft
  BY DEF DInv, Covered, NoOverdraft
<1>2. SInv /\ AInv /\ DInv /\ [Next]_vars => DInv'
  BY NextDInv
<1> QED BY InitSInv, NextSInv, InitAInv, NextAInv, InitDInv, <1>1, <1>2, PTL DEF Spec
-------------------------------------------------------------------------------
(* Balances that account for the approved requests                         *)

(* The account's sums are sums over finite sets.                           *)
LEMMA UsedIsSum ==
  ASSUME NEW S
  PROVE  Account!Used(S) = SumOver([p \in S |-> p[2]], S)
<1> DEFINE f == [p \in S |-> p[2]]
           L(g) == [s \in SUBSET S |-> IF s = {} THEN 0
                      ELSE LET x == CHOOSE y \in s : TRUE IN x[2] + g[s \ {x}]]
           R(g) == [s \in SUBSET S |-> IF s = {} THEN 0
                      ELSE LET x == CHOOSE y \in s : TRUE IN f[x] + g[s \ {x}]]
<1>1. \A g : g = L(g) <=> g = R(g)
  <2> SUFFICES ASSUME NEW g PROVE L(g) = R(g)
    OBVIOUS
  <2>1. ASSUME NEW s \in SUBSET S, s # {}
        PROVE  f[CHOOSE y \in s : TRUE] = (CHOOSE y \in s : TRUE)[2]
    BY <2>1
  <2> HIDE DEF f
  <2> QED BY <2>1
<1> HIDE DEF f
<1>2. (CHOOSE g : g = L(g)) = (CHOOSE g : g = R(g))
  <2> HIDE DEF L, R
  <2> QED BY <1>1, Zenon
<1>3. Account!Used(S) = (CHOOSE g : g = L(g))[S]
  BY DEF Account!Used, Account!MapThenSumSet, Account!MapThenFoldSet
<1>4. SumOver(f, S) = (CHOOSE g : g = R(g))[S]
  BY DEF SumOver, MapThenSumSet, MapThenFoldSet
<1> QED BY <1>2, <1>3, <1>4 DEF f

(* One request more is charged its cost on top of the others.              *)
LEMMA UsedWith ==
  ASSUME NEW S, IsFiniteSet(S), \A p \in S : p[2] \in Nat, NEW x \in S
  PROVE  /\ Account!Used(S \ {x}) \in Nat
         /\ Account!Used(S) = x[2] + Account!Used(S \ {x})
<1> DEFINE R == S \ {x}
           f == [p \in S |-> p[2]]
           g == [p \in R |-> p[2]]
<1>1. IsFiniteSet(R)
  BY FS_Subset
<1>2. /\ \A p \in S : f[p] \in Int
      /\ \A p \in R : g[p] \in Nat /\ g[p] \in Int /\ f[p] = g[p]
      /\ f[x] = x[2]
  OBVIOUS
<1>3. Account!Used(S) = SumOver(f, S) /\ Account!Used(R) = SumOver(g, R)
  BY UsedIsSum
<1> HIDE DEF f, g
<1>4. SumOver(f, S) = f[x] + SumOver(f, S \ {x})
  BY <1>2, SumRemove
<1> HIDE DEF R
<1>5. SumOver(g, R) \in Nat
  BY <1>1, <1>2, SumType
<1>6. SumOver(f, R) = SumOver(g, R)
  BY <1>1, <1>2, SumSame
<1> QED BY <1>2, <1>3, <1>4, <1>5, <1>6 DEF R

(* Taken holds one pair for each approved request of a paid type.          *)
LEMMA TakenHolds ==
  ASSUME SpansFiled, NEW t \in Types, NEW p \in Taken(t)
  PROVE  /\ p[2] \in Nat
         /\ \E r \in Requests : /\ request[r].status = "APPROVED" /\ request[r].type = t
                                /\ p = <<r, Cost(request[r].span)>>
<1>1. PICK r \in ApprovedOf(t) : p = <<r, Cost(request[r].span)>>
  BY DEF Taken
<1>2. r \in Requests /\ request[r].status = "APPROVED" /\ request[r].type = t
  BY DEF ApprovedOf
<1>3. Cost(request[r].span) \in Nat
  BY <1>2, CostNat DEF SpansFiled
<1> QED BY <1>1, <1>2, <1>3

LEMMA InitEInv == Init => EInv
<1> SUFFICES ASSUME Init PROVE EInv
  OBVIOUS
<1>1. ASSUME NEW t \in Types PROVE Taken(t) = {} /\ balance[t].used = 0
  <2>1. ApprovedOf(t) = {}
    BY DEF Init, ApprovedOf, NoRequest
  <2> QED BY <2>1 DEF Init, Taken, NoBalances, NoBalance
<1>2. Account!Used({}) = 0
  BY UsedIsSum, SumEmpty
<1>3. UsedIsTaken
  BY <1>1, <1>2, FS_EmptySet DEF UsedIsTaken
<1>4. ChargesKnown
  BY DEF Init, ChargesKnown, NoTask, TaskOf, NoBalances, NoBalance
<1> QED BY <1>3, <1>4 DEF EInv

(* A step that neither decides nor stores charges nothing.                 *)
LEMMA SameTaken ==
  ASSUME UsedIsTaken, NEW t \in Types, Taken(t)' = Taken(t), UNCHANGED balance
  PROVE  IsFiniteSet(Taken(t)') /\ balance'[t].used = Account!Used(Taken(t)')
  BY DEF UsedIsTaken

(* The worker that becomes idle charges nothing.                           *)
LEMMA EndCharges ==
  ASSUME NEW w \in Workers, Workers = {w}, AInv, End(w)
  PROVE  ChargesKnown'
<1>1. \A t \in Types : task'[w].new[t] = NoBalance
  BY EndHoldsNothing
<1>2. ~task'[w].ready
  BY DEF End, AInv, AShapes, NoTask, TaskOf
<1> QED BY <1>1, <1>2 DEF ChargesKnown, NoBalance

LEMMA StartCharges ==
  ASSUME NEW w \in Workers, Workers = {w}, ~task'[w].ready, task'[w].new = NoBalances
  PROVE  ChargesKnown'
  BY DEF ChargesKnown, NoBalances, NoBalance

(* Loading changes no row.                                                 *)
LEMMA LoadEInv ==
  ASSUME NEW w \in Workers, Workers = {w}, AInv, EInv,
         CreateLoad(w) \/ DecideLoad(w) \/ SeedLoad(w)
  PROVE  EInv'
<1>1. UNCHANGED <<types, request, balance>>
  BY DEF CreateLoad, DecideLoad, SeedLoad
<1>2. UsedIsTaken'
  BY <1>1 DEF EInv, UsedIsTaken, Taken, ApprovedOf
<1>3. ~task'[w].ready /\ task'[w].new = NoBalances
  <2>1. CASE CreateLoad(w)
    BY <2>1 DEF CreateLoad, TaskOf, Start, AInv, AShapes
  <2>2. CASE DecideLoad(w)
    BY <2>2 DEF DecideLoad, TaskOf, Start, AInv, AShapes
  <2>3. CASE SeedLoad(w)
    BY <2>3 DEF SeedLoad, Start, AInv, AShapes
  <2> QED BY <2>1, <2>2, <2>3
<1> QED BY <1>2, <1>3, StartCharges DEF EInv

(* A request that is filed is not approved yet.                            *)
LEMMA CreateCommitEInv ==
  ASSUME NEW w \in Workers, Workers = {w}, SInv, AInv, DInv, EInv, CreateCommit(w)
  PROVE  EInv' /\ \A t \in Types : Taken(t)' = Taken(t)
<1>1. PICK r \in Requests :
        /\ request[r] = NoRequest
        /\ request' = [request EXCEPT ![r] = task[w].row]
  BY DEF CreateCommit
<1>2. op[w] = "create" /\ End(w) /\ UNCHANGED <<types, balance>>
  BY DEF CreateCommit
<1>3. task[w].row.status = "PENDING"
  BY <1>2 DEF SInv, TasksSegregated
<1>4. request'[r] = task[w].row /\ \A q \in Requests \ {r} : request'[q] = request[q]
  BY <1>1 DEF AInv, AShapes
<1>5. \A q \in Requests :
        \/ request'[q] = request[q]
        \/ request'[q].status # "APPROVED" /\ request[q].status # "APPROVED"
  BY <1>1, <1>3, <1>4 DEF NoRequest
<1>6. ASSUME NEW t \in Types PROVE Taken(t)' = Taken(t)
  <2>1. ApprovedOf(t)' = ApprovedOf(t) /\ \A q \in ApprovedOf(t) : request'[q] = request[q]
    BY <1>5 DEF ApprovedOf
  <2> QED BY <1>2, <2>1 DEF Taken
<1>7. UsedIsTaken'
  BY <1>2, <1>6, SameTaken DEF EInv, UsedIsTaken
<1> QED BY <1>2, <1>6, <1>7, EndCharges DEF EInv

(* What a cancelled request was charged is still charged.                  *)
LEMMA CreditCovered ==
  ASSUME SInv, AInv, DInv, EInv, NEW w \in Workers, Credits(w)
  PROVE  LET t == task[w].row.type
             p == <<task[w].target, Cost(task[w].row.span)>>
         IN  /\ t \in Types /\ types[t] # NoType /\ p \in Taken(t)
             /\ IsFiniteSet(Taken(t)) /\ \A q \in Taken(t) : q[2] \in Nat
             /\ Account!Used(Taken(t) \ {p}) \in Nat
             /\ balance[t].used = Cost(task[w].row.span) + Account!Used(Taken(t) \ {p})
<1> DEFINE t == task[w].row.type
           r == task[w].target
           p == <<r, Cost(task[w].row.span)>>
<1>1. op[w] = "cancel" /\ task[w].row.status = "APPROVED" /\ types[t].paid
  BY DEF Credits
<1>2. t \in Types /\ types[t] # NoType /\ r \in Requests /\ task[w].row = request[r]
  BY <1>1 DEF Decisions, AInv, TypesExist, SInv, TasksSegregated, DInv, TasksCurrent
<1>3. p \in Taken(t)
  BY <1>1, <1>2 DEF Taken, ApprovedOf
<1>4. IsFiniteSet(Taken(t)) /\ balance[t].used = Account!Used(Taken(t))
  BY <1>2 DEF EInv, UsedIsTaken
<1>5. \A q \in Taken(t) : q[2] \in Nat
  BY <1>2, TakenHolds DEF DInv
<1>6. /\ Account!Used(Taken(t) \ {p}) \in Nat
      /\ Account!Used(Taken(t)) = p[2] + Account!Used(Taken(t) \ {p})
  <2> HIDE DEF t, p
  <2> QED BY <1>3, <1>4, <1>5, UsedWith
<1>7. p[2] = Cost(task[w].row.span)
  OBVIOUS
<1> QED BY <1>2, <1>3, <1>4, <1>5, <1>6, <1>7

(* A decision charges, once, what it decides.                              *)
LEMMA DecideReadEInv ==
  ASSUME NEW w \in Workers, Workers = {w}, SInv, AInv, DInv, EInv, DecideRead(w)
  PROVE  EInv'
<1> DEFINE t == task[w].row.type
           b == Ensured(balance[t], types[t])
           touched == Debits(w) \/ Credits(w)
           after == BalanceAfter(w, b)
           seen == [NoBalances EXCEPT ![t] = IF touched THEN balance[t] ELSE NoBalance]
           new == [NoBalances EXCEPT ![t] = IF touched THEN after ELSE NoBalance]
<1>1. /\ task' = [task EXCEPT ![w] = Holding(task[w], seen, new)]
      /\ UNCHANGED <<types, month, balance, request, op, ceiling>>
      /\ op[w] \in Decisions
  BY Zenon DEF DecideRead
<1>2. t \in Types /\ types[t] # NoType /\ types[t] \in Rules
  BY <1>1 DEF AInv, AShapes, TypesExist
<1>3. UsedIsTaken'
  BY <1>1 DEF EInv, UsedIsTaken, Taken, ApprovedOf
<1>4. b.used = balance[t].used
  <2>1. BalanceRow(balance[t]) /\ month \in 1 .. 12 /\ Covered(balance[t])
    BY <1>2 DEF AInv, AShapes, DInv
  <2> QED BY <1>2, <2>1, EnsuredCovers
<1> HIDE DEF b
<1>5. after.open /\ after.used = IF op[w] = "approve" THEN b.used + Cost(task[w].row.span)
                                 ELSE Higher(0, b.used - Cost(task[w].row.span))
  BY DEF BalanceAfter
<1>6. ASSUME touched PROVE after.used = Charge(w, t)
  <2>1. CASE op[w] = "approve"
    BY <1>4, <1>5, <1>6, <2>1 DEF Debits, Credits, Charge
  <2>2. CASE op[w] # "approve"
    <3>1. Credits(w)
      BY <1>6, <2>2 DEF Debits
    <3>2. PICK rest \in Nat : balance[t].used = Cost(task[w].row.span) + rest
      BY <3>1, CreditCovered
    <3>3. Cost(task[w].row.span) \in Nat
      <4>1. task[w].row = request[task[w].target] /\ task[w].target \in Requests
        BY <1>1 DEF DInv, TasksCurrent, SInv, TasksSegregated
      <4> QED BY <3>1, <4>1, CostNat DEF Credits, DInv, SpansFiled
    <3>4. after.used = balance[t].used - Cost(task[w].row.span)
      BY <1>4, <1>5, <2>2, <3>2, <3>3 DEF Higher
    <3> QED BY <2>2, <3>1, <3>4 DEF Credits, Charge
  <2> QED BY <2>1, <2>2
<1>7. ASSUME NEW q \in Types
      PROVE  /\ new[q].open => new[q].used = Charge(w, q)
             /\ ~new[q].open => Charge(w, q) = balance[q].used
  <2> HIDE DEF after
  <2>1. CASE q = t /\ touched
    <3>1. new[q] = after
      BY <1>2, <2>1 DEF NoBalances
    <3> QED BY <1>5, <1>6, <2>1, <3>1
  <2>2. CASE ~(q = t /\ touched)
    <3>1. ~new[q].open
      BY <1>2, <2>2 DEF NoBalances, NoBalance
    <3>2. Charge(w, q) = balance[q].used
      BY <2>2 DEF Charge, Debits, Credits
    <3> QED BY <3>1, <3>2
  <2> QED BY <2>1, <2>2
<1> HIDE DEF seen, new
<1>8. task'[w].new = new /\ task'[w].row = task[w].row
  BY <1>1 DEF AInv, AShapes, Holding
<1>9. \A q \in Types : Charge(w, q)' = Charge(w, q)
  BY <1>1, <1>8 DEF Charge
<1>10. ChargesKnown'
  BY <1>1, <1>7, <1>8, <1>9 DEF ChargesKnown
<1> QED BY <1>3, <1>10 DEF EInv

(* A listing uses up nothing.                                              *)
LEMMA ListLoadEInv ==
  ASSUME NEW w \in Workers, Workers = {w}, AInv, DInv, EInv, ListLoad(w)
  PROVE  EInv'
<1> DEFINE listed == {t \in Types : types[t] # NoType /\ types[t].active /\ types[t].paid}
           seen == [t \in Types |-> IF t \in listed THEN balance[t] ELSE NoBalance]
           new == [t \in Types |-> IF t \in listed THEN Ensured(balance[t], types[t])
                                   ELSE NoBalance]
<1>1. /\ Start(w, "list", Holding(NoTask, seen, new))
      /\ UNCHANGED <<types, balance, request>>
  BY Zenon DEF ListLoad
<1>2. ASSUME NEW q \in Types, new[q].open PROVE new[q].used = balance[q].used
  <2>1. q \in listed
    BY <1>2 DEF NoBalance
  <2>2. types[q] \in Rules /\ BalanceRow(balance[q]) /\ month \in 1 .. 12 /\ Covered(balance[q])
    BY <2>1 DEF AInv, AShapes, DInv
  <2>3. new[q] = Ensured(balance[q], types[q])
    BY <2>1
  <2> HIDE DEF seen, new
  <2> QED BY <2>2, <2>3, EnsuredCovers
<1> HIDE DEF seen, new
<1>3. op'[w] = "list" /\ task'[w].new = new
  BY <1>1 DEF AInv, AShapes, Start, Holding
<1>4. \A q \in Types : Charge(w, q)' = balance[q].used
  BY <1>1, <1>3 DEF Charge
<1>5. ChargesKnown'
  BY <1>1, <1>2, <1>3, <1>4 DEF ChargesKnown
<1>6. UsedIsTaken'
  BY <1>1 DEF EInv, UsedIsTaken, Taken, ApprovedOf
<1> QED BY <1>5, <1>6 DEF EInv

(* A commit of the only worker stores the charge it computed.              *)
LEMMA StoredCharge ==
  ASSUME NEW w \in Workers, Workers = {w}, AInv, DInv, EInv, NEW t \in Types,
         ListCommit(w) \/ DecideCommit(w)
  PROVE  balance'[t].used = Charge(w, t) /\ balance'[t].accrued >= balance[t].accrued
<1>1. balance'[t] = Stored(balance[t], task[w].seen[t], task[w].new[t])
  BY DEF DecideCommit, ListCommit
<1>2. task[w].new[t].open => task[w].new[t].used = Charge(w, t)
  BY DEF EInv, ChargesKnown
<1>3. ~task[w].new[t].open => Charge(w, t) = balance[t].used
  <2>1. CASE ListCommit(w)
    BY <2>1 DEF ListCommit, Charge
  <2>2. CASE DecideCommit(w)
    BY <2>2 DEF DecideCommit, EInv, ChargesKnown
  <2> QED BY <2>1, <2>2
<1>4. CASE task[w].new[t].open
  <2>1. /\ task[w].seen[t] = balance[t]
        /\ task[w].new[t].accrued >= balance[t].accrued
    BY <1>4 DEF DInv, StoresCurrent
  <2>2. BalanceRow(balance[t]) /\ BalanceRow(task[w].new[t])
    BY DEF AInv, AShapes
  <2> QED BY <1>1, <1>2, <1>4, <2>1, <2>2, StoredAlone
<1>5. CASE ~task[w].new[t].open
  <2>1. balance'[t] = balance[t]
    BY <1>1, <1>5 DEF Stored
  <2>2. balance[t].accrued \in Nat
    BY DEF DInv, Covered
  <2> QED BY <1>3, <1>5, <2>1, <2>2
<1> QED BY <1>4, <1>5

\* The pair a decision adds to what is taken, or removes from it.
Pair(w) == <<task[w].target, Cost(task[w].row.span)>>

(* An approval takes the request it is about, the cancellation of an       *)
(* approved request gives it back, and nothing else is taken.              *)
LEMMA DecidedTaken ==
  ASSUME NEW w \in Workers, Workers = {w}, SInv, AInv, DInv, DecideCommit(w), NEW t \in Types
  PROVE  /\ Debits(w) /\ t = task[w].row.type =>
              /\ Taken(t)' = Taken(t) \cup {Pair(w)}
              /\ \A p \in Taken(t) : p[1] # task[w].target
         /\ Credits(w) /\ t = task[w].row.type => Taken(t)' = Taken(t) \ {Pair(w)}
         /\ ~(t = task[w].row.type /\ (Debits(w) \/ Credits(w))) => Taken(t)' = Taken(t)
<1> DEFINE row == task[w].row
<1>0. PICK q \in Requests : q = task[w].target
  BY DEF DecideCommit, SInv, TasksSegregated
<1> DEFINE by == Column(request[q].approver, row.approver, task[w].actor)
<1>1. /\ op[w] \in Decisions /\ UNCHANGED types
      /\ request' = [request EXCEPT ![q] = Decided(request[q], op[w], by)]
  BY <1>0 DEF DecideCommit
<1>2. /\ q \in Requests /\ row = request[q] /\ row.status \in Allowed(op[w])
      /\ row.type \in Types /\ types[row.type] # NoType
  BY <1>0, <1>1 DEF DInv, TasksCurrent, AInv, TypesExist
<1>3. /\ request'[q].status = Outcome(op[w]) /\ request'[q].type = row.type
      /\ request'[q].span = row.span
      /\ \A r \in Requests \ {q} : request'[r] = request[r]
  BY <1>1, <1>2 DEF Decided, AInv, AShapes
<1> HIDE DEF by
<1> DEFINE Priced(r) == <<r, Cost(request[r].span)>>
           Counted(r) == request[r].status = "APPROVED" /\ request[r].type = t
<1>4. /\ \A r \in Requests : request'[r].span = request[r].span
      /\ \A r \in Requests \ {q} : Counted(r)' <=> Counted(r)
      /\ Counted(q)' <=> op[w] = "approve" /\ t = row.type
      /\ Counted(q) <=> op[w] = "cancel" /\ row.status = "APPROVED" /\ t = row.type
  <2>1. \A r \in Requests : request'[r].span = request[r].span
    BY <1>2, <1>3
  <2>2. \A r \in Requests \ {q} : Counted(r)' <=> Counted(r)
    BY <1>3
  <2>3. Counted(q)' <=> op[w] = "approve" /\ t = row.type
    BY <1>1, <1>3 DEF Outcome, Decisions
  <2>4. Counted(q) <=> op[w] = "cancel" /\ row.status = "APPROVED" /\ t = row.type
    BY <1>1, <1>2 DEF Decisions, Allowed, Active
  <2> QED BY <2>1, <2>2, <2>3, <2>4
<1>5. Pair(w) = Priced(q)
  BY <1>0, <1>2 DEF Pair
<1>6. CASE types[t] = NoType \/ ~types[t].paid
  BY <1>1, <1>2, <1>6 DEF Taken, Debits, Credits
<1>7. CASE types[t] # NoType /\ types[t].paid
  <2>1. /\ Taken(t) = {Priced(r) : r \in {r \in Requests : Counted(r)}}
        /\ Taken(t)' = {Priced(r) : r \in {r \in Requests : Counted(r)'}}
    <3>1. \A r \in Requests : Cost(request'[r].span) = Cost(request[r].span)
      BY <1>4
    <3> QED BY <1>1, <1>7, <3>1 DEF Taken, ApprovedOf
  <2>2. /\ Debits(w) /\ t = row.type <=> Counted(q)'
        /\ Credits(w) /\ t = row.type <=> Counted(q)
    BY <1>4, <1>7 DEF Debits, Credits
  <2>3. ~(Counted(q) /\ Counted(q)')
    BY <1>4
  <2>4. /\ \A p \in Taken(t) : \E r \in Requests : Counted(r) /\ p = Priced(r)
        /\ \A r \in Requests : Priced(r)[1] = r
    BY <2>1
  <2> DEFINE A == {r \in Requests : Counted(r)}
             B == {r \in Requests : Counted(r)'}
  <2>5. /\ Counted(q)' => B = A \cup {q}
        /\ Counted(q) => B = A \ {q}
        /\ ~Counted(q) /\ ~Counted(q)' => B = A
    BY <1>2, <1>4, <2>3
  <2>6. Taken(t) = {Priced(r) : r \in A} /\ Taken(t)' = {Priced(r) : r \in B}
    BY <2>1
  <2>7. CASE Counted(q)'
    BY <1>0, <1>5, <2>2, <2>3, <2>4, <2>5, <2>6, <2>7
  <2>8. CASE Counted(q)
    BY <1>5, <2>2, <2>3, <2>4, <2>5, <2>6, <2>8
  <2>9. CASE ~Counted(q) /\ ~Counted(q)'
    BY <2>2, <2>5, <2>6, <2>9
  <2> QED BY <2>7, <2>8, <2>9
<1> QED BY <1>6, <1>7

LEMMA StoreEInv ==
  ASSUME NEW w \in Workers, Workers = {w}, SInv, AInv, DInv, EInv,
         ListCommit(w) \/ DecideCommit(w)
  PROVE  EInv'
<1>1. ASSUME NEW t \in Types
      PROVE  IsFiniteSet(Taken(t)') /\ balance'[t].used = Account!Used(Taken(t)')
  <2>1. balance'[t].used = Charge(w, t)
    BY StoredCharge
  <2>2. IsFiniteSet(Taken(t)) /\ balance[t].used = Account!Used(Taken(t))
    BY DEF EInv, UsedIsTaken
  <2>3. CASE ListCommit(w)
    <3>1. Taken(t)' = Taken(t) /\ Charge(w, t) = balance[t].used
      BY <2>3 DEF ListCommit, Taken, ApprovedOf, Charge
    <3> QED BY <2>1, <2>2, <3>1
  <2>4. CASE DecideCommit(w) /\ Debits(w) /\ t = task[w].row.type
    <3> DEFINE S == Taken(t)'
    <3>1. S = Taken(t) \cup {Pair(w)} /\ \A p \in Taken(t) : p[1] # task[w].target
      BY <2>4, DecidedTaken
    <3>2. Pair(w)[1] = task[w].target /\ Pair(w)[2] = Cost(task[w].row.span)
      BY DEF Pair
    <3>3. Pair(w) \in S /\ S \ {Pair(w)} = Taken(t)
      BY <3>1, <3>2
    <3>4. IsFiniteSet(S)
      BY <2>2, <3>1, FS_AddElement
    <3>5. Cost(task[w].row.span) \in Nat
      <4>1. /\ task[w].row = request[task[w].target] /\ task[w].target \in Requests
            /\ task[w].row.status \in Allowed(op[w])
        BY <2>4 DEF DecideCommit, DInv, TasksCurrent, SInv, TasksSegregated
      <4>2. task[w].row.status # "NONE"
        BY <4>1 DEF Allowed, Active
      <4> QED BY <4>1, <4>2, CostNat DEF DInv, SpansFiled
    <3>6. \A p \in S : p[2] \in Nat
      BY <3>1, <3>2, <3>5, TakenHolds DEF DInv
    <3>7. /\ Account!Used(S \ {Pair(w)}) \in Nat
          /\ Account!Used(S) = Pair(w)[2] + Account!Used(S \ {Pair(w)})
      <4> HIDE DEF S
      <4> QED BY <3>3, <3>4, <3>6, UsedWith
    <3>8. Charge(w, t) = balance[t].used + Cost(task[w].row.span)
      BY <2>4 DEF Debits, Charge
    <3> HIDE DEF S
    <3>9. balance'[t].used = Account!Used(S)
      <4>1. Account!Used(S \ {Pair(w)}) = balance[t].used
        BY <2>2, <3>3
      <4>2. balance'[t].used = balance[t].used + Cost(task[w].row.span)
        BY <2>1, <3>8
      <4>3. balance[t].used \in Nat
        BY <3>7, <4>1
      <4> QED BY <3>2, <3>5, <3>7, <4>1, <4>2, <4>3
    <3> QED BY <3>4, <3>9 DEF S
  <2>5. CASE DecideCommit(w) /\ Credits(w) /\ t = task[w].row.type
    <3>1. Taken(t)' = Taken(t) \ {Pair(w)}
      BY <2>5, DecidedTaken
    <3>2. /\ Account!Used(Taken(t) \ {Pair(w)}) \in Nat
          /\ balance[t].used = Cost(task[w].row.span) + Account!Used(Taken(t) \ {Pair(w)})
      BY <2>5, CreditCovered DEF Pair
    <3>3. Charge(w, t) = balance[t].used - Cost(task[w].row.span)
      BY <2>5 DEF Credits, Charge
    <3>4. Cost(task[w].row.span) \in Nat
      <4>1. task[w].row = request[task[w].target] /\ task[w].target \in Requests
        BY <2>5 DEF DecideCommit, DInv, TasksCurrent, SInv, TasksSegregated
      <4> QED BY <2>5, <4>1, CostNat DEF Credits, DInv, SpansFiled
    <3>5. IsFiniteSet(Taken(t) \ {Pair(w)})
      BY <2>2, FS_Subset
    <3> QED BY <2>1, <3>1, <3>2, <3>3, <3>4, <3>5
  <2>6. CASE DecideCommit(w) /\ ~(t = task[w].row.type /\ (Debits(w) \/ Credits(w)))
    <3>1. Taken(t)' = Taken(t)
      BY <2>6, DecidedTaken
    <3>2. Charge(w, t) = balance[t].used
      BY <2>6 DEF Charge, Debits, Credits
    <3> QED BY <2>1, <2>2, <3>1, <3>2
  <2> QED BY <2>3, <2>4, <2>5, <2>6
<1>2. UsedIsTaken'
  BY <1>1 DEF UsedIsTaken
<1>3. End(w)
  BY DEF ListCommit, DecideCommit
<1> QED BY <1>2, <1>3, EndCharges DEF EInv

(* A type that HR adds has no requests yet, and one that HR changes stays  *)
(* paid or unpaid.                                                         *)
LEMMA TypesTaken ==
  ASSUME Retyped = {}, AInv, NEW t \in Types, UNCHANGED request,
         \/ \E w \in Workers : SeedCommit(w)
         \/ \E u \in Types : UpdateType(u)
         \/ UNCHANGED types
  PROVE  /\ Taken(t)' = Taken(t)
         /\ types[t] # NoType => types'[t] # NoType /\ types'[t].paid = types[t].paid
<1>1. types \in [Types -> Rules \cup {NoType}]
  BY DEF AInv, AShapes
<1>2. types[t] = NoType => ApprovedOf(t) = {}
  BY DEF AInv, TypesExist, ApprovedOf
<1>3. types[t] # NoType => types'[t] # NoType /\ types'[t].paid = types[t].paid
  <2>1. CASE \E w \in Workers : SeedCommit(w)
    BY <2>1 DEF SeedCommit, Conflict
  <2>2. ASSUME NEW u \in Types, UpdateType(u)
        PROVE  types[t] # NoType => types'[t] # NoType /\ types'[t].paid = types[t].paid
    <3>1. PICK rule \in Rules : /\ rule.paid = types[u].paid
                                /\ types' = [types EXCEPT ![u] = rule]
      BY <2>2 DEF UpdateType
    <3>2. rule # NoType
      BY InputsAssumption
    <3> QED BY <1>1, <3>1, <3>2
  <2>3. CASE UNCHANGED types
    BY <2>3
  <2> QED BY <2>1, <2>2, <2>3
<1>4. ApprovedOf(t)' = ApprovedOf(t)
  BY DEF ApprovedOf
<1> QED BY <1>2, <1>3, <1>4 DEF Taken

LEMMA QuietEInv ==
  ASSUME NEW w \in Workers, Workers = {w}, Retyped = {}, SInv, AInv, EInv,
         \/ Refuse(w) \/ FailInsert(w) \/ Abandon(w) \/ SeedCommit(w)
         \/ \E t \in Types : UpdateType(t)
         \/ NextMonth
         \/ UNCHANGED vars
  PROVE  EInv'
<1>1. UNCHANGED <<request, balance>>
  BY DEF Refuse, FailInsert, Abandon, SeedCommit, UpdateType, NextMonth, vars
<1>2. ASSUME NEW t \in Types
      PROVE  /\ Taken(t)' = Taken(t)
             /\ types[t] # NoType => types'[t] # NoType /\ types'[t].paid = types[t].paid
  <2>1. \/ \E v \in Workers : SeedCommit(v)
        \/ \E u \in Types : UpdateType(u)
        \/ UNCHANGED types
    BY DEF Refuse, FailInsert, Abandon, NextMonth, vars
  <2> QED BY <1>1, <2>1, TypesTaken
<1>3. UsedIsTaken'
  BY <1>1, <1>2, SameTaken DEF EInv, UsedIsTaken
<1>4. CASE End(w)
  BY <1>3, <1>4, EndCharges DEF EInv
<1>5. CASE UNCHANGED <<op, task>>
  <2>1. \A t \in Types : Charge(w, t)' = Charge(w, t)
    <3>1. op[w] \in {"approve", "cancel"} =>
            task[w].row.type \in Types /\ types[task[w].row.type] # NoType
      BY DEF AInv, TypesExist, Decisions
    <3> QED BY <1>1, <1>2, <1>5, <3>1 DEF Charge
  <2>2. ChargesKnown'
    BY <1>1, <1>5, <2>1 DEF EInv, ChargesKnown
  <2> QED BY <1>3, <2>2 DEF EInv
<1> QED
  BY <1>4, <1>5 DEF Refuse, FailInsert, Abandon, SeedCommit, UpdateType, NextMonth, vars

LEMMA NextEInv ==
  ASSUME NEW w, Workers = {w}, Retyped = {}, SInv, AInv, DInv, EInv, [Next]_vars
  PROVE  EInv'
<1> w \in Workers
  OBVIOUS
<1> QED
  BY LoadEInv, CreateCommitEInv, DecideReadEInv, ListLoadEInv, StoreEInv, QuietEInv DEF Next

(* The account's steps: what is taken of the others stays.                 *)
LEMMA AccountTakes ==
  ASSUME NEW t \in Types, NEW r \in Requests, NEW p, p[1] = r,
         \A x \in Taken(t) : x[1] # r,
         Taken(t)' = Taken(t) \cup {p},
         balance'[t].used = Account!Used(Taken(t)'),
         balance'[t].used <= balance'[t].accrued,
         \A q \in Types \ {t} : Taken(q)' = Taken(q) /\ balance'[q].used = balance[q].used
  PROVE  Account!Take(t, r)
<1> DEFINE X == [q \in Types |-> IF types[q] = NoType \/ ~types[q].paid THEN {}
                                 ELSE {<<z, Cost(request[z].span)>> : z \in ApprovedOf(q)}]
           U == [q \in Types |-> balance[q].used]
<1>1. X = [q \in Types |-> Taken(q)] /\ X' = [q \in Types |-> Taken(q)']
  BY DEF Taken
<1> HIDE DEF X
<1>2. /\ \A x \in X[t] : x[1] # r
      /\ p \in X'[t]
      /\ X' = [X EXCEPT ![t] = @ \cup {p}]
  BY <1>1
<1>3. /\ U' = [U EXCEPT ![t] = Account!Used(X'[t])]
      /\ U'[t] <= [q \in Types |-> balance'[q].accrued][t]
  BY <1>1
<1> HIDE DEF U
<1> QED BY <1>2, <1>3 DEF Account!Take, X, U

LEMMA AccountGivesBack ==
  ASSUME NEW t \in Types, NEW r \in Requests,
         Taken(t)' = {p \in Taken(t) : p[1] # r},
         balance'[t].used = Account!Used(Taken(t)'),
         \A q \in Types \ {t} : Taken(q)' = Taken(q) /\ balance'[q].used = balance[q].used
  PROVE  Account!GiveBack(t, r)
<1> DEFINE X == [q \in Types |-> IF types[q] = NoType \/ ~types[q].paid THEN {}
                                 ELSE {<<z, Cost(request[z].span)>> : z \in ApprovedOf(q)}]
           U == [q \in Types |-> balance[q].used]
<1>1. X = [q \in Types |-> Taken(q)] /\ X' = [q \in Types |-> Taken(q)']
  BY DEF Taken
<1> HIDE DEF X
<1>2. X' = [X EXCEPT ![t] = {p \in @ : p[1] # r}]
  BY <1>1
<1>3. U' = [U EXCEPT ![t] = Account!Used(X'[t])]
  BY <1>1
<1> HIDE DEF U
<1> QED BY <1>2, <1>3 DEF Account!GiveBack, X, U

LEMMA AccountAccrues ==
  ASSUME \A t \in Types : balance'[t].accrued >= balance[t].accrued
  PROVE  Account!Accrues
  BY DEF Account!Accrues

LEMMA AccountKeeps ==
  ASSUME \A t \in Types : Taken(t)' = Taken(t) /\ balance'[t].used = balance[t].used
  PROVE  UNCHANGED <<[t \in Types |-> balance[t].used],
                     [t \in Types |-> IF types[t] = NoType \/ ~types[t].paid THEN {}
                        ELSE {<<r, Cost(request[r].span)>> : r \in ApprovedOf(t)}]>>
  BY DEF Taken

(* A decision's commit takes the request, gives it back, or does neither.  *)
LEMMA DecideAccount ==
  ASSUME NEW w \in Workers, Workers = {w}, SInv, AInv, DInv, EInv, DInv', EInv',
         DecideCommit(w)
  PROVE  Account!Next
<1>1. Account!Accrues
  BY StoredCharge, AccountAccrues
<1>t. PICK t \in Types : t = task[w].row.type
  BY DEF DecideCommit, AInv, TypesExist
<1>q. PICK q \in Requests : q = task[w].target
  BY DEF DecideCommit, SInv, TasksSegregated
<1>2. /\ op[w] \in Decisions /\ q = task[w].target /\ t = task[w].row.type
      /\ task[w].row = request[q]
  BY <1>t, <1>q DEF DecideCommit, DInv, TasksCurrent
<1>3. \A y \in Types : ~(y = t /\ (Debits(w) \/ Credits(w))) =>
        Taken(y)' = Taken(y) /\ balance'[y].used = balance[y].used
  BY <1>t, StoredCharge, DecidedTaken DEF Charge, Debits, Credits
<1>4. \A y \in Types : /\ balance'[y].used = Account!Used(Taken(y)')
                       /\ balance'[y].used <= balance'[y].accrued
  BY DEF EInv, UsedIsTaken, DInv, Covered
<1>5. CASE Debits(w)
  <2>1. /\ Taken(t)' = Taken(t) \cup {Pair(w)} /\ Pair(w)[1] = q
        /\ \A p \in Taken(t) : p[1] # q
    BY <1>2, <1>5, DecidedTaken DEF Pair
  <2>2. Account!Take(t, q)
    BY <1>2, <1>3, <1>4, <2>1, AccountTakes
  <2> QED BY <1>1, <1>2, <2>2 DEF Account!Next
<1>6. CASE Credits(w)
  <2>1. Taken(t)' = Taken(t) \ {Pair(w)}
    BY <1>2, <1>6, DecidedTaken
  <2>2. \A p \in Taken(t) : p[1] = q <=> p = Pair(w)
    BY <1>2, TakenHolds DEF DInv, Pair
  <2>3. Taken(t)' = {p \in Taken(t) : p[1] # q}
    BY <2>1, <2>2
  <2>4. Account!GiveBack(t, q)
    BY <1>2, <1>3, <1>4, <2>3, AccountGivesBack
  <2> QED BY <1>1, <1>2, <2>4 DEF Account!Next
<1>7. CASE ~Debits(w) /\ ~Credits(w)
  BY <1>1, <1>3, <1>7, AccountKeeps DEF Account!Next
<1> QED BY <1>5, <1>6, <1>7

LEMMA QuietAccount ==
  ASSUME \A t \in Types : Taken(t)' = Taken(t) /\ balance'[t].used = balance[t].used,
         \A t \in Types : balance'[t].accrued >= balance[t].accrued
  PROVE  Account!Next
  BY AccountAccrues, AccountKeeps DEF Account!Next

LEMMA NextAccount ==
  ASSUME NEW w, Workers = {w}, Retyped = {}, SInv, AInv, DInv, EInv, DInv', EInv', [Next]_vars
  PROVE  Account!Next
<1> w \in Workers
  OBVIOUS
<1>1. \A t \in Types : balance[t].accrued >= balance[t].accrued
  BY DEF DInv, Covered
<1>2. CASE DecideCommit(w)
  BY <1>2, DecideAccount
<1>3. CASE ListCommit(w)
  <2>1. \A t \in Types : Taken(t)' = Taken(t) /\ Charge(w, t) = balance[t].used
    BY <1>3 DEF ListCommit, Taken, ApprovedOf, Charge
  <2>2. \A t \in Types : /\ balance'[t].used = Charge(w, t)
                         /\ balance'[t].accrued >= balance[t].accrued
    BY <1>3, StoredCharge
  <2> QED BY <2>1, <2>2, QuietAccount
<1>4. CASE CreateCommit(w)
  <2>1. \A t \in Types : Taken(t)' = Taken(t)
    BY <1>4, CreateCommitEInv
  <2> QED BY <1>1, <1>4, <2>1, QuietAccount DEF CreateCommit
<1>5. ASSUME UNCHANGED <<balance, request>>,
             \/ \E v \in Workers : SeedCommit(v)
             \/ \E u \in Types : UpdateType(u)
             \/ UNCHANGED types
      PROVE  Account!Next
  BY <1>1, <1>5, TypesTaken, QuietAccount
<1> QED
  BY <1>2, <1>3, <1>4, <1>5
     DEF Next, vars, CreateLoad, DecideLoad, DecideRead, Refuse, ListLoad, SeedLoad,
         SeedCommit, FailInsert, Abandon, UpdateType, NextMonth

(* A request at a time, and as long as HR turns no paid type into an       *)
(* unpaid one or back, the balances are an exact account of the approved   *)
(* requests: leave is taken out of what has accrued, once for each         *)
(* approval, and given back once it is cancelled (approve_request,         *)
(* cancel_request).                                                        *)
THEOREM SerialAccount ==
  ASSUME NEW w, Workers = {w}, Retyped = {}
  PROVE  Spec => AccountSpec
<1>1. Init => Account!Init
  <2> SUFFICES ASSUME Init PROVE Account!Init
    OBVIOUS
  <2>1. \A t \in Types : ApprovedOf(t) = {}
    BY DEF Init, ApprovedOf, NoRequest
  <2> QED BY <2>1 DEF Init, Account!Init, NoBalances, NoBalance
<1>2. SInv /\ AInv /\ DInv /\ [Next]_vars => DInv'
  BY NextDInv
<1>3. SInv /\ AInv /\ DInv /\ EInv /\ [Next]_vars => EInv'
  BY NextEInv
<1>4. SInv /\ AInv /\ DInv /\ EInv /\ DInv' /\ EInv' /\ [Next]_vars
        => [Account!Next]_(Account!account)
  BY NextAccount
<1> QED
  BY InitSInv, NextSInv, InitAInv, NextAInv, InitDInv, InitEInv, <1>1, <1>2, <1>3, <1>4, PTL
     DEF Spec, AccountSpec, Account!Spec
-------------------------------------------------------------------------------
(* Types                                                                   *)

Filed == [status : Statuses, type : Types, span : Spans, by : Users,
          approver : Users \cup {Nobody}]
Kinds == {"idle", "create", "approve", "reject", "cancel", "list", "seed"}

\* A request that is about to be filed or decided was read whole.
TInv ==
  /\ TypeOK
  /\ \A w \in Workers : op[w] \in Decisions \cup {"create"} => task[w].row \in Filed

LEMMA NoneTyped ==
  /\ NoBalance \in Balance /\ NoBalances \in [Types -> Balance]
  /\ NoRequest \in Row /\ NoTask \in Task
<1>1. NoBalance \in Balance
  BY DEF NoBalance, Balance
<1>2. NoBalances \in [Types -> Balance]
  BY <1>1 DEF NoBalances
<1>3. NoRequest \in Row
  BY DEF Row
<1>4. NoTask \in Task
  BY <1>2, <1>3 DEF NoTask, TaskOf, Task
<1> QED BY <1>1, <1>2, <1>3, <1>4

LEMMA EnsuredType ==
  ASSUME month \in 1 .. 12, NEW b \in Balance, NEW rule \in Rules
  PROVE  Ensured(b, rule) \in Balance
<1> DEFINE a == AccruedFor(rule, month)
<1>1. a \in Nat /\ rule.quota \in Nat
  BY AccruedForNat, InputsAssumption DEF Rule
<1>2. b.open \in BOOLEAN /\ b.accrued \in Nat /\ b.used \in Nat
  BY DEF Balance
<1>3. Ensured(b, rule) = IF ~b.open
        THEN [open |-> TRUE, entitled |-> rule.quota, accrued |-> a, used |-> 0]
        ELSE [open |-> TRUE, entitled |-> rule.quota, accrued |-> Higher(b.accrued, a),
              used |-> b.used]
  BY Zenon DEF Ensured, a
<1> HIDE DEF a
<1>4. Higher(b.accrued, a) \in Nat
  BY <1>1, <1>2 DEF Higher
<1>5. [open |-> TRUE, entitled |-> rule.quota, accrued |-> a, used |-> 0] \in Balance
  BY <1>1 DEF Balance
<1>6. [open |-> TRUE, entitled |-> rule.quota, accrued |-> Higher(b.accrued, a),
       used |-> b.used] \in Balance
  BY <1>1, <1>2, <1>4 DEF Balance
<1> QED BY <1>3, <1>5, <1>6

LEMMA StoredType ==
  ASSUME NEW stored \in Balance, NEW seen \in Balance, NEW new \in Balance
  PROVE  Stored(stored, seen, new) \in Balance
<1>1. /\ Column(stored.entitled, seen.entitled, new.entitled) \in Nat
      /\ Column(stored.accrued, seen.accrued, new.accrued) \in Nat
      /\ Column(stored.used, seen.used, new.used) \in Nat
  BY DEF Column, Balance
<1>2. [open     |-> TRUE,
       entitled |-> Column(stored.entitled, seen.entitled, new.entitled),
       accrued  |-> Column(stored.accrued, seen.accrued, new.accrued),
       used     |-> Column(stored.used, seen.used, new.used)] \in Balance
  BY <1>1 DEF Balance
<1> QED BY <1>2 DEF Stored

LEMMA BalanceAfterType ==
  ASSUME NEW w \in Workers, NEW b \in Balance, task[w].row \in Filed
  PROVE  BalanceAfter(w, b) \in Balance
<1>1. task[w].row.span \in Spans
  BY DEF Filed
<1>2. PICK c \in Nat : c = Cost(task[w].row.span)
  BY <1>1, CostNat
<1>3. b.entitled \in Nat /\ b.accrued \in Nat /\ b.used \in Nat
  BY DEF Balance
<1> DEFINE used == IF op[w] = "approve" THEN b.used + c ELSE Higher(0, b.used - c)
<1>4. used \in Nat
  BY <1>2, <1>3 DEF Higher
<1>5. BalanceAfter(w, b) = [open |-> TRUE, entitled |-> b.entitled, accrued |-> b.accrued,
                            used |-> used]
  BY <1>2 DEF BalanceAfter
<1> HIDE DEF used
<1> QED BY <1>3, <1>4, <1>5 DEF Balance

LEMMA LeaveTyped ==
  ASSUME types' \in [Types -> Rules \cup {NoType}], month' \in 1 .. 12,
         balance' \in [Types -> Balance], request' \in [Requests -> Row],
         op' \in [Workers -> Kinds], task' \in [Workers -> Task],
         ceiling' \in [Types -> Nat], edits' \in 0 .. MaxEdits,
         \A w \in Workers : op'[w] \in Decisions \cup {"create"} => task'[w].row \in Filed
  PROVE  TInv'
BY DEF TInv, TypeOK, Kinds

LEMMA LeaveTypes ==
  ASSUME TInv
  PROVE  /\ types \in [Types -> Rules \cup {NoType}] /\ month \in 1 .. 12
         /\ balance \in [Types -> Balance] /\ request \in [Requests -> Row]
         /\ op \in [Workers -> Kinds] /\ task \in [Workers -> Task]
         /\ ceiling \in [Types -> Nat] /\ edits \in 0 .. MaxEdits
         /\ \A w \in Workers : op[w] \in Decisions \cup {"create"} => task[w].row \in Filed
BY DEF TInv, TypeOK, Kinds

\* A worker turns to another task.
LEMMA TurnTyped ==
  ASSUME TInv, NEW w \in Workers, NEW kind \in Kinds, NEW k \in Task,
         op' = [op EXCEPT ![w] = kind], task' = [task EXCEPT ![w] = k],
         kind \in Decisions \cup {"create"} => k.row \in Filed
  PROVE  /\ op' \in [Workers -> Kinds] /\ task' \in [Workers -> Task]
         /\ \A v \in Workers : op'[v] \in Decisions \cup {"create"} => task'[v].row \in Filed
BY LeaveTypes

LEMMA EndTyped ==
  ASSUME TInv, NEW w \in Workers, End(w)
  PROVE  /\ op' \in [Workers -> Kinds] /\ task' \in [Workers -> Task]
         /\ \A v \in Workers : op'[v] \in Decisions \cup {"create"} => task'[v].row \in Filed
<1>1. "idle" \in Kinds /\ "idle" \notin Decisions \cup {"create"}
  BY DEF Kinds, Decisions
<1> QED BY <1>1, NoneTyped, TurnTyped DEF End

LEMMA InitLeaveTyped == Init => TInv
<1> SUFFICES ASSUME Init PROVE TInv
  OBVIOUS
<1>1. 0 \in 0 .. MaxEdits
  BY InputsAssumption
<1>2. ceiling \in [Types -> Nat]
  BY InputsAssumption DEF Init, Rule
<1>3. "idle" \in Kinds /\ "idle" \notin Decisions \cup {"create"}
  BY DEF Kinds, Decisions
<1> QED BY <1>1, <1>2, <1>3, NoneTyped DEF Init, TInv, TypeOK

LEMMA CreateTyped ==
  ASSUME TInv, NEW w \in Workers, CreateLoad(w) \/ CreateCommit(w)
  PROVE  TInv'
<1>1. CASE CreateLoad(w)
  <2>1. PICK t \in Types, s \in Spans, u \in Users :
          Start(w, "create",
            TaskOf(Nobody, Nobody, [status |-> "PENDING", type |-> t, span |-> s,
                                    by |-> u, approver |-> Nobody]))
    BY <1>1 DEF CreateLoad
  <2> DEFINE row == [status |-> "PENDING", type |-> t, span |-> s, by |-> u,
                     approver |-> Nobody]
  <2>2. row \in Filed /\ row \in Row
    BY DEF Filed, Row, Statuses
  <2> DEFINE k == TaskOf(Nobody, Nobody, row)
  <2>3. Start(w, "create", k)
    BY <2>1
  <2> HIDE DEF row
  <2>4. k \in Task /\ k.row = row
    BY <2>2, NoneTyped DEF TaskOf, Task
  <2> HIDE DEF k
  <2>5. "create" \in Kinds
    BY DEF Kinds
  <2>6. /\ op' \in [Workers -> Kinds] /\ task' \in [Workers -> Task]
        /\ \A v \in Workers : op'[v] \in Decisions \cup {"create"} => task'[v].row \in Filed
    BY <2>2, <2>3, <2>4, <2>5, TurnTyped DEF Start
  <2> QED BY <1>1, <2>6, LeaveTypes, LeaveTyped DEF CreateLoad
<1>2. CASE CreateCommit(w)
  <2>1. task[w].row \in Row
    BY LeaveTypes DEF Task
  <2>2. request' \in [Requests -> Row]
    BY <1>2, <2>1, LeaveTypes DEF CreateCommit
  <2> QED BY <1>2, <2>2, EndTyped, LeaveTypes, LeaveTyped DEF CreateCommit
<1> QED BY <1>1, <1>2

LEMMA DecideLoadTyped ==
  ASSUME TInv, NEW w \in Workers, DecideLoad(w)
  PROVE  TInv'
<1>1. PICK kind \in Decisions, r \in Requests, u \in Users :
        /\ request[r].status \in Allowed(kind)
        /\ Start(w, kind, TaskOf(r, u, request[r]))
  BY DEF DecideLoad
<1>2. request[r] \in Row /\ request[r] # NoRequest
  BY <1>1, LeaveTypes DEF Allowed, Active, NoRequest
<1>3. request[r] \in Filed
  BY <1>2 DEF Row, Filed
<1> DEFINE k == TaskOf(r, u, request[r])
<1>4. k \in Task /\ k.row = request[r]
  BY <1>2, NoneTyped DEF TaskOf, Task
<1>5. Start(w, kind, k) /\ kind \in Kinds
  BY <1>1 DEF Kinds, Decisions
<1> HIDE DEF k
<1>6. /\ op' \in [Workers -> Kinds] /\ task' \in [Workers -> Task]
      /\ \A v \in Workers : op'[v] \in Decisions \cup {"create"} => task'[v].row \in Filed
  BY <1>3, <1>4, <1>5, TurnTyped DEF Start
<1> QED BY <1>6, LeaveTypes, LeaveTyped DEF DecideLoad

LEMMA HoldingType ==
  ASSUME NEW k \in Task, NEW seen \in [Types -> Balance], NEW new \in [Types -> Balance]
  PROVE  Holding(k, seen, new) \in Task /\ Holding(k, seen, new).row = k.row
BY DEF Holding, Task

LEMMA DecideReadTyped ==
  ASSUME TInv, AInv, NEW w \in Workers, DecideRead(w)
  PROVE  TInv'
<1> DEFINE t == task[w].row.type
           b == Ensured(balance[t], types[t])
           touched == Debits(w) \/ Credits(w)
           seen == [NoBalances EXCEPT ![t] = IF touched THEN balance[t] ELSE NoBalance]
           new == [NoBalances EXCEPT ![t] = IF touched THEN BalanceAfter(w, b)
                                            ELSE NoBalance]
<1>1. /\ task' = [task EXCEPT ![w] = Holding(task[w], seen, new)]
      /\ UNCHANGED <<types, month, balance, request, op, ceiling, edits>>
      /\ op[w] \in Decisions
  BY Zenon DEF DecideRead
<1>2. t \in Types /\ types[t] \in Rules
  BY <1>1 DEF AInv, TypesExist, AShapes
<1>3. task[w].row \in Filed /\ balance[t] \in Balance /\ month \in 1 .. 12
  BY <1>1, <1>2, LeaveTypes
<1>4. BalanceAfter(w, b) \in Balance
  <2>1. b \in Balance
    BY <1>2, <1>3, EnsuredType
  <2> QED BY <1>3, <2>1, BalanceAfterType
<1> HIDE DEF b, touched
<1>5. seen \in [Types -> Balance] /\ new \in [Types -> Balance]
  BY <1>3, <1>4, NoneTyped
<1> HIDE DEF seen, new
<1> DEFINE k == Holding(task[w], seen, new)
<1>6. k \in Task /\ k.row = task[w].row
  BY <1>5, LeaveTypes, HoldingType
<1>7. task' = [task EXCEPT ![w] = k]
  BY <1>1
<1> HIDE DEF k
<1>8. task' \in [Workers -> Task] /\ \A v \in Workers : task'[v].row = task[v].row
  BY <1>6, <1>7, LeaveTypes
<1> QED BY <1>1, <1>8, LeaveTypes, LeaveTyped

LEMMA DecidedType ==
  ASSUME NEW row \in Filed, NEW kind \in Decisions, NEW u \in Users \cup {Nobody}
  PROVE  Decided(row, kind, u) \in Filed
BY DEF Decided, Filed, Outcome, Statuses

LEMMA DecideCommitTyped ==
  ASSUME TInv, SInv, NEW w \in Workers, DecideCommit(w)
  PROVE  TInv'
<1> DEFINE r == task[w].target
           by == Column(request[r].approver, task[w].row.approver, task[w].actor)
<1>1. op[w] \in Decisions /\ r \in Requests /\ request[r].status # "NONE"
      /\ task[w].actor \in Users
  BY DEF DecideCommit, SInv, TasksSegregated
<1>2. request[r] \in Filed
  BY <1>1, LeaveTypes DEF Row, Filed, NoRequest
<1>3. by \in Users \cup {Nobody}
  BY <1>1, <1>2 DEF Column, Filed
<1>4. request' = [request EXCEPT ![r] = Decided(request[r], op[w], by)]
  BY DEF DecideCommit
<1> HIDE DEF r, by
<1>5. Decided(request[r], op[w], by) \in Row
  <2>1. Decided(request[r], op[w], by) \in Filed
    BY <1>1, <1>2, <1>3, DecidedType
  <2> QED BY <2>1 DEF Row, Filed
<1>6. request' \in [Requests -> Row]
  BY <1>1, <1>4, <1>5, LeaveTypes
<1>7. balance' \in [Types -> Balance]
  <2>1. \A t \in Types : Stored(balance[t], task[w].seen[t], task[w].new[t]) \in Balance
    BY LeaveTypes, StoredType DEF Task
  <2> QED BY <2>1 DEF DecideCommit
<1> QED BY <1>6, <1>7, EndTyped, LeaveTypes, LeaveTyped DEF DecideCommit

LEMMA ListTyped ==
  ASSUME TInv, NEW w \in Workers, ListLoad(w) \/ ListCommit(w)
  PROVE  TInv'
<1>1. CASE ListLoad(w)
  <2> DEFINE listed == {t \in Types : types[t] # NoType /\ types[t].active /\ types[t].paid}
             seen == [t \in Types |-> IF t \in listed THEN balance[t] ELSE NoBalance]
             new == [t \in Types |-> IF t \in listed THEN Ensured(balance[t], types[t])
                                     ELSE NoBalance]
  <2>1. /\ Start(w, "list", Holding(NoTask, seen, new))
        /\ UNCHANGED <<types, month, balance, request, ceiling, edits>>
    BY <1>1, Zenon DEF ListLoad
  <2>2. seen \in [Types -> Balance]
    BY LeaveTypes, NoneTyped
  <2>3. new \in [Types -> Balance]
    <3>1. ASSUME NEW t \in listed PROVE Ensured(balance[t], types[t]) \in Balance
      <4>1. types[t] \in Rules /\ balance[t] \in Balance /\ month \in 1 .. 12
        BY <3>1, LeaveTypes
      <4> QED BY <4>1, EnsuredType
    <3> HIDE DEF listed
    <3> QED BY <3>1, NoneTyped
  <2> HIDE DEF seen, new
  <2> DEFINE k == Holding(NoTask, seen, new)
  <2>4. k \in Task
    BY <2>2, <2>3, NoneTyped, HoldingType
  <2>5. Start(w, "list", k)
    BY <2>1
  <2> HIDE DEF k
  <2>6. "list" \in Kinds /\ "list" \notin Decisions \cup {"create"}
    BY DEF Kinds, Decisions
  <2>7. /\ op' \in [Workers -> Kinds] /\ task' \in [Workers -> Task]
        /\ \A v \in Workers : op'[v] \in Decisions \cup {"create"} => task'[v].row \in Filed
    BY <2>4, <2>5, <2>6, TurnTyped DEF Start
  <2> QED BY <2>1, <2>7, LeaveTypes, LeaveTyped
<1>2. CASE ListCommit(w)
  <2>1. balance' \in [Types -> Balance]
    <3>1. \A t \in Types : Stored(balance[t], task[w].seen[t], task[w].new[t]) \in Balance
      BY LeaveTypes, StoredType DEF Task
    <3> QED BY <1>2, <3>1 DEF ListCommit
  <2> QED BY <1>2, <2>1, EndTyped, LeaveTypes, LeaveTyped DEF ListCommit
<1> QED BY <1>1, <1>2

LEMMA SeedTyped ==
  ASSUME TInv, NEW w \in Workers, SeedLoad(w) \/ SeedCommit(w)
  PROVE  TInv'
<1>1. CASE SeedLoad(w)
  <2>1. PICK missing \in SUBSET {t \in Types : types[t] = NoType} :
          Start(w, "seed",
            [target |-> Nobody, actor |-> Nobody, row |-> NoRequest, ready |-> FALSE,
             seen |-> NoBalances, new |-> NoBalances, codes |-> missing])
    BY <1>1 DEF SeedLoad
  <2> DEFINE k == [target |-> Nobody, actor |-> Nobody, row |-> NoRequest, ready |-> FALSE,
                   seen |-> NoBalances, new |-> NoBalances, codes |-> missing]
  <2>2. k \in Task
    BY NoneTyped DEF Task
  <2>3. Start(w, "seed", k)
    BY <2>1
  <2> HIDE DEF k
  <2>4. "seed" \in Kinds /\ "seed" \notin Decisions \cup {"create"}
    BY DEF Kinds, Decisions
  <2>5. /\ op' \in [Workers -> Kinds] /\ task' \in [Workers -> Task]
        /\ \A v \in Workers : op'[v] \in Decisions \cup {"create"} => task'[v].row \in Filed
    BY <2>2, <2>3, <2>4, TurnTyped DEF Start
  <2>6. edits' \in 0 .. MaxEdits
    BY <1>1, LeaveTypes, InputsAssumption DEF SeedLoad
  <2> QED BY <1>1, <2>5, <2>6, LeaveTypes, LeaveTyped DEF SeedLoad
<1>2. CASE SeedCommit(w)
  <2>1. PICK rule \in Rules :
          /\ types' = [t \in Types |-> IF t \in task[w].codes THEN rule ELSE types[t]]
          /\ ceiling' = [t \in Types |-> IF t \in task[w].codes THEN rule.quota ELSE ceiling[t]]
    BY <1>2 DEF SeedCommit
  <2>2. rule.quota \in Nat
    BY InputsAssumption DEF Rule
  <2>3. types' \in [Types -> Rules \cup {NoType}] /\ ceiling' \in [Types -> Nat]
    BY <2>1, <2>2, LeaveTypes
  <2> QED BY <1>2, <2>3, EndTyped, LeaveTypes, LeaveTyped DEF SeedCommit
<1> QED BY <1>1, <1>2

LEMMA ConfigTyped ==
  ASSUME TInv, (\E t \in Types : UpdateType(t)) \/ NextMonth
  PROVE  TInv'
<1>1. edits' \in 0 .. MaxEdits
  BY LeaveTypes, InputsAssumption DEF UpdateType, NextMonth
<1>2. CASE NextMonth
  <2>1. month' \in 1 .. 12
    BY <1>2, LeaveTypes DEF NextMonth
  <2> QED BY <1>1, <1>2, <2>1, LeaveTypes, LeaveTyped DEF NextMonth
<1>3. ASSUME NEW t \in Types, UpdateType(t) PROVE TInv'
  <2>1. PICK rule \in Rules :
          /\ types' = [types EXCEPT ![t] = rule]
          /\ ceiling' = [ceiling EXCEPT ![t] = Higher(@, rule.quota)]
    BY <1>3 DEF UpdateType
  <2>2. Higher(ceiling[t], rule.quota) \in Nat
    BY LeaveTypes, InputsAssumption DEF Higher, Rule
  <2>3. types' \in [Types -> Rules \cup {NoType}] /\ ceiling' \in [Types -> Nat]
    BY <2>1, <2>2, LeaveTypes
  <2> QED BY <1>1, <1>3, <2>3, LeaveTypes, LeaveTyped DEF UpdateType
<1> QED BY <1>2, <1>3

LEMMA NextLeaveTyped == TInv /\ SInv /\ AInv /\ [Next]_vars => TInv'
<1> SUFFICES ASSUME TInv, SInv, AInv, [Next]_vars PROVE TInv'
  OBVIOUS
<1>1. CASE UNCHANGED vars
  BY <1>1, LeaveTypes, LeaveTyped DEF vars
<1>2. ASSUME NEW w \in Workers, Refuse(w) \/ FailInsert(w) \/ Abandon(w) PROVE TInv'
  BY <1>2, EndTyped, LeaveTypes, LeaveTyped DEF Refuse, FailInsert, Abandon
<1>3. ASSUME NEW w \in Workers,
             CreateLoad(w) \/ CreateCommit(w) \/ DecideLoad(w) \/ DecideRead(w)
               \/ DecideCommit(w) \/ ListLoad(w) \/ ListCommit(w) \/ SeedLoad(w) \/ SeedCommit(w)
      PROVE  TInv'
  BY <1>3, CreateTyped, DecideLoadTyped, DecideReadTyped, DecideCommitTyped, ListTyped, SeedTyped
<1>4. CASE (\E t \in Types : UpdateType(t)) \/ NextMonth
  BY <1>4, ConfigTyped
<1> QED BY <1>1, <1>2, <1>3, <1>4 DEF Next

(* Type correctness of the leave ledger: whatever the interleaving, every  *)
(* balance stays a row of natural numbers - no rounding of the monthly     *)
(* share, no cancellation and no overwritten column makes one negative -   *)
(* and every request row stays either absent or complete.                  *)
THEOREM TypeCorrect == Spec => []TypeOK
<1>1. TInv => TypeOK
  BY DEF TInv
<1> QED BY InitSInv, NextSInv, InitAInv, NextAInv, InitLeaveTyped, NextLeaveTyped, <1>1, PTL
        DEF Spec
===============================================================================
