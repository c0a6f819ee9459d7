-------------------------- MODULE PayrollCycleProofs --------------------------
(***************************************************************************)
(* Whatever requests overlap, and however late one that loaded an old      *)
(* state commits, no money is released without a committed approval of a   *)
(* run.  PaidWasApproved is not inductive: a request that passed its       *)
(* status check carries the decision it relies on, and so does the         *)
(* PROCESSING state, so the invariant also speaks of them.                 *)
(*                                                                         *)
(* The headcount of a cycle is backed by payslips under any overlap too.   *)
(* When requests do not overlap, the totals are the sum of the payslips    *)
(* and every step is one of PayrollLifecycle.                              *)
(***************************************************************************)
EXTENDS PayrollCycle, FiniteSetTheorems, DataLemmas, TLAPS

CycleRow(c) ==
  /\ c = [status |-> c.status, deleted |-> c.deleted, totals |-> c.totals]
  /\ c.status \in Statuses

SlipRow(s) ==
  s = [exists |-> s.exists, net |-> s.net, paid |-> s.paid, stamped |-> s.stamped]

Shapes ==
  /\ CycleRow(cycle)
  /\ \A e \in Employees : SlipRow(slips[e])
  /\ op \in [Workers -> Requests \cup {"idle"}]

\* The milestones that a state of the cycle, or a request past its status
\* check, presupposes.
StateBacked ==
  /\ cycle.status = "PROCESSING" => "run" \in history
  /\ cycle.status = "APPROVED" => {"run", "approved"} \subseteq history
  /\ cycle.status = "PAID" => {"run", "approved", "paid"} \subseteq history

SlipsBacked ==
  \A e \in Employees :
    slips[e].stamped => {"run", "approved", "paid"} \subseteq history

RequestsBacked ==
  \A w \in Workers :
    /\ op[w] = "approve" => "run" \in history
    /\ op[w] = "pay" => {"run", "approved"} \subseteq history

IInv == Shapes /\ StateBacked /\ SlipsBacked /\ RequestsBacked

-------------------------------------------------------------------------------
(* No payslip and no decision exists initially.                            *)
LEMMA InitIInv == Init => IInv
  BY DEF Init, IInv, Shapes, CycleRow, SlipRow, StateBacked, SlipsBacked,
         RequestsBacked, NewCycle, NoSlip, Statuses, Requests, Decisions

(* A request that passes its status check relies on a decision already made. *)
LEMMA LoadIInv ==
  ASSUME IInv, NEW w \in Workers, NEW request \in Requests, NEW allowed,
         Load(w, request, allowed), UNCHANGED <<cycle, slips, history>>,
         request = "approve" => allowed = {"PROCESSING"},
         request = "pay" => allowed = {"APPROVED"}
  PROVE  IInv'
<1>1. Shapes'
  BY DEF IInv, Shapes, Load, CycleRow, SlipRow
<1>2. StateBacked' /\ SlipsBacked'
  BY DEF IInv, StateBacked, SlipsBacked
<1>3. RequestsBacked'
  BY DEF IInv, Shapes, RequestsBacked, StateBacked, Load
<1> QED BY <1>1, <1>2, <1>3 DEF IInv

(* A request that only ends, or ends changing no milestone, backs nothing new. *)
LEMMA EndRequests ==
  ASSUME IInv, NEW w \in Workers, End(w), history \subseteq history'
  PROVE  /\ RequestsBacked'
         /\ op' \in [Workers -> Requests \cup {"idle"}]
  BY DEF IInv, Shapes, RequestsBacked, End

(* A flush stamps no payslip.                                              *)
LEMMA FlushStampsNothing ==
  ASSUME NEW m, NEW e \in Employees, SlipRow(slips[e])
  PROVE  /\ SlipRow(SlipAfter(m, e))
         /\ SlipAfter(m, e).stamped => slips[e].stamped
  BY DEF SlipAfter, SlipRow

(* The commit of a run leaves a decided status alone or sets PROCESSING.   *)
LEMMA RunCommitIInv ==
  ASSUME IInv, NEW w \in Workers, RunCommit(w)
  PROVE  IInv'
<1>1. /\ history' = history \cup {"run"}
      /\ End(w)
      /\ slips' = [e \in Employees |-> SlipAfter(memo[w], e)]
  BY DEF RunCommit
<1>2. /\ CycleRow(cycle)'
      /\ cycle'.status \in {cycle.status, "PROCESSING"}
  BY DEF RunCommit, IInv, Shapes, CycleRow, Column, Statuses
<1>3. /\ (\A e \in Employees : SlipRow(slips[e]))'
      /\ \A e \in Employees : slips'[e].stamped => slips[e].stamped
  <2> SUFFICES ASSUME NEW e \in Employees
               PROVE  SlipRow(slips[e])' /\ (slips'[e].stamped => slips[e].stamped)
    OBVIOUS
  <2>1. SlipRow(slips[e])
    BY DEF IInv, Shapes
  <2>2. slips'[e] = SlipAfter(memo[w], e)
    BY <1>1
  <2> QED BY <2>1, <2>2, FlushStampsNothing DEF SlipRow
<1>4. Shapes'
  <2>1. op' \in [Workers -> Requests \cup {"idle"}]
    BY <1>1, EndRequests
  <2>2. CycleRow(cycle)'
    BY <1>2
  <2>3. (\A e \in Employees : SlipRow(slips[e]))'
    BY <1>3
  <2> QED BY <2>1, <2>2, <2>3 DEF Shapes
<1>5. StateBacked' /\ SlipsBacked'
  <2>1. StateBacked'
    BY <1>1, <1>2 DEF IInv, StateBacked
  <2>2. SlipsBacked'
    <3>1. \A e \in Employees : slips'[e].stamped => slips[e].stamped
      BY <1>3
    <3> QED BY <1>1, <3>1 DEF IInv, SlipsBacked
  <2> QED BY <2>1, <2>2
<1> QED BY <1>1, <1>4, <1>5, EndRequests DEF IInv

(* Every step preserves the inductive invariant.                           *)
LEMMA NextIInv == IInv /\ [Next]_vars => IInv'
<1> SUFFICES ASSUME IInv, [Next]_vars PROVE IInv'
  OBVIOUS
<1>1. ASSUME NEW w \in Workers, RunLoad(w) PROVE IInv'
  BY <1>1, LoadIInv DEF RunLoad, Requests
<1>2. ASSUME NEW w \in Workers, DecideLoad(w) PROVE IInv'
  <2>1. PICK request \in Decisions : Load(w, request, Allowed(request))
    BY <1>2 DEF DecideLoad
  <2>2. /\ request = "approve" => Allowed(request) = {"PROCESSING"}
        /\ request = "pay" => Allowed(request) = {"APPROVED"}
    BY DEF Allowed
  <2> QED BY <1>2, <2>1, <2>2, LoadIInv DEF DecideLoad, Requests
<1>3. ASSUME NEW w \in Workers, AdjustLoad(w) PROVE IInv'
  <2>1. PICK a \in Adjustments :
          Load(w, IF a \in adjustments THEN "remove" ELSE "add", Editable)
    BY <1>3 DEF AdjustLoad
  <2> QED BY <1>3, <2>1, LoadIInv DEF AdjustLoad, Requests
<1>4. ASSUME NEW w \in Workers, End(w), UNCHANGED <<cycle, slips, history>>
      PROVE  IInv'
  <2>1. Shapes'
    BY <1>4, EndRequests DEF IInv, Shapes, CycleRow, SlipRow
  <2> QED BY <1>4, <2>1, EndRequests DEF IInv, StateBacked, SlipsBacked
<1>5. ASSUME NEW w \in Workers, Approve(w) PROVE IInv'
  <2>1. CycleRow(cycle)' /\ cycle'.status = "APPROVED"
    BY <1>5 DEF Approve, IInv, Shapes, CycleRow, Statuses
  <2>2. Shapes'
    BY <1>5, <2>1, EndRequests DEF Approve, IInv, Shapes, SlipRow
  <2>3. StateBacked' /\ SlipsBacked'
    BY <1>5, <2>1 DEF Approve, IInv, RequestsBacked, StateBacked, SlipsBacked
  <2> QED BY <1>5, <2>2, <2>3, EndRequests DEF Approve, IInv
<1>6. ASSUME NEW w \in Workers, MarkPaid(w) PROVE IInv'
  <2>1. CycleRow(cycle)' /\ cycle'.status = "PAID"
    BY <1>6 DEF MarkPaid, IInv, Shapes, CycleRow, Statuses
  <2>2. \A e \in Employees : SlipRow(slips'[e])
    BY <1>6 DEF MarkPaid, IInv, Shapes, SlipRow
  <2>3. {"run", "approved", "paid"} \subseteq history'
    BY <1>6 DEF MarkPaid, IInv, RequestsBacked
  <2>4. Shapes'
    BY <1>6, <2>1, <2>2, EndRequests DEF MarkPaid, Shapes
  <2>5. StateBacked' /\ SlipsBacked'
    BY <2>3 DEF StateBacked, SlipsBacked
  <2> QED BY <1>6, <2>4, <2>5, EndRequests DEF MarkPaid, IInv
<1>7. ASSUME NEW w \in Workers, Cancel(w) PROVE IInv'
  <2>1. CycleRow(cycle)' /\ cycle'.status \in {cycle.status, "CANCELLED"}
    BY <1>7 DEF Cancel, Column, IInv, Shapes, CycleRow, Statuses
  <2>2. Shapes'
    BY <1>7, <2>1, EndRequests DEF Cancel, IInv, Shapes, SlipRow
  <2> QED BY <1>7, <2>1, <2>2, EndRequests DEF Cancel, IInv, StateBacked, SlipsBacked
<1>8. ASSUME NEW w \in Workers, Delete(w) PROVE IInv'
  <2>1. CycleRow(cycle)' /\ cycle'.status = cycle.status
    BY <1>8 DEF Delete, IInv, Shapes, CycleRow
  <2>2. Shapes'
    BY <1>8, <2>1, EndRequests DEF Delete, IInv, Shapes, SlipRow
  <2> QED BY <1>8, <2>1, <2>2, EndRequests DEF Delete, IInv, StateBacked, SlipsBacked
<1>9. ASSUME UNCHANGED <<cycle, slips, op, history>> PROVE IInv'
  BY <1>9 DEF IInv, Shapes, CycleRow, SlipRow, StateBacked, SlipsBacked, RequestsBacked
<1> QED
  BY <1>1, <1>2, <1>3, <1>4, <1>5, <1>6, <1>7, <1>8, <1>9, RunCommitIInv
     DEF Next, vars, RunEmployee, RunFlush, RunConflict, AdjustCommit, Abandon,
         SetStructure, SetTimesheet

-------------------------------------------------------------------------------
(* However requests interleave, a cycle is PAID and a payslip stamped only *)
(* after a committed approval, and approved only after a committed run.    *)
THEOREM NothingPaidUnapproved == Spec => []PaidWasApproved
<1>1. IInv => PaidWasApproved
  BY DEF IInv, StateBacked, SlipsBacked, PaidWasApproved
<1> QED BY <1>1, InitIInv, NextIInv, PTL DEF Spec
-------------------------------------------------------------------------------
(* The headcount of overlapping runs                                       *)

OnFile(rows) == {e \in Employees : rows[e].exists}

\* The employees with a payslip once run m commits: a payslip is never
\* withdrawn, whatever is stored before that.
OnFileAfter(m, rows) == {e \in Employees : m.net[e] # Skip \/ rows[e].exists}

\* What m summed counts no one who will be without a payslip.
MemoBacked(m, rows) ==
  /\ \A e \in Employees : m.loaded[e].exists => rows[e].exists
  /\ m.flushed => /\ m.todo = {}
                  /\ m.totals.headcount \in 0 .. Cardinality(OnFileAfter(m, rows))

MemoRow(m) ==
  /\ m = [adj |-> m.adj, todo |-> m.todo, loaded |-> m.loaded, net |-> m.net,
          flushed |-> m.flushed, totals |-> m.totals]
  /\ m.loaded = [e \in Employees |-> m.loaded[e]]
  /\ m.net = [e \in Employees |-> m.net[e]]

HInv ==
  /\ memo = [w \in Workers |-> memo[w]]
  /\ \A w \in Workers : MemoRow(memo[w]) /\ MemoBacked(memo[w], slips)
  /\ cycle.totals.headcount \in 0 .. Cardinality(OnFile(slips))

(* A headcount that some employees back is backed by more of them.         *)
LEMMA BackedByMore ==
  ASSUME NEW S, NEW T \in SUBSET Employees, S \subseteq T,
         NEW n \in 0 .. Cardinality(S)
  PROVE  n \in 0 .. Cardinality(T)
<1>1. IsFiniteSet(T)
  BY InputsAssumption, FS_Subset
<1>2. IsFiniteSet(S) /\ Cardinality(S) <= Cardinality(T)
  BY <1>1, FS_Subset
<1>3. Cardinality(S) \in Nat /\ Cardinality(T) \in Nat
  BY <1>1, <1>2, FS_CardinalityType
<1> QED BY <1>2, <1>3

(* Payslips stored by others take nobody away from what a run counted.     *)
LEMMA BackedLater ==
  ASSUME NEW m, NEW rows, NEW later, MemoBacked(m, rows),
         \A e \in Employees : rows[e].exists => later[e].exists
  PROVE  MemoBacked(m, later)
<1>1. OnFileAfter(m, rows) \subseteq OnFileAfter(m, later)
  BY DEF OnFileAfter
<1>2. OnFileAfter(m, later) \in SUBSET Employees
  BY DEF OnFileAfter
<1> QED BY <1>1, <1>2, BackedByMore DEF MemoBacked

(* Nor do they take anybody off the file.                                  *)
LEMMA OnFileGrows ==
  ASSUME NEW rows, NEW later, NEW n \in 0 .. Cardinality(OnFile(rows)),
         \A e \in Employees : rows[e].exists => later[e].exists
  PROVE  n \in 0 .. Cardinality(OnFile(later))
<1>1. OnFile(rows) \subseteq OnFile(later) /\ OnFile(later) \in SUBSET Employees
  BY DEF OnFile
<1> QED BY <1>1, BackedByMore

(* A request that has computed nothing counts no one.                      *)
LEMMA EmptyMemo ==
  ASSUME NEW rows
  PROVE  MemoRow(NoMemo) /\ MemoBacked(NoMemo, rows)
  BY DEF MemoRow, MemoBacked, NoMemo, NoSlip

LEMMA InitHInv == Init => HInv
<1> SUFFICES ASSUME Init PROVE HInv
  OBVIOUS
<1>1. 0 \in 0 .. Cardinality(OnFile(slips))
  <2>1. OnFile(slips) \in SUBSET Employees
    BY DEF OnFile
  <2> QED BY <2>1, InputsAssumption, FS_Subset, FS_CardinalityType
<1> QED BY <1>1, EmptyMemo DEF Init, HInv, NewCycle, NoTotals

(* No commit withdraws a payslip.                                          *)
LEMMA SlipsStay ==
  ASSUME IInv, [Next]_vars, NEW e \in Employees, slips[e].exists
  PROVE  slips'[e].exists
<1>1. SlipRow(slips[e])
  BY DEF IInv, Shapes
<1>2. ASSUME NEW w \in Workers, RunCommit(w) PROVE slips'[e].exists
  BY <1>1, <1>2 DEF RunCommit, SlipAfter, SlipRow
<1>3. ASSUME NEW w \in Workers, MarkPaid(w) PROVE slips'[e].exists
  BY <1>1, <1>3 DEF MarkPaid, SlipRow
<1> QED
  BY <1>2, <1>3 DEF Next, vars, RunLoad, RunFlush, RunConflict, RunEmployee, DecideLoad,
     Approve, Cancel, Delete, AdjustLoad, AdjustCommit, Abandon, SetStructure, SetTimesheet

(* The roll-up counts payslips that exist or that its own commit inserts.  *)
LEMMA FlushBacked ==
  ASSUME NEW m, MemoRow(m), MemoBacked(m, slips), m.todo = {},
         NEW n, n = [m EXCEPT !.flushed = TRUE, !.totals = TotalsOf(m)]
  PROVE  MemoRow(n) /\ MemoBacked(n, slips)
<1> DEFINE present == {e \in Employees : View(m, e).exists}
<1>1. n = [adj |-> m.adj, todo |-> {}, loaded |-> m.loaded, net |-> m.net,
           flushed |-> TRUE, totals |-> TotalsOf(m)]
  BY DEF MemoRow
<1>2. MemoRow(n)
  BY <1>1 DEF MemoRow
<1>3. present \subseteq OnFileAfter(n, slips)
  BY <1>1 DEF OnFileAfter, View, MemoBacked
<1>4. OnFileAfter(n, slips) \in SUBSET Employees
  BY DEF OnFileAfter
<1>5. n.totals.headcount = Cardinality(present)
  <2> DEFINE sum == MapThenSumSet(LAMBDA e : View(m, e).net, present)
             rest == {e \in Employees : m.net[e] = Skip}
  <2>1. TotalsOf(m) = [headcount |-> Cardinality(present), net |-> sum, skipped |-> rest]
    BY DEF TotalsOf
  <2> HIDE DEF sum, rest, present
  <2> QED BY <1>1, <2>1
<1>6. Cardinality(present) \in 0 .. Cardinality(present)
  <2>1. IsFiniteSet(present)
    BY InputsAssumption, FS_Subset
  <2> QED BY <2>1, FS_CardinalityType
<1>7. n.totals.headcount \in 0 .. Cardinality(OnFileAfter(n, slips))
  <2> HIDE DEF present
  <2> QED BY <1>3, <1>4, <1>5, <1>6, BackedByMore
<1>8. MemoBacked(n, slips)
  BY <1>1, <1>7 DEF MemoBacked
<1> QED BY <1>2, <1>8

(* Everybody a run counted has a payslip when it has committed.            *)
LEMMA CommitBacked ==
  ASSUME IInv, HInv, NEW w \in Workers, RunCommit(w)
  PROVE  cycle'.totals.headcount \in 0 .. Cardinality(OnFile(slips'))
<1>1. \A e \in Employees : slips[e].exists => slips'[e].exists
  BY SlipsStay DEF Next
<1>2. /\ memo[w].flushed
      /\ slips' = [e \in Employees |-> SlipAfter(memo[w], e)]
      /\ cycle'.totals \in {cycle.totals, memo[w].totals}
  BY DEF RunCommit, Column, IInv, Shapes, CycleRow
<1>3. CASE cycle'.totals = cycle.totals
  BY <1>1, <1>3, OnFileGrows DEF HInv
<1>4. CASE cycle'.totals = memo[w].totals
  <2>1. OnFileAfter(memo[w], slips) \subseteq OnFile(slips')
    <3> SUFFICES ASSUME NEW e \in Employees, memo[w].net[e] # Skip \/ slips[e].exists
                 PROVE  slips'[e].exists
      BY DEF OnFileAfter, OnFile
    <3>1. SlipRow(slips[e])
      BY DEF IInv, Shapes
    <3>2. memo[w].loaded[e].exists => slips[e].exists
      BY DEF HInv, MemoBacked
    <3> QED BY <1>2, <3>1, <3>2 DEF SlipAfter, SlipRow
  <2>2. OnFile(slips') \in SUBSET Employees
    BY DEF OnFile
  <2>3. memo[w].totals.headcount \in 0 .. Cardinality(OnFileAfter(memo[w], slips))
    BY <1>2 DEF HInv, MemoBacked
  <2> QED BY <1>4, <2>1, <2>2, <2>3, BackedByMore
<1> QED BY <1>2, <1>3, <1>4

(* What a step does to the memory of one worker.                           *)
LEMMA MemoStep ==
  ASSUME IInv, HInv, [Next]_vars, NEW w \in Workers
  PROVE  MemoRow(memo'[w]) /\ MemoBacked(memo'[w], slips')
<1>1. \A e \in Employees : slips[e].exists => slips'[e].exists
  BY SlipsStay
<1>2. MemoRow(memo[w]) /\ MemoBacked(memo[w], slips)
  BY DEF HInv
<1>3. MemoBacked(memo[w], slips')
  BY <1>1, <1>2, BackedLater
<1>4. memo = [v \in Workers |-> memo[v]]
  BY DEF HInv
<1>5. ASSUME memo'[w] \in {memo[w], NoMemo}
      PROVE  MemoRow(memo'[w]) /\ MemoBacked(memo'[w], slips')
  BY <1>2, <1>3, <1>5, EmptyMemo
<1>6. ASSUME NEW v \in Workers, End(v)
      PROVE  memo'[w] \in {memo[w], NoMemo}
  BY <1>4, <1>6 DEF End
<1>7. ASSUME NEW v \in Workers, RunLoad(v)
      PROVE  MemoRow(memo'[w]) /\ MemoBacked(memo'[w], slips')
  BY <1>2, <1>4, <1>5, <1>7 DEF RunLoad, MemoRow, MemoBacked, NoMemo, NoSlip
<1>8. ASSUME NEW v \in Workers, AdjustLoad(v)
      PROVE  MemoRow(memo'[w]) /\ MemoBacked(memo'[w], slips')
  <2>1. PICK a \in Adjustments : memo' = [memo EXCEPT ![v].adj = {a}]
    BY <1>8 DEF AdjustLoad
  <2>2. slips' = slips
    BY <1>8 DEF AdjustLoad
  <2>3. CASE w = v
    <3>1. memo'[w] = [adj |-> {a}, todo |-> memo[w].todo, loaded |-> memo[w].loaded,
                      net |-> memo[w].net, flushed |-> memo[w].flushed,
                      totals |-> memo[w].totals]
      BY <1>2, <1>4, <2>1, <2>3 DEF MemoRow
    <3>2. MemoRow(memo'[w])
      BY <1>2, <3>1 DEF MemoRow
    <3>3. OnFileAfter(memo'[w], slips') = OnFileAfter(memo[w], slips)
      BY <2>2, <3>1 DEF OnFileAfter
    <3> QED BY <1>2, <2>2, <3>1, <3>2, <3>3 DEF MemoBacked
  <2>4. CASE w # v
    BY <1>4, <1>5, <2>1, <2>4
  <2> QED BY <2>3, <2>4
<1>9. ASSUME NEW v \in Workers, NEW e \in Employees, RunEmployee(v, e)
      PROVE  MemoRow(memo'[w]) /\ MemoBacked(memo'[w], slips')
  <2>1. CASE w = v
    <3>1. memo'[w] = [adj |-> memo[w].adj, todo |-> memo[w].todo \ {e},
                      loaded |-> [memo[w].loaded EXCEPT
                        ![e] = IF structure[e] = None THEN NoSlip ELSE slips[e]],
                      net |-> [memo[w].net EXCEPT
                        ![e] = NetPay(structure[e], timesheet[e], memo[w].adj, e)],
                      flushed |-> memo[w].flushed, totals |-> memo[w].totals]
      BY <1>2, <1>4, <1>9, <2>1 DEF RunEmployee, MemoRow
    <3>2. ~memo[w].flushed /\ slips' = slips
      BY <1>2, <1>9, <2>1 DEF RunEmployee, MemoBacked
    <3>3. MemoRow(memo'[w])
      <4>1. memo'[w].loaded = [x \in Employees |-> memo'[w].loaded[x]]
        <5>1. memo[w].loaded = [x \in Employees |-> memo[w].loaded[x]]
          BY <1>2 DEF MemoRow
        <5>2. memo'[w].loaded = [memo[w].loaded EXCEPT
                ![e] = IF structure[e] = None THEN NoSlip ELSE slips[e]]
          BY <3>1
        <5> QED BY <5>1, <5>2
      <4>2. memo'[w].net = [x \in Employees |-> memo'[w].net[x]]
        <5>1. memo[w].net = [x \in Employees |-> memo[w].net[x]]
          BY <1>2 DEF MemoRow
        <5>2. memo'[w].net = [memo[w].net EXCEPT
                ![e] = NetPay(structure[e], timesheet[e], memo[w].adj, e)]
          BY <3>1
        <5> QED BY <5>1, <5>2
      <4> QED BY <3>1, <4>1, <4>2 DEF MemoRow
    <3>4. \A x \in Employees : memo'[w].loaded[x].exists => slips'[x].exists
      BY <1>2, <3>1, <3>2 DEF MemoRow, MemoBacked, NoSlip
    <3>5. ~memo'[w].flushed
      BY <3>1, <3>2
    <3> QED BY <3>3, <3>4, <3>5 DEF MemoBacked
  <2>2. CASE w # v
    BY <1>4, <1>5, <1>9, <2>2 DEF RunEmployee
  <2> QED BY <2>1, <2>2
<1>10. ASSUME NEW v \in Workers, RunFlush(v)
       PROVE  MemoRow(memo'[w]) /\ MemoBacked(memo'[w], slips')
  <2>1. CASE w = v
    <3>1. memo'[w] = [memo[w] EXCEPT !.flushed = TRUE, !.totals = TotalsOf(memo[w])]
      BY <1>4, <1>10, <2>1 DEF RunFlush
    <3>2. memo[w].todo = {} /\ slips' = slips
      BY <1>10, <2>1 DEF RunFlush
    <3> QED BY <1>2, <3>1, <3>2, FlushBacked
  <2>2. CASE w # v
    BY <1>4, <1>5, <1>10, <2>2 DEF RunFlush
  <2> QED BY <2>1, <2>2
<1>11. ASSUME UNCHANGED memo PROVE memo'[w] = memo[w]
  BY <1>11
<1> QED
  BY <1>5, <1>6, <1>7, <1>8, <1>9, <1>10, <1>11
     DEF Next, vars, RunConflict, RunCommit, DecideLoad, Approve, MarkPaid, Cancel,
         Delete, AdjustCommit, Abandon, SetStructure, SetTimesheet

LEMMA NextHInv == IInv /\ HInv /\ [Next]_vars => HInv'
<1> SUFFICES ASSUME IInv, HInv, [Next]_vars PROVE HInv'
  OBVIOUS
<1>1. memo' = [w \in Workers |-> memo'[w]]
  <2>1. \/ \E w \in Workers : \E m : memo' = [memo EXCEPT ![w] = m]
        \/ memo' = memo
    <3>1. ASSUME NEW w \in Workers, End(w)
          PROVE  \E m : memo' = [memo EXCEPT ![w] = m]
      BY <3>1 DEF End
    <3>2. ASSUME NEW w \in Workers, RunLoad(w)
          PROVE  \E m : memo' = [memo EXCEPT ![w] = m]
      BY <3>2 DEF RunLoad
    <3>3. ASSUME NEW w \in Workers, AdjustLoad(w)
          PROVE  \E m : memo' = [memo EXCEPT ![w] = m]
      BY <3>3 DEF AdjustLoad
    <3>4. ASSUME NEW w \in Workers, NEW e \in Employees, RunEmployee(w, e)
          PROVE  \E m : memo' = [memo EXCEPT ![w] = m]
      <4> DEFINE m == [memo[w] EXCEPT
                   !.todo = @ \ {e},
                   !.loaded[e] = IF structure[e] = None THEN NoSlip ELSE slips[e],
                   !.net[e] = NetPay(structure[e], timesheet[e], memo[w].adj, e)]
      <4>1. memo' = [memo EXCEPT ![w] = m]
        <5>1. memo = [v \in Workers |-> memo[v]]
          BY DEF HInv
        <5> QED BY <3>4, <5>1 DEF RunEmployee
      <4> HIDE DEF m
      <4> QED BY <4>1
    <3>5. ASSUME NEW w \in Workers, RunFlush(w)
          PROVE  \E m : memo' = [memo EXCEPT ![w] = m]
      BY <3>5 DEF RunFlush
    <3> QED
      BY <3>1, <3>2, <3>3, <3>4, <3>5
         DEF Next, vars, RunConflict, RunCommit, DecideLoad, Approve, MarkPaid, Cancel,
             Delete, AdjustCommit, Abandon, SetStructure, SetTimesheet
  <2>2. memo = [w \in Workers |-> memo[w]]
    BY DEF HInv
  <2> QED BY <2>1, <2>2
<1>2. \A e \in Employees : slips[e].exists => slips'[e].exists
  BY SlipsStay
<1>3. (\E w \in Workers : RunCommit(w)) \/ cycle'.totals = cycle.totals
  BY DEF IInv, Shapes, CycleRow, Next, vars, RunLoad, RunFlush, RunConflict, RunEmployee,
     DecideLoad, Approve, MarkPaid, Cancel, Delete, AdjustLoad, AdjustCommit, Abandon,
     SetStructure, SetTimesheet
<1>4. cycle'.totals.headcount \in 0 .. Cardinality(OnFile(slips'))
  BY <1>2, <1>3, OnFileGrows, CommitBacked DEF HInv
<1> QED BY <1>1, <1>4, MemoStep DEF HInv

(* However many runs overlap, and whichever commits last, the headcount of *)
(* the cycle never exceeds the payslips that are stored (the roll-up of    *)
(* run_payroll).                                                           *)
THEOREM HeadcountBacked == Spec => []HeadcountIsBacked
<1>1. HInv => HeadcountIsBacked
  <2>1. OnFile(slips) \in SUBSET Employees
    BY DEF OnFile
  <2>2. IsFiniteSet(OnFile(slips))
    BY <2>1, InputsAssumption, FS_Subset
  <2> QED BY <2>2, FS_CardinalityType DEF HInv, OnFile, HeadcountIsBacked
<1> QED BY <1>1, InitIInv, NextIInv, InitHInv, NextHInv, PTL DEF Spec
-------------------------------------------------------------------------------
(* Sums of net pay                                                         *)

\* The sums the totals are made of: over payslip rows, and over what run m sees.
Nets(rows, S) == MapThenSumSet(LAMBDA e : rows[e].net, S)
ViewNets(m, S) == MapThenSumSet(LAMBDA e : View(m, e).net, S)

(* Rows that agree on the net pay of some employees have the same sum.     *)
LEMMA SameNets ==
  ASSUME NEW rows, NEW later, NEW S, \A e \in S : later[e].net = rows[e].net
  PROVE  Nets(later, S) = Nets(rows, S)
<1> DEFINE L(g) == [s \in SUBSET S |-> IF s = {} THEN 0
                      ELSE LET x == CHOOSE y \in s : TRUE IN later[x].net + g[s \ {x}]]
           R(g) == [s \in SUBSET S |-> IF s = {} THEN 0
                      ELSE LET x == CHOOSE y \in s : TRUE IN rows[x].net + g[s \ {x}]]
<1>1. \A g : g = L(g) <=> g = R(g)
  <2> SUFFICES ASSUME NEW g PROVE L(g) = R(g)
    OBVIOUS
  <2>1. ASSUME NEW s \in SUBSET S, s # {}
        PROVE  later[CHOOSE y \in s : TRUE].net = rows[CHOOSE y \in s : TRUE].net
    BY <2>1
  <2> QED BY <2>1
<1>2. (CHOOSE g : g = L(g)) = (CHOOSE g : g = R(g))
  <2> HIDE DEF L, R
  <2> QED BY <1>1, Zenon
<1>3. Nets(later, S) = (CHOOSE g : g = L(g))[S]
  BY DEF Nets, MapThenSumSet, MapThenFoldSet
<1>4. Nets(rows, S) = (CHOOSE g : g = R(g))[S]
  BY DEF Nets, MapThenSumSet, MapThenFoldSet
<1> QED BY <1>2, <1>3, <1>4

(* What a run sums in its own view is the sum of rows that agree with it.  *)
LEMMA NetsInView ==
  ASSUME NEW m, NEW rows, NEW S, \A e \in S : View(m, e).net = rows[e].net
  PROVE  ViewNets(m, S) = Nets(rows, S)
<1> DEFINE L(g) == [s \in SUBSET S |-> IF s = {} THEN 0
                      ELSE LET x == CHOOSE y \in s : TRUE IN View(m, x).net + g[s \ {x}]]
           R(g) == [s \in SUBSET S |-> IF s = {} THEN 0
                      ELSE LET x == CHOOSE y \in s : TRUE IN rows[x].net + g[s \ {x}]]
<1>1. \A g : g = L(g) <=> g = R(g)
  <2> SUFFICES ASSUME NEW g PROVE L(g) = R(g)
    OBVIOUS
  <2>1. ASSUME NEW s \in SUBSET S, s # {}
        PROVE  View(m, CHOOSE y \in s : TRUE).net = rows[CHOOSE y \in s : TRUE].net
    BY <2>1
  <2> QED BY <2>1
<1>2. (CHOOSE g : g = L(g)) = (CHOOSE g : g = R(g))
  <2> HIDE DEF L, R
  <2> QED BY <1>1, Zenon
<1>3. ViewNets(m, S) = (CHOOSE g : g = L(g))[S]
  BY DEF ViewNets, MapThenSumSet, MapThenFoldSet
<1>4. Nets(rows, S) = (CHOOSE g : g = R(g))[S]
  BY DEF Nets, MapThenSumSet, MapThenFoldSet
<1> QED BY <1>2, <1>3, <1>4

-------------------------------------------------------------------------------
(* Requests that do not overlap                                            *)

\* What the status check of the request that a worker serves has let through.
Passed(request) == IF request \in Decisions THEN Allowed(request) ELSE Editable

\* The payslips once run m commits, as far as the totals tell them apart.
After(m, rows) ==
  [e \in Employees |-> IF m.net[e] # Skip THEN [exists |-> TRUE, net |-> m.net[e]]
                       ELSE rows[e]]

TotalsAre(totals, rows) ==
  /\ totals.headcount = Cardinality(OnFile(rows))
  /\ totals.net = Nets(rows, OnFile(rows))

\* A run alone has read what is stored: each payslip it loaded, and the cycle.
ReadsCurrent ==
  \A w \in Workers :
    /\ op[w] # "idle" => /\ seen[w] = cycle
                         /\ ~cycle.deleted
                         /\ cycle.status \in Passed(op[w])
    /\ \A e \in Employees :
         /\ memo[w].loaded[e] \in {slips[e], NoSlip}
         /\ memo[w].net[e] # Skip => memo[w].loaded[e] = slips[e]
    /\ memo[w].flushed => /\ op[w] = "run"
                          /\ TotalsAre(memo[w].totals, After(memo[w], slips))
    /\ op[w] \in {"add", "remove"} => memo[w].adj \subseteq Adjustments

\* No payslip is paid before the cycle is.
NoneIsPaidEarly ==
  cycle.status # "PAID" => \A e \in Employees : ~slips[e].paid

SInv ==
  /\ seen = [w \in Workers |-> seen[w]]
  /\ adjustments \subseteq Adjustments
  /\ ReadsCurrent
  /\ NoneIsPaidEarly
  /\ "run" \in history => TotalsAre(cycle.totals, slips)

(* Rows with the same employees and net pay have the same totals.          *)
LEMMA SameTotals ==
  ASSUME NEW totals, NEW rows, NEW later, TotalsAre(totals, rows),
         \A e \in Employees : /\ rows[e].exists <=> later[e].exists
                              /\ rows[e].exists => later[e].net = rows[e].net
  PROVE  TotalsAre(totals, later)
<1> DEFINE S == OnFile(rows)
<1>1. OnFile(later) = S
  BY DEF OnFile
<1>2. \A e \in S : later[e].net = rows[e].net
  BY DEF OnFile
<1>3. Nets(later, S) = Nets(rows, S)
  <2> HIDE DEF S
  <2> QED BY <1>2, SameNets
<1> HIDE DEF S
<1> QED BY <1>1, <1>3 DEF TotalsAre, S

(* The roll-up of a run that has read every payslip it writes is the total *)
(* of the payslips there will be.                                          *)
LEMMA RollUp ==
  ASSUME NEW m, \A e \in Employees : m.loaded[e] \in {slips[e], NoSlip}
  PROVE  TotalsAre(TotalsOf(m), After(m, slips))
<1> DEFINE S == {e \in Employees : View(m, e).exists}
           sum == ViewNets(m, S)
           rest == {e \in Employees : m.net[e] = Skip}
           rows == After(m, slips)
<1>1. TotalsOf(m) = [headcount |-> Cardinality(S), net |-> sum, skipped |-> rest]
  BY DEF TotalsOf, ViewNets
<1>2. \A e \in Employees : /\ View(m, e).exists <=> rows[e].exists
                           /\ View(m, e).net = rows[e].net
  BY DEF View, After, NoSlip
<1>3. S = OnFile(rows)
  BY <1>2 DEF OnFile
<1>4. \A e \in S : View(m, e).net = rows[e].net
  BY <1>2
<1>5. sum = Nets(rows, S)
  <2> HIDE DEF S, rows
  <2> QED BY <1>4, NetsInView
<1> HIDE DEF S, rows, sum, rest
<1>6. TotalsOf(m).headcount = Cardinality(OnFile(rows)) /\ TotalsOf(m).net = Nets(rows, OnFile(rows))
  BY <1>1, <1>3, <1>5
<1> QED BY <1>6 DEF TotalsAre, rows
(* What the commit of a run stores for one employee.                       *)
LEMMA CommitSlip ==
  ASSUME NEW m, NEW e \in Employees, SlipRow(slips[e]), ~slips[e].paid,
         m.loaded[e] \in {slips[e], NoSlip},
         m.net[e] # Skip => m.loaded[e] = slips[e]
  PROVE  /\ SlipAfter(m, e).exists <=> After(m, slips)[e].exists
         /\ After(m, slips)[e].exists => SlipAfter(m, e).net = After(m, slips)[e].net
         /\ slips[e].exists => SlipAfter(m, e).exists
         /\ ~SlipAfter(m, e).paid
  BY DEF SlipAfter, After, SlipRow, Column

(* A request that ends leaves nothing to rely on.                          *)
LEMMA EndReads ==
  ASSUME NEW w \in Workers, Workers = {w}, IInv, HInv, SInv, End(w)
  PROVE  ReadsCurrent' /\ seen' = [v \in Workers |-> seen'[v]]
<1>1. op'[w] = "idle" /\ memo'[w] = NoMemo
  BY DEF End, IInv, Shapes, HInv
<1>2. seen' = [v \in Workers |-> seen'[v]]
  BY DEF End, SInv
<1> QED BY <1>1, <1>2 DEF ReadsCurrent, NoMemo

(* The commit of the only run stores what it summed.                       *)
LEMMA CommitSerial ==
  ASSUME NEW w \in Workers, Workers = {w}, IInv, HInv, SInv, RunCommit(w)
  PROVE  /\ cycle'.status = "PROCESSING" /\ cycle'.deleted = cycle.deleted
         /\ cycle.status \in Editable
         /\ \A e \in Employees : slips[e].exists => slips'[e].exists
         /\ \A e \in Employees : ~slips'[e].paid
         /\ TotalsAre(cycle'.totals, slips')
<1>1. /\ memo[w].flushed /\ op[w] = "run" /\ seen[w] = cycle
      /\ cycle.status \in Editable
      /\ TotalsAre(memo[w].totals, After(memo[w], slips))
  BY DEF RunCommit, SInv, ReadsCurrent, Passed, Decisions
<1>2. /\ cycle'.status = "PROCESSING" /\ cycle'.deleted = cycle.deleted
      /\ cycle'.totals = memo[w].totals
  BY <1>1 DEF RunCommit, Column, IInv, Shapes, CycleRow
<1>3. ASSUME NEW e \in Employees
      PROVE  /\ slips'[e].exists <=> After(memo[w], slips)[e].exists
             /\ After(memo[w], slips)[e].exists => slips'[e].net = After(memo[w], slips)[e].net
             /\ slips[e].exists => slips'[e].exists
             /\ ~slips'[e].paid
  <2>1. slips'[e] = SlipAfter(memo[w], e)
    BY DEF RunCommit
  <2>2. SlipRow(slips[e]) /\ ~slips[e].paid
    BY <1>1 DEF IInv, Shapes, SInv, NoneIsPaidEarly, Editable
  <2>3. /\ memo[w].loaded[e] \in {slips[e], NoSlip}
        /\ memo[w].net[e] # Skip => memo[w].loaded[e] = slips[e]
    BY DEF SInv, ReadsCurrent
  <2> QED BY <2>1, <2>2, <2>3, CommitSlip
<1>4. TotalsAre(memo[w].totals, slips')
  BY <1>1, <1>3, SameTotals
<1> QED BY <1>1, <1>2, <1>3, <1>4

LEMMA InitSInv == Init => SInv
<1> SUFFICES ASSUME Init PROVE SInv
  OBVIOUS
<1>1. ReadsCurrent
  BY DEF Init, ReadsCurrent, NoMemo
<1>2. NoneIsPaidEarly
  BY DEF Init, NoneIsPaidEarly, NoSlip
<1> QED BY <1>1, <1>2 DEF Init, SInv

(* A request alone has read the state it is about to change.               *)
LEMMA LoadSerial ==
  ASSUME NEW w \in Workers, Workers = {w}, IInv, SInv, NEW request \in Requests,
         Load(w, request, Passed(request)), ~memo'[w].flushed,
         \A e \in Employees : /\ memo'[w].loaded[e] \in {slips[e], NoSlip}
                              /\ memo'[w].net[e] # Skip => memo'[w].loaded[e] = slips[e],
         request \in {"add", "remove"} => memo'[w].adj \subseteq Adjustments,
         UNCHANGED <<cycle, slips, adjustments, history>>
  PROVE  SInv'
<1>1. op'[w] = request /\ seen'[w] = cycle /\ seen' = [v \in Workers |-> seen'[v]]
  BY DEF Load, IInv, Shapes, SInv
<1>2. ReadsCurrent'
  BY <1>1 DEF Load, ReadsCurrent
<1> QED BY <1>1, <1>2 DEF SInv, NoneIsPaidEarly

(* Every step of the only worker.                                          *)
LEMMA NextSInv ==
  ASSUME NEW w, Workers = {w}, IInv, HInv, SInv, [Next]_vars
  PROVE  SInv'
<1> w \in Workers
  OBVIOUS
<1> USE DEF SInv
<1>1. ASSUME RunLoad(w) PROVE SInv'
  <2>1. Load(w, "run", Passed("run"))
    BY <1>1 DEF RunLoad, Passed, Decisions
  <2>2. memo'[w] = [NoMemo EXCEPT !.adj = adjustments, !.todo = Employees]
    BY <1>1 DEF RunLoad, HInv
  <2>3. /\ ~memo'[w].flushed
        /\ \A e \in Employees : memo'[w].loaded[e] = NoSlip /\ memo'[w].net[e] = Skip
    BY <2>2 DEF NoMemo
  <2> QED BY <1>1, <2>1, <2>3, LoadSerial DEF RunLoad, Requests
<1>2. ASSUME DecideLoad(w) PROVE SInv'
  <2>1. PICK request \in Decisions : Load(w, request, Allowed(request))
    BY <1>2 DEF DecideLoad
  <2>2. op[w] = "idle" /\ ~memo[w].flushed
    BY <2>1 DEF Load, ReadsCurrent
  <2> QED BY <1>2, <2>1, <2>2, LoadSerial
          DEF DecideLoad, Passed, Requests, Decisions, ReadsCurrent
<1>3. ASSUME AdjustLoad(w) PROVE SInv'
  <2>1. PICK a \in Adjustments :
          /\ Load(w, IF a \in adjustments THEN "remove" ELSE "add", Editable)
          /\ memo' = [memo EXCEPT ![w].adj = {a}]
    BY <1>3 DEF AdjustLoad
  <2>2. op[w] = "idle" /\ ~memo[w].flushed
    BY <2>1 DEF Load, ReadsCurrent
  <2>3. MemoRow(memo[w]) /\ memo = [v \in Workers |-> memo[v]]
    BY DEF HInv
  <2>4. /\ memo'[w].adj = {a} /\ memo'[w].loaded = memo[w].loaded
        /\ memo'[w].net = memo[w].net /\ memo'[w].flushed = memo[w].flushed
    BY <2>1, <2>3 DEF MemoRow
  <2>5. CASE a \in adjustments
    BY <1>3, <2>1, <2>2, <2>4, <2>5, LoadSerial
       DEF AdjustLoad, Passed, Requests, Decisions, ReadsCurrent
  <2>6. CASE a \notin adjustments
    BY <1>3, <2>1, <2>2, <2>4, <2>6, LoadSerial
       DEF AdjustLoad, Passed, Requests, Decisions, ReadsCurrent
  <2> QED BY <2>5, <2>6
<1>4. ASSUME NEW e \in Employees, RunEmployee(w, e) PROVE SInv'
  <2>1. MemoRow(memo[w]) /\ memo = [v \in Workers |-> memo[v]]
    BY DEF HInv
  <2>2. /\ memo'[w].loaded = [memo[w].loaded EXCEPT
             ![e] = IF structure[e] = None THEN NoSlip ELSE slips[e]]
        /\ memo'[w].net = [memo[w].net EXCEPT
             ![e] = NetPay(structure[e], timesheet[e], memo[w].adj, e)]
        /\ memo'[w].flushed = memo[w].flushed
    BY <1>4, <2>1 DEF RunEmployee, MemoRow
  <2>3. op[w] = "run" /\ ~memo[w].flushed
    BY <1>4 DEF RunEmployee, HInv, MemoBacked
  <2>4. structure[e] = None => NetPay(structure[e], timesheet[e], memo[w].adj, e) = Skip
    BY DEF NetPay
  <2>5. ASSUME NEW x \in Employees
        PROVE  /\ memo'[w].loaded[x] \in {slips[x], NoSlip}
               /\ memo'[w].net[x] # Skip => memo'[w].loaded[x] = slips[x]
    <3>1. CASE x = e
      BY <2>1, <2>2, <2>4, <3>1 DEF MemoRow
    <3>2. CASE x # e
      BY <2>1, <2>2, <3>2 DEF MemoRow, ReadsCurrent
    <3> QED BY <3>1, <3>2
  <2>6. UNCHANGED <<cycle, slips, adjustments, op, seen, history>>
    BY <1>4 DEF RunEmployee
  <2>7. ReadsCurrent'
    BY <2>2, <2>3, <2>5, <2>6 DEF ReadsCurrent
  <2> QED BY <2>6, <2>7 DEF NoneIsPaidEarly
<1>5. ASSUME RunFlush(w) PROVE SInv'
  <2>1. memo'[w] = [memo[w] EXCEPT !.flushed = TRUE, !.totals = TotalsOf(memo[w])]
    BY <1>5 DEF RunFlush, HInv
  <2>2. MemoRow(memo[w])
    BY DEF HInv
  <2>3. /\ memo'[w].loaded = memo[w].loaded /\ memo'[w].net = memo[w].net
        /\ memo'[w].totals = TotalsOf(memo[w])
    BY <2>1, <2>2 DEF MemoRow
  <2>4. UNCHANGED <<cycle, slips, adjustments, op, seen, history>> /\ op[w] = "run"
    BY <1>5 DEF RunFlush
  <2>5. TotalsAre(TotalsOf(memo[w]), After(memo[w], slips))
    BY RollUp DEF ReadsCurrent
  <2>6. After(memo'[w], slips') = After(memo[w], slips)
    BY <2>3, <2>4 DEF After
  <2>7. ReadsCurrent'
    BY <2>3, <2>4, <2>5, <2>6 DEF ReadsCurrent
  <2> QED BY <2>4, <2>7 DEF NoneIsPaidEarly
<1>6. ASSUME RunCommit(w) PROVE SInv'
  <2>1. adjustments' = adjustments /\ End(w)
    BY <1>6 DEF RunCommit
  <2> QED BY <1>6, <2>1, EndReads, CommitSerial DEF NoneIsPaidEarly
<1>7. ASSUME MarkPaid(w) PROVE SInv'
  <2>1. cycle'.status = "PAID" /\ cycle'.totals = cycle.totals
    BY <1>7 DEF MarkPaid, IInv, Shapes, CycleRow
  <2>2. \A e \in Employees : /\ slips[e].exists <=> slips'[e].exists
                             /\ slips'[e].net = slips[e].net
    <3> SUFFICES ASSUME NEW e \in Employees
                 PROVE  /\ slips[e].exists <=> slips'[e].exists
                        /\ slips'[e].net = slips[e].net
      OBVIOUS
    <3>1. SlipRow(slips[e])
      BY DEF IInv, Shapes
    <3>2. slips'[e] \in {slips[e], [slips[e] EXCEPT !.paid = TRUE, !.stamped = TRUE]}
      BY <1>7 DEF MarkPaid
    <3> QED BY <3>1, <3>2 DEF SlipRow
  <2>3. "run" \in history' => "run" \in history
    BY <1>7 DEF MarkPaid
  <2>4. "run" \in history' => TotalsAre(cycle'.totals, slips')
    BY <2>1, <2>2, <2>3, SameTotals
  <2>5. adjustments' = adjustments /\ End(w)
    BY <1>7 DEF MarkPaid
  <2> QED BY <2>1, <2>4, <2>5, EndReads DEF NoneIsPaidEarly
<1>8. ASSUME End(w), UNCHANGED slips, cycle'.totals = cycle.totals,
             cycle'.status # "PAID" => cycle.status # "PAID",
             "run" \in history' => "run" \in history,
             adjustments' \subseteq Adjustments
      PROVE  SInv'
  BY <1>8, EndReads DEF NoneIsPaidEarly
<1>9. ASSUME Approve(w) PROVE SInv'
  <2>1. cycle.status # "PAID"
    BY <1>9 DEF Approve, ReadsCurrent, Passed, Decisions, Allowed
  <2> QED BY <1>8, <1>9, <2>1 DEF Approve, IInv, Shapes, CycleRow
<1>10. ASSUME Cancel(w) PROVE SInv'
  <2>1. cycle.status # "PAID"
    BY <1>10 DEF Cancel, ReadsCurrent, Passed, Decisions, Allowed
  <2> QED BY <1>8, <1>10, <2>1 DEF Cancel, IInv, Shapes, CycleRow
<1>11. ASSUME Delete(w) PROVE SInv'
  BY <1>8, <1>11 DEF Delete, IInv, Shapes, CycleRow
<1>12. ASSUME AdjustCommit(w) PROVE SInv'
  <2>1. adjustments' \subseteq Adjustments
    BY <1>12 DEF AdjustCommit, ReadsCurrent
  <2> QED BY <1>8, <1>12, <2>1 DEF AdjustCommit
<1>13. ASSUME RunConflict(w) \/ Abandon(w) PROVE SInv'
  BY <1>8, <1>13 DEF RunConflict, Abandon
<1>14. ASSUME UNCHANGED <<cycle, slips, adjustments, op, seen, memo, history>> PROVE SInv'
  BY <1>14 DEF ReadsCurrent, NoneIsPaidEarly
<1> QED
  BY <1>1, <1>2, <1>3, <1>4, <1>5, <1>6, <1>7, <1>9, <1>10, <1>11, <1>12, <1>13, <1>14
     DEF Next, vars, SetStructure, SetTimesheet

(* A request at a time, the totals of the cycle are those of the payslips  *)
(* on file after every run, whoever was skipped (the roll-up of            *)
(* run_payroll).                                                           *)
THEOREM SerialTotals ==
  ASSUME NEW w, Workers = {w}
  PROVE  Spec => []TotalsMatchPayslips
<1>1. SInv => TotalsMatchPayslips
  BY DEF SInv, TotalsAre, OnFile, Nets, TotalsMatchPayslips
<1>2. IInv /\ HInv /\ SInv /\ [Next]_vars => SInv'
  BY NextSInv
<1> QED BY <1>1, <1>2, InitIInv, NextIInv, InitHInv, NextHInv, InitSInv, PTL DEF Spec
(* A request at a time, the payroll of the code is the promised life of a  *)
(* cycle: run, approved and paid in that order, adjusted only before the   *)
(* approval, all its payslips paid at once, and left alone once deleted    *)
(* (run_payroll, approve_cycle, mark_paid, cancel_cycle and the endpoints). *)
THEOREM SerialLifecycle ==
  ASSUME NEW w, Workers = {w}
  PROVE  Spec => LifecycleSpec
<1> w \in Workers
  OBVIOUS
<1> DEFINE pay == [e \in Employees |-> IF slips[e].exists THEN {slips[e].net} ELSE {}]
           paid == {e \in Employees : slips[e].paid}
<1>1. Init => Lifecycle!Init
  <2> SUFFICES ASSUME Init PROVE Lifecycle!Init
    OBVIOUS
  <2>1. \A e \in Employees : slips[e] = NoSlip
    BY DEF Init
  <2> QED BY <2>1 DEF Init, Lifecycle!Init, NewCycle, NoSlip
<1>2. IInv /\ HInv /\ SInv /\ [Next]_vars => [Lifecycle!Next]_(Lifecycle!state)
  <2> SUFFICES ASSUME IInv, HInv, SInv, [Next]_vars
               PROVE  Lifecycle!Next \/ UNCHANGED Lifecycle!state
    OBVIOUS
  <2> USE DEF SInv
  <2>1. ASSUME RunCommit(w) PROVE Lifecycle!Next
    <3>1. ~cycle.deleted
      BY <2>1 DEF RunCommit, ReadsCurrent
    <3>2. /\ cycle.status \in {"DRAFT", "PROCESSING"} /\ cycle'.status = "PROCESSING"
          /\ cycle'.deleted = cycle.deleted
      BY <2>1, CommitSerial DEF Editable
    <3>3. \A e \in Employees : slips[e].exists => slips'[e].exists
      BY <2>1, CommitSerial
    <3>4. \A e \in Employees : pay[e] # {} => pay'[e] # {}
      BY <3>3
    <3>5. paid' = paid
      <4>1. \A e \in Employees : ~slips[e].paid
        BY <3>2 DEF NoneIsPaidEarly
      <4>2. \A e \in Employees : ~slips'[e].paid
        BY <2>1, CommitSerial
      <4> QED BY <4>1, <4>2
    <3>6. adjustments' = adjustments
      BY <2>1 DEF RunCommit
    <3> QED BY <3>1, <3>2, <3>4, <3>5, <3>6 DEF Lifecycle!Next, Lifecycle!Run
  <2>2. ASSUME MarkPaid(w) PROVE Lifecycle!Next
    <3>1. ~cycle.deleted /\ cycle.status = "APPROVED"
      BY <2>2 DEF MarkPaid, ReadsCurrent, Passed, Decisions, Allowed
    <3>2. cycle'.status = "PAID" /\ cycle'.deleted = cycle.deleted
      BY <2>2 DEF MarkPaid, IInv, Shapes, CycleRow
    <3>3. ASSUME NEW e \in Employees
          PROVE  /\ slips'[e].exists <=> slips[e].exists
                 /\ slips'[e].net = slips[e].net
                 /\ slips'[e].paid <=> slips[e].exists
      <4>1. SlipRow(slips[e]) /\ ~slips[e].paid
        BY <3>1 DEF IInv, Shapes, NoneIsPaidEarly
      <4>2. slips'[e] = IF slips[e].exists
                        THEN [slips[e] EXCEPT !.paid = TRUE, !.stamped = TRUE]
                        ELSE slips[e]
        BY <2>2 DEF MarkPaid
      <4> QED BY <4>1, <4>2 DEF SlipRow
    <3>4. pay' = pay
      BY <3>3
    <3>5. paid' = {e \in Employees : pay[e] # {}}
      BY <3>3
    <3>6. adjustments' = adjustments
      BY <2>2 DEF MarkPaid
    <3> QED BY <3>1, <3>2, <3>4, <3>5, <3>6 DEF Lifecycle!Next, Lifecycle!Pay
  <2>3. ASSUME Approve(w) PROVE Lifecycle!Next
    <3>1. ~cycle.deleted /\ cycle.status = "PROCESSING"
      BY <2>3 DEF Approve, ReadsCurrent, Passed, Decisions, Allowed
    <3>2. cycle'.status = "APPROVED" /\ cycle'.deleted = cycle.deleted
      BY <2>3 DEF Approve, IInv, Shapes, CycleRow
    <3> QED BY <2>3, <3>1, <3>2 DEF Approve, Lifecycle!Next, Lifecycle!Approve
  <2>4. ASSUME Cancel(w) PROVE Lifecycle!Next
    <3>1. ~cycle.deleted /\ cycle.status # "PAID" /\ seen[w] = cycle
      BY <2>4 DEF Cancel, ReadsCurrent, Passed, Decisions, Allowed
    <3>2. cycle'.status = "CANCELLED" /\ cycle'.deleted = cycle.deleted
      BY <2>4, <3>1 DEF Cancel, Column, IInv, Shapes, CycleRow
    <3> QED BY <2>4, <3>1, <3>2 DEF Cancel, Lifecycle!Next, Lifecycle!Cancel
  <2>5. ASSUME Delete(w) PROVE Lifecycle!Next
    <3>1. ~cycle.deleted /\ cycle.status # "PAID"
      BY <2>5 DEF Delete, ReadsCurrent, Passed, Decisions, Allowed
    <3>2. cycle'.status = cycle.status /\ cycle'.deleted = TRUE
      BY <2>5 DEF Delete, IInv, Shapes, CycleRow
    <3> QED BY <2>5, <3>1, <3>2 DEF Delete, Lifecycle!Next, Lifecycle!Delete
  <2>6. ASSUME AdjustCommit(w) PROVE Lifecycle!Next
    <3>1. ~cycle.deleted /\ cycle.status \in {"DRAFT", "PROCESSING"}
      BY <2>6 DEF AdjustCommit, ReadsCurrent, Passed, Decisions, Editable
    <3>2. adjustments' \subseteq Adjustments
      BY <2>6 DEF AdjustCommit, ReadsCurrent
    <3> QED BY <2>6, <3>1, <3>2 DEF AdjustCommit, Lifecycle!Next, Lifecycle!Adjust
  <2>7. ASSUME UNCHANGED <<cycle, slips, adjustments>> PROVE UNCHANGED Lifecycle!state
    BY <2>7 DEF Lifecycle!state
  <2> QED
    BY <2>1, <2>2, <2>3, <2>4, <2>5, <2>6, <2>7
       DEF Next, vars, RunLoad, RunEmployee, RunFlush, RunConflict, DecideLoad, AdjustLoad,
           Abandon, SetStructure, SetTimesheet
<1>3. IInv /\ HInv /\ SInv /\ [Next]_vars => SInv'
  BY NextSInv
<1> QED
  BY <1>1, <1>2, <1>3, InitIInv, NextIInv, InitHInv, NextHInv, InitSInv, PTL
     DEF Spec, LifecycleSpec, Lifecycle!Spec
-------------------------------------------------------------------------------
(* Types                                                                   *)

CycleRec == [status : Statuses, deleted : BOOLEAN, totals : Totals]
Memo == [adj : SUBSET Adjustments, todo : SUBSET Employees,
         loaded : [Employees -> Slip], net : [Employees -> Int \cup {Skip}],
         flushed : BOOLEAN, totals : Totals]

\* Sums are over finite sets: the adjustments on file, and those a run has read.
TInv ==
  /\ TypeOK
  /\ IsFiniteSet(adjustments)
  /\ \A w \in Workers : IsFiniteSet(memo[w].adj)

LEMMA NoneAreTyped ==
  /\ NoSlip \in Slip /\ NoTotals \in Totals /\ NewCycle \in CycleRec
  /\ NoMemo \in Memo /\ IsFiniteSet(NoMemo.adj)
<1>1. NoSlip \in Slip /\ NoTotals \in Totals
  BY DEF NoSlip, Slip, NoTotals, Totals
<1>2. NewCycle \in CycleRec
  BY <1>1 DEF NewCycle, CycleRec, Statuses
<1>3. NoMemo.adj = {} /\ NoMemo \in Memo
  BY <1>1 DEF NoMemo, Memo
<1>4. IsFiniteSet({})
  BY FS_EmptySet
<1> QED BY <1>1, <1>2, <1>3, <1>4

(* The sums of the model are integers.                                     *)
LEMMA AdjustmentType ==
  ASSUME NEW adj \in SUBSET Adjustments, IsFiniteSet(adj), NEW e
  PROVE  AdjustmentTotal(adj, e) \in Int
<1> DEFINE S == {a \in adj : a.employee = e}
           f == [a \in S |-> a.amount]
           L(g) == [s \in SUBSET S |-> IF s = {} THEN 0
                      ELSE LET x == CHOOSE y \in s : TRUE IN x.amount + g[s \ {x}]]
           R(g) == [s \in SUBSET S |-> IF s = {} THEN 0
                      ELSE LET x == CHOOSE y \in s : TRUE IN f[x] + g[s \ {x}]]
<1>1. \A g : g = L(g) <=> g = R(g)
  <2> SUFFICES ASSUME NEW g PROVE L(g) = R(g)
    OBVIOUS
  <2>1. ASSUME NEW s \in SUBSET S, s # {}
        PROVE  (CHOOSE y \in s : TRUE).amount = f[CHOOSE y \in s : TRUE]
    BY <2>1
  <2> QED BY <2>1
<1>2. (CHOOSE g : g = L(g)) = (CHOOSE g : g = R(g))
  <2> HIDE DEF L, R
  <2> QED BY <1>1, Zenon
<1>3. AdjustmentTotal(adj, e) = (CHOOSE g : g = L(g))[S]
  BY DEF AdjustmentTotal, MapThenSumSet, MapThenFoldSet
<1>4. SumOver(f, S) = (CHOOSE g : g = R(g))[S]
  BY DEF SumOver, MapThenSumSet, MapThenFoldSet
<1>5. IsFiniteSet(S)
  BY FS_Subset
<1>6. \A a \in S : f[a] \in Int
  BY InputsAssumption DEF Adjustment
<1> HIDE DEF f, S
<1>7. SumOver(f, S) \in Int
  BY <1>5, <1>6, SumType
<1> HIDE DEF L, R
<1> QED BY <1>2, <1>3, <1>4, <1>7

LEMMA ViewNetsType ==
  ASSUME NEW m, NEW S \in SUBSET Employees, \A e \in S : View(m, e).net \in Int
  PROVE  ViewNets(m, S) \in Int
<1> DEFINE f == [e \in S |-> View(m, e).net]
           L(g) == [s \in SUBSET S |-> IF s = {} THEN 0
                      ELSE LET x == CHOOSE y \in s : TRUE IN View(m, x).net + g[s \ {x}]]
           R(g) == [s \in SUBSET S |-> IF s = {} THEN 0
                      ELSE LET x == CHOOSE y \in s : TRUE IN f[x] + g[s \ {x}]]
<1>1. \A g : g = L(g) <=> g = R(g)
  <2> SUFFICES ASSUME NEW g PROVE L(g) = R(g)
    OBVIOUS
  <2>1. ASSUME NEW s \in SUBSET S, s # {}
        PROVE  View(m, CHOOSE y \in s : TRUE).net = f[CHOOSE y \in s : TRUE]
    BY <2>1
  <2> QED BY <2>1
<1>2. (CHOOSE g : g = L(g)) = (CHOOSE g : g = R(g))
  <2> HIDE DEF L, R
  <2> QED BY <1>1, Zenon
<1>3. ViewNets(m, S) = (CHOOSE g : g = L(g))[S]
  BY DEF ViewNets, MapThenSumSet, MapThenFoldSet
<1>4. SumOver(f, S) = (CHOOSE g : g = R(g))[S]
  BY DEF SumOver, MapThenSumSet, MapThenFoldSet
<1>5. IsFiniteSet(S)
  BY InputsAssumption, FS_Subset
<1>6. \A e \in S : f[e] \in Int
  OBVIOUS
<1> HIDE DEF f
<1>7. SumOver(f, S) \in Int
  BY <1>5, <1>6, SumType
<1> HIDE DEF L, R
<1> QED BY <1>2, <1>3, <1>4, <1>7

LEMMA NetPayType ==
  ASSUME NEW s \in Structures \cup {None}, NEW t \in Timesheets \cup {None},
         NEW adj \in SUBSET Adjustments, IsFiniteSet(adj), NEW e
  PROVE  NetPay(s, t, adj, e) \in Int \cup {Skip}
<1>1. PICK x \in Int : x = AdjustmentTotal(adj, e)
  BY AdjustmentType
<1>2. CASE s = None
  BY <1>2 DEF NetPay
<1>3. CASE s # None
  <2> DEFINE lop == IF t = None THEN s.lop ELSE t.lop
  <2>1. s.hourly \in BOOLEAN /\ s.amount \in Nat /\ s.lop \in Nat
    BY <1>3, InputsAssumption DEF Structure
  <2>2. t # None => t.lop \in Nat /\ t.hours \in Nat
    BY InputsAssumption DEF Timesheet
  <2>3. lop \in Nat /\ WorkingDays \in Nat \ {0}
    BY <2>1, <2>2, InputsAssumption
  <2>4. NetPay(s, t, adj, e) = CASE s = None -> Skip
        [] s # None /\ s.hourly /\ t = None -> Skip
        [] s # None /\ s.hourly /\ t # None -> s.amount * t.hours + x
        [] s # None /\ ~s.hourly /\ lop > WorkingDays -> Skip
        [] OTHER -> (s.amount * (WorkingDays - lop)) \div WorkingDays + x
    BY <1>1 DEF NetPay
  <2> HIDE DEF lop
  <2>5. PICK d \in Int : d = s.amount * (WorkingDays - lop)
    BY <2>1, <2>3
  <2>6. d \div WorkingDays + x \in Int
    BY <2>3
  <2>7. t # None => s.amount * t.hours + x \in Int
    BY <2>1, <2>2
  <2>8. CASE s.hourly
    BY <1>3, <2>4, <2>7, <2>8
  <2>9. CASE ~s.hourly
    BY <1>3, <2>3, <2>4, <2>5, <2>6, <2>9
  <2> QED BY <2>1, <2>8, <2>9
<1> QED BY <1>2, <1>3

LEMMA TotalsType ==
  ASSUME NEW m \in Memo, slips \in [Employees -> Slip]
  PROVE  TotalsOf(m) \in Totals
<1> DEFINE present == {e \in Employees : View(m, e).exists}
           skipped == {e \in Employees : m.net[e] = Skip}
           net == ViewNets(m, present)
<1>1. ASSUME NEW e \in Employees PROVE View(m, e).net \in Int
  <2>1. m.net[e] \in Int \cup {Skip} /\ m.loaded[e] \in Slip /\ slips[e] \in Slip
    BY DEF Memo
  <2>2. m.loaded[e].net \in Int /\ slips[e].net \in Int
    BY <2>1 DEF Slip
  <2> QED BY <2>1, <2>2 DEF View
<1>2. present \in SUBSET Employees /\ skipped \in SUBSET Employees
  OBVIOUS
<1>3. Cardinality(present) \in Nat
  BY <1>2, InputsAssumption, FS_Subset, FS_CardinalityType
<1>4. net \in Int
  <2> HIDE DEF present
  <2> QED BY <1>1, <1>2, ViewNetsType
<1>5. TotalsOf(m) = [headcount |-> Cardinality(present), net |-> net, skipped |-> skipped]
  BY DEF TotalsOf, ViewNets
<1> HIDE DEF present, net, skipped
<1> QED BY <1>2, <1>3, <1>4, <1>5 DEF Totals
-------------------------------------------------------------------------------
(* What a step writes is of its type.                                      *)

LEMMA SlipAfterType ==
  ASSUME NEW m \in Memo, slips \in [Employees -> Slip], NEW e \in Employees
  PROVE  SlipAfter(m, e) \in Slip
<1> DEFINE s == slips[e]
           old == m.loaded[e]
           net == m.net[e]
<1>1. s \in Slip /\ old \in Slip /\ net \in Int \cup {Skip}
  BY DEF Memo
<1>2. CASE net = Skip
  BY <1>1, <1>2 DEF SlipAfter
<1>3. CASE net # Skip /\ ~old.exists
  BY <1>1, <1>3 DEF SlipAfter, Slip
<1>4. CASE net # Skip /\ old.exists
  <2>1. SlipAfter(m, e) = [s EXCEPT !.net = Column(@, old.net, net),
                                    !.paid = Column(@, old.paid, FALSE)]
    BY <1>4 DEF SlipAfter
  <2>2. Column(s.net, old.net, net) \in Int /\ Column(s.paid, old.paid, FALSE) \in BOOLEAN
    BY <1>1, <1>4 DEF Column, Slip
  <2> HIDE DEF s, old, net
  <2> QED BY <1>1, <2>1, <2>2 DEF Slip
<1> QED BY <1>2, <1>3, <1>4

LEMMA CommittedTotals ==
  ASSUME NEW c \in CycleRec, NEW old \in Totals, NEW new \in Totals, NEW status \in Statuses
  PROVE  [c EXCEPT !.totals = Column(@, old, new),
                   !.status = Column(@, status, "PROCESSING")] \in CycleRec
<1>1. Column(c.totals, old, new) \in Totals /\ Column(c.status, status, "PROCESSING") \in Statuses
  BY DEF Column, CycleRec, Statuses
<1> QED BY <1>1 DEF CycleRec

LEMMA LoadType ==
  ASSUME TInv, NEW w \in Workers, NEW request \in Requests, NEW allowed,
         Load(w, request, allowed)
  PROVE  op' \in [Workers -> Requests \cup {"idle"}] /\ seen' \in [Workers -> CycleRec]
BY DEF TInv, TypeOK, Load, CycleRec

LEMMA EndType ==
  ASSUME TInv, NEW w \in Workers, End(w)
  PROVE  /\ op' \in [Workers -> Requests \cup {"idle"}] /\ seen' \in [Workers -> CycleRec]
         /\ memo' \in [Workers -> Memo] /\ \A u \in Workers : IsFiniteSet(memo'[u].adj)
<1>1. NewCycle \in CycleRec /\ NoMemo \in Memo /\ IsFiniteSet(NoMemo.adj)
  BY NoneAreTyped
<1>2. memo \in [Workers -> Memo] /\ seen \in [Workers -> CycleRec]
  BY DEF TInv, TypeOK, Memo, CycleRec
<1>3. memo' = [memo EXCEPT ![w] = NoMemo] /\ seen' = [seen EXCEPT ![w] = NewCycle]
  BY DEF End
<1>4. op' \in [Workers -> Requests \cup {"idle"}]
  BY DEF TInv, TypeOK, End
<1>5. memo' \in [Workers -> Memo] /\ seen' \in [Workers -> CycleRec]
  BY <1>1, <1>2, <1>3
<1>6. ASSUME NEW u \in Workers PROVE IsFiniteSet(memo'[u].adj)
  BY <1>1, <1>2, <1>3, <1>6 DEF TInv
<1> QED BY <1>4, <1>5, <1>6

\* A worker's memory is replaced by one of the type.
LEMMA MemoType ==
  ASSUME TInv, NEW w \in Workers, NEW m \in Memo, IsFiniteSet(m.adj),
         memo' = [memo EXCEPT ![w] = m]
  PROVE  memo' \in [Workers -> Memo] /\ \A u \in Workers : IsFiniteSet(memo'[u].adj)
<1>1. memo \in [Workers -> Memo]
  BY DEF TInv, TypeOK, Memo
<1>2. ASSUME NEW u \in Workers PROVE IsFiniteSet(memo'[u].adj)
  BY <1>1 DEF TInv
<1> QED BY <1>1, <1>2

LEMMA Typed ==
  TInv <=> /\ cycle \in CycleRec
           /\ slips \in [Employees -> Slip]
           /\ structure \in [Employees -> Structures \cup {None}]
           /\ timesheet \in [Employees -> Timesheets \cup {None}]
           /\ adjustments \subseteq Adjustments
           /\ op \in [Workers -> Requests \cup {"idle"}]
           /\ seen \in [Workers -> CycleRec]
           /\ memo \in [Workers -> Memo]
           /\ history \subseteq {"run", "approved", "paid"}
           /\ edits \in 0 .. MaxEdits
           /\ IsFiniteSet(adjustments)
           /\ \A w \in Workers : IsFiniteSet(memo[w].adj)
BY DEF TInv, TypeOK, CycleRec, Memo

LEMMA InitTInv == Init => TInv
<1> SUFFICES ASSUME Init PROVE TInv
  OBVIOUS
<1>1. IsFiniteSet(adjustments)
  BY FS_EmptySet DEF Init
<1>2. cycle \in CycleRec /\ seen \in [Workers -> CycleRec] /\ slips \in [Employees -> Slip]
  BY NoneAreTyped DEF Init
<1>3. memo \in [Workers -> Memo] /\ \A w \in Workers : IsFiniteSet(memo[w].adj)
  BY NoneAreTyped DEF Init
<1>4. 0 \in 0 .. MaxEdits
  BY InputsAssumption
<1> QED BY <1>1, <1>2, <1>3, <1>4, Typed DEF Init
-------------------------------------------------------------------------------
(* One step for each action                                                *)

LEMMA TypedAfter ==
  ASSUME cycle' \in CycleRec, slips' \in [Employees -> Slip],
         structure' \in [Employees -> Structures \cup {None}],
         timesheet' \in [Employees -> Timesheets \cup {None}],
         adjustments' \subseteq Adjustments, IsFiniteSet(adjustments'),
         op' \in [Workers -> Requests \cup {"idle"}], seen' \in [Workers -> CycleRec],
         memo' \in [Workers -> Memo], \A w \in Workers : IsFiniteSet(memo'[w].adj),
         history' \subseteq {"run", "approved", "paid"}, edits' \in 0 .. MaxEdits
  PROVE  TInv'
BY DEF TInv, TypeOK, CycleRec, Memo

LEMMA RunLoadTyped ==
  ASSUME TInv, NEW w \in Workers, RunLoad(w) PROVE TInv'
<1> DEFINE m == [NoMemo EXCEPT !.adj = adjustments, !.todo = Employees]
<1>1. m \in Memo /\ m.adj = adjustments
  <2>1. NoMemo \in Memo
    BY NoneAreTyped
  <2> QED BY <2>1 DEF Memo, TInv, TypeOK
<1>2. IsFiniteSet(m.adj)
  BY <1>1 DEF TInv
<1>3. memo' = [memo EXCEPT ![w] = m]
  BY DEF RunLoad
<1> HIDE DEF m
<1>4. memo' \in [Workers -> Memo] /\ \A u \in Workers : IsFiniteSet(memo'[u].adj)
  BY <1>1, <1>2, <1>3, MemoType
<1>5. op' \in [Workers -> Requests \cup {"idle"}] /\ seen' \in [Workers -> CycleRec]
  <2>1. "run" \in Requests /\ Load(w, "run", Editable)
    BY DEF RunLoad, Requests
  <2> QED BY <2>1, LoadType
<1> QED BY <1>4, <1>5, Typed, TypedAfter DEF RunLoad

LEMMA RunEmployeeTyped ==
  ASSUME TInv, NEW w \in Workers, NEW e \in Employees, RunEmployee(w, e) PROVE TInv'
<1> DEFINE old == memo[w]
           slip == IF structure[e] = None THEN NoSlip ELSE slips[e]
           net == NetPay(structure[e], timesheet[e], memo[w].adj, e)
           m == [adj |-> old.adj, todo |-> old.todo \ {e},
                 loaded |-> [old.loaded EXCEPT ![e] = slip],
                 net |-> [old.net EXCEPT ![e] = net],
                 flushed |-> old.flushed, totals |-> old.totals]
<1>1. old \in Memo /\ IsFiniteSet(old.adj) /\ memo \in [Workers -> Memo]
  BY Typed
<1>2. slip \in Slip
  BY NoneAreTyped, Typed
<1>3. net \in Int \cup {Skip}
  <2>1. old.adj \in SUBSET Adjustments
    BY <1>1 DEF Memo
  <2>2. structure[e] \in Structures \cup {None} /\ timesheet[e] \in Timesheets \cup {None}
    BY Typed
  <2> QED BY <1>1, <2>1, <2>2, NetPayType
<1>4. memo' = [memo EXCEPT ![w] = m]
  <2>1. memo[w] = [adj |-> memo[w].adj, todo |-> memo[w].todo, loaded |-> memo[w].loaded,
                   net |-> memo[w].net, flushed |-> memo[w].flushed, totals |-> memo[w].totals]
    BY <1>1 DEF Memo
  <2>2. /\ memo[w].loaded = [x \in Employees |-> memo[w].loaded[x]]
        /\ memo[w].net = [x \in Employees |-> memo[w].net[x]]
    BY <1>1 DEF Memo
  <2>3. memo = [v \in Workers |-> memo[v]]
    BY <1>1
  <2>4. memo'[w] = m
    BY <2>1, <2>2, <2>3 DEF RunEmployee
  <2>5. /\ memo' = [v \in Workers |-> memo'[v]]
        /\ \A v \in Workers \ {w} : memo'[v] = memo[v]
    BY <2>3 DEF RunEmployee
  <2> HIDE DEF m
  <2> QED BY <2>3, <2>4, <2>5
<1>5. m \in Memo /\ m.adj = old.adj
  <2> HIDE DEF slip, net
  <2> QED BY <1>1, <1>2, <1>3 DEF Memo
<1> HIDE DEF m
<1>6. memo' \in [Workers -> Memo] /\ \A u \in Workers : IsFiniteSet(memo'[u].adj)
  BY <1>1, <1>4, <1>5, MemoType
<1> QED BY <1>6, Typed, TypedAfter DEF RunEmployee

LEMMA RunFlushTyped ==
  ASSUME TInv, NEW w \in Workers, RunFlush(w) PROVE TInv'
<1> DEFINE old == memo[w]
           totals == TotalsOf(memo[w])
           m == [old EXCEPT !.flushed = TRUE, !.totals = totals]
<1>1. old \in Memo /\ IsFiniteSet(old.adj) /\ memo \in [Workers -> Memo]
  BY Typed
<1>2. totals \in Totals
  BY <1>1, Typed, TotalsType
<1>3. memo' = [memo EXCEPT ![w] = m]
  <2>1. memo' = [memo EXCEPT ![w].flushed = TRUE, ![w].totals = totals]
    BY DEF RunFlush
  <2> HIDE DEF totals
  <2> QED BY <1>1, <2>1
<1> HIDE DEF totals
<1>4. m \in Memo /\ m.adj = old.adj
  BY <1>1, <1>2 DEF Memo
<1> HIDE DEF m
<1>5. memo' \in [Workers -> Memo] /\ \A u \in Workers : IsFiniteSet(memo'[u].adj)
  BY <1>1, <1>3, <1>4, MemoType
<1> QED BY <1>5, Typed, TypedAfter DEF RunFlush

LEMMA RunCommitTyped ==
  ASSUME TInv, NEW w \in Workers, RunCommit(w) PROVE TInv'
<1>1. memo[w] \in Memo /\ seen[w] \in CycleRec /\ cycle \in CycleRec
  BY Typed
<1>2. slips' \in [Employees -> Slip]
  <2>1. slips \in [Employees -> Slip]
    BY Typed
  <2>2. \A e \in Employees : SlipAfter(memo[w], e) \in Slip
    BY <1>1, <2>1, SlipAfterType
  <2> QED BY <2>2 DEF RunCommit
<1>3. cycle' \in CycleRec
  <2>1. seen[w].totals \in Totals /\ memo[w].totals \in Totals /\ seen[w].status \in Statuses
    BY <1>1 DEF CycleRec, Memo
  <2>2. cycle' = [cycle EXCEPT
       !.totals = Column(@, seen[w].totals, memo[w].totals),
       !.status = Column(@, seen[w].status, "PROCESSING")]
    BY DEF RunCommit
  <2> QED BY <1>1, <2>1, <2>2, CommittedTotals
<1>4. End(w)
  BY DEF RunCommit
<1> QED BY <1>2, <1>3, <1>4, EndType, Typed, TypedAfter DEF RunCommit

\* The endpoints that answer at once: RunConflict, Approve, MarkPaid, Cancel,
\* Delete, AdjustCommit and Abandon.
LEMMA EndTyped ==
  ASSUME TInv, NEW w \in Workers, End(w),
         cycle' \in CycleRec, slips' \in [Employees -> Slip],
         adjustments' \subseteq Adjustments, IsFiniteSet(adjustments'),
         history' \subseteq {"run", "approved", "paid"},
         UNCHANGED <<structure, timesheet, edits>>
  PROVE  TInv'
BY EndType, Typed, TypedAfter

LEMMA StatusTyped ==
  ASSUME TInv, NEW s \in Statuses, NEW b \in BOOLEAN
  PROVE  /\ [cycle EXCEPT !.status = s] \in CycleRec
         /\ [cycle EXCEPT !.deleted = b] \in CycleRec
BY Typed DEF CycleRec

LEMMA DecisionTyped ==
  ASSUME TInv, NEW w \in Workers,
         Approve(w) \/ MarkPaid(w) \/ Cancel(w) \/ Delete(w) \/ RunConflict(w) \/ Abandon(w)
  PROVE  TInv'
<1>0. /\ cycle \in CycleRec /\ slips \in [Employees -> Slip]
      /\ adjustments \subseteq Adjustments /\ IsFiniteSet(adjustments)
      /\ history \subseteq {"run", "approved", "paid"}
  BY Typed
<1>1. CASE Approve(w)
  <2>1. "APPROVED" \in Statuses
    BY DEF Statuses
  <2>2. cycle' \in CycleRec
    BY <1>1, <2>1, StatusTyped DEF Approve
  <2> QED BY <1>0, <1>1, <2>2, EndTyped DEF Approve
<1>2. CASE MarkPaid(w)
  <2>1. "PAID" \in Statuses
    BY DEF Statuses
  <2>2. cycle' \in CycleRec
    BY <1>2, <2>1, StatusTyped DEF MarkPaid
  <2>3. \A e \in Employees : [slips[e] EXCEPT !.paid = TRUE, !.stamped = TRUE] \in Slip
    BY <1>0 DEF Slip
  <2>4. slips' \in [Employees -> Slip]
    BY <1>0, <1>2, <2>3 DEF MarkPaid
  <2> QED BY <1>0, <1>2, <2>2, <2>4, EndTyped DEF MarkPaid
<1>3. CASE Cancel(w)
  <2>1. Column(cycle.status, seen[w].status, "CANCELLED") \in Statuses
    BY <1>0 DEF Column, Statuses, CycleRec
  <2>2. cycle' = [cycle EXCEPT !.status = Column(cycle.status, seen[w].status, "CANCELLED")]
    BY <1>3 DEF Cancel
  <2>3. cycle' \in CycleRec
    BY <2>1, <2>2, StatusTyped
  <2> QED BY <1>0, <1>3, <2>3, EndTyped DEF Cancel
<1>4. CASE Delete(w)
  <2>1. cycle' \in CycleRec
    BY <1>0, <1>4 DEF Delete, CycleRec
  <2> QED BY <1>0, <1>4, <2>1, EndTyped DEF Delete
<1>5. CASE RunConflict(w)
  BY <1>0, <1>5, EndTyped DEF RunConflict
<1>6. CASE Abandon(w)
  BY <1>0, <1>6, EndTyped DEF Abandon
<1> QED BY <1>1, <1>2, <1>3, <1>4, <1>5, <1>6

LEMMA DecideLoadTyped ==
  ASSUME TInv, NEW w \in Workers, DecideLoad(w) PROVE TInv'
<1>1. PICK request \in Decisions : Load(w, request, Allowed(request))
  BY DEF DecideLoad
<1>2. request \in Requests
  BY DEF Requests
<1>3. op' \in [Workers -> Requests \cup {"idle"}] /\ seen' \in [Workers -> CycleRec]
  BY <1>1, <1>2, LoadType
<1> QED BY <1>3, Typed, TypedAfter DEF DecideLoad

LEMMA AdjustTyped ==
  ASSUME TInv, NEW w \in Workers, AdjustLoad(w) \/ AdjustCommit(w) PROVE TInv'
<1>1. CASE AdjustLoad(w)
  <2>1. PICK a \in Adjustments :
          /\ Load(w, IF a \in adjustments THEN "remove" ELSE "add", Editable)
          /\ memo' = [memo EXCEPT ![w].adj = {a}]
    BY <1>1 DEF AdjustLoad
  <2> DEFINE m == [memo[w] EXCEPT !.adj = {a}]
  <2>2. memo[w] \in Memo /\ memo \in [Workers -> Memo]
    BY Typed
  <2>3. m \in Memo /\ m.adj = {a}
    BY <2>2 DEF Memo
  <2>4. IsFiniteSet(m.adj)
    <3>1. IsFiniteSet({a})
      BY FS_Singleton
    <3> QED BY <2>3, <3>1
  <2>5. memo' = [memo EXCEPT ![w] = m]
    BY <2>1, <2>2
  <2> HIDE DEF m
  <2>6. memo' \in [Workers -> Memo] /\ \A u \in Workers : IsFiniteSet(memo'[u].adj)
    BY <2>3, <2>4, <2>5, MemoType
  <2>7. (IF a \in adjustments THEN "remove" ELSE "add") \in Requests
    BY DEF Requests
  <2>8. op' \in [Workers -> Requests \cup {"idle"}] /\ seen' \in [Workers -> CycleRec]
    BY <2>1, <2>7, LoadType
  <2>9. edits' \in 0 .. MaxEdits
    BY <1>1, Typed, InputsAssumption DEF AdjustLoad
  <2> QED BY <1>1, <2>6, <2>8, <2>9, Typed, TypedAfter DEF AdjustLoad
<1>2. CASE AdjustCommit(w)
  <2>1. memo[w].adj \subseteq Adjustments /\ IsFiniteSet(memo[w].adj)
    BY Typed DEF Memo
  <2>2. adjustments \subseteq Adjustments /\ IsFiniteSet(adjustments)
    BY Typed
  <2>3. IsFiniteSet(adjustments \cup memo[w].adj) /\ IsFiniteSet(adjustments \ memo[w].adj)
    BY <2>1, <2>2, FS_Union, FS_Difference
  <2>4. adjustments' \subseteq Adjustments /\ IsFiniteSet(adjustments')
    BY <1>2, <2>1, <2>2, <2>3 DEF AdjustCommit
  <2> QED BY <1>2, <2>4, EndTyped, Typed DEF AdjustCommit
<1> QED BY <1>1, <1>2

LEMMA InputTyped ==
  ASSUME TInv, NEW e \in Employees, SetStructure(e) \/ SetTimesheet(e) PROVE TInv'
<1>1. edits' \in 0 .. MaxEdits
  BY Typed, InputsAssumption DEF SetStructure, SetTimesheet
<1>2. CASE SetStructure(e)
  <2>1. structure' \in [Employees -> Structures \cup {None}]
    BY <1>2, Typed DEF SetStructure
  <2> QED BY <1>1, <1>2, <2>1, Typed, TypedAfter DEF SetStructure
<1>3. CASE SetTimesheet(e)
  <2>1. timesheet' \in [Employees -> Timesheets \cup {None}]
    BY <1>3, Typed DEF SetTimesheet
  <2> QED BY <1>1, <1>3, <2>1, Typed, TypedAfter DEF SetTimesheet
<1> QED BY <1>2, <1>3

LEMMA NextTInv == TInv /\ [Next]_vars => TInv'
<1> SUFFICES ASSUME TInv, [Next]_vars PROVE TInv'
  OBVIOUS
<1>1. CASE UNCHANGED vars
  BY <1>1, Typed, TypedAfter DEF vars
<1>2. ASSUME NEW w \in Workers,
             RunLoad(w) \/ RunFlush(w) \/ RunConflict(w) \/ RunCommit(w)
               \/ (\E e \in Employees : RunEmployee(w, e))
               \/ DecideLoad(w) \/ Approve(w) \/ MarkPaid(w) \/ Cancel(w) \/ Delete(w)
               \/ AdjustLoad(w) \/ AdjustCommit(w) \/ Abandon(w)
      PROVE  TInv'
  BY <1>2, RunLoadTyped, RunFlushTyped, RunCommitTyped, RunEmployeeTyped, DecideLoadTyped,
     DecisionTyped, AdjustTyped
<1>3. ASSUME NEW e \in Employees, SetStructure(e) \/ SetTimesheet(e) PROVE TInv'
  BY <1>3, InputTyped
<1> QED BY <1>1, <1>2, <1>3 DEF Next

(* Type correctness of the payroll cycle: whatever the requests do and     *)
(* however they overlap, every row and every request's memory keeps its    *)
(* type - a payslip's net is a number, never the mark of a skipped         *)
(* employee, and what a run sums are numbers.                              *)
THEOREM TypeCorrect == Spec => []TypeOK
<1>1. Init => TInv
  BY InitTInv
<1>2. TInv /\ [Next]_vars => TInv'
  BY NextTInv
<1>3. TInv => TypeOK
  BY DEF TInv
<1> QED BY <1>1, <1>2, <1>3, PTL DEF Spec
===============================================================================
