------------------------------- MODULE Exits -------------------------------
(***************************************************************************)
(* The asset register and the exit checklist, which share the assignments  *)
(* of assets: router/enterprise/assets.py, router/enterprise/offboarding.py *)
(* and the logins that services/enterprise/account_service.py provisions.  *)
(*                                                                         *)
(* The load of a request leaves the rows to write in desk[d]; ExitCommit    *)
(* stores them and ExitAbandon drops them.                                  *)
(***************************************************************************)
EXTENDS Requests, Integers, Sequences

CONSTANTS
    Staff,      \* employees
    Assets,     \* assets, each with its tag
    Conditions, \* the conditions an asset may come back in
    Statuses,   \* the statuses HR sets by hand
    MaxLoans,   \* bound: assignments ever made
    MaxExits    \* bound: exits ever requested

ASSUME ExitsAssumption ==
    /\ MaxLoans \in Nat /\ MaxExits \in Nat
    /\ Conditions \subseteq {"good", "damaged", "unusable", "not_returned"}
    /\ Statuses \subseteq {"available", "in_repair", "retired", "lost"}

VARIABLES
    shelf,      \* Asset.status, "absent" before the row, "deleted" after deleted_at
    loans,      \* asset_assignments: asset, holder, and returned_at IS NULL
    exits,      \* offboardings: employee, status, checklist, and the login it found
    login,      \* the employee's EnterpriseUser: none, on or off
    left,       \* employees whose status is "Inactive"
    desk        \* the rows each request is about to write

exitVars == <<staffed, shelf, loans, exits, login, left, desk>>

(* The checklist: one task per assignment held when it was built, named by *)
(* that assignment, and "Revoke system access".  The other required tasks   *)
(* change nothing when ticked: all they do is put off Complete, which may   *)
(* come late without them.  Optional ones are never consulted.              *)
Access == 0

After(condition) ==
    CASE condition = "good" -> "available"
      [] condition = "damaged" -> "in_repair"
      [] condition = "unusable" -> "retired"
      [] condition = "not_returned" -> "lost"

InProgress == {"requested", "approved", "in_progress"}

NoWrites == [lend |-> <<>>, back |-> {}, make |-> {}, put |-> <<>>, open |-> <<>>,
          exit |-> 0, to |-> "", tick |-> <<>>, add |-> {}, drop |-> {},
          revoke |-> {}, leave |-> {}]

-----------------------------------------------------------------------------
(* What the handlers read. *)

OnShelf(a) == shelf[a] \notin {"absent", "deleted"}

Out(a) == {i \in DOMAIN loans : loans[i].asset = a /\ loans[i].out}

HeldBy(e) == {i \in DOMAIN loans : loans[i].who = e /\ loans[i].out}

\* A column is written only when its value changes.
SetTo(a, status) == IF shelf[a] = status THEN <<>> ELSE [b \in {a} |-> status]

\* Bounds: assignments and exits, those about to be stored included.
Loaned == Len(loans) + Cardinality({d \in Desks : desk[d] # Idle /\ desk[d].lend # <<>>})
Raised == Len(exits) + Cardinality({d \in Desks : desk[d] # Idle /\ desk[d].open # <<>>})

AtDesk(d) == d \in staffed /\ desk[d] = Idle

Ask(d, writes) ==
    /\ desk' = [desk EXCEPT ![d] = writes]
    /\ UNCHANGED <<staffed, shelf, loans, exits, login, left>>

-----------------------------------------------------------------------------
(* The register. *)

\* The check reads live rows only; the unique tag is refused at the commit.
CreateAsset(d, a) ==
    /\ AtDesk(d) /\ ~OnShelf(a)
    /\ Ask(d, [NoWrites EXCEPT !.make = {a}, !.put = [b \in {a} |-> "available"]])

Assign(d, a, e) ==
    /\ AtDesk(d) /\ OnShelf(a)
    /\ Out(a) = {} /\ shelf[a] \notin {"retired", "lost"}
    /\ Ask(d, [NoWrites EXCEPT !.lend = <<[asset |-> a, who |-> e, out |-> TRUE]>>,
                            !.put = SetTo(a, "assigned")])

TakeBack(d, a, condition) ==
    /\ AtDesk(d) /\ OnShelf(a)
    /\ \E i \in Out(a) :
          /\ \A j \in Out(a) : i <= j
          /\ Ask(d, [NoWrites EXCEPT !.back = {i}, !.put = SetTo(a, After(condition))])

\* Mutant: the status of an asset in somebody's hands may be set by hand.
SetStatusUnchecked(d, a, status) ==
    /\ AtDesk(d) /\ OnShelf(a)
    /\ Ask(d, [NoWrites EXCEPT !.put = SetTo(a, status)])

SetStatus(d, a, status) ==
    /\ AtDesk(d) /\ OnShelf(a) /\ Out(a) = {}
    /\ Ask(d, [NoWrites EXCEPT !.put = SetTo(a, status)])

DeleteAsset(d, a) ==
    /\ AtDesk(d) /\ OnShelf(a) /\ Out(a) = {}
    /\ Ask(d, [NoWrites EXCEPT !.put = [b \in {a} |-> "deleted"]])

-----------------------------------------------------------------------------
(* The exit. *)

\* One asset task per assignment held now; none is done.
Checklist(e) == [k \in HeldBy(e) \cup {Access} |-> FALSE]

CreateExit(d, e) ==
    /\ AtDesk(d)
    /\ \A x \in DOMAIN exits : exits[x].who = e => exits[x].status \notin InProgress
    /\ Ask(d, [NoWrites EXCEPT !.open = <<[who |-> e, status |-> "requested",
                                        tasks |-> Checklist(e),
                                        found |-> login[e] = "on"]>>])

DecideExit(d, x, verdict) ==
    /\ AtDesk(d) /\ exits[x].status = "requested"
    /\ Ask(d, [NoWrites EXCEPT !.exit = x, !.to = verdict])

CancelExit(d, x) ==
    /\ AtDesk(d) /\ exits[x].status \notin {"completed", "cancelled"}
    /\ Ask(d, [NoWrites EXCEPT !.exit = x, !.to = "cancelled"])

\* The assignments a ticked asset task finds: those of the asset and the leaver.
Recalled(x, k) ==
    {i \in DOMAIN loans : /\ k > 0 /\ loans[i].out
                          /\ loans[i].asset = loans[k].asset
                          /\ loans[i].who = exits[x].who}

Tick(d, x, k, condition) ==
    LET task == exits[x].tasks[k]
        found == Recalled(x, k)
    IN  /\ AtDesk(d) /\ exits[x].status \notin {"rejected", "cancelled"}
        /\ task => exits[x].status = "approved"    \* else the tick writes nothing
        /\ task \/ Cardinality(found) <= 1        \* scalar_one_or_none raises on two
        /\ Ask(d, [NoWrites EXCEPT
              !.exit = x,
              !.to = IF exits[x].status = "approved" THEN "in_progress" ELSE "",
              !.tick = IF task THEN <<>> ELSE [j \in {k} |-> TRUE],
              !.back = IF task THEN {} ELSE found,
              !.put = IF task \/ found = {} THEN <<>>
                      ELSE SetTo(loans[k].asset, After(condition)),
              !.revoke = IF k = Access /\ ~task THEN {exits[x].who} ELSE {}])

Untick(d, x, k) ==
    /\ AtDesk(d) /\ exits[x].status \notin {"rejected", "cancelled"}
    /\ exits[x].tasks[k]
    /\ Ask(d, [NoWrites EXCEPT !.exit = x, !.tick = [j \in {k} |-> FALSE]])

\* A title typed again after it was removed is the same task to Tick.
AddTask(d, x) ==
    /\ AtDesk(d) /\ Access \notin DOMAIN exits[x].tasks
    /\ Ask(d, [NoWrites EXCEPT !.exit = x, !.add = {Access}])

RemoveTask(d, x, k) ==
    /\ AtDesk(d) /\ k = Access
    /\ Ask(d, [NoWrites EXCEPT !.exit = x, !.drop = {k}])

\* Mutant: one task done is enough.
CompleteOneDone(d, x) ==
    /\ AtDesk(d) /\ exits[x].status \in {"approved", "in_progress"}
    /\ \E k \in DOMAIN exits[x].tasks : exits[x].tasks[k]
    /\ Ask(d, [NoWrites EXCEPT !.exit = x, !.to = "completed", !.leave = {exits[x].who}])

Complete(d, x) ==
    /\ AtDesk(d) /\ exits[x].status \in {"approved", "in_progress"}
    /\ \A k \in DOMAIN exits[x].tasks : exits[x].tasks[k]
    /\ Ask(d, [NoWrites EXCEPT !.exit = x, !.to = "completed", !.leave = {exits[x].who}])

-----------------------------------------------------------------------------
(* The end of a request. *)

\* A new tag is unique among all rows, and a task to change is still there.
Storable(w) ==
    /\ \A a \in w.make : shelf[a] = "absent"
    /\ w.exit # 0 => DOMAIN w.tick \cup w.drop \subseteq DOMAIN exits[w.exit].tasks

Edited(exit, w) ==
    LET kept == DOMAIN exit.tasks \ w.drop
    IN  [exit EXCEPT
           !.status = IF w.to = "" THEN @ ELSE w.to,
           !.tasks = [k \in kept \cup w.add |->
                        IF k \in DOMAIN w.tick THEN w.tick[k]
                        ELSE k \in kept /\ exit.tasks[k]]]

ExitCommit(d) ==
    LET w == desk[d]
    IN  /\ w # Idle /\ Storable(w)
        /\ shelf' = [a \in Assets |-> IF shelf[a] = "deleted" \/ a \notin DOMAIN w.put
                                      THEN shelf[a] ELSE w.put[a]]
        /\ loans' = [i \in DOMAIN loans |->
                       [loans[i] EXCEPT !.out = @ /\ i \notin w.back]] \o w.lend
        /\ exits' = [x \in DOMAIN exits |->
                       IF x = w.exit THEN Edited(exits[x], w) ELSE exits[x]] \o w.open
        /\ login' = [e \in Staff |-> IF e \in w.revoke /\ login[e] = "on"
                                     THEN "off" ELSE login[e]]
        /\ left' = left \cup w.leave
        /\ desk' = [desk EXCEPT ![d] = Idle]
        /\ UNCHANGED staffed

\* The client goes away, the process stops, or the commit is refused.
ExitAbandon(d) ==
    /\ desk[d] # Idle
    /\ desk' = [desk EXCEPT ![d] = Idle]
    /\ UNCHANGED <<staffed, shelf, loans, exits, login, left>>

\* A survey or a feedback cycle gives a login to an employee who has none.
Provision(e) ==
    /\ login[e] = "none"
    /\ login' = [login EXCEPT ![e] = "on"]
    /\ UNCHANGED <<staffed, shelf, loans, exits, left, desk>>

\* Bound: where requests overlap, everything comes back in one and the same condition.
Returns == IF Alone THEN Conditions ELSE {CHOOSE c \in Conditions : TRUE}

ExitsInit ==
    /\ StaffedInit
    /\ shelf = [a \in Assets |-> "absent"]
    /\ loans = <<>> /\ exits = <<>>
    /\ login = [e \in Staff |-> "none"]
    /\ left = {}
    /\ desk = [d \in Desks |-> Idle]

RegisterNext(d) ==
    \E a \in Assets :
        \/ CreateAsset(d, a)
        \/ \E e \in Staff : Loaned < MaxLoans /\ Assign(d, a, e)
        \/ \E c \in Returns : TakeBack(d, a, c)
        \/ \E s \in Statuses : SetStatus(d, a, s)
        \/ DeleteAsset(d, a)

ExitNext(d) ==
    \E x \in DOMAIN exits :
        \/ \E v \in {"approved", "rejected"} : DecideExit(d, x, v)
        \/ CancelExit(d, x)
        \/ AddTask(d, x)
        \/ Complete(d, x)
        \/ \E k \in DOMAIN exits[x].tasks :
              \/ \E c \in Returns : Tick(d, x, k, c)
              \/ Untick(d, x, k)
              \/ RemoveTask(d, x, k)

ExitsNext ==
    \/ \E d \in Desks :
          \/ RegisterNext(d)
          \/ \E e \in Staff : Raised < MaxExits /\ CreateExit(d, e)
          \/ ExitNext(d)
          \/ ExitCommit(d)
          \/ ExitAbandon(d)
    \/ \E e \in Staff : Provision(e)

ExitsSpec == ExitsInit /\ [][ExitsNext]_exitVars

-----------------------------------------------------------------------------
(* With one request at a time, the status of an asset says "assigned"       *)
(* exactly when one assignment of it is open ("the register and the        *)
(* assignments cannot disagree"): whoever moves the one, the register or   *)
(* the exit checklist, moves the other, and no asset has two holders.       *)
RegisterAgrees ==
    Alone =>
        \A a \in Assets : Cardinality(Out(a)) = IF shelf[a] = "assigned" THEN 1 ELSE 0

(* However requests overlap, and whatever is ticked, unticked, added or     *)
(* removed: a completed exit has every assignment its checklist was built   *)
(* from closed, and a ticked access task has the login it found off.        *)
ExitClosedClean ==
    \A x \in DOMAIN exits : \A k \in DOMAIN exits[x].tasks :
        /\ (exits[x].status = "completed" /\ k > 0) => ~loans[k].out
        /\ (exits[x].tasks[k] /\ k > 0) => ~loans[k].out
        /\ (exits[x].tasks[k] /\ k = Access /\ exits[x].found) => login[exits[x].who] = "off"

(* What complete promises of its gate, offboarding.py:597-598: "it is what  *)
(* stops somebody walking out with a laptop and a live login".  The code    *)
(* gates on the checklist, which is never rebuilt: an asset handed out       *)
(* later, a login provisioned later or a removed access task pass it.       *)
LeaversHoldNothing ==
    \A x \in DOMAIN exits : exits[x].status = "completed" =>
        HeldBy(exits[x].who) = {} /\ login[exits[x].who] # "on"
=============================================================================
