----------------------------- MODULE OfficeProofs -----------------------------
(***************************************************************************)
(* Proofs about the office, component by component.  For any overlap of     *)
(* requests: an import erases its own year, a completed exit is clean, pay  *)
(* ends only on request, a completed drill has a completed session, and a   *)
(* day shows its punches unless another write overlapped the last punch.    *)
(* For one request at a time: register and assignments agree, document,     *)
(* mapping and template hold together, codes are not given out twice,       *)
(* answers count once.  Of every payslip: the tax settles, the earnings add  *)
(* up and the statutory lines stay within the gross.                         *)
(***************************************************************************)
EXTENDS Exits, Joiners, CompanySettings, Feedback, Attendance, HolidayCalendar,
        SalaryStructures, Payslip, DataLemmas, TLAPS

(* One request at a time: the desk at work is the only one.                 *)
LEMMA OnlyDesk ==
  ASSUME staffed \in {{CHOOSE d \in Desks : TRUE}, Desks}, Alone, NEW d \in staffed, NEW e \in staffed
  PROVE  d = e
<1> DEFINE one == CHOOSE c \in Desks : TRUE
<1>1. IsFiniteSet(staffed)
  <2>1. staffed = {one} \/ staffed = Desks
    OBVIOUS
  <2> HIDE DEF one
  <2> QED BY <2>1, RequestsAssumption, FS_Singleton
<1> QED BY <1>1, FS_Singleton DEF Alone

-------------------------------------------------------------------------------
(* HolidayCalendar *)

(* What a running import is to erase is of the years of its file.          *)
CalendarInv ==
  /\ holidays = [date \in Dates |-> holidays[date]]
  /\ \A date \in Dates : holidays[date] = [state |-> holidays[date].state, row |-> holidays[date].row]
  /\ admin = [d \in Desks |-> admin[d]]
  /\ \A d \in Desks : admin[d] # Idle =>
        \/ admin[d].kind = "delete"
        \/ /\ admin[d].kind = "import"
           /\ \A x \in admin[d].doomed : \E y \in admin[d].file : YearOf[y] = YearOf[x.date]

LEMMA CalendarStep == CalendarInv /\ [CalendarNext]_calendarVars => CalendarInv'
<1> SUFFICES ASSUME CalendarInv, [CalendarNext]_calendarVars PROVE CalendarInv'
  OBVIOUS
<1>1. ASSUME NEW date \in Dates, CreateHoliday(date) PROVE CalendarInv'
  BY <1>1 DEF CreateHoliday, CalendarInv
<1>2. ASSUME NEW d \in Desks, NEW date \in Dates, LoadForDelete(d, date) PROVE CalendarInv'
  BY <1>2 DEF LoadForDelete, AdminServes, CalendarInv
<1>3. ASSUME NEW d \in Desks, NEW file \in Files, NEW replace \in BOOLEAN,
             LoadForImport(d, file, replace)
      PROVE  CalendarInv'
  <2> DEFINE w == [kind |-> "import", file |-> file,
                   doomed |-> {[date |-> date, row |-> holidays[date].row] :
                                  date \in Doomed(file, replace)}]
  <2>1. admin' = [admin EXCEPT ![d] = w] /\ UNCHANGED <<staffed, holidays>>
    BY <1>3 DEF LoadForImport, AdminServes
  <2>2. \A x \in w.doomed : \E y \in w.file : YearOf[y] = YearOf[x.date]
    BY DEF Doomed
  <2>3. w.kind = "import"
    OBVIOUS
  <2> HIDE DEF w
  <2> QED BY <2>1, <2>2, <2>3 DEF CalendarInv
<1>4. ASSUME NEW d \in Desks, CommitDelete(d) PROVE CalendarInv'
  <2>1. admin' = [admin EXCEPT ![d] = Idle]
    BY <1>4 DEF CommitDelete, AdminEnds
  <2>2. holidays' = holidays \/ holidays' = [holidays EXCEPT ![admin[d].date].state = "deleted"]
    BY <1>4 DEF CommitDelete
  <2> QED BY <2>1, <2>2 DEF CalendarInv
<1>5. ASSUME NEW d \in Desks, CommitImport(d) PROVE CalendarInv'
  <2> DEFINE w == admin[d]
             erased == {x \in w.doomed : holidays[x.date].row = x.row}
             cleared == [date \in Dates |->
                           IF \E x \in erased : x.date = date
                           THEN [holidays[date] EXCEPT !.state = "none"] ELSE holidays[date]]
             new == {date \in w.file : cleared[date].state # "live"}
  <2>1. admin' = [admin EXCEPT ![d] = Idle]
    BY <1>5 DEF CommitImport, AdminEnds
  <2>2. \/ holidays' = holidays
        \/ holidays' = [date \in Dates |-> IF date \in new
                                           THEN [state |-> "live", row |-> cleared[date].row + 1]
                                           ELSE cleared[date]]
    BY <1>5 DEF CommitImport
  <2>3. \A date \in Dates :
          cleared[date] = [state |-> cleared[date].state, row |-> cleared[date].row]
    BY DEF CalendarInv
  <2> HIDE DEF new, cleared
  <2>4. /\ holidays' = [date \in Dates |-> holidays'[date]]
        /\ \A date \in Dates : holidays'[date] = [state |-> holidays'[date].state,
                                                  row |-> holidays'[date].row]
    <3>1. CASE holidays' = holidays
      BY <3>1 DEF CalendarInv
    <3>2. CASE holidays' = [date \in Dates |-> IF date \in new
                                               THEN [state |-> "live", row |-> cleared[date].row + 1]
                                               ELSE cleared[date]]
      BY <2>3, <3>2
    <3> QED BY <2>2, <3>1, <3>2
  <2> QED BY <2>1, <2>4 DEF CalendarInv
<1>6. ASSUME NEW d \in Desks, AdminAbandons(d) PROVE CalendarInv'
  BY <1>6 DEF AdminAbandons, AdminEnds, CalendarInv
<1>7. CASE UNCHANGED calendarVars
  BY <1>7 DEF calendarVars, CalendarInv
<1> QED BY <1>1, <1>2, <1>3, <1>4, <1>5, <1>6, <1>7 DEF CalendarNext

LEMMA CalendarKeeps ==
  ASSUME CalendarInv, CalendarNext, NEW date \in Dates, Live(date), ~Live(date)'
  PROVE  \E d \in Desks :
           /\ admin[d] # Idle /\ admin'[d] = Idle
           /\ IF admin[d].kind = "delete" THEN admin[d].date = date
              ELSE \E x \in admin[d].file : YearOf[x] = YearOf[date]
<1>1. ASSUME NEW other \in Dates, CreateHoliday(other) PROVE FALSE
  BY <1>1 DEF CreateHoliday, CalendarInv, Live
<1>2. CASE holidays' = holidays
  BY <1>2 DEF Live
<1>3. ASSUME NEW d \in Desks, CommitDelete(d), holidays' # holidays
      PROVE  admin[d] # Idle /\ admin'[d] = Idle /\ admin[d].kind = "delete" /\ admin[d].date = date
  BY <1>3 DEF CommitDelete, AdminEnds, CalendarInv, Live
<1>4. ASSUME NEW d \in Desks, CommitImport(d), holidays' # holidays
      PROVE  /\ admin[d] # Idle /\ admin'[d] = Idle /\ admin[d].kind # "delete"
             /\ \E x \in admin[d].file : YearOf[x] = YearOf[date]
  <2> DEFINE w == admin[d]
             erased == {x \in w.doomed : holidays[x.date].row = x.row}
             cleared == [y \in Dates |->
                           IF \E x \in erased : x.date = y
                           THEN [holidays[y] EXCEPT !.state = "none"] ELSE holidays[y]]
             new == {y \in w.file : cleared[y].state # "live"}
  <2>1. /\ w # Idle /\ w.kind = "import" /\ admin' = [admin EXCEPT ![d] = Idle]
        /\ holidays' = [y \in Dates |-> IF y \in new
                                        THEN [state |-> "live", row |-> cleared[y].row + 1]
                                        ELSE cleared[y]]
    BY <1>4 DEF CommitImport, AdminEnds
  <2>2. \E x \in erased : x.date = date
    <3> SUFFICES ASSUME ~\E x \in erased : x.date = date PROVE FALSE
      OBVIOUS
    <3>1. cleared[date] = holidays[date]
      OBVIOUS
    <3> HIDE DEF new, cleared
    <3> QED BY <2>1, <3>1 DEF Live
  <2>3. \E y \in w.file : YearOf[y] = YearOf[date]
    <3>1. admin[d] # Idle /\ admin[d].kind = "import"
      BY <2>1
    <3>2. \A x \in admin[d].doomed : \E y \in admin[d].file : YearOf[y] = YearOf[x.date]
      BY <3>1 DEF CalendarInv
    <3>3. PICK x \in admin[d].doomed : x.date = date
      <4> HIDE DEF new, cleared
      <4> QED BY <2>2
    <3> QED BY <3>2, <3>3
  <2> QED BY <2>1, <2>3 DEF CalendarInv
<1> QED BY <1>1, <1>2, <1>3, <1>4
    DEF CalendarNext, LoadForDelete, LoadForImport, AdminServes, AdminAbandons

(* However imports, creations and deletions overlap: a holiday goes only     *)
(* with a request that deletes it, or with a file of its own year.          *)
THEOREM ImportsKept == CalendarSpec => ImportsKeepOtherYears
<1>1. CalendarInit => CalendarInv
  BY DEF CalendarInit, CalendarInv
<1>2. CalendarInv /\ [CalendarNext]_calendarVars =>
        [\A date \in Dates :
           (Live(date) /\ ~Live(date)') =>
             \E d \in Desks :
                 /\ admin[d] # Idle /\ admin'[d] = Idle
                 /\ IF admin[d].kind = "delete" THEN admin[d].date = date
                    ELSE \E x \in admin[d].file : YearOf[x] = YearOf[date]]_calendarVars
  BY CalendarKeeps
<1> QED BY <1>1, <1>2, CalendarStep, PTL DEF CalendarSpec, ImportsKeepOtherYears-------------------------------------------------------------------------------

(* Exits *)

ExitStates == InProgress \cup {"completed", "rejected", "cancelled"}

LoanRec == [asset : Assets, who : Staff, out : BOOLEAN]

ExitRec == [who : Staff, status : ExitStates, found : BOOLEAN,
            tasks : UNION {[S -> BOOLEAN] : S \in SUBSET Nat}]

(* An asset task is about an assignment of the leaver, which is closed once *)
(* the task or the exit is done; the login that was found is still there,   *)
(* and off once the access task is done.                                   *)
ExitGood(e) ==
  /\ \A k \in DOMAIN e.tasks \ {Access} :
        /\ k \in DOMAIN loans /\ loans[k].who = e.who
        /\ (e.status = "completed" \/ e.tasks[k]) => ~loans[k].out
  /\ e.found => login[e.who] # "none"
  /\ (e.found /\ Access \in DOMAIN e.tasks /\ e.tasks[Access]) => login[e.who] = "off"

(* What a request is to write to an exit it has loaded: a task it ticks      *)
(* comes with the closing it stands for, and every assignment of an exit    *)
(* it completes was closed when it looked.                                 *)
EditGood(w) ==
  LET e == exits[w.exit] IN
  /\ w.exit \in DOMAIN exits
  /\ w.to \in ExitStates \cup {NoWrites.to} /\ w.add \subseteq {Access}
  /\ \A k \in DOMAIN w.tick :
        /\ w.tick[k] \in BOOLEAN
        /\ w.tick[k] => \/ k = Access /\ (e.found => e.who \in w.revoke)
                        \/ k # Access /\ (k \in w.back \/ ~loans[k].out)
        /\ k # Access => k \in DOMAIN loans
  /\ \A k \in DOMAIN e.tasks \ {Access} :
        k \in DOMAIN loans /\ (w.to = "completed" => ~loans[k].out)

WritesGood(w) ==
  /\ w.lend \in Seq(LoanRec) /\ w.open \in Seq(ExitRec)
  /\ \A x \in DOMAIN w.open : ExitGood(w.open[x])
  /\ w.exit = 0 \/ EditGood(w)

\* The register and the assignments, and what one request is to write to them.
RegisterFits ==
  \A a \in Assets : /\ \A i, j \in Out(a) : i = j
                    /\ Out(a) = {} <=> shelf[a] # "assigned"

RegisterGood(w) ==
  \/ /\ w.lend = <<>> /\ w.back = {}
     /\ \A a \in Assets \cap DOMAIN w.put : Out(a) = {} /\ w.put[a] # "assigned"
  \/ \E i \in DOMAIN loans :
        /\ loans[i].out /\ w.lend = <<>> /\ w.back = {i}
        /\ DOMAIN w.put = {loans[i].asset} /\ w.put[loans[i].asset] # "assigned"
  \/ \E r \in LoanRec :
        /\ r.out /\ w.lend = <<r>> /\ w.back = {}
        /\ DOMAIN w.put = {r.asset} /\ w.put[r.asset] = "assigned"
        /\ Out(r.asset) = {} /\ OnShelf(r.asset)

ExitsInv ==
  /\ staffed \in {{CHOOSE d \in Desks : TRUE}, Desks}
  /\ shelf = [a \in Assets |-> shelf[a]]
  /\ loans \in Seq(LoanRec) /\ exits \in Seq(ExitRec)
  /\ login \in [Staff -> {"none", "on", "off"}]
  /\ desk = [d \in Desks |-> desk[d]]
  /\ \A x \in DOMAIN exits : ExitGood(exits[x])
  /\ \A d \in Desks : desk[d] # Idle => WritesGood(desk[d]) /\ d \in staffed
  /\ Alone => /\ RegisterFits
              /\ \A d \in Desks : desk[d] # Idle => RegisterGood(desk[d])

\* What no step undoes.
Onward ==
  /\ \A i \in DOMAIN loans : /\ i \in DOMAIN loans' /\ loans'[i].who = loans[i].who
                             /\ loans'[i].out => loans[i].out
  /\ \A x \in DOMAIN exits : /\ x \in DOMAIN exits' /\ exits'[x].who = exits[x].who
                             /\ exits'[x].found = exits[x].found
                             /\ DOMAIN exits'[x].tasks \subseteq DOMAIN exits[x].tasks \cup {Access}
  /\ \A e \in Staff : /\ login[e] # "none" => login'[e] # "none"
                      /\ login[e] = "off" => login'[e] = "off"

LEMMA ExitStays ==
  ASSUME Onward, NEW e \in ExitRec, ExitGood(e)
  PROVE  ExitGood(e)'
<1>1. e.who \in Staff
  BY DEF ExitRec
<1> QED BY <1>1 DEF ExitGood, Onward

LEMMA WritesStay ==
  ASSUME Onward, NEW w, WritesGood(w), exits \in Seq(ExitRec)
  PROVE  WritesGood(w)'
<1>1. \A x \in DOMAIN w.open : ExitGood(w.open[x])'
  <2>1. \A x \in DOMAIN w.open : w.open[x] \in ExitRec /\ ExitGood(w.open[x])
    BY RowsShape DEF WritesGood
  <2> QED BY <2>1, ExitStays
<1>2. ASSUME EditGood(w) PROVE EditGood(w)'
  <2>1. PICK x : x = w.exit
    OBVIOUS
  <2>2. PICK e : e = exits[x]
    OBVIOUS
  <2>3. PICK f : f = exits'[x]
    OBVIOUS
  <2>4. /\ x \in DOMAIN exits' /\ f.who = e.who /\ f.found = e.found
        /\ DOMAIN f.tasks \subseteq DOMAIN e.tasks \cup {Access}
    BY <1>2, <2>1, <2>2, <2>3 DEF Onward, EditGood
  <2>5. /\ w.to \in ExitStates \cup {NoWrites.to} /\ w.add \subseteq {Access}
        /\ \A k \in DOMAIN w.tick :
              /\ w.tick[k] \in BOOLEAN
              /\ w.tick[k] => \/ k = Access /\ (f.found => f.who \in w.revoke)
                              \/ k # Access /\ (k \in w.back \/ ~loans'[k].out)
              /\ k # Access => k \in DOMAIN loans'
    <3>1. \A k \in DOMAIN w.tick :
            /\ w.tick[k] \in BOOLEAN
            /\ w.tick[k] => \/ k = Access /\ (e.found => e.who \in w.revoke)
                            \/ k # Access /\ (k \in w.back \/ ~loans[k].out)
            /\ k # Access => k \in DOMAIN loans
      BY <1>2, <2>1, <2>2 DEF EditGood
    <3>2. w.to \in ExitStates \cup {NoWrites.to} /\ w.add \subseteq {Access}
      BY <1>2 DEF EditGood
    <3> QED BY <2>4, <3>1, <3>2 DEF Onward
  <2>6. \A k \in DOMAIN f.tasks \ {Access} :
          k \in DOMAIN loans' /\ (w.to = "completed" => ~loans'[k].out)
    BY <1>2, <2>1, <2>2, <2>4 DEF EditGood, Onward
  <2> QED BY <2>1, <2>3, <2>4, <2>5, <2>6 DEF EditGood
<1> QED BY <1>1, <1>2 DEF WritesGood

(* A request that has looked and is about to write changes no row yet.     *)
LEMMA AskKeeps ==
  ASSUME ExitsInv, NEW d \in Desks, NEW w, AtDesk(d), Ask(d, w), WritesGood(w),
         Alone => RegisterGood(w)
  PROVE  ExitsInv'
<1>1. /\ desk' = [desk EXCEPT ![d] = w] /\ d \in staffed
      /\ UNCHANGED <<staffed, shelf, loans, exits, login, left>>
  BY DEF Ask, AtDesk
<1>2. Onward
  BY <1>1 DEF Onward
<1>3. \A v : RegisterGood(v) => RegisterGood(v)'
  BY <1>1 DEF RegisterGood, Out, OnShelf
<1>4. \A v : WritesGood(v) => WritesGood(v)'
  BY <1>2, WritesStay DEF ExitsInv
<1>5. \A x \in DOMAIN exits' : ExitGood(exits[x])'
  BY <1>1 DEF ExitsInv, ExitGood
<1>6. /\ desk' = [e \in Desks |-> desk'[e]] /\ desk'[d] = w
      /\ \A e \in Desks \ {d} : desk'[e] = desk[e]
  BY <1>1 DEF ExitsInv
<1>7. Alone' => /\ RegisterFits'
                /\ \A e \in Desks : desk'[e] # Idle => RegisterGood(desk[e])'
  <2>1. Alone' = Alone /\ (RegisterFits => RegisterFits')
    BY <1>1 DEF Alone, RegisterFits, Out
  <2> QED BY <1>3, <1>6, <2>1 DEF ExitsInv
<1>8. \A e \in Desks : desk'[e] # Idle => WritesGood(desk[e])' /\ e \in staffed'
  BY <1>1, <1>4, <1>6 DEF ExitsInv
<1> QED BY <1>1, <1>5, <1>6, <1>7, <1>8 DEF ExitsInv

LEMMA NoWritesShape ==
  NoWrites = [lend |-> <<>>, back |-> {}, make |-> {}, put |-> <<>>, open |-> <<>>,
              exit |-> 0, to |-> NoWrites.to, tick |-> <<>>, add |-> {}, drop |-> {},
              revoke |-> {}, leave |-> {}]
  BY DEF NoWrites

(* The handlers of the register write to no exit.                          *)
LEMMA RegisterWrites ==
  ASSUME NEW w, w.exit = 0, w.open = <<>>, w.lend \in Seq(LoanRec)
  PROVE  WritesGood(w)
<1>1. <<>> \in Seq(ExitRec) /\ DOMAIN <<>> = {}
  OBVIOUS
<1> QED BY <1>1 DEF WritesGood

LEMMA RegisterStep ==
  ASSUME ExitsInv, NEW d \in Desks, RegisterNext(d)
  PROVE  ExitsInv'
<1>1. PICK a \in Assets :
        \/ CreateAsset(d, a)
        \/ \E e \in Staff : Loaned < MaxLoans /\ Assign(d, a, e)
        \/ \E c \in Returns : TakeBack(d, a, c)
        \/ \E s \in Statuses : SetStatus(d, a, s)
        \/ DeleteAsset(d, a)
  BY DEF RegisterNext
<1>2. <<>> \in Seq(LoanRec) /\ DOMAIN <<>> = {}
  OBVIOUS
<1>3. Alone => /\ \A i, j \in Out(a) : i = j
               /\ Out(a) = {} <=> shelf[a] # "assigned"
  BY DEF ExitsInv, RegisterFits
<1>4. CASE CreateAsset(d, a)
  <2> DEFINE w == [NoWrites EXCEPT !.make = {a}, !.put = [b \in {a} |-> "available"]]
  <2>1. /\ w.lend = <<>> /\ w.back = {} /\ w.exit = 0 /\ w.open = <<>>
        /\ w.put = [b \in {a} |-> "available"]
    BY NoWritesShape
  <2>2. AtDesk(d) /\ Ask(d, w) /\ ~OnShelf(a)
    BY <1>4 DEF CreateAsset
  <2> HIDE DEF w
  <2>3. Alone => RegisterGood(w)
    BY <1>3, <2>1, <2>2 DEF RegisterGood, OnShelf
  <2> QED BY <1>2, <2>1, <2>2, <2>3, RegisterWrites, AskKeeps
<1>5. ASSUME NEW e \in Staff, Assign(d, a, e) PROVE ExitsInv'
  <2> DEFINE r == [asset |-> a, who |-> e, out |-> TRUE]
             w == [NoWrites EXCEPT !.lend = <<r>>, !.put = SetTo(a, "assigned")]
  <2> HIDE DEF r
  <2>1. /\ w.lend = <<r>> /\ w.back = {} /\ w.exit = 0 /\ w.open = <<>>
        /\ w.put = SetTo(a, "assigned")
    BY NoWritesShape
  <2>2. AtDesk(d) /\ Ask(d, w) /\ OnShelf(a) /\ Out(a) = {}
    BY <1>5 DEF Assign, r
  <2>3. r \in LoanRec /\ r.out /\ r.asset = a
    BY DEF LoanRec, r
  <2> HIDE DEF w
  <2>4. Alone => RegisterGood(w)
    <3> SUFFICES ASSUME Alone PROVE RegisterGood(w)
      OBVIOUS
    <3>1. w.put = [b \in {a} |-> "assigned"]
      BY <1>3, <2>1, <2>2 DEF SetTo
    <3>2. DOMAIN w.put = {a} /\ w.put[a] = "assigned"
      BY <3>1
    <3> QED BY <2>1, <2>2, <2>3, <3>2 DEF RegisterGood
  <2>5. w.lend \in Seq(LoanRec)
    BY <2>1, <2>3, OneRow
  <2> QED BY <2>1, <2>2, <2>4, <2>5, RegisterWrites, AskKeeps
<1>6. ASSUME NEW c \in Returns, TakeBack(d, a, c) PROVE ExitsInv'
  <2>1. PICK i \in Out(a) :
          Ask(d, [NoWrites EXCEPT !.back = {i}, !.put = SetTo(a, After(c))])
    BY <1>6 DEF TakeBack
  <2> DEFINE w == [NoWrites EXCEPT !.back = {i}, !.put = SetTo(a, After(c))]
  <2>2. /\ w.lend = <<>> /\ w.back = {i} /\ w.exit = 0 /\ w.open = <<>>
        /\ w.put = SetTo(a, After(c))
    BY NoWritesShape
  <2>3. AtDesk(d) /\ Ask(d, w)
    BY <1>6, <2>1 DEF TakeBack
  <2> HIDE DEF w
  <2>4. Alone => RegisterGood(w)
    <3> SUFFICES ASSUME Alone PROVE RegisterGood(w)
      OBVIOUS
    <3>1. After(c) # "assigned"
      BY ExitsAssumption DEF Returns, After
    <3>2. w.put = [b \in {a} |-> After(c)]
      BY <1>3, <2>2, <3>1 DEF SetTo
    <3>3. DOMAIN w.put = {a} /\ w.put[a] # "assigned"
      BY <3>1, <3>2
    <3>4. i \in DOMAIN loans /\ loans[i].asset = a /\ loans[i].out
      BY DEF Out
    <3> QED BY <2>2, <3>3, <3>4 DEF RegisterGood
  <2> QED BY <1>2, <2>2, <2>3, <2>4, RegisterWrites, AskKeeps
<1>7. ASSUME NEW v, NEW w, w = [NoWrites EXCEPT !.put = v], AtDesk(d), Ask(d, w), Out(a) = {},
             \A b \in DOMAIN v : b = a /\ v[b] # "assigned"
      PROVE  ExitsInv'
  <2>1. w.lend = <<>> /\ w.back = {} /\ w.exit = 0 /\ w.open = <<>> /\ w.put = v
    BY <1>7, NoWritesShape
  <2>2. RegisterGood(w)
    BY <1>7, <2>1 DEF RegisterGood
  <2> QED BY <1>2, <1>7, <2>1, <2>2, RegisterWrites, AskKeeps
<1>8. ASSUME NEW s \in Statuses, SetStatus(d, a, s) PROVE ExitsInv'
  <2>1. \A b \in DOMAIN SetTo(a, s) : b = a /\ SetTo(a, s)[b] # "assigned"
    BY ExitsAssumption DEF SetTo
  <2> QED BY <1>7, <1>8, <2>1 DEF SetStatus
<1>9. CASE DeleteAsset(d, a)
  <2> DEFINE v == [b \in {a} |-> "deleted"]
  <2>1. \A b \in DOMAIN v : b = a /\ v[b] # "assigned"
    OBVIOUS
  <2>2. AtDesk(d) /\ Ask(d, [NoWrites EXCEPT !.put = v]) /\ Out(a) = {}
    BY <1>9 DEF DeleteAsset
  <2> QED BY <1>7, <2>1, <2>2
<1> QED BY <1>1, <1>4, <1>5, <1>6, <1>8, <1>9

(* The handlers of an exit insert no row and, but for a tick, move no asset. *)
LEMMA EditWrites ==
  ASSUME NEW w, w.open = <<>>, w.lend = <<>>, EditGood(w)
  PROVE  WritesGood(w)
<1>1. <<>> \in Seq(ExitRec) /\ <<>> \in Seq(LoanRec) /\ DOMAIN <<>> = {}
  OBVIOUS
<1> QED BY <1>1 DEF WritesGood

LEMMA EditKeeps ==
  ASSUME ExitsInv, NEW d \in Desks, NEW w, AtDesk(d), Ask(d, w), EditGood(w),
         w.open = <<>>, w.lend = <<>>, w.back = {}, w.put = <<>>
  PROVE  ExitsInv'
<1>1. RegisterGood(w)
  BY DEF RegisterGood
<1> QED BY <1>1, EditWrites, AskKeeps

LEMMA TickKeeps ==
  ASSUME ExitsInv, NEW d \in Desks, NEW x \in DOMAIN exits, NEW k \in DOMAIN exits[x].tasks,
         NEW c \in Returns, Tick(d, x, k, c)
  PROVE  ExitsInv'
<1> DEFINE e == exits[x]
           task == e.tasks[k]
           found == Recalled(x, k)
           to == IF e.status = "approved" THEN "in_progress" ELSE NoWrites.to
           w == [NoWrites EXCEPT
                   !.exit = x, !.to = to,
                   !.tick = IF task THEN <<>> ELSE [j \in {k} |-> TRUE],
                   !.back = IF task THEN {} ELSE found,
                   !.put = IF task \/ found = {} THEN <<>>
                           ELSE SetTo(loans[k].asset, After(c)),
                   !.revoke = IF k = Access /\ ~task THEN {e.who} ELSE {}]
<1>1. AtDesk(d) /\ Ask(d, w) /\ (task \/ Cardinality(found) <= 1)
  BY DEF Tick, NoWrites
<1>2. /\ w.lend = <<>> /\ w.open = <<>> /\ w.exit = x /\ w.to = to /\ w.add = {}
      /\ w.tick = IF task THEN <<>> ELSE [j \in {k} |-> TRUE]
      /\ w.back = IF task THEN {} ELSE found
      /\ w.put = IF task \/ found = {} THEN <<>> ELSE SetTo(loans[k].asset, After(c))
      /\ w.revoke = IF k = Access /\ ~task THEN {e.who} ELSE {}
  BY NoWritesShape
<1>3. e \in ExitRec /\ ExitGood(e) /\ task \in BOOLEAN
  <2>1. e \in ExitRec /\ ExitGood(e)
    BY RowsShape DEF ExitsInv
  <2>2. PICK S \in SUBSET Nat : e.tasks \in [S -> BOOLEAN]
    BY <2>1 DEF ExitRec
  <2> QED BY <2>1, <2>2
<1>4. to \in ExitStates \cup {NoWrites.to}
  BY DEF ExitStates, InProgress
<1>5. to # "completed"
  BY DEF NoWrites
<1>6. k # Access => k \in DOMAIN loans /\ loans[k].who = e.who /\ loans[k] \in LoanRec /\ k > 0
  BY <1>3, RowsShape DEF ExitGood, ExitsInv, Access
<1> HIDE DEF w, to
<1>7. EditGood(w)
  <2>1. \A j \in DOMAIN w.tick :
          /\ w.tick[j] \in BOOLEAN
          /\ w.tick[j] => \/ j = Access /\ (e.found => e.who \in w.revoke)
                          \/ j # Access /\ (j \in w.back \/ ~loans[j].out)
          /\ j # Access => j \in DOMAIN loans
    <3>1. CASE task
      BY <1>2, <3>1
    <3>2. CASE ~task
      <4>1. w.tick = [j \in {k} |-> TRUE] /\ w.back = found
        BY <1>2, <3>2
      <4>2. k = Access => w.revoke = {e.who}
        BY <1>2, <3>2
      <4>3. k # Access => k \in found \/ ~loans[k].out
        BY <1>6 DEF Recalled
      <4> QED BY <1>6, <4>1, <4>2, <4>3
    <3> QED BY <1>3, <3>1, <3>2
  <2>2. \A j \in DOMAIN e.tasks \ {Access} : j \in DOMAIN loans
    BY <1>3 DEF ExitGood
  <2>3. w.to # "completed" /\ w.to \in ExitStates \cup {NoWrites.to} /\ w.add \subseteq {Access}
    BY <1>2, <1>4, <1>5
  <2> QED BY <1>2, <2>1, <2>2, <2>3 DEF EditGood
<1>8. Alone => RegisterGood(w)
  <2> SUFFICES ASSUME Alone PROVE RegisterGood(w)
    OBVIOUS
  <2>1. CASE task \/ found = {}
    <3>1. w.back = {} /\ w.put = <<>>
      BY <1>2, <2>1
    <3> QED BY <1>2, <3>1 DEF RegisterGood
  <2>2. CASE ~task /\ found # {}
    <3> DEFINE a == loans[k].asset
    <3>1. k # Access
      BY <2>2 DEF Recalled, Access
    <3>2. a \in Assets /\ found \subseteq Out(a)
      BY <1>6, <3>1 DEF LoanRec, Recalled, Out
    <3>3. /\ \A i, j \in Out(a) : i = j
          /\ Out(a) = {} <=> shelf[a] # "assigned"
      BY <3>2 DEF ExitsInv, RegisterFits
    <3>4. PICK i : found = {i}
      BY <2>2, <3>2, <3>3
    <3>5. After(c) # "assigned"
      BY ExitsAssumption DEF Returns, After
    <3>6. w.put = [b \in {a} |-> After(c)] /\ w.back = {i}
      BY <1>2, <2>2, <3>2, <3>3, <3>4, <3>5 DEF SetTo
    <3>7. DOMAIN w.put = {a} /\ w.put[a] # "assigned"
      BY <3>5, <3>6
    <3>8. i \in DOMAIN loans /\ loans[i].asset = a /\ loans[i].out
      BY <3>2, <3>4 DEF Out
    <3> QED BY <1>2, <3>6, <3>7, <3>8 DEF RegisterGood
  <2> QED BY <2>1, <2>2
<1> QED BY <1>1, <1>2, <1>7, <1>8, EditWrites, AskKeeps

LEMMA CreateExitKeeps ==
  ASSUME ExitsInv, NEW d \in Desks, NEW e \in Staff, CreateExit(d, e)
  PROVE  ExitsInv'
<1> DEFINE t == Checklist(e)
           r == [who |-> e, status |-> "requested", tasks |-> t, found |-> login[e] = "on"]
           w == [NoWrites EXCEPT !.open = <<r>>]
<1>1. AtDesk(d) /\ Ask(d, w)
  BY DEF CreateExit
<1>2. \A i \in HeldBy(e) : i \in DOMAIN loans /\ loans[i].who = e /\ i \in Nat /\ i # Access
  BY RowsShape DEF HeldBy, ExitsInv, Access
<1>3. /\ t = [k \in HeldBy(e) \cup {Access} |-> FALSE]
      /\ HeldBy(e) \cup {Access} \in SUBSET Nat
  BY <1>2 DEF Checklist, Access
<1> HIDE DEF t
<1>4. t \in UNION {[S -> BOOLEAN] : S \in SUBSET Nat}
  BY <1>3
<1>5. r \in ExitRec
  BY <1>4 DEF ExitRec, ExitStates, InProgress
<1>6. ExitGood(r)
  BY <1>2, <1>3 DEF ExitGood
<1> HIDE DEF r
<1>7. w.exit = 0 /\ w.lend = <<>> /\ w.back = {} /\ w.put = <<>> /\ w.open = <<r>>
  BY NoWritesShape
<1> HIDE DEF w
<1>8. WritesGood(w)
  <2>1. <<>> \in Seq(LoanRec)
    OBVIOUS
  <2>2. <<r>> \in Seq(ExitRec) /\ DOMAIN <<r>> = {1} /\ <<r>>[1] = r
    BY <1>5, OneRow
  <2> QED BY <1>6, <1>7, <2>1, <2>2 DEF WritesGood
<1>9. RegisterGood(w)
  BY <1>7 DEF RegisterGood
<1> QED BY <1>1, <1>8, <1>9, AskKeeps

LEMMA ExitStep ==
  ASSUME ExitsInv, NEW d \in Desks, ExitNext(d)
  PROVE  ExitsInv'
<1>1. PICK x \in DOMAIN exits :
        \/ \E v \in {"approved", "rejected"} : DecideExit(d, x, v)
        \/ CancelExit(d, x)
        \/ AddTask(d, x)
        \/ Complete(d, x)
        \/ \E k \in DOMAIN exits[x].tasks :
              \/ \E c \in Returns : Tick(d, x, k, c)
              \/ Untick(d, x, k)
              \/ RemoveTask(d, x, k)
  BY DEF ExitNext
<1> DEFINE e == exits[x]
<1>2. e \in ExitRec /\ ExitGood(e)
  BY RowsShape DEF ExitsInv
<1>3. \A j \in DOMAIN e.tasks \ {Access} : j \in DOMAIN loans
  BY <1>2 DEF ExitGood
<1>4. ASSUME NEW v \in {"approved", "rejected", "cancelled"}, AtDesk(d),
             Ask(d, [NoWrites EXCEPT !.exit = x, !.to = v])
      PROVE  ExitsInv'
  <2> DEFINE w == [NoWrites EXCEPT !.exit = x, !.to = v]
  <2>1. /\ w.exit = x /\ w.to = v /\ w.tick = <<>> /\ w.add = {}
        /\ w.lend = <<>> /\ w.back = {} /\ w.put = <<>> /\ w.open = <<>>
    BY NoWritesShape
  <2>2. v \in ExitStates /\ v # "completed"
    BY DEF ExitStates, InProgress
  <2> HIDE DEF w
  <2>3. EditGood(w)
    BY <1>3, <2>1, <2>2 DEF EditGood
  <2> QED BY <1>4, <2>1, <2>3, EditKeeps DEF w
<1>5. CASE Complete(d, x)
  <2> DEFINE w == [NoWrites EXCEPT !.exit = x, !.to = "completed", !.leave = {e.who}]
  <2>1. /\ w.exit = x /\ w.to = "completed" /\ w.tick = <<>> /\ w.add = {}
        /\ w.lend = <<>> /\ w.back = {} /\ w.put = <<>> /\ w.open = <<>>
    BY NoWritesShape
  <2>2. AtDesk(d) /\ Ask(d, w) /\ \A k \in DOMAIN e.tasks : e.tasks[k]
    BY <1>5 DEF Complete
  <2>3. \A k \in DOMAIN e.tasks \ {Access} : ~loans[k].out
    BY <1>2, <2>2 DEF ExitGood
  <2> HIDE DEF w
  <2>4. EditGood(w)
    BY <1>3, <2>1, <2>3 DEF EditGood, ExitStates
  <2> QED BY <2>1, <2>2, <2>4, EditKeeps
<1>6. ASSUME NEW w, AtDesk(d), Ask(d, w), w.exit = x, w.to = NoWrites.to, w.add \subseteq {Access},
             w.lend = <<>>, w.back = {}, w.put = <<>>, w.open = <<>>,
             \A k \in DOMAIN w.tick : k \in DOMAIN e.tasks /\ w.tick[k] = FALSE
      PROVE  ExitsInv'
  <2>1. NoWrites.to # "completed"
    BY DEF NoWrites
  <2>2. EditGood(w)
    BY <1>3, <1>6, <2>1 DEF EditGood
  <2> QED BY <1>6, <2>2, EditKeeps
<1>7. CASE AddTask(d, x)
  <2> DEFINE w == [NoWrites EXCEPT !.exit = x, !.add = {Access}]
  <2>1. /\ w.exit = x /\ w.to = NoWrites.to /\ w.tick = <<>> /\ w.add = {Access}
        /\ w.lend = <<>> /\ w.back = {} /\ w.put = <<>> /\ w.open = <<>>
    BY NoWritesShape
  <2>2. AtDesk(d) /\ Ask(d, w)
    BY <1>7 DEF AddTask
  <2> HIDE DEF w
  <2>3. DOMAIN w.tick = {}
    BY <2>1
  <2> QED BY <1>6, <2>1, <2>2, <2>3
<1>8. ASSUME NEW k \in DOMAIN exits[x].tasks, Untick(d, x, k) PROVE ExitsInv'
  <2> DEFINE w == [NoWrites EXCEPT !.exit = x, !.tick = [j \in {k} |-> FALSE]]
  <2>1. /\ w.exit = x /\ w.to = NoWrites.to /\ w.tick = [j \in {k} |-> FALSE] /\ w.add = {}
        /\ w.lend = <<>> /\ w.back = {} /\ w.put = <<>> /\ w.open = <<>>
    BY NoWritesShape
  <2>2. AtDesk(d) /\ Ask(d, w)
    BY <1>8 DEF Untick
  <2> HIDE DEF w
  <2> QED BY <1>6, <2>1, <2>2
<1>9. ASSUME NEW k \in DOMAIN exits[x].tasks, RemoveTask(d, x, k) PROVE ExitsInv'
  <2> DEFINE w == [NoWrites EXCEPT !.exit = x, !.drop = {k}]
  <2>1. /\ w.exit = x /\ w.to = NoWrites.to /\ w.tick = <<>> /\ w.add = {}
        /\ w.lend = <<>> /\ w.back = {} /\ w.put = <<>> /\ w.open = <<>>
    BY NoWritesShape
  <2>2. AtDesk(d) /\ Ask(d, w)
    BY <1>9 DEF RemoveTask
  <2> HIDE DEF w
  <2>3. DOMAIN w.tick = {}
    BY <2>1
  <2> QED BY <1>6, <2>1, <2>2, <2>3
<1> QED BY <1>1, <1>4, <1>5, <1>7, <1>8, <1>9, TickKeeps DEF DecideExit, CancelExit

(* What a commit stores in the assignments.                                *)
LEMMA LoansStored ==
  ASSUME loans \in Seq(LoanRec), NEW w, w.lend \in Seq(LoanRec),
         loans' = [i \in DOMAIN loans |-> [loans[i] EXCEPT !.out = @ /\ i \notin w.back]] \o w.lend
  PROVE  /\ loans' \in Seq(LoanRec)
         /\ \A i \in DOMAIN loans :
               /\ i \in DOMAIN loans' /\ loans'[i].asset = loans[i].asset
               /\ loans'[i].who = loans[i].who
               /\ loans'[i].out <=> (loans[i].out /\ i \notin w.back)
         /\ \A i \in DOMAIN loans' \ DOMAIN loans :
               i - Len(loans) \in DOMAIN w.lend /\ loans'[i] = w.lend[i - Len(loans)]
         /\ \A i \in DOMAIN w.lend :
               Len(loans) + i \in DOMAIN loans' /\ loans'[Len(loans) + i] = w.lend[i]
<1> DEFINE g == [i \in DOMAIN loans |-> [loans[i] EXCEPT !.out = @ /\ i \notin w.back]]
<1>1. \A i \in DOMAIN loans : loans[i] \in LoanRec
  BY RowsShape
<1>2. \A i \in DOMAIN loans : /\ g[i] \in LoanRec /\ g[i].asset = loans[i].asset
                              /\ g[i].who = loans[i].who
                              /\ g[i].out <=> (loans[i].out /\ i \notin w.back)
  <2> TAKE i \in DOMAIN loans
  <2>1. \A b \in BOOLEAN : LET r == [loans[i] EXCEPT !.out = b]
                           IN  /\ r \in LoanRec /\ r.asset = loans[i].asset
                               /\ r.who = loans[i].who /\ r.out = b
    BY <1>1 DEF LoanRec
  <2>2. (loans[i].out /\ i \notin w.back) \in BOOLEAN
    OBVIOUS
  <2>3. g[i] = [loans[i] EXCEPT !.out = loans[i].out /\ i \notin w.back]
    OBVIOUS
  <2> HIDE DEF g
  <2> QED BY <2>1, <2>2, <2>3
<1>3. g = [i \in DOMAIN loans |-> g[i]] /\ loans' = g \o w.lend
  OBVIOUS
<1> HIDE DEF g
<1>4. g \in Seq(LoanRec) /\ Len(g) = Len(loans) /\ DOMAIN g = DOMAIN loans
  BY <1>2, <1>3, RowsMapped
<1>5. /\ loans' \in Seq(LoanRec) /\ DOMAIN g \subseteq DOMAIN loans'
      /\ \A i \in DOMAIN g : loans'[i] = g[i]
      /\ \A i \in DOMAIN w.lend : Len(g) + i \in DOMAIN loans' /\ loans'[Len(g) + i] = w.lend[i]
      /\ \A i \in DOMAIN loans' \ DOMAIN g :
            i - Len(g) \in DOMAIN w.lend /\ loans'[i] = w.lend[i - Len(g)]
  <2>1. PICK p : p = g \o w.lend
    OBVIOUS
  <2>2. /\ p \in Seq(LoanRec) /\ DOMAIN g \subseteq DOMAIN p
        /\ \A i \in DOMAIN g : p[i] = g[i]
        /\ \A i \in DOMAIN w.lend : Len(g) + i \in DOMAIN p /\ p[Len(g) + i] = w.lend[i]
        /\ \A i \in DOMAIN p \ DOMAIN g :
              i - Len(g) \in DOMAIN w.lend /\ p[i] = w.lend[i - Len(g)]
    BY <1>4, <2>1, RowsJoined
  <2> QED BY <1>3, <2>1, <2>2
<1> QED BY <1>2, <1>4, <1>5

LEMMA EditedRow ==
  ASSUME NEW w, NEW e \in ExitRec, w.to \in ExitStates \cup {NoWrites.to}, w.add \subseteq {Access},
         \A k \in DOMAIN w.tick : w.tick[k] \in BOOLEAN
  PROVE  LET n == Edited(e, w)
         IN  /\ n \in ExitRec /\ n.who = e.who /\ n.found = e.found
             /\ n.status = e.status \/ n.status = w.to
             /\ DOMAIN n.tasks \subseteq DOMAIN e.tasks \cup {Access}
             /\ \A k \in DOMAIN n.tasks :
                  n.tasks[k] => \/ k \in DOMAIN w.tick /\ w.tick[k]
                                \/ k \in DOMAIN e.tasks /\ e.tasks[k]
<1> DEFINE kept == DOMAIN e.tasks \ w.drop
           t == [k \in kept \cup w.add |->
                   IF k \in DOMAIN w.tick THEN w.tick[k] ELSE k \in kept /\ e.tasks[k]]
<1>1. PICK S \in SUBSET Nat : e.tasks \in [S -> BOOLEAN]
  BY DEF ExitRec
<1>2. \A k \in kept \cup w.add : t[k] \in BOOLEAN
  <2> TAKE k \in kept \cup w.add
  <2>1. CASE k \in DOMAIN w.tick
    BY <2>1
  <2>2. CASE k \notin DOMAIN w.tick
    <3>1. t[k] = (k \in kept /\ e.tasks[k])
      BY <2>2
    <3>2. (k \in kept /\ e.tasks[k]) \in BOOLEAN
      OBVIOUS
    <3> QED BY <3>1, <3>2
  <2> QED BY <2>1, <2>2
<1>3. t = [k \in kept \cup w.add |-> t[k]] /\ kept \cup w.add \in SUBSET Nat
  <2>1. kept \subseteq Nat /\ w.add \subseteq Nat
    <3>1. DOMAIN e.tasks = S
      BY <1>1
    <3>2. DOMAIN e.tasks \subseteq Nat
      BY <3>1
    <3>3. {Access} \subseteq Nat
      BY DEF Access
    <3> QED BY <3>2, <3>3
  <2>2. t = [k \in kept \cup w.add |-> t[k]]
    OBVIOUS
  <2> HIDE DEF t, kept
  <2> QED BY <2>1, <2>2
<1>4. /\ DOMAIN t \subseteq DOMAIN e.tasks \cup {Access}
      /\ \A k \in DOMAIN t : t[k] => \/ k \in DOMAIN w.tick /\ w.tick[k]
                                     \/ k \in DOMAIN e.tasks /\ e.tasks[k]
  OBVIOUS
<1>5. PICK s : s = IF w.to = NoWrites.to THEN e.status ELSE w.to
  OBVIOUS
<1>6. s \in ExitStates /\ (s = e.status \/ s = w.to)
  BY <1>5 DEF ExitRec
<1>7. Edited(e, w) = [e EXCEPT !.status = s, !.tasks = t]
  BY <1>5 DEF Edited, NoWrites
<1> HIDE DEF t
<1>8. t \in UNION {[T -> BOOLEAN] : T \in SUBSET Nat}
  <2>1. t \in [kept \cup w.add -> BOOLEAN]
    BY <1>2, <1>3
  <2> QED BY <1>3, <2>1
<1>9. PICK n : n = [e EXCEPT !.status = s, !.tasks = t]
  OBVIOUS
<1>10. n \in ExitRec /\ n.who = e.who /\ n.found = e.found /\ n.status = s /\ n.tasks = t
  BY <1>6, <1>8, <1>9 DEF ExitRec
<1> QED BY <1>4, <1>6, <1>7, <1>9, <1>10

(* What a commit stores in the exits.                                      *)
LEMMA ExitsStored ==
  ASSUME exits \in Seq(ExitRec), NEW w, w.open \in Seq(ExitRec),
         w.exit \in DOMAIN exits => Edited(exits[w.exit], w) \in ExitRec,
         exits' = [x \in DOMAIN exits |-> IF x = w.exit THEN Edited(exits[x], w) ELSE exits[x]]
                  \o w.open
  PROVE  /\ exits' \in Seq(ExitRec)
         /\ \A x \in DOMAIN exits :
               /\ x \in DOMAIN exits'
               /\ exits'[x] = IF x = w.exit THEN Edited(exits[x], w) ELSE exits[x]
         /\ \A x \in DOMAIN exits' \ DOMAIN exits :
               x - Len(exits) \in DOMAIN w.open /\ exits'[x] = w.open[x - Len(exits)]
<1> DEFINE f == [x \in DOMAIN exits |-> IF x = w.exit THEN Edited(exits[x], w) ELSE exits[x]]
<1>1. \A x \in DOMAIN exits :
        f[x] \in ExitRec /\ f[x] = IF x = w.exit THEN Edited(exits[x], w) ELSE exits[x]
  BY RowsShape
<1>2. f = [x \in DOMAIN exits |-> f[x]] /\ exits' = f \o w.open
  OBVIOUS
<1> HIDE DEF f
<1>3. f \in Seq(ExitRec) /\ Len(f) = Len(exits) /\ DOMAIN f = DOMAIN exits
  BY <1>1, <1>2, RowsMapped
<1>4. PICK p : p = f \o w.open
  OBVIOUS
<1>5. /\ p \in Seq(ExitRec) /\ DOMAIN f \subseteq DOMAIN p
      /\ \A x \in DOMAIN f : p[x] = f[x]
      /\ \A x \in DOMAIN p \ DOMAIN f :
            x - Len(f) \in DOMAIN w.open /\ p[x] = w.open[x - Len(f)]
  BY <1>3, <1>4, RowsJoined
<1> QED BY <1>1, <1>2, <1>3, <1>4, <1>5

LEMMA ExitCommitKeeps ==
  ASSUME ExitsInv, NEW d \in Desks, ExitCommit(d)
  PROVE  ExitsInv'
<1>1. PICK w : w = desk[d]
  OBVIOUS
<1>2. /\ w # Idle /\ WritesGood(w) /\ d \in staffed
      /\ Alone => RegisterGood(w)
  BY <1>1 DEF ExitCommit, ExitsInv
<1>3. /\ shelf' = [a \in Assets |-> IF shelf[a] = "deleted" \/ a \notin DOMAIN w.put
                                    THEN shelf[a] ELSE w.put[a]]
      /\ loans' = [i \in DOMAIN loans |-> [loans[i] EXCEPT !.out = @ /\ i \notin w.back]] \o w.lend
      /\ exits' = [x \in DOMAIN exits |-> IF x = w.exit THEN Edited(exits[x], w) ELSE exits[x]]
                  \o w.open
      /\ login' = [e \in Staff |-> IF e \in w.revoke /\ login[e] = "on" THEN "off" ELSE login[e]]
      /\ desk' = [desk EXCEPT ![d] = Idle] /\ staffed' = staffed
  BY <1>1 DEF ExitCommit
<1>4. /\ loans \in Seq(LoanRec) /\ exits \in Seq(ExitRec)
      /\ w.lend \in Seq(LoanRec) /\ w.open \in Seq(ExitRec)
      /\ \A x \in DOMAIN exits : exits[x] \in ExitRec
      /\ \A x \in DOMAIN w.open : w.open[x] \in ExitRec
  <2>1. loans \in Seq(LoanRec) /\ exits \in Seq(ExitRec)
    BY DEF ExitsInv
  <2>2. w.lend \in Seq(LoanRec) /\ w.open \in Seq(ExitRec)
    BY <1>2 DEF WritesGood
  <2> QED BY <2>1, <2>2, RowsShape
<1>5. /\ loans' \in Seq(LoanRec)
      /\ \A i \in DOMAIN loans :
            /\ i \in DOMAIN loans' /\ loans'[i].asset = loans[i].asset
            /\ loans'[i].who = loans[i].who
            /\ loans'[i].out <=> (loans[i].out /\ i \notin w.back)
      /\ \A i \in DOMAIN loans' \ DOMAIN loans :
            i - Len(loans) \in DOMAIN w.lend /\ loans'[i] = w.lend[i - Len(loans)]
      /\ \A i \in DOMAIN w.lend :
            Len(loans) + i \in DOMAIN loans' /\ loans'[Len(loans) + i] = w.lend[i]
  BY <1>3, <1>4, LoansStored
<1>6. ASSUME w.exit \in DOMAIN exits
      PROVE  LET e == exits[w.exit]
                 n == Edited(e, w)
             IN  /\ EditGood(w)
                 /\ n \in ExitRec /\ n.who = e.who /\ n.found = e.found
                 /\ n.status = e.status \/ n.status = w.to
                 /\ DOMAIN n.tasks \subseteq DOMAIN e.tasks \cup {Access}
                 /\ \A k \in DOMAIN n.tasks :
                      n.tasks[k] => \/ k \in DOMAIN w.tick /\ w.tick[k]
                                    \/ k \in DOMAIN e.tasks /\ e.tasks[k]
  <2>1. w.exit # 0
    BY <1>4, <1>6, RowsShape
  <2>2. EditGood(w)
    BY <1>2, <2>1 DEF WritesGood
  <2>3. /\ w.to \in ExitStates \cup {NoWrites.to} /\ w.add \subseteq {Access}
        /\ \A k \in DOMAIN w.tick : w.tick[k] \in BOOLEAN
    BY <2>2 DEF EditGood
  <2>4. exits[w.exit] \in ExitRec
    BY <1>4, <1>6
  <2> QED BY <2>2, <2>3, <2>4, EditedRow
<1>7. /\ exits' \in Seq(ExitRec)
      /\ \A x \in DOMAIN exits :
            /\ x \in DOMAIN exits'
            /\ exits'[x] = IF x = w.exit THEN Edited(exits[x], w) ELSE exits[x]
      /\ \A x \in DOMAIN exits' \ DOMAIN exits :
            x - Len(exits) \in DOMAIN w.open /\ exits'[x] = w.open[x - Len(exits)]
  BY <1>3, <1>4, <1>6, ExitsStored
<1>8. /\ login' \in [Staff -> {"none", "on", "off"}]
      /\ \A e \in Staff : /\ login[e] # "none" => login'[e] # "none"
                          /\ login[e] = "off" => login'[e] = "off"
                          /\ login[e] # "none" /\ e \in w.revoke => login'[e] = "off"
  BY <1>3 DEF ExitsInv
<1>9. Onward
  BY <1>5, <1>6, <1>7, <1>8 DEF Onward
<1>10. ASSUME NEW x \in DOMAIN exits' PROVE ExitGood(exits[x])'
  <2>1. CASE x \notin DOMAIN exits
    <3>1. PICK n : n = w.open[x - Len(exits)] /\ x - Len(exits) \in DOMAIN w.open
      BY <1>7, <2>1
    <3>2. ExitGood(n) /\ n \in ExitRec /\ exits'[x] = n
      BY <1>2, <1>4, <1>7, <2>1, <3>1 DEF WritesGood
    <3>3. ExitGood(n)'
      BY <1>9, <3>2, ExitStays
    <3> QED BY <3>2, <3>3
  <2>2. CASE x \in DOMAIN exits /\ x # w.exit
    <3>1. PICK n : n = exits[x]
      OBVIOUS
    <3>2. ExitGood(n) /\ n \in ExitRec /\ exits'[x] = n
      BY <1>4, <1>7, <2>2, <3>1 DEF ExitsInv
    <3>3. ExitGood(n)'
      BY <1>9, <3>2, ExitStays
    <3> QED BY <3>2, <3>3
  <2>3. CASE x \in DOMAIN exits /\ x = w.exit
    <3>1. PICK e : e = exits[x]
      OBVIOUS
    <3>2. PICK n : n = Edited(e, w)
      OBVIOUS
    <3>3. /\ exits'[x] = n /\ ExitGood(e) /\ e \in ExitRec /\ n.who = e.who /\ n.found = e.found
          /\ n.status = e.status \/ n.status = w.to
          /\ DOMAIN n.tasks \subseteq DOMAIN e.tasks \cup {Access}
          /\ \A k \in DOMAIN n.tasks :
               n.tasks[k] => \/ k \in DOMAIN w.tick /\ w.tick[k]
                             \/ k \in DOMAIN e.tasks /\ e.tasks[k]
      BY <1>4, <1>6, <1>7, <2>3, <3>1, <3>2 DEF ExitsInv
    <3>4. /\ \A k \in DOMAIN w.tick :
               w.tick[k] => \/ k = Access /\ (e.found => e.who \in w.revoke)
                            \/ k # Access /\ (k \in w.back \/ ~loans[k].out)
          /\ \A k \in DOMAIN e.tasks \ {Access} :
               k \in DOMAIN loans /\ (w.to = "completed" => ~loans[k].out)
      BY <1>6, <2>3, <3>1 DEF EditGood
    <3>5. ASSUME NEW k \in DOMAIN n.tasks \ {Access}
          PROVE  /\ k \in DOMAIN loans' /\ loans'[k].who = n.who
                 /\ (n.status = "completed" \/ n.tasks[k]) => ~loans'[k].out
      <4>1. k \in DOMAIN e.tasks \ {Access} /\ k \in DOMAIN loans /\ loans[k].who = e.who
        BY <3>3 DEF ExitGood
      <4>2. n.status = "completed" => ~loans[k].out
        BY <3>3, <3>4, <4>1 DEF ExitGood
      <4>3. n.tasks[k] => k \in w.back \/ ~loans[k].out
        BY <3>3, <3>4, <4>1 DEF ExitGood
      <4> QED BY <1>5, <3>3, <4>1, <4>2, <4>3
    <3>6. n.found => login'[n.who] # "none" /\ login[n.who] # "none" /\ n.who \in Staff
      BY <1>8, <3>3 DEF ExitGood, ExitRec
    <3>7. (n.found /\ Access \in DOMAIN n.tasks /\ n.tasks[Access]) => login'[n.who] = "off"
      BY <1>8, <3>3, <3>4, <3>6 DEF ExitGood
    <3>8. ExitGood(n)'
      BY <3>5, <3>6, <3>7 DEF ExitGood
    <3> QED BY <3>3, <3>8
  <2> QED BY <2>1, <2>2, <2>3
<1>11. /\ desk' = [e \in Desks |-> desk'[e]] /\ desk'[d] = Idle
       /\ \A e \in Desks \ {d} : desk'[e] = desk[e]
  BY <1>3 DEF ExitsInv
<1>12. ASSUME NEW e \in Desks, desk'[e] # Idle PROVE WritesGood(desk[e])' /\ e \in staffed'
  <2>1. PICK v : v = desk[e]
    OBVIOUS
  <2>2. WritesGood(v) /\ e \in staffed /\ desk'[e] = v
    BY <1>11, <1>12, <2>1 DEF ExitsInv
  <2>3. WritesGood(v)'
    BY <1>4, <1>9, <2>2, WritesStay
  <2> QED BY <1>3, <2>2, <2>3
<1>13. ASSUME Alone' PROVE \A e \in Desks : desk'[e] = Idle
  <2> SUFFICES ASSUME NEW e \in Desks, desk'[e] # Idle PROVE FALSE
    OBVIOUS
  <2>1. e # d /\ e \in staffed
    BY <1>3, <1>11, <1>12
  <2>2. Alone
    BY <1>3, <1>13 DEF Alone
  <2> QED BY <1>2, <2>1, <2>2, OnlyDesk DEF ExitsInv
<1>14. ASSUME Alone' PROVE RegisterFits'
  <2>1. Alone /\ RegisterGood(w) /\ RegisterFits
    BY <1>2, <1>3, <1>14 DEF Alone, ExitsInv
  <2> SUFFICES ASSUME NEW a \in Assets
               PROVE  /\ \A i, j \in Out(a)' : i = j
                      /\ Out(a)' = {} <=> shelf'[a] # "assigned"
    BY DEF RegisterFits
  <2>2. /\ \A i, j \in Out(a) : i = j
        /\ Out(a) = {} <=> shelf[a] # "assigned"
    BY <2>1 DEF RegisterFits
  <2>3. \A i : i \in Out(a)' <=> \/ i \in Out(a) /\ i \notin w.back
                                 \/ /\ i \in DOMAIN loans' \ DOMAIN loans
                                    /\ loans'[i].asset = a /\ loans'[i].out
    BY <1>5 DEF Out
  <2>4. CASE /\ w.lend = <<>> /\ w.back = {}
             /\ \A b \in Assets \cap DOMAIN w.put : Out(b) = {} /\ w.put[b] # "assigned"
    <3>1. DOMAIN loans' \subseteq DOMAIN loans
      <4>1. DOMAIN w.lend = {}
        BY <2>4
      <4> QED BY <1>5, <4>1
    <3>2. Out(a)' = Out(a)
      BY <2>3, <2>4, <3>1
    <3>3. shelf'[a] # "assigned" <=> shelf[a] # "assigned"
      BY <1>3, <2>2, <2>4
    <3> QED BY <2>2, <3>2, <3>3
  <2>5. ASSUME NEW i \in DOMAIN loans, loans[i].out, w.lend = <<>>, w.back = {i},
               DOMAIN w.put = {loans[i].asset}, w.put[loans[i].asset] # "assigned"
        PROVE  /\ \A k, j \in Out(a)' : k = j
               /\ Out(a)' = {} <=> shelf'[a] # "assigned"
    <3>1. DOMAIN loans' \subseteq DOMAIN loans
      <4>1. DOMAIN w.lend = {}
        BY <2>5
      <4> QED BY <1>5, <4>1
    <3>2. CASE a = loans[i].asset
      <4>1. i \in Out(a)
        BY <2>5, <3>2 DEF Out
      <4>2. Out(a)' = {}
        BY <2>2, <2>3, <2>5, <3>1, <4>1
      <4>3. shelf'[a] # "assigned"
        BY <1>3, <2>2, <2>5, <3>2, <4>1
      <4> QED BY <4>2, <4>3
    <3>3. CASE a # loans[i].asset
      <4>1. i \notin Out(a)
        BY <3>3 DEF Out
      <4>2. Out(a)' = Out(a)
        BY <2>3, <2>5, <3>1, <4>1
      <4>3. shelf'[a] = shelf[a]
        BY <1>3, <2>5, <3>3
      <4> QED BY <2>2, <4>2, <4>3
    <3> QED BY <3>2, <3>3
  <2>6. ASSUME NEW r \in LoanRec, r.out, w.lend = <<r>>, w.back = {}, DOMAIN w.put = {r.asset},
               w.put[r.asset] = "assigned", Out(r.asset) = {}, OnShelf(r.asset)
        PROVE  /\ \A i, j \in Out(a)' : i = j
               /\ Out(a)' = {} <=> shelf'[a] # "assigned"
    <3>1. DOMAIN w.lend = {1} /\ w.lend[1] = r
      BY <2>6, OneRow
    <3> DEFINE n == Len(loans) + 1
    <3>2. /\ n \in DOMAIN loans' /\ loans'[n] = r
          /\ \A i \in DOMAIN loans' \ DOMAIN loans : i = n
      <4>1. Len(loans) \in Nat /\ \A i \in DOMAIN loans' : i \in Int
        BY <1>4, <1>5, RowsShape
      <4>2. \A i \in DOMAIN loans' \ DOMAIN loans : i - Len(loans) = 1
        BY <1>5, <3>1
      <4> QED BY <1>5, <3>1, <4>1, <4>2
    <3>3. n \notin DOMAIN loans
      BY <1>4, RowsShape
    <3> HIDE DEF n
    <3>4. CASE a = r.asset
      <4>1. Out(a)' = {n}
        BY <2>3, <2>6, <3>2, <3>3, <3>4
      <4>2. shelf'[a] = "assigned"
        BY <1>3, <2>6, <3>4 DEF OnShelf
      <4> QED BY <4>1, <4>2
    <3>5. CASE a # r.asset
      <4>1. Out(a)' = Out(a)
        BY <2>3, <2>6, <3>2, <3>5
      <4>2. shelf'[a] = shelf[a]
        BY <1>3, <2>6, <3>5
      <4> QED BY <2>2, <4>1, <4>2
    <3> QED BY <3>4, <3>5
  <2> QED BY <2>1, <2>4, <2>5, <2>6 DEF RegisterGood
<1>15. shelf' = [a \in Assets |-> shelf'[a]] /\ staffed' = staffed
  BY <1>3
<1> QED BY <1>5, <1>7, <1>8, <1>10, <1>11, <1>12, <1>13, <1>14, <1>15 DEF ExitsInv

LEMMA ExitsStep == ExitsInv /\ [ExitsNext]_exitVars => ExitsInv'
<1> SUFFICES ASSUME ExitsInv, [ExitsNext]_exitVars PROVE ExitsInv'
  OBVIOUS
<1>1. ASSUME UNCHANGED <<staffed, shelf, loans, exits>>, login' \in [Staff -> {"none", "on", "off"}],
             \A e \in Staff : /\ login[e] # "none" => login'[e] # "none"
                              /\ login[e] = "off" => login'[e] = "off",
             desk' = [e \in Desks |-> desk'[e]],
             \A e \in Desks : desk'[e] # Idle => desk'[e] = desk[e]
      PROVE  ExitsInv'
  <2>1. Onward
    BY <1>1 DEF Onward
  <2>2. \A v : RegisterGood(v) => RegisterGood(v)'
    BY <1>1 DEF RegisterGood, Out, OnShelf
  <2>3. \A v : WritesGood(v) => WritesGood(v)'
    BY <2>1, WritesStay DEF ExitsInv
  <2>4. Alone' = Alone /\ (RegisterFits => RegisterFits')
    BY <1>1 DEF Alone, RegisterFits, Out
  <2>5. \A x \in DOMAIN exits' : ExitGood(exits[x])'
    <3> SUFFICES ASSUME NEW x \in DOMAIN exits PROVE ExitGood(exits[x])'
      BY <1>1
    <3>1. PICK e : e = exits[x]
      OBVIOUS
    <3>2. e \in ExitRec /\ ExitGood(e)
      BY <3>1, RowsShape DEF ExitsInv
    <3>3. ExitGood(e)'
      BY <2>1, <3>2, ExitStays
    <3> QED BY <1>1, <3>1, <3>3
  <2>6. \A e \in Desks : desk'[e] # Idle => WritesGood(desk[e])' /\ e \in staffed'
    BY <1>1, <2>3 DEF ExitsInv
  <2>7. Alone' => /\ RegisterFits'
                  /\ \A e \in Desks : desk'[e] # Idle => RegisterGood(desk[e])'
    BY <1>1, <2>2, <2>4 DEF ExitsInv
  <2> QED BY <1>1, <2>5, <2>6, <2>7 DEF ExitsInv
<1>2. ASSUME NEW d \in Desks, ExitAbandon(d) PROVE ExitsInv'
  <2>1. /\ desk' = [desk EXCEPT ![d] = Idle]
        /\ UNCHANGED <<staffed, shelf, loans, exits, login, left>>
    BY <1>2 DEF ExitAbandon
  <2>2. /\ desk' = [e \in Desks |-> desk'[e]]
        /\ \A e \in Desks : desk'[e] # Idle => desk'[e] = desk[e]
    BY <2>1 DEF ExitsInv
  <2> QED BY <1>1, <2>1, <2>2 DEF ExitsInv
<1>3. ASSUME NEW e \in Staff, Provision(e) PROVE ExitsInv'
  <2>1. /\ login[e] = "none" /\ login' = [login EXCEPT ![e] = "on"]
        /\ UNCHANGED <<staffed, shelf, loans, exits, left, desk>>
    BY <1>3 DEF Provision
  <2>2. /\ login' \in [Staff -> {"none", "on", "off"}]
        /\ \A f \in Staff : /\ login[f] # "none" => login'[f] # "none"
                            /\ login[f] = "off" => login'[f] = "off"
    BY <2>1 DEF ExitsInv
  <2> QED BY <1>1, <2>1, <2>2 DEF ExitsInv
<1>4. CASE UNCHANGED exitVars
  BY <1>1, <1>4 DEF exitVars, ExitsInv
<1> QED BY <1>2, <1>3, <1>4, RegisterStep, CreateExitKeeps, ExitStep, ExitCommitKeeps DEF ExitsNext

LEMMA ExitsStart == ExitsInit => ExitsInv
<1> SUFFICES ASSUME ExitsInit PROVE ExitsInv
  OBVIOUS
<1>1. loans \in Seq(LoanRec) /\ exits \in Seq(ExitRec) /\ DOMAIN loans = {} /\ DOMAIN exits = {}
  BY DEF ExitsInit
<1>2. RegisterFits
  BY <1>1 DEF ExitsInit, RegisterFits, Out
<1> QED BY <1>1, <1>2 DEF ExitsInit, ExitsInv, StaffedInit

(* However requests overlap, and for any number of employees, assets and    *)
(* exits: a completed exit has every assignment its checklist was built from *)
(* closed, and a ticked access task has the login it found off.             *)
THEOREM ExitsClosed == ExitsSpec => []ExitClosedClean
<1>1. ExitsInv => ExitClosedClean
  <2> SUFFICES ASSUME ExitsInv, NEW x \in DOMAIN exits, NEW k \in DOMAIN exits[x].tasks
               PROVE  /\ (exits[x].status = "completed" /\ k > 0) => ~loans[k].out
                      /\ (exits[x].tasks[k] /\ k > 0) => ~loans[k].out
                      /\ (exits[x].tasks[k] /\ k = Access /\ exits[x].found)
                           => login[exits[x].who] = "off"
    BY DEF ExitClosedClean
  <2>1. k > 0 => k # Access
    BY DEF Access
  <2> QED BY <2>1 DEF ExitsInv, ExitGood
<1> QED BY <1>1, ExitsStart, ExitsStep, PTL DEF ExitsSpec

(* One request at a time: the register says "assigned" of an asset exactly   *)
(* when one assignment of it is open, whether the register or the exit      *)
(* checklist moved it.                                                     *)
THEOREM RegisterAlone == ExitsSpec => []RegisterAgrees
<1>1. ExitsInv => RegisterAgrees
  <2> SUFFICES ASSUME ExitsInv, Alone, NEW a \in Assets
               PROVE  Cardinality(Out(a)) = IF shelf[a] = "assigned" THEN 1 ELSE 0
    BY DEF RegisterAgrees
  <2>1. /\ \A i, j \in Out(a) : i = j
        /\ Out(a) = {} <=> shelf[a] # "assigned"
    BY DEF ExitsInv, RegisterFits
  <2>2. CASE Out(a) = {}
    BY <2>1, <2>2, FS_EmptySet
  <2>3. CASE Out(a) # {}
    <3>1. PICK i : Out(a) = {i}
      BY <2>1, <2>3
    <3>2. Cardinality({i}) = 1
      BY FS_Singleton
    <3> QED BY <2>1, <2>3, <3>1, <3>2
  <2> QED BY <2>2, <2>3
<1> QED BY <1>1, ExitsStart, ExitsStep, PTL DEF ExitsSpec

-------------------------------------------------------------------------------
(* CompanySettings *)

Columns == {"statutory", "template", "original", "mapping", "use"}

\* The payslip document of a company row.
Together(c) ==
  /\ c.mapping # None => c.original # None /\ c.template = c.mapping
  /\ c.template \in Originals => c.mapping = c.template

\* A company row: its columns, and a document that holds together.
RowGood(c) ==
  /\ c = [k \in Columns |-> c[k]]
  /\ Together(c)

(* With one request at a time, what the request has loaded is what is       *)
(* stored, so the row it makes is the row it leaves.                       *)
SettingsInv ==
  /\ staffed \in {{CHOOSE d \in Desks : TRUE}, Desks}
  /\ owner = [d \in Desks |-> owner[d]]
  /\ company = [k \in Columns |-> company[k]]
  /\ \A d \in Desks : owner[d] # Idle => d \in staffed
  /\ Alone => /\ Together(company)
              /\ \A d \in Desks : owner[d] # Idle =>
                    owner[d].was = company /\ RowGood(owner[d].now)

LEMMA LoadKeeps ==
  ASSUME SettingsInv, NEW d \in Desks, NEW kind, NEW now, LoadCompany(d, kind, now),
         Alone => RowGood(now)
  PROVE  SettingsInv'
<1> DEFINE w == [kind |-> kind, was |-> company, now |-> now]
<1>1. /\ owner' = [owner EXCEPT ![d] = w] /\ d \in staffed /\ UNCHANGED <<staffed, company>>
      /\ w.was = company /\ w.now = now
  BY DEF LoadCompany
<1>2. Alone' = Alone /\ Together(company)' = Together(company)
  BY <1>1 DEF Alone, Together
<1> HIDE DEF w
<1>3. \A c : RowGood(c)' = RowGood(c)
  BY DEF RowGood, Together
<1> QED BY <1>1, <1>2, <1>3 DEF SettingsInv

(* Every handler makes a row that holds together of one that does.         *)
LEMMA RowsMade ==
  ASSUME RowGood(company)
  PROVE  /\ \A v : RowGood([company EXCEPT !.statutory = v])
         /\ \A use : RowGood([company EXCEPT !.use = use])
         /\ RowGood([company EXCEPT !.template = "direct", !.original = None, !.mapping = None])
         /\ RowGood([company EXCEPT !.template = None, !.original = None, !.mapping = None,
                                    !.use = FALSE])
         /\ \A o \in Originals : RowGood([company EXCEPT !.original = o])
         /\ company.original # None =>
              RowGood([company EXCEPT !.template = company.original, !.mapping = company.original,
                                      !.use = TRUE])
<1>1. company = [j \in Columns |-> company[j]] /\ Together(company)
  BY DEF RowGood
<1>2. \A v : RowGood([company EXCEPT !.statutory = v])
  BY <1>1 DEF RowGood, Together, Columns
<1>3. \A use : RowGood([company EXCEPT !.use = use])
  BY <1>1 DEF RowGood, Together, Columns
<1>4. RowGood([company EXCEPT !.template = "direct", !.original = None, !.mapping = None])
  BY <1>1, SettingsAssumption DEF RowGood, Together, Columns
<1>5. RowGood([company EXCEPT !.template = None, !.original = None, !.mapping = None,
                              !.use = FALSE])
  BY <1>1, SettingsAssumption DEF RowGood, Together, Columns, None
<1>6. \A o \in Originals : RowGood([company EXCEPT !.original = o])
  BY <1>1, SettingsAssumption DEF RowGood, Together, Columns, None
<1>7. company.original # None =>
        RowGood([company EXCEPT !.template = company.original, !.mapping = company.original,
                                !.use = TRUE])
  BY <1>1 DEF RowGood, Together, Columns
<1> QED BY <1>2, <1>3, <1>4, <1>5, <1>6, <1>7

LEMMA SettingsStep == SettingsInv /\ [SettingsNext]_settingsVars => SettingsInv'
<1> SUFFICES ASSUME SettingsInv, [SettingsNext]_settingsVars PROVE SettingsInv'
  OBVIOUS
<1>1. Alone => RowGood(company)
  BY DEF SettingsInv, RowGood
<1>2. ASSUME NEW d \in Desks, NEW v,
             UpdateStatutory(d, v) \/ UpdateCalendar(d, v) \/ UpdatePayslip(d, v)
      PROVE  SettingsInv'
  <2>1. CASE UpdateStatutory(d, v)
    BY <1>1, <2>1, LoadKeeps, RowsMade DEF UpdateStatutory
  <2>2. CASE UpdateCalendar(d, v)
    BY <1>1, <2>2, LoadKeeps, RowsMade DEF UpdateCalendar
  <2>3. CASE UpdatePayslip(d, v)
    BY <1>1, <2>3, LoadKeeps, RowsMade DEF UpdatePayslip
  <2> QED BY <1>2, <2>1, <2>2, <2>3
<1>3. ASSUME NEW d \in Desks, UploadDocument(d) \/ DeleteDocument(d) PROVE SettingsInv'
  <2>1. CASE UploadDocument(d)
    BY <1>1, <2>1, LoadKeeps, RowsMade DEF UploadDocument
  <2>2. CASE DeleteDocument(d)
    BY <1>1, <2>2, LoadKeeps, RowsMade DEF DeleteDocument
  <2> QED BY <1>3, <2>1, <2>2
<1>4. ASSUME NEW d \in Desks, NEW o \in Originals, ScanDocument(d, o) PROVE SettingsInv'
  BY <1>1, <1>4, LoadKeeps, RowsMade DEF ScanDocument
<1>5. ASSUME NEW d \in Desks, ApplyMapping(d) PROVE SettingsInv'
  BY <1>1, <1>5, LoadKeeps, RowsMade DEF ApplyMapping
<1>6. ASSUME NEW d \in Desks, owner[d] # Idle, owner' = [owner EXCEPT ![d] = Idle],
             staffed' = staffed, company' = [k \in Columns |-> company'[k]],
             Alone => Together(company')
      PROVE  SettingsInv'
  <2>1. /\ owner' = [e \in Desks |-> owner'[e]] /\ owner'[d] = Idle
        /\ \A e \in Desks \ {d} : owner'[e] = owner[e]
    BY <1>6 DEF SettingsInv
  <2>2. Alone' = Alone
    BY <1>6 DEF Alone
  <2>3. Alone => \A e \in Desks : owner'[e] = Idle
    <3> SUFFICES ASSUME Alone, NEW e \in Desks, owner'[e] # Idle PROVE FALSE
      OBVIOUS
    <3>1. e # d /\ e \in staffed /\ d \in staffed
      BY <1>6, <2>1 DEF SettingsInv
    <3> QED BY <3>1, OnlyDesk DEF SettingsInv
  <2>4. Alone => Together(company)'
    BY <1>6 DEF Together
  <2> QED BY <1>6, <2>1, <2>2, <2>3, <2>4 DEF SettingsInv
<1>7. ASSUME NEW d \in Desks, CommitCompany(d) PROVE SettingsInv'
  <2> DEFINE w == owner[d]
  <2>1. /\ w # Idle /\ owner' = [owner EXCEPT ![d] = Idle] /\ staffed' = staffed
        /\ company' = [c \in Columns |-> IF w.now[c] # w.was[c] THEN w.now[c] ELSE company[c]]
    BY <1>7 DEF CommitCompany, SettingsInv
  <2>2. company' = [k \in Columns |-> company'[k]]
    BY <2>1
  <2>3. Alone => Together(company')
    <3> SUFFICES ASSUME Alone PROVE Together(company')
      OBVIOUS
    <3>1. w.was = company /\ RowGood(w.now)
      BY <2>1 DEF SettingsInv
    <3>2. company' = w.now
      BY <2>1, <3>1 DEF RowGood
    <3> QED BY <3>1, <3>2 DEF RowGood
  <2> QED BY <1>6, <2>1, <2>2, <2>3
<1>8. ASSUME NEW d \in Desks, AbandonSettings(d) PROVE SettingsInv'
  <2>1. company' = [k \in Columns |-> company'[k]] /\ (Alone => Together(company'))
    BY <1>8 DEF AbandonSettings, SettingsInv
  <2> QED BY <1>6, <1>8, <2>1 DEF AbandonSettings
<1>9. CASE UNCHANGED settingsVars
  BY <1>9 DEF settingsVars, SettingsInv, Alone, RowGood, Together
<1> QED BY <1>2, <1>3, <1>4, <1>5, <1>7, <1>8, <1>9 DEF SettingsNext

(* One request at a time, over any order of uploading, scanning, mapping,   *)
(* deleting and saving: a mapping stands beside the original it can be      *)
(* reopened on and the template it made, and no other template claims one.  *)
THEOREM DocumentAlone == SettingsSpec => []DocumentHoldsTogether
<1>1. SettingsInit => SettingsInv
  <2>1. Fresh = [k \in Columns |-> Fresh[k]] /\ Together(Fresh)
    BY SettingsAssumption DEF Fresh, Columns, Together, None
  <2> QED BY <2>1 DEF SettingsInit, SettingsInv, StaffedInit
<1>2. SettingsInv => DocumentHoldsTogether
  BY DEF SettingsInv, DocumentHoldsTogether, Together
<1> QED BY <1>1, <1>2, SettingsStep, PTL DEF SettingsSpec

-------------------------------------------------------------------------------
(* SalaryStructures *)

TermRec == [who : Payees, active : BOOLEAN, live : BOOLEAN]

\* A structure in force that a request takes away is one it was made to end or replaces.
Replaced(w, e) == \E j \in DOMAIN w.new : w.new[j].who = e /\ w.new[j].active /\ w.new[j].live

TermsGood(w) ==
  /\ w.new \in Seq(TermRec)
  /\ \A i \in w.off \cup w.drop :
        i \in DOMAIN terms /\ (terms[i].who \in w.ends \/ Replaced(w, terms[i].who))

SalaryInv ==
  /\ terms \in Seq(TermRec)
  /\ payroller = [d \in Desks |-> payroller[d]]
  /\ \A d \in Desks : payroller[d] # Idle => TermsGood(payroller[d])

LEMMA PrepareKeeps ==
  ASSUME SalaryInv, NEW d \in Desks, NEW w, Prepare(d, w), TermsGood(w)
  PROVE  SalaryInv'
<1>1. payroller' = [payroller EXCEPT ![d] = w] /\ UNCHANGED <<staffed, terms>>
  BY DEF Prepare
<1>2. \A v : TermsGood(v)' = TermsGood(v)
  BY <1>1 DEF TermsGood, Replaced
<1> QED BY <1>1, <1>2 DEF SalaryInv

\* What a batch has prepared so far.
Prepared == [off : SUBSET DOMAIN terms, on : {{}}, drop : {{}}, new : Seq(TermRec), ends : {{}}]

LEMMA NothingPrepared == Nothing \in Prepared /\ Nothing.off = {}
  BY DEF Nothing, Prepared

(* One more employee of the batch.                                         *)
LEMMA RenewGood ==
  ASSUME terms \in Seq(TermRec), NEW w \in Prepared, TermsGood(w), NEW e \in Payees
  PROVE  Renew(w, e) \in Prepared /\ TermsGood(Renew(w, e))
<1> DEFINE q == w.new
           f == [i \in DOMAIN q |-> IF q[i].who = e THEN [q[i] EXCEPT !.active = FALSE] ELSE q[i]]
           row == Insert(e, TRUE)
<1>1. /\ row \in TermRec /\ row.who = e /\ row.active /\ row.live
      /\ q \in Seq(TermRec) /\ \A i \in DOMAIN q : q[i] \in TermRec
  <2>1. row \in TermRec /\ row.who = e /\ row.active /\ row.live
    BY DEF Insert, TermRec
  <2>2. q \in Seq(TermRec)
    BY DEF Prepared
  <2> QED BY <2>1, <2>2, RowsShape
<1>2. \A i \in DOMAIN q : f[i] \in TermRec /\ (q[i].who # e => f[i] = q[i])
  <2> TAKE i \in DOMAIN q
  <2> DEFINE r == q[i]
  <2>1. r \in TermRec
    BY <1>1
  <2> HIDE DEF q
  <2>2. [r EXCEPT !.active = FALSE] \in TermRec
    BY <2>1 DEF TermRec
  <2> QED BY <2>1, <2>2
<1>3. f = [i \in DOMAIN q |-> f[i]]
  OBVIOUS
<1>4. Renew(w, e) = [w EXCEPT !.off = @ \cup InForce(terms, e), !.new = Append(f, row)]
  BY DEF Renew
<1> HIDE DEF f, row
<1>5. f \in Seq(TermRec) /\ Len(f) = Len(q) /\ DOMAIN f = DOMAIN q
  BY <1>1, <1>2, <1>3, RowsMapped
<1>6. PICK p : p = Append(f, row)
  OBVIOUS
<1>7. /\ p \in Seq(TermRec) /\ DOMAIN p = DOMAIN f \cup {Len(f) + 1}
      /\ p[Len(f) + 1] = row /\ \A i \in DOMAIN f : p[i] = f[i]
  BY <1>1, <1>5, <1>6, RowsAppended
<1>8. PICK off : off = w.off \cup InForce(terms, e)
  OBVIOUS
<1>9. /\ \A i \in off : i \in w.off \/ (i \in DOMAIN terms /\ terms[i].who = e)
      /\ off \in SUBSET DOMAIN terms
  BY <1>8 DEF InForce, Prepared
<1>10. PICK v : v = [w EXCEPT !.off = off, !.new = p]
  OBVIOUS
<1>11. /\ v = Renew(w, e) /\ v \in Prepared /\ v.off = off /\ v.new = p
       /\ v.drop = {} /\ v.ends = {} /\ w.ends = {}
  BY <1>4, <1>6, <1>7, <1>8, <1>9, <1>10 DEF Prepared
<1>12. Replaced(v, e)
  BY <1>1, <1>7, <1>11 DEF Replaced
<1>13. \A x : x # e /\ Replaced(w, x) => Replaced(v, x)
  <2> SUFFICES ASSUME NEW x, x # e, Replaced(w, x) PROVE Replaced(v, x)
    OBVIOUS
  <2>1. PICK j \in DOMAIN q : q[j].who = x /\ q[j].active /\ q[j].live
    BY DEF Replaced
  <2>2. p[j] = q[j] /\ j \in DOMAIN p
    BY <1>2, <1>5, <1>7, <2>1
  <2> QED BY <1>11, <2>1, <2>2 DEF Replaced
<1>14. TermsGood(v)
  <2> SUFFICES ASSUME NEW i \in off
               PROVE  i \in DOMAIN terms /\ Replaced(v, terms[i].who)
    BY <1>7, <1>11 DEF TermsGood
  <2>1. CASE terms[i].who = e
    BY <1>9, <1>12, <2>1
  <2>2. CASE terms[i].who # e
    BY <1>9, <1>11, <1>13, <2>2 DEF TermsGood
  <2> QED BY <2>1, <2>2
<1> QED BY <1>11, <1>14

(* The batch, employee by employee.                                        *)
LEMMA BatchGood ==
  ASSUME terms \in Seq(TermRec), NEW batch \in Seq(Payees), NEW replace \in BOOLEAN,
         NEW d, ApplyTemplate(d, batch, replace)
  PROVE  \E w : TermsGood(w) /\ Prepare(d, w)
<1> DEFINE n == Len(batch)
           Runs(f) == f = [i \in 0 .. n |-> IF i = 0 THEN Nothing
                                            ELSE Give(f[i - 1], batch[i], replace)]
           W == {w \in Prepared : TermsGood(w)}
           F == [x \in (1 .. n) \X W |-> Give(x[2], batch[x[1]], replace)]
<1>1. n \in Nat /\ \A i \in 1 .. n : batch[i] \in Payees
  BY RowsShape
<1>2. Nothing \in W
  <2>1. Nothing.new \in Seq(TermRec) /\ Nothing.drop = {}
    BY DEF Nothing
  <2> QED BY <2>1, NothingPrepared DEF TermsGood
<1>3. \A i \in 1 .. n : \A w \in W : Give(w, batch[i], replace) \in W
  BY <1>1, RenewGood DEF Give
<1>4. \A i \in 1 .. n, w \in W : /\ F[<<i, w>>] = Give(w, batch[i], replace)
                               /\ F[<<i, w>>] \in W
  BY <1>3
<1> HIDE DEF F, W, n
<1>5. PICK f : Loop(f, n, Nothing, F)
  BY <1>1, <1>2, <1>4, LoopExists
<1>6. \A i \in 0 .. n : f[i] \in W
  BY <1>1, <1>2, <1>4, <1>5, LoopKeeps DEF Loop
<1>7. Runs(f)
  <2>1. \A i \in 0 .. n : f[i] = IF i = 0 THEN Nothing ELSE Give(f[i - 1], batch[i], replace)
    <3> TAKE i \in 0 .. n
    <3>1. i # 0 => i \in 1 .. n /\ i - 1 \in 0 .. n
      BY <1>1
    <3> QED BY <1>4, <1>5, <1>6, <3>1 DEF Loop
  <2>2. f = [i \in 0 .. n |-> f[i]]
    BY <1>5 DEF Loop
  <2> QED BY <2>1, <2>2
<1>8. PICK g : Runs(g) /\ Prepare(d, g[n])
  BY <1>7 DEF ApplyTemplate, n
<1>9. \A i \in 0 .. n : g[i] \in W
  <2>1. g[0] = Nothing /\ \A i \in 1 .. n : g[i] = Give(g[i - 1], batch[i], replace)
    <3>1. \A i \in 0 .. n : g[i] = IF i = 0 THEN Nothing ELSE Give(g[i - 1], batch[i], replace)
      BY <1>8
    <3>2. 0 \in 0 .. n /\ \A i \in 1 .. n : i \in 0 .. n /\ i # 0
      BY <1>1
    <3> QED BY <3>1, <3>2
  <2> HIDE DEF Runs
  <2>2. g[0] \in W /\ \A i \in 1 .. n : g[i - 1] \in W => g[i] \in W
    BY <1>2, <1>3, <2>1
  <2> QED BY <1>1, <2>2, LoopKeeps
<1>10. g[n] \in W
  BY <1>1, <1>9
<1> QED BY <1>8, <1>10 DEF W

LEMMA NothingShape ==
  Nothing = [off |-> {}, on |-> {}, drop |-> {}, new |-> <<>>, ends |-> {}]
  BY DEF Nothing

(* What a commit stores: a row keeps its employee, and is in force unless it *)
(* was taken away; what is new comes behind.                               *)
LEMMA TermsStored ==
  ASSUME terms \in Seq(TermRec), NEW w, w.new \in Seq(TermRec)
  PROVE  LET p == Stored(w)
         IN  /\ p \in Seq(TermRec)
             /\ \A i \in DOMAIN terms :
                   /\ i \in DOMAIN p /\ p[i].who = terms[i].who
                   /\ (i \notin w.off \cup w.drop /\ terms[i].active /\ terms[i].live)
                         => p[i].active /\ p[i].live
             /\ \A j \in DOMAIN w.new : Len(terms) + j \in DOMAIN p /\ p[Len(terms) + j] = w.new[j]
<1> DEFINE g == [i \in DOMAIN terms |->
                   [terms[i] EXCEPT !.active = (@ \/ i \in w.on) /\ i \notin w.off,
                                    !.live = @ /\ i \notin w.drop]]
<1>1. \A i \in DOMAIN terms : terms[i] \in TermRec
  BY RowsShape
<1>2. \A i \in DOMAIN terms :
        /\ g[i] \in TermRec /\ g[i].who = terms[i].who
        /\ (i \notin w.off \cup w.drop /\ terms[i].active /\ terms[i].live)
              => g[i].active /\ g[i].live
  <2> TAKE i \in DOMAIN terms
  <2>1. \A a, b \in BOOLEAN : LET r == [terms[i] EXCEPT !.active = a, !.live = b]
                              IN  /\ r \in TermRec /\ r.who = terms[i].who
                                  /\ r.active = a /\ r.live = b
    BY <1>1 DEF TermRec
  <2>2. PICK a \in BOOLEAN : a = ((terms[i].active \/ i \in w.on) /\ i \notin w.off)
    OBVIOUS
  <2>3. PICK b \in BOOLEAN : b = (terms[i].live /\ i \notin w.drop)
    OBVIOUS
  <2>4. g[i] = [terms[i] EXCEPT !.active = a, !.live = b]
    BY <2>2, <2>3
  <2> HIDE DEF g
  <2> QED BY <2>1, <2>2, <2>3, <2>4
<1>3. g = [i \in DOMAIN terms |-> g[i]] /\ Stored(w) = g \o w.new
  BY DEF Stored
<1> HIDE DEF g
<1>4. g \in Seq(TermRec) /\ Len(g) = Len(terms) /\ DOMAIN g = DOMAIN terms
  BY <1>2, <1>3, RowsMapped
<1>5. PICK p : p = g \o w.new
  OBVIOUS
<1>6. /\ p \in Seq(TermRec) /\ DOMAIN g \subseteq DOMAIN p
      /\ \A i \in DOMAIN g : p[i] = g[i]
      /\ \A j \in DOMAIN w.new : Len(g) + j \in DOMAIN p /\ p[Len(g) + j] = w.new[j]
  BY <1>4, <1>5, RowsJoined
<1> QED BY <1>2, <1>3, <1>4, <1>5, <1>6

(* A request about one structure.                                          *)
LEMMA OneWriteGood ==
  ASSUME SalaryInv, NEW w, w.new = <<>>,
         \A i \in w.off \cup w.drop : i \in DOMAIN terms /\ terms[i].who \in w.ends
  PROVE  TermsGood(w)
<1>1. <<>> \in Seq(TermRec)
  OBVIOUS
<1> QED BY <1>1 DEF TermsGood

LEMMA SalaryStep == SalaryInv /\ [SalaryNext]_salaryVars => SalaryInv'
<1> SUFFICES ASSUME SalaryInv, [SalaryNext]_salaryVars PROVE SalaryInv'
  OBVIOUS
<1>1. ASSUME NEW d \in Desks, NEW e \in Payees, NEW active \in BOOLEAN,
             CreateStructure(d, e, active)
      PROVE  SalaryInv'
  <2>1. PICK q : q = <<Insert(e, active)>>
    OBVIOUS
  <2>2. PICK w : w = [Nothing EXCEPT !.new = q]
    OBVIOUS
  <2>3. w.new = q /\ w.off = {} /\ w.drop = {}
    BY <2>2, NothingShape
  <2>4. q \in Seq(TermRec)
    <3>1. Insert(e, active) \in TermRec
      BY DEF Insert, TermRec
    <3> QED BY <2>1, <3>1, OneRow
  <2>5. Prepare(d, w)
    BY <1>1, <2>1, <2>2 DEF CreateStructure
  <2>6. TermsGood(w)
    BY <2>3, <2>4 DEF TermsGood
  <2> QED BY <2>5, <2>6, PrepareKeeps
<1>2. ASSUME NEW d \in Desks, NEW i \in DOMAIN terms, NEW active \in BOOLEAN,
             UpdateStructure(d, i, active)
      PROVE  SalaryInv'
  <2>1. PICK on : on = IF active /\ ~terms[i].active THEN {i} ELSE {}
    OBVIOUS
  <2>2. PICK off : off = IF ~active /\ terms[i].active THEN {i} ELSE {}
    OBVIOUS
  <2>3. PICK ends : ends = IF active THEN {} ELSE {terms[i].who}
    OBVIOUS
  <2>4. PICK w : w = [Nothing EXCEPT !.on = on, !.off = off, !.ends = ends]
    OBVIOUS
  <2>5. w.new = <<>> /\ w.off = off /\ w.drop = {} /\ w.ends = ends
    BY <2>4, NothingShape
  <2>6. Prepare(d, w)
    BY <1>2, <2>1, <2>2, <2>3, <2>4 DEF UpdateStructure
  <2>7. TermsGood(w)
    BY <2>2, <2>3, <2>5, OneWriteGood
  <2> QED BY <2>6, <2>7, PrepareKeeps
<1>3. ASSUME NEW d \in Desks, NEW i \in DOMAIN terms, DeleteStructure(d, i) PROVE SalaryInv'
  <2>1. PICK off : off = IF terms[i].active THEN {i} ELSE {}
    OBVIOUS
  <2>2. PICK ends : ends = {terms[i].who}
    OBVIOUS
  <2>3. PICK w : w = [Nothing EXCEPT !.drop = {i}, !.off = off, !.ends = ends]
    OBVIOUS
  <2>4. w.new = <<>> /\ w.off = off /\ w.drop = {i} /\ w.ends = ends
    BY <2>3, NothingShape
  <2>5. Prepare(d, w)
    BY <1>3, <2>1, <2>2, <2>3 DEF DeleteStructure
  <2>6. TermsGood(w)
    BY <2>1, <2>2, <2>4, OneWriteGood
  <2> QED BY <2>5, <2>6, PrepareKeeps
<1>4. ASSUME NEW d \in Desks, NEW batch \in Batches, NEW replace \in BOOLEAN,
             ApplyTemplate(d, batch, replace)
      PROVE  SalaryInv'
  BY <1>4, BatchGood, PrepareKeeps, SalaryAssumption DEF SalaryInv
<1>5. ASSUME NEW d \in Desks, PayCommit(d) PROVE SalaryInv'
  <2>1. PICK w : w = payroller[d]
    OBVIOUS
  <2>2. /\ w # Idle /\ TermsGood(w) /\ terms' = Stored(w)
        /\ payroller' = [payroller EXCEPT ![d] = Idle]
    BY <1>5, <2>1 DEF PayCommit, SalaryInv
  <2>3. /\ terms' \in Seq(TermRec)
        /\ \A i \in DOMAIN terms : i \in DOMAIN terms' /\ terms'[i].who = terms[i].who
    BY <2>2, TermsStored DEF TermsGood, SalaryInv
  <2>4. \A v : TermsGood(v) => TermsGood(v)'
    BY <2>3 DEF TermsGood, Replaced
  <2> QED BY <2>2, <2>3, <2>4 DEF SalaryInv
<1>6. ASSUME NEW d \in Desks, PayAbandon(d) PROVE SalaryInv'
  <2>1. payroller' = [payroller EXCEPT ![d] = Idle] /\ UNCHANGED <<staffed, terms>>
    BY <1>6 DEF PayAbandon
  <2>2. \A v : TermsGood(v)' = TermsGood(v)
    BY <2>1 DEF TermsGood, Replaced
  <2> QED BY <2>1, <2>2 DEF SalaryInv
<1>7. CASE UNCHANGED salaryVars
  BY <1>7 DEF salaryVars, SalaryInv, TermsGood, Replaced
<1> QED BY <1>1, <1>2, <1>3, <1>4, <1>5, <1>6, <1>7 DEF SalaryNext

LEMMA PayKeeps ==
  ASSUME SalaryInv, SalaryNext, NEW e \in Payees, InForce(terms, e) # {}, InForce(terms', e) = {}
  PROVE  \E d \in Desks : payroller[d] # Idle /\ e \in payroller[d].ends
<1>1. terms' # terms
  OBVIOUS
<1>2. PICK d \in Desks : PayCommit(d)
  BY <1>1 DEF SalaryNext, CreateStructure, UpdateStructure, DeleteStructure, ApplyTemplate,
              Prepare, PayAbandon
<1>3. PICK w : w = payroller[d]
  OBVIOUS
<1>4. w # Idle /\ TermsGood(w) /\ terms' = Stored(w)
  BY <1>2, <1>3 DEF PayCommit, SalaryInv
<1>5. /\ \A i \in DOMAIN terms :
            /\ i \in DOMAIN terms' /\ terms'[i].who = terms[i].who
            /\ (i \notin w.off \cup w.drop /\ terms[i].active /\ terms[i].live)
                  => terms'[i].active /\ terms'[i].live
      /\ \A j \in DOMAIN w.new : Len(terms) + j \in DOMAIN terms' /\ terms'[Len(terms) + j] = w.new[j]
  BY <1>4, TermsStored DEF TermsGood, SalaryInv
<1>6. PICK i \in DOMAIN terms : terms[i].who = e /\ terms[i].active /\ terms[i].live
  BY DEF InForce
<1>7. i \in w.off \cup w.drop
  BY <1>5, <1>6 DEF InForce
<1>8. ~Replaced(w, e)
  BY <1>5 DEF Replaced, InForce
<1>9. e \in w.ends
  BY <1>4, <1>6, <1>7, <1>8 DEF TermsGood
<1> QED BY <1>3, <1>4, <1>9

(* However batches, edits and deletions overlap, and for batches of any      *)
(* length: pay ends only by a request made to end it.                       *)
THEOREM PayKept == SalarySpec => PayIsNotDropped
<1>1. SalaryInit => SalaryInv
  <2>1. <<>> \in Seq(TermRec)
    OBVIOUS
  <2> QED BY <2>1 DEF SalaryInit, SalaryInv
<1>2. SalaryInv /\ [SalaryNext]_salaryVars =>
        [\A e \in Payees :
           (InForce(terms, e) # {} /\ InForce(terms', e) = {}) =>
              \E d \in Desks : payroller[d] # Idle /\ e \in payroller[d].ends]_salaryVars
  BY PayKeeps
<1> QED BY <1>1, <1>2, SalaryStep, PTL DEF SalarySpec, PayIsNotDropped

-------------------------------------------------------------------------------
(* Joiners *)

People == Candidates \cup Others

RosterRec == [code : Nat, email : People, live : BOOLEAN]

\* The number a conversion is about to give out is above every number given so far.
HiringGood(w) ==
  /\ w.kind = "convert" => \A i \in DOMAIN roster : roster[i].code < w.row.code

WorkGood(w) ==
  /\ w.kind \in {"create", "convert", "edit", "account"}
  /\ w.kind # "account" => w.row \in RosterRec
  /\ w.kind = "edit" => w.at \in DOMAIN roster

JoinersInv ==
  /\ staffed \in {{CHOOSE d \in Desks : TRUE}, Desks}
  /\ roster \in Seq(RosterRec)
  /\ hr = [d \in Desks |-> hr[d]]
  /\ \A d \in Desks : hr[d] # Idle => WorkGood(hr[d]) /\ d \in staffed
  /\ Alone => \A d \in Desks : hr[d] # Idle => HiringGood(hr[d])

LEMMA NextCodeIsNew ==
  ASSUME roster \in Seq(RosterRec)
  PROVE  NextCode \in Nat /\ \A i \in DOMAIN roster : roster[i].code < NextCode
<1> DEFINE n == Len(roster)
           g == [i \in 1 .. n |-> roster[i].code]
           S == {FirstCode - 1} \cup {roster[i].code : i \in DOMAIN roster}
<1>1. n \in Nat /\ DOMAIN roster = 1 .. n /\ \A i \in 1 .. n : g[i] \in Nat /\ g[i] = roster[i].code
  <2>1. n \in Nat /\ DOMAIN roster = 1 .. n /\ \A i \in DOMAIN roster : roster[i] \in RosterRec
    BY RowsShape
  <2> QED BY <2>1 DEF RosterRec
<1>2. PICK b \in Nat : \A i \in 1 .. n : g[i] <= b
  <2> HIDE DEF g, n
  <2> QED BY <1>1, RowsBounded
<1>3. S \in SUBSET Int /\ S # {} /\ (\A y \in S : y <= b) /\ 0 \in S
  BY <1>1, <1>2 DEF FirstCode
<1>4. \A i \in DOMAIN roster : roster[i].code \in S
  OBVIOUS
<1>5. PICK s : s = S
  OBVIOUS
<1>6. NextCode = Max(s) + 1
  BY <1>5 DEF NextCode
<1> HIDE DEF S
<1>7. s \in SUBSET Int /\ s # {} /\ (\A y \in s : y <= b) /\ b \in Int /\ 0 \in s
  BY <1>3, <1>5
<1>8. Max(s) \in s /\ \A y \in s : Max(s) >= y
  BY <1>7, GreatestMember
<1>9. Max(s) \in Int /\ Max(s) >= 0
  BY <1>7, <1>8
<1>10. \A i \in DOMAIN roster : roster[i].code \in Int /\ Max(s) >= roster[i].code
  BY <1>4, <1>5, <1>7, <1>8
<1> QED BY <1>6, <1>9, <1>10

(* A request that has looked and is about to write.                        *)
LEMMA HrKeeps ==
  ASSUME JoinersInv, NEW d \in Desks, NEW w, AtHr(d, w), WorkGood(w), HiringGood(w)
  PROVE  JoinersInv'
<1>1. /\ hr' = [hr EXCEPT ![d] = w] /\ d \in staffed
      /\ UNCHANGED <<staffed, onboarding, roster, logins, roles, edits>>
  BY DEF AtHr
<1>2. \A v : (WorkGood(v) <=> WorkGood(v)') /\ (HiringGood(v) <=> HiringGood(v)')
  BY <1>1 DEF WorkGood, HiringGood
<1>3. Alone' = Alone
  BY <1>1 DEF Alone
<1> QED BY <1>1, <1>2, <1>3 DEF JoinersInv

(* What a commit stores.                                                   *)
LEMMA RosterStored ==
  ASSUME roster \in Seq(RosterRec), NEW w, WorkGood(w), w.kind # "account"
  PROVE  StoredRoster(w) \in Seq(RosterRec) /\ DOMAIN roster \subseteq DOMAIN StoredRoster(w)
<1>1. CASE w.kind = "edit"
  <2>1. PICK i : i = w.at
    OBVIOUS
  <2>2. i \in DOMAIN roster /\ roster[i] \in RosterRec /\ w.row \in RosterRec
    BY <1>1, <2>1, RowsShape DEF WorkGood
  <2>3. PICK r : r = [roster[i] EXCEPT !.code = w.row.code, !.email = w.row.email]
    OBVIOUS
  <2>4. r \in RosterRec
    BY <2>2, <2>3 DEF RosterRec
  <2>5. StoredRoster(w) = [roster EXCEPT ![i] = r]
    BY <1>1, <2>1, <2>2, <2>3 DEF StoredRoster
  <2> QED BY <2>4, <2>5, RowsReplaced
<1>2. CASE w.kind # "edit"
  <2>1. StoredRoster(w) = Append(roster, w.row) /\ w.row \in RosterRec
    BY <1>2 DEF StoredRoster, WorkGood
  <2> QED BY <2>1, RowsAppended
<1> QED BY <1>1, <1>2

LEMMA JoinersStep == JoinersInv /\ [JoinersNext]_joinersVars => JoinersInv'
<1> SUFFICES ASSUME JoinersInv, [JoinersNext]_joinersVars PROVE JoinersInv'
  OBVIOUS
<1>1. ASSUME UNCHANGED <<staffed, roster>>, hr' = [e \in Desks |-> hr'[e]],
             \A e \in Desks : hr'[e] # Idle => hr'[e] = hr[e]
      PROVE  JoinersInv'
  <2>1. \A v : (WorkGood(v) <=> WorkGood(v)') /\ (HiringGood(v) <=> HiringGood(v)')
    BY <1>1 DEF WorkGood, HiringGood
  <2>2. Alone' = Alone
    BY <1>1 DEF Alone
  <2> QED BY <1>1, <2>1, <2>2 DEF JoinersInv
<1>2. ASSUME NEW c \in Candidates,
             \/ InitiateOnboarding(c) \/ SubmitInfo(c) \/ Resubmit(c) \/ Approve(c)
             \/ \E status \in StatusRows : UpdateOnboarding(c, status)
      PROVE  JoinersInv'
  <2>1. UNCHANGED <<staffed, roster, hr>>
    BY <1>2 DEF InitiateOnboarding, SubmitInfo, Resubmit, Approve, UpdateOnboarding, Becomes
  <2> QED BY <1>1, <2>1 DEF JoinersInv
<1>3. ASSUME NEW i \in DOMAIN roster, DeleteEmployee(i) PROVE JoinersInv'
  <2>1. roster' = [roster EXCEPT ![i].live = FALSE] /\ UNCHANGED <<staffed, hr>>
    BY <1>3 DEF DeleteEmployee
  <2>2. PICK r : r = [roster[i] EXCEPT !.live = FALSE]
    OBVIOUS
  <2>3. r \in RosterRec /\ r.code = roster[i].code /\ roster \in Seq(RosterRec)
    <3>1. roster \in Seq(RosterRec) /\ roster[i] \in RosterRec
      BY RowsShape DEF JoinersInv
    <3> QED BY <2>2, <3>1 DEF RosterRec
  <2>4. roster' = [roster EXCEPT ![i] = r]
    BY <2>1, <2>2
  <2>5. /\ roster' \in Seq(RosterRec) /\ DOMAIN roster' = DOMAIN roster
        /\ \A j \in DOMAIN roster : roster'[j] = IF j = i THEN r ELSE roster[j]
    BY <2>3, <2>4, RowsReplaced
  <2>6. \A j \in DOMAIN roster : roster'[j].code = roster[j].code
    BY <2>3, <2>5
  <2>7. \A v : (WorkGood(v) => WorkGood(v)') /\ (HiringGood(v) => HiringGood(v)')
    BY <2>5, <2>6 DEF WorkGood, HiringGood
  <2>8. Alone' = Alone
    BY <2>1 DEF Alone
  <2> QED BY <2>1, <2>5, <2>7, <2>8 DEF JoinersInv
<1>4. ASSUME NEW d \in Desks, NEW c \in Candidates, ConvertCandidate(d, c) PROVE JoinersInv'
  <2>1. PICK r : r = Employee(NextCode, c)
    OBVIOUS
  <2>2. PICK w : w = [kind |-> "convert", row |-> r]
    OBVIOUS
  <2>3. AtHr(d, w)
    BY <1>4, <2>1, <2>2 DEF ConvertCandidate
  <2>4. r \in RosterRec /\ \A i \in DOMAIN roster : roster[i].code < r.code
    <3>1. NextCode \in Nat /\ \A i \in DOMAIN roster : roster[i].code < NextCode
      BY NextCodeIsNew DEF JoinersInv
    <3>2. r = [code |-> NextCode, email |-> c, live |-> TRUE]
      BY <2>1 DEF Employee
    <3> QED BY <3>1, <3>2 DEF RosterRec, People
  <2>5. WorkGood(w) /\ HiringGood(w)
    BY <2>2, <2>4 DEF WorkGood, HiringGood
  <2> QED BY <2>3, <2>5, HrKeeps
<1>5. ASSUME NEW d \in Desks, NEW code \in TypedCodes, NEW email \in Others,
             CreateEmployee(d, code, email)
      PROVE  JoinersInv'
  <2>1. PICK w : w = [kind |-> "create", row |-> Employee(code, email)]
    OBVIOUS
  <2>2. AtHr(d, w)
    BY <1>5, <2>1 DEF CreateEmployee
  <2>3. Employee(code, email) \in RosterRec
    BY JoinersAssumption DEF Employee, RosterRec, People
  <2>4. WorkGood(w) /\ HiringGood(w)
    BY <2>1, <2>3 DEF WorkGood, HiringGood
  <2> QED BY <2>2, <2>4, HrKeeps
<1>6. ASSUME NEW d \in Desks, NEW code \in TypedCodes, NEW i \in DOMAIN roster,
             UpdateEmployee(d, i, code, roster[i].email)
      PROVE  JoinersInv'
  <2>1. PICK w : w = [kind |-> "edit", at |-> i, row |-> Employee(code, roster[i].email)]
    OBVIOUS
  <2>2. AtHr(d, w)
    BY <1>6, <2>1 DEF UpdateEmployee
  <2>3. Employee(code, roster[i].email) \in RosterRec
    <3>1. roster[i] \in RosterRec
      BY RowsShape DEF JoinersInv
    <3> QED BY <3>1, JoinersAssumption DEF Employee, RosterRec
  <2>4. WorkGood(w) /\ HiringGood(w)
    BY <2>1, <2>3 DEF WorkGood, HiringGood
  <2> QED BY <2>2, <2>4, HrKeeps
<1>7. ASSUME NEW d \in Desks, NEW i \in DOMAIN roster, CreateAccount(d, i) PROVE JoinersInv'
  <2>1. PICK w : w = [kind |-> "account", email |-> roster[i].email, role |-> roles = 0]
    OBVIOUS
  <2>2. AtHr(d, w)
    BY <1>7, <2>1 DEF CreateAccount
  <2>3. WorkGood(w) /\ HiringGood(w)
    BY <2>1 DEF WorkGood, HiringGood
  <2> QED BY <2>2, <2>3, HrKeeps
<1>8. ASSUME NEW d \in Desks, CommitRoster(d) PROVE JoinersInv'
  <2>1. PICK w : w = hr[d]
    OBVIOUS
  <2>2. /\ w # Idle /\ w.kind # "account" /\ WorkGood(w) /\ d \in staffed
        /\ roster' = StoredRoster(w) /\ hr' = [hr EXCEPT ![d] = Idle] /\ staffed' = staffed
    BY <1>8, <2>1 DEF CommitRoster, JoinersInv
  <2>3. roster' \in Seq(RosterRec) /\ DOMAIN roster \subseteq DOMAIN roster'
    BY <2>2, RosterStored DEF JoinersInv
  <2>4. \A v : WorkGood(v) => WorkGood(v)'
    BY <2>3 DEF WorkGood
  <2>5. /\ hr' = [e \in Desks |-> hr'[e]] /\ hr'[d] = Idle
        /\ \A e \in Desks \ {d} : hr'[e] = hr[e]
    BY <2>2 DEF JoinersInv
  <2>6. ASSUME Alone' PROVE \A e \in Desks : hr'[e] = Idle
    <3> SUFFICES ASSUME NEW e \in Desks, hr'[e] # Idle PROVE FALSE
      OBVIOUS
    <3>1. e # d /\ e \in staffed
      BY <2>5 DEF JoinersInv
    <3>2. Alone
      BY <2>2, <2>6 DEF Alone
    <3> QED BY <2>2, <3>1, <3>2, OnlyDesk DEF JoinersInv
  <2> QED BY <2>2, <2>3, <2>4, <2>5, <2>6 DEF JoinersInv
<1>9. ASSUME NEW d \in Desks, CommitAccount(d) \/ HrAbandons(d) PROVE JoinersInv'
  <2>1. hr' = [hr EXCEPT ![d] = Idle] /\ UNCHANGED <<staffed, roster>>
    BY <1>9 DEF CommitAccount, HrAbandons
  <2>2. /\ hr' = [e \in Desks |-> hr'[e]]
        /\ \A e \in Desks : hr'[e] # Idle => hr'[e] = hr[e]
    BY <2>1 DEF JoinersInv
  <2> QED BY <1>1, <2>1, <2>2
<1>10. CASE UNCHANGED joinersVars
  BY <1>1, <1>10 DEF joinersVars, JoinersInv
<1> QED BY <1>2, <1>3, <1>4, <1>5, <1>6, <1>7, <1>8, <1>9, <1>10 DEF JoinersNext

(* One request at a time, and whatever codes HR types, edits or deletes in   *)
(* between: a conversion gives out a code that no row of the company has,   *)
(* those of the people who left included.                                   *)
THEOREM CodesAlone == JoinersSpec => CodesAreNotReissued
<1>1. JoinersInit => JoinersInv
  <2>1. <<>> \in Seq(RosterRec)
    OBVIOUS
  <2> QED BY <2>1 DEF JoinersInit, JoinersInv, StaffedInit
<1>2. JoinersInv =>
        [\A d \in Desks : (Alone /\ Joins(d)) =>
           \A i \in DOMAIN roster : roster[i].code # hr[d].row.code]_joinersVars
  <2> SUFFICES ASSUME JoinersInv, NEW d \in Desks, Alone, Joins(d), NEW i \in DOMAIN roster
               PROVE  roster[i].code # hr[d].row.code
    OBVIOUS
  <2>1. hr[d] # Idle /\ hr[d].kind = "convert" /\ roster[i].code < hr[d].row.code
    BY DEF Joins, JoinersInv, HiringGood
  <2>2. roster[i].code \in Int
    <3>1. roster[i] \in RosterRec
      BY RowsShape DEF JoinersInv
    <3> QED BY <3>1 DEF RosterRec
  <2>3. hr[d].row.code \in Int
    BY <2>1 DEF JoinersInv, WorkGood, RosterRec
  <2> QED BY <2>1, <2>2, <2>3
<1> QED BY <1>1, <1>2, JoinersStep, PTL DEF JoinersSpec, CodesAreNotReissued

-------------------------------------------------------------------------------
(* Feedback *)

FormRec == [kind : {"survey", "review"}, who : DOMAIN Boss, status : {"pending", "completed"},
            copies : Nat]

SessionRec == [drill : Nat, status : {"ONGOING", "COMPLETED"}, turns : Nat]

DrillStates == {"PENDING", "IN_PROGRESS", "COMPLETED"}

\* A request works on a form or a session that is there.
ReplyGood(w) ==
  /\ w.kind \in {"fill", "chat", "evaluate"}
  /\ w.kind = "fill" => w.row \in DOMAIN forms
  /\ w.kind # "fill" => w.row \in DOMAIN sessions
  /\ w.kind = "chat" => w.seen \in Nat

\* One request at a time, what it found still holds when it commits.
ReplyFresh(w) ==
  /\ w.kind = "fill" => forms[w.row].status = "pending"
  /\ w.kind = "chat" => w.seen = sessions[w.row].turns
  /\ w.kind = "evaluate" => sessions[w.row].turns >= Enough

DrillsEarned ==
  \A k \in DOMAIN drills : drills[k] = "COMPLETED" =>
     \E s \in DOMAIN sessions : sessions[s].drill = k /\ sessions[s].status = "COMPLETED"

TurnsEarned ==
  \A s \in DOMAIN sessions : sessions[s].status = "COMPLETED" => sessions[s].turns >= Enough

FeedbackInv ==
  /\ staffed \in {{CHOOSE d \in Desks : TRUE}, Desks}
  /\ forms \in Seq(FormRec) /\ drills \in Seq(DrillStates) /\ sessions \in Seq(SessionRec)
  /\ reply = [d \in Desks |-> reply[d]]
  /\ \A d \in Desks : reply[d] # Idle => ReplyGood(reply[d]) /\ d \in staffed
  /\ DrillsEarned
  /\ Alone => /\ CountedOnce /\ TurnsEarned
              /\ \A d \in Desks : reply[d] # Idle => ReplyFresh(reply[d])

\* The requests at work are good ones in the state that follows.
RepliesFit ==
  /\ reply = [d \in Desks |-> reply[d]]
  /\ \A d \in Desks : reply[d] # Idle => ReplyGood(reply[d]) /\ d \in staffed
  /\ Alone => \A d \in Desks : reply[d] # Idle => ReplyFresh(reply[d])

(* A step that takes on no request and takes nothing of what was found.     *)
LEMMA RepliesStay ==
  ASSUME FeedbackInv, UNCHANGED staffed, reply' = [e \in Desks |-> reply'[e]],
         \A e \in Desks : reply'[e] # Idle => reply'[e] = reply[e],
         \A i \in DOMAIN forms : i \in DOMAIN forms' /\ forms'[i].status = forms[i].status,
         \A s \in DOMAIN sessions : s \in DOMAIN sessions' /\ sessions'[s].turns = sessions[s].turns
  PROVE  RepliesFit' /\ Alone' = Alone
<1>1. Alone' = Alone
  BY DEF Alone
<1>2. \A v : ReplyGood(v) => ReplyGood(v)'
  BY DEF ReplyGood
<1>3. \A v : ReplyGood(v) /\ ReplyFresh(v) => ReplyFresh(v)'
  BY DEF ReplyGood, ReplyFresh
<1> QED BY <1>1, <1>2, <1>3 DEF FeedbackInv, RepliesFit

(* A request that sits down.                                               *)
LEMMA RespondKeeps ==
  ASSUME FeedbackInv, NEW d \in Desks, NEW w, Respond(d, w), ReplyGood(w), ReplyFresh(w)
  PROVE  FeedbackInv'
<1>1. /\ reply' = [reply EXCEPT ![d] = w] /\ d \in staffed
      /\ UNCHANGED <<staffed, forms, edition, drills, sessions>>
  BY DEF Respond
<1>2. \A v : /\ ReplyGood(v) => ReplyGood(v)'
             /\ ReplyFresh(v) => ReplyFresh(v)'
  BY <1>1 DEF ReplyGood, ReplyFresh
<1>3. Alone' = Alone /\ CountedOnce' = CountedOnce /\ TurnsEarned' = TurnsEarned
      /\ DrillsEarned' = DrillsEarned
  BY <1>1 DEF Alone, CountedOnce, TurnsEarned, DrillsEarned
<1> QED BY <1>1, <1>2, <1>3 DEF FeedbackInv

(* A request that commits: alone, it leaves no other behind.                *)
LEMMA LastReply ==
  ASSUME FeedbackInv, NEW d \in Desks, reply[d] # Idle, reply' = [reply EXCEPT ![d] = Idle],
         UNCHANGED staffed, DOMAIN forms' = DOMAIN forms, DOMAIN sessions' = DOMAIN sessions
  PROVE  RepliesFit' /\ Alone' = Alone
<1>1. Alone' = Alone
  BY DEF Alone
<1>2. /\ reply' = [e \in Desks |-> reply'[e]] /\ reply'[d] = Idle
      /\ \A e \in Desks \ {d} : reply'[e] = reply[e]
  BY DEF FeedbackInv
<1>3. \A v : ReplyGood(v) => ReplyGood(v)'
  BY DEF ReplyGood
<1>4. ASSUME Alone' PROVE \A e \in Desks : reply'[e] = Idle
  <2> SUFFICES ASSUME NEW e \in Desks, reply'[e] # Idle PROVE FALSE
    OBVIOUS
  <2>1. e # d /\ e \in staffed /\ d \in staffed
    BY <1>2 DEF FeedbackInv
  <2> QED BY <1>1, <1>4, <2>1, OnlyDesk DEF FeedbackInv
<1> QED BY <1>1, <1>2, <1>3, <1>4 DEF FeedbackInv, RepliesFit

(* The forms of a survey or a cycle are handed out.                         *)
LEMMA HandKeeps ==
  ASSUME FeedbackInv, NEW q \in Seq(FormRec), Hand(q),
         \A i \in DOMAIN q : q[i].status = "pending" /\ q[i].copies = 0
  PROVE  FeedbackInv'
<1>1. forms' = forms \o q /\ UNCHANGED <<staffed, edition, drills, sessions, reply>>
  BY DEF Hand
<1>2. PICK p : p = forms \o q
  OBVIOUS
<1>3. /\ p \in Seq(FormRec) /\ DOMAIN forms \subseteq DOMAIN p
      /\ \A i \in DOMAIN forms : p[i] = forms[i]
      /\ \A i \in DOMAIN p \ DOMAIN forms : i - Len(forms) \in DOMAIN q /\ p[i] = q[i - Len(forms)]
  BY <1>2, RowsJoined DEF FeedbackInv
<1>4. forms' = p
  BY <1>1, <1>2
<1>5. RepliesFit' /\ Alone' = Alone
  BY <1>1, <1>3, <1>4, RepliesStay DEF FeedbackInv
<1>6. CountedOnce => CountedOnce'
  <2>1. \A i \in DOMAIN p : i \in DOMAIN forms \/ (p[i].status = "pending" /\ p[i].copies = 0)
    BY <1>3
  <2> QED BY <1>3, <1>4, <2>1 DEF CountedOnce
<1>7. TurnsEarned' = TurnsEarned /\ DrillsEarned' = DrillsEarned
  BY <1>1 DEF TurnsEarned, DrillsEarned
<1> QED BY <1>1, <1>3, <1>4, <1>5, <1>6, <1>7 DEF FeedbackInv, RepliesFit

LEMMA FreshForm ==
  ASSUME NEW kind \in {"survey", "review"}, NEW who \in DOMAIN Boss
  PROVE  /\ Form(kind, who) \in FormRec
         /\ Form(kind, who).status = "pending" /\ Form(kind, who).copies = 0
  BY DEF Form, FormRec

(* The lists of a list, one behind the other.                               *)
LEMMA FlatRows ==
  ASSUME NEW T, NEW q \in Seq(Seq(T))
  PROVE  FlattenSeq(q) \in Seq(T)
<1> DEFINE n == Len(q)
           Runs(f) == f = [i \in 1 .. n |-> IF i = 1 THEN q[i] ELSE f[i - 1] \o q[i]]
           W == Seq(T)
           F == [x \in (1 .. n) \X W |-> IF x[1] = 1 THEN q[x[1]] ELSE x[2] \o q[x[1]]]
<1>1. n \in Nat /\ \A i \in 1 .. n : q[i] \in W
  BY RowsShape
<1>2. <<>> \in W
  OBVIOUS
<1>3. \A v, u \in W : v \o u \in W
  <2> TAKE v, u \in W
  <2>1. PICK p : p = v \o u
    OBVIOUS
  <2> QED BY <2>1, RowsJoined
<1>4. \A i \in 1 .. n, v \in W : /\ F[<<i, v>>] = IF i = 1 THEN q[i] ELSE v \o q[i]
                               /\ F[<<i, v>>] \in W
  BY <1>1, <1>3
<1>5. CASE n = 0
  <2>1. FlattenSeq(q) = q
    BY <1>5 DEF FlattenSeq
  <2>2. q = <<>>
    BY <1>5
  <2> QED BY <1>2, <2>1, <2>2
<1>6. CASE n # 0
  <2> HIDE DEF F, W, n
  <2>1. PICK f : Loop(f, n, <<>>, F)
    BY <1>1, <1>2, <1>4, LoopExists
  <2>2. \A i \in 0 .. n : f[i] \in W
    <3>1. f[0] \in W /\ \A i \in 1 .. n : f[i - 1] \in W => f[i] \in W
      BY <1>2, <1>4, <2>1 DEF Loop
    <3> QED BY <1>1, <3>1, LoopKeeps
  <2>3. Runs([i \in 1 .. n |-> f[i]])
    <3> DEFINE h == [i \in 1 .. n |-> f[i]]
    <3>1. \A i \in 1 .. n : h[i] = IF i = 1 THEN q[i] ELSE h[i - 1] \o q[i]
      <4> TAKE i \in 1 .. n
      <4>1. f[i] = IF i = 1 THEN q[i] ELSE f[i - 1] \o q[i]
        <5>1. i - 1 \in 0 .. n
          BY <1>1
        <5> QED BY <1>4, <2>1, <2>2, <5>1 DEF Loop
      <4>2. i # 1 => i - 1 \in 1 .. n
        BY <1>1
      <4> QED BY <4>1, <4>2
    <3> QED BY <3>1
  <2>4. PICK g : Runs(g) /\ FlattenSeq(q) = g[n]
    BY <1>6, <2>3 DEF FlattenSeq, n
  <2> DEFINE h == [i \in 0 .. n |-> IF i = 0 THEN <<>> ELSE g[i]]
  <2>5. h[0] \in W /\ \A i \in 1 .. n : h[i - 1] \in W => h[i] \in W
    <3>1. \A i \in 1 .. n : g[i] = IF i = 1 THEN q[i] ELSE g[i - 1] \o q[i]
      BY <2>4
    <3>2. ASSUME NEW i \in 1 .. n, h[i - 1] \in W PROVE h[i] \in W
      <4>1. h[i] = g[i]
        BY <1>1
      <4>2. CASE i = 1
        BY <1>1, <3>1, <4>1, <4>2
      <4>3. CASE i # 1
        <5>1. h[i - 1] = g[i - 1]
          BY <1>1, <4>3
        <5>2. g[i - 1] \o q[i] \in W
          BY <1>1, <1>3, <3>2, <5>1
        <5> QED BY <3>1, <4>1, <4>3, <5>2
      <4> QED BY <4>2, <4>3
    <3>3. h[0] = <<>>
      BY <1>1
    <3> QED BY <1>2, <3>2, <3>3
  <2> HIDE DEF h
  <2>6. \A i \in 0 .. n : h[i] \in W
    BY <1>1, <2>5, LoopKeeps
  <2>7. h[n] = g[n] /\ n \in 0 .. n
    BY <1>1, <1>6 DEF h
  <2> QED BY <2>4, <2>6, <2>7 DEF W
<1> QED BY <1>5, <1>6

(* The people chosen for a cycle, each once.                                *)
LEMMA PeopleListed ==
  ASSUME NEW P, IsFiniteSet(P)
  PROVE  SetToSeq(P) \in Seq(P)
<1> DEFINE n == Cardinality(P)
<1>1. n \in Nat /\ ExistsBijection(1 .. n, P)
  BY FS_CardinalityType
<1>2. \E f \in [1 .. n -> P] : IsInjective(f)
  BY <1>1 DEF ExistsBijection, Bijection, Injection
<1>3. SetToSeq(P) \in [1 .. n -> P]
  BY <1>2 DEF SetToSeq
<1> QED BY <1>1, <1>3, SeqDef

LEMMA LaunchKeeps ==
  ASSUME FeedbackInv, NEW group \in Groups, LaunchSurvey(group)
  PROVE  FeedbackInv'
<1> DEFINE f == [i \in DOMAIN group |-> Form("survey", group[i])]
<1>1. group \in Seq(DOMAIN Boss)
  BY FeedbackAssumption
<1>2. \A i \in DOMAIN group : group[i] \in DOMAIN Boss
  BY <1>1, RowsShape
<1>3. \A i \in DOMAIN group : f[i] \in FormRec /\ f[i].status = "pending" /\ f[i].copies = 0
  BY <1>2, FreshForm
<1>4. f = [i \in DOMAIN group |-> f[i]] /\ Hand(f)
  BY DEF LaunchSurvey
<1> HIDE DEF f
<1>5. f \in Seq(FormRec) /\ DOMAIN f = DOMAIN group
  BY <1>1, <1>3, <1>4, RowsMapped
<1> QED BY <1>3, <1>4, <1>5, HandKeeps

LEMMA CycleKeeps ==
  ASSUME FeedbackInv, NEW group \in Groups, StartCycle(group)
  PROVE  FeedbackInv'
<1> DEFINE Unfilled == {r \in FormRec : r.status = "pending" /\ r.copies = 0}
           people == SetToSeq(ToSet(group))
           reviews(p) == <<Form("review", p)>> \o
                         IF Boss[p] = p THEN <<>> ELSE <<Form("review", Boss[p])>>
           lists == [i \in DOMAIN people |-> reviews(people[i])]
<1>1. group \in Seq(DOMAIN Boss)
  BY FeedbackAssumption
<1>2. IsFiniteSet(ToSet(group)) /\ ToSet(group) \subseteq DOMAIN Boss
  <2>1. Len(group) \in Nat /\ DOMAIN group = 1 .. Len(group)
        /\ \A i \in DOMAIN group : group[i] \in DOMAIN Boss
    BY <1>1, RowsShape
  <2>2. IsFiniteSet(DOMAIN group)
    <3>1. \A m \in Nat : IsFiniteSet(1 .. m)
      BY FS_Interval
    <3> QED BY <2>1, <3>1
  <2> DEFINE g == [i \in DOMAIN group |-> group[i]]
  <2>3. g \in Surjection(DOMAIN group, ToSet(group))
    BY DEF Surjection, ToSet
  <2> HIDE DEF g
  <2> QED BY <2>1, <2>2, <2>3, FS_Surjection DEF ToSet
<1>3. people \in Seq(ToSet(group))
  BY <1>2, PeopleListed
<1>4. \A i \in DOMAIN people : people[i] \in DOMAIN Boss
  <2> HIDE DEF people
  <2> QED BY <1>2, <1>3, RowsShape
<1>5. \A p \in DOMAIN Boss : reviews(p) \in Seq(Unfilled)
  <2> TAKE p \in DOMAIN Boss
  <2>1. Form("review", p) \in Unfilled /\ Form("review", Boss[p]) \in Unfilled
    BY FreshForm, FeedbackAssumption
  <2> HIDE DEF Unfilled
  <2>2. PICK a : a = <<Form("review", p)>>
    OBVIOUS
  <2>3. PICK b : b = IF Boss[p] = p THEN <<>> ELSE <<Form("review", Boss[p])>>
    OBVIOUS
  <2>4. a \in Seq(Unfilled) /\ b \in Seq(Unfilled)
    <3>1. <<>> \in Seq(Unfilled)
      OBVIOUS
    <3> QED BY <2>1, <2>2, <2>3, <3>1, OneRow
  <2>5. PICK c : c = a \o b
    OBVIOUS
  <2>6. c \in Seq(Unfilled)
    BY <2>4, <2>5, RowsJoined
  <2> QED BY <2>2, <2>3, <2>5, <2>6
<1>6. Hand(FlattenSeq(lists))
  BY DEF StartCycle
<1>7. lists = [i \in DOMAIN people |-> lists[i]] /\ \A i \in DOMAIN people : lists[i] \in Seq(Unfilled)
  BY <1>4, <1>5
<1> HIDE DEF lists, people, Unfilled
<1>8. lists \in Seq(Seq(Unfilled))
  BY <1>3, <1>7, RowsMapped
<1>9. PICK q : q = FlattenSeq(lists)
  OBVIOUS
<1>10. q \in Seq(Unfilled)
  BY <1>8, <1>9, FlatRows
<1>11. \A i \in DOMAIN q : q[i] \in FormRec /\ q[i].status = "pending" /\ q[i].copies = 0
  BY <1>10, RowsShape DEF Unfilled
<1>12. q = [i \in DOMAIN q |-> q[i]]
  BY <1>10, RowsShape
<1>13. q \in Seq(FormRec)
  BY <1>10, <1>11, <1>12, RowsMapped
<1> QED BY <1>6, <1>9, <1>11, <1>13, HandKeeps

LEMMA TemplateKeeps ==
  ASSUME FeedbackInv, UpdateTemplate
  PROVE  FeedbackInv'
<1> DEFINE f == [i \in DOMAIN forms |->
                   IF forms[i].kind = "survey" THEN [forms[i] EXCEPT !.copies = 0] ELSE forms[i]]
<1>1. forms' = f /\ UNCHANGED <<staffed, drills, sessions, reply>>
  BY DEF UpdateTemplate
<1>2. \A i \in DOMAIN forms :
        /\ f[i] \in FormRec /\ f[i].status = forms[i].status /\ f[i].kind = forms[i].kind
        /\ f[i].copies = 0 \/ f[i] = forms[i]
        /\ f[i].kind = "review" => f[i] = forms[i]
  <2> TAKE i \in DOMAIN forms
  <2>1. forms[i] \in FormRec
    BY RowsShape DEF FeedbackInv
  <2>2. PICK r : r = [forms[i] EXCEPT !.copies = 0]
    OBVIOUS
  <2>3. r \in FormRec /\ r.status = forms[i].status /\ r.kind = forms[i].kind /\ r.copies = 0
    BY <2>1, <2>2 DEF FormRec
  <2>4. f[i] = IF forms[i].kind = "survey" THEN r ELSE forms[i]
    BY <2>2
  <2> HIDE DEF f
  <2> QED BY <2>1, <2>3, <2>4
<1>3. f = [i \in DOMAIN forms |-> f[i]]
  OBVIOUS
<1> HIDE DEF f
<1>4. f \in Seq(FormRec) /\ DOMAIN f = DOMAIN forms
  BY <1>2, <1>3, RowsMapped DEF FeedbackInv
<1>5. RepliesFit' /\ Alone' = Alone
  BY <1>1, <1>2, <1>4, RepliesStay DEF FeedbackInv
<1>6. CountedOnce => CountedOnce'
  BY <1>1, <1>2, <1>4 DEF CountedOnce
<1>7. TurnsEarned' = TurnsEarned /\ DrillsEarned' = DrillsEarned
  BY <1>1 DEF TurnsEarned, DrillsEarned
<1> QED BY <1>1, <1>4, <1>5, <1>6, <1>7 DEF FeedbackInv, RepliesFit

LEMMA AssignKeeps ==
  ASSUME FeedbackInv, NEW group \in Groups, AssignDrill(group)
  PROVE  FeedbackInv'
<1> DEFINE f == [i \in DOMAIN group |-> "PENDING"]
<1>1. drills' = drills \o f /\ UNCHANGED <<staffed, forms, edition, sessions, reply>>
  BY DEF AssignDrill
<1>2. \A i \in DOMAIN group : f[i] = "PENDING"
  OBVIOUS
<1>3. f = [i \in DOMAIN group |-> f[i]]
  OBVIOUS
<1> HIDE DEF f
<1>4. f \in Seq(DrillStates) /\ DOMAIN f = DOMAIN group
  <2>1. group \in Seq(DOMAIN Boss)
    BY FeedbackAssumption
  <2>2. \A i \in DOMAIN group : f[i] \in DrillStates
    BY <1>2 DEF DrillStates
  <2> QED BY <1>3, <2>1, <2>2, RowsMapped
<1>5. PICK p : p = drills \o f
  OBVIOUS
<1>6. /\ p \in Seq(DrillStates)
      /\ \A i \in DOMAIN drills : p[i] = drills[i]
      /\ \A i \in DOMAIN p \ DOMAIN drills : i - Len(drills) \in DOMAIN f /\ p[i] = f[i - Len(drills)]
  BY <1>4, <1>5, RowsJoined DEF FeedbackInv
<1>7. RepliesFit' /\ Alone' = Alone
  BY <1>1, RepliesStay DEF FeedbackInv
<1>8. CountedOnce' = CountedOnce /\ TurnsEarned' = TurnsEarned
  BY <1>1 DEF CountedOnce, TurnsEarned
<1>9. DrillsEarned'
  <2>1. \A k \in DOMAIN p : p[k] = "COMPLETED" => k \in DOMAIN drills /\ drills[k] = "COMPLETED"
    BY <1>2, <1>4, <1>6
  <2> QED BY <1>1, <1>5, <2>1 DEF DrillsEarned, FeedbackInv
<1> QED BY <1>1, <1>5, <1>6, <1>7, <1>8, <1>9 DEF FeedbackInv, RepliesFit

LEMMA SessionKeeps ==
  ASSUME FeedbackInv, NEW k \in {0} \cup DOMAIN drills, StartSession(k)
  PROVE  FeedbackInv'
<1> DEFINE r == [drill |-> k, status |-> "ONGOING", turns |-> 0]
<1>1. /\ sessions' = Append(sessions, r)
      /\ drills' = IF k = 0 THEN drills ELSE [drills EXCEPT ![k] = "IN_PROGRESS"]
      /\ UNCHANGED <<staffed, forms, edition, reply>>
  BY DEF StartSession
<1>2. k \in Nat
  BY RowsShape DEF FeedbackInv
<1>3. r \in SessionRec /\ r.status = "ONGOING"
  BY <1>2 DEF SessionRec
<1> HIDE DEF r
<1>4. /\ sessions' \in Seq(SessionRec)
      /\ DOMAIN sessions' = DOMAIN sessions \cup {Len(sessions) + 1}
      /\ sessions'[Len(sessions) + 1] = r
      /\ \A s \in DOMAIN sessions : sessions'[s] = sessions[s]
  <2>1. sessions \in Seq(SessionRec)
    BY DEF FeedbackInv
  <2>2. PICK p : p = Append(sessions, r)
    OBVIOUS
  <2>3. /\ p \in Seq(SessionRec) /\ DOMAIN p = DOMAIN sessions \cup {Len(sessions) + 1}
        /\ p[Len(sessions) + 1] = r /\ \A s \in DOMAIN sessions : p[s] = sessions[s]
    BY <1>3, <2>1, <2>2, RowsAppended
  <2> QED BY <1>1, <2>2, <2>3
<1>5. /\ drills' \in Seq(DrillStates)
      /\ \A j \in DOMAIN drills' :
            j \in DOMAIN drills /\ (drills'[j] = "COMPLETED" => drills[j] = "COMPLETED")
  <2>1. drills \in Seq(DrillStates)
    BY DEF FeedbackInv
  <2>2. PICK p : p = [drills EXCEPT ![k] = "IN_PROGRESS"]
    OBVIOUS
  <2>3. /\ p \in Seq(DrillStates) /\ DOMAIN p = DOMAIN drills
        /\ \A j \in DOMAIN drills : p[j] = IF j = k THEN "IN_PROGRESS" ELSE drills[j]
    <3>1. "IN_PROGRESS" \in DrillStates
      BY DEF DrillStates
    <3> QED BY <2>1, <2>2, <3>1, RowsReplaced
  <2> QED BY <1>1, <2>1, <2>2, <2>3
<1>6. RepliesFit' /\ Alone' = Alone
  BY <1>1, <1>4, RepliesStay DEF FeedbackInv
<1>7. CountedOnce' = CountedOnce
  BY <1>1 DEF CountedOnce
<1>8. TurnsEarned => TurnsEarned'
  BY <1>3, <1>4 DEF TurnsEarned
<1>9. DrillsEarned'
  BY <1>4, <1>5 DEF DrillsEarned, FeedbackInv
<1> QED BY <1>1, <1>4, <1>5, <1>6, <1>7, <1>8, <1>9 DEF FeedbackInv, RepliesFit

LEMMA FillKeeps ==
  ASSUME FeedbackInv, NEW d \in Desks, CommitFill(d)
  PROVE  FeedbackInv'
<1>1. PICK i : i = reply[d].row
  OBVIOUS
<1>2. /\ reply[d] # Idle /\ reply[d].kind = "fill" /\ i \in DOMAIN forms
      /\ d \in staffed /\ (Alone => forms[i].status = "pending")
  BY <1>1 DEF CommitFill, FeedbackInv, ReplyGood, ReplyFresh
<1>3. /\ forms' = [forms EXCEPT ![i].status = "completed", ![i].copies = @ + 1]
      /\ reply' = [reply EXCEPT ![d] = Idle]
      /\ UNCHANGED <<staffed, edition, drills, sessions>>
  BY <1>1 DEF CommitFill
<1>4. forms[i] \in FormRec
  BY <1>2, RowsShape DEF FeedbackInv
<1>5. PICK r : r = [forms[i] EXCEPT !.status = "completed", !.copies = @ + 1]
  OBVIOUS
<1>6. r \in FormRec /\ r.status = "completed" /\ r.copies = forms[i].copies + 1
  <2>1. forms[i].copies + 1 \in Nat
    BY <1>4 DEF FormRec
  <2>2. \A n \in Nat : LET x == [forms[i] EXCEPT !.status = "completed", !.copies = n]
                       IN  x \in FormRec /\ x.status = "completed" /\ x.copies = n
    BY <1>4 DEF FormRec
  <2> QED BY <1>5, <2>1, <2>2
<1>7. forms' = [forms EXCEPT ![i] = r]
  BY <1>2, <1>3, <1>5
<1>8. /\ forms' \in Seq(FormRec) /\ DOMAIN forms' = DOMAIN forms
      /\ \A j \in DOMAIN forms : forms'[j] = IF j = i THEN r ELSE forms[j]
  BY <1>6, <1>7, RowsReplaced DEF FeedbackInv
<1>9. RepliesFit' /\ Alone' = Alone
  BY <1>2, <1>3, <1>8, LastReply
<1>10. Alone => CountedOnce'
  <2> SUFFICES ASSUME Alone PROVE CountedOnce'
    OBVIOUS
  <2>1. forms[i].copies = 0 /\ CountedOnce
    BY <1>2 DEF FeedbackInv, CountedOnce
  <2>2. r.copies = 1
    BY <1>6, <2>1
  <2> QED BY <1>6, <1>8, <2>1, <2>2 DEF CountedOnce
<1>11. TurnsEarned' = TurnsEarned /\ DrillsEarned' = DrillsEarned
  BY <1>3 DEF TurnsEarned, DrillsEarned
<1> QED BY <1>3, <1>8, <1>9, <1>10, <1>11 DEF FeedbackInv, RepliesFit

LEMMA ChatKeeps ==
  ASSUME FeedbackInv, NEW d \in Desks, CommitChat(d)
  PROVE  FeedbackInv'
<1>1. PICK i : i = reply[d].row
  OBVIOUS
<1>2. PICK n : n = reply[d].seen + 1
  OBVIOUS
<1>3. /\ reply[d] # Idle /\ reply[d].kind = "chat" /\ i \in DOMAIN sessions /\ n \in Nat
      /\ Alone => n = sessions[i].turns + 1
  BY <1>1, <1>2 DEF CommitChat, FeedbackInv, ReplyGood, ReplyFresh
<1>4. /\ sessions' = [sessions EXCEPT ![i].turns = n]
      /\ reply' = [reply EXCEPT ![d] = Idle]
      /\ UNCHANGED <<staffed, forms, edition, drills>>
  BY <1>1, <1>2 DEF CommitChat
<1>5. sessions[i] \in SessionRec
  BY <1>3, RowsShape DEF FeedbackInv
<1>6. PICK r : r = [sessions[i] EXCEPT !.turns = n]
  OBVIOUS
<1>7. /\ r \in SessionRec /\ r.drill = sessions[i].drill /\ r.status = sessions[i].status
      /\ r.turns = n
  BY <1>3, <1>5, <1>6 DEF SessionRec
<1>8. sessions' = [sessions EXCEPT ![i] = r]
  BY <1>3, <1>4, <1>6
<1>9. /\ sessions' \in Seq(SessionRec) /\ DOMAIN sessions' = DOMAIN sessions
      /\ \A j \in DOMAIN sessions : sessions'[j] = IF j = i THEN r ELSE sessions[j]
  BY <1>7, <1>8, RowsReplaced DEF FeedbackInv
<1>10. RepliesFit' /\ Alone' = Alone
  BY <1>3, <1>4, <1>9, LastReply
<1>11. CountedOnce' = CountedOnce
  BY <1>4 DEF CountedOnce
<1>12. Alone => TurnsEarned'
  <2> SUFFICES ASSUME Alone, NEW s \in DOMAIN sessions, sessions'[s].status = "COMPLETED"
               PROVE  sessions'[s].turns >= Enough
    BY <1>9 DEF TurnsEarned
  <2>1. sessions[s].status = "COMPLETED"
    BY <1>7, <1>9
  <2>2. sessions[s].turns >= Enough
    BY <2>1 DEF FeedbackInv, TurnsEarned
  <2>3. CASE s = i
    <3>1. sessions[i].turns \in Nat
      BY <1>5 DEF SessionRec
    <3> QED BY <1>3, <1>7, <1>9, <2>2, <2>3, <3>1 DEF Enough
  <2>4. CASE s # i
    BY <1>9, <2>2, <2>4
  <2> QED BY <2>3, <2>4
<1>13. DrillsEarned'
  <2>1. \A s \in DOMAIN sessions : /\ sessions'[s].drill = sessions[s].drill
                                   /\ sessions'[s].status = sessions[s].status
    BY <1>7, <1>9
  <2> QED BY <1>4, <1>9, <2>1 DEF FeedbackInv, DrillsEarned
<1> QED BY <1>4, <1>9, <1>10, <1>11, <1>12, <1>13 DEF FeedbackInv, RepliesFit

LEMMA EvaluationKeeps ==
  ASSUME FeedbackInv, NEW d \in Desks, CommitEvaluation(d)
  PROVE  FeedbackInv'
<1>1. PICK i : i = reply[d].row
  OBVIOUS
<1>2. PICK k : k = sessions[i].drill
  OBVIOUS
<1>3. /\ reply[d] # Idle /\ reply[d].kind = "evaluate" /\ i \in DOMAIN sessions
      /\ Alone => sessions[i].turns >= Enough
  BY <1>1 DEF CommitEvaluation, FeedbackInv, ReplyGood, ReplyFresh
<1>4. /\ sessions' = [sessions EXCEPT ![i].status = "COMPLETED"]
      /\ drills' = IF k = 0 THEN drills ELSE [drills EXCEPT ![k] = "COMPLETED"]
      /\ reply' = [reply EXCEPT ![d] = Idle]
      /\ UNCHANGED <<staffed, forms, edition>>
  BY <1>1, <1>2 DEF CommitEvaluation
<1>5. sessions[i] \in SessionRec
  BY <1>3, RowsShape DEF FeedbackInv
<1>6. PICK r : r = [sessions[i] EXCEPT !.status = "COMPLETED"]
  OBVIOUS
<1>7. /\ r \in SessionRec /\ r.drill = sessions[i].drill /\ r.turns = sessions[i].turns
      /\ r.status = "COMPLETED"
  BY <1>5, <1>6 DEF SessionRec
<1>8. sessions' = [sessions EXCEPT ![i] = r]
  BY <1>3, <1>4, <1>6
<1>9. /\ sessions' \in Seq(SessionRec) /\ DOMAIN sessions' = DOMAIN sessions
      /\ \A j \in DOMAIN sessions : sessions'[j] = IF j = i THEN r ELSE sessions[j]
  BY <1>7, <1>8, RowsReplaced DEF FeedbackInv
<1>10. /\ drills' \in Seq(DrillStates)
       /\ \A j \in DOMAIN drills' :
             j \in DOMAIN drills /\ (drills'[j] = "COMPLETED" => drills[j] = "COMPLETED" \/ j = k)
  <2>1. drills \in Seq(DrillStates)
    BY DEF FeedbackInv
  <2>2. PICK p : p = [drills EXCEPT ![k] = "COMPLETED"]
    OBVIOUS
  <2>3. /\ p \in Seq(DrillStates) /\ DOMAIN p = DOMAIN drills
        /\ \A j \in DOMAIN drills : p[j] = IF j = k THEN "COMPLETED" ELSE drills[j]
    <3>1. "COMPLETED" \in DrillStates
      BY DEF DrillStates
    <3> QED BY <2>1, <2>2, <3>1, RowsReplaced
  <2> QED BY <1>4, <2>1, <2>2, <2>3
<1>11. RepliesFit' /\ Alone' = Alone
  BY <1>3, <1>4, <1>9, LastReply
<1>12. CountedOnce' = CountedOnce
  BY <1>4 DEF CountedOnce
<1>13. Alone => TurnsEarned'
  BY <1>3, <1>7, <1>9 DEF FeedbackInv, TurnsEarned
<1>14. DrillsEarned'
  <2> SUFFICES ASSUME NEW j \in DOMAIN drills', drills'[j] = "COMPLETED"
               PROVE  \E s \in DOMAIN sessions' :
                        sessions'[s].drill = j /\ sessions'[s].status = "COMPLETED"
    BY DEF DrillsEarned
  <2>1. CASE j = k
    BY <1>2, <1>3, <1>7, <1>9, <2>1
  <2>2. CASE j # k
    <3>1. PICK s \in DOMAIN sessions : sessions[s].drill = j /\ sessions[s].status = "COMPLETED"
      BY <1>10, <2>2 DEF FeedbackInv, DrillsEarned
    <3> QED BY <1>7, <1>9, <3>1
  <2> QED BY <2>1, <2>2
<1> QED BY <1>4, <1>9, <1>10, <1>11, <1>12, <1>13, <1>14 DEF FeedbackInv, RepliesFit

LEMMA FeedbackStep == FeedbackInv /\ [FeedbackNext]_feedbackVars => FeedbackInv'
<1> SUFFICES ASSUME FeedbackInv, [FeedbackNext]_feedbackVars PROVE FeedbackInv'
  OBVIOUS
<1>1. ASSUME UNCHANGED <<staffed, forms, drills, sessions>>, reply' = [e \in Desks |-> reply'[e]],
             \A e \in Desks : reply'[e] # Idle => reply'[e] = reply[e]
      PROVE  FeedbackInv'
  <2>1. RepliesFit' /\ Alone' = Alone
    BY <1>1, RepliesStay
  <2>2. CountedOnce' = CountedOnce /\ TurnsEarned' = TurnsEarned /\ DrillsEarned' = DrillsEarned
    BY <1>1 DEF CountedOnce, TurnsEarned, DrillsEarned
  <2> QED BY <1>1, <2>1, <2>2 DEF FeedbackInv, RepliesFit
<1>2. ASSUME NEW d \in Desks, NEW i \in DOMAIN forms, Fill(d, i) PROVE FeedbackInv'
  <2>1. PICK w : w = [kind |-> "fill", row |-> i, seen |-> edition]
    OBVIOUS
  <2>2. Respond(d, w) /\ forms[i].status = "pending"
    BY <1>2, <2>1 DEF Fill
  <2>3. ReplyGood(w) /\ ReplyFresh(w)
    BY <2>1, <2>2 DEF ReplyGood, ReplyFresh
  <2> QED BY <2>2, <2>3, RespondKeeps
<1>3. ASSUME NEW d \in Desks, NEW s \in DOMAIN sessions, Chat(d, s) \/ Evaluate(d, s)
      PROVE  FeedbackInv'
  <2>1. sessions[s].turns \in Nat
    <3>1. sessions[s] \in SessionRec
      BY RowsShape DEF FeedbackInv
    <3> QED BY <3>1 DEF SessionRec
  <2>2. PICK w : /\ Respond(d, w) /\ w.kind \in {"chat", "evaluate"} /\ w.row = s
                 /\ w.seen = sessions[s].turns
                 /\ w.kind = "evaluate" => sessions[s].turns >= Enough
    <3>1. CASE Chat(d, s)
      <4>1. PICK w : w = [kind |-> "chat", row |-> s, seen |-> sessions[s].turns]
        OBVIOUS
      <4> QED BY <3>1, <4>1 DEF Chat
    <3>2. CASE Evaluate(d, s)
      <4>1. PICK w : w = [kind |-> "evaluate", row |-> s, seen |-> sessions[s].turns]
        OBVIOUS
      <4> QED BY <3>2, <4>1 DEF Evaluate
    <3> QED BY <1>3, <3>1, <3>2
  <2>3. ReplyGood(w) /\ ReplyFresh(w)
    BY <2>1, <2>2 DEF ReplyGood, ReplyFresh
  <2> QED BY <2>2, <2>3, RespondKeeps
<1>4. ASSUME NEW d \in Desks, GiveUp(d) PROVE FeedbackInv'
  <2>1. reply' = [reply EXCEPT ![d] = Idle] /\ UNCHANGED <<staffed, forms, drills, sessions>>
    BY <1>4 DEF GiveUp
  <2>2. /\ reply' = [e \in Desks |-> reply'[e]]
        /\ \A e \in Desks : reply'[e] # Idle => reply'[e] = reply[e]
    BY <2>1 DEF FeedbackInv
  <2> QED BY <1>1, <2>1, <2>2
<1>5. CASE UNCHANGED feedbackVars
  BY <1>1, <1>5 DEF feedbackVars, FeedbackInv
<1> QED BY <1>2, <1>3, <1>4, <1>5, LaunchKeeps, CycleKeeps, TemplateKeeps, AssignKeeps,
           SessionKeeps, FillKeeps, ChatKeeps, EvaluationKeeps DEF FeedbackNext

(* A completed drill has a completed session however submissions overlap;   *)
(* one request at a time, answers count once and no session is evaluated    *)
(* before its turns.                                                       *)
THEOREM CompletedEarned == FeedbackSpec => []CompletedIsEarned
<1>1. FeedbackInit => FeedbackInv
  <2> SUFFICES ASSUME FeedbackInit PROVE FeedbackInv
    OBVIOUS
  <2>1. /\ forms \in Seq(FormRec) /\ drills \in Seq(DrillStates) /\ sessions \in Seq(SessionRec)
        /\ DOMAIN forms = {} /\ DOMAIN drills = {} /\ DOMAIN sessions = {}
    BY DEF FeedbackInit
  <2> QED BY <2>1 DEF FeedbackInit, FeedbackInv, StaffedInit, DrillsEarned, TurnsEarned, CountedOnce
<1>2. FeedbackInv => CompletedIsEarned
  BY DEF FeedbackInv, CompletedIsEarned, DrillsEarned, TurnsEarned
<1> QED BY <1>1, <1>2, FeedbackStep, PTL DEF FeedbackSpec

-------------------------------------------------------------------------------
(* Attendance *)

Directions == {"in", "out"}

\* The minutes that punches up to t have made work, one by one.
WorkedBy(log, t) ==
  {m \in Times :
     /\ \E i \in When(log, "in") : i <= m /\ \A o \in When(log, "out") : ~(i < o /\ o <= m)
     /\ \E o \in When(log, "out") : m < o /\ o <= t}

\* The earliest in that no out has answered by t.
Awaits(log, in, t) ==
  IF in = Unset
  THEN \A i \in When(log, "in") : i <= t => \E o \in When(log, "out") : i < o /\ o <= t
  ELSE /\ in \in When(log, "in") /\ in <= t
       /\ \A o \in When(log, "out") : ~(in < o /\ o <= t)
       /\ \A i \in When(log, "in") :
             i < in => \E o \in When(log, "out") : i < o /\ o <= t

ClockRec == [in : Nat, worked : Nat]

ClockGood(log, c, t) ==
  c \in ClockRec /\ c.worked = Cardinality(WorkedBy(log, t)) /\ Awaits(log, c.in, t)

IsLog(log) == log \in [DOMAIN log -> Directions] /\ DOMAIN log \subseteq Times

LEMMA WorkedIsFinite ==
  ASSUME NEW log, NEW t
  PROVE  IsFiniteSet(WorkedBy(log, t))
<1>1. LastTime \in Nat /\ \A n \in Nat : IsFiniteSet(1 .. n)
  BY AttendanceAssumption, FS_Interval
<1>2. IsFiniteSet(Times) /\ WorkedBy(log, t) \subseteq Times
  BY <1>1 DEF Times, WorkedBy
<1> QED BY <1>2, FS_Subset

(* An in after another in, a time without a punch, an out without an in:    *)
(* no minute more or less.  An out answers the earliest open in, and all    *)
(* minutes between them are worked, none of which was before.               *)
LEMMA TickCounts ==
  ASSUME NEW log, IsLog(log), NEW t \in 1 .. LastTime, NEW c, ClockGood(log, c, t - 1)
  PROVE  ClockGood(log, Ticked(log, c, t), t)
<1>1. /\ LastTime \in Nat /\ t \in Nat /\ t >= 1 /\ t <= LastTime /\ Unset = 0
      /\ Times = 1 .. LastTime /\ t \in Times
  BY AttendanceAssumption DEF Times, Unset
<1>2. /\ \A i \in When(log, "in") : i \in Nat /\ i >= 1 /\ i \in DOMAIN log /\ log[i] = "in"
      /\ \A o \in When(log, "out") : o \in Nat /\ o >= 1 /\ o \in DOMAIN log /\ log[o] = "out"
      /\ \A u \in DOMAIN log : log[u] = "in" \/ log[u] = "out"
  BY <1>1 DEF When, IsLog, Directions
<1>3. c.in \in Nat /\ c.worked \in Nat /\ c = [in |-> c.in, worked |-> c.worked]
  BY DEF ClockGood, ClockRec
<1>4. /\ c.worked = Cardinality(WorkedBy(log, t - 1)) /\ Awaits(log, c.in, t - 1)
  BY DEF ClockGood
<1>5. ASSUME t \notin When(log, "out")
      PROVE  /\ WorkedBy(log, t) = WorkedBy(log, t - 1)
             /\ \A i \in Nat : /\ (\E o \in When(log, "out") : i < o /\ o <= t)
                                     <=> (\E o \in When(log, "out") : i < o /\ o <= t - 1)
  <2>1. \A o \in When(log, "out") : o <= t <=> o <= t - 1
    BY <1>1, <1>2, <1>5
  <2> QED BY <2>1 DEF WorkedBy
<1>6. CASE t \notin DOMAIN log
  <2>1. t \notin When(log, "out") /\ t \notin When(log, "in")
    BY <1>6 DEF When
  <2>2. Ticked(log, c, t) = c
    BY <1>6 DEF Ticked
  <2>3. \A i \in When(log, "in") : i <= t <=> i <= t - 1
    BY <1>1, <1>2, <2>1
  <2>4. \A i \in Nat : /\ (\E o \in When(log, "out") : i < o /\ o <= t)
                             <=> (\E o \in When(log, "out") : i < o /\ o <= t - 1)
    BY <1>5, <2>1
  <2>5. Awaits(log, c.in, t)
    BY <1>1, <1>2, <1>3, <1>4, <2>3, <2>4 DEF Awaits
  <2> QED BY <1>3, <1>4, <1>5, <2>1, <2>2, <2>5 DEF ClockGood, ClockRec
<1>7. CASE t \in DOMAIN log /\ log[t] = "in"
  <2>1. t \in When(log, "in") /\ t \notin When(log, "out")
    BY <1>2, <1>7 DEF When
  <2>2. PICK n : n = IF c.in = Unset THEN t ELSE c.in
    OBVIOUS
  <2>3. Ticked(log, c, t) = [in |-> n, worked |-> c.worked]
    BY <1>3, <1>7, <2>2 DEF Ticked
  <2>4. \A i \in Nat : /\ (\E o \in When(log, "out") : i < o /\ o <= t)
                             <=> (\E o \in When(log, "out") : i < o /\ o <= t - 1)
    BY <1>5, <2>1
  <2>5. n \in Nat /\ n # Unset
    BY <1>1, <1>3, <2>2
  <2>6. CASE c.in = Unset
    <3>1. n = t
      BY <2>2, <2>6
    <3>2. \A o \in When(log, "out") : ~(t < o /\ o <= t)
      BY <1>1, <1>2
    <3>3. \A i \in When(log, "in") : i < t => \E o \in When(log, "out") : i < o /\ o <= t
      <4>1. \A i \in When(log, "in") : i < t => i <= t - 1
        BY <1>1, <1>2
      <4> QED BY <1>2, <1>4, <2>4, <2>6, <4>1 DEF Awaits
    <3>4. Awaits(log, n, t)
      BY <1>1, <2>1, <2>5, <3>1, <3>2, <3>3 DEF Awaits
    <3> QED BY <1>3, <1>4, <1>5, <2>1, <2>3, <2>5, <3>4 DEF ClockGood, ClockRec
  <2>7. CASE c.in # Unset
    <3>1. n = c.in
      BY <2>2, <2>7
    <3>2. /\ n \in When(log, "in") /\ n <= t
          /\ \A o \in When(log, "out") : ~(n < o /\ o <= t)
      <4>1. /\ n \in When(log, "in") /\ n <= t - 1
            /\ \A o \in When(log, "out") : ~(n < o /\ o <= t - 1)
        BY <1>4, <2>7, <3>1 DEF Awaits
      <4>2. n <= t
        BY <1>1, <2>5, <4>1
      <4>3. \A o \in When(log, "out") : o <= t => o <= t - 1
        BY <1>1, <1>2, <2>1
      <4> QED BY <4>1, <4>2, <4>3
    <3>3. \A i \in When(log, "in") : i < n => \E o \in When(log, "out") : i < o /\ o <= t
      BY <1>2, <1>4, <2>4, <2>7, <3>1 DEF Awaits
    <3>4. Awaits(log, n, t)
      BY <2>5, <3>2, <3>3 DEF Awaits
    <3> QED BY <1>3, <1>4, <1>5, <2>1, <2>3, <2>5, <3>4 DEF ClockGood, ClockRec
  <2> QED BY <2>6, <2>7
<1>8. CASE t \in DOMAIN log /\ log[t] = "out"
  <2>1. t \in When(log, "out") /\ t \notin When(log, "in")
    BY <1>2, <1>8 DEF When
  <2>2. Awaits(log, Unset, t)
    <3>1. \A i \in When(log, "in") : i <= t => i < t
      BY <1>1, <1>2, <2>1
    <3> QED BY <1>1, <2>1, <3>1 DEF Awaits
  <2>3. \A o \in When(log, "out") : o <= t => o <= t - 1 \/ o = t
    BY <1>1, <1>2
  <2>4. WorkedBy(log, t - 1) \subseteq WorkedBy(log, t)
    BY <1>1, <1>2 DEF WorkedBy
  <2>5. ASSUME NEW m \in WorkedBy(log, t), m \notin WorkedBy(log, t - 1)
        PROVE  /\ m \in Nat /\ m < t
               /\ \E i \in When(log, "in") :
                     i <= m /\ \A o \in When(log, "out") : ~(i < o /\ o <= t - 1)
    <3>1. m \in Nat
      BY <1>1 DEF WorkedBy
    <3>2. PICK i \in When(log, "in") : i <= m /\ \A o \in When(log, "out") : ~(i < o /\ o <= m)
      BY DEF WorkedBy
    <3>3. \A o \in When(log, "out") : ~(m < o /\ o <= t - 1)
      BY <2>5, <3>2 DEF WorkedBy
    <3>4. m < t
      BY <1>2, <2>3, <2>5, <3>1, <3>3 DEF WorkedBy
    <3>5. \A o \in When(log, "out") : ~(i < o /\ o <= t - 1)
      BY <1>1, <1>2, <3>1, <3>2, <3>3
    <3> QED BY <3>1, <3>2, <3>4, <3>5
  <2>6. CASE c.in = Unset
    <3>1. Ticked(log, c, t) = c
      BY <1>8, <2>6 DEF Ticked
    <3>2. WorkedBy(log, t) = WorkedBy(log, t - 1)
      <4> SUFFICES ASSUME NEW m \in WorkedBy(log, t), m \notin WorkedBy(log, t - 1) PROVE FALSE
        BY <2>4
      <4>1. m \in Nat /\ m < t
        BY <2>5
      <4>2. PICK i \in When(log, "in") :
              i <= m /\ \A o \in When(log, "out") : ~(i < o /\ o <= t - 1)
        BY <2>5
      <4>3. i <= t - 1
        BY <1>1, <1>2, <4>1, <4>2
      <4> QED BY <1>4, <2>6, <4>2, <4>3 DEF Awaits
    <3> QED BY <1>3, <1>4, <2>2, <2>6, <3>1, <3>2 DEF ClockGood, ClockRec
  <2>7. CASE c.in # Unset
    <3>1. PICK n : n = c.in
      OBVIOUS
    <3>2. /\ n \in Nat /\ n # 0 /\ n \in When(log, "in") /\ n <= t - 1
          /\ \A o \in When(log, "out") : ~(n < o /\ o <= t - 1)
          /\ \A i \in When(log, "in") : i < n => \E o \in When(log, "out") : i < o /\ o <= t - 1
      BY <1>1, <1>3, <1>4, <2>7, <3>1 DEF Awaits
    <3>3. Ticked(log, c, t) = [in |-> Unset, worked |-> c.worked + (t - n)]
      BY <1>8, <2>7, <3>1 DEF Ticked
    <3>4. n .. (t - 1) \subseteq WorkedBy(log, t)
      <4> SUFFICES ASSUME NEW m \in n .. (t - 1) PROVE m \in WorkedBy(log, t)
        OBVIOUS
      <4>1. m \in Times /\ n <= m /\ m < t /\ m \in Nat
        BY <1>1, <3>2
      <4>2. \A o \in When(log, "out") : ~(n < o /\ o <= m)
        BY <1>1, <1>2, <3>2, <4>1
      <4> QED BY <1>1, <2>1, <3>2, <4>1, <4>2 DEF WorkedBy
    <3>5. WorkedBy(log, t) = WorkedBy(log, t - 1) \cup n .. (t - 1)
      <4> SUFFICES ASSUME NEW m \in WorkedBy(log, t), m \notin WorkedBy(log, t - 1)
                   PROVE  m \in n .. (t - 1)
        BY <2>4, <3>4
      <4>1. m \in Nat /\ m < t
        BY <2>5
      <4>2. PICK i \in When(log, "in") :
              i <= m /\ \A o \in When(log, "out") : ~(i < o /\ o <= t - 1)
        BY <2>5
      <4>3. ~(i < n)
        BY <3>2, <4>2
      <4> QED BY <1>1, <1>2, <3>2, <4>1, <4>2, <4>3
    <3>6. WorkedBy(log, t - 1) \cap n .. (t - 1) = {}
      <4> SUFFICES ASSUME NEW m \in WorkedBy(log, t - 1), m \in n .. (t - 1) PROVE FALSE
        OBVIOUS
      <4>1. PICK o \in When(log, "out") : m < o /\ o <= t - 1
        BY DEF WorkedBy
      <4>2. n < o
        BY <1>1, <1>2, <3>2, <4>1
      <4> QED BY <3>2, <4>1, <4>2
    <3>7. IsFiniteSet(n .. (t - 1)) /\ Cardinality(n .. (t - 1)) = t - n
      <4>1. \A a, b \in Nat : a <= b => IsFiniteSet(a .. b) /\ Cardinality(a .. b) = b - a + 1
        BY FS_Interval
      <4>2. t - 1 \in Nat /\ (t - 1) - n + 1 = t - n
        BY <1>1, <3>2
      <4> QED BY <3>2, <4>1, <4>2
    <3>8. Cardinality(WorkedBy(log, t)) = c.worked + (t - n)
      <4>1. PICK A : A = WorkedBy(log, t - 1)
        OBVIOUS
      <4>2. PICK B : B = n .. (t - 1)
        OBVIOUS
      <4>3. IsFiniteSet(A) /\ IsFiniteSet(B) /\ A \cap B = {} /\ WorkedBy(log, t) = A \cup B
        BY <3>5, <3>6, <3>7, <4>1, <4>2, WorkedIsFinite
      <4>4. Cardinality(A \cup B) = Cardinality(A) + Cardinality(B) - Cardinality({})
        BY <4>3, FS_Union
      <4>5. Cardinality({}) = 0
        BY FS_EmptySet
      <4>6. Cardinality(A) = c.worked /\ Cardinality(B) = t - n
        BY <1>4, <3>7, <4>1, <4>2
      <4> QED BY <1>1, <1>3, <3>2, <4>3, <4>4, <4>5, <4>6
    <3>9. c.worked + (t - n) \in Nat /\ 0 \in Nat
      BY <1>1, <1>3, <3>2
    <3>10. PICK k : k = c.worked + (t - n)
      OBVIOUS
    <3> QED BY <1>1, <2>2, <3>3, <3>8, <3>9, <3>10 DEF ClockGood, ClockRec
  <2> QED BY <2>6, <2>7
<1> QED BY <1>2, <1>6, <1>7, <1>8

(* The loop over the punches of a day counts each minute of it that was      *)
(* worked, once.                                                           *)
LEMMA ClockAddsUp ==
  ASSUME NEW log, IsLog(log)
  PROVE  Clock(log).worked = Worked(log)
<1> DEFINE n == LastTime
           base == [in |-> Unset, worked |-> 0]
           W == [in : Nat, worked : Int]
           F == [p \in (1 .. n) \X W |-> Ticked(log, p[2], p[1])]
           Runs(g) == g = [t \in 0 .. n |-> IF t = 0 THEN base ELSE Ticked(log, g[t - 1], t)]
<1>1. n \in Nat /\ Unset = 0 /\ Times = 1 .. n
  BY AttendanceAssumption DEF Unset, Times
<1>2. base \in W /\ ClockGood(log, base, 0)
  <2>1. \A i \in When(log, "in") : i \in Nat /\ ~(i <= 0)
    BY <1>1 DEF When, IsLog
  <2>2. \A o \in When(log, "out") : o \in Nat /\ ~(o <= 0)
    BY <1>1 DEF When, IsLog
  <2>3. WorkedBy(log, 0) = {}
    BY <2>2 DEF WorkedBy
  <2>4. Awaits(log, Unset, 0)
    BY <2>1 DEF Awaits
  <2>5. base.in = Unset /\ base.worked = 0 /\ base \in ClockRec /\ base \in W
    BY <1>1 DEF ClockRec
  <2> QED BY <2>3, <2>4, <2>5, FS_EmptySet DEF ClockGood
<1>3. \A t \in 1 .. n, c \in W : F[<<t, c>>] = Ticked(log, c, t) /\ F[<<t, c>>] \in W
  <2> SUFFICES ASSUME NEW t \in 1 .. n, NEW c \in W PROVE Ticked(log, c, t) \in W
    OBVIOUS
  <2>1. t \in Nat /\ c.in \in Nat /\ c.worked \in Int /\ c.worked + (t - c.in) \in Int
    BY <1>1
  <2>2. PICK k : k = IF c.in = Unset THEN t ELSE c.in
    OBVIOUS
  <2>3. k \in Nat
    BY <2>1, <2>2
  <2>4. [c EXCEPT !.in = IF @ = Unset THEN t ELSE @] = [c EXCEPT !.in = k]
    BY <2>2
  <2>5. [c EXCEPT !.in = k] \in W
    BY <2>3
  <2>6. [in |-> Unset, worked |-> c.worked + (t - c.in)] \in W
    BY <1>1, <2>1
  <2> QED BY <2>4, <2>5, <2>6 DEF Ticked
<1> HIDE DEF F, W, n, base
<1>4. PICK f : Loop(f, n, base, F)
  BY <1>1, <1>2, <1>3, LoopExists
<1>5. \A t \in 0 .. n : f[t] \in W
  <2>1. f[0] \in W /\ \A t \in 1 .. n : f[t - 1] \in W => f[t] \in W
    BY <1>2, <1>3, <1>4 DEF Loop
  <2> QED BY <1>1, <2>1, LoopKeeps
<1>6. Runs(f)
  <2>1. \A t \in 0 .. n : f[t] = IF t = 0 THEN base ELSE Ticked(log, f[t - 1], t)
    <3> TAKE t \in 0 .. n
    <3>1. t # 0 => t \in 1 .. n /\ t - 1 \in 0 .. n
      BY <1>1
    <3> QED BY <1>3, <1>4, <1>5, <3>1 DEF Loop
  <2>2. f = [t \in 0 .. n |-> f[t]]
    BY <1>4 DEF Loop
  <2> QED BY <2>1, <2>2
<1>7. PICK g : Runs(g) /\ Clock(log) = g[n]
  BY <1>6 DEF Clock, n, base
<1>8. g[0] = base /\ \A t \in 1 .. n : g[t] = Ticked(log, g[t - 1], t)
  <2>1. \A t \in 0 .. n : g[t] = IF t = 0 THEN base ELSE Ticked(log, g[t - 1], t)
    BY <1>7
  <2>2. 0 \in 0 .. n /\ \A t \in 1 .. n : t \in 0 .. n /\ t # 0
    BY <1>1
  <2> QED BY <2>1, <2>2
<1> HIDE DEF Runs
<1> DEFINE V == {p \in (0 .. n) \X ClockRec : ClockGood(log, p[2], p[1])}
           h == [t \in 0 .. n |-> <<t, g[t]>>]
<1>9. h[0] \in V
  BY <1>1, <1>2, <1>8 DEF ClockGood
<1>10. ASSUME NEW t \in 1 .. n, h[t - 1] \in V
       PROVE  h[t] \in V
  <2>1. t - 1 \in 0 .. n /\ t \in 0 .. n /\ t \in 1 .. LastTime
    BY <1>1 DEF n
  <2>2. ClockGood(log, g[t - 1], t - 1)
    BY <1>10, <2>1
  <2>3. ClockGood(log, g[t], t)
    BY <1>8, <2>1, <2>2, TickCounts
  <2> QED BY <2>1, <2>3 DEF ClockGood
<1>11. h[n] \in V
  <2> HIDE DEF V, h
  <2>1. \A t \in 0 .. n : h[t] \in V
    BY <1>1, <1>9, <1>10, LoopKeeps
  <2> QED BY <1>1, <2>1
<1>12. Clock(log).worked = Cardinality(WorkedBy(log, n))
  BY <1>1, <1>7, <1>11 DEF ClockGood
<1>13. WorkedBy(log, n) = {m \in Times :
         /\ \E i \in When(log, "in") : i <= m /\ \A o \in When(log, "out") : ~(i < o /\ o <= m)
         /\ \E o \in When(log, "out") : m < o}
  <2>1. \A o \in When(log, "out") : o <= n
    BY <1>1 DEF When, IsLog
  <2> QED BY <2>1 DEF WorkedBy
<1> QED BY <1>12, <1>13 DEF Worked

(* What a request is about to store, if the day is still the one it loaded:  *)
(* a punch with the sums over the log it completes, or another source.      *)
SumsUp(row, log) ==
  /\ row.minutes = Clock(log).worked
  /\ row.first = FirstOf(When(log, "in")) /\ row.last = LastOf(When(log, "out"))

DayShaped(row) ==
  row = [opened |-> row.opened, status |-> row.status, source |-> row.source, first |-> row.first,
         last |-> row.last, minutes |-> row.minutes, late |-> row.late, rev |-> row.rev,
         lone |-> row.lone]

RequestGood(w) ==
  /\ w.was.rev \in Nat /\ w.was.rev <= day.rev
  /\ w.was.rev = day.rev => w.was = day
  /\ IsLog(w.punch)
  /\ \/ /\ TouchesDay(w) /\ w.now.source = "web"
        /\ w.was.rev = day.rev => SumsUp(w.now, Joined(w.punch, punches))
     \/ TouchesDay(w) /\ w.now.source # "web" /\ DOMAIN w.punch = {}
     \/ ~TouchesDay(w) /\ DOMAIN w.punch = {}

DaySumsUp ==
  (day.opened /\ day.source = "web" /\ day.lone) => SumsUp(day, punches)

AttendanceInv ==
  /\ IsLog(punches) /\ DayShaped(day) /\ day.rev \in Nat
  /\ clerk = [d \in Desks |-> clerk[d]]
  /\ \A d \in Desks : clerk[d] # Idle => RequestGood(clerk[d])
  /\ DaySumsUp

(* A request that is served loads the day and leaves the tables alone.       *)
LEMMA ServeKeeps ==
  ASSUME AttendanceInv, NEW d \in Desks, NEW w, Serve(d, w), RequestGood(w)
  PROVE  AttendanceInv'
<1>1. /\ clerk' = [clerk EXCEPT ![d] = w] /\ punches' = punches /\ day' = day
  BY DEF Serve
<1>2. \A v : RequestGood(v) <=> RequestGood(v)'
  BY <1>1 DEF RequestGood, TouchesDay
<1>3. /\ clerk' = [e \in Desks |-> clerk'[e]] /\ clerk'[d] = w
      /\ \A e \in Desks \ {d} : clerk'[e] = clerk[e]
  BY <1>1 DEF AttendanceInv
<1>4. \A e \in Desks : clerk'[e] # Idle => RequestGood(clerk[e])'
  BY <1>2, <1>3 DEF AttendanceInv
<1> QED BY <1>1, <1>3, <1>4 DEF AttendanceInv, DaySumsUp

LEMMA LoadedShape ==
  Loaded = [was |-> day, now |-> day, punch |-> <<>>, file |-> <<>>, request |-> 0,
            verdict |-> "none"]
  BY DEF Loaded

LEMMA NoPunch == IsLog(<<>>) /\ DOMAIN <<>> = {}
  BY DEF IsLog

LEMMA JoinedLog ==
  ASSUME NEW new, NEW log, IsLog(new), IsLog(log)
  PROVE  /\ IsLog(Joined(new, log))
         /\ DOMAIN new = {} => Joined(new, log) = log
<1>1. PICK j : j = Joined(new, log)
  OBVIOUS
<1>2. /\ j = [t \in DOMAIN new \cup DOMAIN log |-> IF t \in DOMAIN new THEN new[t] ELSE log[t]]
      /\ DOMAIN j = DOMAIN new \cup DOMAIN log
  BY <1>1 DEF Joined
<1>3. \A t \in DOMAIN j : j[t] \in Directions
  BY <1>2 DEF IsLog
<1>4. IsLog(j)
  BY <1>2, <1>3 DEF IsLog
<1>5. ASSUME DOMAIN new = {} PROVE j = log
  <2>1. log = [t \in DOMAIN log |-> log[t]]
    BY DEF IsLog
  <2> QED BY <1>2, <1>5, <2>1
<1> QED BY <1>1, <1>4, <1>5

LEMMA PunchKeeps ==
  ASSUME AttendanceInv, NEW d \in Desks, NEW direction \in {"in", "out"}, NEW t \in Times,
         Punch(d, direction, t)
  PROVE  AttendanceInv'
<1>1. PICK new : new = [u \in {t} |-> direction]
  OBVIOUS
<1>2. PICK log : log = Joined(new, punches)
  OBVIOUS
<1>3. PICK row : row = Recompute([day EXCEPT !.source = "web"], log)
  OBVIOUS
<1>4. PICK w : w = [Loaded EXCEPT !.punch = new, !.now = row]
  OBVIOUS
<1>5. Serve(d, w)
  BY <1>1, <1>2, <1>3, <1>4 DEF Punch
<1>6. IsLog(new)
  BY <1>1 DEF IsLog, Directions
<1>7. row.source = "web" /\ SumsUp(row, log)
  <2>1. PICK r : r = [day EXCEPT !.source = "web"]
    OBVIOUS
  <2>2. DayShaped(r) /\ r.source = "web"
    BY <2>1 DEF AttendanceInv, DayShaped
  <2>3. PICK first : first = FirstOf(When(log, "in"))
    OBVIOUS
  <2>4. PICK last : last = LastOf(When(log, "out"))
    OBVIOUS
  <2>5. PICK minutes : minutes = Clock(log).worked
    OBVIOUS
  <2>6. PICK summed : summed = [r EXCEPT !.first = first, !.last = last, !.minutes = minutes]
    OBVIOUS
  <2>7. /\ DayShaped(summed) /\ summed.source = "web" /\ summed.first = first
        /\ summed.last = last /\ summed.minutes = minutes
    BY <2>2, <2>6 DEF DayShaped
  <2>8. PICK late : late = AtLeast0(first - Shift.starts)
    OBVIOUS
  <2>9. PICK status : status = ShiftStatus(minutes, last)
    OBVIOUS
  <2>10. row = IF first = Unset THEN summed ELSE [summed EXCEPT !.late = late, !.status = status]
    BY <1>3, <2>1, <2>3, <2>4, <2>5, <2>6, <2>8, <2>9 DEF Recompute
  <2>11. row.source = "web" /\ row.first = first /\ row.last = last /\ row.minutes = minutes
    BY <2>7, <2>10 DEF DayShaped
  <2> QED BY <2>3, <2>4, <2>5, <2>11 DEF SumsUp
<1>8. /\ w.was = day /\ w.now = row /\ w.punch = new /\ w.file = <<>> /\ w.verdict = "none"
  BY <1>4, LoadedShape
<1>9. TouchesDay(w)
  BY <1>8 DEF TouchesDay
<1>10. day.rev \in Nat /\ day.rev <= day.rev
  BY DEF AttendanceInv
<1>11. RequestGood(w)
  BY <1>2, <1>6, <1>7, <1>8, <1>9, <1>10 DEF RequestGood
<1> QED BY <1>5, <1>11, ServeKeeps

(* HR's mark, and a correction that is filed, approved or rejected.          *)
LEMMA CorrectKeeps ==
  ASSUME AttendanceInv, NEW d \in Desks,
         \/ \E mark \in Marks : MarkDay(d, mark) \/ RequestRegularization(d, mark)
         \/ \E r \in DOMAIN asked, v \in {"approved", "rejected"} : DecideRegularization(d, r, v)
  PROVE  AttendanceInv'
<1>1. day.rev \in Nat /\ day.rev <= day.rev /\ DayShaped(day)
  BY DEF AttendanceInv
<1>2. ASSUME NEW mark, NEW source
      PROVE  MarkedRow(day, mark, source).source = source
  <2>1. PICK first : first = IF mark.first = Unset THEN day.first ELSE mark.first
    OBVIOUS
  <2>2. PICK last : last = IF mark.last = Unset THEN day.last ELSE mark.last
    OBVIOUS
  <2>3. PICK minutes : minutes = IF first # Unset /\ last # Unset
                                 THEN AtLeast0(last - first) ELSE day.minutes
    OBVIOUS
  <2>4. MarkedRow(day, mark, source) =
          [day EXCEPT !.status = mark.status, !.source = source, !.first = first, !.last = last,
                      !.minutes = minutes]
    BY <2>1, <2>2, <2>3 DEF MarkedRow
  <2> QED BY <1>1, <2>4 DEF DayShaped
<1>3. ASSUME NEW mark \in Marks, MarkDay(d, mark) PROVE AttendanceInv'
  <2>1. PICK row : row = MarkedRow(day, mark, "manual")
    OBVIOUS
  <2>2. PICK w : w = [Loaded EXCEPT !.now = row]
    OBVIOUS
  <2>3. w.was = day /\ w.now = row /\ w.punch = <<>> /\ w.file = <<>> /\ w.verdict = "none"
    BY <2>2, LoadedShape
  <2>4. RequestGood(w)
    BY <1>1, <1>2, <2>1, <2>3, NoPunch DEF RequestGood, TouchesDay
  <2> QED BY <1>3, <2>1, <2>2, <2>4, ServeKeeps DEF MarkDay
<1>4. ASSUME NEW mark \in Marks, RequestRegularization(d, mark) PROVE AttendanceInv'
  <2>1. PICK row : row = [status |-> "pending", mark |-> mark]
    OBVIOUS
  <2>2. PICK w : w = [Loaded EXCEPT !.file = <<row>>]
    OBVIOUS
  <2>3. w.was = day /\ w.punch = <<>> /\ w.file = <<row>>
    BY <2>2, LoadedShape
  <2>4. <<row>> # <<>>
    OBVIOUS
  <2>5. RequestGood(w)
    BY <1>1, <2>3, <2>4, NoPunch DEF RequestGood, TouchesDay
  <2> QED BY <1>4, <2>1, <2>2, <2>5, ServeKeeps DEF RequestRegularization
<1>5. ASSUME NEW r \in DOMAIN asked, NEW v \in {"approved", "rejected"},
             DecideRegularization(d, r, v)
      PROVE  AttendanceInv'
  <2>1. PICK row : row = IF v = "approved" THEN MarkedRow(day, asked[r].mark, "regularization")
                         ELSE day
    OBVIOUS
  <2>2. PICK w : w = [Loaded EXCEPT !.request = r, !.verdict = v, !.now = row]
    OBVIOUS
  <2>3. w.was = day /\ w.now = row /\ w.punch = <<>> /\ w.file = <<>> /\ w.verdict = v
    BY <2>2, LoadedShape
  <2>4. v = "approved" => row.source = "regularization"
    BY <1>2, <2>1
  <2>5. RequestGood(w)
    BY <1>1, <2>3, <2>4, NoPunch DEF RequestGood, TouchesDay
  <2> QED BY <1>5, <2>1, <2>2, <2>5, ServeKeeps DEF DecideRegularization
<1> QED BY <1>3, <1>4, <1>5

(* What a commit stores: if no other came between, what the request made.   *)
LEMMA DayCommitKeeps ==
  ASSUME AttendanceInv, NEW d \in Desks, DayCommit(d)
  PROVE  AttendanceInv'
<1>1. PICK w : w = clerk[d]
  OBVIOUS
<1>2. /\ w # Idle /\ clerk' = [clerk EXCEPT ![d] = Idle] /\ punches' = Joined(w.punch, punches)
      /\ day' = IF TouchesDay(w) THEN StoredDay(w) ELSE day
  BY <1>1 DEF DayCommit
<1>3. RequestGood(w) /\ IsLog(punches) /\ DayShaped(day) /\ day.rev \in Nat
  BY <1>1, <1>2 DEF AttendanceInv
<1>4. IsLog(punches') /\ (DOMAIN w.punch = {} => punches' = punches)
  BY <1>2, <1>3, JoinedLog DEF RequestGood
<1>5. /\ clerk' = [e \in Desks |-> clerk'[e]] /\ clerk'[d] = Idle
      /\ \A e \in Desks \ {d} : clerk'[e] = clerk[e]
  BY <1>2 DEF AttendanceInv
<1>6. CASE ~TouchesDay(w)
  <2>1. day' = day /\ punches' = punches
    <3>1. DOMAIN w.punch = {}
      BY <1>3, <1>6 DEF RequestGood
    <3> QED BY <1>2, <1>4, <1>6, <3>1
  <2>2. \A v : RequestGood(v) <=> RequestGood(v)'
    BY <2>1 DEF RequestGood, TouchesDay
  <2>3. \A e \in Desks : clerk'[e] # Idle => RequestGood(clerk[e])'
    BY <1>5, <2>2 DEF AttendanceInv
  <2> QED BY <1>5, <2>1, <2>3 DEF AttendanceInv, DaySumsUp
<1>7. CASE TouchesDay(w)
  <2>1. PICK s : s = StoredDay(w)
    OBVIOUS
  <2>2. day' = s
    BY <1>2, <1>7, <2>1
  <2>3. /\ DayShaped(s) /\ s.rev = day.rev + 1 /\ (s.lone <=> day.rev = w.was.rev)
        /\ s.source = Column(day.source, w.was.source, w.now.source)
        /\ s.first = Column(day.first, w.was.first, w.now.first)
        /\ s.last = Column(day.last, w.was.last, w.now.last)
        /\ s.minutes = Column(day.minutes, w.was.minutes, w.now.minutes)
    BY <2>1 DEF StoredDay, DayShaped
  <2>4. ASSUME s.lone
        PROVE  /\ s.source = w.now.source /\ s.first = w.now.first /\ s.last = w.now.last
               /\ s.minutes = w.now.minutes /\ w.was.rev = day.rev
    <3>1. w.was.rev = day.rev /\ w.was = day
      BY <1>3, <2>3, <2>4 DEF RequestGood
    <3> QED BY <2>3, <3>1 DEF Column
  <2>5. (s.lone /\ s.source = "web") => SumsUp(s, punches')
    <3> SUFFICES ASSUME s.lone, s.source = "web" PROVE SumsUp(s, punches')
      OBVIOUS
    <3>1. SumsUp(w.now, Joined(w.punch, punches))
      BY <1>3, <1>7, <2>4 DEF RequestGood
    <3> QED BY <1>2, <2>4, <3>1 DEF SumsUp
  <2>6. DaySumsUp'
    <3>1. SumsUp(s, punches') <=> SumsUp(day, punches)'
      BY <2>2 DEF SumsUp
    <3> QED BY <2>2, <2>5, <3>1 DEF DaySumsUp
  <2>7. ASSUME NEW v, RequestGood(v) PROVE RequestGood(v)'
    <3>1. v.was.rev \in Nat /\ v.was.rev <= day.rev /\ day'.rev = day.rev + 1 /\ day.rev \in Nat
      BY <1>3, <2>2, <2>3, <2>7 DEF RequestGood
    <3>2. v.was.rev <= day'.rev /\ v.was.rev # day'.rev
      BY <3>1
    <3> QED BY <2>7, <3>1, <3>2 DEF RequestGood, TouchesDay
  <2>8. \A e \in Desks : clerk'[e] # Idle => RequestGood(clerk[e])'
    BY <1>5, <2>7 DEF AttendanceInv
  <2>9. day'.rev \in Nat /\ DayShaped(day')
    BY <1>3, <2>2, <2>3
  <2> QED BY <1>4, <1>5, <2>6, <2>8, <2>9 DEF AttendanceInv, DayShaped, IsLog
<1> QED BY <1>6, <1>7

LEMMA AttendanceStarts == AttendanceInit => AttendanceInv
<1> SUFFICES ASSUME AttendanceInit PROVE AttendanceInv
  OBVIOUS
<1>1. /\ punches = <<>> /\ day = NoDay /\ clerk = [d \in Desks |-> Idle]
  BY DEF AttendanceInit
<1>2. DayShaped(day) /\ day.rev = 0 /\ ~day.opened
  BY <1>1 DEF NoDay, DayShaped
<1> QED BY <1>1, <1>2, NoPunch DEF AttendanceInv, DaySumsUp

LEMMA AttendanceStep == AttendanceInv /\ [AttendanceNext]_attendanceVars => AttendanceInv'
<1> SUFFICES ASSUME AttendanceInv, [AttendanceNext]_attendanceVars PROVE AttendanceInv'
  OBVIOUS
<1>1. ASSUME NEW d \in Desks, NEW direction \in {"in", "out"}, NEW t \in Times,
             Punch(d, direction, t)
      PROVE  AttendanceInv'
  BY <1>1, PunchKeeps
<1>2. ASSUME NEW d \in Desks, DayCommit(d) PROVE AttendanceInv'
  BY <1>2, DayCommitKeeps
<1>3. ASSUME punches' = punches, day' = day, NEW d \in Desks,
             clerk' = clerk \/ clerk' = [clerk EXCEPT ![d] = Idle]
      PROVE  AttendanceInv'
  <2>1. \A v : RequestGood(v) <=> RequestGood(v)'
    BY <1>3 DEF RequestGood, TouchesDay
  <2>2. /\ clerk' = [e \in Desks |-> clerk'[e]]
        /\ \A e \in Desks : clerk'[e] = clerk[e] \/ clerk'[e] = Idle
    BY <1>3 DEF AttendanceInv
  <2>3. \A e \in Desks : clerk'[e] # Idle => RequestGood(clerk[e])'
    BY <2>1, <2>2 DEF AttendanceInv
  <2> QED BY <1>3, <2>2, <2>3 DEF AttendanceInv, DaySumsUp
<1>4. ASSUME NEW d \in Desks, DayAbandon(d) PROVE AttendanceInv'
  BY <1>3, <1>4 DEF DayAbandon
<1>5. CASE UNCHANGED attendanceVars
  <2>1. punches' = punches /\ day' = day /\ clerk' = clerk
    BY <1>5 DEF attendanceVars
  <2>2. \A v : RequestGood(v) <=> RequestGood(v)'
    BY <2>1 DEF RequestGood, TouchesDay
  <2> QED BY <2>1, <2>2 DEF AttendanceInv, DaySumsUp
<1>6. ASSUME NEW d \in Desks,
             \/ \E mark \in Marks : MarkDay(d, mark) \/ RequestRegularization(d, mark)
             \/ \E r \in DOMAIN asked, v \in {"approved", "rejected"} : DecideRegularization(d, r, v)
      PROVE  AttendanceInv'
  BY <1>6, CorrectKeeps
<1> QED BY <1>1, <1>2, <1>4, <1>5, <1>6 DEF AttendanceNext

(* However requests on a day overlap: a day whose last writer is a punch     *)
(* that met no other shows exactly its punches, every worked minute once     *)
(* (_recompute).                                                           *)
THEOREM PunchesCounted == AttendanceSpec => []PunchesAddUp
<1>1. AttendanceInv => PunchesAddUp
  BY ClockAddsUp DEF AttendanceInv, DaySumsUp, SumsUp, PunchesAddUp
<1> QED BY <1>1, AttendanceStarts, AttendanceStep, PTL DEF AttendanceSpec
-------------------------------------------------------------------------------
(* Payslip *)

LEMMA DivMod ==
  ASSUME NEW n \in Int, NEW d \in Nat \ {0}
  PROVE  /\ n \div d \in Int /\ n % d \in 0 .. d - 1
         /\ n = d * (n \div d) + (n % d)
  OBVIOUS

LEMMA HalfUpNear ==
  ASSUME NEW n \in Int, NEW d \in Nat \ {0}
  PROVE  /\ HalfUp(n, d) \in Int
         /\ 2 * n - d <= 2 * (d * HalfUp(n, d)) /\ 2 * (d * HalfUp(n, d)) <= 2 * n + d
         /\ n >= 0 => HalfUp(n, d) >= 0
<1> DEFINE q == n \div d
           r == n % d
<1>1. q \in Int /\ r \in 0 .. d - 1 /\ n = d * q + r
  BY DivMod
<1>2. n >= 0 => q >= 0
  BY DivMod
<1> HIDE DEF q, r
<1>3. d * (q + 1) = d * q + d
  BY <1>1
<1>4. PICK p \in Int : p = d * q
  BY <1>1
<1>5. HalfUp(n, d) = IF 2 * r > d \/ (2 * r = d /\ n >= 0) THEN q + 1 ELSE q
  BY <1>1 DEF HalfUp, q, r
<1>6. CASE 2 * r > d \/ (2 * r = d /\ n >= 0)
  <2>1. HalfUp(n, d) = q + 1 /\ d * HalfUp(n, d) = p + d
    BY <1>3, <1>4, <1>5, <1>6
  <2> QED BY <1>1, <1>2, <1>4, <1>6, <2>1
<1>7. CASE ~(2 * r > d \/ (2 * r = d /\ n >= 0))
  <2>1. HalfUp(n, d) = q /\ d * HalfUp(n, d) = p
    BY <1>4, <1>5, <1>7
  <2> QED BY <1>1, <1>2, <1>4, <1>7, <2>1
<1> QED BY <1>6, <1>7

-------------------------------------------------------------------------------
\* The sums of a list so far.
Sums(g, a) ==
  /\ g[0] = 0
  /\ \A i \in 1 .. Len(a) : g[i] = g[i - 1] + a[i]
  /\ \A i \in 0 .. Len(a) : g[i] \in Int

LEMMA TotalRuns ==
  ASSUME NEW a, Len(a) \in Nat, \A i \in 1 .. Len(a) : a[i] \in Int
  PROVE  \E g : Sums(g, a) /\ TotalOf(a) = g[Len(a)]
<1> DEFINE n == Len(a)
           F == [p \in (1 .. n) \X Int |-> p[2] + a[p[1]]]
           Runs(g) == g = [i \in 0 .. n |-> IF i = 0 THEN 0 ELSE g[i - 1] + a[i]]
<1>0. n \in Nat
  OBVIOUS
<1>1. \A i \in 1 .. n, v \in Int : F[<<i, v>>] = v + a[i] /\ F[<<i, v>>] \in Int
  OBVIOUS
<1> HIDE DEF F
<1>2. PICK f : Loop(f, n, 0, F)
  <2>1. 0 \in Int
    OBVIOUS
  <2> QED BY <1>1, <2>1, LoopExists
<1>3. \A i \in 0 .. n : f[i] \in Int
  <2>1. f[0] = 0
    BY <1>2 DEF Loop
  <2>2. f[0] \in Int
    BY <2>1
  <2>3. \A i \in 1 .. n : f[i - 1] \in Int => f[i] \in Int
    BY <1>1, <1>2 DEF Loop
  <2> HIDE DEF n
  <2> QED BY <1>0, <2>2, <2>3, LoopKeeps
<1>4. Runs(f)
  <2>1. \A i \in 0 .. n : f[i] = IF i = 0 THEN 0 ELSE f[i - 1] + a[i]
    <3> TAKE i \in 0 .. n
    <3>1. i # 0 => i \in 1 .. n /\ i - 1 \in 0 .. n
      OBVIOUS
    <3> QED BY <1>1, <1>2, <1>3, <3>1 DEF Loop
  <2>2. f = [i \in 0 .. n |-> f[i]]
    BY <1>2 DEF Loop
  <2> QED BY <2>1, <2>2
<1>5. PICK g : Runs(g) /\ TotalOf(a) = g[n]
  BY <1>4 DEF TotalOf, n
<1>6. g[0] = 0 /\ \A i \in 1 .. n : g[i] = g[i - 1] + a[i]
  <2>1. \A i \in 0 .. n : g[i] = IF i = 0 THEN 0 ELSE g[i - 1] + a[i]
    BY <1>5
  <2>2. 0 \in 0 .. n /\ \A i \in 1 .. n : i \in 0 .. n /\ i # 0
    OBVIOUS
  <2> QED BY <2>1, <2>2
<1>7. \A i \in 0 .. n : g[i] \in Int
  <2>1. g[0] \in Int /\ \A i \in 1 .. n : g[i - 1] \in Int => g[i] \in Int
    BY <1>6
  <2> HIDE DEF n
  <2> QED BY <1>0, <2>1, LoopKeeps
<1> QED BY <1>5, <1>6, <1>7 DEF Sums

-------------------------------------------------------------------------------
(* A property of the place and the value that each step of a loop keeps.    *)
LEMMA WalkKeeps ==
  ASSUME NEW n \in Nat, NEW V, NEW g, <<0, g[0]>> \in V,
         \A i \in 1 .. n : <<i - 1, g[i - 1]>> \in V => <<i, g[i]>> \in V
  PROVE  \A i \in 0 .. n : <<i, g[i]>> \in V
<1> DEFINE h == [i \in 0 .. n |-> <<i, g[i]>>]
<1>1. \A i \in 0 .. n : h[i] = <<i, g[i]>>
  OBVIOUS
<1>2. h[0] \in V
  BY <1>1
<1>3. \A i \in 1 .. n : h[i - 1] \in V => h[i] \in V
  <2> TAKE i \in 1 .. n
  <2>1. i - 1 \in 0 .. n /\ i \in 0 .. n
    OBVIOUS
  <2> QED BY <1>1, <2>1
<1> HIDE DEF h
<1>4. \A i \in 0 .. n : h[i] \in V
  BY <1>2, <1>3, LoopKeeps
<1> QED BY <1>1, <1>4

-------------------------------------------------------------------------------
(* Bands *)

Band == [upto : Nat \cup {Top}, rate : Nat]

LEMMA BandsAre ==
  ASSUME NEW bands, Ascending(bands)
  PROVE  /\ Len(bands) \in Nat \ {0} /\ DOMAIN bands = 1 .. Len(bands)
         /\ \A i \in 1 .. Len(bands) : bands[i] \in Band
         /\ \A i \in 1 .. Len(bands) : bands[i].rate \in Nat
         /\ \A i \in 1 .. Len(bands) : i < Len(bands) => bands[i].upto \in Nat /\ bands[i].upto # Top
         /\ bands[Len(bands)].upto = Top
         /\ \A i, j \in 1 .. Len(bands) : (i <= j /\ j < Len(bands)) => bands[i].upto <= bands[j].upto
<1> DEFINE n == Len(bands)
<1>1. n \in Nat /\ DOMAIN bands = 1 .. n /\ \A i \in 1 .. n : bands[i] \in Band
  <2>1. bands \in Seq(Band)
    BY DEF Ascending, Band
  <2> QED BY <2>1, RowsShape
<1>2. n # 0
  BY <1>1 DEF Ascending
<1> HIDE DEF n
<1>3. \A i \in 1 .. n : bands[i].rate \in Nat /\ bands[i].upto \in Nat \cup {Top}
  BY <1>1 DEF Band
<1>4. \A i \in 1 .. n : (bands[i].upto = Top) <=> (i = n)
  BY <1>1 DEF Ascending, n
<1>5. \A i \in 1 .. n : i < n => bands[i].upto \in Nat /\ bands[i].upto # Top
  BY <1>1, <1>3, <1>4
<1>6. \A i, j \in 1 .. n : (i <= j /\ j < n) => bands[i].upto <= bands[j].upto
  <2> SUFFICES ASSUME NEW i \in 1 .. n, NEW j \in 1 .. n, i <= j, j < n
               PROVE  bands[i].upto <= bands[j].upto
    OBVIOUS
  <2>1. i \in 1 .. n - 1 /\ j \in 1 .. n - 1
    BY <1>1
  <2> QED BY <2>1 DEF Ascending, n
<1>7. bands[n].upto = Top
  <2>1. n \in 1 .. n
    BY <1>1, <1>2
  <2> QED BY <1>4, <2>1
<1> QED BY <1>1, <1>2, <1>3, <1>5, <1>6, <1>7 DEF n

(* What is taxed in a band, and where the band begins.                     *)
LEMMA InBandIs ==
  ASSUME NEW t \in Int, NEW bands, Ascending(bands), NEW i \in 1 .. Len(bands)
  PROVE  /\ LowerEnd(bands, i) \in Nat
         /\ i = 1 => LowerEnd(bands, i) = 0
         /\ i > 1 => LowerEnd(bands, i) = bands[i - 1].upto
         /\ bands[i].upto # Top => LowerEnd(bands, i) <= bands[i].upto
         /\ InBand(t, bands, i) \in Nat
         /\ t <= LowerEnd(bands, i) => InBand(t, bands, i) = 0
         /\ (bands[i].upto # Top /\ t > bands[i].upto) =>
               InBand(t, bands, i) = (bands[i].upto - LowerEnd(bands, i)) * bands[i].rate
         /\ (bands[i].upto = Top \/ t <= bands[i].upto) =>
               InBand(t, bands, i) = Positive(t - LowerEnd(bands, i)) * bands[i].rate
<1> DEFINE n == Len(bands)
           from == LowerEnd(bands, i)
           s == bands[i]
           upper == IF s.upto = Top THEN t ELSE Lesser(t, s.upto)
<1>1. n \in Nat /\ i \in Int /\ s.rate \in Nat /\ (s.upto = Top \/ s.upto \in Nat)
  BY BandsAre
<1>2. i > 1 => /\ i - 1 \in 1 .. n /\ bands[i - 1].upto \in Nat
               /\ s.upto # Top => bands[i - 1].upto <= s.upto
  <2> SUFFICES ASSUME i > 1 PROVE /\ i - 1 \in 1 .. n /\ bands[i - 1].upto \in Nat
                                  /\ s.upto # Top => bands[i - 1].upto <= s.upto
    OBVIOUS
  <2>1. i - 1 \in 1 .. n /\ i - 1 < n /\ i - 1 <= i
    BY <1>1
  <2>2. s.upto # Top => i < n
    BY <1>1, BandsAre
  <2> QED BY <2>1, <2>2, BandsAre
<1>3. from \in Nat /\ (i = 1 => from = 0) /\ (i > 1 => from = bands[i - 1].upto)
  BY <1>1, <1>2 DEF LowerEnd
<1>4. s.upto # Top => s.upto \in Nat /\ from <= s.upto
  BY <1>1, <1>2, <1>3
<1>5. InBand(t, bands, i) = Positive(upper - from) * s.rate
  BY DEF InBand
<1> HIDE DEF from, s
<1>6. upper \in Int /\ Positive(upper - from) \in Nat
  BY <1>1, <1>3, <1>4 DEF Lesser, Positive
<1>7. t <= from => Positive(upper - from) = 0
  BY <1>1, <1>3, <1>4 DEF Lesser, Positive
<1>8. (s.upto # Top /\ t > s.upto) => Positive(upper - from) = s.upto - from
  BY <1>1, <1>3, <1>4 DEF Lesser, Positive
<1>9. (s.upto = Top \/ t <= s.upto) => upper = t
  BY <1>1, <1>4 DEF Lesser
<1>10. 0 * s.rate = 0 /\ \A m \in Nat : m * s.rate \in Nat
  BY <1>1
<1> HIDE DEF upper
<1> QED BY <1>3, <1>4, <1>5, <1>6, <1>7, <1>8, <1>9, <1>10 DEF from, s

(* A lower end lies above those before it.                                 *)
LEMMA LowerEndsAscend ==
  ASSUME NEW bands, Ascending(bands), NEW i \in 1 .. Len(bands), NEW j \in 1 .. Len(bands), i < j
  PROVE  bands[i].upto \in Nat /\ bands[i].upto <= LowerEnd(bands, j)
<1>1. Len(bands) \in Nat /\ j > 1 /\ j - 1 \in 1 .. Len(bands) /\ i <= j - 1 /\ j - 1 < Len(bands) /\ i < Len(bands)
  BY BandsAre
<1>2. LowerEnd(bands, j) = bands[j - 1].upto
  BY <1>1 DEF LowerEnd
<1>3. bands[i].upto \in Nat /\ bands[i].upto <= bands[j - 1].upto
  BY <1>1, BandsAre
<1> QED BY <1>2, <1>3

LEMMA BandSums ==
  ASSUME NEW t \in Int, NEW bands, Ascending(bands)
  PROVE  \E g : /\ g[0] = 0 /\ BandTax(t, bands) = g[Len(bands)]
                /\ \A i \in 1 .. Len(bands) : g[i] = g[i - 1] + InBand(t, bands, i)
                /\ \A i \in 0 .. Len(bands) : g[i] \in Int
<1> DEFINE n == Len(bands)
           a == [i \in DOMAIN bands |-> InBand(t, bands, i)]
<1>1. n \in Nat /\ DOMAIN bands = 1 .. n
  BY BandsAre
<1>2. \A i \in 1 .. n : InBand(t, bands, i) \in Nat
  BY InBandIs
<1>3. /\ a \in Seq(Nat) /\ Len(a) = n /\ DOMAIN a = 1 .. n
      /\ \A i \in 1 .. n : a[i] = InBand(t, bands, i) /\ a[i] \in Int
  BY <1>1, <1>2
<1>4. BandTax(t, bands) = TotalOf(a)
  BY DEF BandTax
<1> HIDE DEF a
<1>5. PICK g : Sums(g, a) /\ TotalOf(a) = g[n]
  BY <1>1, <1>3, TotalRuns
<1> QED BY <1>3, <1>4, <1>5 DEF Sums

-------------------------------------------------------------------------------
(* The walk of the slabs.                                                  *)
SlabRec == [tax : Int, lower : Int, done : BOOLEAN]

LEMMA InSlabType ==
  ASSUME NEW t \in Int, NEW v \in SlabRec, NEW s \in Band
  PROVE  /\ InSlab(t, v, s) \in SlabRec
         /\ v.done => InSlab(t, v, s) = v
         /\ (~v.done /\ s.upto # Top /\ t > s.upto) =>
               InSlab(t, v, s) = [tax |-> v.tax + (s.upto - v.lower) * s.rate, lower |-> s.upto, done |-> FALSE]
         /\ (~v.done /\ (s.upto = Top \/ t <= s.upto)) =>
               InSlab(t, v, s) = [tax |-> v.tax + Positive(t - v.lower) * s.rate, lower |-> v.lower, done |-> TRUE]
<1>1. /\ v = [tax |-> v.tax, lower |-> v.lower, done |-> v.done] /\ v.tax \in Int /\ v.lower \in Int
      /\ v.done \in BOOLEAN /\ s.rate \in Nat /\ s.upto \in Nat \cup {Top}
  BY DEF SlabRec, Band
<1>2. s.upto \in Int
  BY <1>1 DEF Top
<1>3. CASE v.done
  BY <1>1, <1>3 DEF InSlab
<1>4. CASE ~v.done /\ s.upto # Top /\ t > s.upto
  <2>1. v.tax + (s.upto - v.lower) * s.rate \in Int
    BY <1>1, <1>2
  <2>2. InSlab(t, v, s) = [tax |-> v.tax + (s.upto - v.lower) * s.rate, lower |-> s.upto, done |-> FALSE]
    BY <1>4 DEF InSlab
  <2>3. InSlab(t, v, s) \in SlabRec
    BY <1>2, <2>1, <2>2 DEF SlabRec
  <2> QED BY <1>2, <1>4, <2>2, <2>3
<1>5. CASE ~v.done /\ (s.upto = Top \/ t <= s.upto)
  <2>1. Positive(t - v.lower) \in Int
    BY <1>1 DEF Positive
  <2>2. v.tax + Positive(t - v.lower) * s.rate \in Int
    BY <1>1, <2>1
  <2>3. ~(s.upto # Top /\ t > s.upto)
    BY <1>2, <1>5
  <2>4. InSlab(t, v, s) = [tax |-> v.tax + Positive(t - v.lower) * s.rate, lower |-> v.lower, done |-> TRUE]
    BY <1>5, <2>3 DEF InSlab
  <2>5. InSlab(t, v, s) \in SlabRec
    BY <1>1, <2>2, <2>4 DEF SlabRec
  <2> QED BY <1>5, <2>3, <2>4, <2>5
<1>6. v.done \/ (s.upto # Top /\ t > s.upto) \/ (s.upto = Top \/ t <= s.upto)
  BY <1>2
<1> QED BY <1>1, <1>3, <1>4, <1>5, <1>6

LEMMA SlabRuns ==
  ASSUME NEW t \in Int, NEW bands, Ascending(bands)
  PROVE  \E g : /\ g[0] = [tax |-> 0, lower |-> 0, done |-> FALSE]
                /\ \A i \in 1 .. Len(bands) : g[i] = InSlab(t, g[i - 1], bands[i])
                /\ \A i \in 0 .. Len(bands) : g[i] \in SlabRec
                /\ SlabTax(t, bands) = g[Len(bands)].tax
<1> DEFINE n == Len(bands)
           base == [tax |-> 0, lower |-> 0, done |-> FALSE]
           F == [p \in (1 .. n) \X SlabRec |-> InSlab(t, p[2], bands[p[1]])]
           Runs(g) == g = [i \in 0 .. n |-> IF i = 0 THEN base ELSE InSlab(t, g[i - 1], bands[i])]
<1>0. n \in Nat
  BY BandsAre
<1>1. base \in SlabRec
  BY DEF SlabRec
<1>2. \A i \in 1 .. n, v \in SlabRec : F[<<i, v>>] = InSlab(t, v, bands[i]) /\ F[<<i, v>>] \in SlabRec
  <2> SUFFICES ASSUME NEW i \in 1 .. n, NEW v \in SlabRec
               PROVE  F[<<i, v>>] = InSlab(t, v, bands[i]) /\ InSlab(t, v, bands[i]) \in SlabRec
    OBVIOUS
  <2>1. bands[i] \in Band
    BY BandsAre
  <2>2. InSlab(t, v, bands[i]) \in SlabRec
    BY <2>1, InSlabType
  <2> QED BY <2>2
<1> HIDE DEF F
<1>3. PICK f : Loop(f, n, base, F)
  <2> HIDE DEF base, n
  <2> QED BY <1>0, <1>1, <1>2, LoopExists
<1>4. f[0] = base /\ f = [i \in 0 .. n |-> f[i]] /\ \A i \in 1 .. n : f[i] = F[<<i, f[i - 1]>>]
  <2> HIDE DEF base, n
  <2> QED BY <1>3 DEF Loop
<1>5. \A i \in 0 .. n : f[i] \in SlabRec
  <2> HIDE DEF base, n
  <2>1. f[0] \in SlabRec /\ \A i \in 1 .. n : f[i - 1] \in SlabRec => f[i] \in SlabRec
    BY <1>1, <1>2, <1>4
  <2> QED BY <1>0, <2>1, LoopKeeps
<1>6. Runs(f)
  <2> HIDE DEF base
  <2>1. \A i \in 0 .. n : f[i] = IF i = 0 THEN base ELSE InSlab(t, f[i - 1], bands[i])
    <3> HIDE DEF n
    <3> TAKE i \in 0 .. n
    <3>1. i # 0 => i \in 1 .. n /\ i - 1 \in 0 .. n
      BY <1>0
    <3> QED BY <1>2, <1>4, <1>5, <3>1
  <2> QED BY <1>4, <2>1
<1>7. PICK g : Runs(g) /\ SlabTax(t, bands) = g[n].tax
  BY <1>6 DEF SlabTax, n, base
<1>8. g[0] = base /\ \A i \in 1 .. n : g[i] = InSlab(t, g[i - 1], bands[i])
  <2> HIDE DEF base
  <2>1. \A i \in 0 .. n : g[i] = IF i = 0 THEN base ELSE InSlab(t, g[i - 1], bands[i])
    BY <1>7
  <2> HIDE DEF n
  <2>2. 0 \in 0 .. n /\ \A i \in 1 .. n : i \in 0 .. n /\ i # 0
    BY <1>0
  <2> QED BY <2>1, <2>2
<1>9. \A i \in 0 .. n : g[i] \in SlabRec
  <2> HIDE DEF base, n, Runs
  <2>1. g[0] \in SlabRec /\ \A i \in 1 .. n : g[i - 1] \in SlabRec => g[i] \in SlabRec
    BY <1>1, <1>2, <1>8
  <2> QED BY <1>0, <2>1, LoopKeeps
<1> QED BY <1>7, <1>8, <1>9

(* The slabs' walk agrees with the tax band by band.                       *)
SlabGood(t, bands, sum, v, i) ==
  /\ v \in SlabRec /\ v.tax = sum
  /\ v.done => \A j \in i + 1 .. Len(bands) : t <= LowerEnd(bands, j)
  /\ (~v.done /\ i < Len(bands)) => v.lower = LowerEnd(bands, i + 1)
  /\ i = Len(bands) => v.done

LEMMA SlabAgrees ==
  ASSUME NEW t \in Int, NEW bands, Ascending(bands)
  PROVE  SlabTax(t, bands) = BandTax(t, bands)
<1> DEFINE n == Len(bands)
<1>1. n \in Nat \ {0}
  BY BandsAre
<1>2. PICK g : /\ g[0] = [tax |-> 0, lower |-> 0, done |-> FALSE]
               /\ \A i \in 1 .. n : g[i] = InSlab(t, g[i - 1], bands[i])
               /\ \A i \in 0 .. n : g[i] \in SlabRec
               /\ SlabTax(t, bands) = g[n].tax
  BY SlabRuns
<1>3. PICK sum : /\ sum[0] = 0 /\ BandTax(t, bands) = sum[n]
                 /\ \A i \in 1 .. n : sum[i] = sum[i - 1] + InBand(t, bands, i)
                 /\ \A i \in 0 .. n : sum[i] \in Int
  BY BandSums
<1>4. SlabGood(t, bands, sum[0], g[0], 0)
  <2>1. g[0] \in SlabRec /\ g[0].tax = 0 /\ g[0].lower = 0 /\ ~g[0].done
    BY <1>1, <1>2
  <2>2. LowerEnd(bands, 1) = 0
    BY DEF LowerEnd
  <2> QED BY <1>1, <1>3, <2>1, <2>2 DEF SlabGood
<1>5. ASSUME NEW i \in 1 .. n, SlabGood(t, bands, sum[i - 1], g[i - 1], i - 1)
      PROVE  SlabGood(t, bands, sum[i], g[i], i)
  <2> DEFINE v == g[i - 1]
             s == bands[i]
  <2>1. /\ i - 1 \in 0 .. n /\ i - 1 < n /\ i - 1 + 1 = i /\ i \in Int /\ v \in SlabRec
        /\ g[i] = InSlab(t, v, s) /\ sum[i] = sum[i - 1] + InBand(t, bands, i)
        /\ sum[i - 1] \in Int
    BY <1>1, <1>2, <1>3
  <2>2. s \in Band
    BY BandsAre
  <2>3. /\ s.upto = Top \/ s.upto \in Nat
        /\ s.upto # Top => i < n
        /\ i = n => s.upto = Top
    BY <2>2, BandsAre
  <2>4. /\ v.tax = sum[i - 1] /\ v.tax \in Int
        /\ v.done => \A j \in i .. n : t <= LowerEnd(bands, j)
        /\ ~v.done => v.lower = LowerEnd(bands, i)
    BY <1>5, <2>1 DEF SlabGood, SlabRec
  <2>5. CASE v.done
    <3>1. t <= LowerEnd(bands, i)
      BY <2>4, <2>5
    <3>2. InBand(t, bands, i) = 0
      BY <3>1, InBandIs
    <3>3. g[i] = v
      BY <2>1, <2>2, <2>5, InSlabType
    <3>4. sum[i] = sum[i - 1]
      BY <2>1, <3>2
    <3>5. \A j \in i + 1 .. n : t <= LowerEnd(bands, j)
      BY <2>1, <2>4, <2>5
    <3> QED BY <2>1, <2>4, <2>5, <3>3, <3>4, <3>5 DEF SlabGood
  <2>6. CASE ~v.done /\ s.upto # Top /\ t > s.upto
    <3>1. g[i] = [tax |-> v.tax + (s.upto - v.lower) * s.rate, lower |-> s.upto, done |-> FALSE]
      BY <2>1, <2>2, <2>6, InSlabType
    <3>2. InBand(t, bands, i) = (s.upto - v.lower) * s.rate
      BY <2>4, <2>6, InBandIs
    <3>3. g[i].tax = sum[i] /\ g[i].lower = s.upto /\ ~g[i].done /\ g[i] \in SlabRec
      BY <1>2, <2>1, <2>4, <3>1, <3>2
    <3>4. LowerEnd(bands, i + 1) = s.upto
      BY <2>1 DEF LowerEnd
    <3>5. i # n
      BY <2>3, <2>6
    <3> QED BY <3>3, <3>4, <3>5 DEF SlabGood
  <2>7. CASE ~v.done /\ (s.upto = Top \/ t <= s.upto)
    <3>1. g[i] = [tax |-> v.tax + Positive(t - v.lower) * s.rate, lower |-> v.lower, done |-> TRUE]
      BY <2>1, <2>2, <2>7, InSlabType
    <3>2. InBand(t, bands, i) = Positive(t - v.lower) * s.rate
      BY <2>4, <2>7, InBandIs
    <3>3. g[i].tax = sum[i] /\ g[i].done /\ g[i] \in SlabRec
      BY <1>2, <2>1, <2>4, <3>1, <3>2
    <3>4. \A j \in i + 1 .. n : t <= LowerEnd(bands, j)
      <4> SUFFICES ASSUME NEW j \in i + 1 .. n PROVE t <= LowerEnd(bands, j)
        OBVIOUS
      <4>1. i < n /\ j \in 1 .. n /\ i < j
        BY <1>1, <2>1
      <4>2. s.upto # Top
        BY <4>1, <2>1, BandsAre
      <4>3. s.upto \in Nat /\ s.upto <= LowerEnd(bands, j) /\ LowerEnd(bands, j) \in Nat
        BY <4>1, LowerEndsAscend, InBandIs
      <4> QED BY <2>7, <4>2, <4>3
    <3> QED BY <3>3, <3>4 DEF SlabGood
  <2>8. v.done \/ (s.upto # Top /\ t > s.upto) \/ (s.upto = Top \/ t <= s.upto)
    BY <2>3
  <2> QED BY <2>5, <2>6, <2>7, <2>8
<1> DEFINE V == {p \in (0 .. n) \X SlabRec : SlabGood(t, bands, sum[p[1]], p[2], p[1])}
<1> HIDE DEF n
<1>6. <<0, g[0]>> \in V
  <2>1. g[0] \in SlabRec /\ 0 \in 0 .. n
    BY <1>1, <1>2
  <2> QED BY <1>4, <2>1
<1>7. ASSUME NEW i \in 1 .. n, <<i - 1, g[i - 1]>> \in V PROVE <<i, g[i]>> \in V
  <2>1. i - 1 \in 0 .. n /\ i \in 0 .. n
    BY <1>1
  <2>2. SlabGood(t, bands, sum[i - 1], g[i - 1], i - 1)
    BY <1>7, <2>1
  <2>3. SlabGood(t, bands, sum[i], g[i], i)
    BY <1>5, <2>2
  <2> QED BY <1>2, <2>1, <2>3
<1>8. <<n, g[n]>> \in V
  <2> HIDE DEF V
  <2>1. \A i \in 0 .. n : <<i, g[i]>> \in V
    BY <1>1, <1>6, <1>7, WalkKeeps
  <2> QED BY <1>1, <2>1
<1>9. g[n].tax = sum[n]
  BY <1>1, <1>8 DEF SlabGood
<1> QED BY <1>2, <1>3, <1>9

-------------------------------------------------------------------------------
(* The walk of the brackets.                                               *)
BracketRec == [tax : Int, lower : Int]

LEMMA InBracketType ==
  ASSUME NEW t \in Int, NEW v \in BracketRec, NEW s \in Band
  PROVE  /\ InBracket(t, v, s) \in BracketRec
         /\ t <= v.lower => InBracket(t, v, s) = v
         /\ (t > v.lower /\ s.upto = Top) =>
               InBracket(t, v, s) = [tax |-> v.tax + (t - v.lower) * s.rate, lower |-> t]
         /\ (t > v.lower /\ s.upto # Top /\ t <= s.upto) =>
               InBracket(t, v, s) = [tax |-> v.tax + (t - v.lower) * s.rate, lower |-> s.upto]
         /\ (t > v.lower /\ s.upto # Top /\ t > s.upto) =>
               InBracket(t, v, s) = [tax |-> v.tax + (s.upto - v.lower) * s.rate, lower |-> s.upto]
<1> DEFINE top == IF s.upto = Top \/ t < s.upto THEN t ELSE s.upto
<1>1. v.tax \in Int /\ v.lower \in Int /\ s.rate \in Int /\ s.upto \in Int
  BY DEF BracketRec, Band, Top
<1>2. top \in Int
  BY <1>1
<1>3. /\ s.upto = Top => top = t
      /\ t <= s.upto => top = t
      /\ (s.upto # Top /\ t > s.upto) => top = s.upto
  BY <1>1
<1>4. InBracket(t, v, s) = IF t <= v.lower THEN v
                           ELSE [tax |-> v.tax + (top - v.lower) * s.rate,
                                 lower |-> IF s.upto = Top THEN t ELSE s.upto]
  BY DEF InBracket
<1> HIDE DEF top
<1>5. v.tax + (top - v.lower) * s.rate \in Int
  BY <1>1, <1>2
<1>6. InBracket(t, v, s) \in BracketRec
  BY <1>1, <1>4, <1>5 DEF BracketRec
<1>7. t > v.lower => ~(t <= v.lower)
  BY <1>1
<1> QED BY <1>3, <1>4, <1>6, <1>7

LEMMA BracketRuns ==
  ASSUME NEW t \in Int, NEW bands, Ascending(bands)
  PROVE  \E g : /\ g[0] = [tax |-> 0, lower |-> 0]
                /\ \A i \in 1 .. Len(bands) : g[i] = InBracket(t, g[i - 1], bands[i])
                /\ \A i \in 0 .. Len(bands) : g[i] \in BracketRec
                /\ ProgressiveTax(t, bands) = g[Len(bands)].tax
<1> DEFINE n == Len(bands)
           base == [tax |-> 0, lower |-> 0]
           F == [p \in (1 .. n) \X BracketRec |-> InBracket(t, p[2], bands[p[1]])]
           Runs(g) == g = [i \in 0 .. n |-> IF i = 0 THEN base ELSE InBracket(t, g[i - 1], bands[i])]
<1>0. n \in Nat
  BY BandsAre
<1>1. base \in BracketRec
  BY DEF BracketRec
<1>2. \A i \in 1 .. n, v \in BracketRec : F[<<i, v>>] = InBracket(t, v, bands[i]) /\ F[<<i, v>>] \in BracketRec
  <2> SUFFICES ASSUME NEW i \in 1 .. n, NEW v \in BracketRec
               PROVE  F[<<i, v>>] = InBracket(t, v, bands[i]) /\ InBracket(t, v, bands[i]) \in BracketRec
    OBVIOUS
  <2>1. bands[i] \in Band
    BY BandsAre
  <2>2. InBracket(t, v, bands[i]) \in BracketRec
    BY <2>1, InBracketType
  <2> QED BY <2>2
<1> HIDE DEF F
<1>3. PICK f : Loop(f, n, base, F)
  <2> HIDE DEF base, n
  <2> QED BY <1>0, <1>1, <1>2, LoopExists
<1>4. f[0] = base /\ f = [i \in 0 .. n |-> f[i]] /\ \A i \in 1 .. n : f[i] = F[<<i, f[i - 1]>>]
  <2> HIDE DEF base, n
  <2> QED BY <1>3 DEF Loop
<1>5. \A i \in 0 .. n : f[i] \in BracketRec
  <2> HIDE DEF base, n
  <2>1. f[0] \in BracketRec /\ \A i \in 1 .. n : f[i - 1] \in BracketRec => f[i] \in BracketRec
    BY <1>1, <1>2, <1>4
  <2> QED BY <1>0, <2>1, LoopKeeps
<1>6. Runs(f)
  <2> HIDE DEF base
  <2>1. \A i \in 0 .. n : f[i] = IF i = 0 THEN base ELSE InBracket(t, f[i - 1], bands[i])
    <3> HIDE DEF n
    <3> TAKE i \in 0 .. n
    <3>1. i # 0 => i \in 1 .. n /\ i - 1 \in 0 .. n
      BY <1>0
    <3> QED BY <1>2, <1>4, <1>5, <3>1
  <2> QED BY <1>4, <2>1
<1>7. PICK g : Runs(g) /\ ProgressiveTax(t, bands) = g[n].tax
  BY <1>6 DEF ProgressiveTax, n, base
<1>8. g[0] = base /\ \A i \in 1 .. n : g[i] = InBracket(t, g[i - 1], bands[i])
  <2> HIDE DEF base
  <2>1. \A i \in 0 .. n : g[i] = IF i = 0 THEN base ELSE InBracket(t, g[i - 1], bands[i])
    BY <1>7
  <2> HIDE DEF n
  <2>2. 0 \in 0 .. n /\ \A i \in 1 .. n : i \in 0 .. n /\ i # 0
    BY <1>0
  <2> QED BY <2>1, <2>2
<1>9. \A i \in 0 .. n : g[i] \in BracketRec
  <2> HIDE DEF base, n, Runs
  <2>1. g[0] \in BracketRec /\ \A i \in 1 .. n : g[i - 1] \in BracketRec => g[i] \in BracketRec
    BY <1>1, <1>2, <1>8
  <2> QED BY <1>0, <2>1, LoopKeeps
<1> QED BY <1>7, <1>8, <1>9

(* The brackets' walk agrees with the tax band by band.                    *)
BracketGood(t, bands, sum, v, i) ==
  /\ v \in BracketRec /\ v.tax = sum
  /\ i < Len(bands) => \/ v.lower = LowerEnd(bands, i + 1)
                       \/ t <= v.lower /\ \A j \in i + 1 .. Len(bands) : t <= LowerEnd(bands, j)

LEMMA BracketAgrees ==
  ASSUME NEW t \in Int, NEW bands, Ascending(bands)
  PROVE  ProgressiveTax(t, bands) = BandTax(t, bands)
<1> DEFINE n == Len(bands)
<1>1. n \in Nat \ {0}
  BY BandsAre
<1>2. PICK g : /\ g[0] = [tax |-> 0, lower |-> 0]
               /\ \A i \in 1 .. n : g[i] = InBracket(t, g[i - 1], bands[i])
               /\ \A i \in 0 .. n : g[i] \in BracketRec
               /\ ProgressiveTax(t, bands) = g[n].tax
  BY BracketRuns
<1>3. PICK sum : /\ sum[0] = 0 /\ BandTax(t, bands) = sum[n]
                 /\ \A i \in 1 .. n : sum[i] = sum[i - 1] + InBand(t, bands, i)
                 /\ \A i \in 0 .. n : sum[i] \in Int
  BY BandSums
<1>4. BracketGood(t, bands, sum[0], g[0], 0)
  <2>1. g[0] \in BracketRec /\ g[0].tax = 0 /\ g[0].lower = 0
    BY <1>1, <1>2
  <2>2. LowerEnd(bands, 1) = 0
    BY DEF LowerEnd
  <2> QED BY <1>1, <1>3, <2>1, <2>2 DEF BracketGood
<1>5. ASSUME NEW i \in 1 .. n, BracketGood(t, bands, sum[i - 1], g[i - 1], i - 1)
      PROVE  BracketGood(t, bands, sum[i], g[i], i)
  <2> DEFINE v == g[i - 1]
             s == bands[i]
  <2>1. /\ i - 1 \in 0 .. n /\ i - 1 < n /\ i - 1 + 1 = i /\ i \in Int /\ v \in BracketRec
        /\ g[i] = InBracket(t, v, s) /\ sum[i] = sum[i - 1] + InBand(t, bands, i)
        /\ sum[i - 1] \in Int
    BY <1>1, <1>2, <1>3
  <2>2. s \in Band
    BY BandsAre
  <2>3. /\ s.upto = Top \/ s.upto \in Nat
        /\ i < n => s.upto # Top
        /\ i = n <=> s.upto = Top
    BY <1>1, BandsAre
  <2>4. /\ v.tax = sum[i - 1] /\ v.tax \in Int /\ v.lower \in Int
        /\ \/ v.lower = LowerEnd(bands, i)
           \/ t <= v.lower /\ \A j \in i .. n : t <= LowerEnd(bands, j)
    BY <1>5, <2>1 DEF BracketGood, BracketRec
  <2>5. LowerEnd(bands, i) \in Nat /\ (s.upto # Top => LowerEnd(bands, i) <= s.upto)
    BY InBandIs
  <2>6. CASE t <= v.lower
    <3>1. t <= LowerEnd(bands, i)
      BY <2>4, <2>6
    <3>2. InBand(t, bands, i) = 0
      BY <3>1, InBandIs
    <3>3. g[i] = v /\ sum[i] = sum[i - 1]
      BY <2>1, <2>2, <2>6, <3>2, InBracketType
    <3>4. \A j \in i + 1 .. n : t <= LowerEnd(bands, j)
      <4> SUFFICES ASSUME NEW j \in i + 1 .. n PROVE t <= LowerEnd(bands, j)
        OBVIOUS
      <4>1. j \in 1 .. n /\ i < j /\ i < n
        BY <1>1, <2>1
      <4>2. s.upto \in Nat /\ s.upto <= LowerEnd(bands, j) /\ LowerEnd(bands, j) \in Nat /\ s.upto # Top
        BY <2>3, <4>1, LowerEndsAscend, InBandIs
      <4> QED BY <2>5, <3>1, <4>2
    <3> QED BY <2>1, <2>4, <2>6, <3>3, <3>4 DEF BracketGood
  <2>7. CASE t > v.lower
    <3>1. v.lower = LowerEnd(bands, i)
      BY <2>4, <2>7
    <3>2. i < n => s.upto = LowerEnd(bands, i + 1)
      BY <2>1 DEF LowerEnd
    <3>3. Positive(t - v.lower) = t - v.lower
      BY <2>4, <2>7 DEF Positive
    <3>4. CASE s.upto = Top
      <4>1. g[i] = [tax |-> v.tax + (t - v.lower) * s.rate, lower |-> t]
        BY <2>1, <2>2, <2>7, <3>4, InBracketType
      <4>2. InBand(t, bands, i) = (t - v.lower) * s.rate
        BY <3>1, <3>3, <3>4, InBandIs
      <4>3. g[i].tax = sum[i] /\ g[i] \in BracketRec
        BY <1>2, <2>1, <2>4, <4>1, <4>2
      <4> QED BY <2>3, <3>4, <4>3 DEF BracketGood
    <3>5. CASE s.upto # Top /\ t <= s.upto
      <4>1. g[i] = [tax |-> v.tax + (t - v.lower) * s.rate, lower |-> s.upto]
        BY <2>1, <2>2, <2>7, <3>5, InBracketType
      <4>2. InBand(t, bands, i) = (t - v.lower) * s.rate
        <5>1. InBand(t, bands, i) = Positive(t - LowerEnd(bands, i)) * s.rate
          BY <3>5, InBandIs
        <5> QED BY <3>1, <3>3, <5>1
      <4>3. g[i].tax = sum[i] /\ g[i] \in BracketRec /\ g[i].lower = s.upto
        BY <1>2, <2>1, <2>4, <4>1, <4>2
      <4> QED BY <3>2, <4>3 DEF BracketGood
    <3>6. CASE s.upto # Top /\ t > s.upto
      <4>1. g[i] = [tax |-> v.tax + (s.upto - v.lower) * s.rate, lower |-> s.upto]
        BY <2>1, <2>2, <2>7, <3>6, InBracketType
      <4>2. InBand(t, bands, i) = (s.upto - v.lower) * s.rate
        BY <3>1, <3>6, InBandIs
      <4>3. g[i].tax = sum[i] /\ g[i] \in BracketRec /\ g[i].lower = s.upto
        BY <1>2, <2>1, <2>4, <4>1, <4>2
      <4> QED BY <3>2, <4>3 DEF BracketGood
    <3> QED BY <2>3, <3>4, <3>5, <3>6
  <2> QED BY <2>4, <2>6, <2>7
<1> DEFINE V == {p \in (0 .. n) \X BracketRec : BracketGood(t, bands, sum[p[1]], p[2], p[1])}
<1> HIDE DEF n
<1>6. <<0, g[0]>> \in V
  <2>1. g[0] \in BracketRec /\ 0 \in 0 .. n
    BY <1>1, <1>2
  <2> QED BY <1>4, <2>1
<1>7. ASSUME NEW i \in 1 .. n, <<i - 1, g[i - 1]>> \in V PROVE <<i, g[i]>> \in V
  <2>1. i - 1 \in 0 .. n /\ i \in 0 .. n
    BY <1>1
  <2>2. BracketGood(t, bands, sum[i - 1], g[i - 1], i - 1)
    BY <1>7, <2>1
  <2>3. BracketGood(t, bands, sum[i], g[i], i)
    BY <1>5, <2>2
  <2> QED BY <1>2, <2>1, <2>3
<1>8. <<n, g[n]>> \in V
  <2> HIDE DEF V
  <2>1. \A i \in 0 .. n : <<i, g[i]>> \in V
    BY <1>1, <1>6, <1>7, WalkKeeps
  <2> QED BY <1>1, <2>1
<1>9. g[n].tax = sum[n]
  BY <1>1, <1>8 DEF BracketGood
<1> QED BY <1>2, <1>3, <1>9

LEMMA MoreTimes ==
  ASSUME NEW a \in Nat, NEW b \in Nat, NEW r \in Nat, a <= b
  PROVE  a * r <= b * r /\ a * r \in Nat /\ b * r \in Nat
<1>1. PICK d \in Nat : b = a + d
  OBVIOUS
<1>2. b * r = a * r + d * r
  BY <1>1
<1>3. PICK p \in Nat, q \in Nat : p = a * r /\ q = d * r
  BY <1>1
<1> QED BY <1>2, <1>3

-------------------------------------------------------------------------------
(* More income is never taxed less.                                        *)
LEMMA BandTaxRises ==
  ASSUME NEW t \in Int, NEW u \in Int, t <= u, NEW bands, Ascending(bands)
  PROVE  BandTax(t, bands) \in Nat /\ BandTax(u, bands) \in Nat /\ BandTax(t, bands) <= BandTax(u, bands)
<1> DEFINE n == Len(bands)
<1>1. n \in Nat \ {0}
  BY BandsAre
<1>2. \A i \in 1 .. n : /\ InBand(t, bands, i) \in Nat /\ InBand(u, bands, i) \in Nat
                        /\ InBand(t, bands, i) <= InBand(u, bands, i)
  <2> SUFFICES ASSUME NEW i \in 1 .. n
               PROVE  /\ InBand(t, bands, i) \in Nat /\ InBand(u, bands, i) \in Nat
                      /\ InBand(t, bands, i) <= InBand(u, bands, i)
    OBVIOUS
  <2> DEFINE from == LowerEnd(bands, i)
             Upper(x) == IF bands[i].upto = Top THEN x ELSE Lesser(x, bands[i].upto)
             a == Positive(Upper(t) - from)
             b == Positive(Upper(u) - from)
  <2>1. bands[i].rate \in Nat /\ (bands[i].upto = Top \/ bands[i].upto \in Nat)
    BY BandsAre
  <2>2. from \in Nat
    BY InBandIs
  <2>3. a \in Nat /\ b \in Nat /\ a <= b
    BY <2>1, <2>2 DEF Positive, Lesser
  <2>4. InBand(t, bands, i) = a * bands[i].rate /\ InBand(u, bands, i) = b * bands[i].rate
    BY DEF InBand
  <2> HIDE DEF a, b
  <2>5. a * bands[i].rate <= b * bands[i].rate /\ a * bands[i].rate \in Nat /\ b * bands[i].rate \in Nat
    BY <2>1, <2>3, MoreTimes
  <2> QED BY <2>4, <2>5
<1>3. PICK f : /\ f[0] = 0 /\ BandTax(t, bands) = f[n]
               /\ \A i \in 1 .. n : f[i] = f[i - 1] + InBand(t, bands, i)
               /\ \A i \in 0 .. n : f[i] \in Int
  BY BandSums
<1>4. PICK g : /\ g[0] = 0 /\ BandTax(u, bands) = g[n]
               /\ \A i \in 1 .. n : g[i] = g[i - 1] + InBand(u, bands, i)
               /\ \A i \in 0 .. n : g[i] \in Int
  BY BandSums
<1> DEFINE V == {p \in Nat \X Nat : p[1] <= p[2]}
           h == [i \in 0 .. n |-> <<f[i], g[i]>>]
<1> HIDE DEF n
<1>5. h[0] \in V
  BY <1>1, <1>3, <1>4
<1>6. ASSUME NEW i \in 1 .. n, h[i - 1] \in V PROVE h[i] \in V
  <2>1. i - 1 \in 0 .. n /\ i \in 0 .. n
    BY <1>1
  <2>2. f[i - 1] \in Nat /\ g[i - 1] \in Nat /\ f[i - 1] <= g[i - 1]
    BY <1>6, <2>1
  <2>3. f[i] \in Nat /\ g[i] \in Nat /\ f[i] <= g[i]
    BY <1>2, <1>3, <1>4, <2>2
  <2> QED BY <2>1, <2>3
<1>7. h[n] \in V
  <2> HIDE DEF V, h
  <2>1. \A i \in 0 .. n : h[i] \in V
    BY <1>1, <1>5, <1>6, LoopKeeps
  <2> QED BY <1>1, <2>1
<1> QED BY <1>1, <1>3, <1>4, <1>7

-------------------------------------------------------------------------------
(* The year.                                                               *)
Profile == [old : BOOLEAN, before : Nat, paid : Nat,
            declared : [c80 : Nat, d80 : Nat, home : Nat, other : Nat]]

LEMMA RulesAre ==
  /\ Rules.newStandard \in Nat /\ Rules.oldStandard \in Nat
  /\ Rules.newRebate \in Nat /\ Rules.oldRebate \in Nat
  /\ Rules.cap80c \in Nat /\ Rules.cap80d \in Nat /\ Rules.capHome \in Nat
  /\ Ascending(Rules.newSlabs) /\ Ascending(Rules.oldSlabs)
  BY RulesAssumption

LEMMA DeclaredType ==
  ASSUME NEW d \in [c80 : Nat, d80 : Nat, home : Nat, other : Nat]
  PROVE  Declared(d) \in Int
  BY RulesAre DEF Declared, Lesser

LEMMA TaxableType ==
  ASSUME NEW year \in Int, NEW p \in Profile
  PROVE  /\ Taxable(year, p) \in Nat
         /\ \A more \in Nat : Taxable(year, p) <= Taxable(year + more, p)
<1> DEFINE off == IF p.old THEN Rules.oldStandard + Declared(p.declared) ELSE Rules.newStandard
<1>1. p.before \in Nat /\ off \in Int
  BY RulesAre, DeclaredType DEF Profile
<1>2. \A y : Taxable(y, p) = Positive(y + p.before - off)
  BY DEF Taxable
<1> HIDE DEF off
<1> QED BY <1>1, <1>2 DEF Positive

LEMMA TaxOf ==
  ASSUME NEW p \in Profile
  PROVE  \E bands, rebate :
            /\ Ascending(bands) /\ rebate \in Nat
            /\ \A year \in Int : AnnualTax(year, p) = IF Taxable(year, p) <= rebate THEN 0
                                                      ELSE 104 * BandTax(Taxable(year, p), bands)
            /\ \A year \in Int : \A q \in Profile :
                  q.old = p.old =>
                     AnnualTax(year, q) = IF Taxable(year, q) <= rebate THEN 0
                                          ELSE 104 * BandTax(Taxable(year, q), bands)
<1> DEFINE bands == IF p.old THEN Rules.oldSlabs ELSE Rules.newSlabs
           rebate == IF p.old THEN Rules.oldRebate ELSE Rules.newRebate
<1>1. Ascending(bands) /\ rebate \in Nat
  BY RulesAre
<1>2. ASSUME NEW year \in Int, NEW q \in Profile, q.old = p.old
      PROVE  AnnualTax(year, q) = IF Taxable(year, q) <= rebate THEN 0
                                  ELSE 104 * BandTax(Taxable(year, q), bands)
  <2>1. AnnualTax(year, q) = IF Taxable(year, q) <= rebate THEN 0
                             ELSE 104 * SlabTax(Taxable(year, q), bands)
    BY <1>2 DEF AnnualTax
  <2>2. Taxable(year, q) \in Int
    BY TaxableType
  <2> HIDE DEF bands, rebate
  <2>3. SlabTax(Taxable(year, q), bands) = BandTax(Taxable(year, q), bands)
    BY <1>1, <2>2, SlabAgrees
  <2> QED BY <2>1, <2>3
<1> QED BY <1>1, <1>2

LEMMA TaxRises ==
  ASSUME NEW year \in Int, NEW p \in Profile, NEW more \in Nat, NEW q \in Profile, NEW u \in Int,
         q.old = p.old, Taxable(year, p) <= Taxable(u, q)
  PROVE  AnnualTax(year, p) \in Nat /\ AnnualTax(u, q) \in Nat /\ AnnualTax(year, p) <= AnnualTax(u, q)
<1>1. PICK bands, rebate :
            /\ Ascending(bands) /\ rebate \in Nat
            /\ \A y \in Int : AnnualTax(y, p) = IF Taxable(y, p) <= rebate THEN 0
                                                ELSE 104 * BandTax(Taxable(y, p), bands)
            /\ \A y \in Int : \A r \in Profile :
                  r.old = p.old =>
                     AnnualTax(y, r) = IF Taxable(y, r) <= rebate THEN 0
                                       ELSE 104 * BandTax(Taxable(y, r), bands)
  BY TaxOf
<1> DEFINE a == Taxable(year, p)
           b == Taxable(u, q)
<1>2. a \in Nat /\ b \in Nat /\ a <= b
  BY TaxableType
<1>3. BandTax(a, bands) \in Nat /\ BandTax(b, bands) \in Nat /\ BandTax(a, bands) <= BandTax(b, bands)
  BY <1>1, <1>2, BandTaxRises
<1>4. AnnualTax(year, p) = IF a <= rebate THEN 0 ELSE 104 * BandTax(a, bands)
  BY <1>1
<1>5. AnnualTax(u, q) = IF b <= rebate THEN 0 ELSE 104 * BandTax(b, bands)
  BY <1>1
<1> HIDE DEF a, b
<1> QED BY <1>1, <1>2, <1>3, <1>4, <1>5

-------------------------------------------------------------------------------
(* Twelve months of TDS settle the year.                                   *)
LEMMA MonthsSettle ==
  ASSUME NEW due \in Nat, NEW paid \in Nat, due >= 10000 * paid
  PROVE  Distance(12 * HalfUp(due - 10000 * paid, 120000) + paid, HalfUp(due, 10000)) <= 6
<1> DEFINE r == due - 10000 * paid
           q == HalfUp(r, 120000)
           w == HalfUp(due, 10000)
<1>1. r \in Nat
  OBVIOUS
<1> HIDE DEF r
<1>2. q \in Int /\ 2 * r - 120000 <= 2 * (120000 * q) /\ 2 * (120000 * q) <= 2 * r + 120000
  BY <1>1, HalfUpNear
<1>3. w \in Int /\ 2 * due - 10000 <= 2 * (10000 * w) /\ 2 * (10000 * w) <= 2 * due + 10000
  BY HalfUpNear
<1> HIDE DEF q, w
<1>4. 12 * q + paid - w <= 6 /\ w - (12 * q + paid) <= 6
  BY <1>2, <1>3 DEF r
<1>5. Distance(12 * q + paid, w) <= 6
  BY <1>2, <1>3, <1>4 DEF Distance
<1> QED BY <1>5 DEF q, w, r

LEMMA TdsSettles ==
  ASSUME NEW year \in Int, NEW p \in Profile, AnnualTax(year, p) \in Nat,
         AnnualTax(year, p) >= 10000 * p.paid
  PROVE  Distance(12 * MonthlyTds(year, p) + p.paid, HalfUp(AnnualTax(year, p), 10000)) <= 6
<1> DEFINE due == AnnualTax(year, p)
<1>1. p.paid \in Nat /\ due \in Nat /\ due >= 10000 * p.paid
  BY DEF Profile
<1>2. MonthlyTds(year, p) = HalfUp(Positive(due - 10000 * p.paid), 120000)
  BY DEF MonthlyTds
<1> HIDE DEF due
<1>3. Positive(due - 10000 * p.paid) = due - 10000 * p.paid
  BY <1>1 DEF Positive
<1>4. Distance(12 * HalfUp(due - 10000 * p.paid, 120000) + p.paid, HalfUp(due, 10000)) <= 6
  BY <1>1, MonthsSettle
<1> QED BY <1>2, <1>3, <1>4 DEF due

-------------------------------------------------------------------------------
(* The lines of a package.                                                 *)
Codes == STRING \cup {Ctc}
RefFun == UNION {[S -> Int] : S \in SUBSET Codes}
Amounts == [code : STRING, amount : Int]
AccRec == [refs : RefFun, sum : Int, lines : Seq(Amounts), aside : Seq(STRING)]

LEMMA RefsAre ==
  ASSUME NEW refs \in RefFun
  PROVE  /\ DOMAIN refs \subseteq Codes
         /\ \A c \in DOMAIN refs : refs[c] \in Int
         /\ \A code \in STRING, amount \in Int : Naming(refs, code, amount) \in RefFun
<1>1. PICK S \in SUBSET Codes : refs \in [S -> Int]
  BY DEF RefFun
<1>2. ASSUME NEW code \in STRING, NEW amount \in Int
      PROVE  Naming(refs, code, amount) \in RefFun
  <2>1. Naming(refs, code, amount) \in [S \cup {code} -> Int]
    BY <1>1 DEF Naming
  <2>2. S \cup {code} \in SUBSET Codes
    BY <1>1 DEF Codes
  <2> QED BY <2>1, <2>2 DEF RefFun
<1> QED BY <1>1, <1>2

LEMMA ResolvedType ==
  ASSUME NEW line \in LineRec, line.kind # "balance", NEW refs \in RefFun, NEW base \in Int
  PROVE  Resolved(line, refs, base) \in Int
<1>1. line.amount \in Int /\ (line.kind = "fixed" \/ line.kind = "percent")
  BY DEF LineRec
<1> DEFINE whole == IF line.of = "" THEN base ELSE IF line.of \in DOMAIN refs THEN refs[line.of] ELSE 0
<1>2. whole \in Int
  <2>1. \A c \in DOMAIN refs : refs[c] \in Int
    BY RefsAre
  <2>2. CASE line.of = ""
    BY <2>2
  <2>3. CASE line.of # "" /\ line.of \in DOMAIN refs
    <3>1. whole = refs[line.of]
      BY <2>3
    <3> QED BY <2>1, <2>3, <3>1
  <2>4. CASE line.of # "" /\ line.of \notin DOMAIN refs
    <3>1. whole = 0
      BY <2>4
    <3> HIDE DEF whole
    <3> QED BY <3>1
  <2> QED BY <2>2, <2>3, <2>4
<1>3. line.kind = "percent" => Resolved(line, refs, base) = HalfUp(line.amount * whole, 100)
  BY DEF Resolved
<1> HIDE DEF whole
<1>4. line.amount * whole \in Int /\ 100 \in Nat \ {0}
  BY <1>1, <1>2
<1>5. HalfUp(line.amount * whole, 100) \in Int
  BY <1>4, HalfUpNear
<1>6. line.kind = "fixed" => Resolved(line, refs, base) = line.amount
  BY DEF Resolved
<1> QED BY <1>1, <1>3, <1>5, <1>6

LEMMA LineAddedType ==
  ASSUME NEW acc \in AccRec, NEW line \in LineRec, NEW base \in Seq(Int)
  PROVE  /\ LineAdded(acc, line, base) \in AccRec
         /\ line.kind = "balance" =>
               LineAdded(acc, line, base) = [refs |-> acc.refs, sum |-> acc.sum, lines |-> acc.lines,
                                             aside |-> Append(acc.aside, line.code)]
         /\ line.kind # "balance" =>
               \E row \in Amounts :
                  /\ LineAdded(acc, line, base).sum = acc.sum + row.amount
                  /\ LineAdded(acc, line, base).lines = Append(acc.lines, row)
                  /\ LineAdded(acc, line, base).aside = acc.aside
<1> DEFINE b == IF base = Running THEN acc.sum ELSE base[1]
           amount == Resolved(line, acc.refs, b)
           row == [code |-> line.code, amount |-> amount]
<1>1. /\ acc.refs \in RefFun /\ acc.sum \in Int /\ acc.lines \in Seq(Amounts) /\ acc.aside \in Seq(STRING)
      /\ acc = [refs |-> acc.refs, sum |-> acc.sum, lines |-> acc.lines, aside |-> acc.aside]
      /\ line.code \in STRING
  BY DEF AccRec, LineRec
<1>2. CASE line.kind = "balance"
  <2>1. Append(acc.aside, line.code) \in Seq(STRING)
    BY <1>1
  <2>2. LineAdded(acc, line, base) = [acc EXCEPT !.aside = Append(@, line.code)]
    BY <1>2 DEF LineAdded
  <2>3. LineAdded(acc, line, base) = [refs |-> acc.refs, sum |-> acc.sum, lines |-> acc.lines,
                                      aside |-> Append(acc.aside, line.code)]
    BY <1>1, <2>2
  <2> QED BY <1>1, <1>2, <2>1, <2>3 DEF AccRec
<1>3. CASE line.kind # "balance"
  <2>1. b \in Int
    <3>1. CASE base = Running
      BY <1>1, <3>1
    <3>2. CASE base # Running
      <4>1. Len(base) \in Nat \ {0}
        BY <3>2 DEF Running
      <4>2. base[1] \in Int /\ b = base[1]
        BY <3>2, <4>1
      <4> HIDE DEF b
      <4> QED BY <4>2
    <3> QED BY <3>1, <3>2
  <2> HIDE DEF b
  <2>2. amount \in Int
    BY <1>1, <1>3, <2>1, ResolvedType
  <2>3. LineAdded(acc, line, base) = [refs |-> Naming(acc.refs, line.code, amount), sum |-> acc.sum + amount,
                                      lines |-> Append(acc.lines, row), aside |-> acc.aside]
    BY <1>3 DEF LineAdded, b
  <2> HIDE DEF amount
  <2>4. row \in Amounts /\ row.amount = amount
    BY <1>1, <2>2 DEF Amounts
  <2> HIDE DEF row
  <2>5. Append(acc.lines, row) \in Seq(Amounts)
    BY <1>1, <2>4
  <2>6. Naming(acc.refs, line.code, amount) \in RefFun /\ acc.sum + amount \in Int
    BY <1>1, <2>2, RefsAre
  <2>7. LineAdded(acc, line, base) \in AccRec
    BY <1>1, <2>3, <2>5, <2>6 DEF AccRec
  <2> QED BY <1>3, <2>3, <2>4, <2>7
<1> QED BY <1>2, <1>3

LEMMA LinesRun ==
  ASSUME NEW lines \in Seq(LineRec), NEW refs \in RefFun, NEW base \in Seq(Int)
  PROVE  \E g : /\ g[0] = [refs |-> refs, sum |-> 0, lines |-> <<>>, aside |-> <<>>]
                /\ \A i \in 1 .. Len(lines) : g[i] = LineAdded(g[i - 1], lines[i], base)
                /\ \A i \in 0 .. Len(lines) : g[i] \in AccRec
                /\ Resolve(lines, refs, base) = g[Len(lines)]
<1> DEFINE n == Len(lines)
           first == [refs |-> refs, sum |-> 0, lines |-> <<>>, aside |-> <<>>]
           F == [p \in (1 .. n) \X AccRec |-> LineAdded(p[2], lines[p[1]], base)]
           Runs(g) == g = [i \in 0 .. n |-> IF i = 0 THEN first ELSE LineAdded(g[i - 1], lines[i], base)]
<1>0. n \in Nat /\ \A i \in 1 .. n : lines[i] \in LineRec
  BY RowsShape
<1>1. first \in AccRec
  BY DEF AccRec
<1>2. \A i \in 1 .. n, v \in AccRec : F[<<i, v>>] = LineAdded(v, lines[i], base) /\ F[<<i, v>>] \in AccRec
  <2> SUFFICES ASSUME NEW i \in 1 .. n, NEW v \in AccRec
               PROVE  F[<<i, v>>] = LineAdded(v, lines[i], base) /\ LineAdded(v, lines[i], base) \in AccRec
    OBVIOUS
  <2>1. LineAdded(v, lines[i], base) \in AccRec
    BY <1>0, LineAddedType
  <2> QED BY <2>1
<1> HIDE DEF F
<1>3. PICK f : Loop(f, n, first, F)
  <2> HIDE DEF first, n
  <2> QED BY <1>0, <1>1, <1>2, LoopExists
<1>4. f[0] = first /\ f = [i \in 0 .. n |-> f[i]] /\ \A i \in 1 .. n : f[i] = F[<<i, f[i - 1]>>]
  <2> HIDE DEF first, n
  <2> QED BY <1>3 DEF Loop
<1>5. \A i \in 0 .. n : f[i] \in AccRec
  <2> HIDE DEF first, n
  <2>1. f[0] \in AccRec /\ \A i \in 1 .. n : f[i - 1] \in AccRec => f[i] \in AccRec
    BY <1>1, <1>2, <1>4
  <2> QED BY <1>0, <2>1, LoopKeeps
<1>6. Runs(f)
  <2> HIDE DEF first
  <2>1. \A i \in 0 .. n : f[i] = IF i = 0 THEN first ELSE LineAdded(f[i - 1], lines[i], base)
    <3> HIDE DEF n
    <3> TAKE i \in 0 .. n
    <3>1. i # 0 => i \in 1 .. n /\ i - 1 \in 0 .. n
      BY <1>0
    <3> QED BY <1>2, <1>4, <1>5, <3>1
  <2> QED BY <1>4, <2>1
<1>7. PICK g : Runs(g) /\ Resolve(lines, refs, base) = g[n]
  BY <1>6 DEF Resolve, n, first
<1>8. g[0] = first /\ \A i \in 1 .. n : g[i] = LineAdded(g[i - 1], lines[i], base)
  <2> HIDE DEF first
  <2>1. \A i \in 0 .. n : g[i] = IF i = 0 THEN first ELSE LineAdded(g[i - 1], lines[i], base)
    BY <1>7
  <2> HIDE DEF n
  <2>2. 0 \in 0 .. n /\ \A i \in 1 .. n : i \in 0 .. n /\ i # 0
    BY <1>0
  <2> QED BY <2>1, <2>2
<1>9. \A i \in 0 .. n : g[i] \in AccRec
  <2> HIDE DEF first, n, Runs
  <2>1. g[0] \in AccRec /\ \A i \in 1 .. n : g[i - 1] \in AccRec => g[i] \in AccRec
    BY <1>1, <1>2, <1>8
  <2> QED BY <1>0, <2>1, LoopKeeps
<1> QED BY <1>7, <1>8, <1>9

-------------------------------------------------------------------------------
(* Totals.                                                                 *)
LEMMA TotalsMeet ==
  ASSUME NEW a, NEW b, Len(a) \in Nat, Len(b) \in Nat, Len(a) <= Len(b),
         \A i \in 1 .. Len(a) : a[i] = b[i], NEW f, Sums(f, a), NEW g, Sums(g, b)
  PROVE  f[Len(a)] = g[Len(a)]
<1> DEFINE n == Len(a)
           W == {p \in Int \X Int : p[1] = p[2]}
           h == [i \in 0 .. n |-> <<f[i], g[i]>>]
<1>1. /\ n \in Nat /\ f[0] = 0 /\ g[0] = 0
      /\ \A i \in 0 .. n : f[i] \in Int /\ g[i] \in Int
      /\ \A i \in 1 .. n : f[i] = f[i - 1] + a[i] /\ g[i] = g[i - 1] + a[i]
  <2>1. \A i \in 0 .. n : i \in 0 .. Len(b)
    OBVIOUS
  <2>2. \A i \in 1 .. n : i \in 1 .. Len(b)
    OBVIOUS
  <2> QED BY <2>1, <2>2 DEF Sums
<1> HIDE DEF n
<1>2. h[0] \in W
  BY <1>1
<1>3. ASSUME NEW i \in 1 .. n, h[i - 1] \in W PROVE h[i] \in W
  <2>1. i - 1 \in 0 .. n /\ i \in 0 .. n
    BY <1>1
  <2> QED BY <1>1, <1>3, <2>1
<1>4. h[n] \in W
  <2> HIDE DEF W, h
  <2>1. \A i \in 0 .. n : h[i] \in W
    BY <1>1, <1>2, <1>3, LoopKeeps
  <2> QED BY <1>1, <2>1
<1> QED BY <1>1, <1>4 DEF n

LEMMA TotalSame ==
  ASSUME NEW a, NEW b, Len(a) \in Nat, Len(b) = Len(a),
         \A i \in 1 .. Len(a) : a[i] = b[i] /\ a[i] \in Int
  PROVE  TotalOf(a) = TotalOf(b) /\ TotalOf(a) \in Int
<1>1. PICK f : Sums(f, a) /\ TotalOf(a) = f[Len(a)]
  BY TotalRuns
<1>2. PICK g : Sums(g, b) /\ TotalOf(b) = g[Len(b)]
  BY TotalRuns
<1>3. f[Len(a)] = g[Len(a)]
  BY <1>1, <1>2, TotalsMeet
<1>4. f[Len(a)] \in Int
  BY <1>1 DEF Sums
<1> QED BY <1>1, <1>2, <1>3, <1>4

LEMMA TotalLonger ==
  ASSUME NEW a, NEW b, Len(a) \in Nat, Len(b) = Len(a) + 1,
         \A i \in 1 .. Len(a) : a[i] = b[i], \A i \in 1 .. Len(b) : b[i] \in Int
  PROVE  TotalOf(b) = TotalOf(a) + b[Len(b)]
<1>1. \A i \in 1 .. Len(a) : a[i] \in Int
  OBVIOUS
<1>2. PICK f : Sums(f, a) /\ TotalOf(a) = f[Len(a)]
  BY <1>1, TotalRuns
<1>3. PICK g : Sums(g, b) /\ TotalOf(b) = g[Len(b)]
  BY TotalRuns
<1>4. f[Len(a)] = g[Len(a)]
  BY <1>2, <1>3, TotalsMeet
<1>5. g[Len(b)] = g[Len(b) - 1] + b[Len(b)] /\ Len(b) - 1 = Len(a)
  BY <1>3 DEF Sums
<1> QED BY <1>2, <1>3, <1>4, <1>5

(* A list after another.                                                   *)
LEMMA TotalJoined ==
  ASSUME NEW a, NEW b, NEW c, Len(a) \in Nat, Len(b) \in Nat, Len(c) = Len(a) + Len(b),
         \A i \in 1 .. Len(a) : c[i] = a[i] /\ a[i] \in Int,
         \A i \in 1 .. Len(b) : c[Len(a) + i] = b[i] /\ b[i] \in Int
  PROVE  TotalOf(c) = TotalOf(a) + TotalOf(b)
<1> DEFINE m == Len(a)
           n == Len(b)
<1>1. \A i \in 1 .. Len(c) : c[i] \in Int
  <2> TAKE i \in 1 .. Len(c)
  <2>1. CASE i <= m
    <3>1. i \in 1 .. m
      BY <2>1
    <3> QED BY <3>1
  <2>2. CASE i > m
    <3>1. i - m \in 1 .. n /\ m + (i - m) = i
      BY <2>2
    <3> QED BY <3>1
  <2> QED BY <2>1, <2>2
<1>2. PICK f : Sums(f, a) /\ TotalOf(a) = f[m]
  BY TotalRuns
<1>3. PICK g : Sums(g, b) /\ TotalOf(b) = g[n]
  BY TotalRuns
<1>4. PICK k : Sums(k, c) /\ TotalOf(c) = k[Len(c)]
  <2>1. Len(c) \in Nat
    OBVIOUS
  <2> QED BY <1>1, <2>1, TotalRuns
<1>5. f[m] = k[m] /\ f[m] \in Int
  <2>1. f[m] = k[m]
    BY <1>2, <1>4, TotalsMeet
  <2> QED BY <1>2, <2>1 DEF Sums
<1> DEFINE W == {p \in Int \X Int : p[1] = f[m] + p[2]}
           h == [i \in 0 .. n |-> <<k[m + i], g[i]>>]
<1>6. /\ m \in Nat /\ n \in Nat /\ g[0] = 0 /\ m + 0 = m /\ Len(c) = m + n
      /\ \A i \in 0 .. n : k[m + i] \in Int /\ g[i] \in Int
      /\ \A i \in 1 .. n : g[i] = g[i - 1] + b[i] /\ k[m + i] = k[m + (i - 1)] + b[i]
  <2>1. \A i \in 0 .. n : m + i \in 0 .. Len(c)
    OBVIOUS
  <2>2. \A i \in 1 .. n : m + i \in 1 .. Len(c) /\ m + i - 1 = m + (i - 1) /\ c[m + i] = b[i]
    OBVIOUS
  <2> QED BY <1>3, <1>4, <2>1, <2>2 DEF Sums
<1> HIDE DEF m, n
<1>7. h[0] \in W
  BY <1>5, <1>6
<1>8. ASSUME NEW i \in 1 .. n, h[i - 1] \in W PROVE h[i] \in W
  <2>1. i - 1 \in 0 .. n /\ i \in 0 .. n
    BY <1>6
  <2>2. k[m + (i - 1)] = f[m] + g[i - 1] /\ k[m + (i - 1)] \in Int /\ g[i - 1] \in Int
    BY <1>6, <1>8, <2>1
  <2>3. b[i] \in Int
    BY DEF n
  <2>4. k[m + i] = f[m] + g[i]
    <3>1. g[i] = g[i - 1] + b[i] /\ k[m + i] = k[m + (i - 1)] + b[i]
      BY <1>6
    <3>2. (f[m] + g[i - 1]) + b[i] = f[m] + (g[i - 1] + b[i])
      BY <1>5, <2>2, <2>3
    <3> QED BY <2>2, <3>1, <3>2
  <2> QED BY <1>6, <2>1, <2>4
<1>9. h[n] \in W
  <2> HIDE DEF W, h
  <2>1. \A i \in 0 .. n : h[i] \in W
    BY <1>6, <1>7, <1>8, LoopKeeps
  <2> QED BY <1>6, <2>1
<1>10. k[m + n] = f[m] + g[n]
  BY <1>6, <1>9
<1> QED BY <1>2, <1>3, <1>4, <1>6, <1>10

(* The same amount over and over.                                          *)
LEMMA TotalRepeated ==
  ASSUME NEW a, Len(a) \in Nat, NEW x \in Int, \A i \in 1 .. Len(a) : a[i] = x
  PROVE  TotalOf(a) = Len(a) * x
<1> DEFINE n == Len(a)
           V == {p \in (0 .. n) \X Int : p[2] = p[1] * x}
<1>1. PICK f : Sums(f, a) /\ TotalOf(a) = f[n]
  BY TotalRuns
<1>2. /\ n \in Nat /\ f[0] = 0
      /\ \A i \in 0 .. n : f[i] \in Int
      /\ \A i \in 1 .. n : f[i] = f[i - 1] + x
  BY <1>1 DEF Sums
<1> HIDE DEF n
<1>3. <<0, f[0]>> \in V
  <2>1. 0 * x = 0
    OBVIOUS
  <2> QED BY <1>2, <2>1
<1>4. ASSUME NEW i \in 1 .. n, <<i - 1, f[i - 1]>> \in V PROVE <<i, f[i]>> \in V
  <2>1. i - 1 \in 0 .. n /\ i \in 0 .. n /\ i \in Int
    BY <1>2
  <2>2. f[i - 1] = (i - 1) * x
    BY <1>4
  <2>3. (i - 1) * x + x = i * x
    BY <2>1
  <2> QED BY <1>2, <2>1, <2>2, <2>3
<1>5. <<n, f[n]>> \in V
  <2> HIDE DEF V
  <2>1. \A i \in 0 .. n : <<i, f[i]>> \in V
    BY <1>2, <1>3, <1>4, WalkKeeps
  <2> QED BY <1>2, <2>1
<1> QED BY <1>1, <1>5 DEF n

LEMMA NearStep ==
  ASSUME NEW w \in Nat, NEW m \in Nat, NEW x \in Int, NEW y \in Int, NEW c \in Int, NEW d \in Int,
         NEW i \in Int,
         2 * (w * y) - 2 * (m * x) <= w * (i - 1), 2 * (m * x) - 2 * (w * y) <= w * (i - 1),
         2 * (w * d) - 2 * (m * c) <= w, 2 * (m * c) - 2 * (w * d) <= w
  PROVE  /\ 2 * (w * (y + d)) - 2 * (m * (x + c)) <= w * i
         /\ 2 * (m * (x + c)) - 2 * (w * (y + d)) <= w * i
<1>1. w * (y + d) = w * y + w * d
  OBVIOUS
<1>2. m * (x + c) = m * x + m * c
  OBVIOUS
<1>3. w * (i - 1) = w * i - w
  OBVIOUS
<1>4. PICK wy \in Int : wy = w * y
  OBVIOUS
<1>5. PICK wd \in Int : wd = w * d
  OBVIOUS
<1>6. PICK mx \in Int : mx = m * x
  OBVIOUS
<1>7. PICK mc \in Int : mc = m * c
  OBVIOUS
<1>8. PICK wi \in Int : wi = w * i
  OBVIOUS
<1>9. /\ 2 * wy - 2 * mx <= wi - w /\ 2 * mx - 2 * wy <= wi - w
      /\ 2 * wd - 2 * mc <= w /\ 2 * mc - 2 * wd <= w
  BY <1>3, <1>4, <1>5, <1>6, <1>7, <1>8
<1>10. /\ 2 * (wy + wd) - 2 * (mx + mc) <= wi
       /\ 2 * (mx + mc) - 2 * (wy + wd) <= wi
  BY <1>9
<1> QED BY <1>1, <1>2, <1>4, <1>5, <1>6, <1>7, <1>8, <1>10

(* Each amount is near its share, so the total is near its share.           *)
LEMMA TotalNear ==
  ASSUME NEW a, NEW b, Len(a) \in Nat, Len(b) = Len(a), NEW w \in Nat, NEW m \in Nat,
         \A i \in 1 .. Len(a) : /\ a[i] \in Int /\ b[i] \in Int
                                /\ 2 * (w * b[i]) - 2 * (m * a[i]) <= w
                                /\ 2 * (m * a[i]) - 2 * (w * b[i]) <= w
  PROVE  /\ TotalOf(a) \in Int /\ TotalOf(b) \in Int
         /\ 2 * (w * TotalOf(b)) - 2 * (m * TotalOf(a)) <= w * Len(a)
         /\ 2 * (m * TotalOf(a)) - 2 * (w * TotalOf(b)) <= w * Len(a)
<1> DEFINE n == Len(a)
           Near(x, y, i) == /\ x \in Int /\ y \in Int
                            /\ 2 * (w * y) - 2 * (m * x) <= w * i
                            /\ 2 * (m * x) - 2 * (w * y) <= w * i
<1>1. PICK f : Sums(f, a) /\ TotalOf(a) = f[n]
  BY TotalRuns
<1>2. PICK g : Sums(g, b) /\ TotalOf(b) = g[n]
  BY TotalRuns
<1>3. /\ n \in Nat /\ f[0] = 0 /\ g[0] = 0
      /\ \A i \in 0 .. n : f[i] \in Int /\ g[i] \in Int
      /\ \A i \in 1 .. n : f[i] = f[i - 1] + a[i] /\ g[i] = g[i - 1] + b[i]
  BY <1>1, <1>2 DEF Sums
<1>4. Near(f[0], g[0], 0)
  <2>1. w * 0 = 0 /\ m * 0 = 0
    OBVIOUS
  <2> QED BY <1>3, <2>1
<1>5. ASSUME NEW i \in 1 .. n, Near(f[i - 1], g[i - 1], i - 1) PROVE Near(f[i], g[i], i)
  <2> DEFINE x == f[i - 1]
             y == g[i - 1]
  <2>1. f[i] = x + a[i] /\ g[i] = y + b[i] /\ a[i] \in Int /\ b[i] \in Int /\ x \in Int /\ y \in Int /\ i \in Int
    BY <1>3, <1>5
  <2>2. /\ 2 * (w * y) - 2 * (m * x) <= w * (i - 1)
        /\ 2 * (m * x) - 2 * (w * y) <= w * (i - 1)
    BY <1>5
  <2>3. /\ 2 * (w * b[i]) - 2 * (m * a[i]) <= w
        /\ 2 * (m * a[i]) - 2 * (w * b[i]) <= w
    OBVIOUS
  <2> HIDE DEF x, y
  <2>4. /\ 2 * (w * (y + b[i])) - 2 * (m * (x + a[i])) <= w * i
        /\ 2 * (m * (x + a[i])) - 2 * (w * (y + b[i])) <= w * i
    BY <2>1, <2>2, <2>3, NearStep
  <2>5. f[i] \in Int /\ g[i] \in Int
    <3>1. i \in 0 .. n
      BY <1>3
    <3> QED BY <1>3, <3>1
  <2> QED BY <2>1, <2>4, <2>5
<1> DEFINE V == {p \in (0 .. n) \X (Int \X Int) : Near(p[2][1], p[2][2], p[1])}
           h == [i \in 0 .. n |-> <<f[i], g[i]>>]
<1> HIDE DEF n, Near
<1>6. <<0, h[0]>> \in V
  <2>1. h[0] = <<f[0], g[0]>> /\ 0 \in 0 .. n /\ <<f[0], g[0]>> \in Int \X Int
    BY <1>3
  <2> QED BY <1>4, <2>1
<1>7. ASSUME NEW i \in 1 .. n, <<i - 1, h[i - 1]>> \in V PROVE <<i, h[i]>> \in V
  <2>1. i - 1 \in 0 .. n /\ i \in 0 .. n
    BY <1>3
  <2>2. h[i - 1] = <<f[i - 1], g[i - 1]>> /\ h[i] = <<f[i], g[i]>> /\ <<f[i], g[i]>> \in Int \X Int
    BY <1>3, <2>1
  <2>3. Near(f[i], g[i], i)
    BY <1>5, <1>7, <2>2
  <2> QED BY <2>1, <2>2, <2>3
<1>8. <<n, h[n]>> \in V
  <2> HIDE DEF V, h
  <2>1. \A i \in 0 .. n : <<i, h[i]>> \in V
    BY <1>3, <1>6, <1>7, WalkKeeps
  <2> QED BY <1>3, <2>1
<1>9. Near(f[n], g[n], n)
  <2>1. h[n] = <<f[n], g[n]>>
    BY <1>3
  <2> QED BY <1>8, <2>1
<1> QED BY <1>1, <1>2, <1>9 DEF Near, n

-------------------------------------------------------------------------------
(* Sums of lines.                                                          *)
LEMMA SumIs ==
  ASSUME NEW lines \in Seq(Amounts)
  PROVE  LET a == [i \in DOMAIN lines |-> lines[i].amount]
         IN  /\ SumOf(lines) = TotalOf(a) /\ SumOf(lines) \in Int
             /\ Len(a) = Len(lines) /\ Len(lines) \in Nat /\ DOMAIN lines = 1 .. Len(lines)
             /\ \A i \in 1 .. Len(lines) : a[i] = lines[i].amount /\ lines[i].amount \in Int /\ lines[i] \in Amounts
<1> DEFINE a == [i \in DOMAIN lines |-> lines[i].amount]
<1>1. Len(lines) \in Nat /\ DOMAIN lines = 1 .. Len(lines) /\ \A i \in 1 .. Len(lines) : lines[i] \in Amounts
  BY RowsShape
<1>2. \A i \in 1 .. Len(lines) : a[i] = lines[i].amount /\ lines[i].amount \in Int
  BY <1>1 DEF Amounts
<1>3. a = [i \in DOMAIN lines |-> a[i]] /\ \A i \in DOMAIN lines : a[i] \in Int
  BY <1>1, <1>2
<1>4. SumOf(lines) = TotalOf(a)
  BY DEF SumOf
<1> HIDE DEF a
<1>5. Len(a) = Len(lines)
  BY <1>3, RowsMapped
<1>6. TotalOf(a) \in Int
  BY <1>1, <1>2, <1>5, TotalSame
<1> QED BY <1>1, <1>2, <1>4, <1>5, <1>6 DEF a

LEMMA SumSameAmounts ==
  ASSUME NEW p \in Seq(Amounts), NEW q \in Seq(Amounts), Len(p) = Len(q),
         \A i \in 1 .. Len(p) : p[i].amount = q[i].amount
  PROVE  SumOf(p) = SumOf(q)
<1> DEFINE a == [i \in DOMAIN p |-> p[i].amount]
           b == [i \in DOMAIN q |-> q[i].amount]
<1>1. /\ SumOf(p) = TotalOf(a) /\ Len(a) = Len(p) /\ Len(p) \in Nat
      /\ \A i \in 1 .. Len(p) : a[i] = p[i].amount /\ p[i].amount \in Int
  BY SumIs
<1>2. /\ SumOf(q) = TotalOf(b) /\ Len(b) = Len(q)
      /\ \A i \in 1 .. Len(q) : b[i] = q[i].amount
  BY SumIs
<1> HIDE DEF a, b
<1>4. /\ Len(a) \in Nat /\ Len(b) = Len(a)
      /\ \A i \in 1 .. Len(a) : a[i] \in Int /\ a[i] = b[i]
  BY <1>1, <1>2
<1>3. TotalOf(a) = TotalOf(b)
  BY <1>4, TotalSame
<1> QED BY <1>1, <1>2, <1>3

LEMMA SumNone == SumOf(<<>>) = 0
<1> DEFINE none == [i \in DOMAIN <<>> |-> <<>>[i].amount]
<1>1. <<>> \in Seq(Amounts) /\ Len(<<>>) = 0
  OBVIOUS
<1>2. SumOf(<<>>) = TotalOf(none) /\ Len(none) = 0
  BY <1>1, SumIs
<1> HIDE DEF none
<1>3. \A i \in 1 .. Len(none) : none[i] = 0
  BY <1>2
<1>4. 0 \in Int /\ Len(none) \in Nat
  BY <1>2
<1>5. TotalOf(none) = Len(none) * 0
  BY <1>3, <1>4, TotalRepeated
<1> QED BY <1>2, <1>5

LEMMA SumAppended ==
  ASSUME NEW lines \in Seq(Amounts), NEW row \in Amounts
  PROVE  SumOf(Append(lines, row)) = SumOf(lines) + row.amount
<1> DEFINE p == Append(lines, row)
           a == [i \in DOMAIN lines |-> lines[i].amount]
           b == [i \in DOMAIN p |-> p[i].amount]
<1>2. p \in Seq(Amounts) /\ Len(p) = Len(lines) + 1 /\ p[Len(lines) + 1] = row
      /\ \A i \in DOMAIN lines : p[i] = lines[i]
  BY RowsAppended
<1>3. /\ SumOf(lines) = TotalOf(a) /\ Len(a) = Len(lines) /\ Len(lines) \in Nat /\ DOMAIN lines = 1 .. Len(lines)
      /\ \A i \in 1 .. Len(lines) : a[i] = lines[i].amount
  BY SumIs
<1> HIDE DEF p
<1>4. /\ SumOf(p) = TotalOf(b) /\ Len(b) = Len(p)
      /\ \A i \in 1 .. Len(p) : b[i] = p[i].amount /\ b[i] \in Int
  BY <1>2, SumIs
<1> HIDE DEF a, b
<1>5. \A i \in 1 .. Len(a) : a[i] = b[i]
  <2> TAKE i \in 1 .. Len(a)
  <2>1. i \in 1 .. Len(lines) /\ i \in 1 .. Len(p)
    BY <1>2, <1>3
  <2> QED BY <1>2, <1>3, <1>4, <2>1
<1>6. TotalOf(b) = TotalOf(a) + b[Len(b)]
  <2>1. Len(a) \in Nat /\ Len(b) = Len(a) + 1
    BY <1>2, <1>3, <1>4
  <2>2. \A i \in 1 .. Len(b) : b[i] \in Int
    BY <1>4
  <2> QED BY <1>5, <2>1, <2>2, TotalLonger
<1>7. b[Len(b)] = row.amount
  <2>1. Len(b) \in 1 .. Len(p) /\ Len(b) = Len(lines) + 1
    BY <1>2, <1>3, <1>4
  <2> QED BY <1>2, <1>4, <2>1
<1>8. SumOf(p) = SumOf(lines) + row.amount
  BY <1>3, <1>4, <1>6, <1>7
<1> QED BY <1>8 DEF p

LEMMA SumJoined ==
  ASSUME NEW p \in Seq(Amounts), NEW q \in Seq(Amounts)
  PROVE  SumOf(p \o q) = SumOf(p) + SumOf(q)
<1> DEFINE c == p \o q
           a1 == [i \in DOMAIN p |-> p[i].amount]
           b1 == [i \in DOMAIN q |-> q[i].amount]
           c1 == [i \in DOMAIN c |-> c[i].amount]
<1>1. /\ c \in Seq(Amounts) /\ Len(c) = Len(p) + Len(q)
      /\ \A i \in DOMAIN p : c[i] = p[i]
      /\ \A i \in DOMAIN q : c[Len(p) + i] = q[i]
  BY RowsJoined
<1>2. /\ SumOf(p) = TotalOf(a1) /\ Len(a1) = Len(p) /\ Len(p) \in Nat /\ DOMAIN p = 1 .. Len(p)
      /\ \A i \in 1 .. Len(p) : a1[i] = p[i].amount /\ a1[i] \in Int
  BY SumIs
<1>3. /\ SumOf(q) = TotalOf(b1) /\ Len(b1) = Len(q) /\ Len(q) \in Nat /\ DOMAIN q = 1 .. Len(q)
      /\ \A i \in 1 .. Len(q) : b1[i] = q[i].amount /\ b1[i] \in Int
  BY SumIs
<1> HIDE DEF c
<1>4. /\ SumOf(c) = TotalOf(c1) /\ Len(c1) = Len(c)
      /\ \A i \in 1 .. Len(c) : c1[i] = c[i].amount
  BY <1>1, SumIs
<1> HIDE DEF a1, b1, c1
<1>5. \A i \in 1 .. Len(a1) : c1[i] = a1[i] /\ a1[i] \in Int
  <2> TAKE i \in 1 .. Len(a1)
  <2>1. i \in 1 .. Len(p) /\ i \in 1 .. Len(c)
    BY <1>1, <1>2, <1>3
  <2> QED BY <1>1, <1>2, <1>4, <2>1
<1>6. \A i \in 1 .. Len(b1) : c1[Len(a1) + i] = b1[i] /\ b1[i] \in Int
  <2> TAKE i \in 1 .. Len(b1)
  <2>1. i \in 1 .. Len(q) /\ Len(p) + i \in 1 .. Len(c)
    BY <1>1, <1>2, <1>3
  <2> QED BY <1>1, <1>2, <1>3, <1>4, <2>1
<1>7. Len(a1) \in Nat /\ Len(b1) \in Nat /\ Len(c1) = Len(a1) + Len(b1)
  BY <1>1, <1>2, <1>3, <1>4
<1>8. TotalOf(c1) = TotalOf(a1) + TotalOf(b1)
  BY <1>5, <1>6, <1>7, TotalJoined
<1> QED BY <1>2, <1>3, <1>4, <1>8 DEF c

-------------------------------------------------------------------------------
(* What a list of lines resolves to.                                       *)
Balances(lines, n) == {i \in 1 .. n : lines[i].kind = "balance"}

LinesGood(lines, v, i) ==
  /\ v \in AccRec /\ v.sum = SumOf(v.lines)
  /\ IsFiniteSet(Balances(lines, i)) /\ Len(v.aside) = Cardinality(Balances(lines, i))

LEMMA ResolveAre ==
  ASSUME NEW lines \in Seq(LineRec), NEW refs \in RefFun, NEW base \in Seq(Int)
  PROVE  LinesGood(lines, Resolve(lines, refs, base), Len(lines))
<1> DEFINE n == Len(lines)
<1>1. PICK g : /\ g[0] = [refs |-> refs, sum |-> 0, lines |-> <<>>, aside |-> <<>>]
               /\ \A i \in 1 .. n : g[i] = LineAdded(g[i - 1], lines[i], base)
               /\ \A i \in 0 .. n : g[i] \in AccRec
               /\ Resolve(lines, refs, base) = g[n]
  BY LinesRun
<1>2. n \in Nat /\ \A i \in 1 .. n : lines[i] \in LineRec
  BY RowsShape
<1> HIDE DEF n
<1>3. LinesGood(lines, g[0], 0)
  <2>1. Balances(lines, 0) = {}
    BY DEF Balances
  <2>2. g[0] \in AccRec /\ g[0].sum = 0 /\ g[0].lines = <<>> /\ g[0].aside = <<>>
    BY <1>1, <1>2
  <2>3. IsFiniteSet({}) /\ Cardinality({}) = 0
    BY FS_EmptySet
  <2> QED BY <2>1, <2>2, <2>3, SumNone DEF LinesGood
<1>4. ASSUME NEW i \in 1 .. n, LinesGood(lines, g[i - 1], i - 1)
      PROVE  LinesGood(lines, g[i], i)
  <2> DEFINE v == g[i - 1]
             line == lines[i]
  <2>1. v \in AccRec /\ line \in LineRec /\ g[i] = LineAdded(v, line, base) /\ i \in 1 .. n /\ i - 1 \in 0 .. n
    BY <1>1, <1>2
  <2>2. /\ v.sum = SumOf(v.lines) /\ IsFiniteSet(Balances(lines, i - 1))
        /\ Len(v.aside) = Cardinality(Balances(lines, i - 1))
        /\ v.lines \in Seq(Amounts) /\ v.aside \in Seq(STRING) /\ v.sum \in Int
    BY <1>4, <2>1 DEF LinesGood, AccRec
  <2>3. g[i] \in AccRec
    BY <2>1, LineAddedType
  <2>4. CASE line.kind = "balance"
    <3>1. g[i] = [refs |-> v.refs, sum |-> v.sum, lines |-> v.lines, aside |-> Append(v.aside, line.code)]
      BY <2>1, <2>4, LineAddedType
    <3>2. Balances(lines, i) = Balances(lines, i - 1) \cup {i} /\ i \notin Balances(lines, i - 1)
      BY <1>2, <2>4 DEF Balances
    <3>3. /\ IsFiniteSet(Balances(lines, i))
          /\ Cardinality(Balances(lines, i)) = Cardinality(Balances(lines, i - 1)) + 1
      <4> DEFINE before == Balances(lines, i - 1)
      <4>1. IsFiniteSet(before)
        BY <2>2
      <4>2. IsFiniteSet(before \cup {i}) /\ (i \notin before => Cardinality(before \cup {i}) = Cardinality(before) + 1)
        <5> HIDE DEF before
        <5> QED BY <4>1, FS_AddElement
      <4> QED BY <3>2, <4>2
    <3>4. line.code \in STRING
      BY <2>1 DEF LineRec
    <3>5. Len(g[i].aside) = Len(v.aside) + 1
      BY <2>2, <3>1, <3>4
    <3>6. g[i].sum = SumOf(g[i].lines)
      BY <2>2, <3>1
    <3> QED BY <2>2, <2>3, <3>3, <3>5, <3>6 DEF LinesGood
  <2>5. CASE line.kind # "balance"
    <3>1. PICK row \in Amounts : /\ g[i].sum = v.sum + row.amount
                                 /\ g[i].lines = Append(v.lines, row) /\ g[i].aside = v.aside
      <4> HIDE DEF v, line
      <4>1. \E row \in Amounts :
               /\ LineAdded(v, line, base).sum = v.sum + row.amount
               /\ LineAdded(v, line, base).lines = Append(v.lines, row)
               /\ LineAdded(v, line, base).aside = v.aside
        BY <2>1, <2>5, LineAddedType
      <4> QED BY <2>1, <4>1
    <3>2. SumOf(Append(v.lines, row)) = SumOf(v.lines) + row.amount
      BY <2>2, SumAppended
    <3>3. Balances(lines, i) = Balances(lines, i - 1)
      BY <1>2, <2>5 DEF Balances
    <3> QED BY <2>2, <2>3, <3>1, <3>2, <3>3 DEF LinesGood
  <2> QED BY <2>4, <2>5
<1> DEFINE V == {p \in (0 .. n) \X AccRec : LinesGood(lines, p[2], p[1])}
<1>5. <<0, g[0]>> \in V
  <2>1. g[0] \in AccRec /\ 0 \in 0 .. n
    BY <1>1, <1>2
  <2> QED BY <1>3, <2>1
<1>6. ASSUME NEW i \in 1 .. n, <<i - 1, g[i - 1]>> \in V PROVE <<i, g[i]>> \in V
  <2>1. i \in 0 .. n /\ g[i] \in AccRec
    BY <1>1, <1>2
  <2>2. LinesGood(lines, g[i], i)
    BY <1>4, <1>6
  <2> QED BY <2>1, <2>2
<1>7. <<n, g[n]>> \in V
  <2> HIDE DEF V
  <2>1. \A i \in 0 .. n : <<i, g[i]>> \in V
    BY <1>2, <1>5, <1>6, WalkKeeps
  <2> QED BY <1>2, <2>1
<1> QED BY <1>1, <1>7 DEF n

-------------------------------------------------------------------------------
(* The earnings of a package.                                              *)
Package(s) == s.components \in Seq(LineRec) /\ s.ctc \in Int /\ s.weekly \in BOOLEAN

LEMMA RawAre ==
  ASSUME NEW s, Package(s)
  PROVE  /\ PeriodCtc(s) \in Int
         /\ \E lines \in Seq(Amounts), tail \in Seq(Amounts), part \in Int :
               /\ RawEarnings(s) = lines \o tail
               /\ Len(tail) = Cardinality({i \in DOMAIN s.components : s.components[i].kind = "balance"})
               /\ \A i \in 1 .. Len(tail) : tail[i].amount = part
               /\ Len(tail) > 0 => part = HalfUp(Positive(PeriodCtc(s) - SumOf(lines)), Len(tail))
<1>1. PeriodCtc(s) \in Int
  <2>1. PICK d \in Nat \ {0} : d = IF s.weekly THEN 52 ELSE 12
    OBVIOUS
  <2>2. s.ctc \in Int /\ PeriodCtc(s) = HalfUp(s.ctc, d)
    BY <2>1 DEF PeriodCtc, Package
  <2> QED BY <2>1, <2>2, HalfUpNear
<1> DEFINE refs == [c \in {Ctc} |-> PeriodCtc(s)]
           first == Resolve(s.components, refs, Running)
           part == IF first.aside = <<>> THEN 0
                   ELSE HalfUp(Positive(PeriodCtc(s) - first.sum), Len(first.aside))
           tail == [i \in DOMAIN first.aside |-> [code |-> first.aside[i], amount |-> part]]
<1>2. refs \in RefFun
  <2>1. {Ctc} \in SUBSET Codes
    BY DEF Codes
  <2>2. refs \in [{Ctc} -> Int]
    BY <1>1
  <2> QED BY <2>1, <2>2 DEF RefFun
<1>3. Running \in Seq(Int) /\ s.components \in Seq(LineRec)
  BY DEF Running, Package
<1> HIDE DEF refs
<1>4. LinesGood(s.components, first, Len(s.components))
  BY <1>2, <1>3, ResolveAre
<1>5. RawEarnings(s) = first.lines \o tail
  BY DEF RawEarnings, refs
<1> HIDE DEF first
<1>6. /\ first.lines \in Seq(Amounts) /\ first.aside \in Seq(STRING) /\ first.sum \in Int
      /\ first.sum = SumOf(first.lines)
      /\ Len(first.aside) = Cardinality(Balances(s.components, Len(s.components)))
  BY <1>4 DEF LinesGood, AccRec
<1>7. Len(first.aside) \in Nat /\ DOMAIN first.aside = 1 .. Len(first.aside)
      /\ (first.aside = <<>> <=> Len(first.aside) = 0)
      /\ \A i \in DOMAIN first.aside : first.aside[i] \in STRING
  BY <1>6
<1>8. part \in Int /\ (Len(first.aside) > 0 => part = HalfUp(Positive(PeriodCtc(s) - first.sum), Len(first.aside)))
  <2>1. CASE first.aside = <<>>
    <3>1. part = 0
      BY <2>1
    <3> HIDE DEF part
    <3> QED BY <1>7, <2>1, <3>1
  <2>2. CASE first.aside # <<>>
    <3>1. Len(first.aside) \in Nat \ {0} /\ Positive(PeriodCtc(s) - first.sum) \in Int
      BY <1>1, <1>6, <1>7, <2>2 DEF Positive
    <3>2. HalfUp(Positive(PeriodCtc(s) - first.sum), Len(first.aside)) \in Int
      BY <3>1, HalfUpNear
    <3>3. part = HalfUp(Positive(PeriodCtc(s) - first.sum), Len(first.aside))
      BY <2>2
    <3> HIDE DEF part
    <3> QED BY <3>2, <3>3
  <2> QED BY <2>1, <2>2
<1> HIDE DEF part
<1>9. /\ tail = [i \in DOMAIN first.aside |-> tail[i]]
      /\ \A i \in DOMAIN first.aside : tail[i] \in Amounts /\ tail[i].amount = part
  BY <1>7, <1>8 DEF Amounts
<1> HIDE DEF tail
<1>10. tail \in Seq(Amounts) /\ Len(tail) = Len(first.aside)
  <2>1. PICK q \in Seq(STRING) : q = first.aside
    BY <1>6
  <2>2. \A i \in DOMAIN q : tail[i] \in Amounts
    BY <1>9, <2>1
  <2>3. tail = [i \in DOMAIN q |-> tail[i]]
    BY <1>9, <2>1
  <2>4. tail \in Seq(Amounts) /\ Len(tail) = Len(q)
    BY <2>2, <2>3, RowsMapped
  <2> QED BY <2>1, <2>4
<1>11. Balances(s.components, Len(s.components)) = {i \in DOMAIN s.components : s.components[i].kind = "balance"}
  BY <1>3, RowsShape DEF Balances
<1> QED BY <1>1, <1>5, <1>6, <1>7, <1>8, <1>9, <1>10, <1>11

LEMMA ProratedNear ==
  ASSUME NEW a \in Int, NEW c, c.working \in Nat \ {0}, c.lop \in Nat, c.lop <= c.working
  PROVE  /\ Prorated(a, c) \in Int
         /\ c.lop = 0 => Prorated(a, c) = a
         /\ 2 * (c.working * Prorated(a, c)) - 2 * ((c.working - c.lop) * a) <= c.working
         /\ 2 * ((c.working - c.lop) * a) - 2 * (c.working * Prorated(a, c)) <= c.working
<1>1. PICK w \in Nat \ {0}, m \in Nat : w = c.working /\ m = c.working - c.lop
  OBVIOUS
<1>2. PICK n \in Int : n = a * m /\ n = m * a
  BY <1>1
<1> DEFINE q == n \div w
           r == n % w
           half == 2 * r = w
           x == HalfUp(n, w)
           y == Prorated(a, c)
<1>3. q \in Int /\ r \in 0 .. w - 1 /\ n = w * q + r
  BY <1>1, DivMod
<1>4. x \in Int /\ 2 * n - w <= 2 * (w * x) /\ 2 * (w * x) <= 2 * n + w
  BY <1>1, HalfUpNear
<1>5. half => x = IF n >= 0 THEN q + 1 ELSE q
  <2>1. x = q + IF 2 * r > w \/ (2 * r = w /\ n >= 0) THEN 1 ELSE 0
    BY DEF HalfUp
  <2> HIDE DEF x, q, r
  <2> QED BY <1>1, <1>3, <2>1
<1>6. y = IF c.lop = 0 THEN a ELSE x - IF half /\ c.cut THEN (IF a < 0 THEN -1 ELSE 1) ELSE 0
  BY <1>1, <1>2 DEF Prorated
<1> HIDE DEF x, y, q, r
<1>7. CASE c.lop = 0
  <2>1. y = a /\ m = w
    BY <1>1, <1>6, <1>7
  <2>2. w * y = n
    BY <1>2, <2>1
  <2>3. 2 * n - 2 * n <= w
    BY <1>1
  <2> QED BY <1>1, <1>2, <1>7, <2>1, <2>2, <2>3 DEF y
<1>8. CASE c.lop # 0 /\ ~(half /\ c.cut)
  <2>1. y = x
    BY <1>4, <1>6, <1>8
  <2>2. PICK p \in Int : p = w * x
    BY <1>4
  <2>3. 2 * p - 2 * n <= w /\ 2 * n - 2 * p <= w
    BY <1>1, <1>4, <2>2
  <2> QED BY <1>1, <1>2, <1>4, <1>8, <2>1, <2>2, <2>3 DEF y
<1>9. CASE c.lop # 0 /\ half /\ c.cut /\ a >= 0
  <2>0. n >= 0
    BY <1>1, <1>2, <1>9
  <2>1. y = q
    BY <1>3, <1>5, <1>6, <1>9, <2>0
  <2>2. PICK p \in Int : p = w * q
    BY <1>3
  <2>3. 2 * p - 2 * n <= w /\ 2 * n - 2 * p <= w
    BY <1>1, <1>3, <1>9, <2>2
  <2> QED BY <1>1, <1>2, <1>3, <1>9, <2>1, <2>2, <2>3 DEF y
<1>10. CASE c.lop # 0 /\ half /\ c.cut /\ a < 0
  <2>0. n <= 0
    BY <1>1, <1>2, <1>10
  <2>4. n # 0
    BY <1>1, <1>10 DEF r
  <2>1. y = q + 1
    BY <1>3, <1>5, <1>6, <1>10, <2>0, <2>4
  <2>2. PICK p \in Int : p = w * q
    BY <1>3
  <2>5. w * y = p + w
    BY <1>1, <1>3, <2>1, <2>2
  <2>3. 2 * (p + w) - 2 * n <= w /\ 2 * n - 2 * (p + w) <= w
    BY <1>1, <1>3, <1>10, <2>2
  <2> QED BY <1>1, <1>2, <1>3, <1>10, <2>1, <2>2, <2>3, <2>5 DEF y
<1> QED BY <1>7, <1>8, <1>9, <1>10

-------------------------------------------------------------------------------
PayslipInv ==
  /\ claim \in Claims
  /\ slip # Undrawn =>
        /\ Drawn(claim).working > 0 /\ Drawn(claim).lop \in 0 .. Drawn(claim).working
        /\ slip = ComputePayslip(Drawn(claim))

(* A payslip that was drawn is the computation of its claim.                *)
LEMMA PayslipInvariant == PayslipSpec => []PayslipInv
<1>1. PayslipInit => PayslipInv
  BY DEF PayslipInit, PayslipInv
<1>2. PayslipInv /\ [Draw]_payslipVars => PayslipInv'
  <2> SUFFICES ASSUME PayslipInv, [Draw]_payslipVars PROVE PayslipInv'
    OBVIOUS
  <2>1. CASE Draw
    BY <2>1 DEF PayslipInv, Draw
  <2>2. CASE UNCHANGED payslipVars
    BY <2>2 DEF PayslipInv, payslipVars
  <2> QED BY <2>1, <2>2
<1> QED BY <1>1, <1>2, PTL DEF PayslipSpec

LEMMA ClaimIs ==
  ASSUME NEW c \in Claims
  PROVE  /\ Package(c.structure)
         /\ c.working \in Int /\ c.lop \in Int
         /\ c.profile \in Profile
  BY ClaimsAssumption DEF Package, Profile

LEMMA YearType ==
  ASSUME NEW s, Package(s)
  PROVE  RawEarnings(s) \in Seq(Amounts) /\ SumOf(RawEarnings(s)) \in Int
<1>1. PICK lines \in Seq(Amounts), tail \in Seq(Amounts) : RawEarnings(s) = lines \o tail
  BY RawAre
<1>2. lines \o tail \in Seq(Amounts)
  BY RowsJoined
<1> QED BY <1>1, <1>2, SumIs

LEMMA DeclaringHelps ==
  ASSUME NEW year \in Int, NEW p \in Profile
  PROVE  LET q == [p EXCEPT !.declared.other = @ + 100]
         IN  q \in Profile /\ q.old = p.old /\ Taxable(year, q) <= Taxable(year, p)
<1> DEFINE d == [p.declared EXCEPT !.other = @ + 100]
           q == [p EXCEPT !.declared.other = @ + 100]
<1>1. /\ p.old \in BOOLEAN /\ p.before \in Nat /\ p.paid \in Nat
      /\ p.declared \in [c80 : Nat, d80 : Nat, home : Nat, other : Nat]
      /\ p = [old |-> p.old, before |-> p.before, paid |-> p.paid, declared |-> p.declared]
  BY DEF Profile
<1>2. /\ d \in [c80 : Nat, d80 : Nat, home : Nat, other : Nat]
      /\ d.c80 = p.declared.c80 /\ d.d80 = p.declared.d80 /\ d.home = p.declared.home
      /\ d.other = p.declared.other + 100
  BY <1>1
<1>3. q = [old |-> p.old, before |-> p.before, paid |-> p.paid, declared |-> d]
  BY <1>1
<1> HIDE DEF d, q
<1>4. q \in Profile /\ q.old = p.old /\ q.before = p.before /\ q.declared = d
  BY <1>1, <1>2, <1>3 DEF Profile
<1>5. Declared(d) = Declared(p.declared) + 100
  <2>1. p.declared.other \in Int /\ Lesser(p.declared.c80, Rules.cap80c) \in Int
        /\ Lesser(p.declared.d80, Rules.cap80d) \in Int /\ Lesser(p.declared.home, Rules.capHome) \in Int
    BY <1>1, RulesAre DEF Lesser
  <2> QED BY <1>2, <2>1 DEF Declared
<1>6. Declared(p.declared) \in Int
  BY <1>1, DeclaredType
<1> DEFINE a == IF p.old THEN Rules.oldStandard + Declared(p.declared) ELSE Rules.newStandard
           b == IF p.old THEN Rules.oldStandard + Declared(d) ELSE Rules.newStandard
<1>7. a \in Int /\ b \in Int /\ a <= b
  BY <1>5, <1>6, RulesAre
<1>8. Taxable(year, p) = Positive(year + p.before - a) /\ Taxable(year, q) = Positive(year + p.before - b)
  BY <1>4 DEF Taxable
<1> HIDE DEF a, b
<1>9. Taxable(year, q) <= Taxable(year, p)
  BY <1>1, <1>7, <1>8 DEF Positive
<1> QED BY <1>4, <1>9 DEF q

(* Both walks of the bands give the tax band by band, a raise never lowers  *)
(* the year's tax nor a declaration raises it, and twelve months of TDS      *)
(* settle the year (tax_engine.py): for every table of ascending bands.      *)
THEOREM TaxSettled == PayslipSpec => []TaxIsSettled
<1>1. PayslipInv => TaxIsSettled
  <2> SUFFICES ASSUME PayslipInv PROVE TaxIsSettled
    OBVIOUS
  <2> DEFINE year == 12 * SumOf(RawEarnings(claim.structure))
             p == claim.profile
  <2>1. year \in Int /\ p \in Profile
    <3>1. SumOf(RawEarnings(claim.structure)) \in Int
      BY ClaimIs, YearType DEF PayslipInv
    <3> QED BY <3>1, ClaimIs DEF PayslipInv
  <2> HIDE DEF year, p
  <2>2. ASSUME NEW bands \in {Rules.newSlabs, Rules.oldSlabs}, NEW t \in {year, Taxable(year, p)}
        PROVE  SlabTax(t, bands) = BandTax(t, bands) /\ ProgressiveTax(t, bands) = BandTax(t, bands)
    <3>1. Ascending(bands)
      BY RulesAre
    <3>2. t \in Int
      BY <2>1, TaxableType
    <3> QED BY <3>1, <3>2, SlabAgrees, BracketAgrees
  <2>3. ASSUME NEW more \in Nat
        PROVE  AnnualTax(year, p) \in Nat /\ AnnualTax(year, p) <= AnnualTax(year + more, p)
    <3>1. Taxable(year, p) <= Taxable(year + more, p) /\ year + more \in Int
      BY <2>1, TaxableType
    <3> QED BY <2>1, <3>1, TaxRises
  <2>4. AnnualTax(year, p) <= AnnualTax(year + 1, p) /\ AnnualTax(year, p) <= AnnualTax(year + 100, p)
        /\ AnnualTax(year, p) <= AnnualTax(year + 5000, p) /\ AnnualTax(year, p) \in Nat
    BY <2>3
  <2>5. AnnualTax(year, [p EXCEPT !.declared.other = @ + 100]) <= AnnualTax(year, p)
    <3> DEFINE q == [p EXCEPT !.declared.other = @ + 100]
    <3>1. q \in Profile /\ q.old = p.old /\ Taxable(year, q) <= Taxable(year, p)
      BY <2>1, DeclaringHelps
    <3> HIDE DEF q
    <3>2. AnnualTax(year, q) <= AnnualTax(year, p)
      BY <2>1, <3>1, TaxRises
    <3> QED BY <3>2 DEF q
  <2>6. AnnualTax(year, p) >= 10000 * p.paid =>
           Distance(12 * MonthlyTds(year, p) + p.paid, HalfUp(AnnualTax(year, p), 10000)) <= 6
    BY <2>1, <2>4, TdsSettles
  <2> QED BY <2>2, <2>4, <2>5, <2>6 DEF TaxIsSettled, year, p
<1> QED BY <1>1, PayslipInvariant, PTL

-------------------------------------------------------------------------------
LEMMA EarnedAre ==
  ASSUME NEW c, NEW raw \in Seq(Amounts), c.working \in Nat \ {0}, c.lop \in Nat, c.lop <= c.working,
         NEW earned, earned = [i \in DOMAIN raw |-> [raw[i] EXCEPT !.amount = Prorated(@, c)]]
  PROVE  /\ earned \in Seq(Amounts) /\ Len(earned) = Len(raw)
         /\ \A i \in 1 .. Len(raw) : earned[i].amount = Prorated(raw[i].amount, c)
<1>1. Len(raw) \in Nat /\ DOMAIN raw = 1 .. Len(raw) /\ \A i \in DOMAIN raw : raw[i] \in Amounts
  BY RowsShape
<1>2. ASSUME NEW i \in DOMAIN raw
      PROVE  earned[i] \in Amounts /\ earned[i].amount = Prorated(raw[i].amount, c)
  <2>1. raw[i] = [code |-> raw[i].code, amount |-> raw[i].amount] /\ raw[i].code \in STRING /\ raw[i].amount \in Int
    BY <1>1 DEF Amounts
  <2>2. Prorated(raw[i].amount, c) \in Int
    BY <2>1, ProratedNear
  <2>3. earned[i] = [code |-> raw[i].code, amount |-> Prorated(raw[i].amount, c)]
    BY <2>1
  <2> QED BY <2>1, <2>2, <2>3 DEF Amounts
<1>3. earned = [i \in DOMAIN raw |-> earned[i]]
  OBVIOUS
<1>4. \A i \in DOMAIN raw : earned[i] \in Amounts
  BY <1>2
<1>5. earned \in Seq(Amounts) /\ Len(earned) = Len(raw)
  BY <1>3, <1>4, RowsMapped
<1> QED BY <1>1, <1>2, <1>5

LEMMA DistanceWithin ==
  ASSUME NEW x \in Int, NEW y \in Int, NEW z \in Int, 2 * x - 2 * y <= z, 2 * y - 2 * x <= z
  PROVE  2 * Distance(x, y) <= z
  BY DEF Distance

LEMMA ShareNear ==
  ASSUME NEW c, NEW raw \in Seq(Amounts), NEW earned \in Seq(Amounts), Len(earned) = Len(raw),
         c.working \in Nat \ {0}, c.lop \in Nat, c.lop <= c.working,
         \A i \in 1 .. Len(raw) : earned[i].amount = Prorated(raw[i].amount, c)
  PROVE  2 * Distance(c.working * SumOf(earned), (c.working - c.lop) * SumOf(raw)) <= c.working * Len(raw)
<1> DEFINE a == [i \in DOMAIN raw |-> raw[i].amount]
           b == [i \in DOMAIN earned |-> earned[i].amount]
<1>1. PICK w \in Nat \ {0}, m \in Nat : w = c.working /\ m = c.working - c.lop
  OBVIOUS
<1>2. /\ SumOf(raw) = TotalOf(a) /\ Len(a) = Len(raw) /\ Len(raw) \in Nat
      /\ \A i \in 1 .. Len(raw) : a[i] = raw[i].amount /\ a[i] \in Int
  BY SumIs
<1>3. /\ SumOf(earned) = TotalOf(b) /\ Len(b) = Len(earned)
      /\ \A i \in 1 .. Len(earned) : b[i] = earned[i].amount /\ b[i] \in Int
  BY SumIs
<1> HIDE DEF a, b
<1>4. ASSUME NEW i \in 1 .. Len(a)
      PROVE  /\ a[i] \in Int /\ b[i] \in Int
             /\ 2 * (w * b[i]) - 2 * (m * a[i]) <= w /\ 2 * (m * a[i]) - 2 * (w * b[i]) <= w
  <2>1. i \in 1 .. Len(raw) /\ a[i] \in Int /\ b[i] \in Int /\ b[i] = Prorated(a[i], c)
    BY <1>2, <1>3
  <2> QED BY <1>1, <2>1, ProratedNear
<1>5. /\ TotalOf(a) \in Int /\ TotalOf(b) \in Int
      /\ 2 * (w * TotalOf(b)) - 2 * (m * TotalOf(a)) <= w * Len(a)
      /\ 2 * (m * TotalOf(a)) - 2 * (w * TotalOf(b)) <= w * Len(a)
  <2>1. Len(a) \in Nat /\ Len(b) = Len(a) /\ w \in Nat
    BY <1>2, <1>3
  <2> QED BY <1>4, <2>1, TotalNear
<1>6. PICK x \in Int, y \in Int : x = w * TotalOf(b) /\ y = m * TotalOf(a)
  BY <1>5
<1>7. PICK z \in Int : z = w * Len(a)
  BY <1>2
<1>8. 2 * Distance(x, y) <= z
  <2>1. 2 * x - 2 * y <= z /\ 2 * y - 2 * x <= z
    BY <1>5, <1>6, <1>7
  <2> QED BY <2>1, DistanceWithin
<1> QED BY <1>1, <1>2, <1>3, <1>6, <1>7, <1>8

LEMMA FrontOf ==
  ASSUME NEW p \in Seq(Amounts), NEW q \in Seq(Amounts)
  PROVE  SumOf(SubSeq(p \o q, 1, Len(p \o q) - Len(q))) = SumOf(p)
<1> DEFINE r == SubSeq(p \o q, 1, Len(p \o q) - Len(q))
<1>1. /\ p \o q \in Seq(Amounts) /\ Len(p \o q) = Len(p) + Len(q)
      /\ \A i \in DOMAIN p : (p \o q)[i] = p[i]
  BY RowsJoined
<1>2. Len(p) \in Nat /\ Len(q) \in Nat /\ DOMAIN p = 1 .. Len(p)
  BY RowsShape
<1>3. r \in Seq(Amounts) /\ Len(r) = Len(p) /\ \A i \in 1 .. Len(p) : r[i] = p[i]
  BY <1>1, <1>2
<1> HIDE DEF r
<1>4. SumOf(r) = SumOf(p)
  BY <1>3, SumSameAmounts
<1> QED BY <1>4 DEF r

LEMMA CtcIsMet ==
  ASSUME NEW sum \in Int, NEW ctc \in Int, sum <= ctc, NEW k \in Nat \ {0}, NEW part,
         part = HalfUp(Positive(ctc - sum), k)
  PROVE  /\ k = 1 => sum + k * part = ctc
         /\ 2 * Distance(sum + k * part, ctc) <= k
<1>1. PICK x \in Nat : x = ctc - sum /\ Positive(ctc - sum) = x
  BY DEF Positive
<1>2. part \in Int /\ 2 * x - k <= 2 * (k * part) /\ 2 * (k * part) <= 2 * x + k
  BY <1>1, HalfUpNear
<1>3. PICK y \in Int : y = k * part
  BY <1>2
<1>4. 2 * Distance(sum + y, ctc) <= k
  BY <1>1, <1>2, <1>3 DEF Distance
<1>5. k = 1 => y = x
  BY <1>2, <1>3
<1> QED BY <1>1, <1>3, <1>4, <1>5

(* The month's earnings are the share of the days paid, and balance lines   *)
(* close the CTC, to within half a paisa a line (compute_payslip): for       *)
(* every package, of any number of lines.                                    *)
THEOREM EarningsSum == PayslipSpec => []EarningsAddUp
<1>1. PayslipInv => EarningsAddUp
  <2> SUFFICES ASSUME PayslipInv, slip # Undrawn, claim.structure.hourly = 0
               PROVE  LET s == claim.structure
                          raw == RawEarnings(s)
                          balances == Cardinality({i \in DOMAIN s.components : s.components[i].kind = "balance"})
                          others == SumOf(SubSeq(raw, 1, Len(raw) - balances))
                          paid == SumOf(slip.earned)
                      IN  /\ 2 * Distance(claim.working * paid, (claim.working - claim.lop) * SumOf(raw))
                                <= claim.working * Len(raw)
                          /\ (balances > 0 /\ claim.lop = 0 /\ others <= PeriodCtc(s)) =>
                                IF balances = 1 THEN paid = PeriodCtc(s)
                                ELSE 2 * Distance(paid, PeriodCtc(s)) <= balances
    BY DEF EarningsAddUp
  <2> DEFINE s == claim.structure
             raw == RawEarnings(s)
             balances == Cardinality({i \in DOMAIN s.components : s.components[i].kind = "balance"})
             others == SumOf(SubSeq(raw, 1, Len(raw) - balances))
             earned == slip.earned
             paid == SumOf(earned)
  <2>1. Package(s) /\ claim.working \in Nat \ {0} /\ claim.lop \in Nat /\ claim.lop <= claim.working
    BY ClaimIs DEF PayslipInv, Drawn
  <2>2. earned = [i \in DOMAIN raw |-> [raw[i] EXCEPT !.amount = Prorated(@, claim)]]
    <3>1. slip = ComputePayslip(claim)
      BY DEF PayslipInv, Drawn
    <3> QED BY <3>1 DEF ComputePayslip
  <2>3. raw \in Seq(Amounts)
    BY <2>1, YearType
  <2>4. PICK lines \in Seq(Amounts), tail \in Seq(Amounts), part \in Int :
               /\ raw = lines \o tail
               /\ Len(tail) = balances
               /\ \A i \in 1 .. Len(tail) : tail[i].amount = part
               /\ Len(tail) > 0 => part = HalfUp(Positive(PeriodCtc(s) - SumOf(lines)), Len(tail))
    BY <2>1, RawAre
  <2>5. PeriodCtc(s) \in Int
    BY <2>1, RawAre
  <2> HIDE DEF raw, earned, balances, s
  <2>6. /\ earned \in Seq(Amounts) /\ Len(earned) = Len(raw)
        /\ \A i \in 1 .. Len(raw) : earned[i].amount = Prorated(raw[i].amount, claim)
    BY <2>1, <2>2, <2>3, EarnedAre
  <2>7. 2 * Distance(claim.working * paid, (claim.working - claim.lop) * SumOf(raw)) <= claim.working * Len(raw)
    BY <2>1, <2>3, <2>6, ShareNear
  <2>8. ASSUME balances > 0, claim.lop = 0, others <= PeriodCtc(s)
        PROVE  IF balances = 1 THEN paid = PeriodCtc(s) ELSE 2 * Distance(paid, PeriodCtc(s)) <= balances
    <3>1. \A i \in 1 .. Len(raw) : raw[i].amount \in Int
      BY <2>3, SumIs
    <3>2. \A i \in 1 .. Len(raw) : earned[i].amount = raw[i].amount
      BY <2>1, <2>6, <2>8, <3>1, ProratedNear
    <3>3. paid = SumOf(raw)
      BY <2>3, <2>6, <3>2, SumSameAmounts
    <3>4. others = SumOf(lines)
      BY <2>4, FrontOf
    <3>5. SumOf(raw) = SumOf(lines) + SumOf(tail)
      BY <2>4, SumJoined
    <3>6. SumOf(tail) = Len(tail) * part
      <4> DEFINE a == [i \in DOMAIN tail |-> tail[i].amount]
      <4>1. /\ SumOf(tail) = TotalOf(a) /\ Len(a) = Len(tail) /\ Len(tail) \in Nat
            /\ \A i \in 1 .. Len(tail) : a[i] = tail[i].amount
        BY SumIs
      <4> HIDE DEF a
      <4>2. \A i \in 1 .. Len(a) : a[i] = part
        BY <2>4, <4>1
      <4>3. TotalOf(a) = Len(a) * part
        BY <4>1, <4>2, TotalRepeated
      <4> QED BY <4>1, <4>3
    <3>7. SumOf(lines) \in Int /\ Len(tail) \in Nat \ {0} /\ Len(tail) = balances
      <4>1. SumOf(lines) \in Int /\ Len(tail) \in Nat
        BY SumIs
      <4>2. Len(tail) > 0 /\ Len(tail) = balances
        BY <2>4, <2>8
      <4> QED BY <4>1, <4>2
    <3>8. /\ Len(tail) = 1 => SumOf(lines) + Len(tail) * part = PeriodCtc(s)
          /\ 2 * Distance(SumOf(lines) + Len(tail) * part, PeriodCtc(s)) <= Len(tail)
      BY <2>4, <2>5, <2>8, <3>4, <3>7, CtcIsMet
    <3> QED BY <3>3, <3>5, <3>6, <3>7, <3>8
  <2> QED BY <2>7, <2>8 DEF raw, earned, balances, s
<1> QED BY <1>1, PayslipInvariant, PTL
-------------------------------------------------------------------------------
(* Shares of an amount.                                                    *)
LEMMA Cancelled ==
  ASSUME NEW x \in Int, NEW y \in Int, NEW b \in Nat \ {0}, x * b <= y * b
  PROVE  x <= y
<1> SUFFICES ASSUME x > y PROVE FALSE
  OBVIOUS
<1>1. PICK e \in Nat : x = y + 1 + e
  <2>1. x - y - 1 \in Nat /\ x = y + 1 + (x - y - 1)
    OBVIOUS
  <2> QED BY <2>1
<1>2. (y + 1 + e) * b = y * b + b + e * b
  BY <1>1
<1>3. PICK p \in Int, q \in Nat : p = y * b /\ q = e * b
  BY <1>1
<1> QED BY <1>1, <1>2, <1>3

LEMMA HalfUpWithin ==
  ASSUME NEW n \in Nat, NEW d \in Nat \ {0}
  PROVE  /\ HalfUp(n, d) \in Nat
         /\ 2 * (d * HalfUp(n, d)) <= 2 * n + d
         /\ d * HalfUp(n, d) <= 2 * n
         /\ 2 * n < 2 * (d * HalfUp(n, d)) + d
<1> DEFINE h == HalfUp(n, d)
           q == n \div d
           r == n % d
<1>1. h \in Int /\ 2 * (d * h) <= 2 * n + d /\ h >= 0
  BY HalfUpNear
<1>2. q \in Int /\ r \in 0 .. d - 1 /\ n = d * q + r
  BY DivMod
<1>3. h = IF 2 * r > d \/ (2 * r = d /\ n >= 0) THEN q + 1 ELSE q
  BY <1>2 DEF HalfUp
<1> HIDE DEF h, q, r
<1>4. d * (q + 1) = d * q + d
  BY <1>2
<1>5. PICK p \in Int, z \in Int : p = d * q /\ z = d * h
  BY <1>1, <1>2
<1>6. 2 * n < 2 * z + d
  BY <1>2, <1>3, <1>4, <1>5
<1>7. z <= 2 * n
  <2>1. CASE h = 0
    BY <1>5, <2>1
  <2>2. CASE h # 0
    <3>1. PICK e \in Nat : h = e + 1
      BY <1>1, <2>2
    <3>2. d * (e + 1) = d * e + d /\ d * e >= 0 /\ d * e \in Int
      BY <3>1
    <3> QED BY <1>1, <1>5, <3>1, <3>2
  <2> QED BY <2>1, <2>2
<1> QED BY <1>1, <1>5, <1>6, <1>7 DEF h

(* A part at a rate of so many per cent, of a sum spread over k months.    *)
LEMMA ShareAtMost ==
  ASSUME NEW n \in Nat, NEW percent \in Nat, NEW rate, AtMost(rate, percent), NEW k \in Nat \ {0}
  PROVE  LET s == HalfUp(n * rate[1], k * rate[2])
         IN  /\ s \in Nat
             /\ 200 * (k * s) <= 2 * (percent * n) + 100 * k
             /\ 100 * (k * s) <= 2 * (percent * n)
<1> DEFINE s == HalfUp(n * rate[1], k * rate[2])
<1>1. PICK a \in Nat, b \in Nat \ {0} : a = rate[1] /\ b = rate[2] /\ 100 * a <= percent * b
  BY DEF AtMost, Rates
<1>2. PICK d \in Nat \ {0} : d = k * b
  BY <1>1
<1>3. PICK m \in Nat : m = n * a
  BY <1>1
<1>4. s = HalfUp(m, d)
  BY <1>1, <1>2, <1>3
<1> HIDE DEF s
<1>5. s \in Nat /\ 2 * (d * s) <= 2 * m + d /\ d * s <= 2 * m
  BY <1>4, HalfUpWithin
<1>6. 100 * m <= percent * n * b
  <2>1. PICK e \in Nat, f \in Nat : e = 100 * a /\ f = percent * b /\ e <= f
    BY <1>1
  <2>2. e * n <= f * n
    BY <2>1, MoreTimes
  <2>3. e * n = 100 * m /\ f * n = percent * n * b
    BY <1>3, <2>1
  <2> QED BY <2>2, <2>3
<1>7. PICK x \in Nat, y \in Nat : x = k * s /\ y = percent * n
  BY <1>5
<1>8. d * s = x * b /\ 100 * m <= y * b
  BY <1>2, <1>5, <1>6, <1>7
<1>9. PICK u \in Int, v \in Int : u = x * b /\ v = y * b
  BY <1>1, <1>7
<1>10. (200 * x) * b = 200 * u /\ (2 * y + 100 * k) * b = 2 * v + 100 * d /\ (100 * x) * b = 100 * u
       /\ (2 * y) * b = 2 * v
  BY <1>2, <1>7, <1>9
<1>11. 200 * u <= 2 * v + 100 * d /\ 100 * u <= 2 * v
  BY <1>5, <1>8, <1>9
<1>12. 200 * x <= 2 * y + 100 * k
  BY <1>7, <1>10, <1>11, Cancelled
<1>13. 100 * x <= 2 * y
  BY <1>7, <1>10, <1>11, Cancelled
<1> QED BY <1>5, <1>7, <1>12, <1>13 DEF s

(* A rate of at most so many per cent of an amount.                        *)
LEMMA ShareBounds ==
  ASSUME NEW n \in Nat, NEW percent \in Nat, NEW rate, AtMost(rate, percent)
  PROVE  /\ Share(n, rate) \in Nat
         /\ 200 * Share(n, rate) <= 2 * (percent * n) + 100
         /\ 100 * Share(n, rate) <= 2 * (percent * n)
<1>1. PICK a \in Nat, b \in Nat \ {0} : a = rate[1] /\ b = rate[2]
  BY DEF AtMost, Rates
<1>2. 1 * rate[2] = rate[2]
  BY <1>1
<1>3. Share(n, rate) = HalfUp(n * rate[1], 1 * rate[2])
  BY <1>2 DEF Share
<1> DEFINE s == HalfUp(n * rate[1], 1 * rate[2])
<1>4. s \in Nat /\ 200 * (1 * s) <= 2 * (percent * n) + 100 * 1 /\ 100 * (1 * s) <= 2 * (percent * n)
  <2>1. 1 \in Nat \ {0}
    OBVIOUS
  <2> QED BY <2>1, ShareAtMost
<1> HIDE DEF s
<1>5. Share(n, rate) = s
  BY <1>3 DEF s
<1> QED BY <1>4, <1>5

LEMMA ShareType ==
  ASSUME NEW n \in Nat, NEW rate \in Rates
  PROVE  Share(n, rate) \in Nat
<1>1. PICK a \in Nat, b \in Nat \ {0} : a = rate[1] /\ b = rate[2]
  BY DEF Rates
<1>2. n * a \in Nat
  BY <1>1
<1> QED BY <1>1, <1>2, HalfUpWithin DEF Share

(* Of two quotients the larger is not rounded below the smaller.           *)
LEMMA HalfUpOrder ==
  ASSUME NEW m \in Nat, NEW c \in Nat \ {0}, NEW n \in Nat, NEW d \in Nat \ {0}, m * d <= n * c
  PROVE  HalfUp(m, c) <= HalfUp(n, d)
<1> DEFINE h == HalfUp(m, c)
           g == HalfUp(n, d)
<1>1. h \in Nat /\ 2 * (c * h) <= 2 * m + c
  BY HalfUpWithin
<1>2. g \in Nat /\ 2 * n < 2 * (d * g) + d
  BY HalfUpWithin
<1> HIDE DEF h, g
<1>3. ASSUME g < h PROVE FALSE
  <2>1. PICK e \in Nat : h = g + 1 + e
    <3>1. h - g - 1 \in Nat /\ h = g + 1 + (h - g - 1)
      BY <1>1, <1>2, <1>3
    <3> QED BY <3>1
  <2>2. c * h = c * g + c + c * e
    BY <1>2, <2>1
  <2>3. PICK x \in Nat, y \in Nat : x = c * g /\ y = c * e
    BY <1>2, <2>1
  <2>4. 2 * x + c <= 2 * m
    BY <1>1, <2>2, <2>3
  <2>5. (2 * x + c) * d <= (2 * m) * d
    <3>1. 2 * x + c \in Nat /\ 2 * m \in Nat
      BY <2>3
    <3> QED BY <2>4, <3>1, MoreTimes
  <2>6. (2 * m) * d <= (2 * n) * c
    <3>1. PICK u \in Int, v \in Int : u = m * d /\ v = n * c
      OBVIOUS
    <3>2. (2 * m) * d = 2 * u /\ (2 * n) * c = 2 * v
      BY <3>1
    <3> QED BY <3>1, <3>2
  <2>7. PICK z \in Nat : z = d * g
    BY <1>2
  <2>8. (2 * x + c) * d = (2 * z + d) * c
    BY <1>2, <2>3, <2>7
  <2>9. (2 * z + d) * c <= (2 * n) * c
    <3>1. PICK u \in Int, v \in Int, w \in Int : u = (2 * x + c) * d /\ v = (2 * m) * d /\ w = (2 * n) * c
      BY <2>3
    <3> QED BY <2>5, <2>6, <2>8, <3>1
  <2>10. 2 * z + d <= 2 * n
    BY <2>7, <2>9, Cancelled
  <2> QED BY <1>2, <2>7, <2>10
<1> QED BY <1>1, <1>2, <1>3 DEF h, g

LEMMA NextRupeeType ==
  ASSUME NEW n \in Nat, NEW rate \in Rates
  PROVE  NextRupee(n * rate[1], rate[2]) \in Nat
<1>1. PICK a \in Nat, b \in Nat \ {0} : a = rate[1] /\ b = rate[2]
  BY DEF Rates
<1>2. PICK m \in Nat : m = n * a
  BY <1>1
<1>3. m + b * Rupee - 1 \in Nat /\ b * Rupee \in Nat \ {0}
  BY <1>1, <1>2 DEF Rupee
<1>4. PICK x \in Nat, y \in Nat \ {0} : x = m + b * Rupee - 1 /\ y = b * Rupee
  BY <1>3
<1>5. x \div y \in Nat
  BY <1>4
<1> QED BY <1>1, <1>2, <1>4, <1>5 DEF NextRupee, Rupee

-------------------------------------------------------------------------------
(* What a gentle income tax leaves.                                        *)
GentleSoFar(t, bands, v, i) ==
  /\ v \in BracketRec /\ v.tax >= 0 /\ v.tax <= 50 * t /\ v.lower >= 0 /\ v.tax <= 50 * v.lower
  /\ t <= v.lower \/ (i < Len(bands) => v.lower = LowerEnd(bands, i + 1))

LEMMA WideTimes ==
  ASSUME NEW a \in Nat, NEW r \in Nat, r <= 50
  PROVE  a * r \in Nat /\ a * r <= 50 * a
<1>1. PICK d \in Nat : 50 = r + d
  BY 50 - r \in Nat
<1>2. a * 50 = a * r + a * d
  BY <1>1
<1>3. PICK p \in Nat, q \in Nat : p = a * r /\ q = a * d
  BY <1>1
<1> QED BY <1>2, <1>3

LEMMA WideSum ==
  ASSUME NEW a \in Nat, NEW p \in Nat, NEW b \in Int, NEW w \in Int, NEW c \in Int, NEW t \in Int,
         a <= 50 * b, p <= 50 * w, b + w <= c, b + w <= t
  PROVE  a + p \in Nat /\ a + p <= 50 * t /\ a + p <= 50 * c
  OBVIOUS

LEMMA ProgressiveWithin ==
  ASSUME NEW t \in Nat, NEW bands, Ascending(bands), \A i \in DOMAIN bands : bands[i].rate <= 50
  PROVE  ProgressiveTax(t, bands) \in Nat /\ ProgressiveTax(t, bands) <= 50 * t
<1> DEFINE n == Len(bands)
<1>1. n \in Nat \ {0} /\ DOMAIN bands = 1 .. n /\ t \in Int
  BY BandsAre
<1>2. PICK g : /\ g[0] = [tax |-> 0, lower |-> 0]
               /\ \A i \in 1 .. n : g[i] = InBracket(t, g[i - 1], bands[i])
               /\ \A i \in 0 .. n : g[i] \in BracketRec
               /\ ProgressiveTax(t, bands) = g[n].tax
  BY BracketRuns
<1>3. GentleSoFar(t, bands, g[0], 0)
  <2>1. g[0] \in BracketRec /\ g[0].tax = 0 /\ g[0].lower = 0
    BY <1>1, <1>2
  <2>2. LowerEnd(bands, 1) = 0
    BY DEF LowerEnd
  <2> QED BY <1>1, <2>1, <2>2 DEF GentleSoFar
<1>4. ASSUME NEW i \in 1 .. n, GentleSoFar(t, bands, g[i - 1], i - 1)
      PROVE  GentleSoFar(t, bands, g[i], i)
  <2> DEFINE v == g[i - 1]
             s == bands[i]
             from == LowerEnd(bands, i)
  <2>1. /\ i - 1 \in 0 .. n /\ i - 1 < n /\ i - 1 + 1 = i /\ i \in Int /\ v \in BracketRec
        /\ g[i] = InBracket(t, v, s) /\ g[i] \in BracketRec
    BY <1>1, <1>2
  <2>2. s \in Band /\ s.rate \in Nat /\ s.rate <= 50
    BY <1>1, BandsAre
  <2>3. /\ s.upto = Top \/ s.upto \in Nat
        /\ i < n => s.upto # Top
    BY <1>1, BandsAre
  <2>4. from \in Nat /\ (s.upto # Top => from <= s.upto)
    BY InBandIs
  <2>5. /\ v.tax \in Nat /\ v.tax <= 50 * t /\ v.lower \in Nat /\ v.tax <= 50 * v.lower
        /\ t <= v.lower \/ v.lower = from
    BY <1>4, <2>1 DEF GentleSoFar, BracketRec
  <2> HIDE DEF v, s
  <2>6. CASE t <= v.lower
    <3>1. g[i] = v
      BY <1>1, <2>1, <2>2, <2>6, InBracketType
    <3> QED BY <2>5, <2>6, <2>1, <3>1 DEF GentleSoFar
  <2>7. CASE t > v.lower
    <3>1. v.lower = from
      BY <2>5, <2>7
    <3>2. i < n => s.upto = LowerEnd(bands, i + 1)
      BY <2>1 DEF LowerEnd, s
    <3>3. CASE s.upto = Top \/ t <= s.upto
      <4>1. PICK w \in Nat : w = t - v.lower
        BY <2>5, <2>7
      <4>2. /\ g[i].tax = v.tax + w * s.rate
            /\ g[i].lower \in Nat /\ t <= g[i].lower
        <5>1. CASE s.upto = Top
          <6>1. g[i] = [tax |-> v.tax + (t - v.lower) * s.rate, lower |-> t]
            BY <1>1, <2>1, <2>2, <2>7, <5>1, InBracketType
          <6> QED BY <4>1, <6>1
        <5>2. CASE s.upto # Top
          <6>1. g[i] = [tax |-> v.tax + (t - v.lower) * s.rate, lower |-> s.upto]
            BY <1>1, <2>1, <2>2, <2>7, <3>3, <5>2, InBracketType
          <6> QED BY <2>3, <3>3, <4>1, <5>2, <6>1
        <5> QED BY <5>1, <5>2
      <4>3. w * s.rate \in Nat /\ w * s.rate <= 50 * w
        BY <2>2, <4>1, WideTimes
      <4>4. PICK p \in Nat : p = w * s.rate /\ p <= 50 * w
        BY <4>3
      <4>5. v.lower + w <= t /\ v.lower + w <= g[i].lower /\ g[i].lower \in Int /\ v.lower \in Int
        BY <2>5, <4>1, <4>2
      <4>6. v.tax + p \in Nat /\ v.tax + p <= 50 * t /\ v.tax + p <= 50 * g[i].lower
        <5>1. v.tax \in Nat /\ v.tax <= 50 * v.lower /\ p \in Nat /\ p <= 50 * w /\ w \in Int /\ t \in Int
          BY <1>1, <2>5, <4>4
        <5> QED BY <4>5, <5>1, WideSum
      <4>7. g[i].tax = v.tax + p
        BY <4>2, <4>4
      <4>8. g[i].tax >= 0 /\ g[i].tax <= 50 * t /\ g[i].tax <= 50 * g[i].lower
        BY <4>6, <4>7
      <4> QED BY <2>1, <4>2, <4>8 DEF GentleSoFar
    <3>4. CASE s.upto # Top /\ t > s.upto
      <4>1. g[i] = [tax |-> v.tax + (s.upto - v.lower) * s.rate, lower |-> s.upto]
        BY <1>1, <2>1, <2>2, <2>7, <3>4, InBracketType
      <4>2. PICK w \in Nat : w = s.upto - v.lower
        <5>1. s.upto \in Nat /\ v.lower <= s.upto
          BY <2>3, <2>4, <3>1, <3>4
        <5> QED BY <2>5, <5>1
      <4>3. w * s.rate \in Nat /\ w * s.rate <= 50 * w
        BY <2>2, <4>2, WideTimes
      <4>4. PICK p \in Nat : p = w * s.rate /\ p <= 50 * w
        BY <4>3
      <4>5. g[i].tax = v.tax + p /\ g[i].lower = s.upto /\ s.upto \in Nat
        BY <2>3, <3>4, <4>1, <4>2, <4>4
      <4>6. v.lower + w <= t /\ v.lower + w <= s.upto /\ s.upto \in Int /\ v.lower \in Int
        BY <2>5, <3>4, <4>2, <4>5
      <4>7. v.tax + p \in Nat /\ v.tax + p <= 50 * t /\ v.tax + p <= 50 * s.upto
        <5>1. v.tax \in Nat /\ v.tax <= 50 * v.lower /\ p \in Nat /\ p <= 50 * w /\ w \in Int /\ t \in Int
          BY <1>1, <2>5, <4>4
        <5> QED BY <4>6, <5>1, WideSum
      <4>8. g[i].tax >= 0 /\ g[i].tax <= 50 * t /\ g[i].tax <= 50 * g[i].lower
        BY <4>5, <4>7
      <4> QED BY <2>1, <3>2, <4>5, <4>8 DEF GentleSoFar
    <3> QED BY <2>3, <3>3, <3>4
  <2> QED BY <2>5, <2>6, <2>7
<1> DEFINE V == {p \in (0 .. n) \X BracketRec : GentleSoFar(t, bands, p[2], p[1])}
<1> HIDE DEF n
<1>5. <<0, g[0]>> \in V
  <2>1. g[0] \in BracketRec /\ 0 \in 0 .. n
    BY <1>1, <1>2
  <2> QED BY <1>3, <2>1
<1>6. ASSUME NEW i \in 1 .. n, <<i - 1, g[i - 1]>> \in V PROVE <<i, g[i]>> \in V
  <2>1. i - 1 \in 0 .. n /\ i \in 0 .. n
    BY <1>1
  <2>2. GentleSoFar(t, bands, g[i - 1], i - 1)
    BY <1>6, <2>1
  <2>3. GentleSoFar(t, bands, g[i], i)
    BY <1>4, <2>2
  <2> QED BY <1>2, <2>1, <2>3
<1>7. <<n, g[n]>> \in V
  <2> HIDE DEF V
  <2>1. \A i \in 0 .. n : <<i, g[i]>> \in V
    BY <1>1, <1>5, <1>6, WalkKeeps
  <2> QED BY <1>1, <2>1
<1>8. g[n] \in BracketRec /\ g[n].tax >= 0 /\ g[n].tax <= 50 * t
  BY <1>7 DEF GentleSoFar
<1> QED BY <1>2, <1>8 DEF BracketRec

(* The month's income tax of what a year earns above an allowance, of an     *)
(* amount in hundredths of the unit of the bands, and of one in the same.   *)
LEMMA MonthlyTaxWithin ==
  ASSUME NEW t \in Nat, NEW bands, Ascending(bands), \A i \in DOMAIN bands : bands[i].rate <= 50
  PROVE  LET tax == HalfUp(ProgressiveTax(t, bands), 1200)
         IN  tax \in Nat /\ 24 * tax <= t + 12
<1>1. PICK p \in Nat : p = ProgressiveTax(t, bands) /\ p <= 50 * t
  BY ProgressiveWithin
<1> DEFINE tax == HalfUp(p, 1200)
<1>2. tax \in Nat /\ 2 * (1200 * tax) <= 2 * p + 1200
  <2>1. 1200 \in Nat \ {0}
    OBVIOUS
  <2> QED BY <2>1, HalfUpWithin
<1> HIDE DEF tax
<1>3. 24 * tax <= t + 12
  BY <1>1, <1>2
<1> QED BY <1>1, <1>2, <1>3 DEF tax

LEMMA HundredthsTaxWithin ==
  ASSUME NEW t \in Nat, NEW bands, Ascending(bands), \A i \in DOMAIN bands : bands[i].rate <= 50
  PROVE  LET tax == HalfUp(ProgressiveTax(t, bands), 120000)
         IN  tax \in Nat /\ 2400 * tax <= t + 1200
<1>1. PICK p \in Nat : p = ProgressiveTax(t, bands) /\ p <= 50 * t
  BY ProgressiveWithin
<1> DEFINE tax == HalfUp(p, 120000)
<1>2. tax \in Nat /\ 2 * (120000 * tax) <= 2 * p + 120000
  <2>1. 120000 \in Nat \ {0}
    OBVIOUS
  <2> QED BY <2>1, HalfUpWithin
<1> HIDE DEF tax
<1>3. 2400 * tax <= t + 1200
  BY <1>1, <1>2
<1> QED BY <1>1, <1>2, <1>3 DEF tax

LEMMA HundredthsAscend ==
  ASSUME NEW bands, Ascending(bands), \A i \in DOMAIN bands : bands[i].rate <= 50
  PROVE  LET h == [i \in DOMAIN bands |-> [bands[i] EXCEPT !.upto = IF @ = Top THEN Top ELSE 100 * @]]
         IN  Ascending(h) /\ \A i \in DOMAIN h : h[i].rate <= 50
<1> DEFINE h == [i \in DOMAIN bands |-> [bands[i] EXCEPT !.upto = IF @ = Top THEN Top ELSE 100 * @]]
           n == Len(bands)
<1>1. /\ n \in Nat \ {0} /\ DOMAIN bands = 1 .. n
      /\ \A i \in 1 .. n : bands[i] \in Band
      /\ \A i \in 1 .. n : i < n => bands[i].upto \in Nat /\ bands[i].upto # Top
      /\ bands[n].upto = Top
      /\ \A i, j \in 1 .. n : (i <= j /\ j < n) => bands[i].upto <= bands[j].upto
  BY BandsAre
<1>2. ASSUME NEW i \in 1 .. n
      PROVE  /\ h[i] \in Band /\ h[i].rate = bands[i].rate
             /\ i < n => h[i].upto = 100 * bands[i].upto /\ h[i].upto # Top
             /\ i = n => h[i].upto = Top
  <2>1. /\ bands[i] = [upto |-> bands[i].upto, rate |-> bands[i].rate]
        /\ bands[i].rate \in Nat /\ bands[i].upto \in Nat \cup {Top}
    BY <1>1 DEF Band
  <2> DEFINE u == IF bands[i].upto = Top THEN Top ELSE 100 * bands[i].upto
  <2>2. h[i] = [upto |-> u, rate |-> bands[i].rate]
    BY <1>1, <2>1
  <2>3. u \in Nat \cup {Top}
    BY <2>1 DEF Top
  <2>4. i < n => u = 100 * bands[i].upto /\ u # Top
    BY <1>1 DEF Top
  <2>5. i = n => u = Top
    BY <1>1
  <2> HIDE DEF u, h
  <2> QED BY <2>1, <2>2, <2>3, <2>4, <2>5 DEF Band
<1>3. h = [i \in DOMAIN bands |-> h[i]] /\ \A i \in DOMAIN bands : h[i] \in Band
  BY <1>1, <1>2
<1>5. DOMAIN h = 1 .. n
  BY <1>1
<1> HIDE DEF h
<1>4. h \in Seq(Band) /\ Len(h) = n
  <2>1. bands \in Seq(Band)
    BY DEF Ascending, Band
  <2> QED BY <1>3, <2>1, RowsMapped
<1>6. h # <<>>
  BY <1>1, <1>4
<1> HIDE DEF n
<1>7. \A i \in DOMAIN h : (h[i].upto = Top) <=> (i = Len(h))
  BY <1>1, <1>2, <1>4, <1>5
<1>8. \A i, j \in 1 .. Len(h) - 1 : i <= j => h[i].upto <= h[j].upto
  <2> SUFFICES ASSUME NEW i \in 1 .. n - 1, NEW j \in 1 .. n - 1, i <= j
               PROVE  h[i].upto <= h[j].upto
    BY <1>4
  <2>1. i \in 1 .. n /\ j \in 1 .. n /\ i < n /\ j < n
    BY <1>1
  <2>2. bands[i].upto <= bands[j].upto /\ bands[i].upto \in Nat /\ bands[j].upto \in Nat
    BY <1>1, <2>1
  <2> QED BY <1>2, <2>1, <2>2
<1>9. \A i \in DOMAIN h : h[i].rate <= 50
  BY <1>1, <1>2, <1>5
<1>10. Ascending(h)
  BY <1>4, <1>6, <1>7, <1>8 DEF Ascending, Band
<1> QED BY <1>9, <1>10 DEF h

-------------------------------------------------------------------------------
(* The statutory lines of the other countries.                             *)
LEMMA TotalOfThree ==
  ASSUME NEW s, Len(s) = 3, s[1] \in Int, s[2] \in Int, s[3] \in Int
  PROVE  TotalOf(s) = s[1] + s[2] + s[3]
<1>1. \A i \in 1 .. 3 : i = 1 \/ i = 2 \/ i = 3
  OBVIOUS
<1>2. Len(s) \in Nat /\ \A i \in 1 .. Len(s) : s[i] \in Int
  BY <1>1
<1>3. PICK g : Sums(g, s) /\ TotalOf(s) = g[Len(s)]
  BY <1>2, TotalRuns
<1>4. g[0] = 0 /\ \A i \in 1 .. 3 : g[i] = g[i - 1] + s[i]
  BY <1>3 DEF Sums
<1>5. g[1] = g[0] + s[1] /\ g[2] = g[1] + s[2] /\ g[3] = g[2] + s[3]
  BY <1>4
<1>6. g[2] = s[1] + s[2]
  BY <1>4, <1>5
<1>7. g[3] = s[1] + s[2] + s[3]
  BY <1>5, <1>6
<1> QED BY <1>3, <1>7

LEMMA TotalOfFive ==
  ASSUME NEW s, Len(s) = 5, s[1] \in Int, s[2] \in Int, s[3] \in Int, s[4] \in Int, s[5] \in Int
  PROVE  TotalOf(s) = s[1] + s[2] + s[3] + s[4] + s[5]
<1>1. \A i \in 1 .. 5 : i = 1 \/ i = 2 \/ i = 3 \/ i = 4 \/ i = 5
  OBVIOUS
<1>2. Len(s) \in Nat /\ \A i \in 1 .. Len(s) : s[i] \in Int
  BY <1>1
<1>3. PICK g : Sums(g, s) /\ TotalOf(s) = g[Len(s)]
  BY <1>2, TotalRuns
<1>4. g[0] = 0 /\ \A i \in 1 .. 5 : g[i] = g[i - 1] + s[i]
  BY <1>3 DEF Sums
<1>5. g[1] = g[0] + s[1] /\ g[2] = g[1] + s[2] /\ g[3] = g[2] + s[3] /\ g[4] = g[3] + s[4] /\ g[5] = g[4] + s[5]
  BY <1>4
<1>6. g[3] = s[1] + s[2] + s[3]
  BY <1>4, <1>5
<1>7. g[5] = s[1] + s[2] + s[3] + s[4] + s[5]
  BY <1>5, <1>6
<1> QED BY <1>3, <1>7

LEMMA TotalOfSix ==
  ASSUME NEW s, Len(s) = 6, s[1] \in Int, s[2] \in Int, s[3] \in Int, s[4] \in Int, s[5] \in Int, s[6] \in Int
  PROVE  TotalOf(s) = s[1] + s[2] + s[3] + s[4] + s[5] + s[6]
<1>1. \A i \in 1 .. 6 : i = 1 \/ i = 2 \/ i = 3 \/ i = 4 \/ i = 5 \/ i = 6
  OBVIOUS
<1>2. Len(s) \in Nat /\ \A i \in 1 .. Len(s) : s[i] \in Int
  BY <1>1
<1>3. PICK g : Sums(g, s) /\ TotalOf(s) = g[Len(s)]
  BY <1>2, TotalRuns
<1>4. g[0] = 0 /\ \A i \in 1 .. 6 : g[i] = g[i - 1] + s[i]
  BY <1>3 DEF Sums
<1>5. g[1] = g[0] + s[1] /\ g[2] = g[1] + s[2] /\ g[3] = g[2] + s[3] /\ g[4] = g[3] + s[4] /\ g[5] = g[4] + s[5] /\ g[6] = g[5] + s[6]
  BY <1>4
<1>6. g[3] = s[1] + s[2] + s[3]
  BY <1>4, <1>5
<1>7. g[6] = s[1] + s[2] + s[3] + s[4] + s[5] + s[6]
  BY <1>5, <1>6
<1> QED BY <1>3, <1>7

LEMMA TotalOfNone == TotalOf(<<>>) = 0
<1> DEFINE s == <<>>
<1>1. Len(s) = 0
  OBVIOUS
<1> HIDE DEF s
<1>2. Len(s) \in Nat /\ \A i \in 1 .. Len(s) : s[i] \in Int
  BY <1>1
<1>3. PICK g : Sums(g, s) /\ TotalOf(s) = g[Len(s)]
  BY <1>2, TotalRuns
<1> QED BY <1>1, <1>3 DEF Sums, s

(* The least of a wage and a ceiling, and what a year leaves above an       *)
(* allowance.                                                              *)
LEMMA LesserType ==
  ASSUME NEW a \in Nat, NEW b \in Nat
  PROVE  Lesser(a, b) \in Nat /\ Lesser(a, b) <= a /\ Lesser(a, b) <= b
  BY DEF Lesser

LEMMA GentleTax ==
  ASSUME NEW g \in Nat, NEW brackets, NEW allowance, Gentle(brackets, allowance)
  PROVE  LET tax == HalfUp(ProgressiveTax(Positive(12 * g - allowance), brackets), 1200)
         IN  tax \in Nat /\ (tax = 0 \/ 2 * tax <= g - 7)
<1>1. Ascending(brackets) /\ (\A i \in DOMAIN brackets : brackets[i].rate <= 50)
      /\ allowance \in Nat /\ allowance >= 100
  BY DEF Gentle
<1>2. PICK t \in Nat : t = Positive(12 * g - allowance) /\ (t = 0 \/ t = 12 * g - allowance)
  BY <1>1 DEF Positive
<1> DEFINE tax == HalfUp(ProgressiveTax(t, brackets), 1200)
<1>3. tax \in Nat /\ 24 * tax <= t + 12
  BY <1>1, MonthlyTaxWithin
<1>4. HalfUp(ProgressiveTax(Positive(12 * g - allowance), brackets), 1200) = tax
  BY <1>2
<1> HIDE DEF tax
<1>5. tax = 0 \/ 2 * tax <= g - 7
  BY <1>1, <1>2, <1>3
<1> QED BY <1>3, <1>4, <1>5

-------------------------------------------------------------------------------
(* Lines that are not negative, and that leave something of the gross.     *)
Fits(e, gross) ==
  /\ TotalOf(e.employee) \in 0 .. gross
  /\ \A i \in DOMAIN e.employer : e.employer[i] \in Nat

LEMMA KoreaFits ==
  ASSUME NEW g \in Nat
  PROVE  Fits(Korea(g), g)
<1> DEFINE r == Rules.kr
           pension == Share(Lesser(g, r.cap), r.pension)
           health == Share(g, r.health)
           care == Share(health, r.care)
           employment == Share(g, r.employment)
           tax == HalfUp(ProgressiveTax(Positive(12 * g - r.personal), r.brackets), 1200)
           local == Share(tax, r.local)
           accident == Share(g, r.accident)
<1>1. /\ r.cap \in Nat /\ Gentle(r.brackets, r.personal) /\ r.accident \in Rates
      /\ AtMost(r.pension, 10) /\ AtMost(r.health, 10) /\ AtMost(r.care, 20)
      /\ AtMost(r.employment, 5) /\ AtMost(r.local, 20)
  BY AbroadAssumption
<1>2. Korea(g) = [employee |-> <<pension, health, care, employment, tax, local>>,
                  employer |-> <<pension, health, care, employment, accident>>]
  BY DEF Korea
<1>3. pension \in Nat /\ 200 * pension <= 20 * g + 100 /\ 100 * pension <= 20 * g
  <2>1. Lesser(g, r.cap) \in Nat /\ Lesser(g, r.cap) <= g /\ 10 \in Nat
    BY <1>1, LesserType
  <2>2. /\ pension \in Nat
        /\ 200 * pension <= 2 * (10 * Lesser(g, r.cap)) + 100
        /\ 100 * pension <= 2 * (10 * Lesser(g, r.cap))
    BY <1>1, <2>1, ShareBounds
  <2> QED BY <2>1, <2>2
<1>4. health \in Nat /\ 200 * health <= 20 * g + 100 /\ 100 * health <= 20 * g
  <2>1. 10 \in Nat
    OBVIOUS
  <2>2. health \in Nat /\ 200 * health <= 2 * (10 * g) + 100 /\ 100 * health <= 2 * (10 * g)
    BY <1>1, <2>1, ShareBounds
  <2> QED BY <2>2
<1>5. employment \in Nat /\ 200 * employment <= 10 * g + 100 /\ 100 * employment <= 10 * g
  <2>1. 5 \in Nat
    OBVIOUS
  <2>2. employment \in Nat /\ 200 * employment <= 2 * (5 * g) + 100 /\ 100 * employment <= 2 * (5 * g)
    BY <1>1, <2>1, ShareBounds
  <2> QED BY <2>2
<1>6. tax \in Nat /\ (tax = 0 \/ 2 * tax <= g - 7)
  BY <1>1, GentleTax
<1>7. accident \in Nat
  BY <1>1, ShareType
<1> HIDE DEF health, tax
<1>8. care \in Nat /\ 200 * care <= 40 * health + 100 /\ 100 * care <= 40 * health
  <2>1. 20 \in Nat
    OBVIOUS
  <2>2. care \in Nat /\ 200 * care <= 2 * (20 * health) + 100 /\ 100 * care <= 2 * (20 * health)
    BY <1>1, <1>4, <2>1, ShareBounds
  <2> QED BY <1>4, <2>2
<1>9. local \in Nat /\ 200 * local <= 40 * tax + 100 /\ 100 * local <= 40 * tax
  <2>1. 20 \in Nat
    OBVIOUS
  <2>2. local \in Nat /\ 200 * local <= 2 * (20 * tax) + 100 /\ 100 * local <= 2 * (20 * tax)
    BY <1>1, <1>6, <2>1, ShareBounds
  <2> QED BY <1>6, <2>2
<1> HIDE DEF pension, care, employment, local, accident, r
<1>10. TotalOf(Korea(g).employee) = pension + health + care + employment + tax + local
  <2> DEFINE s == <<pension, health, care, employment, tax, local>>
  <2>1. /\ Len(s) = 6 /\ s[1] = pension /\ s[2] = health /\ s[3] = care
        /\ s[4] = employment /\ s[5] = tax /\ s[6] = local
    OBVIOUS
  <2>2. Korea(g).employee = s
    BY <1>2
  <2> HIDE DEF s
  <2>3. TotalOf(s) = s[1] + s[2] + s[3] + s[4] + s[5] + s[6]
    BY <1>3, <1>4, <1>5, <1>6, <1>8, <1>9, <2>1, TotalOfSix
  <2> QED BY <2>1, <2>2, <2>3
<1>11. pension + health + care + employment + tax + local \in 0 .. g
  <2>1. CASE tax = 0
    BY <1>3, <1>4, <1>5, <1>8, <1>9, <2>1
  <2>2. CASE 2 * tax <= g - 7
    BY <1>3, <1>4, <1>5, <1>6, <1>8, <1>9, <2>2
  <2> QED BY <1>6, <2>1, <2>2
<1>12. \A i \in DOMAIN Korea(g).employer : Korea(g).employer[i] \in Nat
  BY <1>2, <1>3, <1>4, <1>5, <1>7, <1>8
<1> QED BY <1>10, <1>11, <1>12 DEF Fits

LEMMA UnitedStatesFits ==
  ASSUME NEW g \in Nat
  PROVE  Fits(UnitedStates(g), g)
<1> DEFINE r == Rules.us
           security == HalfUp(Lesser(12 * g, r.base) * r.security[1], 12 * r.security[2])
           medicare == Share(g, r.medicare)
           above == HalfUp(medicare * r.additional[2] + g * r.additional[1], r.additional[2])
           more == IF 12 * g > r.threshold THEN above ELSE medicare
           tax == HalfUp(ProgressiveTax(Positive(12 * g - r.standard), r.brackets), 1200)
           futa == HalfUp(Lesser(12 * g, r.futaBase) * r.futa[1], 12 * r.futa[2])
<1>1. /\ r.base \in Nat /\ r.futaBase \in Nat /\ r.threshold \in Int /\ r.futa \in Rates
      /\ Gentle(r.brackets, r.standard)
      /\ AtMost(r.security, 10) /\ AtMost(r.medicare, 5) /\ AtMost(r.additional, 5)
  BY AbroadAssumption
<1>2. UnitedStates(g) = [employee |-> <<security, more, tax>>, employer |-> <<security, medicare, futa>>]
  BY DEF UnitedStates
<1>3. security \in Nat /\ 200 * security <= 20 * g + 100 /\ 100 * security <= 20 * g
  <2>1. 12 * g \in Nat
    OBVIOUS
  <2>2. PICK x \in Nat : x = Lesser(12 * g, r.base) /\ x <= 12 * g
    BY <1>1, <2>1, LesserType
  <2>3. 10 \in Nat /\ 12 \in Nat \ {0}
    OBVIOUS
  <2> DEFINE y == HalfUp(x * r.security[1], 12 * r.security[2])
  <2>4. y \in Nat /\ 200 * (12 * y) <= 2 * (10 * x) + 100 * 12 /\ 100 * (12 * y) <= 2 * (10 * x)
    BY <1>1, <2>3, ShareAtMost
  <2>5. security = y
    BY <2>2
  <2> HIDE DEF y, security
  <2> QED BY <2>2, <2>4, <2>5
<1>4. medicare \in Nat /\ 200 * medicare <= 10 * g + 100 /\ 100 * medicare <= 10 * g
  <2>1. 5 \in Nat
    OBVIOUS
  <2>2. medicare \in Nat /\ 200 * medicare <= 2 * (5 * g) + 100 /\ 100 * medicare <= 2 * (5 * g)
    BY <1>1, <2>1, ShareBounds
  <2> QED BY <2>2
<1>5. tax \in Nat /\ (tax = 0 \/ 2 * tax <= g - 7)
  BY <1>1, GentleTax
<1>6. futa \in Nat
  <2>1. PICK a \in Nat, b \in Nat \ {0} : a = r.futa[1] /\ b = r.futa[2]
    BY <1>1 DEF Rates
  <2>2. PICK x \in Nat : x = Lesser(12 * g, r.futaBase)
    <3>1. 12 * g \in Nat
      OBVIOUS
    <3> QED BY <1>1, <3>1, LesserType
  <2>3. x * a \in Nat /\ 12 * b \in Nat \ {0}
    BY <2>1
  <2> QED BY <2>1, <2>2, <2>3, HalfUpWithin
<1> HIDE DEF medicare, tax
<1>7. more \in Nat /\ 200 * more <= 200 * medicare + 10 * g + 100 /\ 100 * more <= 200 * medicare + 10 * g
  <2>1. PICK a \in Nat, b \in Nat \ {0} : a = r.additional[1] /\ b = r.additional[2] /\ 100 * a <= 5 * b
    BY <1>1 DEF AtMost, Rates
  <2>2. PICK p \in Nat, q \in Nat : p = medicare * b /\ q = g * a
    <3>1. medicare * b \in Nat
      <4>1. PICK m \in Nat : m = medicare
        BY <1>4
      <4>2. m * b \in Nat
        BY <2>1
      <4> QED BY <4>1, <4>2
    <3>2. g * a \in Nat
      BY <2>1
    <3> QED BY <3>1, <3>2
  <2>3. above = HalfUp(p + q, b)
    BY <2>1, <2>2
  <2> HIDE DEF above
  <2>4. above \in Nat /\ 2 * (b * above) <= 2 * (p + q) + b /\ b * above <= 2 * (p + q)
    <3>1. p + q \in Nat
      BY <2>2
    <3> QED BY <2>1, <2>3, <3>1, HalfUpWithin
  <2>5. 100 * q <= 5 * (g * b)
    <3>1. PICK e \in Nat, f \in Nat : e = 100 * a /\ f = 5 * b /\ e <= f
      BY <2>1
    <3>2. e * g <= f * g
      BY <3>1, MoreTimes
    <3>3. e * g = 100 * q /\ f * g = 5 * (g * b)
      BY <2>1, <2>2, <3>1
    <3> QED BY <3>2, <3>3
  <2>6. PICK u \in Nat, v \in Nat : u = b * above /\ v = g * b
    BY <2>1, <2>4
  <2>7. (200 * above) * b = 200 * u /\ (100 * above) * b = 100 * u
        /\ (200 * medicare + 10 * g + 100) * b = 200 * p + 10 * v + 100 * b
        /\ (200 * medicare + 10 * g) * b = 200 * p + 10 * v
    BY <1>4, <2>1, <2>2, <2>4, <2>6
  <2>8. 200 * u <= 200 * p + 10 * v + 100 * b /\ 100 * u <= 200 * p + 10 * v
    BY <2>1, <2>2, <2>4, <2>5, <2>6
  <2>9. 200 * above <= 200 * medicare + 10 * g + 100
    <3>1. PICK x \in Int, y \in Int : x = 200 * above /\ y = 200 * medicare + 10 * g + 100
      BY <1>4, <2>4
    <3>2. x * b <= y * b
      BY <2>7, <2>8, <3>1
    <3> QED BY <3>1, <3>2, Cancelled
  <2>10. 100 * above <= 200 * medicare + 10 * g
    <3>1. PICK x \in Int, y \in Int : x = 100 * above /\ y = 200 * medicare + 10 * g
      BY <1>4, <2>4
    <3>2. x * b <= y * b
      BY <2>7, <2>8, <3>1
    <3> QED BY <3>1, <3>2, Cancelled
  <2>11. more = above \/ more = medicare
    OBVIOUS
  <2> HIDE DEF more
  <2> QED BY <1>4, <2>4, <2>9, <2>10, <2>11
<1> HIDE DEF security, more, futa, r
<1>8. TotalOf(UnitedStates(g).employee) = security + more + tax
  <2> DEFINE s == <<security, more, tax>>
  <2>1. Len(s) = 3 /\ s[1] = security /\ s[2] = more /\ s[3] = tax
    OBVIOUS
  <2>2. UnitedStates(g).employee = s
    BY <1>2
  <2> HIDE DEF s
  <2>3. TotalOf(s) = s[1] + s[2] + s[3]
    BY <1>3, <1>5, <1>7, <2>1, TotalOfThree
  <2> QED BY <2>1, <2>2, <2>3
<1>9. security + more + tax \in 0 .. g
  <2>1. CASE tax = 0
    BY <1>3, <1>4, <1>7, <2>1
  <2>2. CASE 2 * tax <= g - 7
    BY <1>3, <1>4, <1>5, <1>7, <2>2
  <2> QED BY <1>5, <2>1, <2>2
<1>10. \A i \in DOMAIN UnitedStates(g).employer : UnitedStates(g).employer[i] \in Nat
  BY <1>2, <1>3, <1>4, <1>6
<1> QED BY <1>8, <1>9, <1>10 DEF Fits

-------------------------------------------------------------------------------
LEMMA DeductionType ==
  ASSUME NEW annual \in Nat
  PROVE  IncomeDeduction(annual) \in Nat
<1> DEFINE tiers == Rules.jp.tiers
           S == {i \in DOMAIN tiers : tiers[i].upto = Top \/ annual <= tiers[i].upto}
           k == Min(S)
           Tier == [upto : Nat \cup {Top}, rate : Nat, plus : Int]
<1>1. /\ tiers \in Seq(Tier) /\ tiers # <<>> /\ tiers[Len(tiers)].upto = Top
      /\ \A i \in DOMAIN tiers : LowerEnd(tiers, i) * tiers[i].rate + 100 * tiers[i].plus >= 0
  BY AbroadAssumption
<1>2. /\ Len(tiers) \in Nat \ {0} /\ DOMAIN tiers = 1 .. Len(tiers)
      /\ \A i \in DOMAIN tiers : tiers[i] \in Tier
  <2>1. Len(tiers) \in Nat /\ DOMAIN tiers = 1 .. Len(tiers) /\ \A i \in 1 .. Len(tiers) : tiers[i] \in Tier
    <3> HIDE DEF tiers, Tier
    <3> QED BY <1>1, RowsShape
  <2> QED BY <1>1, <2>1
<1>3. IncomeDeduction(annual) = annual * tiers[k].rate + 100 * tiers[k].plus
  BY DEF IncomeDeduction
<1>4. k \in S /\ \A y \in S : k <= y
  <2>1. Len(tiers) \in S /\ S \in SUBSET Nat
    BY <1>1, <1>2
  <2> HIDE DEF S
  <2> QED BY <2>1, LeastMember
<1>5. k \in DOMAIN tiers /\ k \in Nat
  BY <1>2, <1>4
<1>6. \A i \in DOMAIN tiers : i < k => tiers[i].upto # Top /\ ~(annual <= tiers[i].upto)
  <2> SUFFICES ASSUME NEW i \in DOMAIN tiers, i < k, i \in S PROVE FALSE
    OBVIOUS
  <2>1. k <= i
    BY <1>4
  <2> HIDE DEF k, S
  <2> QED BY <1>2, <1>5, <2>1
<1> HIDE DEF k, tiers
<1>7. tiers[k].rate \in Nat /\ tiers[k].plus \in Int
  BY <1>2, <1>5
<1>8. LowerEnd(tiers, k) \in Nat /\ LowerEnd(tiers, k) <= annual
  <2>1. CASE k = 1
    BY <2>1 DEF LowerEnd
  <2>2. CASE k # 1
    <3>1. k - 1 \in DOMAIN tiers /\ k - 1 < k
      BY <1>2, <1>5, <2>2
    <3>2. tiers[k - 1].upto \in Nat \cup {Top}
      BY <1>2, <3>1
    <3>3. tiers[k - 1].upto # Top /\ ~(annual <= tiers[k - 1].upto)
      BY <1>6, <3>1
    <3>4. LowerEnd(tiers, k) = tiers[k - 1].upto
      BY <2>2 DEF LowerEnd
    <3> QED BY <3>2, <3>3, <3>4
  <2> QED BY <2>1, <2>2
<1>9. PICK a \in Nat, b \in Nat : a = LowerEnd(tiers, k) * tiers[k].rate /\ b = annual * tiers[k].rate /\ a <= b
  BY <1>7, <1>8, MoreTimes
<1>10. a + 100 * tiers[k].plus >= 0
  BY <1>1, <1>5, <1>9
<1>11. b + 100 * tiers[k].plus \in Nat
  BY <1>7, <1>9, <1>10
<1> QED BY <1>3, <1>9, <1>11

LEMMA JapanFits ==
  ASSUME NEW g \in Nat
  PROVE  Fits(Japan(g), g)
<1> DEFINE r == Rules.jp
           health == Share(g, r.health)
           care == Share(g, r.care)
           pension == Share(Lesser(g, r.cap), r.pension)
           employment == Share(g, r.employment)
           taxable == Positive(1200 * g - IncomeDeduction(12 * g) - 100 * r.basic)
           hundredths == [i \in DOMAIN r.brackets |->
                            [r.brackets[i] EXCEPT !.upto = IF @ = Top THEN Top ELSE 100 * @]]
           tax == HalfUp(ProgressiveTax(taxable, hundredths), 120000)
           more == Share(g, r.employer)
           accident == Share(g, r.accident)
<1>1. /\ r.cap \in Nat /\ Gentle(r.brackets, r.basic) /\ r.employer \in Rates /\ r.accident \in Rates
      /\ AtMost(r.health, 10) /\ AtMost(r.care, 2) /\ AtMost(r.pension, 10) /\ AtMost(r.employment, 5)
  BY AbroadAssumption
<1>2. Japan(g) = [employee |-> <<health, care, pension, employment, tax>>,
                  employer |-> <<health, care, pension, more, accident>>]
  BY DEF Japan
<1>3. pension \in Nat /\ 200 * pension <= 20 * g + 100 /\ 100 * pension <= 20 * g
  <2>1. Lesser(g, r.cap) \in Nat /\ Lesser(g, r.cap) <= g /\ 10 \in Nat
    BY <1>1, LesserType
  <2>2. /\ pension \in Nat
        /\ 200 * pension <= 2 * (10 * Lesser(g, r.cap)) + 100
        /\ 100 * pension <= 2 * (10 * Lesser(g, r.cap))
    BY <1>1, <2>1, ShareBounds
  <2> QED BY <2>1, <2>2
<1>4. health \in Nat /\ 200 * health <= 20 * g + 100 /\ 100 * health <= 20 * g
  <2>1. 10 \in Nat
    OBVIOUS
  <2>2. health \in Nat /\ 200 * health <= 2 * (10 * g) + 100 /\ 100 * health <= 2 * (10 * g)
    BY <1>1, <2>1, ShareBounds
  <2> QED BY <2>2
<1>5. care \in Nat /\ 200 * care <= 4 * g + 100 /\ 100 * care <= 4 * g
  <2>1. 2 \in Nat
    OBVIOUS
  <2>2. care \in Nat /\ 200 * care <= 2 * (2 * g) + 100 /\ 100 * care <= 2 * (2 * g)
    BY <1>1, <2>1, ShareBounds
  <2> QED BY <2>2
<1>6. employment \in Nat /\ 200 * employment <= 10 * g + 100 /\ 100 * employment <= 10 * g
  <2>1. 5 \in Nat
    OBVIOUS
  <2>2. employment \in Nat /\ 200 * employment <= 2 * (5 * g) + 100 /\ 100 * employment <= 2 * (5 * g)
    BY <1>1, <2>1, ShareBounds
  <2> QED BY <2>2
<1>7. more \in Nat /\ accident \in Nat
  BY <1>1, ShareType
<1>8. taxable \in Nat /\ (taxable = 0 \/ taxable <= 1200 * g - 10000)
  <2>1. 12 * g \in Nat
    OBVIOUS
  <2>2. PICK off \in Nat : off = IncomeDeduction(12 * g)
    BY <2>1, DeductionType
  <2>3. r.basic \in Nat /\ r.basic >= 100
    BY <1>1 DEF Gentle
  <2> QED BY <2>2, <2>3 DEF Positive
<1>9. Ascending(hundredths) /\ \A i \in DOMAIN hundredths : hundredths[i].rate <= 50
  <2>1. Ascending(r.brackets) /\ \A i \in DOMAIN r.brackets : r.brackets[i].rate <= 50
    BY <1>1 DEF Gentle
  <2> QED BY <2>1, HundredthsAscend
<1> HIDE DEF taxable, hundredths
<1>10. tax \in Nat /\ (tax = 0 \/ 2 * tax <= g - 7)
  <2>1. tax \in Nat /\ 2400 * tax <= taxable + 1200
    BY <1>8, <1>9, HundredthsTaxWithin
  <2> HIDE DEF tax
  <2> QED BY <1>8, <2>1
<1> HIDE DEF pension, health, care, employment, tax, more, accident, r
<1>11. TotalOf(Japan(g).employee) = health + care + pension + employment + tax
  <2> DEFINE s == <<health, care, pension, employment, tax>>
  <2>1. Len(s) = 5 /\ s[1] = health /\ s[2] = care /\ s[3] = pension /\ s[4] = employment /\ s[5] = tax
    OBVIOUS
  <2>2. Japan(g).employee = s
    BY <1>2
  <2> HIDE DEF s
  <2>3. TotalOf(s) = s[1] + s[2] + s[3] + s[4] + s[5]
    BY <1>3, <1>4, <1>5, <1>6, <1>10, <2>1, TotalOfFive
  <2> QED BY <2>1, <2>2, <2>3
<1>12. health + care + pension + employment + tax \in 0 .. g
  <2>1. CASE tax = 0
    BY <1>3, <1>4, <1>5, <1>6, <2>1
  <2>2. CASE 2 * tax <= g - 7
    BY <1>3, <1>4, <1>5, <1>6, <1>10, <2>2
  <2> QED BY <1>10, <2>1, <2>2
<1>13. \A i \in DOMAIN Japan(g).employer : Japan(g).employer[i] \in Nat
  BY <1>2, <1>3, <1>4, <1>5, <1>7
<1> QED BY <1>11, <1>12, <1>13 DEF Fits

-------------------------------------------------------------------------------
(* The employer's lines in India.                                          *)
LEMMA PartFits ==
  ASSUME NEW x \in Nat, NEW y \in Nat, x <= y,
         NEW a \in Nat, NEW b \in Nat \ {0}, NEW c \in Nat, NEW d \in Nat \ {0}, a * d <= c * b
  PROVE  (x * a) * d <= (y * c) * b /\ x * a \in Nat /\ y * c \in Nat
<1>1. x * a <= y * a /\ x * a \in Nat /\ y * a \in Nat
  BY MoreTimes
<1>2. PICK p \in Nat, q \in Nat : p = x * a /\ q = y * a
  BY <1>1
<1>3. p * d <= q * d /\ p * d \in Nat /\ q * d \in Nat
  BY <1>1, <1>2, MoreTimes
<1>4. PICK u \in Nat, v \in Nat : u = a * d /\ v = c * b /\ u <= v
  OBVIOUS
<1>5. u * y <= v * y /\ u * y \in Nat /\ v * y \in Nat
  BY <1>4, MoreTimes
<1>6. q * d = u * y
  BY <1>2, <1>4
<1>7. (y * c) * b = v * y
  BY <1>4
<1> QED BY <1>1, <1>2, <1>3, <1>5, <1>6, <1>7

LEMMA FundFits ==
  ASSUME NEW wage \in Nat, NEW capped, PensionFits
  PROVE  ProvidentFund(wage, capped).employer \in Seq(Nat)
<1> DEFINE contributory == IF capped THEN Lesser(wage, Rules.pfCeiling) ELSE wage
           pension == NearestRupee(Lesser(wage, Rules.epsCeiling) * Rules.eps[1], Rules.eps[2])
           total == NearestRupee(contributory * Rules.pfEmployer[1], Rules.pfEmployer[2])
           mine == NearestRupee(contributory * Rules.pfEmployee[1], Rules.pfEmployee[2])
<1>1. Rules.pfCeiling \in Nat /\ Rules.epsCeiling \in Nat /\ Rules.eps \in Rates /\ Rules.pfEmployer \in Rates
  BY RulesAssumption
<1>2. PICK a \in Nat, b \in Nat \ {0} : a = Rules.eps[1] /\ b = Rules.eps[2]
  BY <1>1 DEF Rates
<1>3. PICK c \in Nat, d \in Nat \ {0} : c = Rules.pfEmployer[1] /\ d = Rules.pfEmployer[2]
  BY <1>1 DEF Rates
<1>4. PICK x \in Nat : x = Lesser(wage, Rules.epsCeiling) /\ x <= wage /\ x <= Rules.epsCeiling
  BY <1>1, LesserType
<1>5. PICK y \in Nat : y = contributory /\ x <= y
  <2>1. Lesser(wage, Rules.pfCeiling) \in Nat
    BY <1>1, LesserType
  <2>2. Rules.epsCeiling <= Rules.pfCeiling
    BY DEF PensionFits
  <2>3. x <= Lesser(wage, Rules.pfCeiling)
    BY <1>1, <1>4, <2>2 DEF Lesser
  <2> QED BY <1>4, <2>1, <2>3
<1>6. a * d <= c * b
  BY <1>2, <1>3 DEF PensionFits
<1>7. (x * a) * d <= (y * c) * b /\ x * a \in Nat /\ y * c \in Nat
  <2>1. x <= y /\ a * d <= c * b
    BY <1>5, <1>6
  <2> QED BY <2>1, PartFits
<1>8. PICK m \in Nat, n \in Nat : m = x * a /\ n = y * c /\ m * d <= n * b
  BY <1>7
<1>9. m * (d * Rupee) <= n * (b * Rupee) /\ d * Rupee \in Nat \ {0} /\ b * Rupee \in Nat \ {0}
  <2>1. PICK u \in Int, v \in Int : u = m * d /\ v = n * b
    OBVIOUS
  <2>2. m * (d * 100) = 100 * u /\ n * (b * 100) = 100 * v
    BY <2>1
  <2> QED BY <1>8, <2>1, <2>2 DEF Rupee
<1>10. HalfUp(m, b * Rupee) <= HalfUp(n, d * Rupee)
  BY <1>8, <1>9, HalfUpOrder
<1>11. HalfUp(m, b * Rupee) \in Nat /\ HalfUp(n, d * Rupee) \in Nat
  BY <1>9, HalfUpWithin
<1>12. pension = Rupee * HalfUp(m, b * Rupee) /\ total = Rupee * HalfUp(n, d * Rupee)
  <2> HIDE DEF contributory
  <2> QED BY <1>2, <1>3, <1>4, <1>5, <1>8 DEF NearestRupee
<1>13. ProvidentFund(wage, capped) = [employee |-> mine, employer |-> <<total - pension, pension>>]
  BY DEF ProvidentFund
<1> HIDE DEF pension, total, mine
<1>14. total - pension \in Nat /\ pension \in Nat
  BY <1>10, <1>11, <1>12 DEF Rupee
<1>15. <<total - pension, pension>> \in Seq(Nat)
  BY <1>14
<1> QED BY <1>13, <1>15

LEMMA InsuranceFits ==
  ASSUME NEW gross \in Nat
  PROVE  Insurance(gross).employer \in Seq(Nat)
<1>1. Rules.esiEmployer \in Rates
  BY RulesAssumption
<1>2. PICK x \in Nat : x = NextRupee(gross * Rules.esiEmployer[1], Rules.esiEmployer[2])
  BY <1>1, NextRupeeType
<1>3. <<x>> \in Seq(Nat) /\ <<>> \in Seq(Nat)
  OBVIOUS
<1>4. Insurance(gross).employer = <<>> \/ Insurance(gross).employer = <<x>>
  BY <1>2 DEF Insurance
<1> QED BY <1>3, <1>4

LEMMA WageType ==
  ASSUME NEW s, s.pfCodes \in Seq(STRING), NEW earned \in Seq(Amounts), NEW gross \in Nat
  PROVE  PfWage(s, earned, gross) \in Nat
<1> DEFINE refs == RefsOf(earned)
           codes == WageCodes(s)
           of == [i \in DOMAIN codes |-> IF codes[i] \in DOMAIN refs THEN refs[codes[i]] ELSE 0]
           wage == TotalOf(of)
<1>0. PICK Names : codes \in Seq(Names)
  <2>1. CASE s.pfCodes = <<>>
    <3>1. codes = <<"BASIC">>
      BY <2>1 DEF WageCodes
    <3> HIDE DEF codes
    <3>2. <<"BASIC">> \in Seq({"BASIC"})
      OBVIOUS
    <3> QED BY <3>1, <3>2
  <2>2. CASE s.pfCodes # <<>>
    BY <2>2 DEF WageCodes
  <2> QED BY <2>1, <2>2
<1> HIDE DEF codes
<1>1. Len(earned) \in Nat /\ DOMAIN earned = 1 .. Len(earned) /\ \A i \in 1 .. Len(earned) : earned[i] \in Amounts
  BY RowsShape
<1>2. \A c \in DOMAIN refs : refs[c] \in Int
  <2> SUFFICES ASSUME NEW c \in {earned[i].code : i \in DOMAIN earned}
               PROVE  earned[Max({i \in DOMAIN earned : earned[i].code = c})].amount \in Int
    BY DEF RefsOf
  <2> DEFINE S == {i \in DOMAIN earned : earned[i].code = c}
  <2>1. S \in SUBSET Int /\ S # {} /\ (\A y \in S : y <= Len(earned)) /\ Len(earned) \in Int
    BY <1>1
  <2>2. S \subseteq 1 .. Len(earned)
    BY <1>1
  <2> HIDE DEF S
  <2>3. Max(S) \in S
    BY <2>1, GreatestMember
  <2>4. earned[Max(S)] \in Amounts
    BY <1>1, <2>2, <2>3
  <2>5. earned[Max(S)].amount \in Int
    BY <2>4 DEF Amounts
  <2> QED BY <2>5 DEF S
<1> HIDE DEF refs
<1>3. Len(codes) \in Nat /\ DOMAIN codes = 1 .. Len(codes)
  BY <1>0, RowsShape
<1>4. \A i \in DOMAIN codes : of[i] \in Int
  BY <1>2
<1>5. of = [i \in DOMAIN codes |-> of[i]]
  OBVIOUS
<1> HIDE DEF of
<1>6. Len(of) = Len(codes)
  BY <1>0, <1>4, <1>5, RowsMapped
<1>7. wage \in Int
  <2>1. Len(of) \in Nat /\ \A i \in 1 .. Len(of) : of[i] \in Int
    BY <1>3, <1>4, <1>6
  <2>2. PICK g : Sums(g, of) /\ TotalOf(of) = g[Len(of)]
    BY <2>1, TotalRuns
  <2> QED BY <2>1, <2>2 DEF Sums
<1>8. PfWage(s, earned, gross) = IF wage <= 0 THEN gross ELSE wage
  BY DEF PfWage, of, refs, codes
<1> HIDE DEF wage
<1> QED BY <1>7, <1>8

LEMMA IndiaFits ==
  ASSUME NEW s, s.pfCodes \in Seq(STRING), NEW c, NEW raw, NEW earned \in Seq(Amounts),
         SumOf(earned) >= 0, PensionFits
  PROVE  \A i \in DOMAIN India(s, c, raw, earned).employer : India(s, c, raw, earned).employer[i] \in Nat
<1> DEFINE gross == SumOf(earned)
           wage == PfWage(s, earned, gross)
           pf == ProvidentFund(wage, s.capped).employer
           esi == Insurance(gross).employer
           p == IF s.pf THEN pf ELSE <<>>
           q == IF s.esi THEN esi ELSE <<>>
           e == India(s, c, raw, earned).employer
<1>1. gross \in Nat
  <2>1. SumOf(earned) \in Int
    BY SumIs
  <2> QED BY <2>1
<1>2. wage \in Nat
  <2> HIDE DEF gross
  <2> QED BY <1>1, WageType
<1>3. pf \in Seq(Nat)
  <2> HIDE DEF wage
  <2> QED BY <1>2, FundFits
<1>4. esi \in Seq(Nat)
  <2> HIDE DEF gross
  <2> QED BY <1>1, InsuranceFits
<1>5. e = p \o q
  BY DEF India
<1> HIDE DEF pf, esi, e
<1>6. p \in Seq(Nat) /\ q \in Seq(Nat)
  BY <1>3, <1>4
<1> HIDE DEF p, q
<1>7. e \in Seq(Nat)
  BY <1>5, <1>6, RowsJoined
<1>8. DOMAIN e = 1 .. Len(e) /\ \A i \in 1 .. Len(e) : e[i] \in Nat
  BY <1>7, RowsShape
<1> QED BY <1>8 DEF e

-------------------------------------------------------------------------------
LEMMA NothingResolved ==
  ASSUME NEW refs, NEW base
  PROVE  Resolve(<<>>, refs, base).sum = 0
<1> DEFINE start == [refs |-> refs, sum |-> 0, lines |-> <<>>, aside |-> <<>>]
           none == <<>>
           Runs(g) == g = [i \in 0 .. Len(none) |-> IF i = 0 THEN start ELSE LineAdded(g[i - 1], none[i], base)]
           f == [i \in 0 .. 0 |-> start]
<1>1. Len(none) = 0 /\ \A i \in 0 .. 0 : i = 0
  OBVIOUS
<1>2. Runs(f)
  <2> HIDE DEF start
  <2> QED BY <1>1
<1>3. PICK g : Runs(g) /\ Resolve(none, refs, base) = g[Len(none)]
  BY <1>2 DEF Resolve, start
<1>4. g[0] = start
  <2>1. 0 \in 0 .. Len(none)
    BY <1>1
  <2> HIDE DEF start, none
  <2> QED BY <1>3, <2>1
<1> QED BY <1>1, <1>3, <1>4

LEMMA NothingAdded ==
  ASSUME NEW f, f = [i \in DOMAIN <<>> |-> f[i]]
  PROVE  TotalOf(f) = 0
<1> DEFINE none == <<>>
<1>1. none \in Seq(Int) /\ Len(none) = 0 /\ DOMAIN none = {}
  OBVIOUS
<1>2. f = [i \in DOMAIN none |-> f[i]] /\ \A i \in DOMAIN none : f[i] \in Int
  BY <1>1
<1> HIDE DEF none
<1>3. Len(f) = 0
  BY <1>1, <1>2, RowsMapped
<1>4. PICK g : Sums(g, f) /\ TotalOf(f) = g[Len(f)]
  <2>1. Len(f) \in Nat /\ \A i \in 1 .. Len(f) : f[i] \in Int
    BY <1>3
  <2> QED BY <2>1, TotalRuns
<1> QED BY <1>3, <1>4 DEF Sums

LEMMA EngineFits ==
  ASSUME NEW country \in Abroad, NEW g \in Nat
  PROVE  Fits(Engine(country, g), g)
<1>1. CASE country = "KR"
  <2>1. Engine(country, g) = Korea(g)
    BY <1>1 DEF Engine
  <2> QED BY <2>1, KoreaFits
<1>2. CASE country = "JP"
  <2>1. Engine(country, g) = Japan(g)
    BY <1>2 DEF Engine
  <2> QED BY <2>1, JapanFits
<1>3. CASE country = "US"
  <2>1. Engine(country, g) = UnitedStates(g)
    BY <1>3 DEF Engine
  <2> QED BY <2>1, UnitedStatesFits
<1> QED BY <1>1, <1>2, <1>3 DEF Abroad

(* What a payslip is made of.                                              *)
LEMMA SlipIs ==
  ASSUME NEW c
  PROVE  LET s == c.structure
             p == ComputePayslip(c)
             raw == RawEarnings(s)
             refs == RefsOf(p.earned)
             gross == SumOf(p.earned)
             Row(kind) == [i \in DOMAIN c.adjustments |->
                             IF c.adjustments[i].kind = kind THEN c.adjustments[i].amount ELSE 0]
         IN  /\ p.earned = [i \in DOMAIN raw |-> [raw[i] EXCEPT !.amount = Prorated(@, c)]]
             /\ p.statutory = IF c.country \in Abroad THEN Engine(c.country, gross) ELSE India(s, c, raw, p.earned)
             /\ p.gross = gross + TotalOf(Row("earning"))
             /\ p.net = p.gross - p.deductions
             /\ \E r : p.deductions = Resolve(Deductions(s), r, <<gross>>).sum
                                      + TotalOf(p.statutory.employee) + TotalOf(Row("deduction"))
  BY DEF ComputePayslip

(* The earnings make up the share of the days and the CTC; of a month whose *)
(* earnings are not below zero, no line of the employer's is negative where *)
(* the pension fits the fund, and abroad the statutory lines eat no more    *)
(* than the gross (compute_payslip, statutory.py, statutory_intl.py): for   *)
(* every package, number of days and table whose rates are bounded as the   *)
(* code's are.                                                              *)
THEOREM PayslipSound == PayslipSpec => []PayslipAddsUp
<1>1. PayslipInv /\ EarningsAddUp => PayslipAddsUp
  <2> SUFFICES ASSUME PayslipInv, slip # Undrawn, claim.structure.hourly = 0, SumOf(slip.earned) >= 0
               PROVE  /\ (claim.country \in Abroad \/ PensionFits) =>
                            \A i \in DOMAIN slip.statutory.employer : slip.statutory.employer[i] >= 0
                      /\ (claim.country \in Abroad /\ Untouched) => slip.net \in 0 .. slip.gross
    BY DEF PayslipAddsUp
  <2> DEFINE s == claim.structure
             raw == RawEarnings(s)
             earned == slip.earned
             gross == SumOf(earned)
             Row(kind) == [i \in DOMAIN claim.adjustments |->
                             IF claim.adjustments[i].kind = kind THEN claim.adjustments[i].amount ELSE 0]
  <2>1. /\ Package(s) /\ s.pfCodes \in Seq(STRING)
        /\ claim.working \in Nat \ {0} /\ claim.lop \in Nat /\ claim.lop <= claim.working
    BY ClaimIs, ClaimsAssumption DEF PayslipInv, Drawn
  <2>2. slip = ComputePayslip(claim)
    BY DEF PayslipInv, Drawn
  <2>3. /\ earned = [i \in DOMAIN raw |-> [raw[i] EXCEPT !.amount = Prorated(@, claim)]]
        /\ slip.statutory = IF claim.country \in Abroad THEN Engine(claim.country, gross)
                            ELSE India(s, claim, raw, earned)
        /\ slip.gross = gross + TotalOf(Row("earning"))
        /\ slip.net = slip.gross - slip.deductions
        /\ \E r : slip.deductions = Resolve(Deductions(s), r, <<gross>>).sum
                                    + TotalOf(slip.statutory.employee) + TotalOf(Row("deduction"))
    BY <2>2, SlipIs
  <2>4. raw \in Seq(Amounts)
    BY <2>1, YearType
  <2> HIDE DEF raw, earned, s
  <2>5. earned \in Seq(Amounts)
    BY <2>1, <2>3, <2>4, EarnedAre
  <2>6. gross \in Nat
    <3>1. gross \in Int
      BY <2>5, SumIs
    <3> QED BY <3>1 DEF earned
  <2> HIDE DEF gross
  <2>7. claim.country \in Abroad => Fits(slip.statutory, gross)
    BY <2>3, <2>6, EngineFits
  <2>8. ASSUME claim.country \in Abroad \/ PensionFits, NEW i \in DOMAIN slip.statutory.employer
        PROVE  slip.statutory.employer[i] >= 0
    <3>1. CASE claim.country \in Abroad
      BY <2>7, <2>8, <3>1 DEF Fits
    <3>2. CASE claim.country \notin Abroad
      <4>1. slip.statutory = India(s, claim, raw, earned)
        BY <2>3, <3>2
      <4>2. SumOf(earned) >= 0
        BY DEF earned
      <4>3. \A j \in DOMAIN India(s, claim, raw, earned).employer :
                 India(s, claim, raw, earned).employer[j] \in Nat
        BY <2>1, <2>5, <2>8, <3>2, <4>2, IndiaFits
      <4> QED BY <4>1, <4>3
    <3> QED BY <3>1, <3>2
  <2>9. ASSUME claim.country \in Abroad, Untouched PROVE slip.net \in 0 .. slip.gross
    <3>1. s.deductions = <<>> /\ claim.adjustments = <<>>
      BY <2>9 DEF Untouched, s
    <3>2. \A r : Resolve(Deductions(s), r, <<gross>>).sum = 0
      <4>1. Deductions(s) = <<>>
        BY <3>1 DEF Deductions
      <4> QED BY <4>1, NothingResolved
    <3>3. TotalOf(Row("earning")) = 0 /\ TotalOf(Row("deduction")) = 0
      <4>1. \A kind : Row(kind) = [i \in DOMAIN <<>> |-> Row(kind)[i]]
        BY <3>1
      <4> HIDE DEF Row
      <4> QED BY <4>1, NothingAdded
    <3>4. TotalOf(slip.statutory.employee) \in 0 .. gross
      BY <2>7, <2>9 DEF Fits
    <3> HIDE DEF Row
    <3>5. PICK t \in 0 .. gross : t = TotalOf(slip.statutory.employee)
      BY <3>4
    <3>6. slip.gross = gross + 0 /\ slip.deductions = 0 + t + 0
      BY <2>3, <3>2, <3>3, <3>5
    <3> QED BY <2>3, <2>6, <3>6
  <2> QED BY <2>8, <2>9
<1> QED BY <1>1, PayslipInvariant, EarningsSum, PTL
===============================================================================
