----------------------------- MODULE Attendance -----------------------------
(***************************************************************************)
(* One employee's day of attendance, router/enterprise/attendance.py: the   *)
(* punches, the summary derived from them, HR's marks by hand and the       *)
(* requests to correct the day.  A request computes the new row from the    *)
(* one it loaded; its commit writes the columns that differ.               *)
(***************************************************************************)
EXTENDS Requests, Integers, Sequences

CONSTANTS
    LastTime,   \* the day's minutes are 1 .. LastTime
    Shift,      \* the company's default shift: starts, full, half
    Marks,      \* what HR or a correction may write: status, first, last
    MaxEdits,   \* bound: commits that write the day
    MaxRequests \* bound: correction requests

Times == 1 .. LastTime
Unset == 0      \* first_in or last_out not set

ASSUME AttendanceAssumption ==
    /\ LastTime \in Nat
    /\ Shift \in [starts : Times, full : Nat, half : Nat]
    /\ Marks \subseteq [status : {"present", "half_day", "absent", "leave"},
                        first : Times \cup {Unset}, last : Times \cup {Unset}]

VARIABLES
    punches,    \* attendance_punches: direction by time (timestamps are distinct)
    day,        \* the AttendanceDay row, or NoDay
    asked,      \* AttendanceRegularization rows: status and the mark asked for
    clerk       \* the request each desk is serving

attendanceVars == <<staffed, punches, day, asked, clerk>>

\* rev counts the commits on the row; lone says that the last one overlapped no other.
NoDay == [opened |-> FALSE, status |-> "absent", source |-> "web", first |-> Unset,
          last |-> Unset, minutes |-> 0, late |-> 0, rev |-> 0, lone |-> TRUE]

-----------------------------------------------------------------------------
(* The summary of a day. *)

AtLeast0(n) == IF n < 0 THEN 0 ELSE n

When(log, direction) == {t \in DOMAIN log : log[t] = direction}

FirstOf(ts) == IF ts = {} THEN Unset ELSE CHOOSE t \in ts : \A u \in ts : t <= u
LastOf(ts) == IF ts = {} THEN Unset ELSE CHOOSE t \in ts : \A u \in ts : u <= t

\* Mutant: a repeated in restarts the clock.
ClockRestarted(log) ==
    LET step(c, t) ==
          IF t \notin DOMAIN log THEN c
          ELSE IF log[t] = "in" THEN [c EXCEPT !.in = t]
          ELSE IF c.in = Unset THEN c
          ELSE [in |-> Unset, worked |-> c.worked + (t - c.in)]
        run[t \in 0 .. LastTime] ==
          IF t = 0 THEN [in |-> Unset, worked |-> 0] ELSE step(run[t - 1], t)
    IN  run[LastTime]

\* One punch in the loop: a repeated in does not restart the clock.
Ticked(log, c, t) ==
    IF t \notin DOMAIN log THEN c
    ELSE IF log[t] = "in" THEN [c EXCEPT !.in = IF @ = Unset THEN t ELSE @]
    ELSE IF c.in = Unset THEN c
    ELSE [in |-> Unset, worked |-> c.worked + (t - c.in)]

\* The loop over the ordered punches.
Clock(log) ==
    LET run[t \in 0 .. LastTime] ==
          IF t = 0 THEN [in |-> Unset, worked |-> 0] ELSE Ticked(log, run[t - 1], t)
    IN  run[LastTime]

ShiftStatus(minutes, last) ==
    IF minutes >= Shift.full THEN "present"
    ELSE IF minutes >= Shift.half THEN "half_day"
    ELSE IF last = Unset THEN "present" ELSE "absent"

Recompute(row, log) ==
    LET first == FirstOf(When(log, "in"))
        last == LastOf(When(log, "out"))
        minutes == Clock(log).worked
        summed == [row EXCEPT !.first = first, !.last = last, !.minutes = minutes]
    IN  IF first = Unset THEN summed
        ELSE [summed EXCEPT !.late = AtLeast0(first - Shift.starts),
                            !.status = ShiftStatus(minutes, last)]

\* mark_day and an approved correction write the same columns.
MarkedRow(row, mark, source) ==
    LET first == IF mark.first = Unset THEN row.first ELSE mark.first
        last == IF mark.last = Unset THEN row.last ELSE mark.last
    IN  [row EXCEPT !.status = mark.status, !.source = source,
                    !.first = first, !.last = last,
                    !.minutes = IF first # Unset /\ last # Unset
                                THEN AtLeast0(last - first) ELSE @]

-----------------------------------------------------------------------------
(* Requests: what each is about to write. *)

Underway == {d \in Desks : clerk[d] # Idle}

\* was is the row it loaded, now the row it makes of it.
Loaded == [was |-> day, now |-> day, punch |-> <<>>, file |-> <<>>,
           request |-> 0, verdict |-> "none"]

Serve(d, work) ==
    /\ d \in staffed /\ clerk[d] = Idle
    /\ clerk' = [clerk EXCEPT ![d] = work]
    /\ UNCHANGED <<staffed, punches, day, asked>>

\* The log with new punches in it.
Joined(new, log) ==
    [t \in DOMAIN new \cup DOMAIN log |-> IF t \in DOMAIN new THEN new[t] ELSE log[t]]

Writable == day.rev + Cardinality(Underway) < MaxEdits

\* The clock of the signed-in employee, or an import feed that reports a time.
Punch(d, direction, t) ==
    /\ Writable
    /\ t \notin DOMAIN punches /\ \A c \in Underway : t \notin DOMAIN clerk[c].punch
    /\ LET new == [u \in {t} |-> direction]
       IN  Serve(d, [Loaded EXCEPT !.punch = new,
                        !.now = Recompute([day EXCEPT !.source = "web"], Joined(new, punches))])

MarkDay(d, mark) ==
    Writable /\ Serve(d, [Loaded EXCEPT !.now = MarkedRow(day, mark, "manual")])

RequestRegularization(d, mark) ==
    /\ Len(asked) + Cardinality({c \in Underway : clerk[c].file # <<>>}) < MaxRequests
    /\ \A r \in DOMAIN asked : asked[r].status # "pending"
    /\ Serve(d, [Loaded EXCEPT !.file = <<[status |-> "pending", mark |-> mark]>>])

DecideRegularization(d, r, verdict) ==
    /\ asked[r].status = "pending"
    /\ verdict = "approved" => Writable
    /\ Serve(d, [Loaded EXCEPT !.request = r, !.verdict = verdict,
                    !.now = IF verdict = "approved"
                            THEN MarkedRow(day, asked[r].mark, "regularization") ELSE day])

\* Every request but a filing and a rejection opens the day when it finds none.
TouchesDay(work) == work.file = <<>> /\ work.verdict # "rejected"

\* One row per employee and date: the second insert is refused.
Conflicts(work) == TouchesDay(work) /\ ~work.was.opened /\ day.opened

\* The columns the request changed, over what is stored now.
Column(stored, old, new) == IF new = old THEN stored ELSE new

StoredDay(work) ==
    LET now == work.now
        was == work.was
    IN  [opened |-> TRUE, status |-> Column(day.status, was.status, now.status),
         source |-> Column(day.source, was.source, now.source),
         first |-> Column(day.first, was.first, now.first),
         last |-> Column(day.last, was.last, now.last),
         minutes |-> Column(day.minutes, was.minutes, now.minutes),
         late |-> Column(day.late, was.late, now.late),
         rev |-> day.rev + 1, lone |-> day.rev = was.rev]

DayCommit(d) ==
    LET work == clerk[d]
    IN  /\ work # Idle /\ ~Conflicts(work)
        /\ punches' = Joined(work.punch, punches)
        /\ day' = IF TouchesDay(work) THEN StoredDay(work) ELSE day
        /\ asked' = [r \in DOMAIN asked |->
                       IF r = work.request THEN [asked[r] EXCEPT !.status = work.verdict]
                       ELSE asked[r]] \o work.file
        /\ clerk' = [clerk EXCEPT ![d] = Idle]
        /\ UNCHANGED staffed

\* The request dies, or its insert is refused: nothing of it is stored.
DayAbandon(d) ==
    /\ clerk[d] # Idle
    /\ clerk' = [clerk EXCEPT ![d] = Idle]
    /\ UNCHANGED <<staffed, punches, day, asked>>

AttendanceInit ==
    /\ StaffedInit
    /\ punches = <<>> /\ day = NoDay /\ asked = <<>>
    /\ clerk = [d \in Desks |-> Idle]

AttendanceNext ==
    \E d \in Desks :
        \/ \E direction \in {"in", "out"}, t \in Times : Punch(d, direction, t)
        \/ \E mark \in Marks : MarkDay(d, mark) \/ RequestRegularization(d, mark)
        \/ \E r \in DOMAIN asked, v \in {"approved", "rejected"} : DecideRegularization(d, r, v)
        \/ DayCommit(d)
        \/ DayAbandon(d)

AttendanceSpec == AttendanceInit /\ [][AttendanceNext]_attendanceVars

-----------------------------------------------------------------------------
(* The minutes of a log, one by one: minute m is worked when the employee    *)
(* came in at or before m, has not gone out since, and goes out later.       *)
Worked(log) ==
    Cardinality({m \in Times :
        /\ \E i \in When(log, "in") : i <= m /\ \A o \in When(log, "out") : ~(i < o /\ o <= m)
        /\ \E o \in When(log, "out") : m < o})

(* A day whose last writer is a punch that overlapped no other request shows *)
(* exactly its punches, in whatever order they arrived and whatever stale    *)
(* summary they found: no minute counts twice, a lunch is not worked time,   *)
(* and an in without an out invents no hours (_recompute).                   *)
PunchesAddUp ==
    (day.opened /\ day.source = "web" /\ day.lone) =>
        /\ day.minutes = Worked(punches)
        /\ day.first = FirstOf(When(punches, "in"))
        /\ day.last = LastOf(When(punches, "out"))
=============================================================================
