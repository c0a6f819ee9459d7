--------------------------- MODULE InterviewSlots ---------------------------
(***************************************************************************)
(* The times one interview rule hands out, find_available_slot and the end  *)
(* of schedule_candidate_interview in services/enterprise/                 *)
(* interview_service.py.  Between the search and the commit the request     *)
(* waits for a meeting link from Google or Teams.  Which application is     *)
(* booked, and that it is booked once, is HiringPipeline's.                 *)
(***************************************************************************)
EXTENDS Requests, Integers, Sequences, FiniteSetsExt

CONSTANTS
    SlotRules,  \* the interview automations a behaviour may have
    Weekend,    \* days that are a Saturday or a Sunday
    Horizon,    \* days searched at most: 60
    LastDay,    \* bound: the last day on which a request comes in
    MaxBookings \* bound: interviews ever booked

\* from and until are 0 when the rule has no dates; slots is {} without time_slots.
ASSUME SlotsAssumption ==
    /\ Horizon \in Nat /\ LastDay \in Nat /\ MaxBookings \in Nat
    /\ \A r \in SlotRules : /\ r.starts \in Nat /\ r.ends \in Nat /\ r.slots \subseteq Nat
                            /\ r.duration \in Nat /\ r.limit \in Nat
                            /\ r.from \in Nat /\ r.until \in Nat

VARIABLES
    rule,       \* the InterviewAutomation
    today,      \* date.today()
    booked,     \* interview_schedules in the order they were stored: day, at, spare
    booker      \* the slot each request has found

slotVars == <<staffed, rule, today, booked, booker>>

-----------------------------------------------------------------------------
Minutes == Max({1, rule.duration})
DailyLimit == Max({1, rule.limit})

FirstDay == Max({today + 1, rule.from})
EndDay == IF rule.until >= FirstDay THEN rule.until ELSE FirstDay + Horizon

\* time_slots, or the hours of the day cut in steps of the duration.
Offered ==
    IF rule.slots # {} THEN rule.slots
    ELSE {t \in rule.starts .. rule.ends : /\ (t - rule.starts) % Minutes = 0
                                           /\ t + Minutes <= rule.ends}

TakenOn(day) == {i \in DOMAIN booked : booked[i].day = day}

\* Mutant: only an interview at the very same time is in the way.
ClashSameTime(s, t) == s = t

Clash(s, t) == s - t < Minutes /\ t - s < Minutes

OpenTimes(day) ==
    IF day \in Weekend \/ Cardinality(TakenOn(day)) >= DailyLimit THEN {}
    ELSE {t \in Offered : \A i \in TakenOn(day) : ~Clash(booked[i].at, t)}

\* Past the window every candidate is given the first time of the day after it.
FindAvailableSlot ==
    LET open == {day \in FirstDay .. EndDay : day < FirstDay + Horizon /\ OpenTimes(day) # {}}
    IN  IF open # {}
        THEN [day |-> Min(open), at |-> Min(OpenTimes(Min(open))), spare |-> FALSE]
        ELSE [day |-> EndDay + 1, spare |-> TRUE,
              at |-> IF rule.slots # {} THEN Min(rule.slots) ELSE rule.starts]

-----------------------------------------------------------------------------
Book(d) ==
    /\ d \in staffed /\ booker[d] = Idle
    /\ Len(booked) + Cardinality({c \in Desks : booker[c] # Idle}) < MaxBookings
    /\ booker' = [booker EXCEPT ![d] = FindAvailableSlot]
    /\ UNCHANGED <<staffed, rule, today, booked>>

BookCommit(d) ==
    /\ booker[d] # Idle
    /\ booked' = Append(booked, booker[d])
    /\ booker' = [booker EXCEPT ![d] = Idle]
    /\ UNCHANGED <<staffed, rule, today>>

\* No meeting link, no commit.
BookAbandon(d) ==
    /\ booker[d] # Idle
    /\ booker' = [booker EXCEPT ![d] = Idle]
    /\ UNCHANGED <<staffed, rule, today, booked>>

\* A request is over before the next day begins.
NextDay ==
    /\ today < LastDay /\ \A d \in Desks : booker[d] = Idle
    /\ today' = today + 1
    /\ UNCHANGED <<staffed, rule, booked, booker>>

SlotsInit ==
    /\ StaffedInit
    /\ rule \in SlotRules
    /\ today = 1 /\ booked = <<>>
    /\ booker = [d \in Desks |-> Idle]

SlotsNext ==
    \/ \E d \in Desks : Book(d) \/ BookCommit(d) \/ BookAbandon(d)
    \/ NextDay

SlotsSpec == SlotsInit /\ [][SlotsNext]_slotVars

-----------------------------------------------------------------------------
(* With one request at a time, over days that pass and windows that move or   *)
(* run out: an interview found within the window clashes with none booked     *)
(* before it, those put past a window included, and keeps the day's limit;    *)
(* one put past the window never lands on a day that the search had used.     *)
SlotsDoNotClash ==
    Alone =>
        \A j \in DOMAIN booked :
            LET earlier == {i \in TakenOn(booked[j].day) : i < j}
            IN  IF booked[j].spare THEN \A i \in earlier : booked[i].spare
                ELSE /\ booked[j].day \notin Weekend
                     /\ Cardinality(earlier) < DailyLimit
                     /\ \A i \in earlier : \/ booked[i].at + Minutes <= booked[j].at
                                            \/ booked[j].at + Minutes <= booked[i].at
=============================================================================
