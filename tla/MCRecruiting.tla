---------------------------- MODULE MCRecruiting ----------------------------
(* Instances of the six parts of recruiting for TLC: from a post and its      *)
(* boards over candidates to interviews.  The parts share no rows, so one    *)
(* behaviour exercises one of them: focus says which, and the others stand   *)
(* still.                                                                  *)
EXTENDS InterviewSlots, Intake, JobBoard, JobFunnel, RoundRules, Outreach, TLC

VARIABLE focus

slotPart == <<rule, today, booked, booker>>
intakePart == <<people, apps, mailbox, intake>>
boardPart == <<job, postings, connected, applied, seat>>
funnelPart == <<page, funnel, applicants, unmarked, scout>>
rulesPart == <<post, rules, work, pen>>
outreachPart == <<slate, sids, links, caller>>

recruitingVars == <<focus, staffed, slotPart, intakePart, boardPart, funnelPart,
                    rulesPart, outreachPart>>

\* In the part that is not in focus, one value stands for all.
Fixed(part, set) == IF focus = part THEN set ELSE {CHOOSE v \in set : TRUE}

RecruitingInit ==
    /\ focus \in {"slots", "intake", "board", "funnel", "rules", "outreach"}
    /\ IntakeInit /\ JobBoardInit /\ FunnelInit /\ RulesInit /\ OutreachInit
    /\ rule \in Fixed("slots", SlotRules)
    /\ today = 1 /\ booked = <<>> /\ booker = [d \in Desks |-> Idle]

RecruitingNext ==
    \/ /\ focus = "slots" /\ SlotsNext
       /\ UNCHANGED <<focus, intakePart, boardPart, funnelPart, rulesPart, outreachPart>>
    \/ /\ focus = "intake" /\ IntakeNext
       /\ UNCHANGED <<focus, slotPart, boardPart, funnelPart, rulesPart, outreachPart>>
    \/ /\ focus = "board" /\ JobBoardNext
       /\ UNCHANGED <<focus, slotPart, intakePart, funnelPart, rulesPart, outreachPart>>
    \/ /\ focus = "funnel" /\ FunnelNext
       /\ UNCHANGED <<focus, slotPart, intakePart, boardPart, rulesPart, outreachPart>>
    \/ /\ focus = "rules" /\ RulesNext
       /\ UNCHANGED <<focus, slotPart, intakePart, boardPart, funnelPart, outreachPart>>
    \/ /\ focus = "outreach" /\ OutreachNext
       /\ UNCHANGED <<focus, slotPart, intakePart, boardPart, funnelPart, rulesPart>>

RecruitingSpec == RecruitingInit /\ [][RecruitingNext]_recruitingVars

Symmetry == Permutations(Desks)

-----------------------------------------------------------------------------
\* Hours cut in steps, slots that overlap each other, and a window that closes.
MCSlotRules ==
    {[starts |-> 9, ends |-> 12, slots |-> {}, duration |-> 2, limit |-> 2, from |-> 0, until |-> 4],
     [starts |-> 9, ends |-> 12, slots |-> {9, 10, 12}, duration |-> 2, limit |-> 2,
      from |-> 3, until |-> 0],
     [starts |-> 9, ends |-> 13, slots |-> {}, duration |-> 2, limit |-> 3, from |-> 2, until |-> 3]}

\* Two names of one board, and a board that wants credentials.
MCBoardOf == ("google_jobs" :> "google_jobs") @@ ("linkedin" :> "google_jobs")
             @@ ("wanted" :> "wanted")
MCAsks == {<<"linkedin">>, <<"google_jobs", "wanted">>}

\* One person with an address and one without.
MCSought == {[email |-> "x@y", url |-> "u1"], [email |-> "none", url |-> "u2"]}

\* A pipeline of two rounds, and one profile url found with two addresses.
MCPipeline == <<Row("assessment", 1, "pilot"), Row("interview", 2, "pilot")>>
MCHits == {[url |-> "u", email |-> "x"], [url |-> "u", email |-> "y"]}

MCJobOf == [j1 |-> "acme", j2 |-> "acme"]
=============================================================================
