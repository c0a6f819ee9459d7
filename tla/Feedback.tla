------------------------------ MODULE Feedback ------------------------------
(***************************************************************************)
(* Forms people are asked to fill in, and rehearsals they hold with a       *)
(* character: survey invites (router/enterprise/survey.py), 360-degree      *)
(* reviews (x360.py) and simulations (simulation.py).  A submission loads   *)
(* its form in one step and commits in another; a chat and an evaluation    *)
(* wait for a language model in between.                                   *)
(***************************************************************************)
EXTENDS Requests, Integers, Sequences, SequencesExt

CONSTANTS
    Groups,     \* lists of people a survey, a cycle or a simulation is sent to
    Boss,       \* reporting_to_id, or the person itself where there is none
    MaxForms,   \* bound: invites and reviews
    MaxEditions,\* bound: edits of the survey template
    MaxDrills,  \* bound: simulation assignments
    MaxSessions \* bound: simulation sessions

Enough == 3     \* turns a session needs before it is evaluated

ASSUME FeedbackAssumption == Groups \subseteq Seq(DOMAIN Boss) /\ Boss \in [DOMAIN Boss -> DOMAIN Boss]

VARIABLES
    forms,      \* survey_invites and x360 assignments: kind, who, status, copies of its answers
    edition,    \* how often the survey's questions have been replaced
    drills,     \* status of each SimulationAssignment
    sessions,   \* SimulationSession rows: drill (0: none), status, turns of the person
    reply       \* the request each desk is serving

feedbackVars == <<staffed, forms, edition, drills, sessions, reply>>

Form(kind, who) == [kind |-> kind, who |-> who, status |-> "pending", copies |-> 0]

Respond(d, work) ==
    /\ d \in staffed /\ reply[d] = Idle
    /\ reply' = [reply EXCEPT ![d] = work]
    /\ UNCHANGED <<staffed, forms, edition, drills, sessions>>

-----------------------------------------------------------------------------
(* Surveys and reviews. *)

Hand(new) ==
    /\ Len(forms) + Len(new) <= MaxForms
    /\ forms' = forms \o new
    /\ UNCHANGED <<staffed, edition, drills, sessions, reply>>

\* One invite for each entry of the list, repeated ones too.
LaunchSurvey(group) == Hand([i \in DOMAIN group |-> Form("survey", group[i])])

\* A self-review of each person chosen, and one by the manager.
StartCycle(group) ==
    LET people == SetToSeq(ToSet(group))
        reviews(p) == <<Form("review", p)>> \o
                      IF Boss[p] = p THEN <<>> ELSE <<Form("review", Boss[p])>>
    IN  Hand(FlattenSeq([i \in DOMAIN people |-> reviews(people[i])]))

\* The answers to the questions that go are deleted with them.
UpdateTemplate ==
    /\ edition < MaxEditions /\ edition' = edition + 1
    /\ forms' = [i \in DOMAIN forms |->
                   IF forms[i].kind = "survey" THEN [forms[i] EXCEPT !.copies = 0] ELSE forms[i]]
    /\ UNCHANGED <<staffed, drills, sessions, reply>>

\* Mutant: the status of the form is not looked at.
FillAnyTime(d, i) ==
    /\ forms[i].copies < 2
    /\ Respond(d, [kind |-> "fill", row |-> i, seen |-> edition])

Fill(d, i) ==
    /\ forms[i].status = "pending"
    /\ Respond(d, [kind |-> "fill", row |-> i, seen |-> edition])

\* Answers to questions that no longer exist are refused.
CommitFill(d) ==
    LET w == reply[d]
    IN  /\ w # Idle /\ w.kind = "fill"
        /\ forms[w.row].kind = "survey" => w.seen = edition
        /\ forms' = [forms EXCEPT ![w.row].status = "completed", ![w.row].copies = @ + 1]
        /\ reply' = [reply EXCEPT ![d] = Idle]
        /\ UNCHANGED <<staffed, edition, drills, sessions>>

-----------------------------------------------------------------------------
(* Simulations. *)

AssignDrill(group) ==
    /\ Len(drills) + Len(group) <= MaxDrills
    /\ drills' = drills \o [i \in DOMAIN group |-> "PENDING"]
    /\ UNCHANGED <<staffed, forms, edition, sessions, reply>>

\* Also on an assignment that is already completed.
StartSession(k) ==
    /\ Len(sessions) < MaxSessions
    /\ sessions' = Append(sessions, [drill |-> k, status |-> "ONGOING", turns |-> 0])
    /\ drills' = IF k = 0 THEN drills ELSE [drills EXCEPT ![k] = "IN_PROGRESS"]
    /\ UNCHANGED <<staffed, forms, edition, reply>>

\* The whole conversation, one turn longer, is written over the stored one.
Chat(d, s) ==
    /\ sessions[s].status = "ONGOING" /\ sessions[s].turns < Enough
    /\ Respond(d, [kind |-> "chat", row |-> s, seen |-> sessions[s].turns])

Evaluate(d, s) ==
    /\ sessions[s].turns >= Enough
    /\ Respond(d, [kind |-> "evaluate", row |-> s, seen |-> sessions[s].turns])

CommitChat(d) ==
    LET w == reply[d]
    IN  /\ w # Idle /\ w.kind = "chat"
        /\ sessions' = [sessions EXCEPT ![w.row].turns = w.seen + 1]
        /\ reply' = [reply EXCEPT ![d] = Idle]
        /\ UNCHANGED <<staffed, forms, edition, drills>>

CommitEvaluation(d) ==
    LET w == reply[d]
        k == sessions[w.row].drill
    IN  /\ w # Idle /\ w.kind = "evaluate"
        /\ sessions' = [sessions EXCEPT ![w.row].status = "COMPLETED"]
        /\ drills' = IF k = 0 THEN drills ELSE [drills EXCEPT ![k] = "COMPLETED"]
        /\ reply' = [reply EXCEPT ![d] = Idle]
        /\ UNCHANGED <<staffed, forms, edition>>

\* A refused commit, a failed model call: nothing is stored.
GiveUp(d) ==
    /\ reply[d] # Idle
    /\ reply' = [reply EXCEPT ![d] = Idle]
    /\ UNCHANGED <<staffed, forms, edition, drills, sessions>>

-----------------------------------------------------------------------------
FeedbackInit ==
    /\ StaffedInit
    /\ forms = <<>> /\ edition = 0 /\ drills = <<>> /\ sessions = <<>>
    /\ reply = [d \in Desks |-> Idle]

FeedbackNext ==
    \/ \E group \in Groups : LaunchSurvey(group) \/ StartCycle(group) \/ AssignDrill(group)
    \/ UpdateTemplate
    \/ \E k \in {0} \cup DOMAIN drills : StartSession(k)
    \/ \E d \in Desks :
        \/ \E i \in DOMAIN forms : Fill(d, i)
        \/ \E s \in DOMAIN sessions : Chat(d, s) \/ Evaluate(d, s)
        \/ CommitFill(d) \/ CommitChat(d) \/ CommitEvaluation(d) \/ GiveUp(d)

FeedbackSpec == FeedbackInit /\ [][FeedbackNext]_feedbackVars

-----------------------------------------------------------------------------
(* Properties. *)

CountedOnce ==
    \A i \in DOMAIN forms :
        /\ forms[i].copies <= 1
        /\ forms[i].status = "pending" => forms[i].copies = 0
        /\ (forms[i].kind = "review" /\ forms[i].status = "completed") => forms[i].copies = 1

\* A completed assignment has a completed session, whatever overlaps; with one request at a
\* time every completed session holds the turns an evaluation needs, and a form's answers
\* count exactly once: a second submission adds nothing (submit_survey, submit_assessment,
\* complete_simulation).
CompletedIsEarned ==
    /\ \A k \in DOMAIN drills : drills[k] = "COMPLETED" =>
          \E s \in DOMAIN sessions : sessions[s].drill = k /\ sessions[s].status = "COMPLETED"
    /\ Alone => /\ CountedOnce
                /\ \A s \in DOMAIN sessions :
                      sessions[s].status = "COMPLETED" => sessions[s].turns >= Enough

\* Not so in the code: two submissions that both found the form pending are both stored
\* (x360.py:534).
OverlapsCountOnce == CountedOnce

\* Not so in the code: an edit of the template erases the answers given so far
\* (survey.py:220).
AnswersOutliveEdits ==
    \A i \in DOMAIN forms : (Alone /\ forms[i].status = "completed") => forms[i].copies = 1
=============================================================================
