----------------------------- MODULE RoundRules -----------------------------
(***************************************************************************)
(* The automations of one job, between the forms that arm its rounds        *)
(* (automation.py, assessment.py, interview_automation.py and               *)
(* onboarding_automation.py of router/enterprise), the assistant that does  *)
(* it by tool calls (agents/tools.py), and the job's deletion and return.   *)
(* HiringPipeline has what the rules do when a candidate reaches a round.   *)
(***************************************************************************)
EXTENDS Requests, Integers, Sequences, SequencesExt

CONSTANTS
    Kinds,      \* of "mail", "assessment", "interview", "onboarding"
    Stages,     \* stage_index of a rule
    Lengths,    \* numbers of rounds a job is given
    Pipeline,   \* build_hiring_pipeline: the rules it arms, with by = "pilot"
    MaxRules    \* bound: rules ever stored (one fewer where requests overlap)

Elsewhere == -1   \* an interview rule may be handed to another job

ASSUME RoundRulesAssumption ==
    /\ Kinds \subseteq {"mail", "assessment", "interview", "onboarding"}
    /\ Stages \subseteq Nat /\ MaxRules \in Nat /\ Lengths \subseteq Nat \ {0}
    /\ Pipeline \in Seq([kind : Kinds, at : Stages, by : {"pilot"}, moved : {FALSE}, late : {FALSE}])

VARIABLES
    post,     \* the job: life none, live or deleted; the number of its rounds
    rules,    \* automations ever stored: kind, at, who armed it, moved since, late: the
              \* job was deleted by then; Gone once it has left the table
    work,     \* rules somebody has an attempt or a booked interview of
    pen       \* what each request is about to write

ruleVars == <<staffed, post, rules, work, pen>>

-----------------------------------------------------------------------------
Row(kind, at, by) == [kind |-> kind, at |-> at, by |-> by, moved |-> FALSE, late |-> FALSE]
Gone == Row("none", Elsewhere, "form")

Standing == {i \in DOMAIN rules : rules[i] # Gone}
Armed == {i \in Standing : rules[i].at # Elsewhere}
ArmedFor(kind, at) == {i \in Armed : rules[i].kind = kind /\ rules[i].at = at}

NoChange == [rows |-> <<>>, doomed |-> {}, move |-> 0, at |-> 0, drop |-> 0, life |-> "", rounds |-> 0]

Pending == UNION {{d} \X DOMAIN pen[d].rows : d \in {e \in Desks : pen[e] # Idle}}
Fits(rows) ==
    Len(rules) + Cardinality(Pending) + Len(rows) <= IF Alone THEN MaxRules ELSE MaxRules - 1

Draft(d, work_) ==
    /\ d \in staffed /\ pen[d] = Idle /\ Fits(work_.rows)
    /\ pen' = [pen EXCEPT ![d] = work_]
    /\ UNCHANGED <<staffed, post, rules, work>>

-----------------------------------------------------------------------------
(* The forms.  A DELETE takes the rows it sees when it runs; whoever has     *)
(* changed one of them by the commit has changed a row that goes.            *)

\* Mutant: the round's former rule is left.
ReplacedNone(kind, at) == {}

Replaced(kind, at) == ArmedFor(kind, at)

\* The job is looked up whether deleted or not.
ArmRound(d, kind, at) ==
    /\ post.life # "none"
    /\ Draft(d, [NoChange EXCEPT !.rows = <<Row(kind, at, "form")>>, !.doomed = Replaced(kind, at)])

ChangeRule(d, i, at) ==
    /\ i \in Standing /\ (at = Elsewhere => rules[i].kind = "interview")
    /\ Draft(d, [NoChange EXCEPT !.move = i, !.at = at])

DropRule(d, i) == i \in Standing /\ Draft(d, [NoChange EXCEPT !.drop = i])

-----------------------------------------------------------------------------
(* The assistant: one tool at a time in one session (agent.py:57).          *)

\* No look at the job, and nothing replaced.
Setup(d, kind, at) ==
    /\ post.life # "none"
    /\ Draft(d, [NoChange EXCEPT !.rows = <<Row(kind, at, "pilot")>>])

\* The job is flushed, the questions are awaited, and one commit stores it all.
BuildPipeline(d) ==
    /\ post.life = "none"
    /\ Draft(d, [NoChange EXCEPT !.rows = Pipeline, !.life = "live", !.rounds = 5])

SetRounds(d, n) == post.life = "live" /\ Draft(d, [NoChange EXCEPT !.rounds = n])

-----------------------------------------------------------------------------
(* The job. *)

CreatePost(d, n) ==
    post.life = "none" /\ Draft(d, [NoChange EXCEPT !.life = "live", !.rounds = n])

DeletePost(d) ==
    post.life = "live" /\ Draft(d, [NoChange EXCEPT !.life = "deleted", !.doomed = Armed])

RestorePost(d) == post.life = "deleted" /\ Draft(d, [NoChange EXCEPT !.life = "live"])

RuleStored(w) ==
    LET kept(i) == IF i \in w.doomed \cup {w.drop} THEN Gone
                   ELSE IF i = w.move THEN [rules[i] EXCEPT !.at = w.at, !.moved = TRUE]
                   ELSE rules[i]
    IN  [i \in DOMAIN rules |-> kept(i)]
        \o [k \in DOMAIN w.rows |-> [w.rows[k] EXCEPT !.late = post.life = "deleted"]]

\* The foreign keys take attempts and interviews with a rule that a statement
\* deletes; the ORM, deleting one rule, empties automation_id of its interviews.
TakenAlong(w) ==
    w.doomed \cup {i \in {w.drop} \cap DOMAIN rules : rules[i].kind = "assessment"}

\* An UPDATE that meets no row fails; a job that is not there yet is built once.
CommitRules(d) ==
    LET w == pen[d]
    IN  /\ w # Idle
        /\ w.move # 0 => w.move \in Standing
        /\ post.life = "none" <=> (w.life = "live" /\ w.rounds # 0)
        /\ rules' = RuleStored(w)
        /\ work' = work \ TakenAlong(w)
        /\ post' = [life |-> IF w.life = "" THEN post.life ELSE w.life,
                    rounds |-> IF w.rounds = 0 THEN post.rounds ELSE w.rounds]
        /\ pen' = [pen EXCEPT ![d] = Idle]
        /\ UNCHANGED staffed

Withdraw(d) ==
    /\ pen[d] # Idle
    /\ pen' = [pen EXCEPT ![d] = Idle]
    /\ UNCHANGED <<staffed, post, rules, work>>

\* A candidate opens the test, or reaches the round and is booked in.
BeginWork(i) ==
    /\ rules[i].kind \in {"assessment", "interview"}
    /\ work' = work \cup {i}
    /\ UNCHANGED <<staffed, post, rules, pen>>

-----------------------------------------------------------------------------
RulesInit ==
    /\ StaffedInit
    /\ post = [life |-> "none", rounds |-> 0]
    /\ rules = <<>> /\ work = {}
    /\ pen = [d \in Desks |-> Idle]

PenNext(d) ==
    \/ \E kind \in Kinds, at \in Stages : ArmRound(d, kind, at) \/ Setup(d, kind, at)
    \/ \E i \in DOMAIN rules, at \in Stages \cup {Elsewhere} : ChangeRule(d, i, at)
    \/ \E i \in DOMAIN rules : DropRule(d, i)
    \/ \E n \in Lengths : SetRounds(d, n) \/ CreatePost(d, n)
    \/ BuildPipeline(d) \/ DeletePost(d) \/ RestorePost(d)
    \/ CommitRules(d) \/ Withdraw(d)

RulesNext ==
    \/ \E d \in Desks : PenNext(d)
    \/ \E i \in DOMAIN rules : BeginWork(i)

RulesSpec == RulesInit /\ [][RulesNext]_ruleVars

-----------------------------------------------------------------------------
(* "One automation per job per stage" (automation.py:61): over any order of *)
(* arming, moving, dropping, deleting and restoring, one request at a time,  *)
(* a second rule for a round was armed by the assistant or moved there, and  *)
(* a deleted job keeps no rule of its life (jobs.py:524) but one moved to    *)
(* another job and back.                                                     *)
RulesFitTheJob ==
    Alone =>
      /\ \A i \in Armed : \A j \in ArmedFor(rules[i].kind, rules[i].at) \ {i} :
            \E k \in {i, j} : rules[k].by = "pilot" \/ rules[k].moved
      /\ post.life = "deleted" => \A i \in Armed : rules[i].late \/ rules[i].moved

(* The comment without the exceptions: the candidate would be emailed twice. *)
OneRulePerRound == \A i \in Armed : ArmedFor(rules[i].kind, rules[i].at) = {i}

(* "Re-saving a job arms its rounds again" (assessment.py:88), and takes     *)
(* what candidates have done under the rule it replaces.                     *)
RearmingKeepsWork == [][Len(rules') > Len(rules) => work \subseteq work']_ruleVars

(* "delete_job soft-deletes the applications but leaves their                *)
(* InterviewSchedule rows" (dashboard.py:50): the foreign key takes them.    *)
DeletionLeavesInterviews ==
    [][post'.life = "deleted" => {i \in work : rules[i].kind = "interview"} \subseteq work']_ruleVars

(* "These rounds are named but do nothing yet" (tools.py:589).               *)
NamedRoundsAreInert == [][post.life = "live" /\ post'.rounds # post.rounds => Armed' = {}]_ruleVars
=============================================================================
