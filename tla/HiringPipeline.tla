--------------------------- MODULE HiringPipeline ---------------------------
(***************************************************************************)
(* One application on its way through the rounds of a job: the rules that   *)
(* fire when it reaches a round (services/enterprise/automation_service.py),*)
(* the requests that move it, the Celery worker that sends the deferred     *)
(* mails and may move it too (tasks/email_tasks.py), and the recruiter who   *)
(* changes the mail rules meanwhile (router/enterprise/automation.py).      *)
(*                                                                         *)
(* A session loads, computes and queues its Celery tasks in one step; what  *)
(* it will store waits in desk[d].  Scheduling an interview commits on the  *)
(* way (interview_service.py:417), so one session stores in several steps.  *)
(* Mails sent at once change no row a rule reads and are left out, and so   *)
(* are the credits of a completion (CreditLedger).                          *)
(***************************************************************************)
EXTENDS Integers, Sequences, FiniteSets, FiniteSetsExt

CONSTANTS
    Desks,       \* requests that may run at once
    Idle,        \* a session that is not running
    Worker,      \* the Celery worker (one process, pool "solo")
    Plans,       \* the automations a job may have
    Hired,       \* the round approve_onboarding moves to: 5
    MaxStage,    \* bound: the highest round reached
    MaxTasks,    \* bound: queued mails of one rule (one more when handed out again)
    MaxAttempts, \* bound: assessment attempts (one where requests overlap)
    MaxTalks,    \* bound: interviews
    Reports,     \* results a provider reports, each possibly delivered again
    MaxArms      \* bound: mail rules armed or deleted on the way

Rounds == 1 .. MaxStage

Mails == {"none", "now", "nowMove", "due", "dueMove", "later", "laterMove"}
PlanRecords ==
    [rounds : Rounds, mail : [Rounds -> Mails], test : [Rounds -> {"none", "stay", "move"}],
     talk : SUBSET Rounds, board : SUBSET Rounds, arms : SUBSET (Rounds \X Mails)]

(* A plan has, by round, the mail rule ("now" and "nowMove" are sent at once, *)
(* "due" and "dueMove" queued for now, "later" and "laterMove" for a time to  *)
(* come; ...Move rules move the application), the test ("move" if its        *)
(* result may), the rounds with an interview and those with onboarding, and   *)
(* the mail rules a recruiter may arm on the way ("none" deletes one).        *)
ASSUME PipelineAssumption ==
    /\ MaxStage \in Nat /\ Hired \in Rounds
    /\ MaxTasks \in Nat /\ MaxAttempts \in Nat /\ MaxTalks \in Nat
    /\ Worker \notin Desks /\ Idle \notin Desks \cup {Worker}
    /\ {"rules", "other"} \cap (Desks \cup {Worker}) = {}
    /\ Plans \subseteq PlanRecords
    /\ MaxArms \in Nat

VARIABLES
    alone,      \* one session at a time, the worker's included
    plan,       \* the job's automations
    stage,      \* CandidateApplication.current_stage, 0 before the application
    mover,      \* who moved it last: "rules", a desk still at it, or "other"
    logs,       \* by round, its mail rule's EmailLog rows with status "scheduled"
    queue,      \* by round, its mail rule's tasks waiting in Celery
    attempts,   \* AssessmentAttempt rows: rule (0 for none), status, report
    talks,      \* InterviewSchedule rows, by the rule that made them
    boarded,    \* Onboarding rows
    desk,       \* what each session is about to store
    lost,       \* a mail task was lost: the worker died, or its session failed
    orphans,    \* the tasks waiting in Celery whose rule is gone
    stranded,   \* an EmailLog row is "scheduled" though its rule is gone
    overtaken,  \* rounds given a mail that moves while the application was there
    arms        \* mail rules armed or deleted so far

job == <<plan, orphans, stranded, overtaken, arms>>
pipelineVars ==
    <<alone, job, stage, mover, logs, queue, attempts, talks, boarded, desk, lost>>

Sessions == Desks \cup {Worker}

New == -1    \* an attempt to insert
Keep == "="  \* answers not written
Unreported == ""  \* no provider reported it

Gone == -1   \* the rule whose mail is being sent was deleted

NoRow == [rule |-> 0, status |-> "", report |-> Keep]

\* seen, mailing: the worker is sending; wrote: it has written a log of that rule;
\* closes: a last commit follows.
Blank == [stage |-> 0, logs |-> {}, talks |-> {}, board |-> 0, file |-> 0, row |-> NoRow,
          settle |-> 0, seen |-> 0, mailing |-> 0, wrote |-> 0, closes |-> TRUE]

ASSUME IdleAssumption ==
    Idle \notin [stage : 0 .. MaxStage, logs : SUBSET Rounds, talks : SUBSET Rounds,
                 board : 0 .. MaxStage, file : {0}, row : {NoRow}, settle : {0}, seen : {0},
                 mailing : {0}, wrote : {0}, closes : BOOLEAN]

-----------------------------------------------------------------------------
(* What reaching a round sets off. *)

AutoMoves(s) == plan.mail[s] = "nowMove"
Deferred(s) == plan.mail[s] \in {"due", "dueMove", "later", "laterMove"}
MovesWhenSent(s) == plan.mail[s] \in {"dueMove", "laterMove"}
Ahead(s) == plan.mail[s] \in {"later", "laterMove"}

\* The rules of a round move on before the round's test, interview and onboarding fire.
Rests(s) == ~AutoMoves(s) \/ s >= plan.rounds
Finished(s) == Rests(s) \/ s \in overtaken
Resting(s) == Min({t \in s .. MaxStage : Rests(t)})
Reached(s) == s .. Resting(s)

Scheduled(r) == {i \in DOMAIN talks : talks[i] = r}

\* Mutant: an interview is booked whether or not the rule has booked one.
TriggeredAgain(w, s, base) ==
    LET boards == plan.board \cap Reached(s)
    IN  [w EXCEPT !.stage = IF Resting(s) = base THEN 0 ELSE Resting(s),
                  !.logs = {r \in Reached(s) : Deferred(r)},
                  !.talks = plan.talk \cap Reached(s),
                  !.board = IF boards = {} \/ boarded > 0 THEN 0 ELSE Max(boards)]

\* Mutant: the round a mail moves to is not looked at again.
TriggeredOnce(w, s, base) ==
    LET boards == plan.board \cap Reached(s)
    IN  [w EXCEPT !.stage = IF s = base THEN 0 ELSE s,
                  !.logs = {r \in Reached(s) : Deferred(r)},
                  !.talks = {r \in plan.talk \cap Reached(s) : Scheduled(r) = {}},
                  !.board = IF boards = {} \/ boarded > 0 THEN 0 ELSE Max(boards)]

\* trigger_automations at s for a session that loaded the application at base.
Triggered(w, s, base) ==
    LET boards == plan.board \cap Reached(s)
    IN  [w EXCEPT !.stage = IF Resting(s) = base THEN 0 ELSE Resting(s),
                  !.logs = {r \in Reached(s) : Deferred(r)},
                  !.talks = {r \in plan.talk \cap Reached(s) : Scheduled(r) = {}},
                  !.board = IF boards = {} \/ boarded > 0 THEN 0 ELSE Max(boards)]

Queued(w) == [r \in Rounds |-> queue[r] + IF r \in w.logs THEN 1 ELSE 0]

Pending == {d \in Sessions : desk[d] # Idle}
Filing == {d \in Pending : desk[d].file = New}

Booking == UNION {{d} \X desk[d].talks : d \in Pending}

\* A session of desk d; one at a time includes the worker's.
Free(d) == /\ desk[d] = Idle
           /\ (alone => Pending = {})

Works(d, w) ==
    /\ \A r \in w.logs : queue[r] < MaxTasks /\ logs[r] < MaxTasks
    /\ w.talks # {} => Len(talks) + Cardinality(Booking) < MaxTalks
    /\ w.file = New => Len(attempts) + Cardinality(Filing) < IF alone THEN MaxAttempts ELSE 1
    /\ desk' = [desk EXCEPT ![d] = w]
    /\ queue' = Queued(w)

Request(d, w) ==
    /\ Free(d) /\ stage # 0
    /\ Works(d, w)
    /\ UNCHANGED <<alone, job, stage, mover, logs, attempts, talks, boarded, lost>>

-----------------------------------------------------------------------------
(* How an application arrives. *)

\* Inboxes, sourcing and the workspace insert it and trigger nothing.
Arrive ==
    /\ stage = 0
    /\ stage' = 1 /\ mover' = "other"
    /\ UNCHANGED <<alone, job, logs, queue, attempts, talks, boarded, desk, lost>>

\* The careers page commits it, triggers round 1, and never commits again.
Apply(d) ==
    /\ Free(d) /\ stage = 0
    /\ stage' = 1 /\ mover' = "other"
    /\ Works(d, [Triggered(Blank, 1, 1) EXCEPT !.closes = FALSE])
    /\ UNCHANGED <<alone, job, logs, attempts, talks, boarded, lost>>

-----------------------------------------------------------------------------
(* How it is moved. *)

\* update_stage commits the round, then triggers it and commits again.
UpdateStage(d, s) ==
    /\ Free(d) /\ stage # 0
    /\ stage' = s /\ mover' = d
    /\ Works(d, Triggered(Blank, s, s))
    /\ UNCHANGED <<alone, job, logs, attempts, talks, boarded, lost>>

\* The hiring agent advances it through as many rounds as its scores allow.
AgentMove ==
    /\ stage \in 1 .. plan.rounds /\ stage < MaxStage
    /\ (alone => Pending = {})
    /\ stage' = stage + 1 /\ mover' = "other"
    /\ UNCHANGED <<alone, job, logs, queue, attempts, talks, boarded, desk, lost>>

CompleteInterview(d, i) ==
    /\ i \in DOMAIN talks /\ stage < MaxStage
    /\ Request(d, Triggered(Blank, stage + 1, stage))

\* Bound: by hand only on jobs that also have a rule for it.
InitiateOnboarding(d) == boarded = 0 /\ plan.board # {} /\ Request(d, [Blank EXCEPT !.board = 1])

ApproveOnboarding(d) == boarded > 0 /\ Request(d, Triggered(Blank, Hired, stage))

-----------------------------------------------------------------------------
(* Tests. *)

Held(r) == {i \in DOMAIN attempts : attempts[i].rule = r}

\* The candidate opens the link of a round's test: create or resume the attempt.
Verify(d, r) ==
    /\ plan.test[r] # "none" /\ Held(r) = {}
    /\ Request(d, [Blank EXCEPT !.file = New,
                                !.row = [rule |-> r, status |-> "STARTED", report |-> Unreported]])

Answered(i, status, report) ==
    [Blank EXCEPT !.file = i,
                  !.row = [rule |-> attempts[i].rule, status |-> status, report |-> report]]

\* A pass triggers the rules of the round the application is in, and moves nothing itself.
Submit(d, i, outcome) ==
    /\ attempts[i].status # "COMPLETED"
    /\ CASE outcome = "video" -> Request(d, Answered(i, "PENDING_REVIEW", Unreported))
         [] outcome = "fail" -> Request(d, Answered(i, "COMPLETED", Unreported))
         [] outcome = "pass" -> Request(d, Triggered(Answered(i, "COMPLETED", Unreported), stage, stage))

Review(d, i, outcome) ==
    LET graded == Answered(i, "COMPLETED", Keep)
    IN  Request(d, IF outcome = "pass" THEN Triggered(graded, stage, stage) ELSE graded)

\* A result answers the test of the round the application is in when it arrives.
RuleNow == IF plan.test[stage] = "none" THEN 0 ELSE stage

\* A partial result has a score below the mark and its provider's status.
Recorded(report, outcome) ==
    LET old == IF RuleNow = 0 THEN {} ELSE Held(RuleNow)
    IN  [Blank EXCEPT !.file = IF old = {} THEN New ELSE Min(old),
                      !.row = [rule |-> RuleNow, report |-> report,
                                status |-> IF outcome = "partial" THEN "STARTED" ELSE "COMPLETED"]]

RecordResult(d, report, outcome) ==
    /\ stage # 0
    /\ LET w == Recorded(report, outcome)
       IN  Request(d, IF /\ outcome = "pass" /\ plan.test[stage] = "move"
                         /\ stage < plan.rounds
                      THEN Triggered(w, stage + 1, stage) ELSE w)

-----------------------------------------------------------------------------
(* The worker. *)

\* A mail for a time to come is not due while the session that queued it is at work.
Pick(r) ==
    /\ Free(Worker) /\ queue[r] > 0
    /\ Ahead(r) => \A d \in Pending : r \notin desk[d].logs
    /\ queue' = [queue EXCEPT ![r] = @ - 1]
    /\ desk' = [desk EXCEPT ![Worker] = [Blank EXCEPT !.mailing = r, !.seen = stage]]
    /\ UNCHANGED <<alone, job, stage, mover, logs, attempts, talks, boarded, lost>>

\* Mutant: the log of a mail that failed stays as it is.
MailedOnSuccess(sent) ==
    /\ desk[Worker] # Idle /\ desk[Worker].mailing \in Rounds
    /\ LET w == desk[Worker]
           r == w.mailing
           done == [Blank EXCEPT !.settle = IF sent /\ logs[r] > 0 THEN r ELSE 0, !.wrote = r]
       IN  IF sent /\ MovesWhenSent(r)
           THEN w.seen < MaxStage /\ Works(Worker, Triggered(done, w.seen + 1, w.seen))
           ELSE Works(Worker, done)
    /\ UNCHANGED <<alone, job, stage, mover, logs, attempts, talks, boarded, lost>>

\* The mail went out or failed; the application is moved from where it was loaded.
Mailed(sent) ==
    /\ desk[Worker] # Idle /\ desk[Worker].mailing \in Rounds
    /\ LET w == desk[Worker]
           r == w.mailing
           done == [Blank EXCEPT !.settle = IF logs[r] > 0 THEN r ELSE 0, !.wrote = r]
       IN  IF sent /\ MovesWhenSent(r)
           THEN w.seen < MaxStage /\ Works(Worker, Triggered(done, w.seen + 1, w.seen))
           ELSE Works(Worker, done)
    /\ UNCHANGED <<alone, job, stage, mover, logs, attempts, talks, boarded, lost>>

\* The rule went while its mail was being sent: the log that names it is refused by the
\* foreign key, and the session fails.
Refused ==
    /\ desk[Worker] # Idle /\ desk[Worker].mailing = Gone
    /\ desk' = [desk EXCEPT ![Worker] = Idle]
    /\ UNCHANGED <<alone, job, stage, mover, logs, queue, attempts, talks, boarded, lost>>

\* The rule of a task is gone: the task returns early and is consumed.
Missing ==
    /\ Free(Worker) /\ orphans > 0
    /\ orphans' = orphans - 1
    /\ UNCHANGED <<alone, plan, stranded, overtaken, arms, stage, mover, logs, queue, attempts,
                   talks, boarded, desk, lost>>

\* The broker hands a task out again that waits longer than its visibility timeout.
Redeliver(r) ==
    /\ Ahead(r) /\ queue[r] \in 1 .. MaxTasks
    /\ queue' = [queue EXCEPT ![r] = @ + 1]
    /\ UNCHANGED <<alone, job, stage, mover, logs, attempts, talks, boarded, desk, lost>>

-----------------------------------------------------------------------------
(* The mail rules are edited meanwhile. *)

\* create_automation deletes the round's rule and inserts one with another id;
\* delete_automation only deletes ("none").  Its tasks stay in the queue, and its logs lose
\* their rule (ON DELETE SET NULL), which no task will settle.  The DELETE waits for the
\* sessions that have written a log of the rule: their rows lock its key.
ArmMail(r, mail) ==
    /\ arms < MaxArms /\ arms' = arms + 1
    /\ (alone => Pending = {})
    /\ mail = "none" => plan.mail[r] # "none"
    /\ \A d \in Pending : r \notin desk[d].logs \cup {desk[d].wrote}
    /\ plan' = [plan EXCEPT !.mail = [plan.mail EXCEPT ![r] = mail]]
    /\ orphans' = orphans + queue[r] /\ queue' = [queue EXCEPT ![r] = 0]
    /\ stranded' = (stranded \/ logs[r] > 0) /\ logs' = [logs EXCEPT ![r] = 0]
    /\ overtaken' = IF mail = "nowMove" /\ (stage = r \/ \E d \in Pending : desk[d].stage = r)
                    THEN overtaken \cup {r} ELSE overtaken
    /\ desk' = IF desk[Worker] # Idle /\ desk[Worker].mailing = r
               THEN [desk EXCEPT ![Worker] = [Blank EXCEPT !.mailing = Gone]] ELSE desk
    /\ UNCHANGED <<alone, stage, mover, attempts, talks, boarded, lost>>

-----------------------------------------------------------------------------
(* The commits of a session. *)

Store(w, booked, boards) ==
    /\ stage' = IF w.stage # 0 THEN w.stage ELSE stage
    /\ logs' = [r \in Rounds |-> logs[r] + (IF r \in w.logs THEN 1 ELSE 0)
                                         - (IF r = w.settle /\ logs[r] > 0 THEN 1 ELSE 0)]
    /\ attempts' = IF w.file = New THEN Append(attempts, w.row)
                   ELSE IF w.file = 0 THEN attempts
                   ELSE [attempts EXCEPT ![w.file].status = w.row.status,
                           ![w.file].report = IF w.row.report = Keep THEN @ ELSE w.row.report]
    /\ talks' = talks \o booked
    /\ boarded' = boarded + IF boards THEN 1 ELSE 0

\* Each interview is committed, with all the session has written so far.
MidCommit(d) ==
    /\ desk[d] # Idle /\ desk[d].talks # {}
    /\ LET w == desk[d]
           r == Max(w.talks)
       IN  /\ Store(w, <<r>>, w.board > r)
           /\ mover' = IF w.stage # 0 THEN "rules" ELSE mover
           /\ desk' = [desk EXCEPT ![d] =
                [Blank EXCEPT !.talks = w.talks \ {r}, !.closes = w.closes,
                              !.board = IF w.board > r THEN 0 ELSE w.board]]
    /\ UNCHANGED <<alone, job, queue, lost>>

Commit(d) ==
    /\ desk[d] # Idle
    /\ LET w == desk[d]
       IN  /\ w.mailing = 0 /\ w.talks = {} /\ w.closes
           /\ Store(w, <<>>, w.board # 0)
           /\ mover' = IF w.stage # 0 \/ mover = d THEN "rules" ELSE mover
    /\ desk' = [desk EXCEPT ![d] = Idle]
    /\ UNCHANGED <<alone, job, queue, lost>>

\* The process dies, onboarding refuses, or (the careers page) nothing commits.
Abandon(d) ==
    /\ desk[d] # Idle
    /\ desk' = [desk EXCEPT ![d] = Idle]
    /\ mover' = IF mover = d THEN "other" ELSE mover
    /\ lost' = (lost \/ d = Worker)
    /\ UNCHANGED <<alone, job, stage, logs, queue, attempts, talks, boarded>>

\* The careers page ends without a commit.
Expire(d) == desk[d] # Idle /\ ~desk[d].closes /\ desk[d].talks = {} /\ Abandon(d)

-----------------------------------------------------------------------------
PipelineInit ==
    /\ alone \in BOOLEAN
    /\ plan \in Plans
    /\ stage = 0 /\ mover = "other"
    /\ logs = [r \in Rounds |-> 0] /\ queue = [r \in Rounds |-> 0]
    /\ attempts = <<>> /\ talks = <<>> /\ boarded = 0
    /\ desk = [d \in Sessions |-> Idle]
    /\ lost = FALSE /\ stranded = FALSE
    /\ orphans = 0 /\ overtaken = {} /\ arms = 0

RequestNext(d) ==
    \/ Apply(d)
    \/ \E s \in 1 .. plan.rounds : UpdateStage(d, s)
    \/ \E i \in DOMAIN talks : CompleteInterview(d, i)
    \/ InitiateOnboarding(d)
    \/ ApproveOnboarding(d)
    \/ \E r \in Rounds : Verify(d, r)
    \/ \E i \in DOMAIN attempts :
          \/ \E outcome \in {"pass", "fail", "video"} : Submit(d, i, outcome)
          \/ \E outcome \in {"pass", "fail"} : Review(d, i, outcome)
    \/ \E report \in Reports, outcome \in {"pass", "fail", "partial"} :
          RecordResult(d, report, outcome)

MailEnds == Refused \/ \E sent \in BOOLEAN : Mailed(sent)

WorkerNext == Missing \/ MailEnds \/ \E r \in Rounds : Pick(r)

PipelineNext ==
    \/ Arrive
    \/ AgentMove
    \/ \E d \in Desks : RequestNext(d)
    \/ WorkerNext
    \/ \E r \in Rounds : Redeliver(r)
    \/ \E arm \in plan.arms : ArmMail(arm[1], arm[2])
    \/ \E d \in Sessions : MidCommit(d) \/ Commit(d) \/ Abandon(d)

PipelineSpec == PipelineInit /\ [][PipelineNext]_pipelineVars

(* The worker runs whenever it has a task, its mails end (SMTP has timeouts) *)
(* and its sessions commit; requests end, one way or the other.  Nobody has   *)
(* to make a request, and nothing has to die.                                 *)
PipelineFairness ==
    /\ \A r \in Rounds : SF_pipelineVars(Pick(r))
    /\ WF_pipelineVars(MailEnds)
    /\ \A d \in Sessions : /\ WF_pipelineVars(MidCommit(d))
                             /\ WF_pipelineVars(Commit(d))
                             /\ WF_pipelineVars(Expire(d))

FairPipelineSpec == PipelineSpec /\ PipelineFairness

-----------------------------------------------------------------------------
(* A deferred mail whose time is to come is settled in the end: the log of a *)
(* rule does not stay "scheduled" for ever, unless a task was lost with the   *)
(* worker, however the tasks are repeated, whatever moves the application     *)
(* meanwhile and whichever rules are armed or deleted.  A log whose own rule  *)
(* is deleted is none of its round's any more: see NothingStranded.          *)
ScheduledMailSettles ==
    \A r \in Rounds :
        (logs[r] > 0 /\ Ahead(r)) ~> (logs[r] = 0 \/ lost)

(* With one session at a time there is one attempt per test, one interview   *)
(* per interview rule and one onboarding, through every repetition: links     *)
(* opened again, results delivered again, rounds re-entered and sessions that *)
(* died after committing an interview.                                       *)
OneOfEach ==
    alone =>
        /\ \A r \in Rounds : Cardinality(Held(r)) <= 1 /\ Cardinality(Scheduled(r)) <= 1
        /\ boarded <= 1

(* However sessions overlap, wherever they die and whatever is armed: when    *)
(* the last to move the application was a path that triggers the rules, it is *)
(* not left in a round whose mail moves it on at once, unless that mail was    *)
(* armed when the application was there or on its way.                       *)
MovesAreFinished == mover = "rules" => Finished(stage)

(* schedule_automated_email promises a mail that the worker will send, and    *)
(* every log that says "scheduled" to be one of those.  Arming a round again   *)
(* or deleting its rule leaves logs that no task will ever settle.           *)
NothingStranded == ~stranded

(* record_result promises that a result delivered again corrects the record   *)
(* rather than adding a second one, external_results.py:173-174.  After a     *)
(* pass that moves the application the same report is recorded for the next   *)
(* round, even with one request at a time.                                   *)
RedeliveryCorrects ==
    alone => \A i, j \in DOMAIN attempts :
        (attempts[i].report = attempts[j].report /\ attempts[i].report \in Reports) => i = j
=============================================================================
