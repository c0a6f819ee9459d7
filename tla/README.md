# A verification project for the croar back end

TLA+ models of the stateful parts of the croar back end (FastAPI, SQLAlchemy async sessions,
PostgreSQL, a Celery worker, some collections in MongoDB), the TLC configurations that check
them on small instances, and TLAPS proofs of the properties that matter most. Paths below are
relative to the repository root unless they name a `.tla` or `.cfg` file.

## 1. How the program runs, and how that is modelled

Almost every subsystem is a set of HTTP endpoints over one relational database. There is no
lock, queue or cache on these paths: **concurrency is concurrency of requests, and shared state
is rows**. What two requests can do to each other follows from the session,
`app/core/database.py`:

| Fact | Where | In the models |
|---|---|---|
| one session per request, opened by `get_db`, rolled back on an exception, closed at the end | `database.py:48-57` | `Abandon` and its relatives: a request dies before its next commit and leaves nothing of that transaction |
| `autoflush=False`, `expire_on_commit=False` | `database.py:43-46` | a request works on the values it loaded, also after its first commit (`ReopenCommit`, `ClearCommit`); a row it added is not found by its next SELECT (`Publish` of `JobBoard`) |
| no `with_for_update`, and the default isolation level, READ COMMITTED | every `select` of the modelled services | a read takes no lock: what was read may be stale when it is used |
| the ORM's UPDATE names only columns whose value differs from the loaded one | `Mapped` classes in `app/models` | `Column(stored, old, new)`, `SetTo`: an unchanged column keeps whatever another request has stored |
| an INSERT or UPDATE holds its row or key until the commit | PostgreSQL | flush and commit are one step unless the code does something in between (`RunFlush`, `Locked`) |
| unique constraints refuse the second INSERT | `__table_args__` of the models | `SeedConflict`, `InsertConflict`, `GenerateConflict`, `Conflict`, `Storable` |

So a request is a **load step** (select, status checks, the computation) and one or more
**commit steps**. In the four core modules `Workers` is the set of requests that may be in
flight; in the people modules (`Requests`) a desk holds one request, and `staffed` is chosen once
per behaviour: one desk (`Alone`, requests that do not overlap) or all of them. A property that
holds for any overlap is stated plainly; one the code keeps only when nobody races has `Alone`
as its premise, and the race is described under the findings.

The exception is hiring: a **Celery worker** (`core/celery_app.py`, `tasks/email_tasks.py`) sends
deferred mails and may move an application. It is modelled as one more session, with its queue.

## 2. Inventory

| Component | State | Operations | What makes it correct | Hard because |
|---|---|---|---|---|
| **Credits** `services/enterprise/credit_service.py` | account row, append-only ledger rows | get-or-create with the free credits, `record_usage` in the caller's or an own session, `record_ai_usage`, `grant` | nobody is charged more than the usage rows say; no credits from nowhere; a feature and its charge commit together | read-modify-write without a lock, first-touch race, swallowed billing errors, four-decimal charges in two-decimal columns |
| **Payroll cycle** `services/payroll/payroll_service.py`, `router/enterprise/payroll/payroll.py` | cycle row, payslips, adjustments | run, approve, mark paid, cancel, delete, adjustments | no payment without approval, totals are those of the payslips, approved payslips are fixed | a run reads employee by employee, flushes, sums its own view, commits; its inputs change under it |
| **Payslip arithmetic** `payroll_service.py`, `statutory.py`, `tax_engine.py`, `statutory_intl.py` | none: a function of structure, days, profile, country | `compute_payslip`, `compute_hourly_payslip`, four statutory engines | lines add up, the balance line closes the CTC, bands meet, twelve months of TDS settle the year | line-by-line rounding, balance lines, marginal relief, band bounds |
| **Leave ledger** `services/payroll/leave_service.py` | types, balances, requests | file, approve, reject, cancel, list (refreshes), create/seed/edit types | balances account for approved requests, no overdraft, no double booking, segregation of duties | three reads per decision; balances created by reads; monthly rounding; the year starts over |
| **Timesheets** `services/payroll/timesheet_service.py`, `timesheets.py`, `me.py`, `leave.py` | sheet, day entries | generate, HR edit, self-mark, import, submit, approve, reject, reopen, resync | aggregates match entries, leave is stamped, decided sheets do not change | edits race with decisions, reopen is two commits, the resync is a second transaction, a file is partly applied |
| **Salary structures** `payroll.py`, `payroll_service.apply_template` | structure rows | create, edit, delete, template over a batch | whoever is paid stays paid | batches with repeated names, a partial unique index, overlaps |
| **Calendar and settings** `calendar_service.py`, `payroll/settings.py` | holidays, the company row | single holidays, whole files, rates, calendar rules, payslip document | a file erases its own year only; the document, its mapping and its template agree | soft deletion under a unique key, one JSON column with two writers, a four-step wizard |
| **Attendance** `attendance.py` | punches, the derived day, correction requests | punch, mark, regularize, decide | the day shows its punches | minutes derived from the punches a request loaded |
| **Assets and exits** `assets.py`, `offboarding.py`, `account_service.py` | asset status, assignments, exit checklists, logins | hand over, take back, retire, request, approve, tick, complete, cancel | register and assignments agree; a completed exit is clean | two modules move the same rows; a checklist built once |
| **Onboarding and employees** `onboarding_service.py`, `employee_service.py`, `employees.py` | onboarding status, employee rows, users, roles | initiate, submit, approve, convert, create, edit, delete, provision | codes name one person for ever | codes derived from what is there, status rows that may be missing |
| **Intake** `public.py`, `job_inbox.py`, `job_workspace.py`, `sourcing_hub.py`, `administration.py` | candidates, applications, the mailbox | apply, check the inbox, import, add, remove, merge, archive, restore, purge | one application per person and job | five ways in with five rules for "known already"; broken sessions |
| **Hiring automation** `automation_service.py`, `email_tasks.py`, `public_assessment.py`, `candidate_interview.py`, `external_results.py` | the round of an application, logs, queue, attempts, interviews, onboarding | arrive, move by rule, by hand or by agent, attempt, grade, report, complete, send later | one attempt, interview and onboarding each; moves are finished; scheduled mails settle | chains of rules, a commit in the middle of a session, redelivery, a worker that dies |
| **Interview slots** `interview_service.py` | bookings of one rule | search and book | bookings do not clash | the search waits for a meeting link before it commits |
| **Surveys, 360 and simulations** `survey.py`, `x360.py`, `simulation.py` | invites, reviews, sessions | send, fill, edit the template, chat, evaluate | completed means done, answers count once | status read without a lock, a language model between read and write |
| **Jobs and boards** `jobs.py`, `job_portals.py`, `job_distribution/`, `public_feeds.py` | the job's status and life, posting rows, connections (MongoDB) | publish, unpublish, connect, edit, delete, restore, purge | one posting per board | aliases, no unique key, no autoflush |
| **Round rules** `automation.py`, `assessment.py`, `interview_automation.py`, `onboarding_automation.py`, `agents/tools.py` | the automations of a job, what candidates have done under them | arm, change, drop by form; arm, name rounds, build a pipeline by assistant; delete and restore the job | one rule per round; a deleted job keeps none | a DELETE with a cascade in front of each INSERT, two ways in with different rules, stages found by number |
| **Outreach** `sourcing_chat.py`, `imap_service.py` | shortlist rows and interest answers (MongoDB), engagement links mailed, synced replies | shortlist, move, mark, remove, send the description, contact, answer, sync, sweep | answers are filed under whoever gave them; a reply or an interest is not lost | upserts without a unique key, ids replaced after they were mailed, a sweep that reads, waits and writes |
| **Sourcing funnel** `job_sourcing.py` and its callers | one document per job and person (MongoDB) | shortlist, invite, send, apply, mark | an application is never forgotten by the funnel | mail, transaction and document are three systems, updated in turn |

How they interact. A leave decision commits, then resyncs the employee's open sheets; a payroll
run reads approved timesheets and active structures; assessments and interviews charge the
wallet in their own transaction, language-model calls and searches in one of their own; every way of
applying triggers the rules of the first round; the last round converts to an onboarding and
then an employee; an exit takes back assets and turns off the login that onboarding provisioned.
`HiringPipeline` contains the rules, interviews, tests and onboarding of one application together because
they move the same column. The other parts share no column that both write, so `MCOffice`
and `MCRecruiting` exercise them side by side.

### Not modelled, and why

`PROJECT.json` lists every component with its status and reason. In short:

* **No state of their own**: reports, dashboards, exports, PDF and Word rendering, feeds other
  than their filter, matching scores, career-page content, the audit log (rows appended in the
  caller's transaction).
* **Single-row writes**: projects, folders, teams, groups, guests, templates, roles, saved lists,
  notes. One INSERT or UPDATE without a condition on other rows: a model would restate
  the assignment.
* **Steered from outside**: what the recruiting agents decide to do, sourcing searches, scrapers, audio,
  grading and evaluation by language models. What they return has no specification in the code; the
  models take the results as inputs, and in `RoundRules` the assistant may call any of its writing tools at any time. The endpoint that would approve an agent's action
  (`router/agents.py:401`) changes nothing.
* **Authentication and permissions**: the permission check of an endpoint is taken as passed.
* **Generated**: migrations.

These are most of the lines: adapters, prompts, catalogs and queries. The mapped lines are a
modest share of the repository for that reason, and modelling the rest would transliterate
queries and string handling without a property to check.

## 3. Modules

| Module | Role |
|---|---|
| `CreditLedger`, `CreditWallet` | the wallet of one company; what it promises: an atomic counter of grants and charges |
| `PayrollCycle`, `PayrollLifecycle` | one cycle; what it promises: DRAFT, PROCESSING, APPROVED, PAID, payslips and adjustments touched only before the approval, all paid together |
| `LeaveLedger`, `LeaveAccount` | the leave of one employee; what it promises: leave is taken from what accrued, given back on cancellation, `used` is the sum of what is taken |
| `Timesheets`, `SheetLifecycle` | the sheets of one cycle; what they promise: drafting, submission, decision, and a grid fixed outside DRAFT and REJECTED |
| `HiringPipeline` | one application through the rounds of a job, with the Celery worker |
| `PayRules`, `Payslip` | the statutory engines and the payslip as functions |
| `Requests` | what the people modules share: desks, idle, `Alone` |
| `Exits`, `Attendance`, `SalaryStructures`, `InterviewSlots`, `Intake`, `HolidayCalendar`, `CompanySettings`, `Feedback`, `Joiners`, `JobBoard`, `JobFunnel`, `RoundRules`, `Outreach` | one part each |
| `MCOffice`, `MCRecruiting` | the office parts with the payslip, and the recruiting parts, side by side, for a run each |
| other `MC*` | constants, symmetry and input sets for TLC |
| `CreditLedgerProofs`, `PayrollCycleProofs`, `LeaveLedgerProofs`, `TimesheetsProofs` | theorems of the four core components |
| `HiringPipelineProofs`, `RecruitingProofs`, `OfficeProofs` | theorems of the pipeline, of the recruiting parts (`JobFunnel`, `Outreach`, `RoundRules`, `InterviewSlots`, `JobBoard`, `Intake`) and of the office parts (`HolidayCalendar`, `Exits`, `CompanySettings`, `SalaryStructures`, `Joiners`, `Feedback`, `Attendance`) |
| `DataLemmas` | what the proofs need of sums over sets, lists of rows and loops |

The abstract modules know nothing of workers, sessions or columns. Each detailed core module
instantiates its abstract one with a refinement mapping (`Wallet`, `Lifecycle`, `Account`) and
the abstract `Spec` is a temporal property of the serial run. Operators whose comment begins
with "Mutant" are deliberate mistakes: variants of the definition next to them, each of which
must make TLC report a violation of the property it is paired with in `PROJECT.json`. No
specification uses them.

**CreditLedger.** `account` is the `credit_accounts` row, `ledger` the sums over
`credit_transactions`. `BeginMeter`/`BeginFeature`/`BeginGrant` are
the SELECT of `_get_or_create_account` by the three kinds of caller, `Commit` is `_write` with
its commit, which stores the columns it changes and leaves the others as they are by then, `FailSeed` the IntegrityError of the second first touch, with its three different
consequences. `work` counts calls made and features delivered. An AI charge has four decimals
and the columns two; all the columns can tell about it is its half-up rounding and whether it
is an exact tie, hence `Charge`.

**PayrollCycle.** `RunLoad`, `RunEmployee` (one per iteration of the loop), `RunFlush` (flush and
roll-up), `RunConflict`, `RunCommit` are `run_payroll`; `DecideLoad` with `Approve`, `MarkPaid`,
`Cancel`, `Delete` the other endpoints; `AdjustLoad`/`AdjustCommit` the adjustments. `View` is what the
session's identity map shows to the roll-up. `Locked` makes a second flush and the bulk
UPDATE of `mark_paid` wait for rows a run has flushed. `history` records which decisions were
ever committed.

**LeaveLedger.** `DecideLoad` reads the request, `DecideRead` type and balance, `DecideCommit`
stores; `Refuse` is the 409 on insufficient balance; `ListLoad`/`ListCommit` the listing that
creates and refreshes balances; `SeedLoad`/`SeedCommit` `create_type` and `seed_default_types`;
`NextMonth` is the calendar: March to April starts the accrual again while the balance row
stays, because the financial year is a constant in the code. `ceiling` records the largest quota
a type ever had.

**Timesheets.** Load/commit pairs for edits, marks, imports and transitions share `Store`;
`ReopenCommit` then `ClearCommit` are the two commits of `reopen`; `DecideLeave` and
`CancelPending` are a leave decision's commit, `ResyncLoad`/`ResyncCommit` the resync that
follows in the same request and is lost if it dies. Whether approved leave is paid is a column of its type, `paid`,
which `get_approved_leave_days` reads anew at every stamp; `UpdateType` is HR changing it, under approved leave too, and
no sheet is resynced for it. (The approved requests and their types are read by two SELECTs; a commit that falls between the two
is left out.) `submitter`, `byHand`, `half`, `unsynced`,
`granted` are history variables: they record what happened and guard nothing.

**HiringPipeline.** A session computes and queues its tasks in one step; what it will store waits
in `desk`, because `schedule_candidate_interview` commits in the middle (`MidCommit`) and a
session may die after it. `Triggered` follows the rules from round to round as
`trigger_automations` calls itself. `Arrive` and `Apply` are the ways to become an applicant, `RequestNext` the requests (attempts,
grading, completion, provider reports, moves by hand, onboarding), `AgentMove` the hiring agent,
`Pick`/`Mailed` the worker's load and commit around the SMTP call, `Redeliver` the broker that hands a
long-waiting task out again, `Expire` a session that closes without a commit. `ArmMail` is a recruiter who arms a
round's mail again or deletes its rule: the tasks queued for the former rule (`orphans`) find it gone and
return early (`Missing`), one whose mail is just going out is refused its log (`Refused`), and the logs that had the
rule are nobody's any more (`stranded`). `overtaken` records the rounds given a mail that moves at once while the application
was in them or on its way; it guards nothing. Criteria always
pass; mails sent at once change no row a rule reads. Editing a rule in place (PATCH) is left out.

**Exits.** The load of a request leaves its rows in `desk[d]`, `ExitCommit` stores them under the
partial unique index of the tag. `Assign`, `TakeBack`, `SetStatus`, `DeleteAsset` are the register;
`CreateExit` builds the checklist from the assignments held, `Tick`/`Untick`/`AddTask`/`RemoveTask` and
`Complete` the checklist; `Provision` the logins.

**Attendance.** One employee's day: `Punch` stores a punch with the day that `Clock` derives, `MarkDay` is HR's
override, `RequestRegularization` and `DecideRegularization` the correction. `lone` says that the last write overlapped no other.
The code never sets the day's `locked` flag, and `decide_regularization` does not compare the
decider with the requester, so the module has neither.

**PayRules and Payslip.** Money is a number of paise and a rate a fraction, so rounding is exact:
`HalfUp` is the code's `ROUND_HALF_UP`, for amounts of either sign. `Draw` computes the payslip of one
`claim`, unless the days are refused. `InSlab`, `InBracket` and `LineAdded` are one turn of the three
loops. The claims combine structures with one or two balance lines and one with a negative line, loss
of pay from nothing to everything, four countries, both tax regimes and adjustments.

**SalaryStructures, InterviewSlots.** `Prepare` and commit around the partial unique index; the slot search
of one rule over days that pass, with hours cut in steps, slots that overlap and a window that ends.

**Intake.** A write `w` collects what a session adds before its flush; a refused flush breaks the session.
`Put` is find-or-insert as each way in does it; `CareersApply`, the inbox, the import, the recruiter,
and the ways off and back.

**HolidayCalendar, CompanySettings, Feedback, Joiners.** Rows that a request has loaded may be gone or
changed when it commits; each module keeps what its handlers compare.

**JobBoard, JobFunnel.** Postings of one job under the names a request may use (`BoardOf` is
`resolve_key`); a row added in a session is not found by its next lookup. The funnel is a document per
person; every update of it is atomic, and the mail or the transaction it reports comes before it
(`Invite` then `Record`, `CommitApplication` then `Record`).

**RoundRules.** `pen[d]` is what a request is about to write: rows to add, rows its DELETE takes, one to change or
drop. `CommitRules` applies it to the rules as they are by then and takes along what the foreign keys take
(`TakenAlong`). `ArmRound` is the forms, `Setup`, `BuildPipeline` and `SetRounds` the assistant's tools. `by`, `moved`
and `late` of a rule record how it came about and guard nothing.

**Outreach.** The rows of one project; `asked` and `replied` are what the sweep compares of `contacted_at` and the mail log.
`ShortlistFor` and `StoreShortlisted` are an upsert, which between processes may insert twice; `SendJD`/`RecordSent`
and `Contact`/`RecordContact` mail first and record after; `OpenForm`/`StoreInterest` are the public form;
`LoadSweep`/`StoreSweep` the response sweep. A link without an id (`/engagement/unknown`) opens nothing and is left out.

The type invariants of the four core modules are stated in them (`TypeOK`) and proved.

## 4. Runs

| Run | Question | Instance and why it is enough |
|---|---|---|
| `credit_shared` | what survives lost updates, the first-touch race and crashes | 2 workers, 3 free credits, a tie and a plain AI charge, one feature, one grant; 3 ledger rows, 4 pieces of work. Two writers lose an update; three rows put one before, in and after the race |
| `credit_serial` | does the wallet equal its ledger, and implement `CreditWallet` | 1 worker, 5 rows, 6 pieces of work: the balance crosses zero, where the tie rounding changes side |
| `payroll_shared` | late commits, unique conflicts, lock waits | 2 workers, 2 employees, 2 input changes: a run overtaken by any decision or another run, with different employees skipped |
| `payroll_serial` | totals, `PayrollLifecycle` | 1 worker, monthly and hourly structures, loss of pay below and above the working days, a bonus, 3 input changes: run, change, run again, decide |
| `leave_shared` | segregation and accrual under races | 2 workers, 1 type that may change, 2 requests, 2 users: two decisions on one request, or on two of one balance |
| `leave_serial` | double booking, overdraft, `LeaveAccount` | 1 worker, quotas raised, cut and deactivated, whole, half and clashing days, 2 changes |
| `timesheets_shared` | stale copies stored over newer ones | 2 workers, 1 employee, 1 day, 2 users, a leave type that may change, HR's paid leave and WFH, 2 edits: every pair of requests on one sheet, a third between their steps |
| `timesheets_serial` | aggregates, leave stamps, `SheetLifecycle` (with its segregation of maker and checker) | 1 worker, a salaried and an hourly employee, a working day and a weekly-off, files with usable and unusable rows, half-days of a leave type that may change, 2 edits |
| `office` | exits, attendance, salary structures, payslips, the calendar, settings, feedback and joiners, each with one and with two overlapping requests | 2 desks. One part runs per behaviour (`focus`); see below |
| `recruiting` | slots, intake, job boards, the funnel, round rules and outreach, likewise | 2 desks, one part per behaviour |
| `hiring` | one of each, finished moves, settled mails | 1 desk and the worker, overlapping or not; three jobs: a chain of mails, of which one may be armed again on the way, deferred or at once; two tests that move with an interview between, two interviews and an onboarding in one chain |
| `hiring_doc_redelivery` | *violation*: does a repeated provider report correct the record? | 1 desk, the job with two tests |

**Bounds.** They are named in the `.cfg` files and bound how often things happen, never how
requests interleave: `MaxRows` and `MaxWork` (ledger), `MaxEdits` (changes of inputs in the core modules, with leave decisions and type changes in `Timesheets`;
commits on the day in `Attendance`), `MaxStage`, `MaxTasks`, `MaxAttempts`, `MaxTalks`, `MaxArms` (hiring; a task may
be handed out once more; one rule is armed again), `MaxLoans`, `MaxExits` (two hand-overs around one exit), `LastTime` and
`MaxRequests` (in, out, in, out in a day; one correction), `MaxTerms` (a batch of two after one), `Horizon`,
`LastDay`, `MaxBookings` (a full day, the next, past the window), `MaxPeople`, `MaxApps`, `MaxMail`
(two people who may be one), `MaxSaves`, `MaxForms`, `MaxEditions`, `MaxDrills`, `MaxSessions`,
`MaxRoster` (one fewer where requests overlap), `MaxAmends` (hire, leave, hire again), `MaxPostings` (a board twice under two names, another
once), `MaxRules` (a round armed twice, or a pipeline; one fewer where requests overlap), `MaxSlate`, `MaxSids` (a person shortlisted again,
or two rows; one row where requests overlap). In `Exits`, `Returns` gives a hand-back both conditions only when requests do not overlap: they
lead to two shelf states that the overlapping cases treat alike. In `Feedback` a chat ends at `Enough` turns;
longer conversations meet the same guards. In the `hiring` run attempts are limited to one where
requests overlap. Symmetry is used over workers, desks, requests and users, which no module tells apart.

`CHECK_DEADLOCK FALSE` appears where the bounded world really runs out: all requests filed and
decided, the cycle deleted or closed, the budget used, the application at its last round.

**Fairness.** The request-only modules state none: a request that dies is not repeated and nobody
has to make one, so nothing "eventually" holds. `HiringPipeline` does, in `FairPipelineSpec`: strong
fairness for the worker's picking a task of each rule (it consumes whatever is due, but may be busy),
weak fairness for the end of a mail (SMTP has timeouts, both outcomes allowed) and for the commits and
closings of sessions. No request has to be made and nothing has to die. `ScheduledMailSettles` then says that a
deferred mail's log does not stay "scheduled" for ever while its rule stands; the exceptions are `lost`, set when
a worker dies with a task it had acknowledged (Celery acknowledges early unless told otherwise, and
`core/celery_app.py` does not tell it) or its session fails, and the logs of a rule that is armed again or deleted:
no task will ever settle those, which is a finding (`NothingStranded`).

### What the passing runs say

* *Whatever the interleaving.* The wallet may be **under**charged but never overcharged and never
  holds credits nobody granted; a feature is delivered only with its charge. No payslip is paid and no
  cycle approved without the committed decisions before it; the headcount never exceeds the payslips. No
  leave is approved by its maker, no balance accrues beyond the largest quota; paid leave appears only
  where HR gave it or approved leave covered the day while its type was paid, and decided sheets were submitted. A completed exit has taken back what its checklist
  named. A day that no other write overlapped shows its punches. Nobody drops out of pay but by a
  request to that end. An import erases its own year only. A completed simulation has a
  completed session. An application that a rule moved last is not left before a mail that moves it
  at once, unless that mail was armed while the application was there. An applicant the funnel knew is shown as having applied. An
  engagement link leads to nobody's row but the addressee's.
* *One request at a time.* The four refinements; wallet and ledger differ by at most a cent per
  exact tie; totals match payslips after partial re-runs; no day is booked twice, nothing is
  overdrawn; sheets show the leave ledger, by the leave types as they stand, wherever nobody set a day by
  hand and no change has bypassed the sheet. Register and assignments agree; slots do not clash; one live application per person and
  job; one attempt, interview and onboarding each; document, mapping and template agree; codes are not
  given out twice; one posting per board; two rules for a round come only from the assistant or a move.
* *For every claim of the instance.* Earnings are the raw lines in proportion of the days to within half a paisa a
  line, the balance line closes the CTC, no line of the employer's is negative and the statutory lines abroad never
  eat more than the gross; both ways the code walks tax bands agree with the tax band by band, a raise never lowers
  the year's tax, and twelve months of TDS settle it to within half a paisa a month.

### Where code and documentation disagree

One run ends in a violation of a sentence the repository says: `hiring_doc_redelivery`, where a provider's
report delivered again, after the first has moved the application, is recorded a second time for the next round
(`external_results.py:175`).

The others have no run of their own. They are formulas of the modules (TLC refutes them when they
are added to a `.cfg`) or follow from one action; `PROJECT.json` quotes the sentences.

* **Pay.** A skipped employee keeps an earlier payslip and is paid (`SkippedAreNotPaid`); two balance lines
  pay up to a paisa more than the CTC; the additional Medicare rate is taken of the whole month's gross.
* **Credits.** The balance is not the sum of the transactions (`BalanceIsSumOfRows`): the free credits have none, and
  an AI charge that falls half way is rounded for the balance and for its row. `SerialAgreement` says by how much they differ.
* **Leave.** Of two overlapping approvals on one balance the later erases the earlier debit (`ApprovedIsUsed`).
* **Timesheets.** A leave decision erases absences set by hand (`ManualDaysLeftAlone`); reopening does not stamp
  leave approved meanwhile (`ReopenAppliesLeave`).
* **Exits.** An asset handed over, a login provisioned or an access task removed after the checklist was built
  passes the gate (`LeaversHoldNothing`).
* **Hiring.** The careers page triggers the rules and never commits what they did; a passed assessment
  moves nothing; an application taken off the job is still mailed and moved by the worker; arming a round again
  leaves the mails scheduled under its former rule scheduled for ever (`NothingStranded`).
* **Intake.** Checking one inbox marks every job's mail as seen (`InboxLosesNothing`); one refused message
  loses those before it; an applicant of another company is attached to that company's record; merging
  into a record without an address, and purging anyone who ever applied, always fail.
* **Interview slots.** Past the window everybody is given the same time.
* **Calendar and settings.** A file that names a deleted holiday is refused as a whole (`ImportsLand`); saving
  rates drops the calendar rules of the same column (`CalendarSurvivesRates`).
* **Feedback.** Two submissions at once are both stored (`OverlapsCountOnce`); editing a survey's template erases
  its answers (`AnswersOutliveEdits`).
* **Employees.** Somebody who has not finished onboarding may be converted (`ConvertedWereOnboarded`); two
  first logins create the role twice, after which every account is refused (`OneEmployeeRole`).
* **Jobs.** A board named twice in one request gets two rows and can then neither be published to
  nor left; a job closed after it was published stays in the feed (`FeedIsOpen`).

* **Round rules.** The assistant arms a round twice (`OneRulePerRound`); arming a round again deletes the attempts
  and bookings made under its former rule (`RearmingKeepsWork`), deleting a job those of its interviews, hired people's included
  (`DeletionLeavesInterviews`); renamed rounds keep the rules of the rounds they replace (`NamedRoundsAreInert`).
* **Outreach.** Shortlisting somebody again kills the link already mailed (`LinksLead`); the sweep overwrites an interest
  expressed while it waited (`InterestStands`); a reply synced after its row was flagged never counts
  (`SilentHaveNotReplied`); a move makes two rows of one person (`OneRowPerProfile`).

Visible in the core models, too: concurrent charges lose an update (`credit_service.py:131`), and the loser of a
first touch rolls back the caller's feature (`:102`, `:215`), so "a metering failure can't fail a user's
request" holds only when requests do not overlap; a run that commits after the approval rewrites approved
payslips (`payroll_service.py:638`) and a cancellation may overwrite PAID (`:931`); two filings of one day
both pass the overlap check (`leave_service.py:267`); whether a cancellation gives days back depends on the
type's flag now, not at approval (`:466`), and so does whether its days on a sheet are paid (`:530`); a quota cut does not lower what has accrued (`:197`);
`import_attendance` never looks at the cycle's status.

## 5. Proofs

TLC shows a property for two workers and a handful of rows. The theorems show it for any set of
workers or desks, any number of steps and any inputs that meet the modules' assumptions. All
proofs use one idea: **a request in flight will store what it computed from what it read, so the
invariant must speak of what each request has read as well as of the rows.** Where requests may
overlap, that part says what survives of a stale read; where they do not (`Alone`, or one worker),
it says that the read is still true.

### Any overlap of requests

| Module | Theorem | Inductive invariant |
|---|---|---|
| `CreditLedgerProofs` | `TypeCorrect`, `NoOvercharge`, `NoOvergrant` | `IInv`: the account row, *and every row a worker has read*, lies within `[Initial - debits, Initial + credits]`. A lost update stores a value computed from an old row; the ledger has only grown since, so the bound still holds |
| | `BilledOnce` | `BInv`: every cent on the ledger was called for or delivered, and what is in flight was called for besides; a commit moves a worker's own share from the second part to the first, a request that fails drops it. The parts are sums over the workers |
| `PayrollCycleProofs` | `TypeCorrect` | `TInv`: the types of the rows and of what each run remembers, the adjustments on file and those a run has read being finitely many, so that what it sums is a number |
| | `NothingPaidUnapproved` | `IInv`: a request past its status check carries the milestone it relies on (`RequestsBacked`), a status presupposes its milestones (`StateBacked`), a stamped payslip presupposes payment (`SlipsBacked`); `history` only grows, so late commits do no harm |
| | `HeadcountBacked` | `HInv`: the payslips a run has loaded are still on file, because nothing withdraws them while the cycle lives, so a headcount it has summed counts nobody who will be without a payslip |
| `LeaveLedgerProofs` | `TypeCorrect` | `TInv` with the next two: a request that is about to be filed or decided was read whole. That no balance goes negative is part of the type: a cancellation gives back at most what is used, and a share of a quota is rounded to a natural number |
| | `SegregationOfDuties` | `SInv`: pending rows have no approver, approvals under way are by another user than the row's maker and saw no approver. Then `Column` cannot leave another user's stamp on an approved row |
| | `AccrualBounded` | `AInv`: rows, *and rows read and about to be stored*, lie below `ceiling`, which only grows; a monthly share is capped by the quota |
| `TimesheetsProofs` | `TypeCorrect` | `TInv`: a sheet that a request has loaded is never removed, so columns stored over it complete a sheet; one that is being reopened is stored whole. Worked days are not negative because the days lost are distinct scheduled ones |
| | `DecisionsNeedSubmission` | `StatusStep`: what a task may still do to a sheet's status is nothing, make it a draft, submit it with a named actor, or decide it after somebody submitted |
| | `PaidLeaveNeedsGrant` | `GrantStep`: the copy a task will store shows paid leave on granted days, or is HR's edit, which grants by the commit that stores it; `LeaveGranted`: approved leave of a type that is paid now is granted, through every decision and every change of a type, and `granted` never shrinks, so what was stamped as paid stays granted when its type is unpaid by the time the copy is stored; sheets never disappear |
| `HiringPipelineProofs` | `MovesFinished` | `PipeInv`: an application that a rule moved last rests in a round whose mail does not move it at once, and so does one that a session is about to move, because it has followed the rules to the end (`Resting`) before it stores; a mail armed to move at once under it is recorded (`overtaken`) |
| `RecruitingProofs` | `FunnelKept` | `FunnelInv`: whoever was in the funnel when the application was committed has a document that says so, unless the call that is to say so is still under way or was lost |
| | `AnswersFiled` | `OutreachInv`: a shortlist id names one address wherever it is written down (rows, mails, open forms, pending upserts), because an address is only ever stored together with a new id |
| `OfficeProofs` | `ImportsKept` | `CalendarInv`: what an import is about to erase is of the years of its file |
| | `ExitsClosed` | `ExitsInv`: a ticked task, *or one a request is about to tick*, has its asset back, or the request closes the assignment in the same commit; whoever is about to complete an exit has seen all its assignments closed, and closed they stay |
| | `PayKept` | `SalaryInv`: a structure that a request takes out of force is of a payee it was made to end, or to whom it gives another in the same commit; a batch keeps this at every employee (`RenewGood`), repeated names included |
| | `CompletedEarned` (first part) | `FeedbackInv`: a request works on a row that is there, and no row goes back |
| | `PunchesCounted` | `AttendanceInv`: a punch whose day is still at the revision it loaded is about to store the sums over the punches on file and its own; and `ClockAddsUp`: the loop over the punches counts each worked minute, once |

### Every payslip

A payslip is a function of its claim, so the invariant (`PayslipInv`: a payslip that was drawn is the
computation of its claim) is short and the work is in the lemmas about the operators.

| Module | Theorem | Argument |
|---|---|---|
| `OfficeProofs` | `TaxSettled` | `SlabGood`, `BracketGood`: after each turn of its loop, either walk of the bands has the tax of the bands so far (`InBand`) and stands at the bound the tax band by band would go on from; bands ascend, so what is passed has no more to give. The tax of a band never falls with the income (`BandTaxRises`), and rounding twelve times half a paisa is at most six |
| | `EarningsSum` | `LinesGood`: after each line, the lines written and the ones put aside make up those read, and the sum is the sum of the written ones. Each line is its share to within half a paisa, an exact tie that the cut quotient moves included (`ProratedNear`), so the total is within half a paisa a line (`TotalNear`); and equal shares of the remainder close the CTC (`CtcIsMet`) |
| | `PayslipSound` | `EarningsSum` and, for the statutory lines: rounding to the rupee preserves order, so the pension's part of the PF stays within the whole; either walk of the brackets takes at most half of what lies above the allowance; and the rates of the other lines leave more than that half, but for the half paisa each is rounded by, which the allowance of a rupee covers |

### One request at a time

| Module | Theorem | Inductive invariant |
|---|---|---|
| `CreditLedgerProofs` | `SerialWallet` | the row the worker read is the current row, so each `Commit` is a step of `CreditWallet` and all others stutter |
| | `SerialLedger`, `SerialBilling` | `AInv`: account and ledger tell the same story, up to a cent for every exact tie |
| `PayrollCycleProofs` | `SerialTotals`, `SerialLifecycle` | `SInv`: what a run has loaded is what is on file, what it has summed is the sum over the payslips as they will be, and no payslip is stamped before the cycle is paid; every step maps to one of `PayrollLifecycle` or a stutter |
| `LeaveLedgerProofs` | `SerialDays`, `SerialBalance` | `DInv`: a filing that passed the overlap check still passes it, and the balance a decision will store replaces the one it read and covers what it charges |
| | `SerialAccount` | `EInv`: `used` is the sum of the days the approved requests took, and what a decision will store is charged by `Charge`; every step maps to one of `LeaveAccount` or a stutter |
| `TimesheetsProofs` | `SerialAggregates`, `SerialStamps`, `SerialLifecycle` | `AloneInv`: the sheet a request holds is the stored one but for its own change; its stamps are those of the leave ledger, by the types as they stand, wherever nobody set the day by hand and no change has bypassed it; every step maps to one of `SheetLifecycle` or a stutter |
| `HiringPipelineProofs` | `OneAlone` | `PipeInv`: what the session is about to insert is not there yet, whatever was redelivered |
| `RecruitingProofs` | `RulesAlone` | `RulesInv`: the rules are as the request found them when it drafted |
| | `SlotsAlone` | `SlotsInv`: the slot held is the one the search would find again, and no interview of the window lies after the day it uses |
| | `PostingsAlone`, `ApplicationsAlone` | `BoardInv`, `IntakeInv`: the rows are as the lookup found them; an application is somebody's |
| `OfficeProofs` | `RegisterAlone`, `DocumentAlone`, `CodesAlone`, `CompletedEarned` | `ExitsInv`, `SettingsInv`, `JoinersInv`, `FeedbackInv`: what the request found is still so when it commits; for `CodesAlone`, the code about to be given out is above every code ever given |

### How the proofs deal with data

Sums over sets of any size, folds, batches of any length and the punch clock are all defined by
recursion, and the provers have no induction. The proofs get it from well-ordering instead:
were a claim false, there would be a smallest set (`SmallestSubset`) or number (`LeastMember`) for
which it is, and one step back it holds. `DataLemmas` does this once for sums over finite sets
(`SumRemove`, `SumAdd`, `SumSame`), for lists of rows and for loops: `LoopExists` says that a recursive function of
the form `g[t] = IF t = 0 THEN first ELSE F[g[t - 1], t]` has the values it describes, `LoopKeeps` that what
the first value satisfies and every step keeps, every value satisfies (`WalkKeeps`: with its place). What else the models
compute is stated in lemmas about the operators, next to the proofs that cite them.

### Assumptions

The constants' assumptions are named in the modules, and TLC evaluates them in the runs. They
say what the inputs are: amounts, quotas and bounds are numbers; spans, batches and boards are
sets and lists of the kind the code accepts; there are finitely many desks (`RequestsAssumption`);
and a marker for "no request" is not itself a request (`FunnelAssumption`, `PipelineAssumption`,
`IdleAssumption`). `RulesAssumption` is what income tax needs of the tables and the settings: bands ascend
and the last is open, standard deductions, rebate limits, wage limits and caps are not negative, nor are the rates of the funds (`settings.py:175-188`
of the schemas). `AbroadAssumption` is about the tables of Korea, Japan and the United States, which are constants of
`statutory_intl.py` (`:72-92`, `:145-179`, `:243-262`): their rates stay under round bounds, no bracket takes more than
half, and an allowance comes first. The bounds hold with room for next year's rates. `ClaimsAssumption` has what the schemas check and no more: declared amounts are not
negative (`taxes.py:38-44`), the codes of the PF wage are names, while lines, percentages and the CTC may be below zero. `IsFiniteSet(Days)` in `InputsAssumption`
says that a cycle has finitely many days. None restricts what requests may do or in which order they may do it.

### Only model-checked

* `ScheduledMailSettles`: liveness under fairness is out of the prover's reach.
* The counterexample of `hiring_doc_redelivery`.

Two premises of `PayslipAddsUp` are about what the code lets in. The settings bound each rate of the funds by itself,
so a company may set a pension rate (EPS) above the employer's PF rate, or a pension ceiling above the PF ceiling, and
the employer's own part becomes negative: `PensionFits` excludes that. And lines, which no schema keeps from being negative, may
leave a month whose earnings are below zero, on which shares and taxes are computed all the same.

## 6. Plan

1. **Done**: the four core components with abstract specifications, all four refinements and all
   their safety invariants proved; the hiring pipeline with its worker and the people side in thirteen parts,
   every safety property proved; every payslip's earnings, tax and statutory lines; type correctness of the core.
2. **Should the code change**: the findings of section 4 are the first places to look; a row lock or a
   unique key there turns an `Alone` premise into a property of any overlap.

## 7. Running

    tlc -workers 2 -config Office.cfg MCOffice.tla
    tlapm TimesheetsProofs.tla      # the longest, OfficeProofs, takes ten minutes

Each run takes less than three minutes on two cores; the largest is `timesheets_shared`
(2.6 million states).
