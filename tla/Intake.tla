------------------------------- MODULE Intake -------------------------------
(***************************************************************************)
(* How people come to be candidates of a company and applicants of a job:   *)
(* the careers page (router/enterprise/public.py), a CV uploaded or mailed  *)
(* to a job's address (services/enterprise/job_inbox.py), the sourcing hub, *)
(* the spreadsheet import, the recruiter's own hand (job_workspace.py); and *)
(* how they are taken off, merged, archived and restored                   *)
(* (applications.py, administration.py).                                   *)
(***************************************************************************)
EXTENDS Requests, Integers, Sequences, SequencesExt

CONSTANTS
    JobOf,      \* the company of each job
    Emails,     \* addresses
    NoEmail,    \* a candidate without one
    NoJob,      \* an import that names no job
    MaxPeople,  \* bound: candidates ever stored
    MaxApps,    \* bound: applications ever stored
    MaxMail     \* bound: messages ever delivered

Jobs == DOMAIN JobOf
Companies == {JobOf[j] : j \in Jobs}

VARIABLES
    people,     \* candidates: company, email, and live, archived or purged
    apps,       \* candidate_applications: who, job, deleted_at IS NULL
    mailbox,    \* the shared mailbox: the job and sender of a message, \Seen
    intake      \* what each request is about to write

intakeVars == <<staffed, people, apps, mailbox, intake>>

(* A person of a write is an index of people, or minus an index of w.people. *)
(* A session whose flush was refused is broken: it can write nothing more.   *)
Blank == [people |-> <<>>, apps |-> <<>>, drop |-> {}, move |-> {}, keep |-> 0,
          email |-> NoEmail, state |-> <<>>, broken |-> FALSE]

-----------------------------------------------------------------------------
Rows(co, email) == {i \in DOMAIN people : /\ people[i].co = co /\ people[i].email = email
                                          /\ people[i].state # "purged"}

\* The live candidate with this address, in the table or flushed before.
Match(w, co, email) ==
    IF email = NoEmail THEN {}
    ELSE {i \in Rows(co, email) : people[i].state = "live"}
         \cup {-i : i \in {k \in DOMAIN w.people : w.people[k].email = email}}

LiveApps(who) == {a \in DOMAIN apps : apps[a].who = who /\ apps[a].live}

OnJob(w, who, job) ==
    \/ \E a \in LiveApps(who) : apps[a].job = job
    \/ \E k \in DOMAIN w.apps : w.apps[k].who = who /\ w.apps[k].job = job

Person(co, email) == [co |-> co, email |-> email, state |-> "live"]
Application(who, job) == [who |-> who, job |-> job, live |-> TRUE]

\* Find or insert the person (the address of an archived one is taken), then the application.
Put(w, co, job, email) ==
    LET found == Match(w, co, email)
        who == IF found = {} THEN -(Len(w.people) + 1) ELSE CHOOSE i \in found : TRUE
        with == IF found = {} THEN [w EXCEPT !.people = Append(@, Person(co, email))] ELSE w
    IN  IF w.broken THEN w
        ELSE IF found = {} /\ email # NoEmail /\ Rows(co, email) # {}
        THEN [w EXCEPT !.broken = TRUE]
        ELSE IF job = NoJob \/ OnJob(w, who, job) THEN with
        ELSE [with EXCEPT !.apps = Append(@, Application(who, job))]

-----------------------------------------------------------------------------
Open == {d \in Desks : intake[d] # Idle}

Take(d, w) ==
    /\ d \in staffed /\ intake[d] = Idle /\ ~w.broken
    /\ Len(people) + MapThenSumSet(LAMBDA e : Len(intake[e].people), Open) + Len(w.people) <= MaxPeople
    /\ Len(apps) + MapThenSumSet(LAMBDA e : Len(intake[e].apps), Open) + Len(w.apps) <= MaxApps
    /\ intake' = [intake EXCEPT ![d] = w]

Accept(d, w) == Take(d, w) /\ UNCHANGED <<staffed, people, apps, mailbox>>

\* A CV uploaded for a job, a profile of the sourcing hub, a row of a spreadsheet.
FromCv(d, job, email) == Accept(d, Put(Blank, JobOf[job], job, email))
ImportProfile(d, co, email) == Accept(d, Put(Blank, co, NoJob, email))

AddToJob(d, i, job) ==
    /\ people[i].state = "live" /\ people[i].co = JobOf[job]
    /\ ~OnJob(Blank, i, job)
    /\ Accept(d, [Blank EXCEPT !.apps = <<Application(i, job)>>])

\* The careers page asks for the address alone, and for any application, deleted or not.
CareersApply(d, job, email) ==
    LET found == UNION {Rows(co, email) : co \in Companies}
        past == {a \in DOMAIN apps : apps[a].who \in found /\ apps[a].job = job}
        new == <<Person(JobOf[job], email)>>
        who == IF found = {} THEN -1 ELSE CHOOSE i \in found : TRUE
    IN  /\ Cardinality(found) <= 1 /\ past = {}
        /\ Accept(d, [Blank EXCEPT !.people = IF found = {} THEN new ELSE <<>>,
                                   !.apps = <<Application(who, job)>>])

\* One application, or all of a job when it is deleted.
RemoveApplications(d, gone) == gone # {} /\ Accept(d, [Blank EXCEPT !.drop = gone])

\* Mutant: every application moves over, whatever the kept record has.
MergeAll(d, keep, other) ==
    /\ keep # other /\ people[keep].co = people[other].co
    /\ people[keep].state = "live" /\ people[other].state = "live"
    /\ Accept(d, [Blank EXCEPT
          !.keep = keep, !.state = <<other, "archived">>, !.move = LiveApps(other),
          !.email = IF people[keep].email = NoEmail THEN people[other].email ELSE NoEmail])

Merge(d, keep, other) ==
    LET kept == {apps[a].job : a \in LiveApps(keep)}
    IN  /\ keep # other /\ people[keep].co = people[other].co
        /\ people[keep].state = "live" /\ people[other].state = "live"
        /\ Accept(d, [Blank EXCEPT
              !.keep = keep, !.state = <<other, "archived">>,
              !.move = {a \in LiveApps(other) : apps[a].job \notin kept},
              !.email = IF people[keep].email = NoEmail THEN people[other].email ELSE NoEmail])

Restore(d, i) ==
    people[i].state = "archived" /\ Accept(d, [Blank EXCEPT !.state = <<i, "live">>])

\* The ORM empties candidate_id of the applications first, which the column refuses.
Purge(d, i) ==
    /\ people[i].state = "archived" /\ \A a \in DOMAIN apps : apps[a].who # i
    /\ Accept(d, [Blank EXCEPT !.state = <<i, "purged">>])

-----------------------------------------------------------------------------
(* The mailbox of all jobs. *)

Deliver(job, email) ==
    /\ Len(mailbox) < MaxMail
    /\ mailbox' = Append(mailbox, [job |-> job, email |-> email, seen |-> FALSE])
    /\ UNCHANGED <<staffed, people, apps, intake>>

Unseen == {i \in DOMAIN mailbox : ~mailbox[i].seen}
UnseenOf(job) == {i \in Unseen : mailbox[i].job = job}

\* One message after the other, in one session.
Filed(job) ==
    LET filed[i \in 0 .. Len(mailbox)] ==
            IF i = 0 THEN Blank
            ELSE IF i \in UnseenOf(job)
            THEN Put(filed[i - 1], JobOf[job], job, mailbox[i].email)
            ELSE filed[i - 1]
    IN  filed[Len(mailbox)]

\* Every message is read and marked; those of other jobs are passed over.
CheckInbox(d, job) ==
    /\ d \in staffed /\ intake[d] = Idle /\ Unseen # {}
    /\ mailbox' = [i \in DOMAIN mailbox |-> [mailbox[i] EXCEPT !.seen = TRUE]]
    /\ IF Filed(job).broken \/ UnseenOf(job) = {} THEN UNCHANGED intake ELSE Take(d, Filed(job))
    /\ UNCHANGED <<staffed, people, apps>>

-----------------------------------------------------------------------------
StoredPeople(w) ==
    [i \in DOMAIN people |->
        [people[i] EXCEPT !.email = IF i = w.keep /\ w.email # NoEmail THEN w.email ELSE @,
                          !.state = IF w.state # <<>> /\ w.state[1] = i THEN w.state[2] ELSE @]]
    \o w.people

StoredApps(w) ==
    LET at(who) == IF who < 0 THEN Len(people) - who ELSE who
    IN  [a \in DOMAIN apps |->
            [apps[a] EXCEPT !.live = @ /\ a \notin w.drop,
                            !.who = IF a \in w.move THEN w.keep ELSE @]]
        \o [k \in DOMAIN w.apps |-> [w.apps[k] EXCEPT !.who = at(@)]]

\* uq_candidates_company_email, archived rows included; a purged person takes no application.
Acceptable(ps, as) ==
    /\ \A i, j \in DOMAIN ps :
          (/\ i # j /\ ps[i].co = ps[j].co /\ ps[i].email = ps[j].email
           /\ ps[i].state # "purged" /\ ps[j].state # "purged") => ps[i].email = NoEmail
    /\ \A a \in DOMAIN as : ps[as[a].who].state # "purged"

IntakeCommit(d) ==
    LET w == intake[d]
    IN  /\ w # Idle /\ Acceptable(StoredPeople(w), StoredApps(w))
        /\ people' = StoredPeople(w) /\ apps' = StoredApps(w)
        /\ intake' = [intake EXCEPT ![d] = Idle]
        /\ UNCHANGED <<staffed, mailbox>>

IntakeAbandon(d) ==
    /\ intake[d] # Idle
    /\ intake' = [intake EXCEPT ![d] = Idle]
    /\ UNCHANGED <<staffed, people, apps, mailbox>>

IntakeInit ==
    /\ StaffedInit
    /\ people = <<>> /\ apps = <<>> /\ mailbox = <<>>
    /\ intake = [d \in Desks |-> Idle]

PeopleNext(d) ==
    \/ \E co \in Companies, email \in Emails \cup {NoEmail} : ImportProfile(d, co, email)
    \/ \E i \in DOMAIN people :
          \/ \E job \in Jobs : AddToJob(d, i, job)
          \/ \E other \in DOMAIN people : Merge(d, i, other)
          \/ Restore(d, i)
          \/ Purge(d, i)

JobNext(d) ==
    \E job \in Jobs :
        \/ \E email \in Emails \cup {NoEmail} : FromCv(d, job, email)
        \/ \E email \in Emails : CareersApply(d, job, email)
        \/ RemoveApplications(d, {a \in DOMAIN apps : apps[a].job = job /\ apps[a].live})
        \/ CheckInbox(d, job)

IntakeNext ==
    \/ \E d \in Desks :
          \/ PeopleNext(d)
          \/ JobNext(d)
          \/ \E a \in DOMAIN apps : apps[a].live /\ RemoveApplications(d, {a})
          \/ IntakeCommit(d)
          \/ IntakeAbandon(d)
    \/ \E job \in Jobs, email \in Emails : Deliver(job, email)

IntakeSpec == IntakeInit /\ [][IntakeNext]_intakeVars

-----------------------------------------------------------------------------
(* With one request at a time "one application per (person, job)" holds over  *)
(* every way in and back: the careers page and its own rules, the mailbox,    *)
(* imports, removals, merges and restored people (job_inbox.py:144-145).      *)
OneApplicationPerJob ==
    Alone =>
        \A a, b \in DOMAIN apps :
            (apps[a].live /\ apps[b].live /\ apps[a].who = apps[b].who
             /\ apps[a].job = apps[b].job) => a = b

(* What the mailbox of a job promises, job_inbox.py:5: "anything that lands   *)
(* there becomes a candidate on that job".  Checking one job marks the        *)
(* messages of all as seen, and none of them is read again.                   *)
InboxLosesNothing ==
    \A i \in DOMAIN mailbox :
        (mailbox[i].seen /\ \A d \in Desks : intake[d] = Idle) =>
            \E a \in DOMAIN apps : /\ apps[a].job = mailbox[i].job
                                   /\ people[apps[a].who].email = mailbox[i].email
=============================================================================
