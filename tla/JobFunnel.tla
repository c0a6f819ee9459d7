----------------------------- MODULE JobFunnel -----------------------------
(***************************************************************************)
(* The people a company seeks out for one job, from the shortlist to their  *)
(* application: services/enterprise/sourcing/job_sourcing.py and the        *)
(* handlers that call it.  The funnel is in MongoDB, one document per job   *)
(* and key, and every call of it is one atomic update; mails go out and     *)
(* applications are committed outside of it, before it hears of them.       *)
(***************************************************************************)
EXTENDS Requests

CONSTANTS
    Profiles,   \* the people found: email (or NoAddress) and profile url
    NoAddress   \* a profile without an address

Addresses == {p.email : p \in Profiles} \ {NoAddress}

KeyOf(p) == IF p.email # NoAddress THEN p.email ELSE p.url

Keys == {KeyOf(p) : p \in Profiles}

\* What a request may hold while it is at work.
Errands == [kind : {"invite", "flip", "apply", "mark"}, key : Keys,
            how : {"none", "sent", "failed"}]

ASSUME FunnelAssumption == Idle \notin Errands

VARIABLES
    page,       \* the job: not deleted, and its status Active or Open
    funnel,     \* job_sourced_candidates: status and applied, by key
    applicants, \* addresses that applied: in the funnel by then, or strangers to it
    unmarked,   \* addresses whose application the funnel never heard of
    scout       \* what each request has done and not yet recorded

funnelVars == <<staffed, page, funnel, applicants, unmarked, scout>>

Absent == [status |-> "none", applied |-> FALSE]

-----------------------------------------------------------------------------
(* The updates of the collection. *)

\* Mutant: the document of an invited person is written afresh.
InvitedAfresh(row, how) == [status |-> how, applied |-> FALSE]

Invited(row, how) == [row EXCEPT !.status = how]

Shortlisted(row) == IF row = Absent THEN [Absent EXCEPT !.status = "shortlisted"] ELSE row

Flipped(row, how) == IF row = Absent THEN row ELSE [row EXCEPT !.status = how]

Marked(row) == IF row = Absent THEN row ELSE [row EXCEPT !.applied = TRUE]

-----------------------------------------------------------------------------
ScoutGoes(d, work) ==
    /\ d \in staffed /\ scout[d] = Idle
    /\ scout' = [scout EXCEPT ![d] = work]

\* Status edits, deletion and the archive.
EditPage ==
    /\ \/ page' = [page EXCEPT !.live = ~@]
       \/ page.live /\ page' = [page EXCEPT !.open = ~@]
    /\ UNCHANGED <<staffed, funnel, applicants, unmarked, scout>>

\* Nothing of the job is looked at.
Shortlist(d, p) ==
    /\ d \in staffed /\ scout[d] = Idle
    /\ funnel' = [funnel EXCEPT ![KeyOf(p)] = Shortlisted(@)]
    /\ UNCHANGED <<staffed, page, applicants, unmarked, scout>>

\* invite-candidate, send-form and the agents' invites: the mail goes first, and without
\* an address it has failed.  The agents do not ask whether the job is deleted.
Invite(d, p) ==
    /\ \E how \in {"sent", "failed"} :
          /\ p.email = NoAddress => how = "failed"
          /\ ScoutGoes(d, [kind |-> "invite", key |-> KeyOf(p), how |-> how])
    /\ UNCHANGED <<staffed, page, funnel, applicants, unmarked>>

\* From the Profile Sourcing tab: a document that is not there is not made.
SendSourcedInvite(d, p) ==
    /\ page.live
    /\ \E how \in {"sent", "failed"} :
          ScoutGoes(d, [kind |-> "flip", key |-> KeyOf(p), how |-> how])
    /\ UNCHANGED <<staffed, page, funnel, applicants, unmarked>>

\* The public form.
LoadApplication(d, e) ==
    /\ page.live /\ page.open /\ applicants[e] = "none"
    /\ ScoutGoes(d, [kind |-> "apply", key |-> e, how |-> "none"])
    /\ UNCHANGED <<staffed, page, funnel, applicants, unmarked>>

\* The unique index admits one application of an address.
CommitApplication(d) ==
    LET e == scout[d].key
    IN  /\ scout[d] # Idle /\ scout[d].kind = "apply" /\ applicants[e] = "none"
        /\ applicants' = [applicants EXCEPT ![e] = IF funnel[e] = Absent THEN "stranger" ELSE "known"]
        /\ scout' = [scout EXCEPT ![d].kind = "mark"]
        /\ UNCHANGED <<staffed, page, funnel, unmarked>>

\* record_invites, mark_invite_sent or mark_applied.
Record(d) ==
    LET w == scout[d]
    IN  /\ w # Idle /\ w.kind # "apply"
        /\ funnel' = [funnel EXCEPT ![w.key] = CASE w.kind = "invite" -> Invited(@, w.how)
                                                 [] w.kind = "flip" -> Flipped(@, w.how)
                                                 [] w.kind = "mark" -> Marked(@)]
        /\ scout' = [scout EXCEPT ![d] = Idle]
        /\ UNCHANGED <<staffed, page, applicants, unmarked>>

\* MongoDB does not answer, the request is cut off, or its commit is refused.
ScoutLeaves(d) ==
    LET w == scout[d]
    IN  /\ w # Idle
        /\ unmarked' = IF w.kind = "mark" THEN unmarked \cup {w.key} ELSE unmarked
        /\ scout' = [scout EXCEPT ![d] = Idle]
        /\ UNCHANGED <<staffed, page, funnel, applicants>>

-----------------------------------------------------------------------------
FunnelInit ==
    /\ StaffedInit
    /\ page = [live |-> TRUE, open |-> TRUE]
    /\ funnel = [k \in Keys |-> Absent]
    /\ applicants = [e \in Addresses |-> "none"] /\ unmarked = {}
    /\ scout = [d \in Desks |-> Idle]

FunnelNext ==
    \/ EditPage
    \/ \E d \in Desks :
          \/ \E p \in Profiles : Shortlist(d, p) \/ Invite(d, p) \/ SendSourcedInvite(d, p)
          \/ \E e \in Addresses : LoadApplication(d, e)
          \/ CommitApplication(d) \/ Record(d) \/ ScoutLeaves(d)

FunnelSpec == FunnelInit /\ [][FunnelNext]_funnelVars

-----------------------------------------------------------------------------
(* Whoever was in the funnel when the application was committed is shown as *)
(* having applied (job_sourcing.py:181), once the call that says so is over *)
(* and MongoDB answered it: no later invite or shortlist, and none that was *)
(* under way, takes it back, with any overlap ("so re-shortlisting an       *)
(* already-invited candidate doesn't wipe their invite/applied status",     *)
(* job_sourcing.py:138).                                                   *)
Marking(e) == \E d \in Desks : scout[d] # Idle /\ scout[d].kind = "mark" /\ scout[d].key = e
FunnelKeepsUp ==
    \A e \in Addresses \ unmarked : (applicants[e] = "known" /\ ~Marking(e)) => funnel[e].applied
=============================================================================
