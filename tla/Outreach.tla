------------------------------ MODULE Outreach ------------------------------
(***************************************************************************)
(* The shortlist of one sourcing project and the mails to the people on it: *)
(* router/enterprise/sourcing_chat.py.  The shortlist and the answers are   *)
(* in MongoDB, where each update of one document is atomic and, between the *)
(* server's processes, nothing else is; the replies come from the company's *)
(* mailbox by way of email_logs (imap_service.py).                          *)
(***************************************************************************)
EXTENDS Requests, Integers, Sequences, FiniteSetsExt

CONSTANTS
    Hits,       \* profiles a search comes back with: url and email
    Openings,   \* the jobs people are shortlisted for
    ByHand,     \* statuses set by hand
    MaxSlate,   \* bound: rows ever inserted (one fewer where requests overlap)
    MaxSids     \* bound: shortlistings

Mails == {p.email : p \in Hits}

ASSUME OutreachAssumption ==
    /\ MaxSlate \in Nat /\ MaxSids \in Nat
    /\ ByHand \subseteq {"Not Contacted", "Contacted", "Responded", "Interested", "Not a fit",
                         "Hired", "No Response"}

VARIABLES
    slate,      \* project_shortlists, NoRow once deleted; asked: how old contacted_at is;
                \* replied: the address has a mail in email_logs since then
    sids,       \* shortlist ids given out
    links,      \* engagement links mailed with an id: the id and the addressee
    caller      \* what each request has still to do

outreachVars == <<staffed, slate, sids, links, caller>>

NoRow == [sid |-> 0, url |-> "", email |-> "", opening |-> "", status |-> "",
          asked |-> "never", replied |-> FALSE]

-----------------------------------------------------------------------------
Kept(i) == slate[i] # NoRow
First(set) == IF set = {} THEN 0 ELSE Min(set)
OnSlate(url, opening) ==
    First({i \in DOMAIN slate : slate[i].url = url /\ slate[i].opening = opening})
Named(email, opening) ==
    First({i \in DOMAIN slate : slate[i].email = email /\ slate[i].opening = opening})
InProject(email) == First({i \in DOMAIN slate : slate[i].email = email})

Dials(d, call) ==
    /\ d \in staffed /\ caller[d] = Idle
    /\ caller' = [caller EXCEPT ![d] = call]

HangsUp(d) == caller' = [caller EXCEPT ![d] = Idle]

\* One document, if there is one.
Amended(i, row) == IF i = 0 THEN slate ELSE [slate EXCEPT ![i] = row]

-----------------------------------------------------------------------------
(* The shortlist.  No unique index: an upsert that found nothing inserts.   *)

ShortlistFor(d, p, opening) ==
    /\ sids < MaxSids /\ sids' = sids + 1
    /\ Dials(d, [kind |-> "shortlist", sid |-> sids + 1, p |-> p, opening |-> opening,
                 fresh |-> OnSlate(p.url, opening) = 0])
    /\ UNCHANGED <<staffed, slate, links>>

\* Mutant: a row keeps the id it was first given.
RenewedInPlace(row, c) ==
    [row EXCEPT !.url = c.p.url, !.email = c.p.email, !.status = "Not Contacted"]

Renewed(row, c) ==
    [row EXCEPT !.sid = c.sid, !.url = c.p.url, !.email = c.p.email, !.status = "Not Contacted"]

\* An address that is new to the row may have written before.
StoreShortlisted(d) ==
    LET c == caller[d]
        i == OnSlate(c.p.url, c.opening)
        row == [NoRow EXCEPT !.opening = c.opening]
    IN  /\ c # Idle /\ c.kind = "shortlist"
        /\ \E before \in BOOLEAN :
              IF c.fresh \/ i = 0
              THEN /\ Len(slate) < IF Alone THEN MaxSlate ELSE MaxSlate - 1
                   /\ slate' = Append(slate, [Renewed(row, c) EXCEPT !.sid = c.sid, !.replied = before])
              ELSE /\ slate[i].email = c.p.email => before = slate[i].replied
                   /\ slate' = [slate EXCEPT ![i] = [Renewed(@, c) EXCEPT !.replied = before]]
        /\ HangsUp(d)
        /\ UNCHANGED <<staffed, sids, links>>

\* remove_shortlisted_candidate, update_shortlist_status; move_shortlisted_candidate
\* does not look for another row of the person on the new job.
EditRow(i) ==
    /\ Kept(i)
    /\ \/ slate' = [slate EXCEPT ![i] = NoRow]
       \/ \E status \in ByHand : slate' = [slate EXCEPT ![i].status = status]
       \/ \E opening \in Openings : slate' = [slate EXCEPT ![i].opening = opening]
    /\ UNCHANGED <<staffed, sids, links, caller>>

-----------------------------------------------------------------------------
(* The mails.  What is recorded of one is recorded after it went out.       *)

\* Without a row the link is /engagement/unknown, which nobody can open.
SendJD(d, email, opening) ==
    LET i == Named(email, opening)
    IN  /\ links' = IF i = 0 THEN links ELSE links \cup {[sid |-> slate[i].sid, to |-> email]}
        /\ Dials(d, [kind |-> "sent", email |-> email, opening |-> opening])
        /\ UNCHANGED <<staffed, slate, sids>>

RecordSent(d) ==
    LET c == caller[d]
        i == Named(c.email, c.opening)
    IN  /\ c # Idle /\ c.kind = "sent"
        /\ slate' = Amended(i, [slate[i] EXCEPT !.status = "mail_sent"])
        /\ HangsUp(d)
        /\ UNCHANGED <<staffed, sids, links>>

Contact(d, email) ==
    /\ Dials(d, [kind |-> "contact", email |-> email])
    /\ UNCHANGED <<staffed, slate, sids, links>>

\* Whatever the status was; the marks of an earlier answer go.
RecordContact(d) ==
    LET c == caller[d]
        i == InProject(c.email)
    IN  /\ c # Idle /\ c.kind = "contact"
        /\ slate' = Amended(i, [slate[i] EXCEPT !.status = "Contacted", !.asked = "lately",
                                                !.replied = FALSE])
        /\ HangsUp(d)
        /\ UNCHANGED <<staffed, sids, links>>

-----------------------------------------------------------------------------
(* The answers: the form behind a link, which needs no login.               *)

OpenForm(d, link) ==
    \E i \in DOMAIN slate :
        /\ Kept(i) /\ slate[i].sid = link.sid
        /\ Dials(d, [kind |-> "form", sid |-> link.sid, email |-> slate[i].email, by |-> link.to])
        /\ UNCHANGED <<staffed, slate, sids, links>>

\* The row, and candidate_engagement_data under the address loaded with it.
StoreInterest(d) ==
    LET c == caller[d]
        i == First({k \in DOMAIN slate : Kept(k) /\ slate[k].sid = c.sid})
    IN  /\ c # Idle /\ c.kind = "form"
        /\ slate' = Amended(i, [slate[i] EXCEPT !.status = "Interest Expressed"])
        /\ HangsUp(d)
        /\ UNCHANGED <<staffed, sids, links>>

-----------------------------------------------------------------------------
(* The replies. *)

\* A mail is logged with the time of the sync that fetches it.
SyncReply(email) ==
    /\ slate' = [i \in DOMAIN slate |-> IF slate[i].email = email THEN [slate[i] EXCEPT !.replied = TRUE]
                                        ELSE slate[i]]
    /\ UNCHANGED <<staffed, sids, links, caller>>

\* response_window_days have passed; without a window they never do.
WindowCloses ==
    /\ slate' = [i \in DOMAIN slate |->
                    [slate[i] EXCEPT !.asked = IF @ = "never" THEN @ ELSE "long ago"]]
    /\ UNCHANGED <<staffed, sids, links, caller>>

\* A row never contacted has been answered by any mail there is.
Verdict(row) ==
    CASE row.replied -> "Responded"
      [] ~row.replied /\ row.asked = "long ago" -> "No Response"
      [] OTHER -> row.status

\* check_responses: rows are loaded, the log is awaited, rows are written by _id.
LoadSweep(d) ==
    /\ Dials(d, [kind |-> "sweep",
                 verdict |-> [i \in {k \in DOMAIN slate : slate[k].status = "Contacted"} |->
                                  Verdict(slate[i])]])
    /\ UNCHANGED <<staffed, slate, sids, links>>

\* A row without a verdict is not written.
StoreSweep(d) ==
    LET c == caller[d]
        judged(i) == Kept(i) /\ i \in DOMAIN c.verdict /\ c.verdict[i] # "Contacted"
    IN  /\ c # Idle /\ c.kind = "sweep"
        /\ slate' = [i \in DOMAIN slate |-> IF judged(i) THEN [slate[i] EXCEPT !.status = c.verdict[i]]
                                            ELSE slate[i]]
        /\ HangsUp(d)
        /\ UNCHANGED <<staffed, sids, links>>

\* The mail fails, or the process stops between two steps.
CallDrops(d) ==
    /\ caller[d] # Idle
    /\ HangsUp(d)
    /\ UNCHANGED <<staffed, slate, sids, links>>

-----------------------------------------------------------------------------
OutreachInit ==
    /\ StaffedInit
    /\ slate = <<>> /\ sids = 0 /\ links = {}
    /\ caller = [d \in Desks |-> Idle]

CallerNext(d) ==
    \/ \E p \in Hits, opening \in Openings : ShortlistFor(d, p, opening)
    \/ \E email \in Mails, opening \in Openings : SendJD(d, email, opening)
    \/ \E email \in Mails : Contact(d, email)
    \/ \E link \in links : OpenForm(d, link)
    \/ LoadSweep(d) \/ StoreShortlisted(d) \/ RecordSent(d) \/ RecordContact(d)
    \/ StoreInterest(d) \/ StoreSweep(d) \/ CallDrops(d)

OutreachNext ==
    \/ \E d \in Desks : CallerNext(d)
    \/ \E i \in DOMAIN slate : EditRow(i)
    \/ \E email \in Mails : SyncReply(email)
    \/ WindowCloses

OutreachSpec == OutreachInit /\ [][OutreachNext]_outreachVars

-----------------------------------------------------------------------------
(* The form behind a link has no login, and what it takes is filed under    *)
(* the address of the row it finds (sourcing_chat.py:446): with any overlap *)
(* of mailing, shortlisting again under a corrected address, moving and      *)
(* answering, a link finds only the row of the one it was mailed to, and     *)
(* answers are filed under the address of whoever gave them.                 *)
AnswersAreTheirs ==
    /\ \A link \in links : \A i \in DOMAIN slate :
          (Kept(i) /\ slate[i].sid = link.sid) => slate[i].email = link.to
    /\ \A d \in Desks :
          (caller[d] # Idle /\ caller[d].kind = "form") => caller[d].email = caller[d].by

(* The price: "Find the shortlist entry to get the shortlist_id"             *)
(* (sourcing_chat.py:494), which the next shortlisting of the person         *)
(* replaces.  The link in the mail finds nothing any more.                  *)
LinksLead ==
    \A link \in links :
        (\E i \in DOMAIN slate : slate[i].email = link.to)
            => \E i \in DOMAIN slate : Kept(i) /\ slate[i].sid = link.sid

(* "Any candidate still 'Contacted' who hasn't replied" (sourcing_chat.py:   *)
(* 819) is flagged; the row is written whatever it has become since.         *)
InterestStands ==
    [][\A i \in DOMAIN slate :
          slate[i].status = "Interest Expressed" => slate'[i].status # "No Response"]_outreachVars

(* "a candidate who replied is marked 'Responded'" (sourcing_chat.py:847);   *)
(* a reply synced after the sweep is not looked at.                          *)
SilentHaveNotReplied ==
    \A i \in DOMAIN slate : slate[i].status = "No Response" => ~slate[i].replied

(* "Avoid duplicate shortlists for same profile in same job"                 *)
(* (sourcing_chat.py:255).                                                  *)
OneRowPerProfile ==
    \A i, j \in DOMAIN slate :
        (Kept(i) /\ Kept(j) /\ slate[i].url = slate[j].url /\ slate[i].opening = slate[j].opening)
            => i = j
=============================================================================
