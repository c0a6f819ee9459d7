------------------------------ MODULE JobBoard ------------------------------
(***************************************************************************)
(* One job between its editors and the boards it is published on:          *)
(* router/enterprise/jobs.py, job_portals.py and the archive of             *)
(* administration.py.  The connections of a company are in MongoDB, outside *)
(* the transaction.                                                        *)
(***************************************************************************)
EXTENDS Requests, Integers, Sequences, SequencesExt

CONSTANTS
    BoardOf,      \* resolve_key: the board behind each name a request may use
    Asks,         \* the lists of names published at once
    Keyed,        \* boards that take a job only with stored credentials
    MaxPostings   \* bound: posting rows ever inserted

Names == DOMAIN BoardOf
Boards == {BoardOf[n] : n \in Names}

ASSUME JobBoardAssumption ==
    /\ MaxPostings \in Nat /\ Keyed \subseteq Boards
    /\ Asks \subseteq Seq(Names)

VARIABLES
    job,        \* life: live, deleted (deleted_at) or purged; open: status Active or Open
    postings,   \* job_postings: board, counted by the feed as live, still there
    connected,  \* boards with a connection in MongoDB
    applied,    \* somebody has applied to it
    seat        \* what each request is about to write

boardVars == <<staffed, job, postings, connected, applied, seat>>

-----------------------------------------------------------------------------
On(board) == {i \in DOMAIN postings : postings[i].here /\ postings[i].board = board}

\* Mutant: the row is looked up under the name the request used.
FoundByName(n) == On(n)

Found(n) == On(BoardOf[n])

Listed(board) == board \notin Keyed \/ board \in connected

Publishing == {d \in Desks : seat[d] # Idle /\ seat[d].kind = "publish"}

Sit(d, work) ==
    /\ d \in staffed /\ seat[d] = Idle
    /\ seat' = [seat EXCEPT ![d] = work]
    /\ UNCHANGED <<staffed, job, postings, connected, applied>>

-----------------------------------------------------------------------------
(* The boards. *)

Posting(n) == [board |-> BoardOf[n], live |-> Listed(BoardOf[n]), here |-> TRUE]

\* No autoflush: a row added for one name is not found for the next.  Nothing reads
\* the order of the rows of one request.
Publish(d, ask) ==
    LET fresh == SetToSeq({k \in DOMAIN ask : Found(ask[k]) = {}})
        rows == [k \in DOMAIN fresh |-> Posting(ask[fresh[k]])]
        kept == UNION {Found(n) : n \in Range(ask)}
        pending == UNION {{d2} \X DOMAIN seat[d2].rows : d2 \in Publishing}
    IN  /\ job.life = "live" /\ job.open
        /\ \A n \in Range(ask) : Cardinality(Found(n)) <= 1     \* scalar_one_or_none
        /\ Len(postings) + Cardinality(pending) + Len(rows) <= MaxPostings
        /\ Sit(d, [kind |-> "publish", rows |-> rows,
                   kept |-> [i \in kept |-> Listed(postings[i].board)]])

Unpublish(d, n) ==
    /\ job.life = "live"
    /\ \E i \in Found(n) : Found(n) = {i} /\ Sit(d, [kind |-> "drop", at |-> i])

Connect(board) ==
    /\ board \in Keyed
    /\ connected' = connected \cup {board}
    /\ UNCHANGED <<staffed, job, postings, applied, seat>>

Disconnect(board) ==
    /\ board \in connected
    /\ connected' = connected \ {board}
    /\ UNCHANGED <<staffed, job, postings, applied, seat>>

-----------------------------------------------------------------------------
(* The job. *)

\* Only a column that changes is written.
UpdateJob(d) == job.life = "live" /\ Sit(d, [kind |-> "status", open |-> ~job.open])
DeleteJob(d) == job.life = "live" /\ Sit(d, [kind |-> "life", to |-> "deleted"])
RestoreJob(d) == job.life = "deleted" /\ Sit(d, [kind |-> "life", to |-> "live"])
PurgeJob(d) == job.life = "deleted" /\ Sit(d, [kind |-> "life", to |-> "purged"])

BoardStored(w) ==
    LET kept(i) == CASE w.kind = "publish" /\ i \in DOMAIN w.kept ->
                          [postings[i] EXCEPT !.live = w.kept[i]]
                     [] w.kind = "drop" /\ i = w.at -> [postings[i] EXCEPT !.here = FALSE]
                     [] w.kind = "life" /\ w.to = "purged" -> [postings[i] EXCEPT !.here = FALSE]
                     [] OTHER -> postings[i]
    IN  [i \in DOMAIN postings |-> kept(i)]
        \o (IF w.kind = "publish" THEN w.rows ELSE <<>>)

\* A row that is gone is not updated; the ORM empties job_requirement_id of the
\* applications of a job it deletes, which the column refuses.
BoardStorable(w) ==
    /\ job.life # "purged"
    /\ w.kind = "publish" => \A i \in DOMAIN w.kept : postings[i].here
    /\ (w.kind = "life" /\ w.to = "purged") => ~applied

CommitJob(d) ==
    LET w == seat[d]
    IN  /\ w # Idle /\ BoardStorable(w)
        /\ postings' = BoardStored(w)
        /\ job' = [life |-> IF w.kind = "life" THEN w.to ELSE job.life,
                   open |-> IF w.kind = "status" THEN w.open ELSE job.open]
        /\ seat' = [seat EXCEPT ![d] = Idle]
        /\ UNCHANGED <<staffed, connected, applied>>

LeaveSeat(d) ==
    /\ seat[d] # Idle
    /\ seat' = [seat EXCEPT ![d] = Idle]
    /\ UNCHANGED <<staffed, job, postings, connected, applied>>

\* Intake has the ways to apply; their rows stay in the table whatever becomes of them.
SomebodyApplies ==
    /\ job.life = "live" /\ applied' = TRUE
    /\ UNCHANGED <<staffed, job, postings, connected, seat>>

-----------------------------------------------------------------------------
JobBoardInit ==
    /\ StaffedInit
    /\ job = [life |-> "live", open |-> TRUE]
    /\ postings = <<>> /\ connected = {} /\ applied = FALSE
    /\ seat = [d \in Desks |-> Idle]

BoardsNext(d) ==
    \/ \E ask \in Asks : Publish(d, ask)
    \/ \E n \in Names : Unpublish(d, n)
    \/ UpdateJob(d) \/ DeleteJob(d) \/ RestoreJob(d) \/ PurgeJob(d)
    \/ CommitJob(d) \/ LeaveSeat(d)

JobBoardNext ==
    \/ \E d \in Desks : BoardsNext(d)
    \/ \E board \in Boards : Connect(board) \/ Disconnect(board)
    \/ SomebodyApplies

JobBoardSpec == JobBoardInit /\ [][JobBoardNext]_boardVars

-----------------------------------------------------------------------------
(* "Persist the outcome on a per-(job, portal) JobPosting row" (jobs.py:612) *)
(* holds, with one request at a time and no board named twice in it, over    *)
(* every history of publishing again, under old names too, taking off,       *)
(* closing, deleting and restoring.  A second row is more than untidy: the   *)
(* board can neither be published to nor left from then on.                  *)
NamedOnce == \A ask \in Asks : Cardinality({BoardOf[n] : n \in Range(ask)}) = Len(ask)
OnePostingPerBoard == (Alone /\ NamedOnce) => \A board \in Boards : Cardinality(On(board)) <= 1

(* "If the job is not publicly listed, none of them can see it" (jobs.py:578)*)
(* is not so for the boards that read the feed: a job closed after it was    *)
(* published stays in it (public_feeds.py:48-54).                            *)
InFeed == job.life = "live" /\ \E i \in DOMAIN postings : postings[i].here /\ postings[i].live
FeedIsOpen == InFeed => job.open
=============================================================================
